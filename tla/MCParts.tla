------------------------------ MODULE MCParts ------------------------------
(***************************************************************************)
(* The parts of the program in which one thread works on its own data, for *)
(* TLC: the lists of the store, the server's configuration file and the    *)
(* client's command line.  They share nothing: in each behaviour one of    *)
(* them runs, and the other two stay where they start.                     *)
(***************************************************************************)
EXTENDS HashTable, Config, CommandLine

CONSTANTS a, b, c1, c2

VARIABLE part

UpTo(n, S) == UNION { [1 .. k -> S] : k \in 0 .. n }

-----------------------------------------------------------------------------
(* The hash table: both names fall into the first of two buckets.          *)

TwoBuckets == {0, 1}
SameBucket == [n \in Names |-> 0]

-----------------------------------------------------------------------------
(* Configuration files: the one the server wants, with lines moved,        *)
(* repeated, left out, cut short or holding another value.                 *)

Wanted == [k \in DOMAIN Keys |-> [key |-> Keys[k], value |-> k]]
Odd == {0, 4096, 3000, NoValue}
SomeLines == Range(Wanted) \cup { [key |-> Keys[k], value |-> v] : k \in {1, 2, 4}, v \in Odd }
             \cup {[key |-> "comment", value |-> NoValue], [key |-> "page_size", value |-> 4194304]}
ConfigFiles ==
    {<<>>, Wanted}
    \cup { RemoveAt(Wanted, k) : k \in DOMAIN Keys }
    \cup { ReplaceAt(Wanted, k, l) : k \in DOMAIN Keys, l \in SomeLines }
    \cup { InsertAt(Wanted, k, l) : k \in DOMAIN Keys, l \in SomeLines }
    \cup { [k \in DOMAIN Keys |-> Wanted[p[k]]] : p \in Permutations(DOMAIN Keys) }

-----------------------------------------------------------------------------
(* Command lines: any four arguments after the connection, any two in all, *)
(* and one -w through every small tree of directories.                     *)

NumberOf == [w \in {"n=-2", "n=0", "n=1", "n=2", "n=3"} |->
                IF w = "n=-2" THEN -2 ELSE CHOOSE n \in 0 .. 3 : w = <<"n=0", "n=1", "n=2", "n=3">>[n + 1]]
Words == {"x,y", ",", "dir", "n=2"}
NamesIn == [w \in Words \cup DOMAIN NumberOf \cup {"s"} |-> CASE w = "x,y" -> <<"x", "y">> [] w = "," -> <<>> [] OTHER -> <<w>>]
DirectoryNamed == [w \in {"dir"} |-> 1]
AllDirectories == 1 .. 3

OneFile == <<<<Regular>>, <<>>, <<>>>>
Idle == [argv |-> <<>>, contents |-> OneFile, unreadable |-> {}, answers |-> {0}]

Connected == <<"-f", "s">>
AnyArguments ==
    { Connected \o t : t \in [1 .. 4 -> {"-r", "-R", "-d", "-w", "-W", "x,y", "dir", "n=2"}] }
    \cup { t \o Connected : t \in UpTo(2, Options \cup Words) }
    \cup { Connected \o t : t \in UpTo(2, Options \cup Words) }

SendArguments == { Connected \o <<"-w">> \o n \o <<"dir">> : n \in UpTo(1, DOMAIN NumberOf) }
Times(t, d) == Cardinality({ k \in (1 .. 3) \X (1 .. 3) : k[2] <= Len(t[k[1]]) /\ t[k[1]][k[2]] = d })
SmallTrees ==
    { t \in { <<r, p, q>> : r \in UpTo(3, {Regular, 2, 3}), p \in UpTo(2, {Regular, 3}), q \in UpTo(2, {Regular}) } :
        Times(t, 2) <= 1 /\ Times(t, 3) <= 1 }

CommandLines ==
    { [argv |-> v, contents |-> OneFile, unreadable |-> {}, answers |-> {0, -1}] : v \in AnyArguments }
    \cup { [argv |-> v, contents |-> t, unreadable |-> u, answers |-> {0}] :
             v \in SendArguments, t \in SmallTrees, u \in SUBSET {2, 3} }

(* One -w with a number, where main looks for it, and directories that can *)
(* all be read.                                                            *)
SendLines ==
    { [argv |-> v, contents |-> t, unreadable |-> {}, answers |-> {0}] : v \in SendArguments, t \in SmallTrees }

-----------------------------------------------------------------------------

PartsInit ==
    /\ HashInit
    /\ \/ part = "lists" /\ ConfigStart(<<>>) /\ ArgsStart(Idle)
       \/ part = "config" /\ ConfigInit /\ ArgsStart(Idle)
       \/ part = "arguments" /\ ConfigStart(<<>>) /\ ArgsInit

PartsNext ==
    /\ \/ part = "lists" /\ HashNext /\ UNCHANGED <<configVars, argVars>>
       \/ part = "config" /\ configGetAll /\ UNCHANGED <<hashVars, argVars>>
       \/ part = "arguments" /\ ArgsNext /\ UNCHANGED <<hashVars, configVars>>
    /\ UNCHANGED part

partsVars == <<hashVars, configVars, argVars, part>>

PartsSpec == PartsInit /\ [][PartsNext]_partsVars

=============================================================================
