---------------------------- MODULE RecordTable ----------------------------
(***************************************************************************)
(* What the hash table and the lists of clients promise (FileMemory.c): of *)
(* each name the records that have it, the newest first, and of each       *)
(* record how often each client has opened it, from fileInit to fileFree.  *)
(* This is how FileMemory uses them; HashTable refines it with buckets and *)
(* linked cells.                                                           *)
(***************************************************************************)
EXTENDS Naturals, Sequences

CONSTANTS Clients, Names, FileIds

VARIABLES
    entries,     \* entries[n]: the records with name n
    live,        \* the records there are, in the table or about to be freed
    opened,      \* opened[f][c]
    taken        \* the records out of the table and not freed yet, each with
                 \* the name that was looked up

tableVars == <<entries, live, opened, taken>>

InTable == UNION { { entries[n][i] : i \in DOMAIN entries[n] } : n \in Names }
Nobody == [c \in Clients |-> 0]

TableInit ==
    /\ entries = [n \in Names |-> <<>>]
    /\ live = {}
    /\ opened = [f \in FileIds |-> Nobody]
    /\ taken = {}

Add(n, f) ==
    /\ f \notin live
    /\ entries' = [entries EXCEPT ![n] = <<f>> \o @]
    /\ live' = live \cup {f}
    /\ UNCHANGED <<opened, taken>>

Remove(n) ==
    /\ entries[n] # <<>>
    /\ entries' = [entries EXCEPT ![n] = Tail(@)]
    /\ taken' = taken \cup {<<n, Head(entries[n])>>}
    /\ UNCHANGED <<live, opened>>

Free(f) ==
    /\ f \in live \ InTable
    /\ live' = live \ {f}
    /\ opened' = [opened EXCEPT ![f] = Nobody]
    /\ taken' = { t \in taken : t[2] # f }
    /\ UNCHANGED entries

Open(f, c) ==
    /\ f \in live
    /\ opened' = [opened EXCEPT ![f][c] = @ + 1]
    /\ UNCHANGED <<entries, live, taken>>

Close(f, c) ==
    /\ f \in live
    /\ opened' = [opened EXCEPT ![f][c] = IF @ = 0 THEN 0 ELSE @ - 1]
    /\ UNCHANGED <<entries, live, taken>>

TableNext ==
    \/ \E n \in Names : Remove(n) \/ \E f \in FileIds : Add(n, f)
    \/ \E f \in FileIds : Free(f) \/ \E c \in Clients : Open(f, c) \/ Close(f, c)

TableSpec == TableInit /\ [][TableNext]_tableVars

=============================================================================
