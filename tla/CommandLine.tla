---------------------------- MODULE CommandLine ----------------------------
(***************************************************************************)
(* client.c: main reads its arguments twice, first for the connection and  *)
(* then for the commands, and calls the API; -w walks through a directory. *)
(* What the API answers to a call is any answer in "answers".  An argument *)
(* is a string: one of Options, the only ones that start with "-", or a    *)
(* word.  Printing and the delay of -t are left out.                       *)
(***************************************************************************)
EXTENDS Integers, SequencesExt, FiniteSetsExt

CONSTANTS
    Number,        \* [words "n=k" -> k]; atoi's -1 for "n=-1" is as no number
    ListOf,        \* [words -> the names strtok_r finds between commas]
    DirectoryOf,   \* [words that are a directory -> that directory]
    Directories,   \* it and all the directories in it, not 0
    Cases          \* what Init takes: [argv, contents, unreadable, answers]

Options == {"-f", "-h", "-r", "-R", "-d", "-w", "-W", "-c", "-t"}
Regular == 0
Places == Directories \X (Nat \ {0})

(* No directory lies in itself, however deep: a walk ends.                 *)
Nested(c) ==
    \E depth \in [Directories -> 0 .. Cardinality(Directories)] :
        \A d \in Directories : \A k \in DOMAIN c[d] : c[d][k] # Regular => depth[c[d][k]] < depth[d]

ASSUME CommandLineAssumption ==
    /\ DOMAIN Number \cap Options = {}
    /\ \A w \in DOMAIN Number : Number[w] \in Int \ {-1}
    /\ \A w \in DOMAIN ListOf : ListOf[w] \in Seq(STRING)
    /\ \A w \in DOMAIN DirectoryOf : DirectoryOf[w] \in Directories
    /\ IsFiniteSet(Directories) /\ Regular \notin Directories
    /\ \A k \in Cases :
          /\ k.argv \in Seq(Options \cup DOMAIN ListOf) /\ k.answers \subseteq {0, -1}
          /\ k.contents \in [Directories -> Seq(Directories \cup {Regular})] /\ Nested(k.contents)

VARIABLES
    argv,          \* the command line
    contents,      \* contents[d]: the entries readdir returns, in order:
                   \*   Regular for a file, or a directory
    unreadable,    \* the directories opendir refuses
    answers,       \* a subset of {0, -1}
    step,          \* "connecting", "commands", "closed", "exited"
    i,             \* main's i
    sock_name, client_socket_name,   \* NoName when not set
    todo,          \* the API calls the current function still makes
    opened,        \* opened[x]: how often the server has x open for us
    stack,         \* the calls of sendFilesDirectory, the innermost first
    asked,         \* what each command asked for
    sent,          \* the files of the last -w that were written, in order
    missed         \* missed[x]: how many calls on x failed that end with x closed

argVars == <<argv, contents, unreadable, answers, step, i, sock_name, client_socket_name, todo, opened, stack, asked, sent, missed>>
environment == <<argv, contents, unreadable, answers>>

NoName == "none"
Files == (UNION { Range(ListOf[w]) : w \in DOMAIN ListOf }) \cup {"file", NoName}

ArgsStart(k) ==
    /\ argv = k.argv /\ contents = k.contents
    /\ unreadable = k.unreadable /\ answers = k.answers
    /\ step = "connecting" /\ i = 1
    /\ sock_name = NoName /\ client_socket_name = NoName
    /\ todo = <<>> /\ stack = <<>> /\ asked = <<>> /\ sent = <<>>
    /\ opened = [x \in Files |-> 0] /\ missed = [x \in Files |-> 0]

ArgsInit == \E k \in Cases : ArgsStart(k)

-----------------------------------------------------------------------------
(* What main asks of the arguments.                                        *)

validFileParam(k) == k <= Len(argv) /\ argv[k] \notin Options
validOpParam(k, o) == k <= Len(argv) /\ argv[k] = o
validNumParam(k) == IF k <= Len(argv) /\ argv[k] \in DOMAIN Number THEN Number[argv[k]] ELSE -1
checkDir(k) == argv[k] \in DOMAIN DirectoryOf

-----------------------------------------------------------------------------
(* The first loop.  openConnection does nothing when a connection is there. *)

Exits ==
    /\ step' = "exited"
    /\ UNCHANGED <<i, sock_name, client_socket_name>>

openConnection ==
    \E n \in answers :
        IF n = -1 /\ client_socket_name = NoName THEN Exits
        ELSE /\ i' = i + 2
             /\ sock_name' = argv[i + 1]
             /\ client_socket_name' = IF client_socket_name = NoName THEN argv[i + 1] ELSE client_socket_name
             /\ UNCHANGED step

ReadConnection ==
    /\ step = "connecting"
    /\ \/ /\ i > Len(argv)
          /\ IF client_socket_name = NoName THEN Exits
             ELSE step' = "commands" /\ i' = 1 /\ UNCHANGED <<sock_name, client_socket_name>>
       \/ i <= Len(argv) /\ argv[i] = "-h" /\ Exits
       \/ i <= Len(argv) /\ argv[i] = "-f" /\ IF validFileParam(i + 1) THEN openConnection ELSE Exits
       \/ /\ i <= Len(argv) /\ argv[i] \notin {"-h", "-f"}
          /\ i' = i + 1
          /\ UNCHANGED <<step, sock_name, client_socket_name>>
    /\ UNCHANGED <<environment, todo, opened, stack, asked, sent, missed>>

-----------------------------------------------------------------------------
(* The second loop.  A list with no name in it still makes the calls once, *)
(* with NULL.                                                              *)

NamesOf(w) == IF ListOf[w] = <<>> THEN <<NoName>> ELSE ListOf[w]
ForEach(names, ops) ==
    [k \in 1 .. Len(names) * Len(ops) |->
        [op |-> ops[((k - 1) % Len(ops)) + 1], name |-> names[((k - 1) \div Len(ops)) + 1]]]

(* The command at i: the last argument that belongs to it, the function it *)
(* calls with the argument that names the files, "nothing" if it is not    *)
(* launched, and the calls of the API that makes.                          *)
Runs(last, f, w, n, calls) ==
    /\ i' = last + 1
    /\ asked' = IF f = "nothing" THEN asked ELSE Append(asked, [at |-> i, run |-> f, word |-> w, n |-> n])
    /\ todo' = calls
    /\ UNCHANGED <<stack, sent>>
NotLaunched(last) == Runs(last, "nothing", NoName, 0, <<>>)

readFileList(last) ==
    Runs(last, "readFileList", argv[i + 1], 0,
         ForEach(NamesOf(argv[i + 1]), <<"openFile", "readFile", "closeFile">>))

CommandRead ==
    /\ argv[i] = "-r"
    /\ \/ ~validFileParam(i + 1) /\ NotLaunched(i)
       \/ validFileParam(i + 1) /\ ~validOpParam(i + 2, "-d") /\ readFileList(i + 1)
       \/ /\ validFileParam(i + 1) /\ validOpParam(i + 2, "-d")
          /\ \/ ~validFileParam(i + 3) /\ NotLaunched(i + 2)
             \/ validFileParam(i + 3) /\ checkDir(i + 3) /\ readFileList(i + 3)
             \/ validFileParam(i + 3) /\ ~checkDir(i + 3) /\ NotLaunched(i + 3)

(* n=k, when it is there, is the argument after the command.               *)
withNumber == IF validNumParam(i + 1) = -1 THEN i ELSE i + 1

readNFiles(last) ==
    LET n == validNumParam(i + 1)
    IN  Runs(last, "readNFiles", NoName, IF n = -1 THEN 0 ELSE n, <<[op |-> "readNFiles", name |-> NoName]>>)

refusedTaken(k) == k + 2                              \* mutant: the directory counted in
refused(k) == k + 1

CommandReadN ==
    /\ argv[i] = "-R"
    /\ LET k == withNumber
       IN  \/ ~validOpParam(k + 1, "-d") /\ readNFiles(k)
           \/ /\ validOpParam(k + 1, "-d")
              /\ IF validFileParam(k + 2) /\ checkDir(k + 2) THEN readNFiles(k + 2) ELSE NotLaunched(refused(k))

CommandWrite ==
    /\ argv[i] = "-W"
    /\ IF validFileParam(i + 1)
       THEN Runs(i + 1, "writeFileList", argv[i + 1], 0,
                 ForEach(NamesOf(argv[i + 1]), <<"openFile", "writeFile", "closeFile">>))
       ELSE NotLaunched(i)

CommandRemove ==
    /\ argv[i] = "-c"
    /\ IF validFileParam(i + 1)
       THEN Runs(i + 1, "removeFileList", argv[i + 1], 0,
                 ForEach(NamesOf(argv[i + 1]), <<"openFile", "removeFile">>))
       ELSE NotLaunched(i)

(* -t and its delay; anything else is skipped one argument at a time.      *)
CommandOther ==
    \/ argv[i] = "-t" /\ NotLaunched(IF validFileParam(i + 1) THEN i + 1 ELSE i)
    \/ argv[i] \notin {"-r", "-R", "-w", "-W", "-c", "-t"} /\ NotLaunched(i)

-----------------------------------------------------------------------------
(* sendFilesDirectory.  n = -1: no limit.                                  *)

Frame(d, n) == [dir |-> d, pos |-> 1, n |-> n, sent_f |-> 0]

CommandSend ==
    /\ argv[i] = "-w"
    /\ LET k == withNumber
           n == IF validNumParam(i + 1) = 0 THEN -1 ELSE validNumParam(i + 1)
       IN  IF ~validFileParam(k + 1) THEN NotLaunched(k)
           ELSE /\ i' = k + 2
                /\ asked' = Append(asked, [at |-> i, run |-> "sendFilesDirectory", word |-> argv[k + 1], n |-> n])
                /\ stack' = IF checkDir(k + 1) /\ DirectoryOf[argv[k + 1]] \notin unreadable
                            THEN <<Frame(DirectoryOf[argv[k + 1]], n)>> ELSE <<>>
                /\ sent' = <<>>
                /\ UNCHANGED todo

Commands ==
    /\ step = "commands" /\ todo = <<>> /\ stack = <<>>
    /\ i <= Len(argv)
    /\ CommandRead \/ CommandReadN \/ CommandWrite \/ CommandRemove \/ CommandSend \/ CommandOther
    /\ UNCHANGED <<environment, step, sock_name, client_socket_name, opened, missed>>

top == stack[1]
(* The frames left when the innermost call returns v.                      *)
returned(frames, v) ==
    IF Len(frames) = 1 THEN <<>> ELSE [Tail(frames) EXCEPT ![1].sent_f = @ + v]
entryRead == [stack EXCEPT ![1].pos = @ + 1]
overEarly == top.n # -1 /\ top.sent_f + 1 >= top.n       \* mutant: >= for >
over == top.n # -1 /\ top.sent_f + 1 > top.n

DirectoryEnd ==
    /\ top.pos > Len(contents[top.dir])
    /\ stack' = returned(stack, top.sent_f)
    /\ UNCHANGED <<todo, sent>>

SubDirectory ==
    /\ top.pos <= Len(contents[top.dir])
    /\ contents[top.dir][top.pos] # Regular
    /\ LET d == contents[top.dir][top.pos]
       IN  stack' = IF d \in unreadable THEN [entryRead EXCEPT ![1].sent_f = @ - 1]
                    ELSE <<Frame(d, top.n - top.sent_f)>> \o entryRead
    /\ UNCHANGED <<todo, sent>>

RegularFile ==
    /\ top.pos <= Len(contents[top.dir])
    /\ contents[top.dir][top.pos] = Regular
    /\ IF over THEN stack' = returned(stack, 0) /\ UNCHANGED <<todo, sent>>
       ELSE /\ stack' = [entryRead EXCEPT ![1].sent_f = IF top.n = -1 THEN @ ELSE @ + 1]
            /\ todo' = ForEach(<<"file">>, <<"openFile", "writeFile", "closeFile">>)
            /\ sent' = Append(sent, <<top.dir, top.pos>>)

sendFilesDirectory ==
    /\ todo = <<>> /\ stack # <<>>
    /\ DirectoryEnd \/ SubDirectory \/ RegularFile
    /\ UNCHANGED <<environment, step, i, sock_name, client_socket_name, opened, asked, missed>>

-----------------------------------------------------------------------------
(* The next call of the API.  A file that could not be read is not closed. *)

afterReadUnclosed(answer) == Tail(Tail(todo))          \* mutant: never closed
afterRead(answer) == IF answer = -1 THEN Tail(Tail(todo)) ELSE Tail(todo)

opensAfter(op, n) ==
    IF op = "openFile" THEN n + 1
    ELSE IF op = "removeFile" THEN 0
    ELSE IF op = "closeFile" /\ n > 0 THEN n - 1 ELSE n

ApiCall ==
    LET call == Head(todo) IN
    /\ todo # <<>>
    /\ \E answer \in answers :
          /\ todo' = IF call.op = "readFile" THEN afterRead(answer) ELSE Tail(todo)
          /\ opened' = [opened EXCEPT ![call.name] = IF answer = -1 THEN @ ELSE opensAfter(call.op, @)]
          /\ missed' = [missed EXCEPT ![call.name] =
                IF answer = -1 /\ call.op \in {"readFile", "closeFile", "removeFile"} THEN @ + 1 ELSE @]
    /\ UNCHANGED <<environment, step, i, sock_name, client_socket_name, stack, asked, sent>>

closeConnection ==
    /\ step = "commands" /\ todo = <<>> /\ stack = <<>>
    /\ i > Len(argv)
    /\ step' = "closed"
    /\ client_socket_name' = IF client_socket_name = sock_name THEN NoName ELSE client_socket_name
    /\ UNCHANGED <<environment, i, sock_name, todo, opened, stack, asked, sent, missed>>

ArgsNext == ReadConnection \/ Commands \/ sendFilesDirectory \/ ApiCall \/ closeConnection

ArgsSpec == ArgsInit /\ [][ArgsNext]_argVars

-----------------------------------------------------------------------------

(* What the command line says, argument by argument: the command at p asks *)
(* for this, once.  A -d that no directory follows cancels -r and -R; the  *)
(* number of -w stands before its directory, where main looks for it.      *)
Word(p) == p <= Len(argv) /\ argv[p] \notin Options
NumberAt(p) == p <= Len(argv) /\ argv[p] \in DOMAIN Number
NoBadDirectory(p) == (p <= Len(argv) /\ argv[p] = "-d") => (Word(p + 1) /\ argv[p + 1] \in DOMAIN DirectoryOf)
Ask(p, f, w, n) == [at |-> p, run |-> f, word |-> w, n |-> n]
When(condition, ask) == IF condition THEN {ask} ELSE {}
Said(p) ==
    LET n == IF NumberAt(p + 1) THEN Number[argv[p + 1]] ELSE 0
        q == IF NumberAt(p + 1) THEN p + 2 ELSE p + 1
    IN  When(argv[p] = "-r" /\ Word(p + 1) /\ NoBadDirectory(p + 2), Ask(p, "readFileList", argv[p + 1], 0))
        \cup When(argv[p] = "-W" /\ Word(p + 1), Ask(p, "writeFileList", argv[p + 1], 0))
        \cup When(argv[p] = "-c" /\ Word(p + 1), Ask(p, "removeFileList", argv[p + 1], 0))
        \cup When(argv[p] = "-R" /\ NoBadDirectory(q), Ask(p, "readNFiles", NoName, n))
        \cup When(argv[p] = "-w" /\ Word(q), Ask(p, "sendFilesDirectory", argv[q], IF n = 0 THEN -1 ELSE n))

(* The help text (client.c:361) puts the number of -w behind the directory. *)
(* Main skips it there: what that should ask for is left open.             *)
NumberFollows(p) == argv[p] = "-w" /\ Word(p + 1) /\ ~NumberAt(p + 1) /\ NumberAt(p + 2)
Settled(r) == IF NumberFollows(r.at) THEN [r EXCEPT !.n = 0] ELSE r

(* However the loop of main advances over the parameters of a command      *)
(* (client.c:68-190), present, missing or refused, every command is read   *)
(* once, in order, and takes nothing that belongs to another one.          *)
CommandsAsSaid ==
    step \in {"commands", "closed"} =>
        /\ { Settled(r) : r \in Range(asked) }
              = { Settled(r) : r \in UNION { Said(p) : p \in { q \in DOMAIN argv : q < i } } }
        /\ \A j, k \in DOMAIN asked : j < k => asked[j].at < asked[k].at

(* Between two commands a file is still open in the server only as often   *)
(* as a read, a close or a removal of it failed (client.c:208-257).        *)
OpensClosed == (todo = <<>> /\ stack = <<>>) => \A x \in Files : opened[x] <= missed[x]

(* The files that a walk meets from the place p = <<d, k>> on, in order:   *)
(* from the k-th entry of the directory d to its last one.                 *)
entryAt(p) == contents[p[1]][p[2]]
visits[p \in Places] ==
    IF p[1] \in unreadable \/ p[2] > Len(contents[p[1]]) THEN <<>>
    ELSE (IF entryAt(p) = Regular THEN <<p>> ELSE visits[<<entryAt(p), 1>>]) \o visits[<<p[1], p[2] + 1>>]

finished == step = "commands" /\ stack = <<>> /\ todo = <<>> /\ asked # <<>> /\ Last(asked).run = "sendFilesDirectory"
walk == IF Last(asked).word \in DOMAIN DirectoryOf THEN visits[<<DirectoryOf[Last(asked).word], 1>>] ELSE <<>>
limit == Last(asked).n

(* The walk of -w counts right up to where it forgets (client.c:284-326):  *)
(* without a limit it sends every file it meets, if every directory can be *)
(* read, and with one it sends the first n.  When no subdirectory has      *)
(* files both before and after the n-th, and every directory can be read,  *)
(* it sends no more than those.  Not so when one has: see SendsUpTo.       *)
within(d) == { k \in DOMAIN walk : walk[k] \in Range(visits[<<d, 1>>]) }
forgets(d) == \E j, k \in within(d) : j <= limit /\ k > limit
Forgets ==
    /\ Last(asked).word \in DOMAIN DirectoryOf
    /\ \E d \in Directories : d # DirectoryOf[Last(asked).word] /\ forgets(d)
SendsToTheLimit ==
    finished /\ ~NumberFollows(Last(asked).at) =>
        /\ (limit = -1 /\ unreadable = {}) => sent = walk
        /\ limit # -1 => IsPrefix(SubSeq(walk, 1, Min({limit, Len(walk)})), sent)
        /\ (limit # -1 /\ unreadable = {} /\ ~Forgets) => Len(sent) <= Max({limit, 0})

(* "-w dirname [n=0] : send up to n files from dirname or subdirectories   *)
(* of it", client.c:361.                                                   *)
numberOf(p) == IF NumberAt(p + 1) THEN Number[argv[p + 1]]
               ELSE IF NumberFollows(p) THEN Number[argv[p + 2]] ELSE 0
SendsUpTo ==
    finished /\ numberOf(Last(asked).at) > 0 => Len(sent) <= numberOf(Last(asked).at)

=============================================================================
