------------------------- MODULE CommandLineProofs -------------------------
(***************************************************************************)
(* Theorems about the client's command line, for all arguments, all        *)
(* answers of the API and all trees of directories.                        *)
(*                                                                         *)
(* The commands.  AskedInv says that what main asked for is what the       *)
(* arguments before i say.  It is kept because the arguments that a turn   *)
(* of the loop passes over are no commands, so they say nothing (OneTurn). *)
(*                                                                         *)
(* The calls.  OpensInv says that the calls still to be made fit together  *)
(* (CallsFit): what was opened is closed next, whatever is skipped.        *)
(*                                                                         *)
(* The directories.  WalkInv follows what the frames on the stack have     *)
(* left to visit (Remains).  Until the limit is reached, what was sent and *)
(* what is left are the whole walk (Faithful) and no frame takes the limit *)
(* for reached (FirstOnes); and until a frame forgets what it sent the     *)
(* innermost one knows exactly how many files may still be sent (OnCount). *)
(***************************************************************************)
EXTENDS CommandLine, Lemmas

-----------------------------------------------------------------------------
(* The command line of the client.                                         *)

(* A request of a command, as asked records it.                            *)
Arguments == Options \cup DOMAIN ListOf
Launches == {"readFileList", "writeFileList", "removeFileList", "readNFiles", "sendFilesDirectory"}
Requests == [at : Nat, run : Launches, word : Arguments \cup {NoName}, n : Int]
Reading == { q \in DOMAIN argv : q < i }

(* What main has asked so far is what the arguments before i say, and the  *)
(* last command it read lies before i.                                     *)
AskedInv ==
    /\ argv \in Seq(Arguments)
    /\ i \in Nat \ {0}
    /\ asked \in Seq(Requests)
    /\ step = "connecting" => asked = <<>>
    /\ step \in {"commands", "closed"} =>
          /\ Range(asked) = UNION { Said(p) : p \in Reading }
          /\ \A j \in DOMAIN asked : asked[j].at < i
          /\ \A j, k \in DOMAIN asked : j < k => asked[j].at < asked[k].at

(* An argument that is no command says nothing.                            *)
LEMMA WordsSayNothing ==
    ASSUME NEW p, argv[p] \notin {"-r", "-R", "-w", "-W", "-c"}
    PROVE  Said(p) = {}
    BY DEF Said, When

(* What an argument says is a matter of the arguments alone.               *)
LEMMA SaidKept ==
    ASSUME argv' = argv, NEW p
    PROVE  Said(p)' = Said(p)
    BY DEF Said, When, Ask, Word, NumberAt, NoBadDirectory

(* One turn of the loop: the arguments after i that it passes say nothing, *)
(* and what the one at i says is what it asks for.                         *)
LEMMA OneTurn ==
    ASSUME NEW last \in Nat, NEW new,
           AskedInv, step = "commands", step' = step, argv' = argv,
           i <= Len(argv), i <= last, i' = last + 1,
           \A q \in DOMAIN argv : (i < q /\ q <= last) => Said(q) = {},
           Said(i) = new,
           \/ new = {} /\ asked' = asked
           \/ \E r \in Requests : new = {r} /\ r.at = i /\ asked' = Append(asked, r)
    PROVE  AskedInv'
<1>1. i \in DOMAIN argv /\ i \in Nat /\ i' \in Nat \ {0} /\ DOMAIN argv = 1 .. Len(argv)
    BY DEF AskedInv
<1>a. \A x \in Nat : x < i => x < i'
    BY <1>1
<1>b. i < i'
    BY <1>1
<1>2. Reading' = Reading \cup { q \in DOMAIN argv : i <= q /\ q <= last }
    BY <1>1 DEF Reading, AskedInv
<1>3. \A p : Said(p)' = Said(p)
    BY SaidKept
<1>4. (UNION { Said(p) : p \in Reading })' = UNION { Said(p) : p \in Reading' }
    BY <1>3
<1>5. UNION { Said(p) : p \in Reading' } = (UNION { Said(p) : p \in Reading }) \cup new
  <2>1. ASSUME NEW x, NEW p \in Reading', x \in Said(p)
        PROVE  x \in (UNION { Said(q) : q \in Reading }) \cup new
    <3>1. CASE p \in Reading
        BY <2>1, <3>1
    <3>2. CASE p \in DOMAIN argv /\ i <= p /\ p <= last
      <4>1. p = i \/ i < p
          BY <1>1, <3>2
      <4> QED
          BY <2>1, <3>2, <4>1
    <3> QED
        BY <2>1, <3>1, <3>2, <1>2
  <2>2. i \in Reading'
      BY <1>1, <1>2
  <2>3. ASSUME NEW x \in new PROVE x \in UNION { Said(p) : p \in Reading' }
      BY <2>2, <2>3
  <2>4. ASSUME NEW x, x \in UNION { Said(p) : p \in Reading } PROVE x \in UNION { Said(p) : p \in Reading' }
      BY <1>2, <2>4
  <2> QED
      BY <2>1, <2>3, <2>4
<1>6. asked \in Seq(Requests) /\ Range(asked) = UNION { Said(p) : p \in Reading }
      /\ (\A j \in DOMAIN asked : asked[j].at < i)
      /\ \A j, k \in DOMAIN asked : j < k => asked[j].at < asked[k].at
    BY DEF AskedInv
<1>c. \A j \in DOMAIN asked : asked[j].at \in Nat /\ asked[j].at < i
  <2> TAKE j \in DOMAIN asked
  <2>1. asked[j] \in Requests
      BY <1>6
  <2> QED
      BY <2>1, <1>6 DEF Requests
<1>7. CASE new = {} /\ asked' = asked
  <2>1. \A j \in DOMAIN asked : asked[j].at < i'
    <3> TAKE j \in DOMAIN asked
    <3>1. asked[j].at \in Nat /\ asked[j].at < i
        BY <1>c
    <3> QED
        BY <1>a, <3>1
  <2> QED
      BY <1>1, <1>4, <1>5, <1>6, <1>7, <2>1 DEF AskedInv
<1>8. ASSUME NEW r \in Requests, new = {r}, r.at = i, asked' = Append(asked, r)
      PROVE  AskedInv'
  <2>1. asked' \in Seq(Requests) /\ Len(asked') = Len(asked) + 1 /\ asked'[Len(asked) + 1] = r
        /\ DOMAIN asked' = 1 .. Len(asked) + 1
        /\ (\A j \in DOMAIN asked : asked'[j] = asked[j])
        /\ DOMAIN asked = 1 .. Len(asked) /\ Len(asked) \in Nat
      BY <1>6, <1>8
  <2>2. Range(asked') = Range(asked) \cup {r}
    <3>1. \A x : x \in Range(asked') <=> \E j \in 1 .. Len(asked) + 1 : x = asked'[j]
        BY <2>1 DEF Range
    <3>2. \A x : x \in Range(asked) <=> \E j \in 1 .. Len(asked) : x = asked[j]
        BY <2>1 DEF Range
    <3>3. \A j \in 1 .. Len(asked) + 1 : j \in 1 .. Len(asked) \/ j = Len(asked) + 1
        BY <2>1
    <3>4. Len(asked) + 1 \in 1 .. Len(asked) + 1 /\ 1 .. Len(asked) \subseteq 1 .. Len(asked) + 1
        BY <2>1
    <3> QED
        BY <2>1, <3>1, <3>2, <3>3, <3>4
  <2>3. \A j \in DOMAIN asked' : asked'[j].at < i'
    <3> TAKE j \in DOMAIN asked'
    <3>1. CASE j \in DOMAIN asked
      <4>1. asked[j].at \in Nat /\ asked[j].at < i /\ asked'[j] = asked[j]
          BY <1>c, <2>1, <3>1
      <4> QED
          BY <1>a, <4>1
    <3>2. CASE j = Len(asked) + 1
        BY <1>b, <1>8, <2>1, <3>2
    <3> QED
        BY <2>1, <3>1, <3>2
  <2>4. ASSUME NEW j \in DOMAIN asked', NEW k \in DOMAIN asked', j < k
        PROVE  asked'[j].at < asked'[k].at
    <3>1. j \in DOMAIN asked /\ (k \in DOMAIN asked \/ k = Len(asked) + 1)
        BY <2>1, <2>4
    <3>2. CASE k \in DOMAIN asked
        BY <1>6, <2>1, <2>4, <3>1, <3>2
    <3>3. CASE k = Len(asked) + 1
        BY <1>6, <1>8, <2>1, <3>1, <3>3
    <3> QED
        BY <3>1, <3>2, <3>3
  <2>5. argv' \in Seq(Arguments) /\ step' # "connecting" /\ i' \in Nat \ {0}
      BY <1>1 DEF AskedInv
  <2>6. Range(asked)' = Range(asked') /\ (DOMAIN asked)' = DOMAIN asked'
      OBVIOUS
  <2> QED
      BY <1>4, <1>5, <1>6, <1>8, <2>1, <2>2, <2>3, <2>4, <2>5 DEF AskedInv
<1> QED
    BY <1>7, <1>8

(* A turn that launches a command, and one that does not.                  *)
Turning ==
    /\ AskedInv /\ step = "commands" /\ i <= Len(argv)
    /\ step' = step /\ argv' = argv
CommandNames == {"-r", "-R", "-w", "-W", "-c"}
Passed(last) == \A q \in DOMAIN argv : (i < q /\ q <= last) => argv[q] \notin CommandNames

Asks(last, f, w, n) == i' = last + 1 /\ asked' = Append(asked, Ask(i, f, w, n))
Asking(f, w, n) == Said(i) = {Ask(i, f, w, n)}

(* A turn that asks for what the command at i says.                        *)
LEMMA Launched ==
    ASSUME NEW last \in Nat, NEW f \in Launches, NEW w \in Arguments \cup {NoName}, NEW n \in Int,
           Turning, i <= last, Passed(last),
           Asks(last, f, w, n), Asking(f, w, n)
    PROVE  AskedInv'
<1>1. \A q \in DOMAIN argv : (i < q /\ q <= last) => Said(q) = {}
    BY WordsSayNothing DEF Passed, CommandNames
<1>2. i \in Nat
    BY DEF Turning, AskedInv
<1>3. Ask(i, f, w, n) \in Requests /\ Ask(i, f, w, n).at = i
    BY <1>2 DEF Ask, Requests
<1>4. i' = last + 1 /\ asked' = Append(asked, Ask(i, f, w, n))
    BY DEF Asks
<1>5. Said(i) = {Ask(i, f, w, n)}
    BY DEF Asking
<1> HIDE DEF Ask
<1> QED
    BY <1>1, <1>3, <1>4, <1>5, OneTurn DEF Turning

(* A turn that asks for nothing, at an argument that says nothing.         *)
LEMMA Passes ==
    ASSUME NEW last \in Nat,
           Turning, i <= last, Passed(last), NotLaunched(last), Said(i) = {}
    PROVE  AskedInv'
<1>1. \A q \in DOMAIN argv : (i < q /\ q <= last) => Said(q) = {}
    BY WordsSayNothing DEF Passed, CommandNames
<1>2. i' = last + 1 /\ asked' = asked
    BY DEF NotLaunched, Runs
<1> QED
    BY <1>1, <1>2, OneTurn DEF Turning

(* The arguments of the command at i, as main and as Said see them.        *)
LEMMA ParamsAre ==
    ASSUME Turning
    PROVE  /\ i \in Nat \ {0} /\ Len(argv) \in Nat /\ DOMAIN argv = 1 .. Len(argv) /\ argv \in Seq(Arguments)
           /\ i \in DOMAIN argv
           /\ \A k \in Nat : validFileParam(k) <=> Word(k)
           /\ \A k \in Nat : (k > i /\ validFileParam(k)) =>
                 k <= Len(argv) /\ argv[k] \in Arguments \cup {NoName} /\ argv[k] \notin Options
           /\ \A k \in Nat : \A o : validOpParam(k, o) <=> (k <= Len(argv) /\ argv[k] = o)
           /\ NumberAt(i + 1) => /\ validNumParam(i + 1) = Number[argv[i + 1]]
                                 /\ validNumParam(i + 1) \in Int \ {-1}
                                 /\ withNumber = i + 1
                                 /\ i + 1 <= Len(argv) /\ argv[i + 1] \notin Options
           /\ ~NumberAt(i + 1) => validNumParam(i + 1) = -1 /\ withNumber = i
<1>1. i \in Nat \ {0} /\ Len(argv) \in Nat /\ DOMAIN argv = 1 .. Len(argv) /\ argv \in Seq(Arguments) /\ i <= Len(argv)
    BY DEF Turning, AskedInv
<1>2. \A k \in Nat : validFileParam(k) <=> Word(k)
    BY DEF validFileParam, Word
<1>3. ASSUME NEW k \in Nat, k > i, validFileParam(k)
      PROVE  k <= Len(argv) /\ argv[k] \in Arguments \cup {NoName} /\ argv[k] \notin Options
  <2>1. k \in 1 .. Len(argv)
      BY <1>1, <1>3 DEF validFileParam
  <2> QED
      BY <1>1, <1>3, <2>1 DEF validFileParam
<1>4. \A k \in Nat : \A o : validOpParam(k, o) <=> (k <= Len(argv) /\ argv[k] = o)
    BY DEF validOpParam
<1>5. ASSUME NumberAt(i + 1)
      PROVE  /\ validNumParam(i + 1) = Number[argv[i + 1]]
             /\ validNumParam(i + 1) \in Int \ {-1}
             /\ withNumber = i + 1
             /\ i + 1 <= Len(argv) /\ argv[i + 1] \notin Options
    BY <1>1, <1>5, CommandLineAssumption DEF NumberAt, validNumParam, withNumber
<1>6. ASSUME ~NumberAt(i + 1)
      PROVE  validNumParam(i + 1) = -1 /\ withNumber = i
    BY <1>1, <1>6 DEF NumberAt, validNumParam, withNumber
<1>7. i \in DOMAIN argv
    BY <1>1
<1> QED
    BY <1>1, <1>2, <1>3, <1>4, <1>5, <1>6, <1>7

(* What a command says is its own line of Said.                            *)
LEMMA EachSays ==
    ASSUME NEW p
    PROVE  /\ argv[p] = "-r" => Said(p) = When(Word(p + 1) /\ NoBadDirectory(p + 2), Ask(p, "readFileList", argv[p + 1], 0))
           /\ argv[p] = "-W" => Said(p) = When(Word(p + 1), Ask(p, "writeFileList", argv[p + 1], 0))
           /\ argv[p] = "-c" => Said(p) = When(Word(p + 1), Ask(p, "removeFileList", argv[p + 1], 0))
           /\ (argv[p] = "-R" /\ NumberAt(p + 1)) =>
                 Said(p) = When(NoBadDirectory(p + 2), Ask(p, "readNFiles", NoName, Number[argv[p + 1]]))
           /\ (argv[p] = "-R" /\ ~NumberAt(p + 1)) =>
                 Said(p) = When(NoBadDirectory(p + 1), Ask(p, "readNFiles", NoName, 0))
           /\ (argv[p] = "-w" /\ NumberAt(p + 1)) =>
                 Said(p) = When(Word(p + 2), Ask(p, "sendFilesDirectory", argv[p + 2],
                                                 IF Number[argv[p + 1]] = 0 THEN -1 ELSE Number[argv[p + 1]]))
           /\ (argv[p] = "-w" /\ ~NumberAt(p + 1)) =>
                 Said(p) = When(Word(p + 1), Ask(p, "sendFilesDirectory", argv[p + 1], -1))
<1> DEFINE n == IF NumberAt(p + 1) THEN Number[argv[p + 1]] ELSE 0
           q == IF NumberAt(p + 1) THEN p + 2 ELSE p + 1
           r1 == Ask(p, "readFileList", argv[p + 1], 0)
           r2 == Ask(p, "writeFileList", argv[p + 1], 0)
           r3 == Ask(p, "removeFileList", argv[p + 1], 0)
           r4 == Ask(p, "readNFiles", NoName, n)
           r5 == Ask(p, "sendFilesDirectory", argv[q], IF n = 0 THEN -1 ELSE n)
<1>1. Said(p) = When(argv[p] = "-r" /\ Word(p + 1) /\ NoBadDirectory(p + 2), r1)
                \cup When(argv[p] = "-W" /\ Word(p + 1), r2)
                \cup When(argv[p] = "-c" /\ Word(p + 1), r3)
                \cup When(argv[p] = "-R" /\ NoBadDirectory(q), r4)
                \cup When(argv[p] = "-w" /\ Word(q), r5)
    BY DEF Said
<1>2. \A r : When(FALSE, r) = {}
    BY DEF When
<1>3. argv[p] = "-r" => Said(p) = When(Word(p + 1) /\ NoBadDirectory(p + 2), r1)
  <2> HIDE DEF r1, r2, r3, r4, r5, n, q
  <2> QED
    BY <1>1 DEF When
<1>4. argv[p] = "-W" => Said(p) = When(Word(p + 1), r2)
  <2> HIDE DEF r1, r2, r3, r4, r5, n, q
  <2> QED
    BY <1>1 DEF When
<1>5. argv[p] = "-c" => Said(p) = When(Word(p + 1), r3)
  <2> HIDE DEF r1, r2, r3, r4, r5, n, q
  <2> QED
    BY <1>1 DEF When
<1>6. argv[p] = "-R" => Said(p) = When(NoBadDirectory(q), r4)
  <2> HIDE DEF r1, r2, r3, r4, r5, n, q
  <2> QED
    BY <1>1 DEF When
<1>7. argv[p] = "-w" => Said(p) = When(Word(q), r5)
  <2> HIDE DEF r1, r2, r3, r4, r5, n, q
  <2> QED
    BY <1>1 DEF When
<1>8. NumberAt(p + 1) => q = p + 2 /\ n = Number[argv[p + 1]]
    OBVIOUS
<1>9. ~NumberAt(p + 1) => q = p + 1 /\ n = 0
    OBVIOUS
<1> QED
    BY <1>3, <1>4, <1>5, <1>6, <1>7, <1>8, <1>9

(* A command has at most three arguments of its own.                       *)
LEMMA PassedTo ==
    ASSUME Turning, NEW last \in Nat, i <= last, last <= i + 3,
           \A k \in {i + 1, i + 2, i + 3} : (k <= last /\ k <= Len(argv)) => argv[k] \notin CommandNames
    PROVE  Passed(last)
<1>1. i \in Nat /\ Len(argv) \in Nat /\ DOMAIN argv = 1 .. Len(argv)
    BY ParamsAre
<1> SUFFICES ASSUME NEW q \in DOMAIN argv, i < q, q <= last PROVE argv[q] \notin CommandNames
    BY DEF Passed
<1>2. q \in {i + 1, i + 2, i + 3} /\ q <= Len(argv)
    BY <1>1
<1> QED
    BY <1>2

(* The functions that main calls.                                          *)
LEMMA FunctionNames ==
    /\ "readFileList" \in Launches /\ "writeFileList" \in Launches /\ "removeFileList" \in Launches
    /\ "readNFiles" \in Launches /\ "sendFilesDirectory" \in Launches
    /\ 0 \in Int /\ -1 \in Int
    BY DEF Launches

(* -r: its -d may lie after the list, with a directory or without one.     *)
LEMMA ReadTurn ==
    ASSUME Turning, CommandRead
    PROVE  AskedInv'
<1>p. (i \in Nat \ {0} /\ Len(argv) \in Nat /\ DOMAIN argv = 1 .. Len(argv) /\ argv \in Seq(Arguments))
      /\ (\A k \in Nat : validFileParam(k) <=> Word(k))
      /\ (\A k \in Nat : (k > i /\ validFileParam(k)) =>
                 k <= Len(argv) /\ argv[k] \in Arguments \cup {NoName} /\ argv[k] \notin Options)
      /\ (\A k \in Nat : \A o : validOpParam(k, o) <=> (k <= Len(argv) /\ argv[k] = o))
    BY ParamsAre
<1>1. i \in Nat /\ i <= i /\ i + 1 \in Nat /\ i + 2 \in Nat /\ i + 3 \in Nat /\ Len(argv) \in Nat
      /\ i < i + 1 /\ i < i + 2 /\ i < i + 3 /\ i + 2 <= i + 3 /\ i + 1 <= i + 3 /\ i <= i + 3 
      /\ i <= i + 2 /\ i <= i + 1
    BY <1>p
<1>2. argv[i] = "-r" /\ Said(i) = When(Word(i + 1) /\ NoBadDirectory(i + 2), Ask(i, "readFileList", argv[i + 1], 0))
    BY EachSays DEF CommandRead
<1>w. \A k \in Nat : (k > i /\ validFileParam(k)) => argv[k] \notin CommandNames
    BY <1>p DEF CommandNames, Options
<1>d. "-d" \notin CommandNames
    BY DEF CommandNames
<1>3. CASE ~validFileParam(i + 1) /\ NotLaunched(i)
  <2>1. Said(i) = {}
      BY <1>p, <1>1, <1>2, <1>3 DEF When
  <2>2. Passed(i)
      BY <1>p, <1>1 DEF Passed
  <2> QED
      BY <1>p, <1>1, <1>3, <2>1, <2>2, Passes
<1>4. CASE validFileParam(i + 1) /\ ~validOpParam(i + 2, "-d") /\ readFileList(i + 1)
  <2>1. Asking("readFileList", argv[i + 1], 0)
    <3>1. NoBadDirectory(i + 2)
        BY <1>p, <1>1, <1>4 DEF NoBadDirectory
    <3> QED
        BY <1>p, <1>1, <1>2, <1>4, <3>1 DEF When, Asking
  <2>2. Passed(i + 1)
      BY <1>p, <1>1, <1>4, <1>w, PassedTo
  <2>9. Asks(i + 1, "readFileList", argv[i + 1], 0)
      BY <1>4 DEF readFileList, Runs, Asks, Ask
  <2>w. argv[i + 1] \in Arguments \cup {NoName}
      BY <1>p, <1>1, <1>4
  <2> QED
      BY <1>1, <2>9, <2>w, <2>2, <2>1, Launched, FunctionNames
<1>5. CASE validFileParam(i + 1) /\ validOpParam(i + 2, "-d") /\ ~validFileParam(i + 3) /\ NotLaunched(i + 2)
  <2>1. ~ NoBadDirectory(i + 2)
    <3>1. (i + 2) + 1 = i + 3
        BY <1>p, <1>1
    <3> QED
        BY <1>p, <1>1, <1>5, <3>1 DEF NoBadDirectory
  <2>2. Passed(i + 2)
      BY <1>p, <1>1, <1>5, <1>w, <1>d, PassedTo
  <2> QED
      BY <1>p, <1>1, <1>2, <1>5, <2>1, <2>2, Passes DEF When
<1>6. CASE validFileParam(i + 1) /\ validOpParam(i + 2, "-d") /\ validFileParam(i + 3) /\ checkDir(i + 3)
           /\ readFileList(i + 3)
  <2>1. NoBadDirectory(i + 2)
    <3>1. (i + 2) + 1 = i + 3
        BY <1>p, <1>1
    <3> QED
        BY <1>p, <1>1, <1>6, <3>1 DEF NoBadDirectory, checkDir
  <2>2. Passed(i + 3)
      BY <1>p, <1>1, <1>6, <1>w, <1>d, PassedTo
  <2>3. Asking("readFileList", argv[i + 1], 0)
      BY <1>p, <1>1, <1>2, <1>6, <2>1 DEF When, Asking
  <2>9. Asks(i + 3, "readFileList", argv[i + 1], 0)
      BY <1>6 DEF readFileList, Runs, Asks, Ask
  <2>w. argv[i + 1] \in Arguments \cup {NoName}
      BY <1>p, <1>1, <1>6
  <2> QED
      BY <1>1, <2>9, <2>w, <2>2, <2>3, Launched, FunctionNames
<1>7. CASE validFileParam(i + 1) /\ validOpParam(i + 2, "-d") /\ validFileParam(i + 3) /\ ~checkDir(i + 3)
           /\ NotLaunched(i + 3)
  <2>1. ~ NoBadDirectory(i + 2)
    <3>1. (i + 2) + 1 = i + 3
        BY <1>p, <1>1
    <3> QED
        BY <1>p, <1>1, <1>7, <3>1 DEF NoBadDirectory, checkDir
  <2>2. Passed(i + 3)
      BY <1>p, <1>1, <1>7, <1>w, <1>d, PassedTo
  <2> QED
      BY <1>p, <1>1, <1>2, <1>7, <2>1, <2>2, Passes DEF When
<1> QED
    BY <1>3, <1>4, <1>5, <1>6, <1>7 DEF CommandRead

(* -W and -c: a list follows them, or they are nothing.                    *)
LEMMA WriteTurn ==
    ASSUME Turning, CommandWrite \/ CommandRemove
    PROVE  AskedInv'
<1>p. (i \in Nat \ {0} /\ Len(argv) \in Nat)
      /\ (\A k \in Nat : validFileParam(k) <=> Word(k))
      /\ (\A k \in Nat : (k > i /\ validFileParam(k)) =>
                 k <= Len(argv) /\ argv[k] \in Arguments \cup {NoName} /\ argv[k] \notin Options)
    BY ParamsAre
<1>1. i \in Nat /\ i + 1 \in Nat /\ i <= i /\ i < i + 1 /\ i <= i + 1 /\ i + 1 <= i + 3 /\ i <= i + 3
      /\ ~(i + 2 <= i + 1) /\ ~(i + 3 <= i + 1)
    BY <1>p
<1>2. CASE ~validFileParam(i + 1) /\ NotLaunched(i)
  <2>1. Said(i) = {}
    <3>1. When(Word(i + 1), Ask(i, "writeFileList", argv[i + 1], 0)) = {}
          /\ When(Word(i + 1), Ask(i, "removeFileList", argv[i + 1], 0)) = {}
        BY <1>p, <1>1, <1>2 DEF When
    <3>2. argv[i] = "-W" \/ argv[i] = "-c"
        BY DEF CommandWrite, CommandRemove
    <3> QED
        BY <3>1, <3>2, EachSays
  <2>2. Passed(i)
      BY <1>p DEF Passed, Turning, AskedInv
  <2> QED
      BY <1>1, <1>2, <2>1, <2>2, Passes
<1>3. ASSUME validFileParam(i + 1), NEW f \in {"writeFileList", "removeFileList"},
             Asks(i + 1, f, argv[i + 1], 0),
             Said(i) = When(Word(i + 1), Ask(i, f, argv[i + 1], 0))
      PROVE  AskedInv'
  <2>1. Asking(f, argv[i + 1], 0)
      BY <1>p, <1>1, <1>3 DEF When, Asking
  <2>2. Passed(i + 1)
    <3>1. argv[i + 1] \notin CommandNames
        BY <1>p, <1>1, <1>3 DEF CommandNames, Options
    <3> QED
        BY <1>1, <3>1, PassedTo
  <2>3. argv[i + 1] \in Arguments \cup {NoName} /\ f \in Launches
      BY <1>p, <1>1, <1>3 DEF Launches
  <2> QED
      BY <1>1, <1>3, <2>1, <2>2, <2>3, Launched, FunctionNames
<1>4. CASE CommandWrite
  <2>1. CASE validFileParam(i + 1)
    <3>1. Asks(i + 1, "writeFileList", argv[i + 1], 0)
        BY <1>4, <2>1 DEF CommandWrite, Runs, Asks, Ask
    <3>2. Said(i) = When(Word(i + 1), Ask(i, "writeFileList", argv[i + 1], 0))
        BY <1>4, EachSays DEF CommandWrite
    <3> QED
        BY <1>3, <2>1, <3>1, <3>2
  <2>2. CASE ~validFileParam(i + 1)
      BY <1>2, <1>4, <2>2 DEF CommandWrite
  <2> QED
      BY <2>1, <2>2
<1>5. CASE CommandRemove
  <2>1. CASE validFileParam(i + 1)
    <3>1. Asks(i + 1, "removeFileList", argv[i + 1], 0)
        BY <1>5, <2>1 DEF CommandRemove, Runs, Asks, Ask
    <3>2. Said(i) = When(Word(i + 1), Ask(i, "removeFileList", argv[i + 1], 0))
        BY <1>5, EachSays DEF CommandRemove
    <3> QED
        BY <1>3, <2>1, <3>1, <3>2
  <2>2. CASE ~validFileParam(i + 1)
      BY <1>2, <1>5, <2>2 DEF CommandRemove
  <2> QED
      BY <2>1, <2>2
<1> QED
    BY <1>4, <1>5

(* -t takes a word with it; whatever else lies there is no command.        *)
LEMMA OtherTurn ==
    ASSUME Turning, CommandOther
    PROVE  AskedInv'
<1>p. (i \in Nat \ {0} /\ Len(argv) \in Nat /\ DOMAIN argv = 1 .. Len(argv))
      /\ (\A k \in Nat : (k > i /\ validFileParam(k)) => argv[k] \notin Options)
    BY ParamsAre
<1>1. i \in Nat /\ i + 1 \in Nat /\ i <= i /\ i < i + 1 /\ i <= i + 1 /\ i + 1 <= i + 3 /\ i <= i + 3
      /\ ~(i + 2 <= i + 1) /\ ~(i + 3 <= i + 1)
    BY <1>p
<1>2. Said(i) = {}
  <2>1. argv[i] \notin {"-r", "-R", "-w", "-W", "-c"}
      BY DEF CommandOther
  <2> QED
      BY <2>1, WordsSayNothing
<1>3. CASE NotLaunched(i)
  <2>1. Passed(i)
      BY <1>p DEF Passed
  <2> QED
      BY <1>1, <1>2, <1>3, <2>1, Passes
<1>4. CASE validFileParam(i + 1) /\ NotLaunched(i + 1)
  <2>1. argv[i + 1] \notin CommandNames
      BY <1>p, <1>1, <1>4 DEF CommandNames, Options
  <2>2. Passed(i + 1)
      BY <1>1, <2>1, PassedTo
  <2> QED
      BY <1>1, <1>2, <1>4, <2>2, Passes
<1> QED
    BY <1>3, <1>4 DEF CommandOther

(* -R and -w may take a number: k is the last argument before the others.  *)
LEMMA WithNumber ==
    ASSUME Turning
    PROVE  \E k \in {i, i + 1}, v \in Int :
              /\ k = withNumber /\ v = validNumParam(i + 1)
              /\ k = i + 1 => argv[i + 1] \notin CommandNames
              /\ argv[i] = "-R" =>
                    Said(i) = When(NoBadDirectory(k + 1), Ask(i, "readNFiles", NoName, IF v = -1 THEN 0 ELSE v))
              /\ argv[i] = "-w" =>
                    Said(i) = When(Word(k + 1), Ask(i, "sendFilesDirectory", argv[k + 1], IF v = 0 THEN -1 ELSE v))
<1>1. i \in Nat /\ (i + 1) + 1 = i + 2
    BY ParamsAre
<1>2. CASE NumberAt(i + 1)
  <2>1. /\ validNumParam(i + 1) = Number[argv[i + 1]] /\ validNumParam(i + 1) \in Int \ {-1}
        /\ withNumber = i + 1 /\ argv[i + 1] \notin Options
      BY <1>2, ParamsAre
  <2> DEFINE v == validNumParam(i + 1)
  <2>2. v # -1
      BY <2>1
  <2>3. argv[i] = "-R" => Said(i) = When(NoBadDirectory(i + 2), Ask(i, "readNFiles", NoName, v))
      BY <1>2, <2>1, EachSays
  <2>4. argv[i] = "-w" =>
           Said(i) = When(Word(i + 2), Ask(i, "sendFilesDirectory", argv[i + 2], IF v = 0 THEN -1 ELSE v))
      BY <1>2, <2>1, EachSays
  <2>5. argv[i + 1] \notin CommandNames /\ v \in Int /\ i + 1 = withNumber
      BY <2>1 DEF CommandNames, Options
  <2> HIDE DEF v
  <2>6. (IF v = -1 THEN 0 ELSE v) = v
      BY <2>2
  <2>7. v = validNumParam(i + 1)
      BY DEF v
  <2> QED
      BY <1>1, <2>3, <2>4, <2>5, <2>6, <2>7
<1>3. CASE ~NumberAt(i + 1)
  <2>1. validNumParam(i + 1) = -1 /\ withNumber = i
      BY <1>3, ParamsAre
  <2>2. argv[i] = "-R" => Said(i) = When(NoBadDirectory(i + 1), Ask(i, "readNFiles", NoName, 0))
      BY <1>3, EachSays
  <2>3. argv[i] = "-w" => Said(i) = When(Word(i + 1), Ask(i, "sendFilesDirectory", argv[i + 1], -1))
      BY <1>3, EachSays
  <2>4. (IF -1 = -1 THEN 0 ELSE -1) = 0 /\ (IF -1 = 0 THEN -1 ELSE -1) = -1 /\ -1 \in Int
      OBVIOUS
  <2>5. i # i + 1
      BY <1>1
  <2> QED
      BY <1>1, <2>1, <2>2, <2>3, <2>4, <2>5
<1> QED
    BY <1>2, <1>3

(* -R: its number and its -d may both be missing, or the -d cancel it.     *)
LEMMA ReadNTurn ==
    ASSUME Turning, CommandReadN
    PROVE  AskedInv'
<1>p. (i \in Nat \ {0} /\ Len(argv) \in Nat)
      /\ (\A k \in Nat : validFileParam(k) <=> Word(k))
      /\ (\A k \in Nat : (k > i /\ validFileParam(k)) => argv[k] \notin Options)
      /\ (\A k \in Nat : \A o : validOpParam(k, o) <=> (k <= Len(argv) /\ argv[k] = o))
    BY ParamsAre
<1>1. PICK k \in {i, i + 1}, v \in Int :
         /\ k = withNumber /\ v = validNumParam(i + 1)
         /\ k = i + 1 => argv[i + 1] \notin CommandNames
         /\ Said(i) = When(NoBadDirectory(k + 1), Ask(i, "readNFiles", NoName, IF v = -1 THEN 0 ELSE v))
    BY WithNumber DEF CommandReadN
<1> DEFINE m == IF v = -1 THEN 0 ELSE v
<1>2. m \in Int /\ i <= k /\ i <= k + 1 /\ i <= k + 2 /\ k <= i + 3 /\ k + 1 <= i + 3 /\ k + 2 <= i + 3
      /\ k \in Nat /\ k + 1 \in Nat /\ k + 2 \in Nat /\ (k + 1) + 1 = k + 2 /\ k + 1 > i /\ k + 2 > i
    BY <1>p
<1>3. \A last : readNFiles(last) => Asks(last, "readNFiles", NoName, m)
    BY <1>1 DEF readNFiles, Runs, Asks, Ask
<1>4. Passed(k)
  <2>1. \A q \in {i + 1, i + 2, i + 3} : q <= k => q = i + 1 /\ k = i + 1
      BY <1>p, <1>1
  <2> QED
      BY <1>1, <1>2, <2>1, PassedTo
<1>5. ASSUME argv[k + 1] = "-d" PROVE Passed(k + 1)
  <2>1. \A q \in {i + 1, i + 2, i + 3} : q <= k + 1 => (q = i + 1 /\ k = i + 1) \/ q = k + 1
      BY <1>p, <1>1
  <2>2. "-d" \notin CommandNames
      BY DEF CommandNames
  <2> QED
      BY <1>1, <1>2, <1>5, <2>1, <2>2, PassedTo
<1>6. ASSUME argv[k + 1] = "-d", validFileParam(k + 2) PROVE Passed(k + 2)
  <2>1. \A q \in {i + 1, i + 2, i + 3} : q <= k + 2 => (q = i + 1 /\ k = i + 1) \/ q = k + 1 \/ q = k + 2
      BY <1>p, <1>1
  <2>2. "-d" \notin CommandNames /\ argv[k + 2] \notin CommandNames
      BY <1>p, <1>2, <1>6 DEF CommandNames, Options
  <2> QED
      BY <1>1, <1>2, <1>6, <2>1, <2>2, PassedTo
<1>7. Said(i) = When(NoBadDirectory(k + 1), Ask(i, "readNFiles", NoName, m))
    BY <1>1
<1>8. NoName \in Arguments \cup {NoName}
    OBVIOUS
<1> HIDE DEF m
<1>9. NoBadDirectory(k + 1) => Asking("readNFiles", NoName, m)
    BY <1>7 DEF When, Asking
<1>10. CASE ~validOpParam(k + 1, "-d") /\ readNFiles(k)
  <2>1. NoBadDirectory(k + 1)
      BY <1>p, <1>2, <1>10 DEF NoBadDirectory
  <2> QED
      BY <1>2, <1>3, <1>4, <1>8, <1>9, <1>10, <2>1, Launched, FunctionNames
<1>11. CASE validOpParam(k + 1, "-d") /\ validFileParam(k + 2) /\ checkDir(k + 2) /\ readNFiles(k + 2)
  <2>1. NoBadDirectory(k + 1)
      BY <1>p, <1>2, <1>11 DEF NoBadDirectory, checkDir
  <2>2. Passed(k + 2)
      BY <1>p, <1>2, <1>6, <1>11
  <2> QED
      BY <1>2, <1>3, <1>8, <1>9, <1>11, <2>1, <2>2, Launched, FunctionNames
<1>12. CASE validOpParam(k + 1, "-d") /\ ~(validFileParam(k + 2) /\ checkDir(k + 2)) /\ NotLaunched(k + 1)
  <2>1. ~NoBadDirectory(k + 1)
      BY <1>p, <1>2, <1>12 DEF NoBadDirectory, checkDir
  <2>2. Passed(k + 1)
      BY <1>p, <1>2, <1>5, <1>12
  <2>3. Said(i) = {}
      BY <1>7, <2>1 DEF When
  <2> QED
      BY <1>2, <1>12, <2>2, <2>3, Passes
<1> QED
    BY <1>1, <1>10, <1>11, <1>12 DEF CommandReadN, refused

(* -w: its number may be missing, and without a word it is nothing.        *)
LEMMA SendTurn ==
    ASSUME Turning, CommandSend
    PROVE  AskedInv'
<1>p. (i \in Nat \ {0} /\ Len(argv) \in Nat)
      /\ (\A k \in Nat : validFileParam(k) <=> Word(k))
      /\ (\A k \in Nat : (k > i /\ validFileParam(k)) =>
                 k <= Len(argv) /\ argv[k] \in Arguments \cup {NoName} /\ argv[k] \notin Options)
    BY ParamsAre
<1>1. PICK k \in {i, i + 1}, v \in Int :
         /\ k = withNumber /\ v = validNumParam(i + 1)
         /\ k = i + 1 => argv[i + 1] \notin CommandNames
         /\ Said(i) = When(Word(k + 1), Ask(i, "sendFilesDirectory", argv[k + 1], IF v = 0 THEN -1 ELSE v))
    BY WithNumber DEF CommandSend
<1> DEFINE m == IF v = 0 THEN -1 ELSE v
<1>2. m \in Int /\ i <= k /\ i <= k + 1 /\ k <= i + 3 /\ k + 1 <= i + 3
      /\ k \in Nat /\ k + 1 \in Nat /\ k + 1 > i /\ (k + 1) + 1 = k + 2
    BY <1>p
<1>4. Passed(k)
  <2>1. \A q \in {i + 1, i + 2, i + 3} : q <= k => q = i + 1 /\ k = i + 1
      BY <1>p, <1>1
  <2> QED
      BY <1>1, <1>2, <2>1, PassedTo
<1>5. ASSUME validFileParam(k + 1) PROVE Passed(k + 1)
  <2>1. \A q \in {i + 1, i + 2, i + 3} : q <= k + 1 => (q = i + 1 /\ k = i + 1) \/ q = k + 1
      BY <1>p, <1>1
  <2>2. argv[k + 1] \notin CommandNames
      BY <1>p, <1>2, <1>5 DEF CommandNames, Options
  <2> QED
      BY <1>1, <1>2, <2>1, <2>2, PassedTo
<1>6. Said(i) = When(Word(k + 1), Ask(i, "sendFilesDirectory", argv[k + 1], m))
    BY <1>1
<1>7. CASE ~validFileParam(k + 1)
  <2>1. NotLaunched(k)
      BY <1>1, <1>7 DEF CommandSend
  <2>2. Said(i) = {}
      BY <1>p, <1>2, <1>6, <1>7 DEF When
  <2> QED
      BY <1>2, <1>4, <2>1, <2>2, Passes
<1>8. CASE validFileParam(k + 1)
  <2>1. Asks(k + 1, "sendFilesDirectory", argv[k + 1], m)
      BY <1>1, <1>2, <1>8 DEF CommandSend, Asks, Ask
  <2>2. Asking("sendFilesDirectory", argv[k + 1], m)
      BY <1>p, <1>2, <1>6, <1>8 DEF When, Asking
  <2>3. argv[k + 1] \in Arguments \cup {NoName}
      BY <1>p, <1>2, <1>8
  <2> HIDE DEF m
  <2> QED
      BY <1>2, <1>5, <1>8, <2>1, <2>2, <2>3, Launched, FunctionNames
<1> QED
    BY <1>7, <1>8

(* No requests.                                                            *)
LEMMA NothingAsked ==
    <<>> \in Seq(Requests) /\ Range(<<>>) = {} /\ DOMAIN <<>> = {}
    BY DEF Range

(* The arguments are the ones a case gives; nothing is asked for.          *)
LEMMA AskedInit == ArgsInit => AskedInv
<1> SUFFICES ASSUME NEW c \in Cases, ArgsStart(c) PROVE AskedInv
    BY DEF ArgsInit
<1>1. argv \in Seq(Arguments)
    BY CommandLineAssumption DEF ArgsStart, Arguments
<1>2. i = 1 /\ asked = <<>> /\ step = "connecting"
    BY DEF ArgsStart
<1> QED
    BY <1>1, <1>2, NothingAsked DEF AskedInv

(* Whatever leaves the arguments, i and asked alone.                       *)
LEMMA AskedSame ==
    ASSUME AskedInv, UNCHANGED <<argv, i, asked>>, step' = step \/ (step = "commands" /\ step' = "closed")
    PROVE  AskedInv'
<1>1. \A p : Said(p)' = Said(p)
    BY SaidKept
<1>2. Reading' = Reading
    BY DEF Reading
<1>3. (UNION { Said(p) : p \in Reading })' = UNION { Said(p) : p \in Reading }
    BY <1>1, <1>2
<1>4. Range(asked)' = Range(asked)
    OBVIOUS
<1> QED
    BY <1>3, <1>4 DEF AskedInv

(* AskedInv is inductive.                                                  *)
LEMMA AskedStep == AskedInv /\ [ArgsNext]_argVars => AskedInv'
<1> SUFFICES ASSUME AskedInv, [ArgsNext]_argVars PROVE AskedInv'
    OBVIOUS
<1>1. CASE ReadConnection
  <2>1. argv' = argv /\ asked' = <<>> /\ step = "connecting"
      BY <1>1 DEF ReadConnection, environment, AskedInv
  <2>2. (i' = i /\ step' = "exited") \/ (step' = "commands" /\ i' = 1)
        \/ (i' = i + 1 /\ step' = step) \/ (i' = i + 2 /\ step' = step)
      BY <1>1 DEF ReadConnection, Exits, openConnection
  <2>3. i' \in Nat \ {0} /\ argv \in Seq(Arguments)
      BY <2>2 DEF AskedInv
  <2>4. CASE step' = "commands"
    <3>1. i' = 1
        BY <2>1, <2>2, <2>4
    <3>2. Reading' = {}
      <4>1. DOMAIN argv = 1 .. Len(argv) /\ Len(argv) \in Nat
          BY <2>3
      <4> QED
          BY <2>1, <3>1, <4>1 DEF Reading
    <3>3. (UNION { Said(p) : p \in Reading })' = {}
        BY <3>2
    <3>4. Range(asked)' = {} /\ (DOMAIN asked)' = {}
        BY <2>1, NothingAsked
    <3> QED
        BY <2>1, <2>3, <2>4, <3>3, <3>4, NothingAsked DEF AskedInv
  <2>5. CASE step' # "commands"
    <3>1. step' \in {"exited", "connecting"}
        BY <2>1, <2>2, <2>5
    <3>2. step' \notin {"commands", "closed"}
        BY <3>1
    <3> QED
        BY <2>1, <2>3, <3>2, NothingAsked DEF AskedInv
  <2> QED
      BY <2>4, <2>5
<1>2. CASE Commands
  <2>1. Turning
      BY <1>2 DEF Commands, Turning, environment
  <2> QED
      BY <1>2, <2>1, ReadTurn, WriteTurn, OtherTurn, ReadNTurn, SendTurn DEF Commands
<1>3. CASE sendFilesDirectory
    BY <1>3, AskedSame DEF sendFilesDirectory, environment
<1>4. CASE ApiCall
    BY <1>4, AskedSame DEF ApiCall, environment
<1>5. CASE closeConnection
    BY <1>5, AskedSame DEF closeConnection, environment
<1>6. CASE UNCHANGED argVars
    BY <1>6, AskedSame DEF argVars
<1> QED
    BY <1>1, <1>2, <1>3, <1>4, <1>5, <1>6 DEF ArgsNext

(* Whatever its arguments, main asks for what they say, each command once  *)
(* and in order: CommandsAsSaid.                                           *)
THEOREM CommandLineIsKept == ArgsSpec => []CommandsAsSaid
<1>1. AskedInv => CommandsAsSaid
  <2> SUFFICES ASSUME AskedInv, step \in {"commands", "closed"} PROVE CommandsAsSaid
      BY DEF CommandsAsSaid
  <2>1. Range(asked) = UNION { Said(p) : p \in { q \in DOMAIN argv : q < i } }
      BY DEF AskedInv, Reading
  <2>2. \A j, k \in DOMAIN asked : j < k => asked[j].at < asked[k].at
      BY DEF AskedInv
  <2> QED
      BY <2>1, <2>2 DEF CommandsAsSaid
<1> QED
    BY <1>1, AskedInit, AskedStep, PTL DEF ArgsSpec

-----------------------------------------------------------------------------
(* What the commands leave open.                                           *)

ClosingCalls == {"readFile", "writeFile", "closeFile", "removeFile"}
Calls == [op : ClosingCalls \cup {"openFile", "readNFiles"}, name : Files]

(* The calls still to be made: after an openFile comes what it was opened  *)
(* for, after a read or a write the closeFile, always of the same file;    *)
(* what ends with the file closed is followed by an openFile or nothing.   *)
FitsAt(s, k) ==
    /\ s[k].op = "openFile" =>
          k < Len(s) /\ s[k + 1].op \in {"readFile", "writeFile", "removeFile"} /\ s[k + 1].name = s[k].name
    /\ s[k].op \in {"readFile", "writeFile"} =>
          k < Len(s) /\ s[k + 1].op = "closeFile" /\ s[k + 1].name = s[k].name
    /\ s[k].op \in {"closeFile", "removeFile"} => (k < Len(s) => s[k + 1].op = "openFile")
    /\ s[k].op = "readNFiles" => k = Len(s)
CallsFit(s) == s \in Seq(Calls) /\ \A k \in 1 .. Len(s) : FitsAt(s, k)

(* A file the next call is to close may be open once more.                 *)
Pending(s, x) == IF s # <<>> /\ Head(s).op \in ClosingCalls /\ Head(s).name = x THEN 1 ELSE 0

OpensInv ==
    /\ answers \subseteq {0, -1}
    /\ opened \in [Files -> Nat] /\ missed \in [Files -> Nat]
    /\ CallsFit(todo)
    /\ \A x \in Files : opened[x] <= missed[x] + Pending(todo, x)

(* The calls for a list of names: each name gets its calls in turn.        *)
LEMMA Threes ==
    ASSUME NEW n \in Nat, NEW k \in 1 .. n * 3
    PROVE  /\ ((k - 1) % 3) \in 0 .. 2 /\ ((k - 1) \div 3) + 1 \in 1 .. n
           /\ (k - 1) % 3 < 2 => /\ k < n * 3
                                 /\ ((k + 1) - 1) % 3 = ((k - 1) % 3) + 1
                                 /\ ((k + 1) - 1) \div 3 = (k - 1) \div 3
           /\ (k - 1) % 3 = 2 => ((k + 1) - 1) % 3 = 0
    OBVIOUS

(* The same for two calls a name.                                          *)
LEMMA Twos ==
    ASSUME NEW n \in Nat, NEW k \in 1 .. n * 2
    PROVE  /\ ((k - 1) % 2) \in 0 .. 1 /\ ((k - 1) \div 2) + 1 \in 1 .. n
           /\ (k - 1) % 2 = 0 => /\ k < n * 2
                                 /\ ((k + 1) - 1) % 2 = 1
                                 /\ ((k + 1) - 1) \div 2 = (k - 1) \div 2
           /\ (k - 1) % 2 = 1 => ((k + 1) - 1) % 2 = 0
    OBVIOUS

(* The calls of a list that opens, reads or writes, and closes.            *)
LEMMA TripleFits ==
    ASSUME NEW names \in Seq(Files), NEW m \in {"readFile", "writeFile"}
    PROVE  CallsFit(ForEach(names, <<"openFile", m, "closeFile">>))
<1> DEFINE ops == <<"openFile", m, "closeFile">>
           n == Len(names)
           s == ForEach(names, ops)
<1>1. n \in Nat /\ n * 3 \in Nat /\ \A q \in 1 .. n : names[q] \in Files
    OBVIOUS
<1>2. Len(ops) = 3 /\ ops[1] = "openFile" /\ ops[2] = m /\ ops[3] = "closeFile"
    OBVIOUS
<1> HIDE DEF ops
<1>3. s = [k \in 1 .. n * 3 |-> [op |-> ops[((k - 1) % 3) + 1], name |-> names[((k - 1) \div 3) + 1]]]
    BY <1>2 DEF ForEach
<1>4. \A k \in 1 .. n * 3 : /\ s[k].op = ops[((k - 1) % 3) + 1] 
                            /\ s[k].name = names[((k - 1) \div 3) + 1]
                            /\ s[k] = [op |-> ops[((k - 1) % 3) + 1], name |-> names[((k - 1) \div 3) + 1]]
    BY <1>3
<1> HIDE DEF s, n
<1>5. s \in Seq(Calls) /\ Len(s) = n * 3
  <2>1. \A k \in 1 .. n * 3 : [op |-> ops[((k - 1) % 3) + 1], name |-> names[((k - 1) \div 3) + 1]] \in Calls
    <3> TAKE k \in 1 .. n * 3
    <3>1. names[((k - 1) \div 3) + 1] \in Files
        BY <1>1, Threes
    <3>2. ((k - 1) % 3) \in 0 .. 2
        BY <1>1, Threes
    <3>3. ops[((k - 1) % 3) + 1] \in {"openFile", m, "closeFile"}
        BY <1>2, <3>2
    <3>4. ops[((k - 1) % 3) + 1] \in ClosingCalls \cup {"openFile", "readNFiles"}
        BY <3>3 DEF ClosingCalls
    <3> QED
        BY <3>1, <3>4 DEF Calls
  <2>2. s \in [1 .. n * 3 -> Calls]
      BY <1>3, <2>1
  <2> QED
      BY <1>1, <2>2
<1>6. ASSUME NEW k \in 1 .. n * 3 PROVE FitsAt(s, k)
  <2>1. s[k].op = ops[((k - 1) % 3) + 1] /\ s[k].name = names[((k - 1) \div 3) + 1]
      BY <1>4
  <2>2. (k < n * 3) => /\ s[k + 1].op = ops[(((k + 1) - 1) % 3) + 1]
                       /\ s[k + 1].name = names[(((k + 1) - 1) \div 3) + 1]
    <3>1. (k < n * 3) => k + 1 \in 1 .. n * 3
        BY <1>1
    <3> QED
        BY <1>4, <3>1
  <2> DEFINE r == (k - 1) % 3
             d == (k - 1) \div 3
             r1 == ((k + 1) - 1) % 3
             d1 == ((k + 1) - 1) \div 3
  <2>3. /\ r \in 0 .. 2
        /\ r < 2 => k < n * 3 /\ r1 = r + 1 /\ d1 = d
        /\ r = 2 => r1 = 0
      BY <1>1, Threes
  <2>4. s[k].op = ops[r + 1] /\ s[k].name = names[d + 1]
        /\ (k < n * 3 => s[k + 1].op = ops[r1 + 1] /\ s[k + 1].name = names[d1 + 1])
      BY <2>1, <2>2
  <2> HIDE DEF r, d, r1, d1
  <2>5. CASE r = 0
    <3>1. s[k].op = "openFile" /\ k < n * 3 /\ s[k + 1].op = m /\ s[k + 1].name = s[k].name
        BY <1>2, <2>3, <2>4, <2>5
    <3> QED
        BY <1>5, <3>1 DEF FitsAt
  <2>6. CASE r = 1
    <3>1. s[k].op = m /\ k < n * 3 /\ s[k + 1].op = "closeFile" /\ s[k + 1].name = s[k].name
        BY <1>2, <2>3, <2>4, <2>6
    <3> QED
        BY <1>5, <3>1 DEF FitsAt
  <2>7. CASE r = 2
    <3>1. s[k].op = "closeFile" /\ (k < n * 3 => s[k + 1].op = "openFile")
        BY <1>2, <2>3, <2>4, <2>7
    <3> QED
        BY <1>5, <3>1 DEF FitsAt
  <2> QED
      BY <2>3, <2>5, <2>6, <2>7
<1> QED
    BY <1>5, <1>6 DEF CallsFit, s, ops

(* The calls of a list that opens and removes.                             *)
LEMMA PairFits ==
    ASSUME NEW names \in Seq(Files)
    PROVE  CallsFit(ForEach(names, <<"openFile", "removeFile">>))
<1> DEFINE ops == <<"openFile", "removeFile">>
           n == Len(names)
           s == ForEach(names, ops)
<1>1. n \in Nat /\ n * 2 \in Nat /\ \A q \in 1 .. n : names[q] \in Files
    OBVIOUS
<1>2. Len(ops) = 2 /\ ops[1] = "openFile" /\ ops[2] = "removeFile"
    OBVIOUS
<1> HIDE DEF ops
<1>3. s = [k \in 1 .. n * 2 |-> [op |-> ops[((k - 1) % 2) + 1], name |-> names[((k - 1) \div 2) + 1]]]
    BY <1>2 DEF ForEach
<1>4. \A k \in 1 .. n * 2 : /\ s[k].op = ops[((k - 1) % 2) + 1] 
                            /\ s[k].name = names[((k - 1) \div 2) + 1]
                            /\ s[k] = [op |-> ops[((k - 1) % 2) + 1], name |-> names[((k - 1) \div 2) + 1]]
    BY <1>3
<1> HIDE DEF s, n
<1>5. s \in Seq(Calls) /\ Len(s) = n * 2
  <2>1. \A k \in 1 .. n * 2 : [op |-> ops[((k - 1) % 2) + 1], name |-> names[((k - 1) \div 2) + 1]] \in Calls
    <3> TAKE k \in 1 .. n * 2
    <3>1. names[((k - 1) \div 2) + 1] \in Files
        BY <1>1, Twos
    <3>2. ((k - 1) % 2) \in 0 .. 1
        BY <1>1, Twos
    <3>3. ops[((k - 1) % 2) + 1] \in {"openFile", "removeFile"}
        BY <1>2, <3>2
    <3>4. ops[((k - 1) % 2) + 1] \in ClosingCalls \cup {"openFile", "readNFiles"}
        BY <3>3 DEF ClosingCalls
    <3> QED
        BY <3>1, <3>4 DEF Calls
  <2>2. s \in [1 .. n * 2 -> Calls]
      BY <1>3, <2>1
  <2> QED
      BY <1>1, <2>2
<1>6. ASSUME NEW k \in 1 .. n * 2 PROVE FitsAt(s, k)
  <2>1. s[k].op = ops[((k - 1) % 2) + 1] /\ s[k].name = names[((k - 1) \div 2) + 1]
      BY <1>4
  <2>2. (k < n * 2) => /\ s[k + 1].op = ops[(((k + 1) - 1) % 2) + 1]
                       /\ s[k + 1].name = names[(((k + 1) - 1) \div 2) + 1]
    <3>1. (k < n * 2) => k + 1 \in 1 .. n * 2
        BY <1>1
    <3> QED
        BY <1>4, <3>1
  <2> DEFINE r == (k - 1) % 2
             d == (k - 1) \div 2
             r1 == ((k + 1) - 1) % 2
             d1 == ((k + 1) - 1) \div 2
  <2>3. /\ r \in 0 .. 1
        /\ r = 0 => k < n * 2 /\ r1 = 1 /\ d1 = d
        /\ r = 1 => r1 = 0
      BY <1>1, Twos
  <2>4. s[k].op = ops[r + 1] /\ s[k].name = names[d + 1]
        /\ (k < n * 2 => s[k + 1].op = ops[r1 + 1] /\ s[k + 1].name = names[d1 + 1])
      BY <2>1, <2>2
  <2> HIDE DEF r, d, r1, d1
  <2>5. CASE r = 0
    <3>1. s[k].op = "openFile" /\ k < n * 2 /\ s[k + 1].op = "removeFile" /\ s[k + 1].name = s[k].name
        BY <1>2, <2>3, <2>4, <2>5
    <3> QED
        BY <1>5, <3>1 DEF FitsAt
  <2>6. CASE r = 1
    <3>1. s[k].op = "removeFile" /\ (k < n * 2 => s[k + 1].op = "openFile")
        BY <1>2, <2>3, <2>4, <2>6
    <3> QED
        BY <1>5, <3>1 DEF FitsAt
  <2> QED
      BY <2>3, <2>5, <2>6
<1> QED
    BY <1>5, <1>6 DEF CallsFit, s, ops

(* What is left of fitting calls fits.                                     *)
LEMMA TailFits ==
    ASSUME NEW s, CallsFit(s), s # <<>>
    PROVE  CallsFit(Tail(s)) /\ Head(s) \in Calls /\ Head(s) = s[1] /\ Len(s) \in Nat \ {0} /\ FitsAt(s, 1)
           /\ Len(Tail(s)) = Len(s) - 1 /\ (\A k \in 1 .. Len(s) - 1 : Tail(s)[k] = s[k + 1])
           /\ (Len(s) = 1 => Tail(s) = <<>>)
           /\ (Len(s) > 1 => Tail(s) # <<>> /\ Head(Tail(s)) = s[2])
<1>1. s \in Seq(Calls) /\ Len(s) \in Nat \ {0} /\ \A k \in 1 .. Len(s) : FitsAt(s, k)
    BY DEF CallsFit
<1>2. Tail(s) \in Seq(Calls) /\ Len(Tail(s)) = Len(s) - 1 /\ Head(s) = s[1] /\ s[1] \in Calls
      /\ \A k \in 1 .. Len(s) - 1 : Tail(s)[k] = s[k + 1]
    BY <1>1
<1> DEFINE t == Tail(s)
<1> HIDE DEF t
<1>3. t \in Seq(Calls) /\ Len(t) = Len(s) - 1 /\ \A k \in 1 .. Len(s) - 1 : t[k] = s[k + 1]
    BY <1>2 DEF t
<1>4. ASSUME NEW k \in 1 .. Len(t) PROVE FitsAt(t, k)
  <2>1. k + 1 \in 1 .. Len(s) /\ k \in 1 .. Len(s) - 1 /\ k \in Nat /\ (k < Len(t) <=> k + 1 < Len(s))
        /\ (k < Len(t) => k + 1 \in 1 .. Len(s) - 1) /\ (k = Len(t) <=> k + 1 = Len(s))
      BY <1>1, <1>3, <1>4
  <2>2. t[k] = s[k + 1] /\ (k < Len(t) => t[k + 1] = s[(k + 1) + 1])
      BY <1>3, <2>1
  <2>3. FitsAt(s, k + 1)
      BY <1>1, <2>1
  <2> QED
      BY <2>1, <2>2, <2>3 DEF FitsAt
<1>5. FitsAt(s, 1)
    BY <1>1
<1>6. Len(s) = 1 => t = <<>>
    BY <1>1, <1>3
<1>7. Len(s) > 1 => t # <<>> /\ Head(t) = s[2]
    BY <1>1, <1>3
<1> QED
    BY <1>1, <1>2, <1>3, <1>4, <1>5, <1>6, <1>7 DEF CallsFit, t

(* At most one file is pending: the one the next call is to close.         *)
LEMMA PendingIs ==
    ASSUME NEW s, NEW x
    PROVE  /\ Pending(s, x) \in {0, 1}
           /\ (s = <<>> \/ Head(s).op \notin ClosingCalls \/ Head(s).name # x) => Pending(s, x) = 0
           /\ (s # <<>> /\ Head(s).op \in ClosingCalls /\ Head(s).name = x) => Pending(s, x) = 1
    BY DEF Pending

(* One call: the file it names may be open once more until the call that   *)
(* closes it, unless that call fails.                                      *)
LEMMA CallStep ==
    ASSUME OpensInv, ApiCall
    PROVE  OpensInv'
<1> DEFINE call == Head(todo)
           x == call.name
<1>1. PICK answer \in answers :
         /\ todo' = IF call.op = "readFile" THEN afterRead(answer) ELSE Tail(todo)
         /\ opened' = [opened EXCEPT ![x] = IF answer = -1 THEN @ ELSE opensAfter(call.op, @)]
         /\ missed' = [missed EXCEPT ![x] =
                IF answer = -1 /\ call.op \in {"readFile", "closeFile", "removeFile"} THEN @ + 1 ELSE @]
    BY DEF ApiCall
<1>2. todo # <<>> /\ answers' = answers /\ answer \in {0, -1} /\ CallsFit(todo)
    BY DEF ApiCall, environment, OpensInv
<1>3. /\ call \in Calls /\ call = todo[1] /\ Len(todo) \in Nat \ {0} /\ FitsAt(todo, 1)
      /\ (Len(todo) = 1 => Tail(todo) = <<>>)
      /\ (Len(todo) > 1 => Tail(todo) # <<>> /\ Head(Tail(todo)) = todo[2])
      /\ CallsFit(Tail(todo))
    BY <1>2, TailFits
<1>4. x \in Files /\ call.op \in {"openFile", "readNFiles", "readFile", "writeFile", "closeFile", "removeFile"}
    BY <1>3 DEF Calls, ClosingCalls
<1>5. opened \in [Files -> Nat] /\ missed \in [Files -> Nat] /\ \A y \in Files : opened[y] <= missed[y] + Pending(todo, y)
    BY DEF OpensInv
<1>6. /\ \A y \in Files : y # x => opened'[y] = opened[y] /\ missed'[y] = missed[y]
      /\ opened'[x] = (IF answer = -1 THEN opened[x] ELSE opensAfter(call.op, opened[x]))
      /\ missed'[x] = (IF answer = -1 /\ call.op \in {"readFile", "closeFile", "removeFile"} THEN missed[x] + 1 ELSE missed[x])
    BY <1>1, <1>4, <1>5
<1>7. opened' \in [Files -> Nat] /\ missed' \in [Files -> Nat]
  <2>1. \A n \in Nat : opensAfter(call.op, n) \in Nat
      BY DEF opensAfter
  <2>2. opened[x] \in Nat /\ missed[x] \in Nat
      BY <1>4, <1>5
  <2>3. opened'[x] \in Nat /\ missed'[x] \in Nat
      BY <1>6, <2>1, <2>2
  <2>4. \E v, w : opened' = [opened EXCEPT ![x] = v] /\ missed' = [missed EXCEPT ![x] = w]
      BY <1>1
  <2> QED
      BY <1>4, <1>5, <2>3, <2>4
<1> HIDE DEF call, x
<1>y. \A y \in Files : y # x => Pending(todo, y) = 0
    BY <1>2, PendingIs DEF call, x
<1>8. ASSUME CallsFit(todo'), opened'[x] <= missed'[x] + Pending(todo', x) PROVE OpensInv'
  <2>1. ASSUME NEW y \in Files, y # x PROVE opened'[y] <= missed'[y] + Pending(todo', y)
    <3>1. opened'[y] = opened[y] /\ missed'[y] = missed[y] /\ Pending(todo, y) = 0
          /\ opened[y] <= missed[y] + Pending(todo, y) /\ opened[y] \in Nat /\ missed[y] \in Nat
        BY <1>5, <1>6, <1>y, <2>1
    <3>2. Pending(todo', y) \in {0, 1}
        BY PendingIs
    <3> QED
        BY <3>1, <3>2
  <2>2. answers' \subseteq {0, -1}
      BY <1>2 DEF OpensInv
  <2>3. \A y \in Files : opened'[y] <= missed'[y] + Pending(todo', y)
      BY <1>8, <2>1
  <2>4. \A y \in Files : Pending(todo, y)' = Pending(todo', y)
      BY DEF Pending
  <2>5. CallsFit(todo)' <=> CallsFit(todo')
      BY DEF CallsFit, FitsAt, Calls, ClosingCalls, Files
  <2> QED
      BY <1>7, <1>8, <2>2, <2>3, <2>4, <2>5 DEF OpensInv
<1>9. opened[x] \in Nat /\ missed[x] \in Nat /\ opened[x] <= missed[x] + Pending(todo, x)
    BY <1>4, <1>5
<1>10. CASE call.op = "openFile"
  <2>1. Pending(todo, x) = 0
      BY <1>10, PendingIs DEF call, ClosingCalls
  <2>2. todo' = Tail(todo) /\ Pending(todo', x) = 1
    <3>1. todo' = Tail(todo)
        BY <1>1, <1>10 DEF call
    <3>2. Len(todo) > 1 /\ todo[2].op \in {"readFile", "writeFile", "removeFile"} /\ todo[2].name = x
        BY <1>3, <1>10 DEF FitsAt, x
    <3>3. todo[2].op \in ClosingCalls
        BY <3>2 DEF ClosingCalls
    <3> QED
        BY <1>3, <3>1, <3>2, <3>3, PendingIs
  <2>3. opened'[x] <= opened[x] + 1 /\ missed'[x] = missed[x]
      BY <1>6, <1>9, <1>10 DEF opensAfter
  <2>4. opened'[x] \in Nat
      BY <1>4, <1>7
  <2> QED
      BY <1>3, <1>8, <1>9, <2>1, <2>2, <2>3, <2>4
<1>11. CASE call.op = "readNFiles"
  <2>1. Pending(todo, x) = 0
      BY <1>11, PendingIs DEF call, ClosingCalls
  <2>2. todo' = Tail(todo) /\ opened'[x] = opened[x] /\ missed'[x] = missed[x] /\ Pending(todo', x) \in {0, 1}
      BY <1>1, <1>6, <1>11, PendingIs DEF opensAfter, call
  <2> QED
      BY <1>3, <1>8, <1>9, <2>1, <2>2
<1>12. CASE call.op = "writeFile" \/ (call.op = "readFile" /\ answer = 0)
  <2>1. todo' = Tail(todo)
      BY <1>1, <1>12 DEF call, afterRead
  <2>2. Len(todo) > 1 /\ todo[2].op = "closeFile" /\ todo[2].name = x
      BY <1>3, <1>12 DEF FitsAt, x
  <2>3. todo[2].op \in ClosingCalls
      BY <2>2 DEF ClosingCalls
  <2>4. Pending(todo', x) = 1
      BY <1>3, <2>1, <2>2, <2>3, PendingIs
  <2>5. opened'[x] = opened[x] /\ missed'[x] = missed[x]
      BY <1>6, <1>12 DEF opensAfter
  <2>6. Pending(todo, x) \in {0, 1}
      BY PendingIs
  <2> QED
      BY <1>3, <1>8, <1>9, <2>1, <2>4, <2>5, <2>6
<1>13. CASE call.op = "readFile" /\ answer = -1
  <2>1. todo' = Tail(Tail(todo))
      BY <1>1, <1>13 DEF call, afterRead
  <2>2. Len(todo) > 1
      BY <1>3, <1>13 DEF FitsAt
  <2>3. CallsFit(todo')
      BY <1>3, <2>1, <2>2, TailFits
  <2>4. opened'[x] = opened[x] /\ missed'[x] = missed[x] + 1
      BY <1>6, <1>13
  <2>5. Pending(todo, x) \in {0, 1} /\ Pending(todo', x) \in {0, 1}
      BY PendingIs
  <2> QED
      BY <1>8, <1>9, <2>3, <2>4, <2>5
<1>14. CASE call.op \in {"closeFile", "removeFile"}
  <2>1. todo' = Tail(todo)
      BY <1>1, <1>14 DEF call
  <2>2. Pending(todo, x) \in {0, 1} /\ Pending(todo', x) \in {0, 1}
      BY PendingIs
  <2>3. CASE answer = -1
    <3>1. opened'[x] = opened[x] /\ missed'[x] = missed[x] + 1
        BY <1>6, <1>14, <2>3
    <3> QED
        BY <1>3, <1>8, <1>9, <2>1, <2>2, <3>1
  <2>4. CASE answer = 0
    <3>1. missed'[x] = missed[x] /\ (opened'[x] = 0 \/ opened'[x] = opened[x] - 1)
        BY <1>6, <1>9, <1>14, <2>4 DEF opensAfter
    <3> QED
        BY <1>3, <1>8, <1>9, <2>1, <2>2, <3>1
  <2> QED
      BY <1>2, <2>3, <2>4
<1> QED
    BY <1>2, <1>4, <1>10, <1>11, <1>12, <1>13, <1>14

(* No calls are left.                                                      *)
LEMMA NoCalls ==
    CallsFit(<<>>) /\ \A x : Pending(<<>>, x) = 0
    BY DEF CallsFit, Pending

(* New calls, all before made: as the next one opens, nothing is pending.  *)
LEMMA NewCalls ==
    ASSUME OpensInv, todo = <<>>, UNCHANGED <<answers, opened, missed>>,
           CallsFit(todo'), \A x \in Files : Pending(todo', x) = 0
    PROVE  OpensInv'
<1>1. \A x \in Files : opened[x] \in Nat /\ missed[x] \in Nat /\ opened[x] <= missed[x] + 0
    BY NoCalls DEF OpensInv
<1>2. \A x \in Files : opened'[x] <= missed'[x] + Pending(todo', x)
    BY <1>1
<1>3. \A x \in Files : Pending(todo, x)' = Pending(todo', x)
    BY DEF Pending
<1>4. CallsFit(todo)' <=> CallsFit(todo')
    BY DEF CallsFit, FitsAt, Calls, ClosingCalls, Files
<1> QED
    BY <1>2, <1>3, <1>4 DEF OpensInv

(* The calls of a list fit together, and open a file before all else.      *)
LEMMA FirstOpens ==
    ASSUME NEW names \in Seq(Files), NEW ops \in {<<"openFile", "readFile", "closeFile">>,
                                                  <<"openFile", "writeFile", "closeFile">>,
                                                  <<"openFile", "removeFile">>}
    PROVE  CallsFit(ForEach(names, ops)) /\ \A x \in Files : Pending(ForEach(names, ops), x) = 0
<1>1. CallsFit(ForEach(names, ops))
    BY TripleFits, PairFits
<1>2. ops[1] = "openFile" /\ Len(ops) \in {2, 3}
    OBVIOUS
<1> HIDE DEF ForEach
<1>3. CASE ForEach(names, ops) = <<>>
    BY <1>1, <1>3, NoCalls
<1>4. CASE ForEach(names, ops) # <<>>
  <2>1. Len(ForEach(names, ops)) \in Nat \ {0} /\ Head(ForEach(names, ops)) = ForEach(names, ops)[1]
      BY <1>1, <1>4, TailFits
  <2>2. Len(ForEach(names, ops)) = Len(names) * Len(ops)
    <3>1. Len(names) * Len(ops) \in Nat
        BY <1>2
    <3> QED
        BY <3>1 DEF ForEach
  <2>3. ForEach(names, ops)[1] = [op |-> ops[((1 - 1) % Len(ops)) + 1], name |-> names[((1 - 1) \div Len(ops)) + 1]]
    <3>1. 1 \in 1 .. Len(names) * Len(ops)
        BY <2>1, <2>2
    <3> QED
        BY <3>1 DEF ForEach
  <2>4. ((1 - 1) % Len(ops)) + 1 = 1
    <3>1. ((1 - 1) % 2) + 1 = 1 /\ ((1 - 1) % 3) + 1 = 1
        OBVIOUS
    <3> QED
        BY <1>2, <3>1
  <2>5. Head(ForEach(names, ops)).op \notin ClosingCalls
      BY <1>2, <2>1, <2>3, <2>4 DEF ClosingCalls
  <2> QED
      BY <1>1, <2>5, PendingIs
<1> QED
    BY <1>3, <1>4

(* The names of a list are names of files.                                 *)
LEMMA NamesType ==
    ASSUME NEW w \in DOMAIN ListOf
    PROVE  NamesOf(w) \in Seq(Files)
<1>1. ListOf[w] \in Seq(STRING)
    BY CommandLineAssumption
<1>2. \A k \in 1 .. Len(ListOf[w]) : ListOf[w][k] \in Files
    BY <1>1 DEF Files, Range
<1>3. ListOf[w] \in Seq(Files)
    BY <1>1, <1>2
<1>4. NoName \in Files
    BY DEF Files
<1> QED
    BY <1>3, <1>4 DEF NamesOf

(* A command starts with an openFile or makes one readNFiles.              *)
LEMMA CommandStep ==
    ASSUME AskedInv, OpensInv, Commands
    PROVE  OpensInv'
<1>1. todo = <<>> /\ UNCHANGED <<answers, opened, missed>> /\ Turning
    BY DEF Commands, environment, Turning
<1>2. ASSUME validFileParam(i + 1) PROVE NamesOf(argv[i + 1]) \in Seq(Files)
  <2>1. i \in Nat /\ i + 1 \in Nat /\ i + 1 > i
      BY <1>1, ParamsAre
  <2>2. i + 1 <= Len(argv) /\ argv \in Seq(Arguments) /\ Len(argv) \in Nat
      BY <1>1, <1>2, <2>1, ParamsAre
  <2>3. argv[i + 1] \in Arguments /\ argv[i + 1] \notin Options
      BY <1>2, <2>1, <2>2 DEF validFileParam
  <2>4. argv[i + 1] \in DOMAIN ListOf
      BY <2>3 DEF Arguments
  <2> QED
      BY <2>4, NamesType
<1>3. ASSUME todo' = <<>> PROVE OpensInv'
    BY <1>1, <1>3, NewCalls, NoCalls
<1>4. ASSUME NEW names \in Seq(Files), NEW ops \in {<<"openFile", "readFile", "closeFile">>,
                                                    <<"openFile", "writeFile", "closeFile">>,
                                                    <<"openFile", "removeFile">>},
             todo' = ForEach(names, ops)
      PROVE  OpensInv'
    BY <1>1, <1>4, NewCalls, FirstOpens
<1>5. \A last : NotLaunched(last) => todo' = <<>>
    BY DEF NotLaunched, Runs
<1>6. CASE CommandRead
  <2>1. (\E last : NotLaunched(last)) \/ (validFileParam(i + 1) /\ \E last : readFileList(last))
      BY <1>6 DEF CommandRead
  <2>2. \A last : readFileList(last) => todo' = ForEach(NamesOf(argv[i + 1]), <<"openFile", "readFile", "closeFile">>)
      BY DEF readFileList, Runs
  <2> QED
      BY <1>2, <1>3, <1>4, <1>5, <2>1, <2>2
<1>7. CASE CommandReadN
  <2>1. (\E last : NotLaunched(last)) \/ \E last : readNFiles(last)
      BY <1>7 DEF CommandReadN
  <2>2. \A last : readNFiles(last) => todo' = <<[op |-> "readNFiles", name |-> NoName]>>
      BY DEF readNFiles, Runs
  <2> DEFINE c == [op |-> "readNFiles", name |-> NoName]
  <2>3. c \in Calls /\ c.op = "readNFiles"
      BY DEF Calls, Files
  <2> HIDE DEF c
  <2>4. <<c>> \in Seq(Calls) /\ Len(<<c>>) = 1 /\ <<c>>[1] = c /\ Head(<<c>>) = c
      BY <2>3
  <2>5. FitsAt(<<c>>, 1)
      BY <2>3, <2>4 DEF FitsAt
  <2>6. CallsFit(<<c>>)
      BY <2>4, <2>5 DEF CallsFit
  <2>7. \A x \in Files : Pending(<<c>>, x) = 0
      BY <2>3, <2>4, PendingIs DEF ClosingCalls
  <2>8. \A last : readNFiles(last) => todo' = <<c>>
      BY <2>2 DEF c
  <2> QED
      BY <1>1, <1>3, <1>5, <2>1, <2>6, <2>7, <2>8, NewCalls
<1>8. CASE CommandWrite
  <2>1. NotLaunched(i)
        \/ (validFileParam(i + 1)
            /\ todo' = ForEach(NamesOf(argv[i + 1]), <<"openFile", "writeFile", "closeFile">>))
      BY <1>8 DEF CommandWrite, Runs
  <2> QED
      BY <1>2, <1>3, <1>4, <1>5, <2>1
<1>9. CASE CommandRemove
  <2>1. NotLaunched(i)
        \/ (validFileParam(i + 1) /\ todo' = ForEach(NamesOf(argv[i + 1]), <<"openFile", "removeFile">>))
      BY <1>9 DEF CommandRemove, Runs
  <2> QED
      BY <1>2, <1>3, <1>4, <1>5, <2>1
<1>10. CASE CommandSend
  <2>1. (\E last : NotLaunched(last)) \/ todo' = todo
      BY <1>10 DEF CommandSend
  <2> QED
      BY <1>1, <1>3, <1>5, <2>1
<1>11. CASE CommandOther
    BY <1>3, <1>5, <1>11 DEF CommandOther
<1> QED
    BY <1>6, <1>7, <1>8, <1>9, <1>10, <1>11 DEF Commands

(* At the start nothing is open.                                           *)
LEMMA OpensInit == ArgsInit => OpensInv
<1> SUFFICES ASSUME NEW c \in Cases, ArgsStart(c) PROVE OpensInv
    BY DEF ArgsInit
<1>1. answers \subseteq {0, -1}
    BY CommandLineAssumption DEF ArgsStart
<1>2. opened = [x \in Files |-> 0] /\ missed = [x \in Files |-> 0] /\ todo = <<>>
    BY DEF ArgsStart
<1> QED
    BY <1>1, <1>2, NoCalls DEF OpensInv

(* Whatever leaves the calls alone.                                        *)
LEMMA OpensSame ==
    ASSUME OpensInv, UNCHANGED <<answers, opened, missed, todo>>
    PROVE  OpensInv'
    BY DEF OpensInv, CallsFit, FitsAt, Pending, Calls, Files

(* OpensInv is inductive.                                                  *)
LEMMA OpensStep == AskedInv /\ OpensInv /\ [ArgsNext]_argVars => OpensInv'
<1> SUFFICES ASSUME AskedInv, OpensInv, [ArgsNext]_argVars PROVE OpensInv'
    OBVIOUS
<1>1. CASE ReadConnection
    BY <1>1, OpensSame DEF ReadConnection, environment
<1>2. CASE Commands
    BY <1>2, CommandStep
<1>3. CASE sendFilesDirectory
  <2>1. todo = <<>> /\ UNCHANGED <<answers, opened, missed>>
      BY <1>3 DEF sendFilesDirectory, environment
  <2>2. CASE todo' = todo
      BY <2>1, <2>2, OpensSame
  <2>3. CASE todo' = ForEach(<<"file">>, <<"openFile", "writeFile", "closeFile">>)
    <3>1. "file" \in Files
        BY DEF Files
    <3>2. <<"file">> \in Seq(Files)
        BY <3>1
    <3> QED
        BY <2>1, <2>3, <3>2, NewCalls, FirstOpens
  <2> QED
      BY <1>3, <2>2, <2>3 DEF sendFilesDirectory, DirectoryEnd, SubDirectory, RegularFile
<1>4. CASE ApiCall
    BY <1>4, CallStep
<1>5. CASE closeConnection
    BY <1>5, OpensSame DEF closeConnection, environment
<1>6. CASE UNCHANGED argVars
    BY <1>6, OpensSame DEF argVars
<1> QED
    BY <1>1, <1>2, <1>3, <1>4, <1>5, <1>6 DEF ArgsNext

(* Between two commands a file is open only as often as a call that was to *)
(* end with it closed failed: OpensClosed.                                 *)
THEOREM CommandsCloseWhatTheyOpen == ArgsSpec => []OpensClosed
<1>1. OpensInv => OpensClosed
  <2> SUFFICES ASSUME OpensInv, todo = <<>>, NEW x \in Files PROVE opened[x] <= missed[x]
      BY DEF OpensClosed
  <2>1. opened[x] \in Nat /\ missed[x] \in Nat /\ opened[x] <= missed[x] + 0
      BY NoCalls DEF OpensInv
  <2> QED
      BY <2>1
<1> QED
    BY <1>1, AskedInit, AskedStep, OpensInit, OpensStep, PTL DEF ArgsSpec

-----------------------------------------------------------------------------
(* The files in a directory.                                               *)

Tree == contents \in [Directories -> Seq(Directories \cup {Regular})] /\ Nested(contents)

(* What visits makes of the rest of its own values.                        *)
Ends(p) == p[1] \in unreadable \/ p[2] > Len(contents[p[1]])
Below(p) == <<entryAt(p), 1>>
After(p) == <<p[1], p[2] + 1>>
Onward(f, p) ==
    IF Ends(p) THEN <<>> ELSE (IF entryAt(p) = Regular THEN <<p>> ELSE f[Below(p)]) \o f[After(p)]

(* A number that every step of the walk makes smaller.                     *)
Shrinks(mu) ==
    \A p \in Places : ~Ends(p) =>
        /\ After(p) \in Places /\ mu[After(p)] < mu[p]
        /\ entryAt(p) # Regular => Below(p) \in Places /\ mu[Below(p)] < mu[p]

(* The recursion of visits has a solution.                                 *)
LEMMA VisitsExist ==
    ASSUME NEW B \in Nat, NEW mu \in [Places -> 0 .. B], Shrinks(mu)
    PROVE  \E f : f = [p \in Places |-> Onward(f, p)]
<1> DEFINE Upto(n) == \E f : \A p \in Places : mu[p] < n => f[p] = Onward(f, p)
<1>0. \A p \in Places : mu[p] \in 0 .. B /\ mu[p] \in Nat /\ mu[p] < B + 1
    OBVIOUS
<1>1. Upto(0)
    BY <1>0
<1>2. ASSUME NEW n \in Nat, Upto(n) PROVE Upto(n + 1)
  <2>1. PICK f : \A p \in Places : mu[p] < n => f[p] = Onward(f, p)
      BY <1>2
  <2> DEFINE g == [p \in Places |-> Onward(f, p)]
  <2>2. \A p \in Places : g[p] = Onward(f, p)
      OBVIOUS
  <2> HIDE DEF g
  <2>3. ASSUME NEW p \in Places, mu[p] < n + 1 PROVE g[p] = Onward(g, p)
    <3>1. ASSUME NEW q \in Places, mu[q] < mu[p] PROVE g[q] = f[q]
      <4>1. mu[q] < n
          BY <1>0, <2>3, <3>1
      <4> QED
          BY <2>1, <2>2, <4>1
    <3>2. CASE Ends(p)
        BY <2>2, <3>2 DEF Onward
    <3>3. CASE ~Ends(p)
      <4>1. g[After(p)] = f[After(p)] /\ (entryAt(p) # Regular => g[Below(p)] = f[Below(p)])
          BY <3>1, <3>3 DEF Shrinks
      <4> QED
          BY <2>2, <4>1 DEF Onward
    <3> QED
        BY <3>2, <3>3
  <2> QED
      BY <2>3
<1> HIDE DEF Upto
<1>3. Upto(B + 1)
  <2> DEFINE W == { n \in Nat : ~Upto(n) }
  <2> SUFFICES ASSUME W # {} PROVE FALSE
      OBVIOUS
  <2>1. PICK n \in W : \A m \in W : n =< m
    <3>1. W \in SUBSET Nat
        OBVIOUS
    <3> HIDE DEF W
    <3> QED
        BY <3>1, NatLeast
  <2>2. n \in Nat /\ ~Upto(n) /\ n # 0
      BY <1>1, <2>1
  <2>3. n - 1 \in Nat /\ (n - 1) + 1 = n /\ ~(n =< n - 1)
      BY <2>2
  <2>4. Upto(n - 1)
      BY <2>1, <2>3
  <2> QED
      BY <1>2, <2>2, <2>3, <2>4
<1>4. PICK f : \A p \in Places : mu[p] < B + 1 => f[p] = Onward(f, p)
    BY <1>3 DEF Upto
<1> DEFINE h == [p \in Places |-> f[p]]
<1>5. \A p \in Places : h[p] = f[p]
    OBVIOUS
<1> HIDE DEF h
<1>6. ASSUME NEW p \in Places PROVE f[p] = Onward(h, p)
  <2>1. f[p] = Onward(f, p)
      BY <1>0, <1>4
  <2>2. ~Ends(p) => h[After(p)] = f[After(p)] /\ (entryAt(p) # Regular => h[Below(p)] = f[Below(p)])
      BY <1>5 DEF Shrinks
  <2> QED
      BY <2>1, <2>2 DEF Onward
<1>7. h = [p \in Places |-> Onward(h, p)]
    BY <1>6 DEF h
<1> QED
    BY <1>7

(* Each directory counts for more than its entries can.                    *)
LEMMA WalksShrink ==
    ASSUME Tree
    PROVE  \E B \in Nat : \E mu \in [Places -> 0 .. B] : Shrinks(mu)
<1> DEFINE D == Cardinality(Directories)
<1>0. D \in Nat /\ Regular \notin Directories /\ IsFiniteSet(Directories)
    BY CommandLineAssumption, FS_CardinalityType
<1>1. \A d \in Directories : contents[d] \in Seq(Directories \cup {Regular}) /\ Len(contents[d]) \in Nat
                             /\ DOMAIN contents[d] = 1 .. Len(contents[d])
    BY DEF Tree
<1>2. PICK depth \in [Directories -> 0 .. D] :
         \A d \in Directories : \A k \in DOMAIN contents[d] : contents[d][k] # Regular => depth[contents[d][k]] < depth[d]
    BY DEF Tree, Nested
<1> HIDE DEF D
<1>3. PICK W \in Nat \ {0} : \A d \in Directories : Len(contents[d]) < W
  <2> DEFINE L == { Len(contents[d]) : d \in Directories }
  <2>1. IsFiniteSet(L) /\ L \in SUBSET Int
    <3> DEFINE f == [d \in Directories |-> Len(contents[d])]
    <3>1. f \in Surjection(Directories, L)
        BY DEF Surjection
    <3>2. L \in SUBSET Int
        BY <1>1
    <3> HIDE DEF f, L
    <3> QED
        BY <1>0, <3>1, <3>2, FS_Surjection
  <2>2. CASE Directories = {}
      BY <2>2
  <2>3. CASE Directories # {}
    <3>1. L # {} /\ \A d \in Directories : Len(contents[d]) \in L
        BY <2>3
    <3> HIDE DEF L
    <3>2. Max(L) \in L /\ \A y \in L : y =< Max(L)
        BY <2>1, <3>1, MaxIsMember
    <3>3. Max(L) \in Nat
        BY <1>1, <3>2 DEF L
    <3>4. Max(L) + 1 \in Nat \ {0} /\ \A d \in Directories : Len(contents[d]) < Max(L) + 1
        BY <1>1, <3>1, <3>2, <3>3
    <3> QED
        BY <3>4
  <2> QED
      BY <2>2, <2>3
<1> DEFINE left(p) == IF p[2] > Len(contents[p[1]]) THEN 0 ELSE (Len(contents[p[1]]) + 1) - p[2]
           mu == [p \in Places |-> depth[p[1]] * W + left(p)]
           B == D * W + W
<1>4. ASSUME NEW p \in Places
      PROVE  /\ p[1] \in Directories /\ p[2] \in Nat \ {0} /\ p = <<p[1], p[2]>>
             /\ left(p) \in Nat /\ left(p) < W
    BY <1>1, <1>3, <1>4 DEF Places
<1>5. \A a, b \in Nat : a < b => a * W + W <= b * W /\ a * W \in Nat
  <2> TAKE a, b \in Nat
  <2> HAVE a < b
  <2>1. PICK c \in Nat : b = (a + 1) + c
    <3>1. b - (a + 1) \in Nat /\ b = (a + 1) + (b - (a + 1))
        OBVIOUS
    <3> QED
        BY <3>1
  <2>2. b * W = a * W + W + c * W /\ c * W \in Nat /\ a * W \in Nat
      BY <2>1, <1>3
  <2> QED
      BY <2>2, <1>3
<1>6. \A d \in Directories : depth[d] \in Nat /\ depth[d] <= D /\ depth[d] * W \in Nat
  <2> TAKE d \in Directories
  <2>1. depth[d] \in 0 .. D
      BY <1>2
  <2>2. depth[d] \in Nat /\ depth[d] <= D
      BY <1>0, <2>1
  <2> QED
      BY <1>3, <2>2
<1>7. D * W \in Nat /\ B \in Nat
    BY <1>0, <1>3
<1>8. \A p \in Places : depth[p[1]] * W + left(p) \in 0 .. B
  <2> TAKE p \in Places
  <2> DEFINE x == depth[p[1]] * W
             y == D * W
             l == left(p)
  <2>1. x \in Nat /\ y \in Nat /\ l \in Nat /\ l < W
      BY <1>4, <1>6, <1>7
  <2>2. x <= y
    <3>1. depth[p[1]] = D \/ depth[p[1]] < D
        BY <1>0, <1>4, <1>6
    <3>2. depth[p[1]] < D => x + W <= y
        BY <1>0, <1>4, <1>5, <1>6
    <3> QED
        BY <1>3, <2>1, <3>1, <3>2
  <2>3. B = y + W
      OBVIOUS
  <2> HIDE DEF x, y, l, B
  <2>4. x + l \in 0 .. B
      BY <1>3, <2>1, <2>2, <2>3
  <2> QED
      BY <2>4 DEF x, l
<1>9. mu \in [Places -> 0 .. B]
    BY <1>8
<1>10. \A p \in Places : mu[p] = depth[p[1]] * W + left(p)
    OBVIOUS
<1> HIDE DEF mu, B
<1>11. ASSUME NEW p \in Places, ~Ends(p)
       PROVE  /\ After(p) \in Places /\ mu[After(p)] < mu[p]
              /\ entryAt(p) # Regular => Below(p) \in Places /\ mu[Below(p)] < mu[p]
  <2>1. p[1] \in Directories /\ p[2] \in Nat \ {0} /\ Len(contents[p[1]]) \in Nat /\ ~(p[2] > Len(contents[p[1]]))
      BY <1>1, <1>4, <1>11 DEF Ends
  <2>2. After(p) \in Places /\ After(p)[1] = p[1] /\ After(p)[2] = p[2] + 1
      BY <2>1 DEF After, Places
  <2>3. left(p) = (Len(contents[p[1]]) + 1) - p[2] /\ left(p) \in Nat \ {0}
      BY <2>1
  <2>4. left(After(p)) \in Nat /\ left(After(p)) < left(p)
    <3>1. left(After(p)) = IF p[2] + 1 > Len(contents[p[1]]) THEN 0 ELSE (Len(contents[p[1]]) + 1) - (p[2] + 1)
        BY <2>2
    <3> HIDE DEF left
    <3> QED
        BY <2>1, <2>3, <3>1
  <2> HIDE DEF left
  <2>5. depth[p[1]] * W \in Nat
      BY <1>6, <2>1
  <2>6. mu[After(p)] < mu[p]
      BY <1>10, <2>2, <2>3, <2>4, <2>5
  <2>7. ASSUME entryAt(p) # Regular PROVE Below(p) \in Places /\ mu[Below(p)] < mu[p]
    <3>1. p[2] \in DOMAIN contents[p[1]]
        BY <1>1, <2>1
    <3>2. entryAt(p) \in Directories /\ depth[entryAt(p)] < depth[p[1]]
        BY <1>1, <1>2, <2>1, <2>7, <3>1 DEF entryAt
    <3>3. Below(p) \in Places /\ Below(p)[1] = entryAt(p)
        BY <3>2 DEF Below, Places
    <3>4. depth[entryAt(p)] * W + W <= depth[p[1]] * W /\ depth[entryAt(p)] * W \in Nat
        BY <1>5, <1>6, <2>1, <3>2
    <3>5. left(Below(p)) \in Nat /\ left(Below(p)) < W
        BY <1>4, <3>3
    <3>6. mu[Below(p)] = depth[entryAt(p)] * W + left(Below(p)) /\ mu[p] = depth[p[1]] * W + left(p)
        BY <1>10, <3>3
    <3> QED
        BY <1>3, <2>3, <2>5, <3>3, <3>4, <3>5, <3>6
  <2> QED
      BY <2>2, <2>6, <2>7
<1>12. Shrinks(mu)
    BY <1>11 DEF Shrinks
<1> QED
    BY <1>7, <1>9, <1>12

(* So visits is what its equation says.                                    *)
LEMMA VisitsUnfold ==
    ASSUME Tree
    PROVE  \A p \in Places : visits[p] = Onward(visits, p)
<1> DEFINE v == CHOOSE v : v = [p \in Places |-> Onward(v, p)]
<1>1. v = [p \in Places |-> Onward(v, p)]
    BY WalksShrink, VisitsExist
<1>2. visits = v
    BY DEF visits, Onward, Ends, Below, After
<1> HIDE DEF v
<1> QED
    BY <1>1, <1>2

(* A walk visits places, and what it visits from the k-th entry of a       *)
(* directory on it visits from the first entry on.                         *)
LEMMA VisitsType ==
    ASSUME Tree
    PROVE  \A p \in Places : visits[p] \in Seq(Places)
<1>1. PICK B \in Nat : \E mu \in [Places -> 0 .. B] : Shrinks(mu)
    BY WalksShrink
<1>2. PICK mu \in [Places -> 0 .. B] : Shrinks(mu)
    BY <1>1
<1>3. \A p \in Places : mu[p] \in Nat
    BY <1>2
<1> DEFINE W == { mu[p] : p \in { q \in Places : visits[q] \notin Seq(Places) } }
<1> SUFFICES ASSUME W # {} PROVE FALSE
    OBVIOUS
<1>4. PICK n \in W : \A m \in W : n =< m
  <2>1. W \in SUBSET Nat
      BY <1>3
  <2> HIDE DEF W
  <2> QED
      BY <2>1, NatLeast
<1>5. PICK p \in Places : visits[p] \notin Seq(Places) /\ n = mu[p]
    BY <1>4
<1>6. ASSUME NEW q \in Places, mu[q] < mu[p] PROVE visits[q] \in Seq(Places)
  <2> SUFFICES ASSUME visits[q] \notin Seq(Places) PROVE FALSE
      OBVIOUS
  <2>1. mu[q] \in W
      OBVIOUS
  <2>2. n =< mu[q]
      BY <1>4, <2>1
  <2> QED
      BY <1>3, <1>5, <1>6, <2>2
<1>7. visits[p] = Onward(visits, p)
    BY <1>5, VisitsUnfold
<1>8. CASE Ends(p)
    BY <1>5, <1>7, <1>8 DEF Onward
<1>9. CASE ~Ends(p)
  <2>1. visits[After(p)] \in Seq(Places) /\ (entryAt(p) # Regular => visits[Below(p)] \in Seq(Places))
      BY <1>2, <1>6, <1>9 DEF Shrinks
  <2>2. <<p>> \in Seq(Places)
      OBVIOUS
  <2> QED
      BY <1>5, <1>7, <1>9, <2>1, <2>2 DEF Onward
<1> QED
    BY <1>8, <1>9

(* The elements of a concatenation.                                        *)
LEMMA RangeConcat ==
    ASSUME NEW S, NEW s \in Seq(S), NEW t \in Seq(S)
    PROVE  Range(s \o t) = Range(s) \cup Range(t) /\ s \o t \in Seq(S)
<1> DEFINE u == s \o t
<1>1. u \in Seq(S) /\ Len(u) = Len(s) + Len(t) /\ Len(s) \in Nat /\ Len(t) \in Nat
      /\ (\A k \in 1 .. Len(u) : u[k] = IF k <= Len(s) THEN s[k] ELSE t[k - Len(s)])
    OBVIOUS
<1> HIDE DEF u
<1>2. DOMAIN u = 1 .. Len(s) + Len(t) /\ DOMAIN s = 1 .. Len(s) /\ DOMAIN t = 1 .. Len(t)
    BY <1>1
<1>3. ASSUME NEW x \in Range(u) PROVE x \in Range(s) \cup Range(t)
  <2>1. PICK k \in 1 .. Len(s) + Len(t) : x = u[k]
      BY <1>2, <1>3 DEF Range
  <2>2. CASE k <= Len(s)
    <3>1. k \in DOMAIN s /\ x = s[k]
        BY <1>1, <1>2, <2>1, <2>2
    <3> QED
        BY <3>1 DEF Range
  <2>3. CASE ~(k <= Len(s))
    <3>1. k - Len(s) \in DOMAIN t /\ x = t[k - Len(s)]
        BY <1>1, <1>2, <2>1, <2>3
    <3> QED
        BY <3>1 DEF Range
  <2> QED
      BY <2>2, <2>3
<1>4. ASSUME NEW x \in Range(s) PROVE x \in Range(u)
  <2>1. PICK k \in 1 .. Len(s) : x = s[k]
      BY <1>2, <1>4 DEF Range
  <2>2. k \in DOMAIN u /\ u[k] = x
      BY <1>1, <1>2, <2>1
  <2> QED
      BY <2>2 DEF Range
<1>5. ASSUME NEW x \in Range(t) PROVE x \in Range(u)
  <2>1. PICK k \in 1 .. Len(t) : x = t[k]
      BY <1>2, <1>5 DEF Range
  <2>2. k + Len(s) \in DOMAIN u /\ u[k + Len(s)] = x
      BY <1>1, <1>2, <2>1
  <2> QED
      BY <2>2 DEF Range
<1>6. Range(u) = Range(s) \cup Range(t)
    BY <1>3, <1>4, <1>5
<1> QED
    BY <1>1, <1>6 DEF u

(* The files of the walk from a place on.                                  *)
FilesFrom(p) == Range(visits[p])

(* The files met from a place on, one step of the walk unfolded.           *)
LEMMA VisitsRange ==
    ASSUME Tree, NEW p \in Places, ~Ends(p)
    PROVE  /\ After(p) \in Places
           /\ FilesFrom(p) = (IF entryAt(p) = Regular THEN {p} ELSE FilesFrom(Below(p))) \cup FilesFrom(After(p))
           /\ entryAt(p) # Regular => Below(p) \in Places
<1>1. PICK B \in Nat : \E mu \in [Places -> 0 .. B] : Shrinks(mu)
    BY WalksShrink
<1>2. After(p) \in Places /\ (entryAt(p) # Regular => Below(p) \in Places)
    BY <1>1 DEF Shrinks
<1> DEFINE w == IF entryAt(p) = Regular THEN <<p>> ELSE visits[Below(p)]
<1>3. visits[p] = w \o visits[After(p)]
    BY VisitsUnfold DEF Onward
<1>4. w \in Seq(Places) /\ visits[After(p)] \in Seq(Places)
    BY <1>2, VisitsType
<1>5. Range(w) = IF entryAt(p) = Regular THEN {p} ELSE FilesFrom(Below(p))
  <2>1. Range(<<p>>) = {p}
      BY DEF Range
  <2> QED
      BY <2>1 DEF FilesFrom
<1> HIDE DEF w
<1>6. FilesFrom(p) = Range(w) \cup FilesFrom(After(p))
    BY <1>3, <1>4, RangeConcat DEF FilesFrom
<1> QED
    BY <1>2, <1>5, <1>6

(* All of a directory includes the rest of it.                             *)
LEMMA FirstHasAll ==
    ASSUME Tree, NEW d \in Directories, d \notin unreadable
    PROVE  \A k \in Nat \ {0} : k <= Len(contents[d]) + 1 => FilesFrom(<<d, k>>) \subseteq FilesFrom(<<d, 1>>)
<1>0. Len(contents[d]) \in Nat
    BY DEF Tree
<1> DEFINE W == { k \in Nat \ {0} : k <= Len(contents[d]) + 1 /\ ~(FilesFrom(<<d, k>>) \subseteq FilesFrom(<<d, 1>>)) }
<1> SUFFICES ASSUME W # {} PROVE FALSE
    OBVIOUS
<1>1. PICK k \in W : \A m \in W : k =< m
  <2>1. W \in SUBSET Nat
      OBVIOUS
  <2> HIDE DEF W
  <2> QED
      BY <2>1, NatLeast
<1>2. k \in Nat \ {0} /\ k # 1 /\ k <= Len(contents[d]) + 1 /\ ~(FilesFrom(<<d, k>>) \subseteq FilesFrom(<<d, 1>>))
    BY <1>1
<1>3. k - 1 \in Nat \ {0} /\ k - 1 <= Len(contents[d]) + 1 /\ ~(k <= k - 1) /\ (k - 1) + 1 = k /\ ~(k - 1 > Len(contents[d]))
    BY <1>0, <1>2
<1>4. FilesFrom(<<d, k - 1>>) \subseteq FilesFrom(<<d, 1>>)
    BY <1>1, <1>3
<1>5. <<d, k - 1>> \in Places /\ ~Ends(<<d, k - 1>>) /\ After(<<d, k - 1>>) = <<d, k>>
    BY <1>3 DEF Places, Ends, After
<1>6. FilesFrom(<<d, k>>) \subseteq FilesFrom(<<d, k - 1>>)
    BY <1>5, VisitsRange
<1> QED
    BY <1>2, <1>4, <1>6

-----------------------------------------------------------------------------
(* What a walk still has to do.                                            *)

Going(f) == <<f.dir, f.pos>>

(* What is left to visit: for each frame what the ones from it on have     *)
(* left, innermost first.                                                  *)
Remains(rems, st) ==
    /\ rems \in [1 .. Len(st) + 1 -> Seq(Places)]
    /\ rems[Len(st) + 1] = <<>>
    /\ \A j \in 1 .. Len(st) : rems[j] = visits[Going(st[j])] \o rems[j + 1]

(* What was sent and what is left to visit are the whole walk.             *)
Faithful(st, se) == \E rems : Remains(rems, st) /\ se \o rems[1] = walk

Frames == [dir : Directories, pos : Nat \ {0}, n : Int, sent_f : Int]

(* The stack after the innermost call returned, after it read an entry,    *)
(* and after it called itself.                                             *)
Popped(st, s2) ==
    /\ s2 \in Seq(Frames) /\ Len(s2) = Len(st) - 1
    /\ \A j \in 1 .. Len(s2) : s2[j].dir = st[j + 1].dir /\ s2[j].pos = st[j + 1].pos /\ s2[j].n = st[j + 1].n
    /\ \A j \in 1 .. Len(s2) : j # 1 => s2[j].sent_f = st[j + 1].sent_f
Moved(st, s2) ==
    /\ s2 \in Seq(Frames) /\ Len(s2) = Len(st)
    /\ s2[1].dir = st[1].dir /\ s2[1].pos = st[1].pos + 1 /\ s2[1].n = st[1].n
    /\ \A j \in 1 .. Len(s2) : j # 1 => s2[j] = st[j]
Entered(st, s2, d) ==
    /\ s2 \in Seq(Frames) /\ Len(s2) = Len(st) + 1
    /\ s2[1] = [dir |-> d, pos |-> 1, n |-> st[1].n - st[1].sent_f, sent_f |-> 0]
    /\ s2[2].dir = st[1].dir /\ s2[2].pos = st[1].pos + 1 /\ s2[2].n = st[1].n /\ s2[2].sent_f = st[1].sent_f
    /\ \A j \in 1 .. Len(s2) : j > 2 => s2[j] = st[j - 1]

(* Concatenation is associative.                                           *)
LEMMA Regroup ==
    \A s, t, u \in Seq(Places) : (s \o t) \o u = s \o (t \o u)
    BY ConcatAssociative

(* What the innermost frame has left comes first.                          *)
LEMMA FirstRemains ==
    ASSUME NEW st, Len(st) \in Nat \ {0}, NEW rems, Remains(rems, st)
    PROVE  rems[1] = visits[Going(st[1])] \o rems[2]
<1>1. 1 \in 1 .. Len(st) /\ 1 + 1 = 2
    OBVIOUS
<1> QED
    BY <1>1 DEF Remains

(* A frame that had nothing left to visit was dropped.                     *)
LEMMA PoppedFaithful ==
    ASSUME Tree, NEW st \in Seq(Frames), st # <<>>, NEW s2, Popped(st, s2), NEW se,
           Faithful(st, se), visits[Going(st[1])] = <<>>
    PROVE  Faithful(s2, se)
<1>1. PICK rems : Remains(rems, st) /\ se \o rems[1] = walk
    BY DEF Faithful
<1>2. Len(st) \in Nat \ {0} /\ Len(s2) = Len(st) - 1
    BY DEF Popped
<1> DEFINE new == [j \in 1 .. Len(s2) + 1 |-> rems[j + 1]]
<1>3. \A j \in 1 .. Len(s2) + 1 : j + 1 \in 1 .. Len(st) + 1 /\ rems[j + 1] \in Seq(Places) /\ new[j] = rems[j + 1]
  <2> TAKE j \in 1 .. Len(s2) + 1
  <2>1. j + 1 \in 1 .. Len(st) + 1
      BY <1>2
  <2>2. rems[j + 1] \in Seq(Places)
      BY <1>1, <2>1 DEF Remains
  <2> QED
      BY <2>1, <2>2
<1>4. new \in [1 .. Len(s2) + 1 -> Seq(Places)]
    BY <1>3
<1>5. new[1] = rems[2] /\ new[Len(s2) + 1] = rems[Len(st) + 1] /\ rems[2] \in Seq(Places)
    BY <1>2, <1>3
<1> HIDE DEF new
<1>6. rems[1] = rems[2]
  <2>1. rems[1] = <<>> \o rems[2]
      BY <1>1, <1>2, FirstRemains
  <2>2. <<>> \o rems[2] = rems[2]
      BY <1>5, ConcatEmptySeq
  <2> QED
      BY <2>1, <2>2
<1>7. ASSUME NEW j \in 1 .. Len(s2) PROVE new[j] = visits[Going(s2[j])] \o new[j + 1]
  <2>1. j + 1 \in 1 .. Len(st) /\ j \in 1 .. Len(s2) + 1 /\ j + 1 \in 1 .. Len(s2) + 1
      BY <1>2, <1>7
  <2>2. Going(s2[j]) = Going(st[j + 1])
      BY DEF Popped, Going
  <2>3. rems[j + 1] = visits[Going(st[j + 1])] \o rems[(j + 1) + 1]
      BY <1>1, <2>1 DEF Remains
  <2> QED
      BY <1>3, <2>1, <2>2, <2>3
<1>8. new[Len(s2) + 1] = <<>>
    BY <1>1, <1>5 DEF Remains
<1>9. Remains(new, s2)
    BY <1>4, <1>7, <1>8 DEF Remains
<1> QED
    BY <1>1, <1>5, <1>6, <1>9 DEF Faithful

(* An entry was read: what it added to the walk is gone from what is left. *)
LEMMA MovedFaithful ==
    ASSUME Tree, NEW st \in Seq(Frames), st # <<>>, NEW s2, Moved(st, s2), NEW se \in Seq(Places), NEW x \in Seq(Places),
           Faithful(st, se), Going(s2[1]) \in Places,
           visits[Going(st[1])] = x \o visits[Going(s2[1])]
    PROVE  Faithful(s2, se \o x)
<1>1. PICK rems : Remains(rems, st) /\ se \o rems[1] = walk
    BY DEF Faithful
<1>2. Len(st) \in Nat \ {0} /\ Len(s2) = Len(st)
    BY DEF Moved
<1> DEFINE v == visits[Going(s2[1])]
           new == [j \in 1 .. Len(st) + 1 |-> IF j = 1 THEN v \o rems[2] ELSE rems[j]]
<1>3. rems[2] \in Seq(Places) /\ v \in Seq(Places) /\ \A j \in 1 .. Len(st) + 1 : rems[j] \in Seq(Places)
  <2>1. 2 \in 1 .. Len(st) + 1
      BY <1>2
  <2> QED
      BY <1>1, <2>1, VisitsType DEF Remains
<1> HIDE DEF v
<1>4. v \o rems[2] \in Seq(Places)
    BY <1>3
<1>5. new \in [1 .. Len(st) + 1 -> Seq(Places)] /\ new[1] = v \o rems[2]
      /\ \A j \in 1 .. Len(st) + 1 : j # 1 => new[j] = rems[j]
  <2>1. 1 \in 1 .. Len(st) + 1
      BY <1>2
  <2> QED
      BY <1>3, <1>4, <2>1
<1> HIDE DEF new
<1>6. ASSUME NEW j \in 1 .. Len(s2) PROVE new[j] = visits[Going(s2[j])] \o new[j + 1]
  <2>1. j \in 1 .. Len(st) + 1 /\ j + 1 \in 1 .. Len(st) + 1 /\ j + 1 # 1 /\ j \in 1 .. Len(st)
      BY <1>2, <1>6
  <2>2. CASE j = 1
    <3>1. 2 \in 1 .. Len(st) + 1 /\ 2 # 1 /\ 1 + 1 = 2
        BY <1>2
    <3>2. new[2] = rems[2]
        BY <1>5, <3>1
    <3>3. new[1] = v \o new[2]
        BY <1>5, <3>2
    <3> QED
        BY <2>2, <3>1, <3>3 DEF v
  <2>3. CASE j # 1
    <3>1. s2[j] = st[j]
        BY <2>3 DEF Moved
    <3>2. rems[j] = visits[Going(st[j])] \o rems[j + 1]
        BY <1>1, <2>1 DEF Remains
    <3> QED
        BY <1>5, <2>1, <2>3, <3>1, <3>2
  <2> QED
      BY <2>2, <2>3
<1>7. new[Len(s2) + 1] = <<>>
  <2>1. Len(st) + 1 \in 1 .. Len(st) + 1 /\ Len(st) + 1 # 1
      BY <1>2
  <2> QED
      BY <1>1, <1>2, <1>5, <2>1 DEF Remains
<1>8. Remains(new, s2)
    BY <1>2, <1>5, <1>6, <1>7 DEF Remains
<1>9. (se \o x) \o new[1] = se \o rems[1]
  <2>1. rems[1] = (x \o v) \o rems[2]
    <3>1. rems[1] = visits[Going(st[1])] \o rems[2]
        BY <1>1, <1>2, FirstRemains
    <3> QED
        BY <3>1 DEF v
  <2>2. (x \o v) \o rems[2] = x \o (v \o rems[2])
      BY <1>3, Regroup
  <2>3. (se \o x) \o (v \o rems[2]) = se \o (x \o (v \o rems[2]))
      BY <1>4, Regroup
  <2> QED
      BY <1>5, <2>1, <2>2, <2>3
<1> QED
    BY <1>1, <1>8, <1>9 DEF Faithful

(* A directory was entered: what was left is divided between two frames.   *)
LEMMA EnteredFaithful ==
    ASSUME Tree, NEW st \in Seq(Frames), st # <<>>, NEW d, NEW s2, Entered(st, s2, d), NEW se,
           Faithful(st, se), Going(s2[1]) \in Places, Going(s2[2]) \in Places,
           visits[Going(st[1])] = visits[Going(s2[1])] \o visits[Going(s2[2])]
    PROVE  Faithful(s2, se)
<1>1. PICK rems : Remains(rems, st) /\ se \o rems[1] = walk
    BY DEF Faithful
<1>2. Len(st) \in Nat \ {0} /\ Len(s2) = Len(st) + 1
    BY DEF Entered
<1> DEFINE v == visits[Going(s2[2])]
           u == visits[Going(s2[1])]
           new == [j \in 1 .. Len(s2) + 1 |-> IF j = 1 THEN rems[1] ELSE IF j = 2 THEN v \o rems[2] ELSE rems[j - 1]]
<1>3. rems[2] \in Seq(Places) /\ v \in Seq(Places) /\ u \in Seq(Places)
      /\ \A j \in 1 .. Len(st) + 1 : rems[j] \in Seq(Places)
  <2>1. 2 \in 1 .. Len(st) + 1
      BY <1>2
  <2> QED
      BY <1>1, <2>1, VisitsType DEF Remains
<1> HIDE DEF v, u
<1>4. v \o rems[2] \in Seq(Places)
    BY <1>3
<1>5. new \in [1 .. Len(s2) + 1 -> Seq(Places)] /\ new[1] = rems[1] /\ new[2] = v \o rems[2]
      /\ \A j \in 1 .. Len(s2) + 1 : j > 2 => new[j] = rems[j - 1]
  <2>1. 1 \in 1 .. Len(s2) + 1 /\ 2 \in 1 .. Len(s2) + 1 /\ 1 \in 1 .. Len(st) + 1
      BY <1>2
  <2>2. \A j \in 1 .. Len(s2) + 1 : j # 1 => j - 1 \in 1 .. Len(st) + 1
      BY <1>2
  <2>3. \A j \in 1 .. Len(s2) + 1 : j > 2 => j # 1 /\ j # 2
      BY <1>2
  <2>4. \A j \in 1 .. Len(s2) + 1 : new[j] \in Seq(Places)
    <3> TAKE j \in 1 .. Len(s2) + 1
    <3>1. j # 1 => rems[j - 1] \in Seq(Places)
        BY <1>3, <2>2
    <3> QED
        BY <1>3, <1>4, <2>1, <3>1
  <2>5. new[1] = rems[1] /\ new[2] = v \o rems[2]
      BY <2>1
  <2>6. \A j \in 1 .. Len(s2) + 1 : j > 2 => new[j] = rems[j - 1]
      BY <2>3
  <2> QED
      BY <2>4, <2>5, <2>6
<1> HIDE DEF new
<1>6. rems[1] = u \o (v \o rems[2])
  <2>1. rems[1] = (u \o v) \o rems[2]
    <3>1. rems[1] = visits[Going(st[1])] \o rems[2]
        BY <1>1, <1>2, FirstRemains
    <3> QED
        BY <3>1 DEF v, u
  <2> QED
      BY <1>3, <2>1, Regroup
<1>7. ASSUME NEW j \in 1 .. Len(s2) PROVE new[j] = visits[Going(s2[j])] \o new[j + 1]
  <2>2. CASE j = 1
    <3>1. new[1] = u \o new[2] /\ 1 + 1 = 2
        BY <1>5, <1>6
    <3> QED
        BY <2>2, <3>1 DEF u
  <2>3. CASE j = 2
    <3>1. 3 \in 1 .. Len(s2) + 1
        BY <1>2
    <3>2. new[3] = rems[2]
        BY <1>5, <3>1
    <3>3. new[2] = v \o new[3] /\ 2 + 1 = 3
        BY <1>5, <3>2
    <3> QED
        BY <2>3, <3>3 DEF v
  <2>4. CASE j > 2
    <3>1. s2[j] = st[j - 1]
        BY <2>4 DEF Entered
    <3>2. j - 1 \in 1 .. Len(st) /\ (j - 1) + 1 = j /\ j \in 1 .. Len(s2) + 1 /\ j + 1 \in 1 .. Len(s2) + 1
          /\ j + 1 > 2 /\ (j + 1) - 1 = j
        BY <1>2, <2>4
    <3>3. rems[j - 1] = visits[Going(st[j - 1])] \o rems[j]
        BY <1>1, <3>2 DEF Remains
    <3>4. new[j] = rems[j - 1] /\ new[j + 1] = rems[j]
        BY <1>5, <2>4, <3>2
    <3> QED
        BY <3>1, <3>3, <3>4
  <2>5. j = 1 \/ j = 2 \/ j > 2
      OBVIOUS
  <2> QED
      BY <2>2, <2>3, <2>4, <2>5
<1>8. new[Len(s2) + 1] = <<>>
  <2>1. Len(s2) + 1 \in 1 .. Len(s2) + 1 /\ Len(s2) + 1 > 2 /\ (Len(s2) + 1) - 1 = Len(st) + 1
      BY <1>2
  <2> QED
      BY <1>1, <1>5, <2>1 DEF Remains
<1>9. Remains(new, s2)
    BY <1>5, <1>7, <1>8 DEF Remains
<1> QED
    BY <1>1, <1>5, <1>9 DEF Faithful

-----------------------------------------------------------------------------
(* The calls of sendFilesDirectory.                                        *)

root == DirectoryOf[Last(asked).word]
Ranks(depth) ==
    /\ depth \in [Directories -> Nat]
    /\ \A d \in Directories : \A k \in DOMAIN contents[d] : contents[d][k] # Regular => depth[contents[d][k]] < depth[d]

(* A call reads a directory; the one it was made by is at the entry before *)
(* its place, and gave it what was left of its own limit.                  *)
Framed(f) == f.dir \notin unreadable /\ f.pos <= Len(contents[f.dir]) + 1
CalledBy(f, g) == g.pos > 1 /\ contents[g.dir][g.pos - 1] = f.dir /\ f.n = g.n - g.sent_f
FramesOK(st) ==
    /\ st \in Seq(Frames)
    /\ \A j \in 1 .. Len(st) : Framed(st[j])
    /\ \A j \in 1 .. Len(st) - 1 : CalledBy(st[j], st[j + 1])
    /\ st # <<>> => st[Len(st)].dir = root
    /\ \A depth : Ranks(depth) => \A j \in 1 .. Len(st) - 1 : depth[st[j].dir] < depth[root]

(* Where a frame is.                                                       *)
LEMMA GoingIs ==
    ASSUME Tree, NEW f \in Frames, Framed(f)
    PROVE  /\ Going(f) \in Places /\ <<f.dir, 1>> \in Places /\ f.dir \in Directories /\ f.pos \in Nat \ {0}
           /\ Len(contents[f.dir]) \in Nat /\ DOMAIN contents[f.dir] = 1 .. Len(contents[f.dir])
           /\ Ends(Going(f)) <=> f.pos > Len(contents[f.dir])
           /\ entryAt(Going(f)) = contents[f.dir][f.pos]
           /\ After(Going(f)) = <<f.dir, f.pos + 1>>
           /\ FilesFrom(Going(f)) \subseteq FilesFrom(<<f.dir, 1>>)
           /\ f.n \in Int /\ f.sent_f \in Int
<1>1. f.dir \in Directories /\ f.pos \in Nat \ {0} /\ f.n \in Int /\ f.sent_f \in Int
    BY DEF Frames
<1>2. Going(f) \in Places /\ <<f.dir, 1>> \in Places /\ Going(f)[1] = f.dir /\ Going(f)[2] = f.pos
    BY <1>1 DEF Going, Places
<1>3. contents[f.dir] \in Seq(Directories \cup {Regular})
    BY <1>1 DEF Tree
<1>4. Len(contents[f.dir]) \in Nat /\ DOMAIN contents[f.dir] = 1 .. Len(contents[f.dir])
    BY <1>3
<1>5. FilesFrom(Going(f)) \subseteq FilesFrom(<<f.dir, 1>>)
    BY <1>1, FirstHasAll DEF Going, Framed
<1>6. Ends(Going(f)) <=> f.pos > Len(contents[f.dir])
    BY <1>2 DEF Ends, Framed
<1>7. entryAt(Going(f)) = contents[f.dir][f.pos] /\ After(Going(f)) = <<f.dir, f.pos + 1>>
    BY <1>2 DEF entryAt, After
<1> QED
    BY <1>1, <1>2, <1>4, <1>5, <1>6, <1>7

(* A subdirectory's files are the directory's.                             *)
LEMMA CalledFiles ==
    ASSUME Tree, NEW f \in Frames, NEW g \in Frames, Framed(f), Framed(g), CalledBy(f, g)
    PROVE  FilesFrom(<<f.dir, 1>>) \subseteq FilesFrom(<<g.dir, 1>>)
<1> DEFINE p == <<g.dir, g.pos - 1>>
<1>1. g.dir \in Directories /\ g.pos \in Nat \ {0} /\ g.pos > 1 /\ g.pos <= Len(contents[g.dir]) + 1
      /\ Len(contents[g.dir]) \in Nat /\ f.dir \in Directories /\ Regular \notin Directories
    BY GoingIs, CommandLineAssumption DEF Framed, CalledBy
<1>2. g.pos - 1 \in Nat \ {0} /\ ~(g.pos - 1 > Len(contents[g.dir])) /\ g.pos - 1 <= Len(contents[g.dir]) + 1
    BY <1>1
<1>3. p \in Places /\ p[1] = g.dir /\ p[2] = g.pos - 1
    BY <1>1, <1>2 DEF Places
<1>4. ~Ends(p) /\ entryAt(p) = f.dir /\ entryAt(p) # Regular /\ Below(p) = <<f.dir, 1>>
    BY <1>1, <1>2, <1>3 DEF Ends, entryAt, Below, Framed, CalledBy
<1>5. FilesFrom(<<f.dir, 1>>) \subseteq FilesFrom(p)
    BY <1>3, <1>4, VisitsRange
<1>6. FilesFrom(p) \subseteq FilesFrom(<<g.dir, 1>>)
    BY <1>1, <1>2, FirstHasAll DEF Framed
<1> QED
    BY <1>5, <1>6

(* The frames after a return.                                              *)
LEMMA PoppedFrames ==
    ASSUME Tree, NEW st, FramesOK(st), Len(st) > 1, NEW s2, Popped(st, s2)
    PROVE  FramesOK(s2)
<1>1. st \in Seq(Frames) /\ Len(st) \in Nat /\ s2 \in Seq(Frames) /\ Len(s2) = Len(st) - 1
    BY DEF FramesOK, Popped
<1>2. ASSUME NEW j \in 1 .. Len(s2) PROVE Framed(s2[j])
  <2>1. j + 1 \in 1 .. Len(st)
      BY <1>1
  <2> QED
      BY <2>1 DEF FramesOK, Framed, Popped
<1>3. ASSUME NEW j \in 1 .. Len(s2) - 1 PROVE CalledBy(s2[j], s2[j + 1])
  <2>1. j \in 1 .. Len(s2) /\ j + 1 \in 1 .. Len(s2) /\ j + 1 # 1 /\ j + 1 \in 1 .. Len(st) - 1
      BY <1>1
  <2>2. CalledBy(st[j + 1], st[(j + 1) + 1])
      BY <2>1 DEF FramesOK
  <2> QED
      BY <2>1, <2>2 DEF CalledBy, Popped
<1>4. s2[Len(s2)].dir = root
  <2>1. Len(s2) \in 1 .. Len(s2) /\ Len(s2) + 1 = Len(st) /\ st # <<>>
      BY <1>1
  <2> QED
      BY <2>1 DEF FramesOK, Popped
<1>5. ASSUME NEW depth, Ranks(depth), NEW j \in 1 .. Len(s2) - 1 PROVE depth[s2[j].dir] < depth[root]
  <2>1. j + 1 \in 1 .. Len(st) - 1 /\ j \in 1 .. Len(s2)
      BY <1>1
  <2> QED
      BY <1>5, <2>1 DEF FramesOK, Popped
<1> QED
    BY <1>1, <1>2, <1>3, <1>4, <1>5 DEF FramesOK

(* The frames after an entry was read.                                     *)
LEMMA MovedFrames ==
    ASSUME Tree, NEW st, FramesOK(st), st # <<>>, NEW s2, Moved(st, s2), ~Ends(Going(st[1]))
    PROVE  FramesOK(s2) /\ Going(s2[1]) = After(Going(st[1])) /\ Going(s2[1]) \in Places
<1>1. st \in Seq(Frames) /\ Len(st) \in Nat \ {0} /\ s2 \in Seq(Frames) /\ Len(s2) = Len(st) /\ 1 \in 1 .. Len(st)
    BY DEF FramesOK, Moved
<1>2. st[1] \in Frames /\ s2[1] \in Frames /\ Framed(st[1])
    BY <1>1 DEF FramesOK
<1>3. Framed(s2[1])
  <2>1. st[1].pos \in Nat /\ Len(contents[st[1].dir]) \in Nat /\ ~(st[1].pos > Len(contents[st[1].dir]))
      BY <1>2, GoingIs
  <2>2. s2[1].dir = st[1].dir /\ s2[1].pos = st[1].pos + 1
      BY DEF Moved
  <2>3. s2[1].pos <= Len(contents[st[1].dir]) + 1
      BY <2>1, <2>2
  <2> QED
      BY <1>2, <2>2, <2>3 DEF Framed
<1>4. Going(s2[1]) = After(Going(st[1])) /\ Going(s2[1]) \in Places
  <2>1. After(Going(st[1])) = <<st[1].dir, st[1].pos + 1>>
      BY <1>2, GoingIs
  <2> QED
      BY <1>2, <1>3, <2>1, GoingIs DEF Going, Moved
<1>5. ASSUME NEW j \in 1 .. Len(s2) PROVE Framed(s2[j])
    BY <1>1, <1>3 DEF FramesOK, Moved
<1>6. ASSUME NEW j \in 1 .. Len(s2) - 1 PROVE CalledBy(s2[j], s2[j + 1])
  <2>1. j \in 1 .. Len(s2) /\ j + 1 \in 1 .. Len(s2) /\ j + 1 # 1 /\ j \in 1 .. Len(st) - 1
      BY <1>1
  <2>2. CalledBy(st[j], st[j + 1]) /\ s2[j + 1] = st[j + 1]
      BY <2>1 DEF FramesOK, Moved
  <2>3. s2[j].dir = st[j].dir /\ s2[j].n = st[j].n
      BY <2>1 DEF Moved
  <2> QED
      BY <2>2, <2>3 DEF CalledBy
<1>7. \A j \in 1 .. Len(s2) : s2[j].dir = st[j].dir
    BY DEF Moved
<1>8. s2[Len(s2)].dir = root
  <2>1. Len(s2) \in 1 .. Len(s2)
      BY <1>1
  <2> QED
      BY <1>1, <1>7, <2>1 DEF FramesOK
<1>9. ASSUME NEW depth, Ranks(depth), NEW j \in 1 .. Len(s2) - 1 PROVE depth[s2[j].dir] < depth[root]
  <2>1. j \in 1 .. Len(st) - 1 /\ j \in 1 .. Len(s2)
      BY <1>1
  <2> QED
      BY <1>7, <1>9, <2>1 DEF FramesOK
<1> QED
    BY <1>1, <1>4, <1>5, <1>6, <1>8, <1>9 DEF FramesOK

(* The frames after a call.                                                *)
LEMMA EnteredFrames ==
    ASSUME Tree, NEW st, FramesOK(st), st # <<>>, NEW s2, NEW d \in Directories, Entered(st, s2, d),
           ~Ends(Going(st[1])), entryAt(Going(st[1])) = d, d \notin unreadable
    PROVE  /\ FramesOK(s2)
           /\ Going(s2[1]) = Below(Going(st[1])) /\ Going(s2[2]) = After(Going(st[1]))
           /\ Going(s2[1]) \in Places /\ Going(s2[2]) \in Places
<1>1. st \in Seq(Frames) /\ Len(st) \in Nat \ {0} /\ s2 \in Seq(Frames) /\ Len(s2) = Len(st) + 1
      /\ 1 \in 1 .. Len(st) /\ 1 \in 1 .. Len(s2) /\ 2 \in 1 .. Len(s2)
    BY DEF FramesOK, Entered
<1>0. Len(st) \in Nat \ {0} /\ Len(s2) = Len(st) + 1
    BY <1>1
<1>l. Len(st) = 1 \/ Len(st) > 1
  <2>1. \A m \in Nat \ {0} : m = 1 \/ m > 1
      OBVIOUS
  <2> QED
      BY <1>0, <2>1
<1>2. st[1] \in Frames /\ s2[1] \in Frames /\ s2[2] \in Frames /\ Framed(st[1])
    BY <1>1 DEF FramesOK
<1>3. st[1].pos \in Nat \ {0} /\ Len(contents[st[1].dir]) \in Nat /\ ~(st[1].pos > Len(contents[st[1].dir]))
      /\ contents[st[1].dir][st[1].pos] = d /\ After(Going(st[1])) = <<st[1].dir, st[1].pos + 1>>
      /\ st[1].pos \in DOMAIN contents[st[1].dir] /\ st[1].dir \in Directories
  <2>1. st[1].pos \in Nat \ {0} /\ Len(contents[st[1].dir]) \in Nat /\ ~(st[1].pos > Len(contents[st[1].dir]))
        /\ DOMAIN contents[st[1].dir] = 1 .. Len(contents[st[1].dir])
      BY <1>2, GoingIs
  <2>2. st[1].pos \in DOMAIN contents[st[1].dir]
      BY <2>1
  <2> QED
      BY <1>2, <2>1, <2>2, GoingIs
<1>4. s2[1].dir = d /\ s2[1].pos = 1 /\ s2[1].n = st[1].n - st[1].sent_f
      /\ s2[2].dir = st[1].dir /\ s2[2].pos = st[1].pos + 1 /\ s2[2].n = st[1].n /\ s2[2].sent_f = st[1].sent_f
    BY DEF Entered
<1>5. Framed(s2[1])
  <2>1. Len(contents[d]) \in Nat
      BY DEF Tree
  <2> QED
      BY <1>4, <2>1 DEF Framed
<1>6. Framed(s2[2])
  <2>1. s2[2].pos <= Len(contents[st[1].dir]) + 1
      BY <1>3, <1>4
  <2> QED
      BY <1>2, <1>4, <2>1 DEF Framed
<1>7. Going(s2[1]) = Below(Going(st[1])) /\ Going(s2[2]) = After(Going(st[1]))
      /\ Going(s2[1]) \in Places /\ Going(s2[2]) \in Places
  <2>1. Going(s2[1]) = Below(Going(st[1])) /\ Going(s2[2]) = After(Going(st[1]))
      BY <1>3, <1>4 DEF Going, Below
  <2> QED
      BY <1>2, <1>5, <1>6, <2>1, GoingIs
<1>8. ASSUME NEW j \in 1 .. Len(s2) PROVE Framed(s2[j])
  <2>1. CASE j > 2
    <3>1. j - 1 \in 1 .. Len(st) /\ s2[j] = st[j - 1]
        BY <1>1, <2>1 DEF Entered
    <3> QED
        BY <3>1 DEF FramesOK
  <2>2. j = 1 \/ j = 2 \/ j > 2
      OBVIOUS
  <2> QED
      BY <1>5, <1>6, <2>1, <2>2
<1>9. ASSUME NEW j \in 1 .. Len(s2) - 1 PROVE CalledBy(s2[j], s2[j + 1])
  <2>1. CASE j = 1
    <3>1. s2[2].pos > 1 /\ s2[2].pos - 1 = st[1].pos
        BY <1>3, <1>4
    <3>2. CalledBy(s2[1], s2[2])
        BY <1>3, <1>4, <3>1 DEF CalledBy
    <3>3. 1 + 1 = 2
        OBVIOUS
    <3> QED
        BY <2>1, <3>2, <3>3
  <2>2. CASE j = 2
    <3>1. 1 \in 1 .. Len(st) - 1 /\ 3 \in 1 .. Len(s2) /\ 3 > 2 /\ 3 - 1 = 2 /\ 1 + 1 = 2 /\ 2 + 1 = 3
        BY <1>1, <1>9, <2>2
    <3>2. CalledBy(st[1], st[2])
        BY <3>1 DEF FramesOK
    <3>3. s2[3] = st[2]
        BY <3>1 DEF Entered
    <3>4. CalledBy(s2[2], s2[3])
        BY <1>4, <3>2, <3>3 DEF CalledBy
    <3> QED
        BY <2>2, <3>1, <3>4
  <2>3. CASE j > 2
    <3>1. j - 1 \in 1 .. Len(st) - 1 /\ (j - 1) + 1 = j /\ j \in 1 .. Len(s2)
          /\ j + 1 \in 1 .. Len(s2) /\ j + 1 > 2 /\ (j + 1) - 1 = j
        BY <1>1, <2>3
    <3>2. CalledBy(st[j - 1], st[j])
      <4>1. CalledBy(st[j - 1], st[(j - 1) + 1])
          BY <3>1 DEF FramesOK
      <4> QED
          BY <3>1, <4>1
    <3>3. s2[j] = st[j - 1] /\ s2[j + 1] = st[j]
      <4>1. s2[j + 1] = st[(j + 1) - 1]
          BY <3>1 DEF Entered
      <4> QED
          BY <2>3, <3>1, <4>1 DEF Entered
    <3> QED
        BY <3>2, <3>3
  <2>4. j = 1 \/ j = 2 \/ j > 2
      OBVIOUS
  <2> QED
      BY <2>1, <2>2, <2>3, <2>4
<1>10. s2[Len(s2)].dir = root
  <2>1. CASE Len(st) = 1
    <3>1. st[1].dir = root
        BY <2>1 DEF FramesOK
    <3>2. Len(s2) = 2
        BY <1>1, <2>1
    <3> QED
        BY <1>4, <3>1, <3>2
  <2>2. CASE Len(st) > 1
    <3>1. Len(s2) \in 1 .. Len(s2) /\ Len(s2) > 2 /\ Len(s2) - 1 = Len(st)
        BY <1>0, <2>2
    <3>2. s2[Len(s2)] = st[Len(st)]
      <4>1. s2[Len(s2)] = st[Len(s2) - 1]
          BY <3>1 DEF Entered
      <4> QED
          BY <3>1, <4>1
    <3> QED
        BY <3>2 DEF FramesOK
  <2> QED
      BY <1>l, <2>1, <2>2
<1>11. ASSUME NEW depth, Ranks(depth), NEW j \in 1 .. Len(s2) - 1 PROVE depth[s2[j].dir] < depth[root]
  <2>1. \A q \in 1 .. Len(st) - 1 : depth[st[q].dir] < depth[root]
      BY <1>11 DEF FramesOK
  <2>2. depth[st[1].dir] \in Nat /\ depth[d] \in Nat /\ depth[d] < depth[st[1].dir]
    <3>1. d # Regular
        BY CommandLineAssumption
    <3> QED
        BY <1>3, <1>11, <3>1 DEF Ranks
  <2>3. depth[root] \in Nat /\ (depth[st[1].dir] < depth[root] \/ st[1].dir = root)
    <3>1. root \in Directories
      <4>1. Len(st) \in 1 .. Len(st) /\ st[Len(st)] \in Frames
          BY <1>1
      <4> QED
          BY <4>1 DEF FramesOK, Frames
    <3>2. CASE Len(st) = 1
        BY <1>11, <3>1, <3>2 DEF FramesOK, Ranks
    <3>3. CASE Len(st) > 1
      <4>1. 1 \in 1 .. Len(st) - 1
          BY <1>0, <3>3
      <4> QED
          BY <1>11, <2>1, <3>1, <4>1 DEF Ranks
    <3> QED
        BY <1>l, <3>2, <3>3
  <2>4. CASE j = 1
      BY <1>4, <2>2, <2>3, <2>4
  <2>5. CASE j = 2
    <3>1. 1 \in 1 .. Len(st) - 1
        BY <1>1, <1>11, <2>5
    <3> QED
        BY <1>4, <2>1, <2>5, <3>1
  <2>6. CASE j > 2
    <3>1. j - 1 \in 1 .. Len(st) - 1 /\ j \in 1 .. Len(s2)
        BY <1>1, <2>6
    <3>2. s2[j] = st[j - 1]
        BY <2>6, <3>1 DEF Entered
    <3> QED
        BY <2>1, <3>1, <3>2
  <2>7. j = 1 \/ j = 2 \/ j > 2
      OBVIOUS
  <2> QED
      BY <2>4, <2>5, <2>6, <2>7
<1> QED
    BY <1>1, <1>7, <1>8, <1>9, <1>10, <1>11 DEF FramesOK

-----------------------------------------------------------------------------
(* What a walk sends.                                                      *)

AtMost == IF limit < 0 THEN 0 ELSE limit
(* A directory with a file among the first "limit" ones of the walk; a     *)
(* file that comes later; a subdirectory with both.                        *)
Early(d) == \E k \in 1 .. Len(walk) : k <= limit /\ walk[k] \in FilesFrom(<<d, 1>>)
Late(x) == \E k \in 1 .. Len(walk) : k > limit /\ walk[k] = x
Forgotten == \E d \in Directories : d # root /\ Early(d) /\ \E x \in FilesFrom(<<d, 1>>) : Late(x)

(* Without a limit all is sent in order.                                   *)
Unlimited(st, se) ==
    (limit = -1 /\ unreadable = {}) =>
        /\ Faithful(st, se)
        /\ \A j \in 1 .. Len(st) : st[j].n = -1 /\ st[j].sent_f = 0

(* Before the limit is reached no call takes it for reached.               *)
FirstOnes(st, se) ==
    limit # -1 =>
        /\ Len(se) < limit =>
              /\ Faithful(st, se)
              /\ \A j \in 1 .. Len(st) : st[j].n >= 1
              /\ st # <<>> => st[1].n - st[1].sent_f >= limit - Len(se)
        /\ Len(se) >= limit => \A k \in 1 .. limit : k \in 1 .. Len(walk) /\ se[k] = walk[k]

(* As long as no call has forgotten what it sent, the innermost one knows  *)
(* how many files may still be sent.                                       *)
OnCount(st, se) ==
    /\ Len(se) <= AtMost
    /\ \A j \in 1 .. Len(st) :
          /\ st[j].sent_f >= 0
          /\ st[j].n >= 0 \/ st[j].n = limit
          /\ st[j].sent_f > 0 => Early(st[j].dir)
    /\ st # <<>> => /\ limit - Len(se) <= st[1].n - st[1].sent_f
                    /\ st[1].n - st[1].sent_f <= AtMost - Len(se)
    /\ \/ Faithful(st, se)
       \/ Len(se) = AtMost /\ \A j \in 1 .. Len(st) : \A x \in FilesFrom(Going(st[j])) : Late(x)
Exactly(st, se) == (limit # -1 /\ unreadable = {}) => Forgotten \/ OnCount(st, se)

WalkInv(st, se) ==
    /\ FramesOK(st) /\ se \in Seq(Places) /\ walk \in Seq(Places) /\ limit \in Int
    /\ Unlimited(st, se) /\ FirstOnes(st, se) /\ Exactly(st, se)

(* The innermost frame.                                                    *)
LEMMA TopIs ==
    ASSUME Tree, NEW st, FramesOK(st), st # <<>>
    PROVE  /\ Len(st) \in Nat \ {0} /\ 1 \in 1 .. Len(st) /\ st \in Seq(Frames)
           /\ st[1] \in Frames /\ Framed(st[1]) /\ st[1].n \in Int /\ st[1].sent_f \in Int
           /\ Going(st[1]) \in Places /\ st[1].dir \in Directories
           /\ Len(st) = 1 \/ Len(st) > 1
<1>1. Len(st) \in Nat \ {0} /\ 1 \in 1 .. Len(st) /\ st[1] \in Frames /\ st \in Seq(Frames)
    BY DEF FramesOK
<1>2. Framed(st[1])
    BY <1>1 DEF FramesOK
<1>3. \A m \in Nat \ {0} : m = 1 \/ m > 1
    OBVIOUS
<1> QED
    BY <1>1, <1>2, <1>3, GoingIs

(* The end of a directory: its call returns how many files it sent.        *)
LEMMA EndStep ==
    ASSUME Tree, NEW st, NEW se, WalkInv(st, se), st # <<>>, Len(st) > 1, Ends(Going(st[1])),
           NEW s2, Popped(st, s2), s2[1].sent_f = st[2].sent_f + st[1].sent_f
    PROVE  WalkInv(s2, se)
<1>1. FramesOK(st) /\ FramesOK(s2)
    BY PoppedFrames DEF WalkInv
<1>2. Len(st) \in Nat \ {0} /\ Len(s2) = Len(st) - 1 /\ s2 # <<>> /\ 2 \in 1 .. Len(st) /\ 1 \in 1 .. Len(st)
      /\ 1 \in 1 .. Len(st) - 1 /\ 1 \in 1 .. Len(s2) /\ st \in Seq(Frames)
    BY <1>1, TopIs DEF Popped
<1>3. st[1] \in Frames /\ st[2] \in Frames /\ Framed(st[1]) /\ Framed(st[2]) /\ CalledBy(st[1], st[2])
  <2>1. 1 + 1 = 2
      OBVIOUS
  <2> QED
      BY <1>1, <1>2, <2>1 DEF FramesOK
<1>4. st[1].n \in Int /\ st[1].sent_f \in Int /\ st[2].n \in Int /\ st[2].sent_f \in Int
      /\ st[1].n = st[2].n - st[2].sent_f
    BY <1>3, GoingIs DEF CalledBy
<1>5. s2[1].n = st[2].n /\ s2[1].dir = st[2].dir
  <2>1. 1 + 1 = 2
      OBVIOUS
  <2> QED
      BY <1>2, <2>1 DEF Popped
<1>6. s2[1].n - s2[1].sent_f = st[1].n - st[1].sent_f
    BY <1>4, <1>5
<1>7. Faithful(st, se) => Faithful(s2, se)
  <2>1. visits[Going(st[1])] = <<>>
      BY <1>1, TopIs, VisitsUnfold DEF Onward
  <2> QED
      BY <1>2, <2>1, PoppedFaithful
<1>8. \A j \in 1 .. Len(s2) : j + 1 \in 1 .. Len(st) /\ s2[j].n = st[j + 1].n /\ s2[j].dir = st[j + 1].dir
                              /\ Going(s2[j]) = Going(st[j + 1])
                              /\ (j # 1 => s2[j].sent_f = st[j + 1].sent_f)
    BY <1>2 DEF Popped, Going
<1>9. Unlimited(s2, se)
  <2> SUFFICES ASSUME limit = -1, unreadable = {}
               PROVE  Faithful(s2, se) /\ \A j \in 1 .. Len(s2) : s2[j].n = -1 /\ s2[j].sent_f = 0
      BY DEF Unlimited
  <2>1. Faithful(st, se) /\ \A j \in 1 .. Len(st) : st[j].n = -1 /\ st[j].sent_f = 0
      BY DEF WalkInv, Unlimited
  <2>2. s2[1].sent_f = 0
      BY <1>2, <2>1
  <2> QED
      BY <1>7, <1>8, <2>1, <2>2
<1>10. FirstOnes(s2, se)
  <2> SUFFICES ASSUME limit # -1 PROVE FirstOnes(s2, se)
      BY DEF FirstOnes
  <2>1. Len(se) >= limit => \A k \in 1 .. limit : k \in 1 .. Len(walk) /\ se[k] = walk[k]
      BY DEF WalkInv, FirstOnes
  <2>2. ASSUME Len(se) < limit
        PROVE  Faithful(s2, se) /\ (\A j \in 1 .. Len(s2) : s2[j].n >= 1) /\ s2[1].n - s2[1].sent_f >= limit - Len(se)
    <3>1. Faithful(st, se) /\ (\A j \in 1 .. Len(st) : st[j].n >= 1) /\ st[1].n - st[1].sent_f >= limit - Len(se)
        BY <2>2 DEF WalkInv, FirstOnes
    <3> QED
        BY <1>6, <1>7, <1>8, <3>1
  <2> QED
      BY <2>1, <2>2 DEF FirstOnes
<1>11. Exactly(s2, se)
  <2> SUFFICES ASSUME limit # -1, unreadable = {}, OnCount(st, se) PROVE OnCount(s2, se)
      BY DEF Exactly, WalkInv
  <2>1. ASSUME NEW j \in 1 .. Len(s2)
        PROVE  s2[j].sent_f >= 0 /\ (s2[j].n >= 0 \/ s2[j].n = limit) /\ (s2[j].sent_f > 0 => Early(s2[j].dir))
    <3>1. (s2[j].n >= 0 \/ s2[j].n = limit)
        BY <1>8 DEF OnCount
    <3>2. CASE j # 1
        BY <1>8, <3>1, <3>2 DEF OnCount
    <3>3. CASE j = 1
      <4>1. st[1].sent_f >= 0 /\ st[2].sent_f >= 0
            /\ (st[1].sent_f > 0 => Early(st[1].dir)) /\ (st[2].sent_f > 0 => Early(st[2].dir))
          BY <1>2 DEF OnCount
      <4>2. s2[1].sent_f >= 0 /\ (s2[1].sent_f > 0 => st[1].sent_f > 0 \/ st[2].sent_f > 0)
          BY <1>4, <4>1
      <4>3. Early(st[1].dir) => Early(st[2].dir)
          BY <1>3, CalledFiles DEF Early
      <4> QED
          BY <1>5, <3>1, <3>3, <4>1, <4>2, <4>3
    <3> QED
        BY <3>2, <3>3
  <2>2. limit - Len(se) <= s2[1].n - s2[1].sent_f /\ s2[1].n - s2[1].sent_f <= AtMost - Len(se)
      BY <1>6 DEF OnCount
  <2>3. Faithful(s2, se) \/ (Len(se) = AtMost /\ \A j \in 1 .. Len(s2) : \A x \in FilesFrom(Going(s2[j])) : Late(x))
      BY <1>7, <1>8 DEF OnCount
  <2> QED
      BY <2>1, <2>2, <2>3 DEF OnCount
<1> QED
    BY <1>1, <1>9, <1>10, <1>11 DEF WalkInv

(* The walk is over.                                                       *)
LEMMA NoFrames ==
    FramesOK(<<>>) /\ Len(<<>>) = 0 /\ <<>> \in Seq(Frames) /\ \A j \in 1 .. Len(<<>>) : FALSE
<1>1. <<>> \in Seq(Frames) /\ Len(<<>>) = 0
    OBVIOUS
<1>2. (\A j \in 1 .. Len(<<>>) : FALSE) /\ (\A j \in 1 .. Len(<<>>) - 1 : FALSE)
    BY <1>1
<1> QED
    BY <1>1, <1>2 DEF FramesOK

(* The end of the directory that -w names.                                 *)
LEMMA LastEndStep ==
    ASSUME Tree, NEW st, NEW se, WalkInv(st, se), st # <<>>, Len(st) = 1, Ends(Going(st[1]))
    PROVE  WalkInv(<<>>, se)
<1>1. FramesOK(st) /\ FramesOK(<<>>) /\ st \in Seq(Frames)
    BY NoFrames DEF WalkInv, FramesOK
<1>2. Popped(st, <<>>)
  <2>1. Len(<<>>) = Len(st) - 1
      BY NoFrames
  <2> QED
      BY <2>1, NoFrames DEF Popped
<1>3. Faithful(st, se) => Faithful(<<>>, se)
  <2>1. visits[Going(st[1])] = <<>>
      BY <1>1, TopIs, VisitsUnfold DEF Onward
  <2> QED
      BY <1>1, <1>2, <2>1, PoppedFaithful
<1>4. Unlimited(<<>>, se)
    BY <1>3, NoFrames DEF WalkInv, Unlimited
<1>5. FirstOnes(<<>>, se)
    BY <1>3, NoFrames DEF WalkInv, FirstOnes
<1>6. Exactly(<<>>, se)
    BY <1>3, NoFrames DEF WalkInv, Exactly, OnCount
<1> QED
    BY <1>1, <1>4, <1>5, <1>6 DEF WalkInv

(* A subdirectory: the call for it may send what is left to send.          *)
LEMMA EnterStep ==
    ASSUME Tree, NEW st, NEW se, WalkInv(st, se), st # <<>>, ~Ends(Going(st[1])),
           NEW d \in Directories, entryAt(Going(st[1])) = d, d \notin unreadable,
           NEW s2, Entered(st, s2, d)
    PROVE  WalkInv(s2, se)
<1>1. FramesOK(st) /\ FramesOK(s2) /\ Going(s2[1]) = Below(Going(st[1])) /\ Going(s2[2]) = After(Going(st[1]))
      /\ Going(s2[1]) \in Places /\ Going(s2[2]) \in Places
    BY EnteredFrames DEF WalkInv
<1>2. Len(st) \in Nat \ {0} /\ 1 \in 1 .. Len(st) /\ st \in Seq(Frames)
      /\ st[1].n \in Int /\ st[1].sent_f \in Int /\ Going(st[1]) \in Places /\ st[1].dir \in Directories
    BY <1>1, TopIs
<1>3. Len(s2) = Len(st) + 1 /\ s2[1].n = st[1].n - st[1].sent_f /\ s2[1].sent_f = 0 /\ s2[1].dir = d
      /\ s2[2].n = st[1].n /\ s2[2].sent_f = st[1].sent_f /\ s2[2].dir = st[1].dir
    BY DEF Entered
<1>4. \A j \in 1 .. Len(s2) : j = 1 \/ j = 2 \/ (j > 2 /\ j - 1 \in 1 .. Len(st) /\ s2[j] = st[j - 1])
    BY <1>2, <1>3 DEF Entered
<1>5. d # Regular /\ s2 # <<>> /\ s2[1].n - s2[1].sent_f = st[1].n - st[1].sent_f
  <2>1. d # Regular
      BY CommandLineAssumption
  <2>2. s2 # <<>>
      BY <1>2, <1>3
  <2> QED
      BY <1>2, <1>3, <2>1, <2>2
<1>6. visits[Going(st[1])] = visits[Going(s2[1])] \o visits[Going(s2[2])]
    BY <1>1, <1>2, <1>5, VisitsUnfold DEF Onward
<1>7. Faithful(st, se) => Faithful(s2, se)
    BY <1>1, <1>2, <1>6, EnteredFaithful
<1>8. FilesFrom(Going(s2[1])) \subseteq FilesFrom(Going(st[1])) /\ FilesFrom(Going(s2[2])) \subseteq FilesFrom(Going(st[1]))
    BY <1>1, <1>2, <1>5, VisitsRange
<1>9. Unlimited(s2, se)
  <2> SUFFICES ASSUME limit = -1, unreadable = {}
               PROVE  Faithful(s2, se) /\ \A j \in 1 .. Len(s2) : s2[j].n = -1 /\ s2[j].sent_f = 0
      BY DEF Unlimited
  <2>1. Faithful(st, se) /\ \A j \in 1 .. Len(st) : st[j].n = -1 /\ st[j].sent_f = 0
      BY DEF WalkInv, Unlimited
  <2>2. st[1].n = -1 /\ st[1].sent_f = 0
      BY <1>2, <2>1
  <2>3. s2[1].n = -1 /\ s2[1].sent_f = 0 /\ s2[2].n = -1 /\ s2[2].sent_f = 0
      BY <1>3, <2>2
  <2> QED
      BY <1>4, <1>7, <2>1, <2>3
<1>10. FirstOnes(s2, se)
  <2> SUFFICES ASSUME limit # -1 PROVE FirstOnes(s2, se)
      BY DEF FirstOnes
  <2>1. Len(se) >= limit => \A k \in 1 .. limit : k \in 1 .. Len(walk) /\ se[k] = walk[k]
      BY DEF WalkInv, FirstOnes
  <2>2. ASSUME Len(se) < limit
        PROVE  Faithful(s2, se) /\ (\A j \in 1 .. Len(s2) : s2[j].n >= 1) /\ s2[1].n - s2[1].sent_f >= limit - Len(se)
    <3>1. Faithful(st, se) /\ (\A j \in 1 .. Len(st) : st[j].n >= 1) /\ st[1].n - st[1].sent_f >= limit - Len(se)
        BY <2>2 DEF WalkInv, FirstOnes
    <3>2. limit \in Int /\ Len(se) \in Nat
        BY DEF WalkInv
    <3>3. s2[1].n >= 1
        BY <1>2, <1>3, <2>2, <3>1, <3>2
    <3>4. s2[2].n >= 1
        BY <1>2, <1>3, <3>1
    <3> QED
        BY <1>4, <1>5, <1>7, <3>1, <3>3, <3>4
  <2> QED
      BY <2>1, <2>2 DEF FirstOnes
<1>11. Exactly(s2, se)
  <2> SUFFICES ASSUME limit # -1, unreadable = {}, OnCount(st, se) PROVE OnCount(s2, se)
      BY DEF Exactly, WalkInv
  <2>0. limit \in Int /\ Len(se) \in Nat /\ walk \in Seq(Places)
      BY DEF WalkInv
  <2>1. st[1].sent_f >= 0 /\ (st[1].n >= 0 \/ st[1].n = limit) /\ (st[1].sent_f > 0 => Early(st[1].dir))
      BY <1>2 DEF OnCount
  <2>2. limit - Len(se) <= st[1].n - st[1].sent_f /\ Len(se) <= AtMost
      BY DEF OnCount
  <2>3. s2[1].n >= 0 \/ s2[1].n = limit
    <3>1. CASE limit >= 0
        BY <1>2, <1>3, <2>0, <2>2, <3>1 DEF AtMost
    <3>2. CASE limit < 0
      <4>1. ~Early(st[1].dir)
          BY <2>0, <3>2 DEF Early
      <4>2. st[1].sent_f = 0
          BY <1>2, <2>1, <4>1
      <4> QED
          BY <1>2, <1>3, <2>1, <4>2
    <3> QED
        BY <2>0, <3>1, <3>2
  <2>4. ASSUME NEW j \in 1 .. Len(s2)
        PROVE  s2[j].sent_f >= 0 /\ (s2[j].n >= 0 \/ s2[j].n = limit) /\ (s2[j].sent_f > 0 => Early(s2[j].dir))
    <3>1. CASE j = 1
        BY <1>3, <2>3, <3>1
    <3>2. CASE j = 2
        BY <1>3, <2>1, <3>2
    <3>3. CASE j > 2 /\ j - 1 \in 1 .. Len(st) /\ s2[j] = st[j - 1]
        BY <3>3 DEF OnCount
    <3> QED
        BY <1>4, <3>1, <3>2, <3>3
  <2>5. limit - Len(se) <= s2[1].n - s2[1].sent_f /\ s2[1].n - s2[1].sent_f <= AtMost - Len(se)
      BY <1>5 DEF OnCount
  <2>6. CASE Faithful(st, se)
      BY <1>7, <2>2, <2>4, <2>5, <2>6 DEF OnCount
  <2>7. CASE Len(se) = AtMost /\ \A j \in 1 .. Len(st) : \A x \in FilesFrom(Going(st[j])) : Late(x)
    <3>1. \A x \in FilesFrom(Going(st[1])) : Late(x)
        BY <1>2, <2>7
    <3>2. ASSUME NEW j \in 1 .. Len(s2) PROVE \A x \in FilesFrom(Going(s2[j])) : Late(x)
        BY <1>4, <1>8, <2>7, <3>1
    <3> QED
        BY <2>2, <2>4, <2>5, <2>7, <3>2 DEF OnCount
  <2> QED
      BY <2>6, <2>7 DEF OnCount
<1> QED
    BY <1>1, <1>9, <1>10, <1>11 DEF WalkInv

(* What was sent is the beginning of the walk.                             *)
LEMMA FaithfulPrefix ==
    ASSUME NEW st, Len(st) \in Nat, NEW se \in Seq(Places), Faithful(st, se), walk \in Seq(Places)
    PROVE  \A k \in 1 .. Len(se) : k \in 1 .. Len(walk) /\ se[k] = walk[k]
<1>1. PICK rems : Remains(rems, st) /\ se \o rems[1] = walk
    BY DEF Faithful
<1> DEFINE r == rems[1]
<1>2. r \in Seq(Places) /\ se \o r = walk
  <2>1. 1 \in 1 .. Len(st) + 1
      OBVIOUS
  <2> QED
      BY <1>1, <2>1 DEF Remains
<1> HIDE DEF r
<1> DEFINE w == walk
<1>3. w = se \o r
    BY <1>2
<1> HIDE DEF w
<1>4. Len(w) = Len(se) + Len(r) /\ Len(r) \in Nat /\ Len(se) \in Nat /\ \A k \in 1 .. Len(se) : w[k] = se[k]
    BY <1>2, <1>3
<1>5. \A k \in 1 .. Len(se) : k \in 1 .. Len(w) /\ se[k] = w[k]
    BY <1>4
<1> QED
    BY <1>5 DEF w

(* When the limit is reached, whatever is left comes too late.             *)
LEMMA LateFiles ==
    ASSUME Tree, NEW st, FramesOK(st), NEW se \in Seq(Places), Faithful(st, se), walk \in Seq(Places),
           limit \in Int, Len(se) >= limit
    PROVE  \A j \in 1 .. Len(st) : \A x \in FilesFrom(Going(st[j])) : Late(x)
<1>1. PICK rems : Remains(rems, st) /\ se \o rems[1] = walk
    BY DEF Faithful
<1>2. Len(st) \in Nat /\ st \in Seq(Frames) /\ 1 \in 1 .. Len(st) + 1
    BY DEF FramesOK
<1>3. \A j \in 1 .. Len(st) + 1 : rems[j] \in Seq(Places)
    BY <1>1 DEF Remains
<1>4. ASSUME NEW j \in 1 .. Len(st)
      PROVE  Range(rems[j]) = FilesFrom(Going(st[j])) \cup Range(rems[j + 1])
  <2>1. rems[j] = visits[Going(st[j])] \o rems[j + 1]
      BY <1>1 DEF Remains
  <2>2. st[j] \in Frames /\ Framed(st[j])
      BY <1>2 DEF FramesOK
  <2>3. Going(st[j]) \in Places
      BY <2>2, GoingIs
  <2>5. j + 1 \in 1 .. Len(st) + 1
      BY <1>2
  <2>4. visits[Going(st[j])] \in Seq(Places) /\ rems[j + 1] \in Seq(Places)
      BY <1>3, <2>3, <2>5, VisitsType
  <2> QED
      BY <2>1, <2>4, RangeConcat DEF FilesFrom
<1>5. \A j \in 1 .. Len(st) + 1 : Range(rems[j]) \subseteq Range(rems[1])
  <2> DEFINE W == { j \in 1 .. Len(st) + 1 : ~(Range(rems[j]) \subseteq Range(rems[1])) }
  <2> SUFFICES ASSUME W # {} PROVE FALSE
      OBVIOUS
  <2>1. PICK j \in W : \A m \in W : j =< m
    <3>1. W \in SUBSET Nat
        BY <1>2
    <3> HIDE DEF W
    <3> QED
        BY <3>1, NatLeast
  <2>2. j \in 1 .. Len(st) + 1 /\ j # 1 /\ ~(Range(rems[j]) \subseteq Range(rems[1]))
      BY <2>1
  <2>3. j - 1 \in 1 .. Len(st) /\ (j - 1) + 1 = j /\ j - 1 \in 1 .. Len(st) + 1 /\ ~(j <= j - 1)
      BY <1>2, <2>2
  <2>4. Range(rems[j]) \subseteq Range(rems[j - 1])
      BY <1>4, <2>3
  <2>5. j - 1 \notin W
      BY <2>1, <2>3
  <2>6. Range(rems[j - 1]) \subseteq Range(rems[1])
      BY <2>3, <2>5
  <2> QED
      BY <2>2, <2>4, <2>6
<1>6. ASSUME NEW x \in Range(rems[1]) PROVE Late(x)
  <2> DEFINE r == rems[1]
             w == walk
  <2>1. r \in Seq(Places) /\ w = se \o r
      BY <1>1, <1>2, <1>3
  <2>2. PICK m \in DOMAIN r : x = r[m]
      BY <1>6 DEF Range
  <2> HIDE DEF r, w
  <2>3. m \in 1 .. Len(r) /\ Len(r) \in Nat /\ Len(se) \in Nat /\ Len(w) = Len(se) + Len(r)
      BY <2>1, <2>2
  <2>4. Len(se) + m \in 1 .. Len(w) /\ Len(se) + m > limit /\ w[Len(se) + m] = r[m]
      BY <2>1, <2>3
  <2>5. Len(se) + m \in 1 .. Len(walk) /\ walk[Len(se) + m] = x
      BY <2>2, <2>4 DEF w
  <2> QED
      BY <2>4, <2>5 DEF Late
<1>7. ASSUME NEW j \in 1 .. Len(st), NEW x \in FilesFrom(Going(st[j])) PROVE Late(x)
  <2>1. j \in 1 .. Len(st) + 1
      BY <1>2
  <2> QED
      BY <1>4, <1>5, <1>6, <2>1
<1> QED
    BY <1>7

(* An unreadable subdirectory: the files sent become one less.             *)
LEMMA SkipStep ==
    ASSUME Tree, NEW st, NEW se, WalkInv(st, se), st # <<>>, ~Ends(Going(st[1])),
           NEW d \in Directories, entryAt(Going(st[1])) = d, d \in unreadable,
           NEW s2, Moved(st, s2), s2[1].sent_f = st[1].sent_f - 1
    PROVE  WalkInv(s2, se)
<1>1. FramesOK(st) /\ FramesOK(s2) /\ Going(s2[1]) = After(Going(st[1])) /\ Going(s2[1]) \in Places
    BY MovedFrames DEF WalkInv
<1>2. Len(st) \in Nat \ {0} /\ 1 \in 1 .. Len(st) /\ st \in Seq(Frames) /\ Len(s2) = Len(st) /\ s2[1].n = st[1].n
      /\ st[1].n \in Int /\ st[1].sent_f \in Int /\ Going(st[1]) \in Places /\ st[1].dir \in Directories
      /\ \A j \in 1 .. Len(s2) : j # 1 => s2[j] = st[j]
    BY <1>1, TopIs DEF Moved
<1>3. d # Regular /\ unreadable # {} /\ se \in Seq(Places)
    BY CommandLineAssumption DEF WalkInv
<1>4. visits[Going(st[1])] = <<>> \o visits[Going(s2[1])]
  <2>1. visits[Going(st[1])] = visits[Below(Going(st[1]))] \o visits[Going(s2[1])]
      BY <1>1, <1>2, <1>3, VisitsUnfold DEF Onward
  <2>2. Below(Going(st[1])) \in Places /\ Ends(Below(Going(st[1])))
      BY DEF Below, Places, Ends
  <2>3. visits[Below(Going(st[1]))] = <<>>
      BY <2>2, VisitsUnfold DEF Onward
  <2> QED
      BY <2>1, <2>3
<1>5. Faithful(st, se) => Faithful(s2, se)
  <2> DEFINE e == <<>>
  <2>1. e \in Seq(Places) /\ se \o e = se
      BY <1>3, ConcatEmptySeq
  <2>2. visits[Going(st[1])] = e \o visits[Going(s2[1])]
      BY <1>4
  <2> HIDE DEF e
  <2>3. Faithful(st, se) => Faithful(s2, se \o e)
      BY <1>1, <1>2, <1>3, <2>1, <2>2, MovedFaithful
  <2> QED
      BY <2>1, <2>3
<1>6. FirstOnes(s2, se)
  <2> SUFFICES ASSUME limit # -1 PROVE FirstOnes(s2, se)
      BY DEF FirstOnes
  <2>1. Len(se) >= limit => \A k \in 1 .. limit : k \in 1 .. Len(walk) /\ se[k] = walk[k]
      BY DEF WalkInv, FirstOnes
  <2>2. ASSUME Len(se) < limit
        PROVE  Faithful(s2, se) /\ (\A j \in 1 .. Len(s2) : s2[j].n >= 1) /\ s2[1].n - s2[1].sent_f >= limit - Len(se)
    <3>1. Faithful(st, se) /\ (\A j \in 1 .. Len(st) : st[j].n >= 1) /\ st[1].n - st[1].sent_f >= limit - Len(se)
        BY <2>2 DEF WalkInv, FirstOnes
    <3>2. limit \in Int /\ Len(se) \in Nat
        BY DEF WalkInv
    <3>3. s2[1].n - s2[1].sent_f >= limit - Len(se)
        BY <1>2, <3>1, <3>2
    <3> QED
        BY <1>2, <1>5, <3>1, <3>3
  <2> QED
      BY <2>1, <2>2 DEF FirstOnes
<1>7. Unlimited(s2, se) /\ Exactly(s2, se)
    BY <1>3 DEF Unlimited, Exactly
<1> QED
    BY <1>1, <1>6, <1>7 DEF WalkInv

(* A file that may be sent.                                                *)
LEMMA SendStep ==
    ASSUME Tree, NEW st, NEW se, WalkInv(st, se), st # <<>>, ~Ends(Going(st[1])), entryAt(Going(st[1])) = Regular,
           st[1].n = -1 \/ st[1].sent_f + 1 <= st[1].n,
           NEW s2, Moved(st, s2), s2[1].sent_f = IF st[1].n = -1 THEN st[1].sent_f ELSE st[1].sent_f + 1,
           NEW se2, se2 = Append(se, Going(st[1]))
    PROVE  WalkInv(s2, se2)
<1>1. FramesOK(st) /\ FramesOK(s2) /\ Going(s2[1]) = After(Going(st[1])) /\ Going(s2[1]) \in Places
    BY MovedFrames DEF WalkInv
<1>2. Len(st) \in Nat \ {0} /\ 1 \in 1 .. Len(st) /\ st \in Seq(Frames) /\ Len(s2) = Len(st) /\ s2[1].n = st[1].n
      /\ st[1].n \in Int /\ st[1].sent_f \in Int /\ Going(st[1]) \in Places /\ st[1].dir \in Directories
      /\ s2[1].dir = st[1].dir /\ \A j \in 1 .. Len(s2) : j # 1 => s2[j] = st[j]
    BY <1>1, TopIs DEF Moved
<1> DEFINE p == Going(st[1])
<1>3. se \in Seq(Places) /\ walk \in Seq(Places) /\ limit \in Int /\ Len(se) \in Nat
    BY DEF WalkInv
<1>4. se2 \in Seq(Places) /\ Len(se2) = Len(se) + 1 /\ se2[Len(se) + 1] = p /\ \A k \in 1 .. Len(se) : se2[k] = se[k]
    BY <1>2, <1>3
<1>5. se2 = se \o <<p>> /\ <<p>> \in Seq(Places)
    BY <1>2, <1>3
<1>6. visits[p] = <<p>> \o visits[Going(s2[1])]
    BY <1>1, <1>2, VisitsUnfold DEF Onward
<1>7. Faithful(st, se) => Faithful(s2, se2)
  <2> DEFINE e == <<p>>
  <2>1. e \in Seq(Places) /\ se2 = se \o e /\ visits[Going(st[1])] = e \o visits[Going(s2[1])]
      BY <1>5, <1>6
  <2> HIDE DEF e, p
  <2>2. Faithful(st, se) => Faithful(s2, se \o e)
      BY <1>1, <1>2, <1>3, <2>1, MovedFaithful
  <2> QED
      BY <2>1, <2>2
<1>8. p \in FilesFrom(p) /\ FilesFrom(p) \subseteq FilesFrom(<<st[1].dir, 1>>)
  <2>1. st[1] \in Frames /\ Framed(st[1])
      BY <1>1, TopIs
  <2>2. p \in FilesFrom(p)
      BY <1>2, VisitsRange
  <2> QED
      BY <2>1, <2>2, GoingIs
<1> HIDE DEF p
<1>9. Faithful(s2, se2) => \A k \in 1 .. Len(se2) : k \in 1 .. Len(walk) /\ se2[k] = walk[k]
    BY <1>2, <1>3, <1>4, FaithfulPrefix
<1>10. Unlimited(s2, se2)
  <2> SUFFICES ASSUME limit = -1, unreadable = {}
               PROVE  Faithful(s2, se2) /\ \A j \in 1 .. Len(s2) : s2[j].n = -1 /\ s2[j].sent_f = 0
      BY DEF Unlimited
  <2>1. Faithful(st, se) /\ \A j \in 1 .. Len(st) : st[j].n = -1 /\ st[j].sent_f = 0
      BY DEF WalkInv, Unlimited
  <2>2. s2[1].n = -1 /\ s2[1].sent_f = 0
      BY <1>2, <2>1
  <2> QED
      BY <1>2, <1>7, <2>1, <2>2
<1>11. FirstOnes(s2, se2)
  <2> SUFFICES ASSUME limit # -1 PROVE FirstOnes(s2, se2)
      BY DEF FirstOnes
  <2>1. CASE Len(se) < limit
    <3>1. Faithful(st, se) /\ (\A j \in 1 .. Len(st) : st[j].n >= 1) /\ st[1].n - st[1].sent_f >= limit - Len(se)
        BY <2>1 DEF WalkInv, FirstOnes
    <3>2. s2[1].sent_f = st[1].sent_f + 1
        BY <1>2, <3>1
    <3>3. s2[1].n - s2[1].sent_f >= limit - Len(se2)
        BY <1>2, <1>3, <1>4, <3>1, <3>2
    <3>4. \A j \in 1 .. Len(s2) : s2[j].n >= 1
        BY <1>2, <3>1
    <3>5. Faithful(s2, se2) /\ \A k \in 1 .. Len(se2) : k \in 1 .. Len(walk) /\ se2[k] = walk[k]
        BY <1>7, <1>9, <3>1
    <3>6. Len(se2) <= limit
        BY <1>3, <1>4, <2>1
    <3>7. Len(se2) >= limit => \A k \in 1 .. limit : k \in 1 .. Len(walk) /\ se2[k] = walk[k]
        BY <1>3, <1>4, <3>5, <3>6
    <3> QED
        BY <3>3, <3>4, <3>5, <3>7 DEF FirstOnes
  <2>2. CASE Len(se) >= limit
    <3>1. \A k \in 1 .. limit : k \in 1 .. Len(walk) /\ se[k] = walk[k]
        BY <2>2 DEF WalkInv, FirstOnes
    <3>2. ~(Len(se2) < limit) /\ \A k \in 1 .. limit : k \in 1 .. Len(se)
        BY <1>3, <1>4, <2>2
    <3> QED
        BY <1>4, <3>1, <3>2 DEF FirstOnes
  <2> QED
      BY <1>3, <2>1, <2>2
<1>12. Exactly(s2, se2)
  <2> SUFFICES ASSUME limit # -1, unreadable = {}, OnCount(st, se) PROVE OnCount(s2, se2)
      BY DEF Exactly, WalkInv
  <2>1. st[1].sent_f >= 0 /\ (st[1].n >= 0 \/ st[1].n = limit)
        /\ limit - Len(se) <= st[1].n - st[1].sent_f /\ st[1].n - st[1].sent_f <= AtMost - Len(se)
      BY <1>2 DEF OnCount
  <2>2. st[1].n # -1 /\ s2[1].sent_f = st[1].sent_f + 1 /\ st[1].sent_f + 1 <= st[1].n
      BY <1>2, <2>1
  <2>3. Len(se) + 1 <= AtMost /\ AtMost = limit
      BY <1>2, <1>3, <2>1, <2>2 DEF AtMost
  <2>4. Len(se2) <= limit /\ Len(se) # AtMost
      BY <1>3, <1>4, <2>3
  <2>5. Faithful(s2, se2)
      BY <1>7, <2>4 DEF OnCount
  <2>6. Early(st[1].dir)
    <3>1. Len(se) + 1 \in 1 .. Len(se2)
        BY <1>3, <1>4
    <3>2. Len(se) + 1 \in 1 .. Len(walk) /\ walk[Len(se) + 1] = p
        BY <1>4, <1>9, <2>5, <3>1
    <3>3. Len(se) + 1 <= limit
        BY <2>3
    <3>4. p \in FilesFrom(<<st[1].dir, 1>>)
        BY <1>8
    <3> QED
        BY <3>2, <3>3, <3>4 DEF Early
  <2>7. limit - Len(se2) <= s2[1].n - s2[1].sent_f /\ s2[1].n - s2[1].sent_f <= AtMost - Len(se2)
    <3>1. Len(se2) = Len(se) + 1 /\ Len(se) \in Nat /\ limit \in Int /\ AtMost = limit
        BY <1>3, <1>4, <2>3
    <3>2. s2[1].n = st[1].n /\ s2[1].sent_f = st[1].sent_f + 1 /\ st[1].n \in Int /\ st[1].sent_f \in Int
        BY <1>2, <2>2
    <3> QED
        BY <2>1, <3>1, <3>2
  <2>8. ASSUME NEW j \in 1 .. Len(s2)
        PROVE  s2[j].sent_f >= 0 /\ (s2[j].n >= 0 \/ s2[j].n = limit) /\ (s2[j].sent_f > 0 => Early(s2[j].dir))
    <3>1. CASE j = 1
        BY <1>2, <2>1, <2>2, <2>6, <3>1
    <3>2. CASE j # 1
        BY <1>2, <3>2 DEF OnCount
    <3> QED
        BY <3>1, <3>2
  <2> QED
      BY <2>3, <2>4, <2>5, <2>7, <2>8 DEF OnCount
<1> QED
    BY <1>1, <1>3, <1>4, <1>10, <1>11, <1>12 DEF WalkInv

(* The limit is reached, or was: the count is full, and all that is left   *)
(* comes too late.                                                         *)
LEMMA OverMeans ==
    ASSUME Tree, NEW st, NEW se, WalkInv(st, se), st # <<>>, st[1].n # -1, st[1].sent_f + 1 > st[1].n
    PROVE  /\ ~(limit = -1 /\ unreadable = {})
           /\ limit # -1 => Len(se) >= limit
           /\ (limit # -1 /\ OnCount(st, se)) =>
                 Len(se) = AtMost /\ \A j \in 1 .. Len(st) : \A x \in FilesFrom(Going(st[j])) : Late(x)
<1>1. FramesOK(st) /\ se \in Seq(Places) /\ walk \in Seq(Places) /\ limit \in Int /\ Len(se) \in Nat
    BY DEF WalkInv
<1>2. 1 \in 1 .. Len(st) /\ st[1].n \in Int /\ st[1].sent_f \in Int
    BY <1>1, TopIs
<1>3. st[1].n - st[1].sent_f <= 0
    BY <1>2
<1>4. ~(limit = -1 /\ unreadable = {})
    BY <1>2 DEF WalkInv, Unlimited
<1>5. limit # -1 => Len(se) >= limit
  <2> SUFFICES ASSUME limit # -1, Len(se) < limit PROVE FALSE
      BY <1>1
  <2>1. st[1].n - st[1].sent_f >= limit - Len(se)
      BY DEF WalkInv, FirstOnes
  <2> QED
      BY <1>1, <1>2, <1>3, <2>1
<1>6. ASSUME limit # -1, OnCount(st, se)
      PROVE  Len(se) = AtMost /\ \A j \in 1 .. Len(st) : \A x \in FilesFrom(Going(st[j])) : Late(x)
  <2>1. Len(se) <= AtMost
      BY <1>6 DEF OnCount
  <2>2. Len(se) = AtMost
      BY <1>1, <1>5, <1>6, <2>1 DEF AtMost
  <2>3. CASE Faithful(st, se)
      BY <1>1, <1>5, <1>6, <2>2, <2>3, LateFiles
  <2>4. CASE ~Faithful(st, se)
      BY <1>6, <2>2, <2>4 DEF OnCount
  <2> QED
      BY <2>3, <2>4
<1> QED
    BY <1>4, <1>5, <1>6

(* There the innermost call returns 0, whatever it sent.                   *)
LEMMA OverStep ==
    ASSUME Tree, NEW st, NEW se, WalkInv(st, se), st # <<>>, Len(st) > 1,
           st[1].n # -1, st[1].sent_f + 1 > st[1].n, ~Ends(Going(st[1])), entryAt(Going(st[1])) = Regular,
           NEW s2, Popped(st, s2), s2[1].sent_f = st[2].sent_f
    PROVE  WalkInv(s2, se)
<1>1. FramesOK(st) /\ FramesOK(s2)
    BY PoppedFrames DEF WalkInv
<1>2. Len(st) \in Nat \ {0} /\ Len(s2) = Len(st) - 1 /\ s2 # <<>> /\ 2 \in 1 .. Len(st) /\ 1 \in 1 .. Len(st)
      /\ 1 \in 1 .. Len(st) - 1 /\ 1 \in 1 .. Len(s2) /\ st \in Seq(Frames)
    BY <1>1, TopIs DEF Popped
<1>3. st[1] \in Frames /\ st[2] \in Frames /\ Framed(st[1]) /\ Framed(st[2]) /\ CalledBy(st[1], st[2])
  <2>1. 1 + 1 = 2
      OBVIOUS
  <2> QED
      BY <1>1, <1>2, <2>1 DEF FramesOK
<1>4. st[1].n \in Int /\ st[1].sent_f \in Int /\ st[2].n \in Int /\ st[2].sent_f \in Int
      /\ st[1].n = st[2].n - st[2].sent_f /\ st[1].dir \in Directories /\ Going(st[1]) \in Places
    BY <1>3, GoingIs DEF CalledBy
<1>5. \A j \in 1 .. Len(s2) : j + 1 \in 1 .. Len(st) /\ s2[j].n = st[j + 1].n /\ s2[j].dir = st[j + 1].dir
                              /\ Going(s2[j]) = Going(st[j + 1])
                              /\ (j # 1 => s2[j].sent_f = st[j + 1].sent_f)
  <2> TAKE j \in 1 .. Len(s2)
  <2>1. j + 1 \in 1 .. Len(st)
      BY <1>2
  <2>2. s2[j].dir = st[j + 1].dir /\ s2[j].pos = st[j + 1].pos /\ s2[j].n = st[j + 1].n
        /\ (j # 1 => s2[j].sent_f = st[j + 1].sent_f)
      BY DEF Popped
  <2> QED
      BY <2>1, <2>2 DEF Going
<1>6. s2[1].n = st[2].n /\ s2[1].dir = st[2].dir
  <2>1. 1 + 1 = 2
      OBVIOUS
  <2> QED
      BY <1>2, <2>1 DEF Popped
<1>7. Unlimited(s2, se)
    BY OverMeans DEF Unlimited
<1>8. FirstOnes(s2, se)
  <2> SUFFICES ASSUME limit # -1 PROVE FirstOnes(s2, se)
      BY DEF FirstOnes
  <2>1. Len(se) >= limit /\ limit \in Int /\ Len(se) \in Nat
      BY OverMeans DEF WalkInv
  <2>2. ~(Len(se) < limit) /\ \A k \in 1 .. limit : k \in 1 .. Len(walk) /\ se[k] = walk[k]
      BY <2>1 DEF WalkInv, FirstOnes
  <2> QED
      BY <2>2 DEF FirstOnes
<1>9. Exactly(s2, se)
  <2> SUFFICES ASSUME limit # -1, unreadable = {}, OnCount(st, se) PROVE Forgotten \/ OnCount(s2, se)
      BY DEF Exactly, WalkInv
  <2>1. Len(se) = AtMost /\ \A j \in 1 .. Len(st) : \A x \in FilesFrom(Going(st[j])) : Late(x)
      BY OverMeans
  <2>2. CASE st[1].sent_f > 0
    <3>1. Early(st[1].dir)
        BY <1>2, <2>2 DEF OnCount
    <3>2. Late(Going(st[1])) /\ Going(st[1]) \in FilesFrom(<<st[1].dir, 1>>)
      <4>1. Going(st[1]) \in FilesFrom(Going(st[1]))
          BY <1>4, VisitsRange
      <4> QED
          BY <1>2, <1>3, <2>1, <4>1, GoingIs
    <3>3. st[1].dir # root
      <4>1. PICK depth \in [Directories -> 0 .. Cardinality(Directories)] :
               \A d \in Directories : \A k \in DOMAIN contents[d] :
                  contents[d][k] # Regular => depth[contents[d][k]] < depth[d]
          BY DEF Tree, Nested
      <4>2. depth \in [Directories -> Nat]
        <5>1. \A d \in Directories : depth[d] \in Nat
            BY <4>1
        <5> QED
            BY <4>1, <5>1
      <4>3. Ranks(depth)
          BY <4>1, <4>2 DEF Ranks
      <4>4. depth[st[1].dir] < depth[root]
          BY <1>1, <1>2, <4>3 DEF FramesOK
      <4>5. depth[st[1].dir] \in Nat
          BY <1>4, <4>2
      <4> QED
          BY <4>4, <4>5
    <3> QED
        BY <1>4, <3>1, <3>2, <3>3 DEF Forgotten
  <2>3. CASE ~(st[1].sent_f > 0)
    <3>1. st[1].sent_f = 0
      <4>1. st[1].sent_f >= 0
          BY <1>2 DEF OnCount
      <4> QED
          BY <1>4, <2>3, <4>1
    <3>2. s2[1].n - s2[1].sent_f = st[1].n - st[1].sent_f
        BY <1>4, <1>6, <3>1
    <3>3. limit - Len(se) <= s2[1].n - s2[1].sent_f /\ s2[1].n - s2[1].sent_f <= AtMost - Len(se) /\ Len(se) <= AtMost
        BY <3>2 DEF OnCount
    <3>4. ASSUME NEW j \in 1 .. Len(s2)
          PROVE  s2[j].sent_f >= 0 /\ (s2[j].n >= 0 \/ s2[j].n = limit) /\ (s2[j].sent_f > 0 => Early(s2[j].dir))
      <4>1. CASE j = 1
          BY <1>2, <1>6, <4>1 DEF OnCount
      <4>2. CASE j # 1
          BY <1>5, <4>2 DEF OnCount
      <4> QED
          BY <4>1, <4>2
    <3>5. \A j \in 1 .. Len(s2) : \A x \in FilesFrom(Going(s2[j])) : Late(x)
        BY <1>5, <2>1
    <3> QED
        BY <2>1, <3>3, <3>4, <3>5 DEF OnCount
  <2> QED
      BY <2>2, <2>3
<1> QED
    BY <1>1, <1>7, <1>8, <1>9 DEF WalkInv

(* There is nobody to return to.                                           *)
LEMMA LastOverStep ==
    ASSUME Tree, NEW st, NEW se, WalkInv(st, se), st # <<>>, st[1].n # -1, st[1].sent_f + 1 > st[1].n
    PROVE  WalkInv(<<>>, se)
<1>1. FramesOK(<<>>) /\ se \in Seq(Places) /\ walk \in Seq(Places) /\ limit \in Int /\ Len(se) \in Nat
    BY NoFrames DEF WalkInv
<1>2. Unlimited(<<>>, se)
    BY OverMeans DEF Unlimited
<1>3. FirstOnes(<<>>, se)
  <2> SUFFICES ASSUME limit # -1 PROVE FirstOnes(<<>>, se)
      BY DEF FirstOnes
  <2>1. Len(se) >= limit
      BY OverMeans
  <2>2. ~(Len(se) < limit) /\ \A k \in 1 .. limit : k \in 1 .. Len(walk) /\ se[k] = walk[k]
      BY <1>1, <2>1 DEF WalkInv, FirstOnes
  <2> QED
      BY <2>2 DEF FirstOnes
<1>4. Exactly(<<>>, se)
  <2> SUFFICES ASSUME limit # -1, unreadable = {}, OnCount(st, se) PROVE OnCount(<<>>, se)
      BY DEF Exactly, WalkInv
  <2>1. Len(se) = AtMost
      BY OverMeans
  <2>2. Len(se) <= AtMost
      BY DEF OnCount
  <2> QED
      BY <2>1, <2>2, NoFrames DEF OnCount
<1> QED
    BY <1>1, <1>2, <1>3, <1>4 DEF WalkInv

(* The fields of a frame.                                                  *)
LEMMA FrameFields ==
    ASSUME NEW f \in Frames
    PROVE  f.dir \in Directories /\ f.pos \in Nat \ {0} /\ f.n \in Int /\ f.sent_f \in Int /\ f.pos + 1 \in Nat \ {0}
    BY DEF Frames

(* Another number of files sent.                                           *)
LEMMA SentIs ==
    ASSUME NEW f \in Frames, NEW x \in Int, NEW g, g = [f EXCEPT !.sent_f = x]
    PROVE  g \in Frames /\ g.dir = f.dir /\ g.pos = f.pos /\ g.n = f.n /\ g.sent_f = x
<1>1. f = [dir |-> f.dir, pos |-> f.pos, n |-> f.n, sent_f |-> f.sent_f]
    BY DEF Frames
<1>2. g = [dir |-> f.dir, pos |-> f.pos, n |-> f.n, sent_f |-> x]
    BY <1>1
<1>3. g \in Frames
    BY <1>2, FrameFields DEF Frames
<1> QED
    BY <1>2, <1>3

(* Another place.                                                          *)
LEMMA PosIs ==
    ASSUME NEW f \in Frames, NEW x \in Nat \ {0}, NEW g, g = [f EXCEPT !.pos = x]
    PROVE  g \in Frames /\ g.dir = f.dir /\ g.pos = x /\ g.n = f.n /\ g.sent_f = f.sent_f
<1>1. f = [dir |-> f.dir, pos |-> f.pos, n |-> f.n, sent_f |-> f.sent_f]
    BY DEF Frames
<1>2. g = [dir |-> f.dir, pos |-> x, n |-> f.n, sent_f |-> f.sent_f]
    BY <1>1
<1>3. g \in Frames
    BY <1>2, FrameFields DEF Frames
<1> QED
    BY <1>2, <1>3

(* Another first element.                                                  *)
LEMMA FirstChanged ==
    ASSUME NEW S, NEW s \in Seq(S), s # <<>>, NEW x \in S, NEW t, t = [s EXCEPT ![1] = x]
    PROVE  t \in Seq(S) /\ Len(t) = Len(s) /\ t[1] = x /\ \A j \in 1 .. Len(s) : j # 1 => t[j] = s[j]
<1>1. Len(s) \in Nat \ {0} /\ 1 \in 1 .. Len(s)
    OBVIOUS
<1> QED
    BY <1>1

(* What returned, Advanced and a call make of the frames.                  *)
LEMMA ReturnedIs ==
    ASSUME NEW st \in Seq(Frames), Len(st) > 1, NEW v \in Int, NEW s2, s2 = returned(st, v)
    PROVE  Popped(st, s2) /\ s2[1].sent_f = st[2].sent_f + v
<1> DEFINE t == Tail(st)
           x == t[1].sent_f + v
           f == [t[1] EXCEPT !.sent_f = x]
<1>1. t \in Seq(Frames) /\ Len(t) = Len(st) - 1 /\ Len(st) \in Nat /\ \A j \in 1 .. Len(st) - 1 : t[j] = st[j + 1]
    OBVIOUS
<1> HIDE DEF t
<1>2. 1 \in 1 .. Len(t) /\ 1 \in 1 .. Len(st) - 1 /\ 1 + 1 = 2
    BY <1>1
<1>3. t[1] = st[2] /\ t[1] \in Frames
    BY <1>1, <1>2
<1>4. f \in Frames /\ f.dir = t[1].dir /\ f.pos = t[1].pos /\ f.n = t[1].n /\ f.sent_f = t[1].sent_f + v
  <2>1. x \in Int
      BY <1>3, FrameFields
  <2> QED
      BY <1>3, <2>1, SentIs
<1>5. s2 = [t EXCEPT ![1] = f]
  <2>1. Len(st) # 1
      BY <1>1
  <2> QED
      BY <2>1 DEF returned, t
<1> HIDE DEF f
<1>6. s2 \in Seq(Frames) /\ Len(s2) = Len(t) /\ s2[1] = f /\ \A j \in 1 .. Len(t) : j # 1 => s2[j] = t[j]
  <2>1. t # <<>>
      BY <1>1, <1>2
  <2> QED
      BY <1>1, <1>4, <1>5, <2>1, FirstChanged
<1>7. ASSUME NEW j \in 1 .. Len(s2)
      PROVE  /\ s2[j].dir = st[j + 1].dir /\ s2[j].pos = st[j + 1].pos /\ s2[j].n = st[j + 1].n
             /\ j # 1 => s2[j].sent_f = st[j + 1].sent_f
  <2>1. j \in 1 .. Len(st) - 1 /\ j \in 1 .. Len(t)
      BY <1>1, <1>6
  <2>2. t[j] = st[j + 1]
      BY <1>1, <2>1
  <2>3. CASE j = 1
      BY <1>4, <1>6, <2>2, <2>3
  <2>4. CASE j # 1
      BY <1>6, <2>1, <2>2, <2>4
  <2> QED
      BY <2>3, <2>4
<1>8. Len(s2) = Len(st) - 1
    BY <1>1, <1>6
<1>9. s2[1].sent_f = st[2].sent_f + v
    BY <1>3, <1>4, <1>6
<1> QED
    BY <1>6, <1>7, <1>8, <1>9 DEF Popped

(* The next entry was read, and x files are sent.                          *)
Advanced(st, x) == [[st EXCEPT ![1].pos = @ + 1] EXCEPT ![1].sent_f = x]

(* Advanced reads an entry and sets the files sent.                        *)
LEMMA MovedIs ==
    ASSUME NEW st \in Seq(Frames), st # <<>>, NEW x \in Int
    PROVE  Moved(st, Advanced(st, x)) /\ Advanced(st, x)[1].sent_f = x
<1> DEFINE g == [st[1] EXCEPT !.pos = st[1].pos + 1]
           f == [g EXCEPT !.sent_f = x]
<1>1. Len(st) \in Nat \ {0} /\ 1 \in 1 .. Len(st) /\ st[1] \in Frames
    OBVIOUS
<1>2. f \in Frames /\ f.dir = st[1].dir /\ f.pos = st[1].pos + 1 /\ f.n = st[1].n /\ f.sent_f = x
  <2>1. st[1].pos + 1 \in Nat \ {0}
      BY <1>1, FrameFields
  <2>2. g \in Frames /\ g.dir = st[1].dir /\ g.pos = st[1].pos + 1 /\ g.n = st[1].n
      BY <1>1, <2>1, PosIs
  <2> HIDE DEF g
  <2>3. f \in Frames /\ f.dir = g.dir /\ f.pos = g.pos /\ f.n = g.n /\ f.sent_f = x
      BY <2>2, SentIs
  <2> QED
      BY <2>2, <2>3
<1> DEFINE s2 == Advanced(st, x)
<1>3. s2 = [st EXCEPT ![1] = f]
    BY <1>1 DEF Advanced
<1> HIDE DEF f, s2
<1>4. s2 \in Seq(Frames) /\ Len(s2) = Len(st) /\ s2[1] = f /\ \A j \in 1 .. Len(st) : j # 1 => s2[j] = st[j]
    BY <1>2, <1>3, FirstChanged
<1> QED
    BY <1>2, <1>4 DEF Moved, s2

(* A call puts a new frame before the others.                              *)
LEMMA EnteredIs ==
    ASSUME NEW st \in Seq(Frames), st # <<>>, NEW d \in Directories, NEW s2,
           s2 = <<Frame(d, st[1].n - st[1].sent_f)>> \o [st EXCEPT ![1].pos = @ + 1]
    PROVE  Entered(st, s2, d)
<1> DEFINE f == [st[1] EXCEPT !.pos = st[1].pos + 1]
           g == Frame(d, st[1].n - st[1].sent_f)
           t == [st EXCEPT ![1].pos = @ + 1]
           h == <<g>>
<1>1. Len(st) \in Nat \ {0} /\ 1 \in 1 .. Len(st) /\ st[1] \in Frames
    OBVIOUS
<1>2. f \in Frames /\ f.dir = st[1].dir /\ f.pos = st[1].pos + 1 /\ f.n = st[1].n /\ f.sent_f = st[1].sent_f
  <2>1. st[1].pos + 1 \in Nat \ {0}
      BY <1>1, FrameFields
  <2> QED
      BY <1>1, <2>1, PosIs
<1>3. t = [st EXCEPT ![1] = f]
    BY <1>1
<1>4. g \in Frames /\ g = [dir |-> d, pos |-> 1, n |-> st[1].n - st[1].sent_f, sent_f |-> 0]
  <2>1. st[1].n \in Int /\ st[1].sent_f \in Int /\ 1 \in Nat \ {0} /\ 0 \in Int
      BY <1>1 DEF Frames
  <2>2. st[1].n - st[1].sent_f \in Int
      BY <2>1
  <2> QED
      BY <2>1, <2>2 DEF Frames, Frame
<1>5. s2 = h \o t
    OBVIOUS
<1> HIDE DEF f, g, t
<1>6. t \in Seq(Frames) /\ Len(t) = Len(st) /\ t[1] = f /\ \A j \in 1 .. Len(st) : j # 1 => t[j] = st[j]
    BY <1>2, <1>3, FirstChanged
<1>7. h \in Seq(Frames) /\ Len(h) = 1 /\ h[1] = g
    BY <1>4
<1> HIDE DEF h
<1>8. s2 \in Seq(Frames) /\ Len(s2) = Len(st) + 1 /\ s2[1] = h[1]
      /\ \A j \in 1 .. Len(s2) : j > 1 => s2[j] = t[j - 1]
    BY <1>1, <1>5, <1>6, <1>7
<1>9. s2[2] = f
  <2>1. 2 \in 1 .. Len(s2) /\ 2 > 1 /\ 2 - 1 = 1
      BY <1>1, <1>8
  <2> QED
      BY <1>6, <1>8, <2>1
<1>10. ASSUME NEW j \in 1 .. Len(s2), j > 2 PROVE s2[j] = st[j - 1]
  <2>1. j > 1 /\ j - 1 \in 1 .. Len(st) /\ j - 1 # 1
      BY <1>1, <1>8, <1>10
  <2> QED
      BY <1>6, <1>8, <2>1
<1>11. s2[1] = [dir |-> d, pos |-> 1, n |-> st[1].n - st[1].sent_f, sent_f |-> 0]
    BY <1>4, <1>7, <1>8
<1> QED
    BY <1>2, <1>8, <1>9, <1>10, <1>11 DEF Entered

(* Each step of sendFilesDirectory keeps what is known of the walk.        *)
LEMMA WalkStep ==
    ASSUME Tree, WalkInv(stack, sent), sendFilesDirectory
    PROVE  WalkInv(stack', sent')
<1>1. stack # <<>> /\ FramesOK(stack)
    BY DEF sendFilesDirectory, WalkInv
<1>2. stack \in Seq(Frames) /\ Len(stack) \in Nat \ {0} /\ stack[1] \in Frames /\ Framed(stack[1])
      /\ stack[1].n \in Int /\ stack[1].sent_f \in Int /\ stack[1].dir \in Directories
      /\ (Len(stack) = 1 \/ Len(stack) > 1)
    BY <1>1, TopIs
<1>3. (Ends(Going(stack[1])) <=> top.pos > Len(contents[top.dir]))
      /\ entryAt(Going(stack[1])) = contents[top.dir][top.pos]
      /\ top.pos \in Nat \ {0} /\ Len(contents[top.dir]) \in Nat /\ DOMAIN contents[top.dir] = 1 .. Len(contents[top.dir])
    BY <1>2, GoingIs DEF top
<1>4. CASE DirectoryEnd
  <2>1. Ends(Going(stack[1])) /\ stack' = returned(stack, stack[1].sent_f) /\ sent' = sent
      BY <1>3, <1>4 DEF DirectoryEnd, top
  <2>2. CASE Len(stack) = 1
    <3>1. stack' = <<>>
        BY <2>1, <2>2 DEF returned
    <3>2. WalkInv(<<>>, sent)
        BY <1>1, <2>1, <2>2, LastEndStep
    <3> QED
        BY <2>1, <3>1, <3>2
  <2>3. CASE Len(stack) > 1
    <3> DEFINE s2 == returned(stack, stack[1].sent_f)
    <3>1. Popped(stack, s2) /\ s2[1].sent_f = stack[2].sent_f + stack[1].sent_f
        BY <1>2, <2>3, ReturnedIs
    <3> HIDE DEF s2
    <3>2. WalkInv(s2, sent)
        BY <1>1, <2>1, <2>3, <3>1, EndStep
    <3> QED
        BY <2>1, <3>2 DEF s2
  <2> QED
      BY <1>2, <2>2, <2>3
<1>5. CASE SubDirectory
  <2> DEFINE d == contents[top.dir][top.pos]
  <2>1. ~Ends(Going(stack[1])) /\ entryAt(Going(stack[1])) = d /\ sent' = sent
      /\ stack' = IF d \in unreadable THEN [entryRead EXCEPT ![1].sent_f = @ - 1]
                  ELSE <<Frame(d, top.n - top.sent_f)>> \o entryRead
      BY <1>3, <1>5 DEF SubDirectory
  <2>2. d \in Directories
    <3>1. top.pos \in DOMAIN contents[top.dir] /\ d # Regular
        BY <1>3, <1>5 DEF SubDirectory
    <3>2. contents[top.dir] \in Seq(Directories \cup {Regular})
        BY <1>2 DEF Tree, top
    <3>3. \A S : \A s \in Seq(S) : \A k \in DOMAIN s : s[k] \in S
        OBVIOUS
    <3>4. d \in Directories \cup {Regular}
        BY <3>1, <3>2, <3>3
    <3> QED
        BY <3>1, <3>4
  <2> HIDE DEF d
  <2>3. CASE d \in unreadable
    <3> DEFINE s2 == Advanced(stack, stack[1].sent_f - 1)
    <3>1. [entryRead EXCEPT ![1].sent_f = @ - 1] = s2
        BY <1>2 DEF entryRead, Frames, Advanced
    <3>2. stack[1].sent_f - 1 \in Int
        BY <1>2
    <3>3. Moved(stack, s2) /\ s2[1].sent_f = stack[1].sent_f - 1
        BY <1>1, <1>2, <3>2, MovedIs
    <3>4. stack' = s2
        BY <2>1, <2>3, <3>1
    <3> HIDE DEF s2
    <3>5. WalkInv(s2, sent)
        BY <1>1, <2>1, <2>2, <2>3, <3>3, SkipStep
    <3> QED
        BY <2>1, <3>4, <3>5
  <2>4. CASE d \notin unreadable
    <3> DEFINE s2 == <<Frame(d, stack[1].n - stack[1].sent_f)>> \o [stack EXCEPT ![1].pos = @ + 1]
    <3>1. stack' = s2
        BY <2>1, <2>4 DEF entryRead, top
    <3>2. Entered(stack, s2, d)
        BY <1>1, <1>2, <2>2, EnteredIs
    <3> HIDE DEF s2
    <3>3. WalkInv(s2, sent)
        BY <1>1, <2>1, <2>2, <2>4, <3>2, EnterStep
    <3> QED
        BY <2>1, <3>1, <3>3
  <2> QED
      BY <2>3, <2>4
<1>6. CASE RegularFile
  <2>1. ~Ends(Going(stack[1])) /\ entryAt(Going(stack[1])) = Regular
      BY <1>3, <1>6 DEF RegularFile
  <2>2. CASE over
    <3>1. stack[1].n # -1 /\ stack[1].sent_f + 1 > stack[1].n /\ sent' = sent /\ stack' = returned(stack, 0)
        BY <1>6, <2>2 DEF RegularFile, over, top
    <3>2. CASE Len(stack) = 1
      <4>1. stack' = <<>>
          BY <3>1, <3>2 DEF returned
      <4>2. WalkInv(<<>>, sent)
          BY <1>1, <3>1, LastOverStep
      <4> QED
          BY <3>1, <4>1, <4>2
    <3>3. CASE Len(stack) > 1
      <4> DEFINE s2 == returned(stack, 0)
      <4>0. 0 \in Int
          OBVIOUS
      <4>1. Popped(stack, s2) /\ s2[1].sent_f = stack[2].sent_f + 0
          BY <1>2, <3>3, <4>0, ReturnedIs
      <4>2. stack[2].sent_f + 0 = stack[2].sent_f
        <5>1. 2 \in 1 .. Len(stack)
            BY <1>2, <3>3
        <5>2. stack[2] \in Frames
            BY <1>2, <5>1
        <5> QED
            BY <5>2 DEF Frames
      <4> HIDE DEF s2
      <4>3. WalkInv(s2, sent)
          BY <1>1, <2>1, <3>1, <3>3, <4>1, <4>2, OverStep
      <4> QED
          BY <3>1, <4>3 DEF s2
    <3> QED
        BY <1>2, <3>2, <3>3
  <2>3. CASE ~over
    <3> DEFINE x == IF stack[1].n = -1 THEN stack[1].sent_f ELSE stack[1].sent_f + 1
               s2 == Advanced(stack, x)
    <3>1. stack[1].n = -1 \/ stack[1].sent_f + 1 <= stack[1].n
        BY <1>2, <2>3 DEF over, top
    <3>2. stack' = [entryRead EXCEPT ![1].sent_f = IF top.n = -1 THEN @ ELSE @ + 1]
          /\ sent' = Append(sent, <<top.dir, top.pos>>)
        BY <1>6, <2>3 DEF RegularFile
    <3>3. sent' = Append(sent, Going(stack[1]))
        BY <3>2 DEF Going, top
    <3>4. stack' = s2
        BY <1>2, <3>2 DEF entryRead, top, Frames, Advanced
    <3>5. x \in Int
        BY <1>2
    <3>6. Moved(stack, s2) /\ s2[1].sent_f = x
        BY <1>1, <1>2, <3>5, MovedIs
    <3> DEFINE se2 == Append(sent, Going(stack[1]))
    <3> HIDE DEF s2, se2
    <3>7. WalkInv(s2, se2)
        BY <1>1, <2>1, <3>1, <3>6, SendStep DEF se2
    <3> QED
        BY <3>3, <3>4, <3>7 DEF se2
  <2> QED
      BY <2>2, <2>3
<1> QED
    BY <1>4, <1>5, <1>6 DEF sendFilesDirectory

-----------------------------------------------------------------------------
(* From the first call of a -w to the last.                                *)

Sending == asked # <<>> /\ Last(asked).run = "sendFilesDirectory"
SendInv ==
    /\ Tree
    /\ Sending => WalkInv(stack, sent)
    /\ stack # <<>> => Sending

(* A -w that was just read.                                                *)
Started ==
    /\ limit \in Int /\ sent = <<>>
    /\ \/ Last(asked).word \in DOMAIN DirectoryOf /\ root \notin unreadable /\ stack = <<Frame(root, limit)>>
       \/ (Last(asked).word \notin DOMAIN DirectoryOf \/ root \in unreadable) /\ stack = <<>>

(* The walk is a sequence of places.                                       *)
LEMMA TreeWalkType ==
    ASSUME Tree
    PROVE  /\ walk \in Seq(Places)
           /\ Last(asked).word \in DOMAIN DirectoryOf => root \in Directories /\ <<root, 1>> \in Places
           /\ (Last(asked).word \notin DOMAIN DirectoryOf \/ root \in unreadable) => walk = <<>>
<1>1. ASSUME Last(asked).word \in DOMAIN DirectoryOf
      PROVE  root \in Directories /\ <<root, 1>> \in Places /\ walk = visits[<<root, 1>>] /\ walk \in Seq(Places)
  <2>1. root \in Directories
      BY <1>1, CommandLineAssumption DEF root
  <2>2. <<root, 1>> \in Places
      BY <2>1 DEF Places
  <2>3. walk = visits[<<root, 1>>]
      BY <1>1 DEF walk, root
  <2> QED
      BY <2>1, <2>2, <2>3, VisitsType
<1>2. ASSUME Last(asked).word \notin DOMAIN DirectoryOf
      PROVE  walk = <<>> /\ walk \in Seq(Places)
  <2>1. walk = <<>>
      BY <1>2 DEF walk
  <2>2. <<>> \in Seq(Places)
      OBVIOUS
  <2> QED
      BY <2>1, <2>2
<1>3. ASSUME Last(asked).word \in DOMAIN DirectoryOf, root \in unreadable
      PROVE  walk = <<>>
  <2>1. Ends(<<root, 1>>)
      BY <1>3 DEF Ends
  <2> QED
      BY <1>1, <1>3, <2>1, VisitsUnfold DEF Onward
<1> QED
    BY <1>1, <1>2, <1>3

(* A -w that was just read has all of its walk left.                       *)
LEMMA StartedWalk == Tree /\ Started => WalkInv(stack, sent)
<1> SUFFICES ASSUME Tree, Started PROVE WalkInv(stack, sent)
    OBVIOUS
<1>1. limit \in Int /\ sent = <<>> /\ sent \in Seq(Places) /\ Len(sent) = 0 /\ walk \in Seq(Places)
    BY TreeWalkType DEF Started
<1>2. CASE Last(asked).word \in DOMAIN DirectoryOf /\ root \notin unreadable /\ stack = <<Frame(root, limit)>>
  <2> DEFINE f == Frame(root, limit)
             st == <<f>>
  <2>1. root \in Directories /\ <<root, 1>> \in Places /\ walk = visits[<<root, 1>>]
      BY <1>2, TreeWalkType DEF walk, root
  <2>2. f.dir = root /\ f.pos = 1 /\ f.n = limit /\ f.sent_f = 0
      BY DEF Frame
  <2>3. f \in Frames
      BY <1>1, <2>1 DEF Frame, Frames
  <2>4. Going(f) = <<root, 1>>
      BY <2>2 DEF Going
  <2>5. Framed(f)
    <3>1. Len(contents[root]) \in Nat
        BY <2>1 DEF Tree
    <3> QED
        BY <1>2, <2>2, <3>1 DEF Framed
  <2> HIDE DEF f
  <2>6. st \in Seq(Frames) /\ Len(st) = 1 /\ st[1] = f
      BY <2>3
  <2> HIDE DEF st
  <2>7. \A j \in 1 .. Len(st) : j = 1 /\ st[j] = f
      BY <2>6
  <2>8. \A j \in 1 .. Len(st) - 1 : FALSE
      BY <2>6
  <2>9. FramesOK(st)
    <3>1. st[Len(st)].dir = root
        BY <2>2, <2>6
    <3> QED
        BY <2>5, <2>6, <2>7, <2>8, <3>1 DEF FramesOK
  <2>10. Faithful(st, sent)
    <3> DEFINE rems == [j \in 1 .. 2 |-> IF j = 1 THEN walk ELSE <<>>]
    <3>1. rems[1] = walk /\ rems[2] = <<>>
        OBVIOUS
    <3>2. rems \in [1 .. 2 -> Seq(Places)]
      <4>1. <<>> \in Seq(Places)
          OBVIOUS
      <4> QED
          BY <1>1, <4>1
    <3> HIDE DEF rems
    <3>3. walk \o <<>> = walk /\ <<>> \o walk = walk
        BY <1>1, ConcatEmptySeq
    <3>4. rems[1] = visits[Going(st[1])] \o rems[2]
        BY <2>1, <2>4, <2>6, <3>1, <3>3
    <3>5. Len(st) + 1 = 2 /\ 1 + 1 = 2
        BY <2>6
    <3>6. \A j \in 1 .. Len(st) : rems[j] = visits[Going(st[j])] \o rems[j + 1]
      <4> TAKE j \in 1 .. Len(st)
      <4>1. j = 1
          BY <2>7
      <4> QED
          BY <3>4, <3>5, <4>1
    <3>7. Remains(rems, st)
        BY <3>1, <3>2, <3>5, <3>6 DEF Remains
    <3>8. sent \o rems[1] = walk
        BY <1>1, <3>1, <3>3
    <3> QED
        BY <3>7, <3>8 DEF Faithful
  <2>11. st # <<>>
      BY <2>6
  <2>12. st[1].n = limit /\ st[1].sent_f = 0
      BY <2>2, <2>6
  <2>13. Unlimited(st, sent)
    <3> SUFFICES ASSUME limit = -1 PROVE \A j \in 1 .. Len(st) : st[j].n = -1 /\ st[j].sent_f = 0
        BY <2>10 DEF Unlimited
    <3> QED
        BY <2>2, <2>7
  <2>14. FirstOnes(st, sent)
    <3>1. Len(sent) >= limit => \A k \in 1 .. limit : FALSE
        BY <1>1
    <3>2. Len(sent) < limit => \A j \in 1 .. Len(st) : st[j].n >= 1
        BY <1>1, <2>2, <2>7
    <3>3. st[1].n - st[1].sent_f >= limit - Len(sent)
        BY <1>1, <2>12
    <3> QED
        BY <2>10, <3>1, <3>2, <3>3 DEF FirstOnes
  <2>15. Exactly(st, sent)
    <3>1. AtMost \in Int /\ AtMost >= 0 /\ AtMost >= limit
        BY <1>1 DEF AtMost
    <3>2. limit - Len(sent) <= st[1].n - st[1].sent_f /\ st[1].n - st[1].sent_f <= AtMost - Len(sent) /\ Len(sent) <= AtMost
        BY <1>1, <2>12, <3>1
    <3>3. \A j \in 1 .. Len(st) : st[j].sent_f >= 0 /\ st[j].n = limit /\ ~(st[j].sent_f > 0)
        BY <2>2, <2>7
    <3> QED
        BY <2>10, <3>2, <3>3 DEF Exactly, OnCount
  <2> QED
      BY <1>1, <1>2, <2>9, <2>13, <2>14, <2>15 DEF WalkInv, st, f
<1>3. CASE (Last(asked).word \notin DOMAIN DirectoryOf \/ root \in unreadable) /\ stack = <<>>
  <2>1. walk = <<>>
      BY <1>3, TreeWalkType
  <2>2. Faithful(<<>>, sent)
    <3> DEFINE rems == [j \in 1 .. 1 |-> <<>>]
               e == <<>>
    <3>1. rems[1] = e /\ rems \in [1 .. 1 -> Seq(Places)] /\ e \in Seq(Places)
        OBVIOUS
    <3>2. sent = e /\ walk = e
        BY <1>1, <2>1
    <3> HIDE DEF rems, e
    <3>3. Len(<<>>) + 1 = 1
        BY NoFrames
    <3>4. e \o e = e
        BY <3>1, ConcatEmptySeq DEF e
    <3>5. Remains(rems, <<>>)
        BY <3>1, <3>3, NoFrames DEF Remains, e
    <3> QED
        BY <3>1, <3>2, <3>4, <3>5 DEF Faithful
  <2>3. Unlimited(<<>>, sent)
      BY <2>2, NoFrames DEF Unlimited
  <2>4. FirstOnes(<<>>, sent)
    <3>1. Len(sent) >= limit => \A k \in 1 .. limit : FALSE
        BY <1>1
    <3> QED
        BY <2>2, <3>1, NoFrames DEF FirstOnes
  <2>5. Exactly(<<>>, sent)
    <3>1. Len(sent) <= AtMost
        BY <1>1 DEF AtMost
    <3> QED
        BY <2>2, <3>1, NoFrames DEF Exactly, OnCount
  <2> QED
      BY <1>1, <1>3, <2>3, <2>4, <2>5, NoFrames DEF WalkInv
<1> QED
    BY <1>2, <1>3 DEF Started

(* Init is a tree and no command.                                          *)
LEMMA SendInit == ArgsInit => SendInv
<1> SUFFICES ASSUME NEW c \in Cases, ArgsStart(c) PROVE SendInv
    BY DEF ArgsInit
<1>1. Tree
    BY CommandLineAssumption DEF ArgsStart, Tree
<1>2. asked = <<>> /\ stack = <<>>
    BY DEF ArgsStart
<1> QED
    BY <1>1, <1>2 DEF SendInv, Sending

(* What is said of a walk is a matter of the tree, the command, the calls  *)
(* and the files sent.                                                     *)
LEMMA VisitsKept ==
    ASSUME contents' = contents, unreadable' = unreadable
    PROVE  visits' = visits /\ Tree' = Tree
<1>1. visits' = visits
    BY DEF visits, entryAt
<1>2. Tree' = Tree
    BY DEF Tree, Nested
<1> QED
    BY <1>1, <1>2

(* So an invariant of new frames and files is one of the next state.       *)
LEMMA WalkKept ==
    ASSUME contents' = contents, unreadable' = unreadable, asked' = asked, WalkInv(stack', sent')
    PROVE  WalkInv(stack, sent)'
<1>1. visits' = visits
    BY VisitsKept
<1>2. walk' = walk /\ limit' = limit /\ root' = root
    BY <1>1 DEF walk, limit, root
<1>3. FramesOK(stack') => FramesOK(stack)'
    BY DEF FramesOK, Framed, CalledBy, Ranks, root
<1>4. Unlimited(stack', sent') => Unlimited(stack, sent)'
    BY <1>1, <1>2 DEF Unlimited, Faithful, Remains
<1>5. FirstOnes(stack', sent') => FirstOnes(stack, sent)'
    BY <1>1, <1>2 DEF FirstOnes, Faithful, Remains
<1>6. Exactly(stack', sent') => Exactly(stack, sent)'
    BY <1>1, <1>2 DEF Exactly, Faithful, Remains, OnCount, Forgotten, Early, Late, AtMost, FilesFrom
<1>7. (sent \in Seq(Places) /\ walk \in Seq(Places) /\ limit \in Int)'
    BY <1>2 DEF WalkInv
<1> QED
    BY <1>3, <1>4, <1>5, <1>6, <1>7 DEF WalkInv

(* Whatever leaves the walk alone.                                         *)
LEMMA SendSame ==
    ASSUME SendInv, UNCHANGED <<contents, unreadable, asked, stack, sent>>
    PROVE  SendInv'
<1>1. Tree'
    BY VisitsKept DEF SendInv
<1>2. Sending' = Sending
    BY DEF Sending
<1>3. Sending => WalkInv(stack', sent')
    BY DEF SendInv
<1>4. Sending => WalkInv(stack, sent)'
    BY <1>3, WalkKept
<1>5. stack' # <<>> => Sending
    BY DEF SendInv
<1> QED
    BY <1>1, <1>2, <1>4, <1>5 DEF SendInv

(* A command that sends no directory.                                      *)
LEMMA RunKeeps ==
    ASSUME SendInv, asked \in Seq(Requests), asked' \in Seq(Requests), stack = <<>>, UNCHANGED <<contents, unreadable>>,
           NEW last, NEW f \in {"nothing", "readFileList", "writeFileList", "removeFileList", "readNFiles"},
           NEW w, NEW n, NEW calls, Runs(last, f, w, n, calls)
    PROVE  SendInv'
<1>1. CASE f = "nothing"
    BY <1>1, SendSame DEF Runs
<1>2. CASE f # "nothing"
  <2> DEFINE r == [at |-> i, run |-> f, word |-> w, n |-> n]
  <2>1. asked' = Append(asked, r) /\ stack' = <<>>
      BY <1>2 DEF Runs
  <2>2. r.run = f /\ f # "sendFilesDirectory"
      BY <1>2
  <2> HIDE DEF r
  <2>3. Last(asked') = r
    <3>1. Len(asked') = Len(asked) + 1 /\ asked'[Len(asked) + 1] = r
        BY <2>1
    <3> QED
        BY <3>1 DEF Last
  <2>4. ~Sending'
      BY <2>2, <2>3 DEF Sending
  <2>5. Tree'
      BY VisitsKept DEF SendInv
  <2> QED
      BY <2>1, <2>4, <2>5 DEF SendInv
<1> QED
    BY <1>1, <1>2

(* The commands but -w.                                                    *)
LEMMA LaunchKeeps ==
    ASSUME SendInv, asked \in Seq(Requests), asked' \in Seq(Requests), stack = <<>>, UNCHANGED <<contents, unreadable>>,
           CommandRead \/ CommandReadN \/ CommandWrite \/ CommandRemove \/ CommandOther \/ (\E last : NotLaunched(last))
    PROVE  SendInv'
<1>1. \A last : NotLaunched(last) => SendInv'
    BY RunKeeps DEF NotLaunched
<1>2. CASE CommandRead
  <2>1. (\E last : NotLaunched(last)) \/ (\E last : readFileList(last))
      BY <1>2 DEF CommandRead
  <2>2. \A last : readFileList(last) => SendInv'
      BY RunKeeps DEF readFileList
  <2> QED
      BY <1>1, <2>1, <2>2
<1>3. CASE CommandReadN
  <2>1. (\E last : NotLaunched(last)) \/ (\E last : readNFiles(last))
      BY <1>3 DEF CommandReadN
  <2>2. \A last : readNFiles(last) => SendInv'
      BY RunKeeps DEF readNFiles
  <2> QED
      BY <1>1, <2>1, <2>2
<1>4. CASE CommandWrite
    BY <1>1, <1>4, RunKeeps DEF CommandWrite
<1>5. CASE CommandRemove
    BY <1>1, <1>5, RunKeeps DEF CommandRemove
<1>6. CASE CommandOther
    BY <1>1, <1>6 DEF CommandOther
<1> QED
    BY <1>1, <1>2, <1>3, <1>4, <1>5, <1>6

(* -w starts a walk.                                                       *)
LEMMA SendStarts ==
    ASSUME SendInv, asked \in Seq(Requests), asked' \in Seq(Requests), stack = <<>>, UNCHANGED <<contents, unreadable>>,
           CommandSend
    PROVE  SendInv'
<1> DEFINE k == withNumber
           n == IF validNumParam(i + 1) = 0 THEN -1 ELSE validNumParam(i + 1)
<1>1. CASE ~validFileParam(k + 1)
  <2>1. NotLaunched(k)
      BY <1>1 DEF CommandSend
  <2> QED
      BY <2>1, LaunchKeeps
<1>2. CASE validFileParam(k + 1)
  <2> DEFINE r == [at |-> i, run |-> "sendFilesDirectory", word |-> argv[k + 1], n |-> n]
  <2>1. /\ asked' = Append(asked, r) /\ sent' = <<>>
        /\ stack' = IF checkDir(k + 1) /\ DirectoryOf[argv[k + 1]] \notin unreadable
                    THEN <<Frame(DirectoryOf[argv[k + 1]], n)>> ELSE <<>>
      BY <1>2 DEF CommandSend
  <2>2. r.run = "sendFilesDirectory" /\ r.word = argv[k + 1] /\ r.n = n
      OBVIOUS
  <2> HIDE DEF r
  <2>3. Last(asked') = r /\ asked' # <<>> /\ r \in Requests
    <3>1. Len(asked') = Len(asked) + 1 /\ asked'[Len(asked) + 1] = r /\ Len(asked) \in Nat
        BY <2>1
    <3>2. Len(asked) + 1 \in 1 .. Len(asked')
        BY <3>1
    <3>3. asked'[Len(asked) + 1] \in Requests
        BY <3>2
    <3> QED
        BY <3>1, <3>3 DEF Last
  <2>4. limit' = n /\ root' = DirectoryOf[argv[k + 1]] /\ n \in Int /\ Last(asked').word = argv[k + 1]
    <3>1. r.n \in Int
        BY <2>3 DEF Requests
    <3> QED
        BY <2>2, <2>3, <3>1 DEF limit, root
  <2> HIDE DEF n, k
  <2>5. Started'
      BY <2>1, <2>4 DEF Started, checkDir, Frame
  <2>6. Tree'
      BY VisitsKept DEF SendInv
  <2>7. WalkInv(stack, sent)'
      BY <2>5, <2>6, StartedWalk, PTL
  <2>8. Sending'
      BY <2>2, <2>3 DEF Sending
  <2> QED
      BY <2>6, <2>7, <2>8 DEF SendInv
<1> QED
    BY <1>1, <1>2

(* SendInv is inductive, given AskedInv.                                   *)
LEMMA SendingStep == AskedInv /\ AskedInv' /\ SendInv /\ [ArgsNext]_argVars => SendInv'
<1> SUFFICES ASSUME AskedInv, AskedInv', SendInv, [ArgsNext]_argVars PROVE SendInv'
    OBVIOUS
<1>0. asked \in Seq(Requests) /\ asked' \in Seq(Requests)
    BY DEF AskedInv
<1>1. CASE ReadConnection
    BY <1>1, SendSame DEF ReadConnection, environment
<1>2. CASE Commands
    BY <1>0, <1>2, LaunchKeeps, SendStarts DEF Commands, environment
<1>3. CASE sendFilesDirectory
  <2>1. UNCHANGED <<contents, unreadable, asked>> /\ stack # <<>>
      BY <1>3 DEF sendFilesDirectory, environment
  <2>2. Sending /\ Tree /\ WalkInv(stack, sent)
      BY <2>1 DEF SendInv
  <2>3. WalkInv(stack', sent')
      BY <1>3, <2>2, WalkStep
  <2>4. WalkInv(stack, sent)'
      BY <2>1, <2>3, WalkKept
  <2>5. Tree' /\ Sending'
      BY <2>1, <2>2, VisitsKept DEF Sending
  <2> QED
      BY <2>4, <2>5 DEF SendInv
<1>4. CASE ApiCall
    BY <1>4, SendSame DEF ApiCall, environment
<1>5. CASE closeConnection
    BY <1>5, SendSame DEF closeConnection, environment
<1>6. CASE UNCHANGED argVars
    BY <1>6, SendSame DEF argVars
<1> QED
    BY <1>1, <1>2, <1>3, <1>4, <1>5, <1>6 DEF ArgsNext

(* Between two commands nothing of the last walk is left to do.            *)
LEMMA WalkDone ==
    ASSUME Tree, WalkInv(<<>>, sent)
    PROVE  Faithful(<<>>, sent) => sent = walk
<1> SUFFICES ASSUME Faithful(<<>>, sent) PROVE sent = walk
    OBVIOUS
<1>1. PICK rems : Remains(rems, <<>>) /\ sent \o rems[1] = walk
    BY DEF Faithful
<1>2. rems[1] = <<>>
  <2>1. Len(<<>>) + 1 = 1
      BY NoFrames
  <2> QED
      BY <1>1, <2>1 DEF Remains
<1>3. sent \o <<>> = sent
    BY ConcatEmptySeq DEF WalkInv
<1> QED
    BY <1>1, <1>2, <1>3

(* A beginning is a prefix.                                                *)
LEMMA PrefixIs ==
    ASSUME NEW S, NEW s \in Seq(S), NEW t \in Seq(S), NEW m \in Nat, m <= Len(s), m <= Len(t),
           \A k \in 1 .. m : t[k] = s[k]
    PROVE  IsPrefix(SubSeq(s, 1, m), t)
<1> DEFINE u == SubSeq(s, 1, m)
           v == SubSeq(t, 1, m)
<1>1. Len(u) = m /\ Len(v) = m /\ u \in Seq(S) /\ v \in Seq(S)
    OBVIOUS
<1>2. \A k \in 1 .. m : u[k] = s[k] /\ v[k] = t[k]
    OBVIOUS
<1>3. u = v
  <2> HIDE DEF u, v
  <2>1. \A k \in 1 .. m : u[k] = v[k]
      BY <1>2
  <2> QED
      BY <1>1, <2>1
<1> QED
    BY <1>1, <1>3 DEF IsPrefix

(* A set of two is finite.                                                 *)
LEMMA PairFinite ==
    ASSUME NEW x, NEW y
    PROVE  IsFiniteSet({x, y})
<1>1. IsFiniteSet({x} \cup {y})
    BY FS_Singleton, FS_Union
<1>2. {x, y} = {x} \cup {y}
    OBVIOUS
<1> QED
    BY <1>1, <1>2

(* What the invariant says of a walk that is over.                         *)
LEMMA LimitKept == SendInv => SendsToTheLimit
<1> SUFFICES ASSUME SendInv, finished PROVE SendsToTheLimit
    BY DEF SendsToTheLimit
<1>1. Tree /\ Sending /\ WalkInv(<<>>, sent)
    BY DEF SendInv, Sending, finished
<1>2. sent \in Seq(Places) /\ walk \in Seq(Places) /\ limit \in Int /\ Len(sent) \in Nat /\ Len(walk) \in Nat
    BY <1>1 DEF WalkInv
<1>3. ASSUME limit = -1, unreadable = {} PROVE sent = walk
    BY <1>1, <1>3, WalkDone DEF WalkInv, Unlimited
<1>4. ASSUME limit # -1 PROVE IsPrefix(SubSeq(walk, 1, Min({limit, Len(walk)})), sent)
  <2> DEFINE m == Min({limit, Len(walk)})
  <2>1. m \in {limit, Len(walk)} /\ m <= limit /\ m <= Len(walk)
    <3>1. {limit, Len(walk)} \in SUBSET Int /\ IsFiniteSet({limit, Len(walk)}) /\ {limit, Len(walk)} # {}
      <4>1. IsFiniteSet({limit, Len(walk)})
          BY PairFinite
      <4> QED
          BY <1>2, <4>1
    <3> QED
        BY <3>1, MinIsMember
  <2> HIDE DEF m
  <2>2. CASE Len(sent) < limit
    <3>1. sent = walk
        BY <1>1, <1>4, <2>2, WalkDone DEF WalkInv, FirstOnes
    <3>2. m \in Nat /\ m <= Len(sent)
        BY <1>2, <2>1, <2>2, <3>1
    <3> QED
        BY <1>2, <2>1, <3>1, <3>2, PrefixIs DEF m
  <2>3. CASE Len(sent) >= limit /\ m \in Nat
    <3>1. \A k \in 1 .. limit : k \in 1 .. Len(walk) /\ sent[k] = walk[k]
        BY <1>1, <1>4, <2>3 DEF WalkInv, FirstOnes
    <3>2. m <= Len(sent) /\ \A k \in 1 .. m : k \in 1 .. limit
        BY <1>2, <2>1, <2>3
    <3>3. \A k \in 1 .. m : sent[k] = walk[k]
        BY <3>1, <3>2
    <3> QED
        BY <1>2, <2>1, <2>3, <3>2, <3>3, PrefixIs DEF m
  <2>4. CASE m \notin Nat
    <3> DEFINE u == SubSeq(walk, 1, m)
    <3>1. m \in Int /\ m < 0
        BY <1>2, <2>1, <2>4
    <3>2. u = <<>>
        BY <1>2, <3>1
    <3> HIDE DEF u
    <3>3. Len(u) = 0 /\ SubSeq(u, 1, 0) = <<>> /\ SubSeq(sent, 1, 0) = <<>>
        BY <1>2, <3>2
    <3>4. IsPrefix(u, sent)
        BY <1>2, <3>3 DEF IsPrefix
    <3> QED
        BY <3>4 DEF u, m
  <2> QED
      BY <1>2, <2>2, <2>3, <2>4
<1>5. ASSUME limit # -1, unreadable = {}, ~(Len(sent) <= Max({limit, 0})) PROVE Forgets
  <2>1. Max({limit, 0}) = AtMost
    <3>1. {limit, 0} \in SUBSET Int /\ IsFiniteSet({limit, 0}) /\ {limit, 0} # {}
      <4>1. IsFiniteSet({limit, 0})
          BY PairFinite
      <4> QED
          BY <1>2, <4>1
    <3>2. Max({limit, 0}) \in {limit, 0} /\ limit <= Max({limit, 0}) /\ 0 <= Max({limit, 0})
        BY <3>1, MaxIsMember
    <3> QED
        BY <1>2, <3>2 DEF AtMost
  <2>2. ~OnCount(<<>>, sent)
    <3>1. AtMost \in Int
        BY <1>2 DEF AtMost
    <3> QED
        BY <1>2, <1>5, <2>1, <3>1 DEF OnCount
  <2>3. Forgotten
      BY <1>1, <1>5, <2>2 DEF WalkInv, Exactly
  <2>4. PICK d \in Directories : d # root /\ Early(d) /\ \E x \in FilesFrom(<<d, 1>>) : Late(x)
      BY <2>3 DEF Forgotten
  <2>5. PICK j \in 1 .. Len(walk) : j <= limit /\ walk[j] \in FilesFrom(<<d, 1>>)
      BY <2>4 DEF Early
  <2>6. PICK k \in 1 .. Len(walk) : k > limit /\ walk[k] \in FilesFrom(<<d, 1>>)
      BY <2>4 DEF Late
  <2>7. DOMAIN walk = 1 .. Len(walk)
      BY <1>2
  <2>8. forgets(d)
      BY <2>5, <2>6, <2>7 DEF forgets, within, FilesFrom
  <2>9. Last(asked).word \in DOMAIN DirectoryOf
    <3> SUFFICES ASSUME Last(asked).word \notin DOMAIN DirectoryOf PROVE FALSE
        OBVIOUS
    <3>1. walk = <<>>
        BY DEF walk
    <3> QED
        BY <2>5, <3>1
  <2> QED
      BY <2>4, <2>8, <2>9 DEF root, Forgets
<1> QED
    BY <1>3, <1>4, <1>5 DEF SendsToTheLimit

(* Whatever tree of directories it walks through, -w sends the first n     *)
(* files, and more only where it forgets what it sent: SendsToTheLimit.    *)
THEOREM SendsTheFirst == ArgsSpec => []SendsToTheLimit
    BY LimitKept, AskedInit, AskedStep, SendInit, SendingStep, PTL DEF ArgsSpec

=============================================================================
