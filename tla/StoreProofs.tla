----------------------------- MODULE StoreProofs -----------------------------
(***************************************************************************)
(* Theorems about the store for every number of clients, names, records    *)
(* and pages, every limit c_file_max, and every set and number of calls:   *)
(* first types, locks, pages, contents and opens, then the records and     *)
(* their names: which record a handler works on, and which record a        *)
(* removal or an eviction takes out of the table; and that the handlers    *)
(* implement the store of FileStore.                                       *)
(*                                                                         *)
(* The invariants of the table come in layers, each inductive given those  *)
(* before it:                                                              *)
(*   Requests    what a handler at a point was asked for, and which record *)
(*               it works on; for all sets of calls                        *)
(*   Entries     the records of the table are allocated, each once; for    *)
(*               all sets of calls                                         *)
(*   Unique      of two records in the table none shares its name, given   *)
(*               OneCreator                                                *)
(*   Unlinked    a record out of the table is in the hands of one handler, *)
(*               and nobody unlinks another one in its place, given        *)
(*               OneCreator and TwoHands                                   *)
(***************************************************************************)
EXTENDS StoreProperties, Lemmas

-----------------------------------------------------------------------------
(* The operators of FileMemory.                                            *)

(* A search of the table returns a record or NULL, and names the position  *)
(* of a record with that name.                                             *)
LEMMA SearchType ==
    ASSUME NEW n, table \in Seq(FileIds)
    PROVE  /\ hashTbSearch(n) \in FileIds \cup {NULL}
           /\ hashTbRemove(n) \in Seq(FileIds)
<1>1. hashEntries(n) \in SUBSET Int /\ hashEntries(n) \subseteq 1 .. Len(table)
    BY DEF hashEntries
<1>4. IsFiniteSet(hashEntries(n))
  <2>1. IsFiniteSet(1 .. Len(table))
      BY LenProperties, FS_Interval
  <2> QED
      BY <1>1, <2>1, FS_Subset
<1>2. CASE hashEntries(n) = {}
    BY <1>2 DEF hashTbSearch, hashTbRemove
<1>3. CASE hashEntries(n) # {}
  <2>1. Min(hashEntries(n)) \in 1 .. Len(table)
      BY <1>1, <1>4, <1>3, MinIsMember
  <2> QED
      BY <1>3, <2>1, ElementOfSeq, RemoveAtType DEF hashTbSearch, hashTbRemove
<1> QED
    BY <1>2, <1>3

(* When fileStackGetTop meets no fault its victim lies below top.          *)
LEMMA VictimBelowTop ==
    ASSUME NEW key, top \in Nat, topFault(key) = "none"
    PROVE  victimIndex(key) \in 0 .. top - 1
<1>1. candidates(key) # {} /\ candidates(key) \in SUBSET Int
    BY DEF topFault, candidates
<1>2. \A i \in candidates(key) : i \in 0 .. top - 1
    BY DEF candidates
<1>3. Max(candidates(key)) \in candidates(key)
  <2>1. IsFiniteSet(0 .. top - 1)
      BY FS_Interval
  <2>2. candidates(key) \in SUBSET (0 .. top - 1)
      BY <1>2
  <2>3. IsFiniteSet(candidates(key))
      BY <2>1, <2>2, FS_Subset
  <2> QED
      BY <1>1, <2>3, MaxIsMember
<1> QED
    BY <1>2, <1>3 DEF victimIndex

(* fileStackDefrag leaves an array of names and a top inside it.           *)
LEMMA DefragType ==
    ASSUME c_file_max \in Nat \ {0},
           stack \in [0 .. StackMax - 1 -> Names \cup {NULL}],
           fileStackDefrag
    PROVE  /\ stack' \in [0 .. StackMax - 1 -> Names \cup {NULL}]
           /\ top' \in 0 .. StackMax
<1>1. StackMax \in Nat /\ DOMAIN stack = 0 .. StackMax - 1
    BY DEF StackMax
<1>2. kept \subseteq 0 .. StackMax - 1
    BY <1>1 DEF kept
<1>3. stack' \in [0 .. StackMax - 1 -> Names \cup {NULL}]
  <2> DEFINE last(k) == Cardinality({ j \in kept : j < k })
  <2>1. \A i : (\E k \in kept : last(k) = i) => (CHOOSE k \in kept : last(k) = i) \in kept
      OBVIOUS
  <2>2. \A i : (\E k \in kept : last(k) = i) =>
            stack[CHOOSE k \in kept : last(k) = i] \in Names \cup {NULL}
      BY <1>2, <2>1
  <2>3. stack' = [i \in DOMAIN stack |->
                    IF \E k \in kept : last(k) = i
                    THEN stack[CHOOSE k \in kept : last(k) = i] ELSE NULL]
      BY DEF fileStackDefrag
  <2> HIDE DEF last
  <2> QED
      BY <1>1, <2>2, <2>3
<1>4. top' \in 0 .. StackMax
  <2>1. IsFiniteSet(0 .. StackMax - 1) /\ Cardinality(0 .. StackMax - 1) = StackMax
      BY <1>1, FS_Interval
  <2>2. IsFiniteSet(kept) /\ Cardinality(kept) =< StackMax
      BY <1>2, <2>1, FS_Subset
  <2>3. Cardinality(kept) \in Nat
      BY <2>2, FS_CardinalityType
  <2> QED
      BY <1>1, <2>2, <2>3 DEF fileStackDefrag
<1> QED
    BY <1>3, <1>4

-----------------------------------------------------------------------------
(* Type correctness.                                                       *)

(* The call of an idle client is a call.                                   *)
LEMMA NoCallType == NoCall \in Call
    BY DEF NoCall, Call, Ops

(* The named sets of points are sets of labels.                            *)
LEMMA LabelTypes ==
    {"openAdd", "closeDel", "openCheck", "refuse", "sendLock", "writeLock", "appendLock",
     "deleteLock", "freeOwn", "nameLock", "lockVictim", "freeVictim", "fileN", "pageGet",
     "evict", "decrease", "stackAdd", "selfLock", "appendEnd", "idle", "fileSearch",
     "fileInit", "lookup", "sendUnlock", "defrag", "copy", "readTop", "nextFile"} = Labels
    BY DEF Labels, UsesPtr, UsesVictim, Writing

(* A handler that returns leaves well-typed local variables.               *)
LEMMA ReturnType ==
    ASSUME LocalTypeOK, NEW c \in Clients, Return(c)
    PROVE  LocalTypeOK'
<1>1. NoCall \in Call /\ "idle" \in Labels /\ <<>> \in Seq(Names)
    BY NoCallType, LabelTypes, EmptySeq
<1> QED
    BY <1>1 DEF LocalTypeOK, Return

(* So does one that goes on to another label.                              *)
LEMMA GotoType ==
    ASSUME LocalTypeOK, NEW c \in Clients, NEW l \in Labels, Goto(c, l)
    PROVE  /\ pc' \in [Clients -> Labels]
           /\ UNCHANGED localVars => LocalTypeOK'
    BY DEF LocalTypeOK, Goto, localVars

(* The store of memorySetup is well typed.                                 *)
LEMMA TypeInit == Init => TypeOK
<1> SUFFICES ASSUME Init PROVE TypeOK
    OBVIOUS
<1>1. StackMax \in Nat
    BY FileMemoryAssumption DEF StackMax
<1>2. <<>> \in Seq(FileIds) /\ <<>> \in Seq(Names)
    BY EmptySeq
<1>3. StoreTypeOK
    BY <1>1, <1>2 DEF Init, StoreInit, StoreTypeOK, Owner
<1>4. LocalTypeOK
    BY <1>2, NoCallType, LabelTypes DEF Init, LocalTypeOK
<1> QED
    BY <1>3, <1>4 DEF TypeOK

(* fileFree returns pages and clears the record, within their types.       *)
LEMMA FreeType ==
    ASSUME StoreTypeOK, NEW f \in FileIds, fileFree(f)
    PROVE  /\ freePages' \subseteq Pages
           /\ heap' \in [FileIds -> {"free", "live"}]
           /\ abspath' \in [FileIds -> Names \cup {NULL}]
           /\ size' \in [FileIds -> Nat]
           /\ pages' \in [FileIds -> SUBSET Pages]
           /\ opened' \in [FileIds -> [Clients -> Nat]]
           /\ mutex' \in [FileIds -> Owner]
<1>1. pages[f] \subseteq Pages
    BY DEF StoreTypeOK
<1>2. [c \in Clients |-> 0] \in [Clients -> Nat]
    OBVIOUS
<1> QED
    BY <1>1, <1>2 DEF StoreTypeOK, fileFree, released

(* The faults that change nothing but the status, and a handler in terms   *)
(* of them.                                                                *)
Faults(c) == Stops(c) \/ freeListed(c)

LEMMA HandlerIs ==
    ASSUME NEW c \in Clients
    PROVE  Handler(c) <=> \/ OpenCalls(c) \/ ReadCalls(c) \/ WriteCalls(c) \/ Evictions(c)
                          \/ Faults(c) \/ freeLocked(c)
<1>1. freeListed(c) => Contains(table, Dereferenced(c))
    BY DEF freeListed, freeFault
<1>2. freeLocked(c) => ~Contains(table, Dereferenced(c))
    BY DEF freeLocked, freeFault
<1>3. FreeFault(c) <=> freeListed(c) \/ freeLocked(c)
    BY <1>1, <1>2 DEF FreeFault
<1> QED
    BY <1>3 DEF Handler, Faults

(* A record freed under another handler's lock is out of the table and in  *)
(* the hands of the handler that frees it; nothing else changes.           *)
LEMMA FreeLockedIs ==
    ASSUME LockDiscipline, NEW c \in Clients, freeLocked(c)
    PROVE  /\ status = "running" /\ status' = "destroyLocked"
           /\ UNCHANGED <<table, stack, top, file_n, mutex, filestack_mutex, file_n_mutex,
                          pc, call, ptr, victim, batch, want, seen, calls>>
           /\ \E f \in FileIds :
                 /\ \/ pc[c] = "freeVictim" /\ victim[c] = f
                    \/ pc[c] = "freeOwn" /\ ptr[c] = f
                 /\ heap[f] = "live" /\ ~Contains(table, f) /\ mutex[f] # NULL
                 /\ fileFree(f)
<1>1. /\ status = "running" /\ status' = "destroyLocked"
      /\ pc[c] \in {"freeVictim", "freeOwn"}
      /\ heap[Dereferenced(c)] = "live"
      /\ freeFault(Dereferenced(c)) = "destroyLocked"
      /\ fileFree(Dereferenced(c))
      /\ UNCHANGED <<table, stack, top, file_n, lockVars, pc, localVars>>
    BY DEF freeLocked
<1>2. /\ Dereferenced(c) \in FileIds
      /\ \/ pc[c] = "freeVictim" /\ victim[c] = Dereferenced(c)
         \/ pc[c] = "freeOwn" /\ ptr[c] = Dereferenced(c)
    BY <1>1 DEF Dereferenced, UsesVictim, LockDiscipline
<1>3. ~Contains(table, Dereferenced(c)) /\ mutex[Dereferenced(c)] # NULL
    BY <1>1 DEF freeFault
<1> QED
    BY <1>1, <1>2, <1>3 DEF fileFree, lockVars, localVars, workVars

(* Taking a victim lowers top or leaves it, and makes a hole.              *)
LEMMA TakeType ==
    ASSUME StoreTypeOK, c_file_max \in Nat \ {0}, NEW key, topFault(key) = "none", fileStackTake(key)
    PROVE  /\ stack' \in [0 .. StackMax - 1 -> Names \cup {NULL}]
           /\ top' \in 0 .. StackMax
<1>1. StackMax \in Nat /\ top \in 0 .. StackMax /\ top \in Nat
    BY DEF StackMax, StoreTypeOK
<1>2. victimIndex(key) \in 0 .. top - 1
    BY <1>1, VictimBelowTop
<1> QED
    BY <1>1, <1>2 DEF fileStackTake, StoreTypeOK

(* Every step of every handler keeps the types, given who owns which mutex.*)
LEMMA TypeStep == TypeOK /\ LockDiscipline /\ [Next]_vars => TypeOK'
<1> SUFFICES ASSUME TypeOK, LockDiscipline, [Next]_vars PROVE TypeOK'
    OBVIOUS
<1> USE FileMemoryAssumption, WorkerAssumption
<1> USE DEF TypeOK
<1>1. ASSUME NEW c \in Clients, Request(c) PROVE TypeOK'
  <2>1. StoreTypeOK'
      BY <1>1
        DEF Request, CanLock, StoreTypeOK, LocalTypeOK, Owner, storeVars, listVars,
            fileVars, lockVars
  <2>2. LocalTypeOK'
      BY <1>1, ReturnType, GotoType, LabelTypes
        DEF Request, LocalTypeOK, localVars, workVars
  <2> QED
      BY <2>1, <2>2
<1>2. ASSUME NEW c \in Clients, fileSearch(c) PROVE TypeOK'
  <2>1. StoreTypeOK'
      BY <1>2
        DEF fileSearch, CanLock, StoreTypeOK, LocalTypeOK, Owner, storeVars,
            listVars, fileVars, lockVars
  <2>2. LocalTypeOK'
      BY <1>2, ReturnType, GotoType, LabelTypes
        DEF fileSearch, LocalTypeOK, localVars, workVars
  <2> QED
      BY <2>1, <2>2
<1>3. ASSUME NEW c \in Clients, fileInit(c) PROVE TypeOK'
  <2>1. StoreTypeOK'
    <3>1. PICK f \in FileIds : fileInit(c)!2!(f)
        BY <1>3 DEF fileInit
    <3>2. table' \in Seq(FileIds)
      <4>1. <<f>> \in Seq(FileIds) /\ table \in Seq(FileIds)
          BY DEF StoreTypeOK
      <4> QED
          BY <3>1, <4>1, ConcatProperties
    <3>3. call[c].name \in Names \cup {NULL}
        BY DEF LocalTypeOK, Call
    <3>4. UNCHANGED <<stack, top, freePages, file_n, lockVars, status>>
        BY <1>3 DEF fileInit
    <3>5. /\ heap' \in [FileIds -> {"free", "live"}]
          /\ abspath' \in [FileIds -> Names \cup {NULL}]
          /\ size' \in [FileIds -> Nat]
          /\ pages' \in [FileIds -> SUBSET Pages]
          /\ mutex' \in [FileIds -> Owner]
        BY <3>1, <3>3 DEF StoreTypeOK, Owner
    <3>6. opened' \in [FileIds -> [Clients -> Nat]]
      <4>1. [d \in Clients |-> 0] \in [Clients -> Nat]
          OBVIOUS
      <4> QED
          BY <3>1, <4>1 DEF StoreTypeOK
    <3> QED
        BY <3>2, <3>4, <3>5, <3>6 DEF StoreTypeOK, lockVars
  <2>2. LocalTypeOK'
      BY <1>3, GotoType, LabelTypes DEF fileInit
  <2> QED
      BY <2>1, <2>2
<1>4. ASSUME NEW c \in Clients, fileSearchSilent(c) PROVE TypeOK'
  <2>1. StoreTypeOK'
      BY <1>4
        DEF fileSearchSilent, CanLock, StoreTypeOK, LocalTypeOK, Owner, storeVars,
            listVars, fileVars, lockVars
  <2>2. LocalTypeOK'
    <3>1. CASE Return(c)
        BY <3>1, ReturnType
    <3>2. CASE ~ Return(c)
      <4>1. ptr' \in [Clients -> FileIds \cup {NULL}]
        <5>1. hashTbSearch(call[c].name) \in FileIds \cup {NULL}
            BY SearchType DEF StoreTypeOK
        <5> QED
            BY <1>4, <3>2, <5>1 DEF fileSearchSilent, LocalTypeOK
      <4>2. \E l \in Labels : Goto(c, l)
          BY <1>4, <3>2, LabelTypes DEF fileSearchSilent
      <4>3. pc' \in [Clients -> Labels]
          BY <4>2, GotoType
      <4> QED
          BY <1>4, <3>2, <4>1, <4>3 DEF fileSearchSilent, LocalTypeOK, workVars
    <3> QED
        BY <3>1, <3>2
  <2> QED
      BY <2>1, <2>2
<1>5. ASSUME NEW c \in Clients, fileOpen(c) PROVE TypeOK'
  <2>1. StoreTypeOK'
    <3>1. ptr[c] \in FileIds
        BY <1>5 DEF fileOpen, CanLock
    <3>2. opened' \in [FileIds -> [Clients -> Nat]]
        BY <1>5, <3>1 DEF fileOpen, StoreTypeOK
    <3> QED
        BY <1>5, <3>2 DEF fileOpen, StoreTypeOK, listVars, lockVars
  <2>2. LocalTypeOK'
      BY <1>5, ReturnType DEF fileOpen
  <2> QED
      BY <2>1, <2>2
<1>6. ASSUME NEW c \in Clients, fileClose(c) PROVE TypeOK'
  <2>1. StoreTypeOK'
    <3>1. ptr[c] \in FileIds
        BY <1>6 DEF fileClose, CanLock
    <3>2. opened' \in [FileIds -> [Clients -> Nat]]
        BY <1>6, <3>1 DEF fileClose, clientPidDelete, StoreTypeOK
    <3> QED
        BY <1>6, <3>2 DEF fileClose, StoreTypeOK, listVars, lockVars
  <2>2. LocalTypeOK'
      BY <1>6, ReturnType DEF fileClose
  <2> QED
      BY <2>1, <2>2
<1>7. ASSUME NEW c \in Clients, fileOpenCheck(c) PROVE TypeOK'
  <2>1. StoreTypeOK'
      BY <1>7
        DEF fileOpenCheck, hasOpen, CanLock, StoreTypeOK, LocalTypeOK, Owner, storeVars,
            listVars, fileVars, lockVars
  <2>2. LocalTypeOK'
      BY <1>7, ReturnType, GotoType, LabelTypes
        DEF fileOpenCheck, hasOpen, LocalTypeOK, localVars, workVars
  <2> QED
      BY <2>1, <2>2
<1>8. ASSUME NEW c \in Clients, Refuse(c) PROVE TypeOK'
  <2>1. StoreTypeOK'
      BY <1>8
        DEF Refuse, CanLock, StoreTypeOK, LocalTypeOK, Owner, storeVars, listVars,
            fileVars, lockVars
  <2>2. LocalTypeOK'
      BY <1>8, ReturnType DEF Refuse
  <2> QED
      BY <2>1, <2>2
<1>9. ASSUME NEW c \in Clients, sendFile(c) PROVE TypeOK'
  <2>1. StoreTypeOK'
      BY <1>9
        DEF sendFile, CanLock, StoreTypeOK, LocalTypeOK, Owner, storeVars, listVars,
            fileVars, lockVars
  <2>2. LocalTypeOK'
      BY <1>9, GotoType, LabelTypes DEF sendFile
  <2> QED
      BY <2>1, <2>2
<1>10. ASSUME NEW c \in Clients, sendFileEnd(c) PROVE TypeOK'
  <2>1. StoreTypeOK'
      BY <1>10
        DEF sendFileEnd, CanLock, StoreTypeOK, LocalTypeOK, Owner, storeVars,
            listVars, fileVars, lockVars
  <2>2. LocalTypeOK'
      BY <1>10, ReturnType, GotoType, LabelTypes
        DEF sendFileEnd, LocalTypeOK, localVars, workVars
  <2> QED
      BY <2>1, <2>2
<1>11. ASSUME NEW c \in Clients, fileNRead(c) PROVE TypeOK'
  <2>1. StoreTypeOK'
    <3>1. /\ stack' \in [0 .. StackMax - 1 -> Names \cup {NULL}]
          /\ top' \in 0 .. StackMax
        BY <1>11, DefragType DEF fileNRead, StoreTypeOK
    <3> QED
        BY <1>11, <3>1 DEF fileNRead, StoreTypeOK, fileVars, lockVars
  <2>2. LocalTypeOK'
      BY <1>11, GotoType, LabelTypes DEF fileNRead
  <2> QED
      BY <2>1, <2>2
<1>12. ASSUME NEW c \in Clients, arrayRandomPermutation(c) PROVE TypeOK'
  <2>1. StoreTypeOK'
      BY <1>12
        DEF arrayRandomPermutation, CanLock, StoreTypeOK, LocalTypeOK, Owner,
            storeVars, listVars, fileVars, lockVars
  <2>2. LocalTypeOK'
    <3>1. batch' \in [Clients -> Seq(Names)]
      <4>1. StackMax \in Nat /\ top \in Nat /\ top =< StackMax
          BY DEF StackMax, StoreTypeOK
      <4>2. \A i \in 1 .. top : i - 1 \in 0 .. StackMax - 1 /\ i - 1 \in 0 .. top - 1
          BY <4>1
      <4>3. \A i \in 1 .. top : stack[i - 1] \in Names
          BY <1>12, <4>2 DEF arrayRandomPermutation, StoreTypeOK
      <4>4. [i \in 1 .. top |-> stack[i - 1]] \in Seq(Names)
          BY <4>1, <4>3, SeqDef
      <4> QED
          BY <1>12, <4>4 DEF arrayRandomPermutation, LocalTypeOK
    <3>2. want' \in [Clients -> Int]
        BY <1>12 DEF arrayRandomPermutation, LocalTypeOK, Call
    <3>3. pc' \in [Clients -> Labels]
        BY <1>12, LabelTypes, GotoType DEF arrayRandomPermutation
    <3> QED
        BY <1>12, <3>1, <3>2, <3>3 DEF arrayRandomPermutation, LocalTypeOK
  <2> QED
      BY <2>1, <2>2
<1>13. ASSUME NEW c \in Clients, fileNReadAll(c) PROVE TypeOK'
  <2>1. StoreTypeOK'
      BY <1>13
        DEF fileNReadAll, CanLock, StoreTypeOK, LocalTypeOK, Owner, storeVars,
            listVars, fileVars, lockVars
  <2>2. LocalTypeOK'
    <3>1. top \in Int
        BY DEF StoreTypeOK
    <3>2. pc' \in [Clients -> Labels]
        BY <1>13, LabelTypes, GotoType DEF fileNReadAll
    <3> QED
        BY <1>13, <3>1, <3>2 DEF fileNReadAll, LocalTypeOK
  <2> QED
      BY <2>1, <2>2
<1>14. ASSUME NEW c \in Clients, fileNReadNext(c) PROVE TypeOK'
  <2>1. StoreTypeOK'
      BY <1>14
        DEF fileNReadNext, CanLock, StoreTypeOK, LocalTypeOK, Owner, storeVars,
            listVars, fileVars, lockVars
  <2>2. LocalTypeOK'
    <3>1. CASE Return(c)
        BY <3>1, ReturnType
    <3>2. CASE ~ Return(c)
      <4>1. PICK k \in 1 .. Len(batch[c]) :
                /\ batch' = [batch EXCEPT ![c] = RemoveAt(@, k)]
                /\ ptr' = [ptr EXCEPT ![c] = hashTbSearch(batch[c][k])]
                /\ \E l \in Labels : Goto(c, l)
          BY <1>14, <3>2, LabelTypes DEF fileNReadNext
      <4>2. hashTbSearch(batch[c][k]) \in FileIds \cup {NULL}
          BY SearchType DEF StoreTypeOK
      <4>3. RemoveAt(batch[c], k) \in Seq(Names)
          BY RemoveAtType DEF LocalTypeOK
      <4>4. pc' \in [Clients -> Labels]
          BY <4>1, GotoType
      <4>5. seen' = [seen EXCEPT ![c] = @ + 1] /\ UNCHANGED <<call, victim, want, calls>>
          BY <1>14, <3>2 DEF fileNReadNext
      <4> QED
          BY <4>1, <4>2, <4>3, <4>4, <4>5 DEF LocalTypeOK
    <3> QED
        BY <3>1, <3>2
  <2> QED
      BY <2>1, <2>2
<1>15. ASSUME NEW c \in Clients, fileNReadName(c) PROVE TypeOK'
  <2>1. StoreTypeOK'
      BY <1>15
        DEF fileNReadName, CanLock, StoreTypeOK, LocalTypeOK, Owner, storeVars,
            listVars, fileVars, lockVars
  <2>2. LocalTypeOK'
      BY <1>15, GotoType, LabelTypes DEF fileNReadName
  <2> QED
      BY <2>1, <2>2
<1>16. ASSUME NEW c \in Clients, fileWrite(c) PROVE TypeOK'
  <2>1. StoreTypeOK'
    <3>1. ptr[c] \in FileIds /\ call[c].n \in Nat
        BY <1>16 DEF fileWrite, CanLock, LocalTypeOK, Call
    <3>2. /\ size' = size \/ size' = [size EXCEPT ![ptr[c]] = call[c].n]
          /\ mutex' = mutex \/ mutex' = [mutex EXCEPT ![ptr[c]] = c]
        BY <1>16 DEF fileWrite, refuseWrite
    <3>3. size' \in [FileIds -> Nat]
        BY <3>1, <3>2 DEF StoreTypeOK
    <3>4. mutex' \in [FileIds -> Owner]
        BY <3>2 DEF StoreTypeOK, Owner
    <3> QED
        BY <1>16, <3>3, <3>4 DEF fileWrite, StoreTypeOK, listVars, lockVars
  <2>2. LocalTypeOK'
      BY <1>16, ReturnType, GotoType, LabelTypes DEF fileWrite, refuseWrite
  <2> QED
      BY <2>1, <2>2
<1>17. ASSUME NEW c \in Clients, FileNUpdate(c) PROVE TypeOK'
  <2>1. StoreTypeOK'
      BY SMTT(30), <1>17
        DEF FileNUpdate, CanLock, StoreTypeOK, LocalTypeOK, Owner, storeVars,
            listVars, fileVars, lockVars
  <2>2. LocalTypeOK'
      BY <1>17, GotoType, LabelTypes DEF FileNUpdate
  <2> QED
      BY <2>1, <2>2
<1>18. ASSUME NEW c \in Clients, pageGet(c) PROVE TypeOK'
  <2>1. StoreTypeOK'
    <3>1. ptr[c] \in FileIds
        BY <1>18 DEF pageGet, At, LockDiscipline, Writing
    <3>2. pages[ptr[c]] \subseteq Pages /\ freePages \subseteq Pages
        BY <3>1 DEF StoreTypeOK
    <3>3. /\ freePages' \subseteq freePages
          /\ \/ pages' = pages
             \/ \E p \in freePages : pages' = [pages EXCEPT ![ptr[c]] = @ \cup {p}]
        BY <1>18 DEF pageGet
    <3>4. pages' \in [FileIds -> SUBSET Pages]
      <4>1. \A p \in freePages : pages[ptr[c]] \cup {p} \in SUBSET Pages
          BY <3>2
      <4>2. \/ pages' = pages
            \/ \E P \in SUBSET Pages : pages' = [pages EXCEPT ![ptr[c]] = P]
          BY <3>3, <4>1
      <4> QED
          BY <4>2 DEF StoreTypeOK
    <3> QED
        BY <1>18, <3>2, <3>3, <3>4 DEF pageGet, StoreTypeOK, lockVars
  <2>2. LocalTypeOK'
    <3>1. pc' = pc \/ \E l \in Labels : Goto(c, l)
        BY <1>18, LabelTypes DEF pageGet
    <3>2. pc' \in [Clients -> Labels]
        BY <3>1, GotoType DEF LocalTypeOK
    <3> QED
        BY <1>18, <3>2 DEF pageGet, LocalTypeOK, localVars, workVars
  <2> QED
      BY <2>1, <2>2
<1>19. ASSUME NEW c \in Clients, fileWriteEnd(c) PROVE TypeOK'
  <2>1. StoreTypeOK'
    <3>1. StackMax \in Nat /\ ptr[c] \in FileIds
        BY <1>19 DEF StackMax, fileWriteEnd, At, LockDiscipline, Writing
    <3>2. mutex' \in [FileIds -> Owner] /\ filestack_mutex' \in Owner
        BY <1>19 DEF fileWriteEnd, StoreTypeOK, Owner
    <3>3. CASE top = StackMax
        BY <1>19, <3>1, <3>2, <3>3 DEF fileWriteEnd, StoreTypeOK
    <3>4. CASE top < StackMax
      <4>1. abspath[ptr[c]] \in Names \cup {NULL} /\ top \in 0 .. StackMax - 1
          BY <3>1, <3>4 DEF StoreTypeOK
      <4>2. stack' = [stack EXCEPT ![top] = abspath[ptr[c]]] /\ top' = top + 1
          BY <1>19, <3>1, <3>4 DEF fileWriteEnd, fileStackAdd
      <4>3. stack' \in [0 .. StackMax - 1 -> Names \cup {NULL}]
          BY <4>1, <4>2 DEF StoreTypeOK
      <4>4. top' \in 0 .. StackMax
          BY <3>1, <4>1, <4>2
      <4> QED
          BY <1>19, <3>2, <4>3, <4>4 DEF fileWriteEnd, StoreTypeOK
    <3> QED
        BY <1>19, <3>3, <3>4 DEF fileWriteEnd
  <2>2. LocalTypeOK'
      BY <1>19, ReturnType, GotoType, LabelTypes
        DEF fileWriteEnd, LocalTypeOK, localVars, workVars
  <2> QED
      BY <2>1, <2>2
<1>20. ASSUME NEW c \in Clients, fileAppend(c) PROVE TypeOK'
  <2>1. StoreTypeOK'
    <3>1. ptr[c] \in FileIds /\ call[c].n \in Nat
        BY <1>20 DEF fileAppend, CanLock, LocalTypeOK, Call
    <3>2. size[ptr[c]] \in Nat
        BY <3>1 DEF StoreTypeOK
    <3>3. /\ size' = size \/ size' = [size EXCEPT ![ptr[c]] = @ + call[c].n]
          /\ mutex' = mutex \/ mutex' = [mutex EXCEPT ![ptr[c]] = c]
        BY <1>20 DEF fileAppend
    <3>4. size' \in [FileIds -> Nat]
      <4>1. size[ptr[c]] + call[c].n \in Nat
          BY <3>1, <3>2
      <4>2. size' = size \/ \E n \in Nat : size' = [size EXCEPT ![ptr[c]] = n]
          BY <3>3, <4>1
      <4> QED
          BY <4>2 DEF StoreTypeOK
    <3>5. mutex' \in [FileIds -> Owner]
        BY <3>3 DEF StoreTypeOK, Owner
    <3> QED
        BY <1>20, <3>4, <3>5 DEF fileAppend, StoreTypeOK, listVars, lockVars
  <2>2. LocalTypeOK'
      BY <1>20, ReturnType, GotoType, LabelTypes
        DEF fileAppend, LocalTypeOK, localVars, workVars
  <2> QED
      BY <2>1, <2>2
<1>21. ASSUME NEW c \in Clients, fileAppendEnd(c) PROVE TypeOK'
  <2>1. StoreTypeOK'
      BY <1>21
        DEF fileAppendEnd, CanLock, StoreTypeOK, LocalTypeOK, Owner, storeVars,
            listVars, fileVars, lockVars
  <2>2. LocalTypeOK'
      BY <1>21, ReturnType DEF fileAppendEnd
  <2> QED
      BY <2>1, <2>2
<1>22. ASSUME NEW c \in Clients, fileDelete(c) PROVE TypeOK'
  <2>1. StoreTypeOK'
    <3>1. table' \in Seq(FileIds)
        BY <1>22, SearchType DEF fileDelete, StoreTypeOK
    <3> QED
        BY <1>22, <3>1 DEF fileDelete, StoreTypeOK, fileVars, lockVars
  <2>2. LocalTypeOK'
      BY <1>22, GotoType, LabelTypes DEF fileDelete
  <2> QED
      BY <2>1, <2>2
<1>23. ASSUME NEW c \in Clients, fileDeleteEnd(c) PROVE TypeOK'
  <2>1. StoreTypeOK'
    <3>1. fileFree(ptr[c]) /\ UNCHANGED <<table, stack, top, file_n, lockVars, status>>
        BY <1>23 DEF fileDeleteEnd
    <3> QED
        BY <1>23, <3>1, FreeType
          DEF fileDeleteEnd, At, LockDiscipline, StoreTypeOK, lockVars
  <2>2. LocalTypeOK'
      BY <1>23, ReturnType DEF fileDeleteEnd
  <2> QED
      BY <2>1, <2>2
<1>24. ASSUME NEW c \in Clients, fileDeleteFIFO(c) PROVE TypeOK'
  <2>1. StoreTypeOK'
    <3>1. UNCHANGED <<table, freePages, file_n, fileVars, status>>
        BY <1>24 DEF fileDeleteFIFO
    <3>2. filestack_mutex' \in Owner /\ file_n_mutex' \in Owner
        BY <1>24 DEF fileDeleteFIFO, StoreTypeOK, Owner
    <3>3. CASE top = 0
        BY <1>24, <3>1, <3>2, <3>3 DEF fileDeleteFIFO, StoreTypeOK, fileVars
    <3>4. CASE top > 0
      <4>1. stack' \in [0 .. StackMax - 1 -> Names \cup {NULL}] /\ top' \in 0 .. StackMax
          BY <1>24, <3>4, TakeType DEF fileDeleteFIFO
      <4> QED
          BY <3>1, <3>2, <4>1 DEF StoreTypeOK, fileVars
    <3> QED
        BY <1>24, <3>3, <3>4 DEF fileDeleteFIFO
  <2>2. LocalTypeOK'
    <3>1. pc' \in [Clients -> Labels]
        BY <1>24, LabelTypes, GotoType DEF fileDeleteFIFO
    <3>2. victim' \in [Clients -> FileIds \cup {NULL}]
      <4>1. \A n : hashTbSearch(n) \in FileIds \cup {NULL}
          BY SearchType DEF StoreTypeOK
      <4>2. victim' = victim \/ \E v \in FileIds \cup {NULL} : victim' = [victim EXCEPT ![c] = v]
          BY <1>24, <4>1 DEF fileDeleteFIFO
      <4> QED
          BY <4>1, <4>2 DEF LocalTypeOK
    <3> QED
        BY <1>24, <3>1, <3>2 DEF fileDeleteFIFO, LocalTypeOK, workVars
  <2> QED
      BY <2>1, <2>2
<1>25. ASSUME NEW c \in Clients, unlinkVictim(c) PROVE TypeOK'
  <2>1. StoreTypeOK'
    <3>1. table' \in Seq(FileIds)
        BY <1>25, SearchType DEF unlinkVictim, StoreTypeOK
    <3> QED
        BY <1>25, <3>1 DEF unlinkVictim, StoreTypeOK, fileVars, Owner
  <2>2. LocalTypeOK'
      BY <1>25, GotoType, LabelTypes DEF unlinkVictim
  <2> QED
      BY <2>1, <2>2
<1>26. ASSUME NEW c \in Clients, freeVictim(c) PROVE TypeOK'
  <2>1. StoreTypeOK'
    <3>1. /\ fileFree(victim[c])
          /\ UNCHANGED <<table, stack, top, file_n, filestack_mutex, status>>
          /\ file_n_mutex' \in {NULL, file_n_mutex}
        BY <1>26 DEF freeVictim
    <3> QED
        BY <1>26, <3>1, FreeType DEF freeVictim, At, LockDiscipline, StoreTypeOK, Owner
  <2>2. LocalTypeOK'
    <3>1. pc' \in [Clients -> Labels]
        BY <1>26, LabelTypes, GotoType DEF freeVictim
    <3> QED
        BY <1>26, <3>1 DEF freeVictim, LocalTypeOK, workVars
  <2> QED
      BY <2>1, <2>2
<1>27. ASSUME NEW c \in Clients, FileNDecrease(c) PROVE TypeOK'
  <2>1. StoreTypeOK'
      BY <1>27
        DEF FileNDecrease, CanLock, StoreTypeOK, LocalTypeOK, Owner, storeVars,
            listVars, fileVars, lockVars
  <2>2. LocalTypeOK'
      BY <1>27, GotoType, LabelTypes DEF FileNDecrease
  <2> QED
      BY <2>1, <2>2
<1>28. ASSUME NEW c \in Clients, Faults(c) PROVE TypeOK'
  <2>1. PICK why \in Undefined : Fault(why)
      BY <1>28
        DEF Faults, Stops, StaleDeref, freeListed, TopFault, ReadFault, AppendFault,
            freeFault, topFault, Undefined
  <2> QED
      BY <2>1
        DEF Fault, StoreTypeOK, LocalTypeOK, storeVars, listVars, fileVars,
            lockVars, localVars, workVars
<1>29. ASSUME NEW c \in Clients, freeLocked(c) PROVE TypeOK'
  <2>1. /\ UNCHANGED <<table, stack, top, file_n, filestack_mutex, file_n_mutex,
                       pc, call, ptr, victim, batch, want, seen, calls>>
        /\ status' \in {"running"} \cup Undefined
        /\ \E f \in FileIds : fileFree(f)
      BY <1>29, FreeLockedIs DEF Undefined
  <2>2. StoreTypeOK'
      BY <2>1, FreeType DEF StoreTypeOK
  <2> QED
      BY <2>1, <2>2 DEF LocalTypeOK
<1>30. CASE UNCHANGED vars
    BY <1>30
      DEF vars, StoreTypeOK, LocalTypeOK, storeVars, listVars, fileVars, lockVars,
          localVars, workVars
<1> QED
    BY <1>1, <1>2, <1>3, <1>4, <1>5, <1>6, <1>7, <1>8, <1>9, <1>10, <1>11, <1>12, <1>13,
       <1>14, <1>15, <1>16, <1>17, <1>18, <1>19, <1>20, <1>21, <1>22, <1>23, <1>24,
       <1>25, <1>26, <1>27, <1>28, <1>29, <1>30, HandlerIs
      DEF Next, OpenCalls, ReadCalls, WriteCalls, Evictions

-----------------------------------------------------------------------------
(* Who owns which mutex.                                                   *)

(* Nobody owns a mutex when the server starts.                             *)
LEMMA LockInit == Init => LockDiscipline
    BY FileMemoryAssumption DEF Init, StoreInit, LockDiscipline, Holds, Writing

(* Every step of every handler keeps the locking discipline.               *)
LEMMA LockStep == TypeOK /\ LockDiscipline /\ [Next]_vars => LockDiscipline'
<1> SUFFICES ASSUME TypeOK, LockDiscipline, [Next]_vars PROVE LockDiscipline'
    OBVIOUS
<1>0. /\ pc \in [Clients -> Labels]
      /\ ptr \in [Clients -> FileIds \cup {NULL}]
      /\ victim \in [Clients -> FileIds \cup {NULL}]
      /\ mutex \in [FileIds -> Owner]
      /\ heap \in [FileIds -> {"free", "live"}]
      /\ NULL \notin Clients /\ NULL \notin FileIds
    BY FileMemoryAssumption DEF TypeOK, StoreTypeOK, LocalTypeOK
<1> USE <1>0 DEF LockDiscipline, Holds, Writing, At
<1>1. ASSUME NEW c \in Clients, Request(c) PROVE LockDiscipline'
    BY <1>1 DEF Request, CanLock, Goto, Return, storeVars, fileVars, lockVars, localVars
<1>2. ASSUME NEW c \in Clients, fileSearch(c) PROVE LockDiscipline'
    BY <1>2
      DEF fileSearch, CanLock, Goto, Return, storeVars, fileVars, lockVars,
          localVars
<1>3. ASSUME NEW c \in Clients, fileInit(c) PROVE LockDiscipline'
    BY <1>3
      DEF fileInit, Fresh, CanLock, Goto, Return, storeVars, fileVars, lockVars,
          localVars
<1>4. ASSUME NEW c \in Clients, fileSearchSilent(c) PROVE LockDiscipline'
    BY <1>4
      DEF fileSearchSilent, CanLock, Goto, Return, storeVars, fileVars, lockVars,
          localVars
<1>5. ASSUME NEW c \in Clients, fileOpen(c) PROVE LockDiscipline'
    BY <1>5 DEF fileOpen, CanLock, Goto, Return, storeVars, fileVars, lockVars, localVars
<1>6. ASSUME NEW c \in Clients, fileClose(c) PROVE LockDiscipline'
    BY <1>6 DEF fileClose, CanLock, Goto, Return, storeVars, fileVars, lockVars, localVars
<1>7. ASSUME NEW c \in Clients, fileOpenCheck(c) PROVE LockDiscipline'
    BY <1>7
      DEF fileOpenCheck, hasOpen, CanLock, Goto, Return, storeVars, fileVars, lockVars,
          localVars
<1>8. ASSUME NEW c \in Clients, Refuse(c) PROVE LockDiscipline'
    BY <1>8 DEF Refuse, CanLock, Goto, Return, storeVars, fileVars, lockVars, localVars
<1>9. ASSUME NEW c \in Clients, sendFile(c) PROVE LockDiscipline'
    BY <1>9 DEF sendFile, CanLock, Goto, Return, storeVars, fileVars, lockVars, localVars
<1>10. ASSUME NEW c \in Clients, sendFileEnd(c) PROVE LockDiscipline'
    BY <1>10
      DEF sendFileEnd, CanLock, Goto, Return, storeVars, fileVars, lockVars,
          localVars
<1>11. ASSUME NEW c \in Clients, fileNRead(c) PROVE LockDiscipline'
    BY <1>11
      DEF fileNRead, CanLock, Goto, Return, storeVars, fileVars, lockVars, localVars
<1>12. ASSUME NEW c \in Clients, arrayRandomPermutation(c) PROVE LockDiscipline'
    BY <1>12
      DEF arrayRandomPermutation, CanLock, Goto, Return, storeVars, fileVars,
          lockVars, localVars
<1>13. ASSUME NEW c \in Clients, fileNReadAll(c) PROVE LockDiscipline'
    BY <1>13
      DEF fileNReadAll, CanLock, Goto, Return, storeVars, fileVars, lockVars,
          localVars
<1>14. ASSUME NEW c \in Clients, fileNReadNext(c) PROVE LockDiscipline'
    BY <1>14
      DEF fileNReadNext, CanLock, Goto, Return, storeVars, fileVars, lockVars,
          localVars
<1>15. ASSUME NEW c \in Clients, fileNReadName(c) PROVE LockDiscipline'
    BY <1>15
      DEF fileNReadName, CanLock, Goto, Return, storeVars, fileVars, lockVars,
          localVars
<1>16. ASSUME NEW c \in Clients, fileWrite(c) PROVE LockDiscipline'
    BY <1>16
      DEF fileWrite, refuseWrite, CanLock, Goto, Return, storeVars, fileVars,
          lockVars, localVars
<1>17. ASSUME NEW c \in Clients, FileNUpdate(c) PROVE LockDiscipline'
    BY <1>17
      DEF FileNUpdate, CanLock, Goto, Return, storeVars, fileVars, lockVars,
          localVars
<1>18. ASSUME NEW c \in Clients, pageGet(c) PROVE LockDiscipline'
    BY <1>18 DEF pageGet, CanLock, Goto, Return, storeVars, fileVars, lockVars, localVars
<1>19. ASSUME NEW c \in Clients, fileWriteEnd(c) PROVE LockDiscipline'
    BY <1>19
      DEF fileWriteEnd, CanLock, Goto, Return, storeVars, fileVars, lockVars,
          localVars
<1>20. ASSUME NEW c \in Clients, fileAppend(c) PROVE LockDiscipline'
    BY <1>20
      DEF fileAppend, CanLock, Goto, Return, storeVars, fileVars, lockVars,
          localVars
<1>21. ASSUME NEW c \in Clients, fileAppendEnd(c) PROVE LockDiscipline'
    BY <1>21
      DEF fileAppendEnd, CanLock, Goto, Return, storeVars, fileVars, lockVars,
          localVars
<1>22. ASSUME NEW c \in Clients, fileDelete(c) PROVE LockDiscipline'
    BY <1>22
      DEF fileDelete, CanLock, Goto, Return, storeVars, fileVars, lockVars,
          localVars
<1>23. ASSUME NEW c \in Clients, fileDeleteEnd(c) PROVE LockDiscipline'
    BY <1>23
      DEF fileDeleteEnd, fileFree, freeFault, CanLock, Goto, Return, storeVars,
          fileVars, lockVars, localVars
<1>24. ASSUME NEW c \in Clients, fileDeleteFIFO(c) PROVE LockDiscipline'
    BY <1>24
      DEF fileDeleteFIFO, CanLock, Goto, Return, storeVars, fileVars, lockVars,
          localVars
<1>25. ASSUME NEW c \in Clients, unlinkVictim(c) PROVE LockDiscipline'
    BY <1>25
      DEF unlinkVictim, CanLock, Goto, Return, storeVars, fileVars, lockVars,
          localVars
<1>26. ASSUME NEW c \in Clients, freeVictim(c) PROVE LockDiscipline'
    BY <1>26
      DEF freeVictim, fileFree, freeFault, CanLock, Goto, Return, storeVars,
          fileVars, lockVars, localVars
<1>27. ASSUME NEW c \in Clients, FileNDecrease(c) PROVE LockDiscipline'
    BY <1>27
      DEF FileNDecrease, CanLock, Goto, Return, storeVars, fileVars, lockVars,
          localVars
<1>28. ASSUME NEW c \in Clients, Faults(c) PROVE LockDiscipline'
  <2>1. status = "running" /\ UNCHANGED <<fileVars, lockVars, pc, localVars>>
      BY <1>28 DEF Faults, Stops, StaleDeref, freeListed, TopFault, ReadFault, AppendFault, Fault
  <2> QED
      BY <2>1 DEF fileVars, lockVars, localVars
<1>29. ASSUME NEW c \in Clients, freeLocked(c) PROVE LockDiscipline'
  <2>1. /\ status' = "destroyLocked"
        /\ UNCHANGED <<mutex, lockVars, pc, localVars>>
      BY <1>29 DEF freeLocked, fileFree
  <2> QED
      BY <2>1 DEF lockVars, localVars
<1>30. CASE UNCHANGED vars
    BY <1>30 DEF vars, storeVars, fileVars, lockVars, localVars
<1> QED
    BY <1>1, <1>2, <1>3, <1>4, <1>5, <1>6, <1>7, <1>8, <1>9, <1>10, <1>11, <1>12, <1>13,
       <1>14, <1>15, <1>16, <1>17, <1>18, <1>19, <1>20, <1>21, <1>22, <1>23, <1>24,
       <1>25, <1>26, <1>27, <1>28, <1>29, <1>30, HandlerIs
      DEF Next, OpenCalls, ReadCalls, WriteCalls, Evictions

(* Every variable stays within its type, and the mutexes are owned as      *)
(* fileWrite, fileAppend, sendFile and fileDeleteFIFO take and release     *)
(* them.  Each needs the other: a handler that writes has a record.        *)
THEOREM LocksCorrect == Spec => [](TypeOK /\ LockDiscipline)
<1>1. Init => TypeOK /\ LockDiscipline
    BY TypeInit, LockInit
<1>2. TypeOK /\ LockDiscipline /\ [Next]_vars => (TypeOK /\ LockDiscipline)'
    BY TypeStep, LockStep
<1> QED
    BY <1>1, <1>2, PTL DEF Spec

(* Every variable keeps its type: no handler stores a value of another kind.*)
THEOREM TypeCorrect == Spec => []TypeOK
    BY LocksCorrect, PTL

(* An answered client owns no mutex, whichever way its handler returned.   *)
THEOREM LocksAreReleased == Spec => []LocksReleased
<1>1. LockDiscipline => LocksReleased
    BY DEF LockDiscipline, LocksReleased, Holds, Writing
<1> QED
    BY <1>1, LocksCorrect, PTL

-----------------------------------------------------------------------------
(* Pages.                                                                  *)

(* Only these handlers change what the free list and the records hold, or  *)
(* which records are allocated.                                            *)
PageSteps(c) == pageGet(c) \/ freeVictim(c) \/ fileDeleteEnd(c) \/ fileInit(c)
                \/ fileWrite(c) \/ fileAppend(c) \/ freeLocked(c)

(* A step that is none of PageSteps moves no page and frees no record.     *)
LEMMA PagesFrame ==
    ASSUME NEW c \in Clients, Request(c) \/ Handler(c), ~ PageSteps(c)
    PROVE  UNCHANGED <<freePages, pages, heap, size>>
    BY HandlerIs
      DEF Request, OpenCalls, ReadCalls, WriteCalls, Evictions, Faults, Stops,
          PageSteps,
      Request, fileSearch, fileSearchSilent, fileOpen, fileClose,
      fileOpenCheck, Refuse, sendFile, sendFileEnd, fileNRead,
      arrayRandomPermutation, fileNReadAll, fileNReadNext, fileNReadName,
      FileNUpdate, fileWriteEnd, fileAppendEnd, fileDelete, fileDeleteFIFO,
      unlinkVictim, FileNDecrease,
      StaleDeref, freeListed, TopFault, ReadFault, AppendFault, Fault,
      storeVars, listVars, fileVars

(* fileFree gives the pages of a record back.                              *)
LEMMA FreeConserves ==
    ASSUME TypeOK, PageConservation, NEW f \in FileIds, fileFree(f)
    PROVE  PageConservation'
<1>1. /\ pages' = [pages EXCEPT ![f] = {}]
      /\ heap' = [heap EXCEPT ![f] = "free"]
      /\ freePages' = freePages \cup pages[f]
    BY DEF fileFree, released
<1> QED
    BY <1>1 DEF TypeOK, StoreTypeOK, PageConservation, Live

(* Every step gives each page one place: the list or one record.           *)
LEMMA PageStep == TypeOK /\ LockDiscipline /\ PageConservation /\ [Next]_vars => PageConservation'
<1> SUFFICES ASSUME TypeOK, LockDiscipline, PageConservation, [Next]_vars PROVE PageConservation'
    OBVIOUS
<1>1. ASSUME NEW c \in Clients, pageGet(c) PROVE PageConservation'
  <2>1. ptr[c] \in FileIds /\ heap[ptr[c]] = "live" /\ UNCHANGED heap
      BY <1>1 DEF pageGet, At, LockDiscipline, Writing
  <2>2. CASE UNCHANGED <<freePages, pages>>
      BY <2>1, <2>2 DEF PageConservation, Live
  <2>3. CASE ~ UNCHANGED <<freePages, pages>>
    <3>1. PICK p \in freePages : /\ freePages' = freePages \ {p}
                                 /\ pages' = [pages EXCEPT ![ptr[c]] = @ \cup {p}]
        BY <1>1, <2>3 DEF pageGet
    <3> QED
        BY <2>1, <3>1 DEF PageConservation, Live, TypeOK, StoreTypeOK
  <2> QED
      BY <2>2, <2>3
<1>2. ASSUME NEW c \in Clients, freeVictim(c) PROVE PageConservation'
    BY <1>2, FreeConserves DEF freeVictim, At, LockDiscipline
<1>3. ASSUME NEW c \in Clients, fileDeleteEnd(c) PROVE PageConservation'
    BY <1>3, FreeConserves DEF fileDeleteEnd, At, LockDiscipline
<1>4. ASSUME NEW c \in Clients, fileInit(c) PROVE PageConservation'
    BY <1>4 DEF fileInit, Fresh, PageConservation, Live, TypeOK, StoreTypeOK
<1>5. ASSUME NEW c \in Clients, fileWrite(c) \/ fileAppend(c) PROVE PageConservation'
    BY <1>5 DEF fileWrite, fileAppend, listVars, PageConservation, Live
<1>6. ASSUME NEW c \in Clients, freeLocked(c) PROVE PageConservation'
    BY <1>6, FreeLockedIs, FreeConserves
<1>7. ASSUME NEW c \in Clients, Request(c) \/ Handler(c), ~ PageSteps(c) PROVE PageConservation'
    BY <1>7, PagesFrame DEF PageConservation, Live
<1>8. CASE UNCHANGED vars
    BY <1>8 DEF vars, storeVars, listVars, fileVars, PageConservation, Live
<1> QED
    BY <1>1, <1>2, <1>3, <1>4, <1>5, <1>6, <1>7, <1>8 DEF Next, PageSteps

(* No page is ever lost or given to two files, by any mix of writes,       *)
(* appends, removals and evictions.                                        *)
THEOREM PagesConserved == Spec => []PageConservation
<1>1. Init => PageConservation
    BY DEF Init, StoreInit, PageConservation, Live
<1> QED
    BY <1>1, PageStep, LocksCorrect, PTL DEF Spec

(* The pages and the size of a record sendFile is sending do not change as *)
(* long as the record is allocated: the other handlers that write, append, *)
(* evict and free do so to other records.                                  *)
THEOREM SendingIsStable == Spec => StableWhileSending
<1> DEFINE Stable == \A c \in Clients : pc[c] = "sendUnlock" /\ heap'[ptr[c]] = "live" =>
                        /\ size'[ptr[c]] = size[ptr[c]]
                        /\ pages'[ptr[c]] = pages[ptr[c]]
<1>1. TypeOK /\ LockDiscipline /\ [Next]_vars => [Stable]_vars
  <2> SUFFICES ASSUME TypeOK, LockDiscipline, Next,
                      NEW d \in Clients, pc[d] = "sendUnlock", heap'[ptr[d]] = "live"
               PROVE  /\ size'[ptr[d]] = size[ptr[d]]
                      /\ pages'[ptr[d]] = pages[ptr[d]]
      BY DEF Next
  <2>1. /\ ptr[d] \in FileIds /\ mutex[ptr[d]] = d
        /\ heap \in [FileIds -> {"free", "live"}]
        /\ size \in [FileIds -> Nat]
        /\ pages \in [FileIds -> SUBSET Pages]
      BY DEF LockDiscipline, TypeOK, StoreTypeOK
  <2>2. PICK c \in Clients : Request(c) \/ Handler(c)
      BY DEF Next
  <2>3. CASE ~ PageSteps(c)
      BY <2>1, <2>2, <2>3, PagesFrame
  <2>4. CASE pageGet(c)
    <3>1. ptr[c] # ptr[d]
        BY <2>1, <2>4 DEF pageGet, At, LockDiscipline, Writing
    <3> QED
        BY <2>1, <2>4, <3>1 DEF pageGet
  <2>5. CASE freeVictim(c) \/ fileDeleteEnd(c) \/ freeLocked(c)
    <3>1. PICK f \in FileIds : fileFree(f)
        BY <2>5, FreeLockedIs DEF freeVictim, fileDeleteEnd, At, LockDiscipline
    <3>2. f # ptr[d]
        BY <2>1, <3>1 DEF fileFree
    <3> QED
        BY <2>1, <3>1, <3>2 DEF fileFree
  <2>6. CASE fileInit(c)
    <3>1. PICK f \in FileIds : /\ Fresh(f)
                               /\ size' = [size EXCEPT ![f] = 0]
                               /\ pages' = [pages EXCEPT ![f] = {}]
        BY <2>6 DEF fileInit
    <3>2. f # ptr[d]
        BY <3>1 DEF Fresh
    <3> QED
        BY <2>1, <3>1, <3>2
  <2>7. CASE fileWrite(c) \/ fileAppend(c)
    <3>1. ptr[c] # ptr[d]
        BY <2>1, <2>7, FileMemoryAssumption DEF fileWrite, fileAppend, CanLock
    <3> QED
        BY <2>1, <2>7, <3>1 DEF fileWrite, refuseWrite, fileAppend
  <2> QED
      BY <2>3, <2>4, <2>5, <2>6, <2>7 DEF PageSteps
<1> QED
    BY <1>1, LocksCorrect, PTL DEF Spec, StableWhileSending

(* The points at which the loop around pageGet is over.                    *)
Full == {"sendUnlock", "stackAdd", "selfLock", "appendEnd"}

(* A step that is no PageSteps unlocks only a record at such a point, and  *)
(* arrives at such a point only from one, or by locking in sendFile.       *)
LEMMA FullFrame ==
    ASSUME TypeOK, LockDiscipline, NEW c \in Clients, Request(c) \/ Handler(c), ~ PageSteps(c)
    PROVE  /\ \A f \in FileIds : mutex'[f] = NULL =>
                  mutex[f] = NULL \/ (pc[c] \in Full /\ ptr[c] = f)
           /\ \A d \in Clients : pc'[d] \in Full =>
                  /\ ptr'[d] = ptr[d]
                  /\ \/ pc[d] \in Full
                     \/ CanLock(ptr[d])
<1> DEFINE Goal == /\ \A f \in FileIds : mutex'[f] = NULL =>
                         mutex[f] = NULL \/ (pc[c] \in Full /\ ptr[c] = f)
                   /\ \A d \in Clients : pc'[d] \in Full =>
                         /\ ptr'[d] = ptr[d]
                         /\ \/ pc[d] \in Full
                            \/ CanLock(ptr[d])
<1> USE DEF Full, At, Goto, Return, CanLock
<1>0. /\ pc \in [Clients -> Labels]
      /\ ptr \in [Clients -> FileIds \cup {NULL}]
      /\ mutex \in [FileIds -> Owner]
      /\ NULL \notin FileIds
    BY FileMemoryAssumption DEF TypeOK, StoreTypeOK, LocalTypeOK
<1>1. ASSUME Request(c) PROVE Goal
    BY <1>0, <1>1 DEF Request, storeVars, fileVars, localVars
<1>2. ASSUME fileSearch(c) PROVE Goal
    BY <1>0, <1>2 DEF fileSearch, storeVars, fileVars, localVars
<1>3. ASSUME fileSearchSilent(c) PROVE Goal
    BY <1>0, <1>3 DEF fileSearchSilent, storeVars, fileVars, localVars
<1>4. ASSUME fileOpen(c) PROVE Goal
    BY <1>0, <1>4 DEF fileOpen, storeVars, fileVars, localVars
<1>5. ASSUME fileClose(c) PROVE Goal
    BY <1>0, <1>5 DEF fileClose, storeVars, fileVars, localVars
<1>6. ASSUME fileOpenCheck(c) PROVE Goal
    BY <1>0, <1>6 DEF fileOpenCheck, hasOpen, storeVars, fileVars, localVars
<1>7. ASSUME Refuse(c) PROVE Goal
    BY <1>0, <1>7 DEF Refuse, storeVars, fileVars, localVars
<1>8. ASSUME sendFile(c) PROVE Goal
    BY <1>0, <1>8 DEF sendFile, storeVars, fileVars, localVars
<1>9. ASSUME sendFileEnd(c) PROVE Goal
    BY <1>0, <1>9 DEF sendFileEnd, storeVars, fileVars, localVars
<1>10. ASSUME fileNRead(c) PROVE Goal
    BY <1>0, <1>10 DEF fileNRead, storeVars, fileVars, localVars
<1>11. ASSUME arrayRandomPermutation(c) PROVE Goal
    BY <1>0, <1>11 DEF arrayRandomPermutation, storeVars, fileVars, localVars
<1>12. ASSUME fileNReadAll(c) PROVE Goal
    BY <1>0, <1>12 DEF fileNReadAll, storeVars, fileVars, localVars
<1>13. ASSUME fileNReadNext(c) PROVE Goal
    BY <1>0, <1>13 DEF fileNReadNext, storeVars, fileVars, localVars
<1>14. ASSUME fileNReadName(c) PROVE Goal
    BY <1>0, <1>14 DEF fileNReadName, storeVars, fileVars, localVars
<1>15. ASSUME FileNUpdate(c) PROVE Goal
    BY <1>0, <1>15 DEF FileNUpdate, storeVars, fileVars, localVars
<1>16. ASSUME fileWriteEnd(c) PROVE Goal
    BY <1>0, <1>16 DEF fileWriteEnd, storeVars, fileVars, localVars
<1>17. ASSUME fileAppendEnd(c) PROVE Goal
    BY <1>0, <1>17 DEF fileAppendEnd, storeVars, fileVars, localVars
<1>18. ASSUME fileDelete(c) PROVE Goal
    BY <1>0, <1>18 DEF fileDelete, storeVars, fileVars, localVars
<1>19. ASSUME fileDeleteFIFO(c) PROVE Goal
    BY <1>0, <1>19 DEF fileDeleteFIFO, storeVars, fileVars, localVars
<1>20. ASSUME unlinkVictim(c) PROVE Goal
    BY <1>0, <1>20 DEF unlinkVictim, storeVars, fileVars, localVars
<1>21. ASSUME FileNDecrease(c) PROVE Goal
    BY <1>0, <1>21 DEF FileNDecrease, storeVars, fileVars, localVars
<1>22. ASSUME Faults(c) PROVE Goal
  <2>1. UNCHANGED <<fileVars, pc, localVars>>
      BY <1>22 DEF Faults, Stops, StaleDeref, freeListed, TopFault, ReadFault, AppendFault, Fault
  <2> QED
      BY <2>1 DEF fileVars, localVars
<1> QED
    BY <1>1, <1>2, <1>3, <1>4, <1>5, <1>6, <1>7, <1>8, <1>9, <1>10, <1>11, <1>12, <1>13,
       <1>14, <1>15, <1>16, <1>17, <1>18, <1>19, <1>20, <1>21, <1>22, HandlerIs
      DEF PageSteps, OpenCalls, ReadCalls, WriteCalls, Evictions

(* The pages of a record are finitely many, and so counted by a number.    *)
LEMMA CardOfPages ==
    ASSUME TypeOK, NEW f \in FileIds
    PROVE  IsFiniteSet(pages[f]) /\ Cardinality(pages[f]) \in Nat /\ size[f] \in Nat
<1>1. pages[f] \subseteq Pages /\ IsFiniteSet(Pages) /\ size[f] \in Nat
    BY FileMemoryAssumption DEF TypeOK, StoreTypeOK
<1> QED
    BY <1>1, FS_Subset, FS_CardinalityType

(* Every step leaves unlocked records whole.                               *)
LEMMA WholeStep == TypeOK /\ LockDiscipline /\ WholeFile /\ [Next]_vars => WholeFile'
<1> SUFFICES ASSUME TypeOK, LockDiscipline, WholeFile, [Next]_vars PROVE WholeFile'
    OBVIOUS
<1>0. /\ \A f \in FileIds : Cardinality(pages[f]) \in Nat /\ size[f] \in Nat
      /\ \A d \in Clients : pc[d] \in Full =>
            ptr[d] \in FileIds /\ mutex[ptr[d]] = d
      /\ pc \in [Clients -> Labels]
      /\ ptr \in [Clients -> FileIds \cup {NULL}]
      /\ mutex \in [FileIds -> Owner]
      /\ heap \in [FileIds -> {"free", "live"}]
      /\ size \in [FileIds -> Nat]
      /\ pages \in [FileIds -> SUBSET Pages]
      /\ NULL \notin Clients
    BY CardOfPages, FileMemoryAssumption
       DEF TypeOK, StoreTypeOK, LocalTypeOK, LockDiscipline, Full, Writing
<1> USE DEF Full
<1>1. ASSUME NEW c \in Clients, pageGet(c) PROVE WholeFile'
  <2> DEFINE f == ptr[c]
  <2>1. /\ f \in FileIds /\ heap[f] = "live" /\ mutex[f] = c
        /\ UNCHANGED <<heap, mutex, size, ptr>>
        /\ pc[c] = "pageGet"
      BY <1>1 DEF pageGet, At, LockDiscipline, Writing, localVars
  <2>2. \A d \in Clients : pc[d] \in Full => ptr[d] # f
      BY <1>0, <2>1
  <2>3. CASE Missing(f) /\ freePages # {}
    <3>1. PICK p \in freePages : pages' = [pages EXCEPT ![f] = @ \cup {p}] /\ UNCHANGED pc
        BY <1>1, <2>3 DEF pageGet
    <3>2. Cardinality(pages'[f]) <= size[f]
      <4>1. IsFiniteSet(pages[f]) /\ Cardinality(pages[f]) \in Nat /\ size[f] \in Nat
          BY <2>1, CardOfPages
      <4>2. Cardinality(pages[f] \cup {p}) <= Cardinality(pages[f]) + 1
        <5>1. Cardinality(pages[f] \cup {p}) =
                  IF p \in pages[f] THEN Cardinality(pages[f]) ELSE Cardinality(pages[f]) + 1
            BY <4>1, FS_AddElement
        <5> HIDE DEF f
        <5> QED
            BY <4>1, <5>1
      <4>3. Cardinality(pages[f] \cup {p}) \in Nat
          BY <4>1, FS_AddElement, FS_CardinalityType
      <4>4. Cardinality(pages[f]) + 1 <= size[f]
          BY <2>3, <4>1 DEF Missing
      <4>5. pages'[f] = pages[f] \cup {p}
          BY <1>0, <2>1, <3>1
      <4> QED
          BY <4>1, <4>2, <4>3, <4>4, <4>5
    <3>3. \A g \in FileIds : g # f => pages'[g] = pages[g]
        BY <1>0, <3>1
    <3>4. pc[c] \notin Full
        BY <2>1
    <3> QED
        BY <1>0, <2>1, <2>2, <3>1, <3>2, <3>3, <3>4 DEF WholeFile, Live
  <2>4. CASE ~ (Missing(f) /\ freePages # {})
    <3>1. UNCHANGED pages
        BY <1>1, <2>4 DEF pageGet
    <3>2. \A d \in Clients : pc'[d] \in Full => pc[d] \in Full \/ (d = c /\ ~ Missing(f))
        BY <1>0, <1>1, <2>4 DEF pageGet, Goto
    <3>3. ~ Missing(f) => Cardinality(pages[f]) = size[f]
        BY <1>0, <2>1 DEF Missing, WholeFile, Live
    <3> QED
        BY <2>1, <3>1, <3>2, <3>3 DEF WholeFile, Live
  <2> QED
      BY <2>3, <2>4
<1>2. ASSUME NEW c \in Clients, freeVictim(c) PROVE WholeFile'
  <2>1. /\ victim[c] \in FileIds /\ mutex[victim[c]] = NULL
        /\ fileFree(victim[c]) /\ UNCHANGED ptr
      BY <1>2 DEF freeVictim, freeFault, At, LockDiscipline
  <2>2. \A d \in Clients : pc'[d] \in Full => pc[d] \in Full /\ ptr[d] # victim[c]
      BY <1>0, <1>2, <2>1 DEF freeVictim, Goto
  <2> QED
      BY <1>0, <2>1, <2>2 DEF fileFree, WholeFile, Live
<1>3. ASSUME NEW c \in Clients, fileDeleteEnd(c) PROVE WholeFile'
  <2>1. /\ ptr[c] \in FileIds /\ mutex[ptr[c]] = NULL /\ fileFree(ptr[c])
      BY <1>3 DEF fileDeleteEnd, freeFault, At, LockDiscipline
  <2>2. \A d \in Clients : pc'[d] \in Full => pc[d] \in Full /\ ptr[d] # ptr[c] /\ ptr'[d] = ptr[d]
      BY <1>0, <1>3, <2>1 DEF fileDeleteEnd, Return
  <2> QED
      BY <1>0, <2>1, <2>2 DEF fileFree, WholeFile, Live
<1>4. ASSUME NEW c \in Clients, fileInit(c) PROVE WholeFile'
  <2>1. PICK f \in FileIds : /\ Fresh(f)
                             /\ heap' = [heap EXCEPT ![f] = "live"]
                             /\ size' = [size EXCEPT ![f] = 0]
                             /\ pages' = [pages EXCEPT ![f] = {}]
                             /\ mutex' = [mutex EXCEPT ![f] = NULL]
      BY <1>4 DEF fileInit
  <2>2. \A d \in Clients : pc'[d] \in Full => pc[d] \in Full /\ ptr[d] # f /\ ptr'[d] = ptr[d]
      BY <1>0, <1>4, <2>1 DEF fileInit, Goto, Fresh, localVars
  <2>3. Cardinality({}) = 0
      BY FS_EmptySet
  <2> QED
      BY <1>0, <2>1, <2>2, <2>3 DEF WholeFile, Live
<1>5. ASSUME NEW c \in Clients, fileWrite(c) \/ fileAppend(c) PROVE WholeFile'
  <2> DEFINE f == ptr[c]
  <2>1. f \in FileIds /\ heap[f] = "live" /\ mutex[f] = NULL /\ UNCHANGED <<heap, pages>>
      BY <1>5 DEF fileWrite, fileAppend, CanLock
  <2>2. \A d \in Clients : pc'[d] \in Full => pc[d] \in Full /\ ptr[d] # f /\ ptr'[d] = ptr[d]
      BY <1>0, <1>5, <2>1 DEF fileWrite, refuseWrite, fileAppend, Goto, Return, localVars
  <2>3. CASE UNCHANGED <<size, mutex>>
      BY <2>1, <2>2, <2>3 DEF WholeFile, Live
  <2>4. CASE ~ UNCHANGED <<size, mutex>>
    <3>1. /\ \E n \in Nat : size' = [size EXCEPT ![f] = n] /\ Cardinality(pages[f]) <= n
          /\ mutex' = [mutex EXCEPT ![f] = c]
      <4>1. call[c].n \in Nat
          BY DEF TypeOK, LocalTypeOK, Call
      <4>2. CASE fileWrite(c)
        <5>1. pages[f] = {} /\ size' = [size EXCEPT ![f] = call[c].n] /\ mutex' = [mutex EXCEPT ![f] = c]
            BY <2>4, <4>2 DEF fileWrite, refuseWrite, writeRefused
        <5>2. Cardinality(pages[f]) <= call[c].n
            BY <4>1, <5>1, FS_EmptySet
        <5> QED
            BY <4>1, <5>1, <5>2
      <4>3. CASE fileAppend(c)
        <5>1. /\ size' = [size EXCEPT ![f] = size[f] + call[c].n]
              /\ mutex' = [mutex EXCEPT ![f] = c]
            BY <2>4, <4>3 DEF fileAppend
        <5>2. /\ size[f] + call[c].n \in Nat
              /\ Cardinality(pages[f]) <= size[f] + call[c].n
            BY <1>0, <2>1, <4>1 DEF WholeFile, Live
        <5> QED
            BY <5>1, <5>2
      <4> QED
          BY <1>5, <4>2, <4>3
    <3> QED
        BY <1>0, <2>1, <2>2, <3>1 DEF WholeFile, Live
  <2> QED
      BY <2>3, <2>4
<1>6. ASSUME NEW c \in Clients, freeLocked(c) PROVE WholeFile'
  <2>1. PICK f \in FileIds : fileFree(f) /\ UNCHANGED <<pc, ptr>>
      BY <1>6, FreeLockedIs
  <2>2. /\ heap' = [heap EXCEPT ![f] = "free"]
        /\ pages' = [pages EXCEPT ![f] = {}]
        /\ size' = [size EXCEPT ![f] = 0]
        /\ UNCHANGED mutex
      BY <2>1 DEF fileFree
  <2>3. Cardinality(pages'[f]) = size'[f]
      BY <1>0, <2>2, FS_EmptySet
  <2>4. \A g \in FileIds : g # f => pages'[g] = pages[g] /\ size'[g] = size[g]
      BY <1>0, <2>2
  <2> QED
      BY <1>0, <2>1, <2>2, <2>3, <2>4 DEF WholeFile, Live
<1>7. ASSUME NEW c \in Clients, Request(c) \/ Handler(c), ~ PageSteps(c) PROVE WholeFile'
  <2>1. UNCHANGED <<pages, heap, size>>
      BY <1>7, PagesFrame
  <2>2. \A f \in Live : mutex'[f] = NULL => Cardinality(pages[f]) = size[f]
      BY <1>7, FullFrame DEF WholeFile, Live
  <2>3. \A d \in Clients : pc'[d] \in Full =>
            ptr'[d] = ptr[d] /\ Cardinality(pages[ptr[d]]) = size[ptr[d]]
      BY <1>7, FullFrame DEF WholeFile, Live, CanLock
  <2> QED
      BY <2>1, <2>2, <2>3 DEF WholeFile, Live
<1>8. CASE UNCHANGED vars
    BY <1>8 DEF vars, storeVars, fileVars, localVars, WholeFile, Live
<1> QED
    BY <1>1, <1>2, <1>3, <1>4, <1>5, <1>6, <1>7, <1>8 DEF Next, PageSteps

(* An unlocked record has exactly the pages of its size, whatever number   *)
(* of handlers write, append, remove and evict.                            *)
THEOREM FilesAreWhole == Spec => []WholeFile
<1>1. Init => WholeFile
    BY DEF Init, StoreInit, WholeFile, Live
<1> QED
    BY <1>1, WholeStep, LocksCorrect, PTL DEF Spec

-----------------------------------------------------------------------------
(* Opens.                                                                  *)

(* Only fileNRead is at the points of its own loop.                        *)
ReadNPoints == {"defrag", "copy", "readTop", "nextFile", "nameLock"}
ReadNOnly == \A c \in Clients : pc[c] \in ReadNPoints => call[c].op = "readN"

(* The points of fileNRead are reached by readN calls only.                *)
LEMMA ReadNStep == TypeOK /\ ReadNOnly /\ [Next]_vars => ReadNOnly'
<1> SUFFICES ASSUME TypeOK, ReadNOnly, [Next]_vars PROVE ReadNOnly'
    OBVIOUS
<1>0. pc \in [Clients -> Labels] /\ call \in [Clients -> Call]
    BY DEF TypeOK, LocalTypeOK
<1>1. ASSUME NEW c \in Clients, Request(c) PROVE ReadNOnly'
  <2>1. PICK r \in Calls[c] : /\ call' = [call EXCEPT ![c] = r]
                              /\ \E l \in Labels : Goto(c, l) /\ (l \in ReadNPoints => r.op = "readN")
      BY <1>1, LabelTypes DEF Request, ReadNPoints
  <2> QED
      BY <1>0, <2>1 DEF ReadNOnly, Goto
<1>2. ASSUME NEW c \in Clients, Handler(c) PROVE ReadNOnly'
  <2>1. \/ UNCHANGED call
        \/ Return(c)
      BY <1>2, HandlerIs DEF OpenCalls, ReadCalls, WriteCalls, Evictions, Faults, Stops,
          fileSearch, fileInit, fileSearchSilent, fileOpen, fileClose, fileOpenCheck, hasOpen, Refuse, sendFile, sendFileEnd,
          fileNRead, arrayRandomPermutation, fileNReadAll, fileNReadNext, fileNReadName, fileWrite, FileNUpdate, pageGet, fileWriteEnd,
          fileAppend, fileAppendEnd, fileDelete, fileDeleteEnd, fileDeleteFIFO, unlinkVictim, freeVictim, FileNDecrease,
          StaleDeref, freeListed, TopFault, ReadFault, AppendFault, Fault, freeLocked,
          refuseWrite, localVars
  <2>2. \A d \in Clients : pc'[d] \in ReadNPoints => pc[d] \in ReadNPoints \/ call[d].op = "readN"
    <3> USE <1>0 DEF At, Goto, Return, ReadNPoints
    <3>1. CASE OpenCalls(c)
        BY <3>1
          DEF OpenCalls, fileSearch, fileInit, fileSearchSilent, fileOpen,
              fileClose, fileOpenCheck, hasOpen, Refuse
    <3>2. CASE sendFile(c)
        BY <3>2 DEF sendFile
    <3>3. CASE sendFileEnd(c)
        BY <3>3 DEF sendFileEnd
    <3>4. CASE fileNRead(c)
        BY <3>4 DEF fileNRead
    <3>5. CASE arrayRandomPermutation(c)
        BY <3>5 DEF arrayRandomPermutation
    <3>6. CASE fileNReadAll(c)
        BY <3>6 DEF fileNReadAll
    <3>7. CASE fileNReadNext(c)
        BY <3>7 DEF fileNReadNext
    <3>8. CASE fileNReadName(c)
        BY <3>8 DEF fileNReadName
    <3>9. CASE WriteCalls(c)
        BY <3>9 DEF WriteCalls, fileWrite, FileNUpdate, pageGet, fileWriteEnd, fileAppend,
                    fileAppendEnd, fileDelete, fileDeleteEnd, refuseWrite
    <3>10. CASE Evictions(c)
        BY <3>10 DEF Evictions, fileDeleteFIFO, unlinkVictim, freeVictim, FileNDecrease
    <3>11. CASE Faults(c)
        BY <3>11
          DEF Faults, Stops, StaleDeref, freeListed, TopFault, ReadFault, AppendFault, Fault
    <3>12. CASE freeLocked(c)
        BY <3>12 DEF freeLocked
    <3> QED
        BY <1>2, <3>1, <3>2, <3>3, <3>4, <3>5, <3>6, <3>7, <3>8, <3>9, <3>10, <3>11, <3>12, HandlerIs
          DEF ReadCalls
  <2> QED
      BY <1>0, <2>1, <2>2 DEF ReadNOnly, Return, ReadNPoints
<1> QED
    BY <1>1, <1>2 DEF Next, ReadNOnly, vars, localVars

(* Every step keeps served files open.                                     *)
LEMMA OpenStep ==
    TypeOK /\ LockDiscipline /\ ReadNOnly /\ OpenWhileServed /\ [Next]_vars => OpenWhileServed'
<1> SUFFICES ASSUME TypeOK, LockDiscipline, ReadNOnly, OpenWhileServed, [Next]_vars PROVE OpenWhileServed'
    OBVIOUS
<1>0. /\ pc \in [Clients -> Labels]
      /\ ptr \in [Clients -> FileIds \cup {NULL}]
      /\ victim \in [Clients -> FileIds \cup {NULL}]
      /\ call \in [Clients -> Call]
      /\ heap \in [FileIds -> {"free", "live"}]
      /\ opened \in [FileIds -> [Clients -> Nat]]
      /\ \A c \in Clients : /\ pc[c] = "freeOwn" => ptr[c] \in FileIds
                            /\ pc[c] = "freeVictim" => victim[c] \in FileIds
      /\ NULL \notin FileIds
    BY FileMemoryAssumption DEF TypeOK, StoreTypeOK, LocalTypeOK, LockDiscipline
<1> USE <1>0 DEF OpenWhileServed, Served, Writing, At
<1>1. ASSUME NEW c \in Clients, Request(c) PROVE OpenWhileServed'
    BY <1>1 DEF Request, CanLock, Goto, Return, storeVars, fileVars, localVars
<1>2. ASSUME NEW c \in Clients, fileSearch(c) PROVE OpenWhileServed'
  <2>1. UNCHANGED <<heap, opened>>
      BY <1>2 DEF fileSearch, storeVars, fileVars
  <2>2. \A d \in Clients : pc'[d] \in Served =>
            pc[d] \in Served /\ call'[d] = call[d] /\ ptr'[d] = ptr[d]
      BY <1>2 DEF fileSearch, CanLock, Goto, Return, localVars
  <2> QED
      BY <2>1, <2>2
<1>3. ASSUME NEW c \in Clients, fileInit(c) PROVE OpenWhileServed'
    BY <1>3 DEF fileInit, Fresh, CanLock, Goto, Return, storeVars, fileVars, localVars
<1>4. ASSUME NEW c \in Clients, fileSearchSilent(c) PROVE OpenWhileServed'
  <2>1. UNCHANGED <<heap, opened>>
      BY <1>4 DEF fileSearchSilent, storeVars, fileVars
  <2>2. \A d \in Clients : pc'[d] \in Served =>
            pc[d] \in Served /\ call'[d] = call[d] /\ ptr'[d] = ptr[d]
      BY <1>4 DEF fileSearchSilent, CanLock, Goto, Return, localVars
  <2> QED
      BY <2>1, <2>2
<1>5. ASSUME NEW c \in Clients, fileOpen(c) PROVE OpenWhileServed'
    BY <1>5 DEF fileOpen, CanLock, Goto, Return, storeVars, fileVars, localVars
<1>6. ASSUME NEW c \in Clients, fileClose(c) PROVE OpenWhileServed'
    BY <1>6
      DEF fileClose, clientPidDelete, CanLock, Goto, Return, storeVars, fileVars,
          localVars
<1>7. ASSUME NEW c \in Clients, fileOpenCheck(c) PROVE OpenWhileServed'
  <2>1. UNCHANGED <<heap, opened>>
      BY <1>7 DEF fileOpenCheck, storeVars, fileVars
  <2>2. ASSUME NEW d \in Clients, d # c
        PROVE  pc'[d] = pc[d] /\ call'[d] = call[d] /\ ptr'[d] = ptr[d]
      BY <1>7, <2>2 DEF fileOpenCheck, Goto, Return, localVars
  <2>3. CASE hasOpen(ptr[c], c)
    <3>1. ptr[c] \in FileIds /\ opened[ptr[c]][c] > 0
        BY <1>7, <2>3 DEF fileOpenCheck, CanLock, hasOpen
    <3>2. call'[c] = call[c] /\ ptr'[c] = ptr[c]
        BY <1>7, <2>3 DEF fileOpenCheck, localVars
    <3> QED
        BY <2>1, <2>2, <3>1, <3>2
  <2>4. CASE ~hasOpen(ptr[c], c)
    <3>1. pc'[c] \in {"refuse", "idle"}
        BY <1>7, <2>4 DEF fileOpenCheck, Goto, Return
    <3> QED
        BY <2>1, <2>2, <3>1
  <2> QED
      BY <2>3, <2>4
<1>8. ASSUME NEW c \in Clients, Refuse(c) PROVE OpenWhileServed'
    BY <1>8 DEF Refuse, CanLock, Goto, Return, storeVars, fileVars, localVars
<1>9. ASSUME NEW c \in Clients, sendFile(c) PROVE OpenWhileServed'
    BY <1>9 DEF sendFile, CanLock, Goto, Return, storeVars, fileVars, localVars
<1>10. ASSUME NEW c \in Clients, sendFileEnd(c) PROVE OpenWhileServed'
    BY ZenonT(30), <1>10 DEF sendFileEnd, CanLock, Goto, Return, storeVars, fileVars, localVars
<1>11. ASSUME NEW c \in Clients, fileNRead(c) PROVE OpenWhileServed'
    BY <1>11 DEF fileNRead, CanLock, Goto, Return, storeVars, fileVars, localVars
<1>12. ASSUME NEW c \in Clients, arrayRandomPermutation(c) PROVE OpenWhileServed'
    BY <1>12
      DEF arrayRandomPermutation, CanLock, Goto, Return, storeVars, fileVars,
          localVars
<1>13. ASSUME NEW c \in Clients, fileNReadAll(c) PROVE OpenWhileServed'
    BY <1>13 DEF fileNReadAll, CanLock, Goto, Return, storeVars, fileVars, localVars
<1>14. ASSUME NEW c \in Clients, fileNReadNext(c) PROVE OpenWhileServed'
  <2>1. UNCHANGED <<heap, opened>>
      BY <1>14 DEF fileNReadNext, storeVars, fileVars
  <2>2. \A d \in Clients : pc'[d] \in Served =>
            pc[d] \in Served /\ call'[d] = call[d] /\ ptr'[d] = ptr[d]
      BY <1>14 DEF fileNReadNext, CanLock, Goto, Return, localVars
  <2> QED
      BY <2>1, <2>2
<1>15. ASSUME NEW c \in Clients, fileNReadName(c) PROVE OpenWhileServed'
    BY <1>15
      DEF fileNReadName, ReadNOnly, ReadNPoints, CanLock, Goto, Return, storeVars,
          fileVars, localVars
<1>16. ASSUME NEW c \in Clients, fileWrite(c) PROVE OpenWhileServed'
  <2>1. UNCHANGED <<heap, opened>>
      BY <1>16 DEF fileWrite, storeVars, fileVars
  <2>2. \A d \in Clients : pc'[d] \in Served =>
            pc[d] \in Served /\ call'[d] = call[d] /\ ptr'[d] = ptr[d]
      BY <1>16 DEF fileWrite, refuseWrite, CanLock, Goto, Return, localVars
  <2> QED
      BY <2>1, <2>2
<1>17. ASSUME NEW c \in Clients, FileNUpdate(c) PROVE OpenWhileServed'
    BY <1>17 DEF FileNUpdate, CanLock, Goto, Return, storeVars, fileVars, localVars
<1>18. ASSUME NEW c \in Clients, pageGet(c) PROVE OpenWhileServed'
    BY <1>18 DEF pageGet, CanLock, Goto, Return, storeVars, fileVars, localVars
<1>19. ASSUME NEW c \in Clients, fileWriteEnd(c) PROVE OpenWhileServed'
    BY <1>19 DEF fileWriteEnd, CanLock, Goto, Return, storeVars, fileVars, localVars
<1>20. ASSUME NEW c \in Clients, fileAppend(c) PROVE OpenWhileServed'
  <2>1. UNCHANGED <<heap, opened>>
      BY <1>20 DEF fileAppend, storeVars, fileVars
  <2>2. \A d \in Clients : pc'[d] \in Served =>
            pc[d] \in Served /\ call'[d] = call[d] /\ ptr'[d] = ptr[d]
      BY <1>20 DEF fileAppend, CanLock, Goto, Return, localVars
  <2> QED
      BY <2>1, <2>2
<1>21. ASSUME NEW c \in Clients, fileAppendEnd(c) PROVE OpenWhileServed'
    BY <1>21 DEF fileAppendEnd, CanLock, Goto, Return, storeVars, fileVars, localVars
<1>22. ASSUME NEW c \in Clients, fileDelete(c) PROVE OpenWhileServed'
    BY <1>22 DEF fileDelete, CanLock, Goto, Return, storeVars, fileVars, localVars
<1>23. ASSUME NEW c \in Clients, fileDeleteEnd(c) PROVE OpenWhileServed'
    BY <1>23
      DEF fileDeleteEnd, fileFree, CanLock, Goto, Return, storeVars, fileVars,
          localVars
<1>24. ASSUME NEW c \in Clients, fileDeleteFIFO(c) PROVE OpenWhileServed'
    BY <1>24 DEF fileDeleteFIFO, CanLock, Goto, Return, storeVars, fileVars, localVars
<1>25. ASSUME NEW c \in Clients, unlinkVictim(c) PROVE OpenWhileServed'
    BY <1>25 DEF unlinkVictim, CanLock, Goto, Return, storeVars, fileVars, localVars
<1>26. ASSUME NEW c \in Clients, freeVictim(c) PROVE OpenWhileServed'
    BY <1>26
      DEF freeVictim, fileFree, CanLock, Goto, Return, storeVars, fileVars,
          localVars
<1>27. ASSUME NEW c \in Clients, FileNDecrease(c) PROVE OpenWhileServed'
    BY <1>27 DEF FileNDecrease, CanLock, Goto, Return, storeVars, fileVars, localVars
<1>28. ASSUME NEW c \in Clients, Faults(c) PROVE OpenWhileServed'
  <2>1. UNCHANGED <<fileVars, pc, localVars>>
      BY <1>28 DEF Faults, Stops, StaleDeref, freeListed, TopFault, ReadFault, AppendFault, Fault
  <2> QED
      BY <2>1 DEF fileVars, localVars
<1>29. ASSUME NEW c \in Clients, freeLocked(c) PROVE OpenWhileServed'
  <2>1. PICK f \in FileIds : fileFree(f) /\ UNCHANGED <<pc, call, ptr>>
      BY <1>29, FreeLockedIs
  <2>2. /\ heap' = [heap EXCEPT ![f] = "free"]
        /\ \A g \in FileIds : g # f => opened'[g] = opened[g]
      BY <2>1 DEF fileFree
  <2> QED
      BY <2>1, <2>2
<1>30. CASE UNCHANGED vars
    BY <1>30 DEF vars, storeVars, fileVars, localVars
<1> QED
    BY <1>1, <1>2, <1>3, <1>4, <1>5, <1>6, <1>7, <1>8, <1>9, <1>10, <1>11, <1>12, <1>13,
       <1>14, <1>15, <1>16, <1>17, <1>18, <1>19, <1>20, <1>21, <1>22, <1>23, <1>24,
       <1>25, <1>26, <1>27, <1>28, <1>29, <1>30, HandlerIs
      DEF Next, OpenCalls, ReadCalls, WriteCalls, Evictions

(* A handler past fileOpenCheck serves a client that has the file open.    *)
THEOREM ServedFilesAreOpen == Spec => []OpenWhileServed
<1>1. Init => OpenWhileServed
    BY DEF Init, OpenWhileServed, Served, Writing
<1>2. Init => ReadNOnly
    BY DEF Init, ReadNOnly, ReadNPoints
<1> QED
    BY <1>1, <1>2, OpenStep, ReadNStep, LocksCorrect, PTL DEF Spec

-----------------------------------------------------------------------------
(* Requests.                                                               *)

(* What a handler at this point was asked for.                             *)
OpsAt(l) ==
    CASE l \in {"fileSearch", "fileInit"} -> {"create"}
      [] l = "lookup" -> Ops \ {"readN"}
      [] l = "openAdd" -> {"create", "open"}
      [] l = "closeDel" -> {"close"}
      [] l = "openCheck" -> {"read", "write", "append", "remove"}
      [] l = "refuse" -> {"write", "append"}
      [] l \in {"deleteLock", "freeOwn"} -> {"remove"}
      [] l \in {"sendLock", "sendUnlock"} -> {"read", "readN"}
      [] l \in {"writeLock", "fileN", "stackAdd", "selfLock"} -> {"write"}
      [] l \in {"appendLock", "appendEnd"} -> {"append"}
      [] l \in {"pageGet", "evict", "lockVictim", "freeVictim", "decrease"} -> {"write", "append"}
      [] l \in ReadNPoints -> {"readN"}
      [] OTHER -> Ops

Asked ==
    \A c \in Clients :
        /\ IF pc[c] = "idle" THEN call[c] = NoCall ELSE call[c] \in Calls[c]
        /\ call[c].op \in OpsAt(pc[c])

(* The record of a handler, while it is allocated, has the name it asked   *)
(* for: no other record takes its address.                                 *)
Unread == {"idle", "fileSearch", "fileInit", "lookup"}
OwnName ==
    \A c \in Clients :
        /\ pc[c] \in Unread => ptr[c] = NULL
        /\ call[c].op # "readN" /\ ptr[c] \in FileIds /\ heap[ptr[c]] = "live" =>
               abspath[ptr[c]] = call[c].name

(* The record being written has the size it was asked to have, until the   *)
(* program has freed it under the writer's lock.                           *)
NewSize ==
    \A c \in Clients :
        pc[c] \in Writing /\ status = "running" =>
            /\ call[c].op = "write" => size[ptr[c]] = call[c].n
            /\ call[c].n <= size[ptr[c]]
            /\ size[ptr[c]] <= Cardinality(Pages)

(* One eviction at a time chooses its victim and unlinks it.               *)
OneEviction == \A c \in Clients : pc[c] = "lockVictim" => filestack_mutex = c

Requests == Asked /\ OwnName /\ NewSize /\ OneEviction

-----------------------------------------------------------------------------
(* Entries.                                                                *)

Entries ==
    /\ \A i \in DOMAIN table : heap[table[i]] = "live" /\ abspath[table[i]] \in Names
    /\ IsInjective(table)

-----------------------------------------------------------------------------
(* Names.                                                                  *)

(* Between fileSearch and fileInit nobody else adds the name.              *)
StillFree == \A c \in Clients : pc[c] = "fileInit" => hashEntries(call[c].name) = {}

Unique == UniqueNames /\ StillFree

-----------------------------------------------------------------------------
(* Unlinked records.                                                       *)

(* d is going to unlink, by its name, the record f.                        *)
Unlinks(d, f) ==
    \/ pc[d] \in {"openCheck", "deleteLock"} /\ call[d].op = "remove" /\ ptr[d] = f
    \/ pc[d] = "lockVictim" /\ victim[d] = f

(* Once f is unlinked there is no other record of its name to be unlinked  *)
(* instead.                                                                *)
NoneInstead ==
    \A d \in Clients : \A f \in Live :
        Unlinks(d, f) /\ f \notin InTable => hashEntries(abspath[f]) = {}

FreedAreOut == \A f \in FileIds : Freeing(f) # {} => f \notin InTable

(* No two evictions have one victim.                                       *)
OtherVictim ==
    \A c, d \in Clients :
        pc[c] = "freeVictim" /\ pc[d] = "lockVictim" => victim[c] # victim[d]

Unlinked == NoneInstead /\ FreedAreOut /\ OtherVictim /\ NoRecordLost
(* What a handler was asked for decides where it goes.                     *)
LEMMA AskedStep == TypeOK /\ LockDiscipline /\ Asked /\ [Next]_vars => Asked'
<1> SUFFICES ASSUME TypeOK, LockDiscipline, Asked, [Next]_vars PROVE Asked'
    OBVIOUS
<1>0. /\ pc \in [Clients -> Labels]
      /\ call \in [Clients -> Call]
      /\ \A c \in Clients : call[c].op \in Ops /\ NoCall.op \in OpsAt("idle")
    BY DEF TypeOK, LocalTypeOK, Call, NoCall, OpsAt, Ops, ReadNPoints
<1> USE <1>0 DEF Asked, At
<1>1. ASSUME NEW c \in Clients, Request(c) PROVE Asked'
  <2>1. PICK r \in Calls[c] : Request(c)!3!(r)
      BY <1>1 DEF Request
  <2>2. r \in Call
      BY WorkerAssumption
  <2> QED
      BY <1>1, <2>1, <2>2 DEF Request, Call, OpsAt, ReadNPoints, Ops, Goto
<1>2. ASSUME NEW c \in Clients, fileSearch(c) PROVE Asked'
    BY <1>2
      DEF fileSearch, OpsAt, ReadNPoints, Ops, Goto, Return, localVars,
          workVars
<1>3. ASSUME NEW c \in Clients, fileInit(c) PROVE Asked'
    BY <1>3
      DEF fileInit, Fresh, OpsAt, ReadNPoints, Ops, Goto, Return, localVars,
          workVars
<1>4. ASSUME NEW c \in Clients, fileSearchSilent(c) PROVE Asked'
    BY <1>4
      DEF fileSearchSilent, OpsAt, ReadNPoints, Ops, Goto, Return,
          localVars, workVars
<1>5. ASSUME NEW c \in Clients, fileOpen(c) PROVE Asked'
    BY <1>5 DEF fileOpen, OpsAt, ReadNPoints, Ops, Goto, Return, localVars, workVars
<1>6. ASSUME NEW c \in Clients, fileClose(c) PROVE Asked'
    BY <1>6
      DEF fileClose, clientPidDelete, OpsAt, ReadNPoints, Ops, Goto, Return,
          localVars, workVars
<1>7. ASSUME NEW c \in Clients, fileOpenCheck(c) PROVE Asked'
    BY <1>7
      DEF fileOpenCheck, hasOpen, OpsAt, ReadNPoints, Ops, Goto, Return,
          localVars, workVars
<1>8. ASSUME NEW c \in Clients, Refuse(c) PROVE Asked'
    BY <1>8 DEF Refuse, OpsAt, ReadNPoints, Ops, Goto, Return, localVars, workVars
<1>9. ASSUME NEW c \in Clients, sendFile(c) PROVE Asked'
    BY <1>9 DEF sendFile, OpsAt, ReadNPoints, Ops, Goto, Return, localVars, workVars
<1>10. ASSUME NEW c \in Clients, sendFileEnd(c) PROVE Asked'
    BY <1>10
      DEF sendFileEnd, OpsAt, ReadNPoints, Ops, Goto, Return, localVars,
          workVars
<1>11. ASSUME NEW c \in Clients, fileNRead(c) PROVE Asked'
    BY <1>11
      DEF fileNRead, OpsAt, ReadNPoints, Ops, Goto, Return, localVars,
          workVars
<1>12. ASSUME NEW c \in Clients, arrayRandomPermutation(c) PROVE Asked'
    BY <1>12
      DEF arrayRandomPermutation, OpsAt, ReadNPoints, Ops, Goto, Return,
          localVars, workVars
<1>13. ASSUME NEW c \in Clients, fileNReadAll(c) PROVE Asked'
    BY <1>13
      DEF fileNReadAll, OpsAt, ReadNPoints, Ops, Goto, Return, localVars,
          workVars
<1>14. ASSUME NEW c \in Clients, fileNReadNext(c) PROVE Asked'
    BY <1>14
      DEF fileNReadNext, OpsAt, ReadNPoints, Ops, Goto, Return, localVars,
          workVars
<1>15. ASSUME NEW c \in Clients, fileNReadName(c) PROVE Asked'
    BY <1>15
      DEF fileNReadName, OpsAt, ReadNPoints, Ops, Goto, Return, localVars,
          workVars
<1>16. ASSUME NEW c \in Clients, fileWrite(c) PROVE Asked'
    BY <1>16
      DEF fileWrite, refuseWrite, OpsAt, ReadNPoints, Ops, Goto, Return,
          localVars, workVars
<1>17. ASSUME NEW c \in Clients, FileNUpdate(c) PROVE Asked'
    BY <1>17
      DEF FileNUpdate, OpsAt, ReadNPoints, Ops, Goto, Return, localVars,
          workVars
<1>18. ASSUME NEW c \in Clients, pageGet(c) PROVE Asked'
    BY <1>18 DEF pageGet, OpsAt, ReadNPoints, Ops, Goto, Return, localVars, workVars
<1>19. ASSUME NEW c \in Clients, fileWriteEnd(c) PROVE Asked'
    BY <1>19
      DEF fileWriteEnd, OpsAt, ReadNPoints, Ops, Goto, Return, localVars,
          workVars
<1>20. ASSUME NEW c \in Clients, fileAppend(c) PROVE Asked'
    BY <1>20
      DEF fileAppend, OpsAt, ReadNPoints, Ops, Goto, Return, localVars,
          workVars
<1>21. ASSUME NEW c \in Clients, fileAppendEnd(c) PROVE Asked'
    BY <1>21
      DEF fileAppendEnd, OpsAt, ReadNPoints, Ops, Goto, Return, localVars,
          workVars
<1>22. ASSUME NEW c \in Clients, fileDelete(c) PROVE Asked'
    BY <1>22
      DEF fileDelete, OpsAt, ReadNPoints, Ops, Goto, Return, localVars,
          workVars
<1>23. ASSUME NEW c \in Clients, fileDeleteEnd(c) PROVE Asked'
    BY <1>23
      DEF fileDeleteEnd, fileFree, freeFault, OpsAt, ReadNPoints, Ops, Goto,
          Return, localVars, workVars
<1>24. ASSUME NEW c \in Clients, fileDeleteFIFO(c) PROVE Asked'
    BY <1>24
      DEF fileDeleteFIFO, OpsAt, ReadNPoints, Ops, Goto, Return, localVars,
          workVars
<1>25. ASSUME NEW c \in Clients, unlinkVictim(c) PROVE Asked'
    BY <1>25
      DEF unlinkVictim, OpsAt, ReadNPoints, Ops, Goto, Return, localVars,
          workVars
<1>26. ASSUME NEW c \in Clients, freeVictim(c) PROVE Asked'
    BY <1>26
      DEF freeVictim, fileFree, freeFault, OpsAt, ReadNPoints, Ops, Goto,
          Return, localVars, workVars
<1>27. ASSUME NEW c \in Clients, FileNDecrease(c) PROVE Asked'
    BY <1>27
      DEF FileNDecrease, OpsAt, ReadNPoints, Ops, Goto, Return, localVars,
          workVars
<1>28. ASSUME NEW c \in Clients, Faults(c) PROVE Asked'
  <2>1. UNCHANGED <<listVars, fileVars, lockVars, pc, localVars>>
      BY <1>28 DEF Faults, Stops, StaleDeref, freeListed, TopFault, ReadFault, AppendFault, Fault
  <2> QED
      BY <2>1 DEF localVars
<1>29. ASSUME NEW c \in Clients, freeLocked(c) PROVE Asked'
    BY <1>29, FreeLockedIs
<1>30. CASE UNCHANGED vars
    BY <1>30 DEF vars, storeVars, localVars
<1> QED
    BY <1>1, <1>2, <1>3, <1>4, <1>5, <1>6, <1>7, <1>8, <1>9, <1>10, <1>11, <1>12,
       <1>13, <1>14, <1>15, <1>16, <1>17, <1>18, <1>19, <1>20, <1>21, <1>22,
       <1>23, <1>24, <1>25, <1>26, <1>27, <1>28, <1>29, <1>30, HandlerIs
      DEF Next, OpenCalls, ReadCalls, WriteCalls, Evictions

(* A search returns NULL when no record of the table has the name, and     *)
(* otherwise a record of the table that has it, whose place is the one     *)
(* that hashTbRemove empties.                                              *)
LEMMA SearchFinds ==
    ASSUME table \in Seq(FileIds), NULL \notin FileIds, NEW n
    PROVE  /\ hashTbSearch(n) = NULL <=> hashEntries(n) = {}
           /\ hashTbSearch(n) # NULL =>
                  \E i \in hashEntries(n) : /\ hashTbSearch(n) = table[i]
                                            /\ hashTbRemove(n) = RemoveAt(table, i)
           /\ hashEntries(n) = {} => hashTbRemove(n) = table
           /\ hashTbSearch(n) \in FileIds => hashTbSearch(n) \in InTable /\ abspath[hashTbSearch(n)] = n
<1>1. hashEntries(n) \subseteq 1 .. Len(table) /\ hashEntries(n) \in SUBSET Int
    BY DEF hashEntries
<1>2. Len(table) \in Nat /\ DOMAIN table = 1 .. Len(table) /\ \A i \in 1 .. Len(table) : table[i] \in FileIds
    BY LenProperties, ElementOfSeq
<1>3. IsFiniteSet(hashEntries(n))
  <2>1. IsFiniteSet(1 .. Len(table))
      BY <1>2, FS_Interval
  <2> QED
      BY <1>1, <2>1, FS_Subset
<1>4. hashEntries(n) # {} => Min(hashEntries(n)) \in hashEntries(n)
    BY <1>1, <1>3, MinIsMember
<1>5. \A i \in hashEntries(n) : table[i] \in FileIds /\ table[i] \in InTable /\ abspath[table[i]] = n
    BY <1>1, <1>2 DEF hashEntries, InTable, ToSet
<1> QED
    BY <1>4, <1>5 DEF hashTbSearch, hashTbRemove

(* A handler keeps the record it found by name.                            *)
LEMMA OwnNameStep == TypeOK /\ LockDiscipline /\ Asked /\ OwnName /\ [Next]_vars => OwnName'
<1> SUFFICES ASSUME TypeOK, LockDiscipline, Asked, OwnName, [Next]_vars PROVE OwnName'
    OBVIOUS
<1>0. /\ pc \in [Clients -> Labels]
      /\ call \in [Clients -> Call]
      /\ ptr \in [Clients -> FileIds \cup {NULL}]
      /\ heap \in [FileIds -> {"free", "live"}]
      /\ abspath \in [FileIds -> Names \cup {NULL}]
      /\ table \in Seq(FileIds)
      /\ NULL \notin FileIds
      /\ \A c \in Clients : pc[c] = "freeOwn" => ptr[c] \in FileIds
      /\ \A c \in Clients : pc[c] = "freeVictim" => victim[c] \in FileIds
      /\ \A c \in Clients : pc[c] = "nextFile" => call[c].op = "readN"
      /\ \A c \in Clients : pc[c] = "fileInit" => ptr[c] = NULL
    BY FileMemoryAssumption DEF TypeOK, StoreTypeOK, LocalTypeOK, LockDiscipline, Asked, OpsAt, ReadNPoints, OwnName, Unread
<1> USE <1>0 DEF OwnName, Unread, At
<1>1. ASSUME NEW c \in Clients, Request(c) PROVE OwnName'
    BY <1>1 DEF Request, Goto, Return, storeVars, fileVars, localVars, workVars
<1>2. ASSUME NEW c \in Clients, fileSearch(c) PROVE OwnName'
    BY <1>2 DEF fileSearch, Goto, Return, storeVars, fileVars, localVars, workVars
<1>3. ASSUME NEW c \in Clients, fileInit(c) PROVE OwnName'
    BY <1>3
      DEF fileInit, Fresh, Goto, Return, storeVars, fileVars, localVars,
          workVars
<1>4. ASSUME NEW c \in Clients, fileSearchSilent(c) PROVE OwnName'
  <2>1. hashTbSearch(call[c].name) \in FileIds => abspath[hashTbSearch(call[c].name)] = call[c].name
      BY SearchFinds
  <2>2. UNCHANGED <<heap, abspath>> /\ pc[c] = "lookup"
      BY <1>4 DEF fileSearchSilent, storeVars, fileVars
  <2>3. CASE Return(c)
      BY <2>2, <2>3 DEF Return
  <2>4. CASE ~Return(c)
    <3>1. /\ ptr' = [ptr EXCEPT ![c] = hashTbSearch(call[c].name)]
          /\ UNCHANGED call
          /\ \E l \in Labels \ Unread : pc' = [pc EXCEPT ![c] = l]
        BY <1>4, <2>4, LabelTypes DEF fileSearchSilent, Goto
    <3> QED
        BY <2>1, <2>2, <3>1
  <2> QED
      BY <2>3, <2>4
<1>5. ASSUME NEW c \in Clients, fileOpen(c) PROVE OwnName'
    BY <1>5 DEF fileOpen, Goto, Return, storeVars, fileVars, localVars, workVars
<1>6. ASSUME NEW c \in Clients, fileClose(c) PROVE OwnName'
    BY <1>6
      DEF fileClose, clientPidDelete, Goto, Return, storeVars, fileVars,
          localVars, workVars
<1>7. ASSUME NEW c \in Clients, fileOpenCheck(c) PROVE OwnName'
    BY <1>7
      DEF fileOpenCheck, hasOpen, Goto, Return, storeVars, fileVars,
          localVars, workVars
<1>8. ASSUME NEW c \in Clients, Refuse(c) PROVE OwnName'
    BY <1>8 DEF Refuse, Goto, Return, storeVars, fileVars, localVars, workVars
<1>9. ASSUME NEW c \in Clients, sendFile(c) PROVE OwnName'
    BY <1>9 DEF sendFile, Goto, Return, storeVars, fileVars, localVars, workVars
<1>10. ASSUME NEW c \in Clients, sendFileEnd(c) PROVE OwnName'
    BY <1>10 DEF sendFileEnd, Goto, Return, storeVars, fileVars, localVars, workVars
<1>11. ASSUME NEW c \in Clients, fileNRead(c) PROVE OwnName'
    BY <1>11 DEF fileNRead, Goto, Return, storeVars, fileVars, localVars, workVars
<1>12. ASSUME NEW c \in Clients, arrayRandomPermutation(c) PROVE OwnName'
    BY <1>12
      DEF arrayRandomPermutation, Goto, Return, storeVars, fileVars,
          localVars, workVars
<1>13. ASSUME NEW c \in Clients, fileNReadAll(c) PROVE OwnName'
    BY <1>13
      DEF fileNReadAll, Goto, Return, storeVars, fileVars, localVars,
          workVars
<1>14. ASSUME NEW c \in Clients, fileNReadNext(c) PROVE OwnName'
    BY <1>14
      DEF fileNReadNext, Goto, Return, storeVars, fileVars, localVars,
          workVars
<1>15. ASSUME NEW c \in Clients, fileNReadName(c) PROVE OwnName'
    BY <1>15
      DEF fileNReadName, Goto, Return, storeVars, fileVars, localVars,
          workVars
<1>16. ASSUME NEW c \in Clients, fileWrite(c) PROVE OwnName'
    BY <1>16
      DEF fileWrite, refuseWrite, Goto, Return, storeVars, fileVars,
          localVars, workVars
<1>17. ASSUME NEW c \in Clients, FileNUpdate(c) PROVE OwnName'
    BY <1>17 DEF FileNUpdate, Goto, Return, storeVars, fileVars, localVars, workVars
<1>18. ASSUME NEW c \in Clients, pageGet(c) PROVE OwnName'
    BY <1>18 DEF pageGet, Goto, Return, storeVars, fileVars, localVars, workVars
<1>19. ASSUME NEW c \in Clients, fileWriteEnd(c) PROVE OwnName'
    BY <1>19
      DEF fileWriteEnd, Goto, Return, storeVars, fileVars, localVars,
          workVars
<1>20. ASSUME NEW c \in Clients, fileAppend(c) PROVE OwnName'
    BY <1>20 DEF fileAppend, Goto, Return, storeVars, fileVars, localVars, workVars
<1>21. ASSUME NEW c \in Clients, fileAppendEnd(c) PROVE OwnName'
    BY <1>21
      DEF fileAppendEnd, Goto, Return, storeVars, fileVars, localVars,
          workVars
<1>22. ASSUME NEW c \in Clients, fileDelete(c) PROVE OwnName'
    BY <1>22 DEF fileDelete, Goto, Return, storeVars, fileVars, localVars, workVars
<1>23. ASSUME NEW c \in Clients, fileDeleteEnd(c) PROVE OwnName'
    BY <1>23
      DEF fileDeleteEnd, fileFree, freeFault, Goto, Return, storeVars,
          fileVars, localVars, workVars
<1>24. ASSUME NEW c \in Clients, fileDeleteFIFO(c) PROVE OwnName'
    BY <1>24
      DEF fileDeleteFIFO, Goto, Return, storeVars, fileVars, localVars,
          workVars
<1>25. ASSUME NEW c \in Clients, unlinkVictim(c) PROVE OwnName'
    BY <1>25
      DEF unlinkVictim, Goto, Return, storeVars, fileVars, localVars,
          workVars
<1>26. ASSUME NEW c \in Clients, freeVictim(c) PROVE OwnName'
    BY <1>26
      DEF freeVictim, fileFree, freeFault, Goto, Return, storeVars,
          fileVars, localVars, workVars
<1>27. ASSUME NEW c \in Clients, FileNDecrease(c) PROVE OwnName'
    BY <1>27
      DEF FileNDecrease, Goto, Return, storeVars, fileVars, localVars,
          workVars
<1>28. ASSUME NEW c \in Clients, Faults(c) PROVE OwnName'
  <2>1. UNCHANGED <<listVars, fileVars, lockVars, pc, localVars>>
      BY <1>28 DEF Faults, Stops, StaleDeref, freeListed, TopFault, ReadFault, AppendFault, Fault
  <2> QED
      BY <2>1 DEF fileVars, localVars
<1>29. ASSUME NEW c \in Clients, freeLocked(c) PROVE OwnName'
  <2>1. PICK f \in FileIds : fileFree(f) /\ UNCHANGED <<pc, call, ptr>>
      BY <1>29, FreeLockedIs
  <2>2. /\ heap' = [heap EXCEPT ![f] = "free"]
        /\ abspath' = [abspath EXCEPT ![f] = NULL]
      BY <2>1 DEF fileFree
  <2> QED
      BY <2>1, <2>2
<1>30. CASE UNCHANGED vars
    BY <1>30 DEF vars, storeVars, fileVars, localVars
<1> QED
    BY <1>1, <1>2, <1>3, <1>4, <1>5, <1>6, <1>7, <1>8, <1>9, <1>10, <1>11, <1>12,
       <1>13, <1>14, <1>15, <1>16, <1>17, <1>18, <1>19, <1>20, <1>21, <1>22,
       <1>23, <1>24, <1>25, <1>26, <1>27, <1>28, <1>29, <1>30, HandlerIs
      DEF Next, OpenCalls, ReadCalls, WriteCalls, Evictions

(* The size of a record being written is what fileWrite or fileAppend made *)
(* it; nobody else writes to the record.                                   *)
LEMMA NewSizeStep == TypeOK /\ LockDiscipline /\ Asked /\ NewSize /\ [Next]_vars => NewSize'
<1> SUFFICES ASSUME TypeOK, LockDiscipline, Asked, NewSize, [Next]_vars PROVE NewSize'
    OBVIOUS
<1>0. /\ pc \in [Clients -> Labels]
      /\ call \in [Clients -> Call]
      /\ ptr \in [Clients -> FileIds \cup {NULL}]
      /\ size \in [FileIds -> Nat]
      /\ mutex \in [FileIds -> Owner]
      /\ NULL \notin Clients
      /\ Cardinality(Pages) \in Nat
      /\ \A c \in Clients :
            /\ call[c].n \in Nat
            /\ pc[c] = "freeOwn" => ptr[c] \in FileIds
            /\ pc[c] = "freeVictim" => victim[c] \in FileIds
            /\ pc[c] = "writeLock" => call[c].op = "write"
            /\ pc[c] = "appendLock" => call[c].op = "append"
            /\ pc[c] \in Writing => ptr[c] \in FileIds /\ mutex[ptr[c]] = c
  <2>1. Cardinality(Pages) \in Nat
      BY FileMemoryAssumption, FS_CardinalityType
  <2>2. \A c \in Clients : /\ pc[c] = "writeLock" => call[c].op = "write"
                           /\ pc[c] = "appendLock" => call[c].op = "append"
      BY DEF Asked, OpsAt, ReadNPoints
  <2>3. \A c \in Clients : /\ pc[c] = "freeOwn" => ptr[c] \in FileIds
                           /\ pc[c] = "freeVictim" => victim[c] \in FileIds
                           /\ pc[c] \in Writing => ptr[c] \in FileIds /\ mutex[ptr[c]] = c
      BY DEF LockDiscipline
  <2>4. \A c \in Clients : call[c].n \in Nat
      BY DEF TypeOK, LocalTypeOK, Call
  <2> QED
      BY <2>1, <2>2, <2>3, <2>4, FileMemoryAssumption DEF TypeOK, StoreTypeOK, LocalTypeOK
<1> USE <1>0 DEF NewSize, Writing, At
<1>1. ASSUME NEW c \in Clients, Request(c) PROVE NewSize'
    BY <1>1 DEF Request, Goto, Return, storeVars, fileVars, localVars, workVars
<1>2. ASSUME NEW c \in Clients, fileSearch(c) PROVE NewSize'
    BY <1>2 DEF fileSearch, Goto, Return, storeVars, fileVars, localVars, workVars
<1>3. ASSUME NEW c \in Clients, fileInit(c) PROVE NewSize'
    BY <1>3
      DEF fileInit, Fresh, Goto, Return, storeVars, fileVars, localVars,
          workVars
<1>4. ASSUME NEW c \in Clients, fileSearchSilent(c) PROVE NewSize'
    BY <1>4
      DEF fileSearchSilent, Goto, Return, storeVars, fileVars, localVars,
          workVars
<1>5. ASSUME NEW c \in Clients, fileOpen(c) PROVE NewSize'
    BY <1>5 DEF fileOpen, Goto, Return, storeVars, fileVars, localVars, workVars
<1>6. ASSUME NEW c \in Clients, fileClose(c) PROVE NewSize'
    BY <1>6
      DEF fileClose, clientPidDelete, Goto, Return, storeVars, fileVars,
          localVars, workVars
<1>7. ASSUME NEW c \in Clients, fileOpenCheck(c) PROVE NewSize'
    BY <1>7
      DEF fileOpenCheck, hasOpen, Goto, Return, storeVars, fileVars,
          localVars, workVars
<1>8. ASSUME NEW c \in Clients, Refuse(c) PROVE NewSize'
    BY <1>8 DEF Refuse, Goto, Return, storeVars, fileVars, localVars, workVars
<1>9. ASSUME NEW c \in Clients, sendFile(c) PROVE NewSize'
    BY <1>9 DEF sendFile, Goto, Return, storeVars, fileVars, localVars, workVars
<1>10. ASSUME NEW c \in Clients, sendFileEnd(c) PROVE NewSize'
    BY <1>10 DEF sendFileEnd, Goto, Return, storeVars, fileVars, localVars, workVars
<1>11. ASSUME NEW c \in Clients, fileNRead(c) PROVE NewSize'
    BY <1>11 DEF fileNRead, Goto, Return, storeVars, fileVars, localVars, workVars
<1>12. ASSUME NEW c \in Clients, arrayRandomPermutation(c) PROVE NewSize'
    BY <1>12
      DEF arrayRandomPermutation, Goto, Return, storeVars, fileVars,
          localVars, workVars
<1>13. ASSUME NEW c \in Clients, fileNReadAll(c) PROVE NewSize'
    BY <1>13
      DEF fileNReadAll, Goto, Return, storeVars, fileVars, localVars,
          workVars
<1>14. ASSUME NEW c \in Clients, fileNReadNext(c) PROVE NewSize'
  <2>1. UNCHANGED <<size, status>> /\ pc[c] = "nextFile"
      BY <1>14 DEF fileNReadNext, storeVars, fileVars
  <2>2. \A d \in Clients : pc'[d] \in Writing =>
            pc[d] \in Writing /\ call'[d] = call[d] /\ ptr'[d] = ptr[d]
      BY <1>14 DEF fileNReadNext, Goto, Return
  <2> QED
      BY <2>1, <2>2
<1>15. ASSUME NEW c \in Clients, fileNReadName(c) PROVE NewSize'
    BY <1>15
      DEF fileNReadName, Goto, Return, storeVars, fileVars, localVars,
          workVars
<1>16. ASSUME NEW c \in Clients, fileWrite(c) PROVE NewSize'
  <2>1. CASE Return(c)
      BY <1>16, <2>1 DEF fileWrite, refuseWrite, Return, Goto
  <2>2. CASE ~Return(c)
    <3>1. /\ CanLock(ptr[c]) /\ pc[c] = "writeLock" /\ call[c].n <= Cardinality(Pages)
          /\ size' = [size EXCEPT ![ptr[c]] = call[c].n]
          /\ pc' = [pc EXCEPT ![c] = "fileN"]
          /\ UNCHANGED <<ptr, call, status>>
        BY <1>16, <2>2 DEF fileWrite, refuseWrite, writeRefused, Goto, localVars
    <3> QED
        BY <3>1 DEF CanLock
  <2> QED
      BY <2>1, <2>2
<1>17. ASSUME NEW c \in Clients, FileNUpdate(c) PROVE NewSize'
    BY <1>17 DEF FileNUpdate, Goto, Return, storeVars, fileVars, localVars, workVars
<1>18. ASSUME NEW c \in Clients, pageGet(c) PROVE NewSize'
    BY <1>18 DEF pageGet, Goto, Return, storeVars, fileVars, localVars, workVars
<1>19. ASSUME NEW c \in Clients, fileWriteEnd(c) PROVE NewSize'
    BY <1>19
      DEF fileWriteEnd, Goto, Return, storeVars, fileVars, localVars,
          workVars
<1>20. ASSUME NEW c \in Clients, fileAppend(c) PROVE NewSize'
  <2>1. CASE Return(c)
      BY <1>20, <2>1 DEF fileAppend, Return, Goto
  <2>2. CASE ~Return(c)
    <3>1. /\ CanLock(ptr[c]) /\ pc[c] = "appendLock" /\ size[ptr[c]] + call[c].n <= Cardinality(Pages)
          /\ size' = [size EXCEPT ![ptr[c]] = size[ptr[c]] + call[c].n]
          /\ pc' = [pc EXCEPT ![c] = "pageGet"]
          /\ UNCHANGED <<ptr, call, status>>
        BY <1>20, <2>2 DEF fileAppend, Goto, localVars
    <3> QED
        BY <3>1 DEF CanLock
  <2> QED
      BY <2>1, <2>2
<1>21. ASSUME NEW c \in Clients, fileAppendEnd(c) PROVE NewSize'
    BY <1>21
      DEF fileAppendEnd, Goto, Return, storeVars, fileVars, localVars,
          workVars
<1>22. ASSUME NEW c \in Clients, fileDelete(c) PROVE NewSize'
    BY <1>22 DEF fileDelete, Goto, Return, storeVars, fileVars, localVars, workVars
<1>23. ASSUME NEW c \in Clients, fileDeleteEnd(c) PROVE NewSize'
    BY <1>23
      DEF fileDeleteEnd, fileFree, freeFault, Goto, Return, storeVars,
          fileVars, localVars, workVars
<1>24. ASSUME NEW c \in Clients, fileDeleteFIFO(c) PROVE NewSize'
    BY <1>24
      DEF fileDeleteFIFO, Goto, Return, storeVars, fileVars, localVars,
          workVars
<1>25. ASSUME NEW c \in Clients, unlinkVictim(c) PROVE NewSize'
    BY <1>25
      DEF unlinkVictim, Goto, Return, storeVars, fileVars, localVars,
          workVars
<1>26. ASSUME NEW c \in Clients, freeVictim(c) PROVE NewSize'
    BY <1>26
      DEF freeVictim, fileFree, freeFault, Goto, Return, storeVars,
          fileVars, localVars, workVars
<1>27. ASSUME NEW c \in Clients, FileNDecrease(c) PROVE NewSize'
    BY <1>27
      DEF FileNDecrease, Goto, Return, storeVars, fileVars, localVars,
          workVars
<1>28. ASSUME NEW c \in Clients, Faults(c) PROVE NewSize'
  <2>1. status = "running" /\ UNCHANGED <<fileVars, pc, localVars>>
      BY <1>28 DEF Faults, Stops, StaleDeref, freeListed, TopFault, ReadFault, AppendFault, Fault
  <2> QED
      BY <2>1 DEF fileVars, localVars
<1>29. ASSUME NEW c \in Clients, freeLocked(c) PROVE NewSize'
    BY <1>29, FreeLockedIs
<1>30. CASE UNCHANGED vars
    BY <1>30 DEF vars, storeVars, fileVars, localVars
<1> QED
    BY <1>1, <1>2, <1>3, <1>4, <1>5, <1>6, <1>7, <1>8, <1>9, <1>10, <1>11, <1>12,
       <1>13, <1>14, <1>15, <1>16, <1>17, <1>18, <1>19, <1>20, <1>21, <1>22,
       <1>23, <1>24, <1>25, <1>26, <1>27, <1>28, <1>29, <1>30, HandlerIs
      DEF Next, OpenCalls, ReadCalls, WriteCalls, Evictions

(* filestack_mutex is held from the choice of a victim to its unlinking.   *)
LEMMA OneEvictionStep == TypeOK /\ LockDiscipline /\ OneEviction /\ [Next]_vars => OneEviction'
<1> SUFFICES ASSUME TypeOK, LockDiscipline, OneEviction, [Next]_vars PROVE OneEviction'
    OBVIOUS
<1>0. /\ pc \in [Clients -> Labels]
      /\ NULL \notin Clients
    BY FileMemoryAssumption DEF TypeOK, LocalTypeOK
<1> USE <1>0 DEF OneEviction, At
<1>1. ASSUME NEW c \in Clients, Request(c) PROVE OneEviction'
    BY <1>1 DEF Request, Goto, Return, storeVars, lockVars, localVars, workVars
<1>2. ASSUME NEW c \in Clients, fileSearch(c) PROVE OneEviction'
    BY <1>2 DEF fileSearch, Goto, Return, storeVars, lockVars, localVars, workVars
<1>3. ASSUME NEW c \in Clients, fileInit(c) PROVE OneEviction'
    BY <1>3
      DEF fileInit, Fresh, Goto, Return, storeVars, lockVars, localVars,
          workVars
<1>4. ASSUME NEW c \in Clients, fileSearchSilent(c) PROVE OneEviction'
    BY <1>4
      DEF fileSearchSilent, Goto, Return, storeVars, lockVars, localVars,
          workVars
<1>5. ASSUME NEW c \in Clients, fileOpen(c) PROVE OneEviction'
    BY <1>5 DEF fileOpen, Goto, Return, storeVars, lockVars, localVars, workVars
<1>6. ASSUME NEW c \in Clients, fileClose(c) PROVE OneEviction'
    BY <1>6
      DEF fileClose, clientPidDelete, Goto, Return, storeVars, lockVars,
          localVars, workVars
<1>7. ASSUME NEW c \in Clients, fileOpenCheck(c) PROVE OneEviction'
    BY <1>7
      DEF fileOpenCheck, hasOpen, Goto, Return, storeVars, lockVars,
          localVars, workVars
<1>8. ASSUME NEW c \in Clients, Refuse(c) PROVE OneEviction'
    BY <1>8 DEF Refuse, Goto, Return, storeVars, lockVars, localVars, workVars
<1>9. ASSUME NEW c \in Clients, sendFile(c) PROVE OneEviction'
    BY <1>9 DEF sendFile, Goto, Return, storeVars, lockVars, localVars, workVars
<1>10. ASSUME NEW c \in Clients, sendFileEnd(c) PROVE OneEviction'
    BY <1>10 DEF sendFileEnd, Goto, Return, storeVars, lockVars, localVars, workVars
<1>11. ASSUME NEW c \in Clients, fileNRead(c) PROVE OneEviction'
    BY <1>11 DEF fileNRead, Goto, Return, storeVars, lockVars, localVars, workVars
<1>12. ASSUME NEW c \in Clients, arrayRandomPermutation(c) PROVE OneEviction'
    BY <1>12
      DEF arrayRandomPermutation, Goto, Return, storeVars, lockVars,
          localVars, workVars
<1>13. ASSUME NEW c \in Clients, fileNReadAll(c) PROVE OneEviction'
    BY <1>13
      DEF fileNReadAll, Goto, Return, storeVars, lockVars, localVars,
          workVars
<1>14. ASSUME NEW c \in Clients, fileNReadNext(c) PROVE OneEviction'
    BY <1>14
      DEF fileNReadNext, Goto, Return, storeVars, lockVars, localVars,
          workVars
<1>15. ASSUME NEW c \in Clients, fileNReadName(c) PROVE OneEviction'
    BY <1>15
      DEF fileNReadName, Goto, Return, storeVars, lockVars, localVars,
          workVars
<1>16. ASSUME NEW c \in Clients, fileWrite(c) PROVE OneEviction'
    BY <1>16
      DEF fileWrite, refuseWrite, Goto, Return, storeVars, lockVars,
          localVars, workVars
<1>17. ASSUME NEW c \in Clients, FileNUpdate(c) PROVE OneEviction'
    BY <1>17 DEF FileNUpdate, Goto, Return, storeVars, lockVars, localVars, workVars
<1>18. ASSUME NEW c \in Clients, pageGet(c) PROVE OneEviction'
    BY <1>18 DEF pageGet, Goto, Return, storeVars, lockVars, localVars, workVars
<1>19. ASSUME NEW c \in Clients, fileWriteEnd(c) PROVE OneEviction'
    BY <1>19
      DEF fileWriteEnd, Goto, Return, storeVars, lockVars, localVars,
          workVars
<1>20. ASSUME NEW c \in Clients, fileAppend(c) PROVE OneEviction'
    BY <1>20 DEF fileAppend, Goto, Return, storeVars, lockVars, localVars, workVars
<1>21. ASSUME NEW c \in Clients, fileAppendEnd(c) PROVE OneEviction'
    BY <1>21
      DEF fileAppendEnd, Goto, Return, storeVars, lockVars, localVars,
          workVars
<1>22. ASSUME NEW c \in Clients, fileDelete(c) PROVE OneEviction'
    BY <1>22 DEF fileDelete, Goto, Return, storeVars, lockVars, localVars, workVars
<1>23. ASSUME NEW c \in Clients, fileDeleteEnd(c) PROVE OneEviction'
    BY <1>23
      DEF fileDeleteEnd, fileFree, freeFault, Goto, Return, storeVars,
          lockVars, localVars, workVars
<1>24. ASSUME NEW c \in Clients, fileDeleteFIFO(c) PROVE OneEviction'
    BY <1>24
      DEF fileDeleteFIFO, Goto, Return, storeVars, lockVars, localVars,
          workVars
<1>25. ASSUME NEW c \in Clients, unlinkVictim(c) PROVE OneEviction'
    BY <1>25
      DEF unlinkVictim, Goto, Return, storeVars, lockVars, localVars,
          workVars
<1>26. ASSUME NEW c \in Clients, freeVictim(c) PROVE OneEviction'
    BY <1>26
      DEF freeVictim, fileFree, freeFault, Goto, Return, storeVars,
          lockVars, localVars, workVars
<1>27. ASSUME NEW c \in Clients, FileNDecrease(c) PROVE OneEviction'
    BY <1>27
      DEF FileNDecrease, Goto, Return, storeVars, lockVars, localVars,
          workVars
<1>28. ASSUME NEW c \in Clients, Faults(c) PROVE OneEviction'
  <2>1. UNCHANGED <<listVars, fileVars, lockVars, pc, localVars>>
      BY <1>28 DEF Faults, Stops, StaleDeref, freeListed, TopFault, ReadFault, AppendFault, Fault
  <2> QED
      BY <2>1 DEF lockVars, localVars
<1>29. ASSUME NEW c \in Clients, freeLocked(c) PROVE OneEviction'
    BY <1>29, FreeLockedIs
<1>30. CASE UNCHANGED vars
    BY <1>30 DEF vars, storeVars, lockVars, localVars
<1> QED
    BY <1>1, <1>2, <1>3, <1>4, <1>5, <1>6, <1>7, <1>8, <1>9, <1>10, <1>11, <1>12,
       <1>13, <1>14, <1>15, <1>16, <1>17, <1>18, <1>19, <1>20, <1>21, <1>22,
       <1>23, <1>24, <1>25, <1>26, <1>27, <1>28, <1>29, <1>30, HandlerIs
      DEF Next, OpenCalls, ReadCalls, WriteCalls, Evictions

(* What handlers were asked for, for every set of calls.                   *)
LEMMA RequestsHold == Spec => [](TypeOK /\ LockDiscipline /\ Requests)
<1>1. Init => Requests
  <2> SUFFICES ASSUME Init PROVE Requests
      OBVIOUS
  <2>1. Asked
      BY DEF Init, Asked, OpsAt, ReadNPoints, NoCall, Ops
  <2>2. OwnName
      BY DEF Init, StoreInit, OwnName, Unread, NoCall
  <2>3. NewSize /\ OneEviction
      BY DEF Init, NewSize, OneEviction, Writing
  <2> QED
      BY <2>1, <2>2, <2>3 DEF Requests
<1>2. TypeOK /\ LockDiscipline /\ Requests /\ [Next]_vars => Requests'
    BY AskedStep, OwnNameStep, NewSizeStep, OneEvictionStep DEF Requests
<1> QED
    BY <1>1, <1>2, LocksCorrect, PTL DEF Spec

-----------------------------------------------------------------------------
(* The steps that move records in and out of the table, and the others.    *)

TableSteps(c) ==
    fileInit(c) \/ fileDelete(c) \/ unlinkVictim(c) \/ freeVictim(c) \/ fileDeleteEnd(c)
    \/ freeLocked(c)

(* The other steps leave the table and the names of the records alone.     *)
LEMMA TableFrame ==
    ASSUME NEW c \in Clients, Request(c) \/ Handler(c), ~TableSteps(c)
    PROVE  UNCHANGED <<table, heap, abspath>>
<1> USE DEF TableSteps
<1>1. CASE Request(c)
    BY <1>1 DEF Request, storeVars, listVars, fileVars
<1>2. CASE OpenCalls(c)
    BY <1>2 DEF OpenCalls, fileSearch, fileSearchSilent, fileOpen, fileClose, fileOpenCheck,
                Refuse, storeVars, listVars, fileVars
<1>3. CASE ReadCalls(c)
    BY <1>3 DEF ReadCalls, sendFile, sendFileEnd, fileNRead, arrayRandomPermutation,
                fileNReadAll, fileNReadNext, fileNReadName, storeVars, listVars, fileVars
<1>4. CASE WriteCalls(c)
    BY <1>4 DEF WriteCalls, fileWrite, FileNUpdate, pageGet, fileWriteEnd, fileAppend,
                fileAppendEnd, storeVars, listVars, fileVars
<1>5. CASE Evictions(c)
    BY <1>5 DEF Evictions, fileDeleteFIFO, FileNDecrease, storeVars, listVars, fileVars
<1>6. CASE Faults(c)
    BY <1>6 DEF Faults, Stops, StaleDeref, freeListed, TopFault, ReadFault, AppendFault, Fault,
                listVars, fileVars
<1> QED
    BY <1>1, <1>2, <1>3, <1>4, <1>5, <1>6, HandlerIs

(* A handler changes the locals of no other handler.                       *)
LEMMA OthersStay ==
    ASSUME NEW c \in Clients, Request(c) \/ Handler(c), NEW d \in Clients, d # c,
           TypeOK
    PROVE  /\ pc'[d] = pc[d] /\ call'[d] = call[d] /\ ptr'[d] = ptr[d]
           /\ victim'[d] = victim[d] /\ batch'[d] = batch[d]
           /\ want'[d] = want[d] /\ seen'[d] = seen[d]
<1> USE DEF Goto, Return, localVars, workVars
<1>0. /\ pc \in [Clients -> Labels]
      /\ call \in [Clients -> Call]
      /\ ptr \in [Clients -> FileIds \cup {NULL}]
      /\ victim \in [Clients -> FileIds \cup {NULL}]
      /\ batch \in [Clients -> Seq(Names)]
      /\ want \in [Clients -> Int]
      /\ seen \in [Clients -> Nat]
    BY DEF TypeOK, LocalTypeOK
<1> USE <1>0
<1>1. CASE Request(c)
    BY <1>1 DEF Request
<1>2. CASE OpenCalls(c)
    BY <1>2 DEF OpenCalls, fileSearch, fileInit, fileSearchSilent, fileOpen, fileClose,
                fileOpenCheck, Refuse
<1>3. CASE ReadCalls(c)
  <2>1. CASE sendFile(c) \/ sendFileEnd(c) \/ fileNRead(c) \/ fileNReadName(c)
      BY <2>1 DEF sendFile, sendFileEnd, fileNRead, fileNReadName
  <2>2. CASE arrayRandomPermutation(c) \/ fileNReadAll(c)
      BY <2>2 DEF arrayRandomPermutation, fileNReadAll
  <2>3. CASE fileNReadNext(c)
      BY <2>3 DEF fileNReadNext
  <2> QED
      BY <1>3, <2>1, <2>2, <2>3 DEF ReadCalls
<1>4. CASE WriteCalls(c)
    BY <1>4 DEF WriteCalls, fileWrite, refuseWrite, FileNUpdate, pageGet, fileWriteEnd, fileAppend,
                fileAppendEnd, fileDelete, fileDeleteEnd
<1>5. CASE Evictions(c)
    BY <1>5 DEF Evictions, fileDeleteFIFO, unlinkVictim, freeVictim, FileNDecrease
<1>6. CASE Faults(c)
    BY <1>6 DEF Faults, Stops, StaleDeref, freeListed, TopFault, ReadFault, AppendFault, Fault
<1>7. CASE freeLocked(c)
    BY <1>7 DEF freeLocked
<1> QED
    BY <1>1, <1>2, <1>3, <1>4, <1>5, <1>6, <1>7, HandlerIs

(* What fileInit does to the table and to the names.                       *)
LEMMA InitAdds ==
    ASSUME TypeOK, Asked, NEW c \in Clients, fileInit(c)
    PROVE  \E f \in FileIds :
              /\ Fresh(f) /\ heap[f] = "free"
              /\ call[c].op = "create" /\ call[c].name \in Names
              /\ call[c] \in Calls[c]
              /\ table' = <<f>> \o table
              /\ Len(table') = Len(table) + 1 /\ DOMAIN table' = 1 .. Len(table) + 1
              /\ table'[1] = f /\ \A i \in 1 .. Len(table) : table'[i + 1] = table[i]
              /\ heap' = [heap EXCEPT ![f] = "live"]
              /\ abspath' = [abspath EXCEPT ![f] = call[c].name]
              /\ UNCHANGED <<call, ptr, victim>> /\ pc[c] = "fileInit"
              /\ pc' = [pc EXCEPT ![c] = "lookup"]
<1>1. PICK f \in FileIds : /\ Fresh(f)
                           /\ table' = <<f>> \o table
                           /\ heap' = [heap EXCEPT ![f] = "live"]
                           /\ abspath' = [abspath EXCEPT ![f] = call[c].name]
    BY DEF fileInit
<1>2. pc[c] = "fileInit" /\ UNCHANGED <<call, ptr, victim>> /\ pc' = [pc EXCEPT ![c] = "lookup"]
    BY DEF fileInit, At, Goto, localVars
<1>3. call[c].op = "create" /\ call[c] \in Calls[c]
    BY <1>2 DEF Asked, OpsAt, ReadNPoints
<1>4. call[c].name \in Names
    BY <1>3, WorkerAssumption DEF TypeOK, LocalTypeOK, Call
<1>5. /\ Len(table') = Len(table) + 1 /\ DOMAIN table' = 1 .. Len(table) + 1
      /\ table'[1] = f /\ \A i \in 1 .. Len(table) : table'[i + 1] = table[i]
  <2>1. table \in Seq(FileIds) /\ Len(table) \in Nat
      BY LenProperties DEF TypeOK, StoreTypeOK
  <2>2. <<f>> \in Seq(FileIds) /\ Len(<<f>>) = 1 /\ <<f>>[1] = f
      OBVIOUS
  <2>3. /\ <<f>> \o table \in Seq(FileIds) /\ Len(<<f>> \o table) = 1 + Len(table)
        /\ \A i \in 1 .. 1 + Len(table) :
              (<<f>> \o table)[i] = IF i <= 1 THEN <<f>>[i] ELSE table[i - 1]
      BY <2>1, <2>2, ConcatProperties
  <2>4. DOMAIN (<<f>> \o table) = 1 .. Len(table) + 1
      BY <2>1, <2>3, LenProperties
  <2>5. \A i \in 1 .. Len(table) : (<<f>> \o table)[i + 1] = table[i]
    <3>1. \A i \in 1 .. Len(table) : /\ i + 1 \in 1 .. 1 + Len(table)
                                     /\ ~ (i + 1 <= 1) /\ (i + 1) - 1 = i
        BY <2>1
    <3> QED
        BY <2>3, <3>1
  <2>6. (<<f>> \o table)[1] = f
      BY <2>1, <2>2, <2>3
  <2> QED
      BY <1>1, <2>1, <2>3, <2>4, <2>5, <2>6
<1> QED
    BY <1>1, <1>2, <1>3, <1>4, <1>5 DEF Fresh

(* A removal and an eviction unlink, and leave the names as they are.      *)
Unlinker(c) == IF pc[c] = "deleteLock" THEN ptr[c] ELSE victim[c]

(* What they do, in the terms of the record they unlink.                   *)
LEMMA UnlinkRemoves ==
    ASSUME NEW c \in Clients, fileDelete(c) \/ unlinkVictim(c)
    PROVE  /\ CanLock(Unlinker(c)) /\ pc[c] \in {"deleteLock", "lockVictim"}
           /\ table' = hashTbRemove(abspath[Unlinker(c)])
           /\ UNCHANGED <<heap, abspath, call, ptr, victim>>
           /\ pc' = [pc EXCEPT ![c] = IF pc[c] = "deleteLock" THEN "freeOwn" ELSE "freeVictim"]
    BY DEF fileDelete, unlinkVictim, Unlinker, At, Goto, fileVars, localVars

(* The table as a sequence and as a set.                                   *)
LEMMA NotInTable ==
    ASSUME TypeOK, NEW f, ~Contains(table, f)
    PROVE  f \notin InTable
<1>1. DOMAIN table = 1 .. Len(table)
    BY LenProperties DEF TypeOK, StoreTypeOK
<1> QED
    BY <1>1 DEF Contains, InTable, ToSet

(* fileFree clears one record, which is not in the table.                  *)
Freed(c) == IF pc[c] = "freeOwn" THEN ptr[c] ELSE victim[c]

(* It is in the hands of that handler.                                     *)
LEMMA FreeClears ==
    ASSUME TypeOK, LockDiscipline, NEW c \in Clients,
           freeVictim(c) \/ fileDeleteEnd(c) \/ freeLocked(c)
    PROVE  /\ Freed(c) \in FileIds /\ c \in Freeing(Freed(c)) /\ Freed(c) \notin InTable
           /\ heap' = [heap EXCEPT ![Freed(c)] = "free"]
           /\ abspath' = [abspath EXCEPT ![Freed(c)] = NULL]
           /\ UNCHANGED table
<1>1. CASE freeVictim(c) \/ fileDeleteEnd(c)
  <2>1. /\ pc[c] \in {"freeOwn", "freeVictim"} /\ freeFault(Freed(c)) = "none"
        /\ fileFree(Freed(c)) /\ UNCHANGED table
      BY <1>1 DEF freeVictim, fileDeleteEnd, Freed, At
  <2>2. Freed(c) \in FileIds /\ c \in Freeing(Freed(c))
      BY <2>1 DEF Freed, LockDiscipline, Freeing
  <2> QED
      BY <2>1, <2>2, NotInTable DEF fileFree, freeFault
<1>2. CASE freeLocked(c)
    BY <1>2, FreeLockedIs, NotInTable DEF fileFree, Freed, Freeing
<1> QED
    BY <1>1, <1>2

-----------------------------------------------------------------------------
(* The table.                                                              *)

(* What is left of the table when an entry is unlinked.                    *)
LEMMA RemoveEntry ==
    ASSUME TypeOK, IsInjective(table), NEW n
    PROVE  /\ IsInjective(hashTbRemove(n))
           /\ ToSet(hashTbRemove(n)) \subseteq InTable
           /\ InTable \ {hashTbSearch(n)} = ToSet(hashTbRemove(n))
<1>1. table \in Seq(FileIds) /\ NULL \notin FileIds /\ DOMAIN table = 1 .. Len(table)
    BY FileMemoryAssumption, LenProperties DEF TypeOK, StoreTypeOK
<1>2. InTable \subseteq FileIds
    BY <1>1, ElementOfSeq DEF InTable, ToSet
<1>3. CASE hashEntries(n) = {}
    BY <1>1, <1>2, <1>3, SearchFinds DEF InTable
<1>4. CASE hashEntries(n) # {}
  <2>1. PICK i \in hashEntries(n) : hashTbSearch(n) = table[i] /\ hashTbRemove(n) = RemoveAt(table, i)
      BY <1>1, <1>4, SearchFinds
  <2>2. i \in 1 .. Len(table)
      BY DEF hashEntries
  <2> QED
      BY <1>1, <2>1, <2>2, RemoveAtInjective DEF InTable
<1> QED
    BY <1>3, <1>4

(* The entries of the table are allocated records, each of them once.      *)
LEMMA EntriesStep ==
    TypeOK /\ LockDiscipline /\ Asked /\ Entries /\ [Next]_vars => Entries'
<1> SUFFICES ASSUME TypeOK, LockDiscipline, Asked, Entries, [Next]_vars PROVE Entries'
    OBVIOUS
<1>0. /\ heap \in [FileIds -> {"free", "live"}]
      /\ abspath \in [FileIds -> Names \cup {NULL}]
      /\ table \in Seq(FileIds) /\ DOMAIN table = 1 .. Len(table) /\ Len(table) \in Nat
      /\ \A i \in 1 .. Len(table) : /\ table[i] \in FileIds /\ heap[table[i]] = "live"
                                    /\ abspath[table[i]] \in Names
      /\ \A i, j \in 1 .. Len(table) : table[i] = table[j] => i = j
  <2>1. table \in Seq(FileIds) /\ DOMAIN table = 1 .. Len(table) /\ Len(table) \in Nat
      BY LenProperties DEF TypeOK, StoreTypeOK
  <2>2. \A i \in 1 .. Len(table) : table[i] \in FileIds
      BY <2>1, ElementOfSeq
  <2> QED
      BY <2>1, <2>2 DEF TypeOK, StoreTypeOK, Entries, IsInjective
<1>1. ASSUME NEW c \in Clients, fileInit(c) PROVE Entries'
  <2>1. PICK f \in FileIds :
              /\ heap[f] = "free" /\ call[c].name \in Names
              /\ DOMAIN table' = 1 .. Len(table) + 1
              /\ table'[1] = f /\ \A i \in 1 .. Len(table) : table'[i + 1] = table[i]
              /\ heap' = [heap EXCEPT ![f] = "live"]
              /\ abspath' = [abspath EXCEPT ![f] = call[c].name]
      BY <1>1, InitAdds
  <2>2. ASSUME NEW i \in 1 .. Len(table) + 1, i # 1
        PROVE  /\ i - 1 \in 1 .. Len(table) /\ table'[i] = table[i - 1] /\ table'[i] # f
               /\ heap'[table'[i]] = "live" /\ abspath'[table'[i]] \in Names
    <3>1. i - 1 \in 1 .. Len(table) /\ (i - 1) + 1 = i
        BY <1>0, <2>2
    <3>2. table'[i] = table[i - 1]
        BY <2>1, <3>1
    <3> QED
        BY <1>0, <2>1, <3>1, <3>2
  <2>3. \A i \in 1 .. Len(table) + 1 : heap'[table'[i]] = "live" /\ abspath'[table'[i]] \in Names
      BY <1>0, <2>1, <2>2
  <2>4. ASSUME NEW i \in 1 .. Len(table) + 1, NEW j \in 1 .. Len(table) + 1, table'[i] = table'[j]
        PROVE  i = j
    <3>1. CASE i = 1 \/ j = 1
        BY <2>1, <2>2, <2>4, <3>1
    <3>2. CASE i # 1 /\ j # 1
        BY <1>0, <2>2, <2>4, <3>2
    <3> QED
        BY <3>1, <3>2
  <2> QED
      BY <2>1, <2>3, <2>4 DEF Entries, IsInjective
<1>2. ASSUME NEW c \in Clients, fileDelete(c) \/ unlinkVictim(c) PROVE Entries'
  <2> DEFINE n == abspath[Unlinker(c)]
  <2>1. table' = hashTbRemove(n) /\ UNCHANGED <<heap, abspath>>
      BY <1>2, UnlinkRemoves
  <2>2. IsInjective(hashTbRemove(n)) /\ ToSet(hashTbRemove(n)) \subseteq InTable
      BY RemoveEntry DEF Entries
  <2>3. \A f \in InTable : heap[f] = "live" /\ abspath[f] \in Names
      BY <1>0 DEF InTable, ToSet
  <2>4. \A i \in DOMAIN table' : table'[i] \in InTable
      BY <2>1, <2>2 DEF ToSet
  <2> QED
      BY <2>1, <2>2, <2>3, <2>4 DEF Entries
<1>3. ASSUME NEW c \in Clients, freeVictim(c) \/ fileDeleteEnd(c) \/ freeLocked(c) PROVE Entries'
  <2>1. PICK f \in FileIds : /\ heap' = [heap EXCEPT ![f] = "free"]
                             /\ abspath' = [abspath EXCEPT ![f] = NULL]
                             /\ UNCHANGED table /\ f \notin InTable
      BY <1>3, FreeClears
  <2>2. \A i \in 1 .. Len(table) : table[i] # f
      BY <1>0, <2>1 DEF InTable, ToSet
  <2>3. \A i \in 1 .. Len(table) : heap'[table[i]] = "live" /\ abspath'[table[i]] \in Names
      BY <1>0, <2>1, <2>2
  <2> QED
      BY <1>0, <2>1, <2>3 DEF Entries, IsInjective
<1>4. ASSUME NEW c \in Clients, Request(c) \/ Handler(c), ~TableSteps(c) PROVE Entries'
    BY <1>4, TableFrame DEF Entries
<1>5. CASE UNCHANGED vars
    BY <1>5 DEF vars, storeVars, listVars, fileVars, Entries
<1> QED
    BY <1>1, <1>2, <1>3, <1>4, <1>5 DEF Next, TableSteps

-----------------------------------------------------------------------------
(* Names.                                                                  *)

(* The table seen as a set of records.                                     *)
LEMMA AsASet ==
    TypeOK /\ Entries =>
        /\ InTable \subseteq FileIds
        /\ \A f \in InTable : heap[f] = "live" /\ abspath[f] \in Names
        /\ \A n : hashEntries(n) = {} <=> \A f \in InTable : abspath[f] # n
        /\ UniqueNames <=> \A f, g \in InTable : abspath[f] = abspath[g] => f = g
<1> SUFFICES ASSUME TypeOK, Entries
             PROVE  /\ InTable \subseteq FileIds
                    /\ \A f \in InTable : heap[f] = "live" /\ abspath[f] \in Names
                    /\ \A n : hashEntries(n) = {} <=> \A f \in InTable : abspath[f] # n
                    /\ UniqueNames <=> \A f, g \in InTable : abspath[f] = abspath[g] => f = g
    OBVIOUS
<1>1. table \in Seq(FileIds) /\ DOMAIN table = 1 .. Len(table)
    BY LenProperties DEF TypeOK, StoreTypeOK
<1>2. \A i \in 1 .. Len(table) : table[i] \in FileIds
    BY <1>1, ElementOfSeq
<1>3. InTable = { table[i] : i \in 1 .. Len(table) }
    BY <1>1 DEF InTable, ToSet
<1>4. \A f \in InTable : heap[f] = "live" /\ abspath[f] \in Names
    BY <1>1, <1>3 DEF Entries
<1>5. \A n : hashEntries(n) = {} <=> \A f \in InTable : abspath[f] # n
    BY <1>3 DEF hashEntries
<1>6. UniqueNames <=> \A f, g \in InTable : abspath[f] = abspath[g] => f = g
    BY <1>1, <1>3 DEF UniqueNames, Entries, IsInjective
<1> QED
    BY <1>2, <1>3, <1>4, <1>5, <1>6

(* The same after a step.                                                  *)
LEMMA AsASetNext ==
    (TypeOK /\ Entries)' =>
        /\ InTable' \subseteq FileIds
        /\ \A f \in InTable' : heap'[f] = "live" /\ abspath'[f] \in Names
        /\ \A n : hashEntries(n)' = {} <=> \A f \in InTable' : abspath'[f] # n
        /\ UniqueNames' <=> \A f, g \in InTable' : abspath'[f] = abspath'[g] => f = g
<1>1. (TypeOK /\ Entries =>
        /\ InTable \subseteq FileIds
        /\ \A f \in InTable : heap[f] = "live" /\ abspath[f] \in Names
        /\ \A n : hashEntries(n) = {} <=> \A f \in InTable : abspath[f] # n
        /\ UniqueNames <=> \A f, g \in InTable : abspath[f] = abspath[g] => f = g)'
    BY AsASet, PTL
<1> QED
    BY <1>1

(* The records in the table after a step.                                  *)
LEMMA TableMoves ==
    ASSUME TypeOK, LockDiscipline, Asked, Entries, NEW c \in Clients
    PROVE  /\ fileInit(c) =>
                \E f \in FileIds :
                   /\ Fresh(f) /\ f \notin InTable /\ heap[f] = "free"
                   /\ call[c].op = "create" /\ call[c].name \in Names /\ call[c] \in Calls[c]
                   /\ InTable' = InTable \cup {f}
                   /\ heap' = [heap EXCEPT ![f] = "live"]
                   /\ abspath' = [abspath EXCEPT ![f] = call[c].name]
                   /\ UNCHANGED <<call, ptr, victim>> /\ pc[c] = "fileInit"
                   /\ pc' = [pc EXCEPT ![c] = "lookup"]
           /\ fileDelete(c) \/ unlinkVictim(c) =>
                \E f \in FileIds :
                   /\ CanLock(f) /\ f = Unlinker(c)
                   /\ InTable' = InTable \ {hashTbSearch(abspath[f])}
                   /\ UNCHANGED <<heap, abspath>>
           /\ freeVictim(c) \/ fileDeleteEnd(c) \/ freeLocked(c) =>
                \E f \in FileIds :
                   /\ f = Freed(c) /\ c \in Freeing(f) /\ f \notin InTable
                   /\ heap' = [heap EXCEPT ![f] = "free"]
                   /\ abspath' = [abspath EXCEPT ![f] = NULL]
                   /\ InTable' = InTable
<1>1. DOMAIN table = 1 .. Len(table) /\ Len(table) \in Nat
    BY LenProperties DEF TypeOK, StoreTypeOK
<1>2. ASSUME fileInit(c) PROVE
        \E f \in FileIds :
           /\ Fresh(f) /\ f \notin InTable /\ heap[f] = "free"
           /\ call[c].op = "create" /\ call[c].name \in Names /\ call[c] \in Calls[c]
           /\ InTable' = InTable \cup {f}
           /\ heap' = [heap EXCEPT ![f] = "live"]
           /\ abspath' = [abspath EXCEPT ![f] = call[c].name]
           /\ UNCHANGED <<call, ptr, victim>> /\ pc[c] = "fileInit"
           /\ pc' = [pc EXCEPT ![c] = "lookup"]
  <2>1. PICK f \in FileIds :
           /\ Fresh(f) /\ heap[f] = "free"
           /\ call[c].op = "create" /\ call[c].name \in Names /\ call[c] \in Calls[c]
           /\ DOMAIN table' = 1 .. Len(table) + 1
           /\ table'[1] = f /\ \A i \in 1 .. Len(table) : table'[i + 1] = table[i]
           /\ heap' = [heap EXCEPT ![f] = "live"]
           /\ abspath' = [abspath EXCEPT ![f] = call[c].name]
           /\ UNCHANGED <<call, ptr, victim>> /\ pc[c] = "fileInit"
           /\ pc' = [pc EXCEPT ![c] = "lookup"]
      BY <1>2, InitAdds
  <2>2. f \notin InTable
      BY <2>1, AsASet
  <2>3. InTable' = InTable \cup {f}
    <3>1. \A i \in 1 .. Len(table) + 1 : i # 1 => i - 1 \in 1 .. Len(table) /\ table'[i] = table[i - 1]
      <4> SUFFICES ASSUME NEW i \in 1 .. Len(table) + 1, i # 1
                   PROVE  i - 1 \in 1 .. Len(table) /\ table'[i] = table[i - 1]
          OBVIOUS
      <4>1. i - 1 \in 1 .. Len(table) /\ (i - 1) + 1 = i
          BY <1>1
      <4> QED
          BY <2>1, <4>1
    <3>2. \A i \in 1 .. Len(table) : i + 1 \in 1 .. Len(table) + 1
        BY <1>1
    <3>3. 1 \in 1 .. Len(table) + 1
        BY <1>1
    <3>4. InTable' = { table'[i] : i \in 1 .. Len(table) + 1 } /\ InTable = { table[i] : i \in 1 .. Len(table) }
        BY <1>1, <2>1 DEF InTable, ToSet
    <3>5. InTable' \subseteq InTable \cup {f}
        BY <2>1, <3>1, <3>4
    <3>6. InTable \cup {f} \subseteq InTable'
        BY <2>1, <3>2, <3>3, <3>4
    <3> QED
        BY <3>5, <3>6
  <2> QED
      BY <2>1, <2>2, <2>3
<1>3. ASSUME fileDelete(c) \/ unlinkVictim(c) PROVE
        \E f \in FileIds :
           /\ CanLock(f) /\ f = Unlinker(c)
           /\ InTable' = InTable \ {hashTbSearch(abspath[f])}
           /\ UNCHANGED <<heap, abspath>>
  <2>1. /\ CanLock(Unlinker(c)) /\ table' = hashTbRemove(abspath[Unlinker(c)])
        /\ UNCHANGED <<heap, abspath>>
      BY <1>3, UnlinkRemoves
  <2>2. InTable' = InTable \ {hashTbSearch(abspath[Unlinker(c)])}
      BY <2>1, RemoveEntry DEF InTable, Entries
  <2> QED
      BY <2>1, <2>2 DEF CanLock
<1>4. ASSUME freeVictim(c) \/ fileDeleteEnd(c) \/ freeLocked(c) PROVE
        \E f \in FileIds :
           /\ f = Freed(c) /\ c \in Freeing(f) /\ f \notin InTable
           /\ heap' = [heap EXCEPT ![f] = "free"]
           /\ abspath' = [abspath EXCEPT ![f] = NULL]
           /\ InTable' = InTable
    BY <1>4, FreeClears DEF InTable
<1> QED
    BY <1>2, <1>3, <1>4

(* Only fileSearch sends a handler to fileInit, when there is no file of   *)
(* that name.                                                              *)
LEMMA GoesToInit ==
    ASSUME TypeOK, Asked, NEW c \in Clients, Request(c) \/ Handler(c), pc'[c] = "fileInit"
    PROVE  /\ call'[c] = call[c] /\ UNCHANGED <<table, abspath>>
           /\ pc[c] = "fileInit" \/ hashEntries(call[c].name) = {}
<1> USE DEF At, Goto, Return
<1>0. pc \in [Clients -> Labels]
    BY DEF TypeOK, LocalTypeOK
<1>1. ASSUME Request(c) PROVE FALSE
    BY <1>0, <1>1 DEF Request
<1>2. CASE OpenCalls(c)
  <2>1. fileSearch(c)
      BY <1>0, <1>2 DEF OpenCalls, fileInit, fileSearchSilent, fileOpen, fileClose, fileOpenCheck, Refuse
  <2>2. ~Stored(call[c].name) /\ UNCHANGED localVars /\ UNCHANGED storeVars /\ pc[c] = "fileSearch"
      BY <1>0, <2>1 DEF fileSearch
  <2>3. call[c].name # NULL
      BY <2>2, WorkerAssumption DEF Asked, OpsAt, ReadNPoints
  <2>4. hashEntries(call[c].name) = {}
      BY <2>2, <2>3, SearchFinds, FileMemoryAssumption DEF Stored, TypeOK, StoreTypeOK
  <2> QED
      BY <2>2, <2>4 DEF localVars, storeVars, listVars, fileVars
<1>3. ASSUME ReadCalls(c) PROVE FALSE
    BY <1>0, <1>3 DEF ReadCalls, sendFile, sendFileEnd, fileNRead, arrayRandomPermutation,
                fileNReadAll, fileNReadNext, fileNReadName
<1>4. ASSUME WriteCalls(c) PROVE FALSE
    BY <1>0, <1>4 DEF WriteCalls, fileWrite, refuseWrite, FileNUpdate, pageGet, fileWriteEnd, fileAppend,
                fileAppendEnd, fileDelete, fileDeleteEnd
<1>5. ASSUME Evictions(c) PROVE FALSE
    BY <1>0, <1>5 DEF Evictions, fileDeleteFIFO, unlinkVictim, freeVictim, FileNDecrease
<1>6. CASE Faults(c)
    BY <1>6 DEF Faults, Stops, StaleDeref, freeListed, TopFault, ReadFault, AppendFault, Fault, localVars, listVars, fileVars
<1>7. ASSUME freeLocked(c) PROVE FALSE
    BY <1>7 DEF freeLocked
<1> QED
    BY <1>1, <1>2, <1>3, <1>4, <1>5, <1>6, <1>7, HandlerIs

(* With one creator per name the name that fileSearch did not find is free *)
(* until fileInit takes it.                                                *)
LEMMA UniqueStep ==
    OneCreator /\ TypeOK /\ LockDiscipline /\ Asked /\ Entries /\ (TypeOK /\ Entries)' /\ Unique /\ [Next]_vars
        => Unique'
<1> SUFFICES ASSUME OneCreator, TypeOK, LockDiscipline, Asked, Entries, (TypeOK /\ Entries)', Unique, [Next]_vars
             PROVE  Unique'
    OBVIOUS
<1>0. /\ pc \in [Clients -> Labels] /\ call \in [Clients -> Call] /\ call' \in [Clients -> Call]
      /\ abspath \in [FileIds -> Names \cup {NULL}]
      /\ InTable \subseteq FileIds
      /\ \A f, g \in InTable : abspath[f] = abspath[g] => f = g
      /\ \A d \in Clients : pc[d] = "fileInit" => \A f \in InTable : abspath[f] # call[d].name
    BY AsASet DEF TypeOK, LocalTypeOK, StoreTypeOK, Unique, StillFree
<1> SUFFICES /\ \A f, g \in InTable' : abspath'[f] = abspath'[g] => f = g
             /\ \A d \in Clients : pc'[d] = "fileInit" => \A f \in InTable' : abspath'[f] # call'[d].name
    BY AsASetNext DEF Unique, StillFree
<1>1. ASSUME NEW c \in Clients, Request(c) \/ Handler(c), NEW d \in Clients, pc'[d] = "fileInit"
      PROVE  call'[d] = call[d] /\ \A f \in InTable : abspath[f] # call[d].name
  <2>1. CASE d = c
      BY <1>0, <1>1, <2>1, GoesToInit, AsASet
  <2>2. CASE d # c
      BY <1>0, <1>1, <2>2, OthersStay
  <2> QED
      BY <2>1, <2>2
<1>2. ASSUME NEW c \in Clients, fileInit(c)
      PROVE  /\ \A f, g \in InTable' : abspath'[f] = abspath'[g] => f = g
             /\ \A d \in Clients : pc'[d] = "fileInit" => \A f \in InTable' : abspath'[f] # call'[d].name
  <2>1. PICK f \in FileIds :
           /\ f \notin InTable
           /\ call[c].op = "create" /\ call[c].name \in Names /\ call[c] \in Calls[c]
           /\ InTable' = InTable \cup {f}
           /\ abspath' = [abspath EXCEPT ![f] = call[c].name]
           /\ UNCHANGED call /\ pc[c] = "fileInit"
           /\ pc' = [pc EXCEPT ![c] = "lookup"]
      BY <1>2, TableMoves
  <2>2. \A g \in InTable : abspath[g] # call[c].name /\ abspath'[g] = abspath[g] /\ abspath'[f] = call[c].name
      BY <1>0, <2>1
  <2>3. ASSUME NEW d \in Clients, pc'[d] = "fileInit" PROVE call[d].name # call[c].name
    <3>1. d # c /\ pc[d] = "fileInit"
        BY <1>0, <2>1, <2>3
    <3>2. call[d].op = "create" /\ call[d] \in Calls[d]
        BY <3>1 DEF Asked, OpsAt, ReadNPoints
    <3> QED
        BY <2>1, <3>1, <3>2 DEF OneCreator, MayCall
  <2>4. \A d \in Clients : pc'[d] = "fileInit" => \A g \in InTable : abspath[g] # call[d].name
      BY <1>0, <2>1
  <2>5. abspath'[f] = call[c].name
      BY <1>0, <2>1
  <2> QED
      BY <1>0, <2>1, <2>2, <2>3, <2>4, <2>5
<1>3. ASSUME NEW c \in Clients, fileDelete(c) \/ unlinkVictim(c)
      PROVE  InTable' \subseteq InTable /\ UNCHANGED abspath
    BY <1>3, TableMoves
<1>4. ASSUME NEW c \in Clients, freeVictim(c) \/ fileDeleteEnd(c) \/ freeLocked(c)
      PROVE  InTable' = InTable /\ \A f \in InTable : abspath'[f] = abspath[f]
    BY <1>0, <1>4, TableMoves
<1>5. ASSUME NEW c \in Clients, Request(c) \/ Handler(c), ~TableSteps(c)
      PROVE  InTable' = InTable /\ UNCHANGED abspath
    BY <1>5, TableFrame DEF InTable
<1>6. CASE UNCHANGED vars
    BY <1>0, <1>6 DEF vars, storeVars, listVars, fileVars, localVars, InTable
<1>7. ASSUME NEW c \in Clients, Request(c) \/ Handler(c), ~ fileInit(c)
      PROVE  InTable' \subseteq InTable /\ \A f \in InTable : abspath'[f] = abspath[f]
    BY <1>3, <1>4, <1>5, <1>7 DEF TableSteps
<1> QED
    BY <1>0, <1>1, <1>2, <1>6, <1>7 DEF Next

(* The invariants up to here.                                              *)
LEMMA EntriesHold == Spec => [](TypeOK /\ LockDiscipline /\ Requests /\ Entries)
<1>1. Init => Entries
    BY DEF Init, StoreInit, Entries, IsInjective
<1>2. TypeOK /\ LockDiscipline /\ Requests /\ Entries /\ [Next]_vars => Entries'
    BY EntriesStep DEF Requests
<1> QED
    BY <1>1, <1>2, RequestsHold, PTL DEF Spec

(* The invariants with Unique, for one creator of each name.               *)
LEMMA UniqueHolds ==
    ASSUME OneCreator
    PROVE  Spec => [](TypeOK /\ LockDiscipline /\ Requests /\ Entries /\ Unique)
<1>1. Init => Unique
    BY DEF Init, StoreInit, Unique, UniqueNames, StillFree
<1>2. /\ TypeOK /\ LockDiscipline /\ Requests /\ Entries /\ (TypeOK /\ LockDiscipline /\ Requests /\ Entries)'
      /\ Unique /\ [Next]_vars
      => Unique'
    BY OneCreator, UniqueStep DEF Requests
<1> QED
    BY <1>1, <1>2, EntriesHold, PTL DEF Spec

(* When no two clients create one name, no name is in the table twice:     *)
(* between the answer of fileSearch and fileInit (API.c:73) the name stays *)
(* free, whatever the other clients do.                                    *)
THEOREM NamesAreUnique ==
    ASSUME OneCreator
    PROVE  Spec => []UniqueNames
<1>1. Unique => UniqueNames
    BY DEF Unique
<1> QED
    BY <1>1, UniqueHolds, PTL

-----------------------------------------------------------------------------
(* Unlinked records.                                                       *)

(* How a handler comes to the points at which it unlinks or frees, other   *)
(* than by unlinking: its record was in the table.                         *)
LEMMA ComesToUnlink ==
    ASSUME TypeOK, Asked, Entries, NEW c \in Clients, Request(c) \/ Handler(c), ~TableSteps(c)
    PROVE  /\ pc'[c] \in {"freeOwn", "freeVictim"} \/ pc[c] \in {"freeOwn", "freeVictim"} =>
                 pc'[c] = pc[c] /\ ptr'[c] = ptr[c] /\ victim'[c] = victim[c]
           /\ pc'[c] \in {"openCheck", "deleteLock"} =>
                 \/ /\ pc[c] \in {"openCheck", "deleteLock"}
                    /\ ptr'[c] = ptr[c] /\ call'[c] = call[c]
                 \/ ptr'[c] \in InTable
           /\ pc'[c] = "lockVictim" =>
                 \/ pc[c] = "lockVictim" /\ victim'[c] = victim[c]
                 \/ victim'[c] \in InTable \cup {NULL}
<1> USE DEF At, Goto, Return, TableSteps
<1>0. /\ pc \in [Clients -> Labels]
      /\ ptr \in [Clients -> FileIds \cup {NULL}]
      /\ victim \in [Clients -> FileIds \cup {NULL}]
      /\ \A n : hashTbSearch(n) \in InTable \cup {NULL}
  <2>1. table \in Seq(FileIds) /\ NULL \notin FileIds
      BY FileMemoryAssumption DEF TypeOK, StoreTypeOK
  <2>2. \A n : hashTbSearch(n) \in InTable \cup {NULL}
    <3> SUFFICES ASSUME NEW n PROVE hashTbSearch(n) \in InTable \cup {NULL}
        OBVIOUS
    <3> QED
        BY <2>1, SearchFinds, SearchType
  <2> QED
      BY <2>2 DEF TypeOK, LocalTypeOK
<1>1. CASE Request(c)
    BY <1>0, <1>1 DEF Request
<1>2. CASE OpenCalls(c)
  <2>1. CASE fileSearchSilent(c)
    <3>1. CASE Return(c)
        BY <1>0, <2>1, <3>1 DEF fileSearchSilent
    <3>2. CASE ~Return(c)
      <4>1. /\ ptr' = [ptr EXCEPT ![c] = hashTbSearch(call[c].name)]
            /\ pc[c] = "lookup"
            /\ \E l \in Labels \ {"freeOwn", "freeVictim", "lockVictim"} : pc' = [pc EXCEPT ![c] = l]
            /\ hashTbSearch(call[c].name) = NULL => pc' = [pc EXCEPT ![c] = "refuse"]
          BY <2>1, <3>2, LabelTypes DEF fileSearchSilent
      <4> QED
          BY <1>0, <4>1
    <3> QED
        BY <3>1, <3>2
  <2>2. CASE fileOpenCheck(c)
      BY <1>0, <2>2 DEF fileOpenCheck, localVars
  <2> QED
      BY <1>0, <1>2, <2>1, <2>2 DEF OpenCalls, fileSearch, fileOpen, fileClose, Refuse
<1>3. CASE ReadCalls(c)
    BY <1>0, <1>3 DEF ReadCalls, sendFile, sendFileEnd, fileNRead, arrayRandomPermutation,
                fileNReadAll, fileNReadNext, fileNReadName
<1>4. CASE WriteCalls(c)
    BY <1>0, <1>4 DEF WriteCalls, fileWrite, refuseWrite, FileNUpdate, pageGet, fileWriteEnd,
                fileAppend, fileAppendEnd
<1>5. CASE Evictions(c)
  <2>1. CASE fileDeleteFIFO(c)
      BY <1>0, <2>1 DEF fileDeleteFIFO
  <2> QED
      BY <1>0, <1>5, <2>1 DEF Evictions, FileNDecrease
<1>6. CASE Faults(c)
    BY <1>6 DEF Faults, Stops, StaleDeref, freeListed, TopFault, ReadFault, AppendFault, Fault, localVars
<1> QED
    BY <1>1, <1>2, <1>3, <1>4, <1>5, <1>6, HandlerIs

(* What is unlinked is the record itself, or nothing.                      *)
LEMMA UnlinksItself ==
    ASSUME TypeOK, LockDiscipline, Asked, Entries, Unique, NoneInstead,
           NEW c \in Clients, fileDelete(c) \/ unlinkVictim(c)
    PROVE  \E f \in FileIds :
              /\ f = Unlinker(c) /\ heap[f] = "live" /\ mutex[f] = NULL
              /\ hashTbSearch(abspath[f]) = (IF f \in InTable THEN f ELSE NULL)
              /\ InTable' = InTable \ {f}
              /\ UNCHANGED <<heap, abspath>>
<1>1. PICK f \in FileIds : /\ CanLock(f) /\ f = Unlinker(c)
                           /\ InTable' = InTable \ {hashTbSearch(abspath[f])}
                           /\ UNCHANGED <<heap, abspath>>
    BY TableMoves
<1>2. Unlinks(c, f)
  <2>1. pc[c] \in {"deleteLock", "lockVictim"}
      BY UnlinkRemoves
  <2>2. pc[c] = "deleteLock" => call[c].op = "remove"
      BY DEF Asked, OpsAt, ReadNPoints
  <2> QED
      BY <1>1, <2>1, <2>2 DEF Unlinks, Unlinker
<1>3. heap[f] = "live" /\ f \in Live
    BY <1>1 DEF CanLock, Live
<1>4. table \in Seq(FileIds) /\ NULL \notin FileIds /\ InTable \subseteq FileIds
    BY FileMemoryAssumption, AsASet DEF TypeOK, StoreTypeOK
<1>5. hashTbSearch(abspath[f]) \in FileIds =>
          hashTbSearch(abspath[f]) \in InTable /\ abspath[hashTbSearch(abspath[f])] = abspath[f]
    BY <1>4, SearchFinds
<1>6. hashTbSearch(abspath[f]) \in FileIds \cup {NULL} /\ (hashTbSearch(abspath[f]) = NULL <=> hashEntries(abspath[f]) = {})
    BY <1>4, SearchFinds, SearchType
<1>7. CASE f \in InTable
  <2>1. hashEntries(abspath[f]) # {}
      BY <1>7, AsASet
  <2>2. hashTbSearch(abspath[f]) = f
      BY <1>5, <1>6, <1>7, <2>1, AsASet DEF Unique
  <2> QED
      BY <1>1, <1>3, <1>7, <2>2 DEF CanLock
<1>8. CASE f \notin InTable
  <2>1. hashEntries(abspath[f]) = {}
      BY <1>2, <1>3, <1>8 DEF NoneInstead
  <2>2. hashTbSearch(abspath[f]) = NULL
      BY <1>6, <2>1
  <2> QED
      BY <1>1, <1>3, <1>4, <1>8, <2>2 DEF CanLock
<1> QED
    BY <1>7, <1>8

(* A name is not created again while one handler is about to free a record *)
(* with that name and another about to unlink it: they would be three.     *)
LEMMA NotCreatedMeanwhile ==
    ASSUME TwoHands, TypeOK, Asked, OwnName, OtherVictim,
           NEW c \in Clients, pc[c] = "fileInit",
           NEW k \in Clients, NEW d \in Clients, NEW f \in FileIds,
           heap[f] = "live", k \in Freeing(f), Unlinks(d, f)
    PROVE  call[c].name # abspath[f]
<1> SUFFICES ASSUME call[c].name = abspath[f] PROVE FALSE
    OBVIOUS
<1>1. \A e \in Clients : /\ call[e] \in Call
                         /\ pc[e] # "idle" => call[e] \in Calls[e]
                         /\ call[e].op \in OpsAt(pc[e])
    BY DEF Asked, TypeOK, LocalTypeOK
<1>2. MayCall(c, {"create"}, abspath[f]) /\ abspath[f] \in Names
  <2>1. call[c].op = "create" /\ call[c] \in Calls[c]
      BY <1>1 DEF OpsAt, ReadNPoints
  <2>2. call[c].name \in Names
      BY <1>1, <2>1, WorkerAssumption DEF Call
  <2> QED
      BY <2>1, <2>2 DEF MayCall
<1>3. k # d /\ c # k /\ c # d
    BY DEF Freeing, Unlinks
<1>4. ASSUME NEW e \in Clients, pc[e] \in {"openCheck", "deleteLock", "freeOwn"}, ptr[e] = f, call[e].op = "remove"
      PROVE  MayCall(e, {"remove"}, abspath[f])
    BY <1>1, <1>4 DEF OwnName, MayCall
<1>5. ASSUME NEW e \in Clients, pc[e] \in {"lockVictim", "freeVictim"}
      PROVE  \E m \in Names : MayCall(e, {"write", "append"}, m)
  <2>1. call[e].op \in {"write", "append"} /\ call[e] \in Calls[e]
      BY <1>1, <1>5 DEF OpsAt, ReadNPoints
  <2>2. call[e].name \in Names
      BY <1>1, <2>1, WorkerAssumption DEF Call
  <2> QED
      BY <2>1, <2>2 DEF MayCall
<1>6. pc[k] = "freeOwn" => call[k].op = "remove"
    BY <1>1 DEF OpsAt, ReadNPoints
<1>7. CASE pc[k] = "freeOwn" /\ ptr[k] = f
  <2>1. MayCall(k, {"remove"}, abspath[f])
      BY <1>4, <1>6, <1>7
  <2>2. MayCall(d, {"remove"}, abspath[f]) \/ \E m \in Names : MayCall(d, {"write", "append"}, m)
      BY <1>4, <1>5 DEF Unlinks
  <2> QED
      BY <1>2, <1>3, <2>1, <2>2 DEF TwoHands
<1>8. CASE pc[k] = "freeVictim" /\ victim[k] = f
  <2>1. pc[d] # "lockVictim" \/ victim[d] # f
      BY <1>8 DEF OtherVictim
  <2>2. MayCall(d, {"remove"}, abspath[f])
      BY <1>4, <2>1 DEF Unlinks
  <2>3. \E m \in Names : MayCall(k, {"write", "append"}, m)
      BY <1>5, <1>8
  <2> QED
      BY <1>2, <1>3, <2>2, <2>3 DEF TwoHands
<1> QED
    BY <1>7, <1>8 DEF Freeing

(* The layer in terms of the set of records in the table.                  *)
LEMMA UnlinkedAsASet ==
    TypeOK /\ Entries =>
        (Unlinked <=>
            /\ \A d \in Clients : \A f \in FileIds :
                  heap[f] = "live" /\ Unlinks(d, f) /\ f \notin InTable =>
                      \A g \in InTable : abspath[g] # abspath[f]
            /\ \A f \in FileIds : \A d \in Freeing(f) : f \notin InTable
            /\ OtherVictim
            /\ \A f \in FileIds : heap[f] = "live" => f \in InTable \/ \E d \in Clients : d \in Freeing(f))
<1> SUFFICES ASSUME TypeOK, Entries
             PROVE  Unlinked <=>
                /\ \A d \in Clients : \A f \in FileIds :
                      heap[f] = "live" /\ Unlinks(d, f) /\ f \notin InTable =>
                          \A g \in InTable : abspath[g] # abspath[f]
                /\ \A f \in FileIds : \A d \in Freeing(f) : f \notin InTable
                /\ OtherVictim
                /\ \A f \in FileIds : heap[f] = "live" => f \in InTable \/ \E d \in Clients : d \in Freeing(f)
    OBVIOUS
<1>1. \A f : Contains(table, f) <=> f \in InTable
  <2>1. DOMAIN table = 1 .. Len(table)
      BY LenProperties DEF TypeOK, StoreTypeOK
  <2> QED
      BY <2>1 DEF Contains, InTable, ToSet
<1>2. NoneInstead <=> \A d \in Clients : \A f \in FileIds :
                      heap[f] = "live" /\ Unlinks(d, f) /\ f \notin InTable =>
                          \A g \in InTable : abspath[g] # abspath[f]
    BY AsASet DEF NoneInstead, Live
<1>3. FreedAreOut <=> \A f \in FileIds : \A d \in Freeing(f) : f \notin InTable
    BY DEF FreedAreOut
<1>4. NoRecordLost <=>
        \A f \in FileIds : heap[f] = "live" => f \in InTable \/ \E d \in Clients : d \in Freeing(f)
    BY <1>1 DEF NoRecordLost, Live, Freeing
<1> QED
    BY <1>2, <1>3, <1>4 DEF Unlinked

(* The same of the next state.                                             *)
LEMMA UnlinkedAsASetNext ==
    (TypeOK /\ Entries)' =>
        (Unlinked' <=>
            /\ \A d \in Clients : \A f \in FileIds :
                  heap'[f] = "live" /\ Unlinks(d, f)' /\ f \notin InTable' =>
                      \A g \in InTable' : abspath'[g] # abspath'[f]
            /\ \A f \in FileIds : \A d \in Freeing(f)' : f \notin InTable'
            /\ OtherVictim'
            /\ \A f \in FileIds : heap'[f] = "live" => f \in InTable' \/ \E d \in Clients : d \in Freeing(f)')
<1>1. (TypeOK /\ Entries =>
        (Unlinked <=>
            /\ \A d \in Clients : \A f \in FileIds :
                  heap[f] = "live" /\ Unlinks(d, f) /\ f \notin InTable =>
                      \A g \in InTable : abspath[g] # abspath[f]
            /\ \A f \in FileIds : \A d \in Freeing(f) : f \notin InTable
            /\ OtherVictim
            /\ \A f \in FileIds : heap[f] = "live" => f \in InTable \/ \E d \in Clients : d \in Freeing(f)))'
    BY UnlinkedAsASet, PTL
<1> QED
    BY <1>1

(* Every step leaves every unlinked record in the hands of one handler.    *)
LEMMA UnlinkedStep ==
    /\ TwoHands
    /\ TypeOK /\ LockDiscipline /\ Requests /\ Entries /\ Unique
    /\ (TypeOK /\ Entries)'
    /\ Unlinked /\ [Next]_vars
    => Unlinked'
<1> SUFFICES ASSUME TwoHands, TypeOK, LockDiscipline, Requests, Entries, Unique,
                    (TypeOK /\ Entries)', Unlinked, [Next]_vars
             PROVE  Unlinked'
    OBVIOUS
<1>0. /\ pc \in [Clients -> Labels] /\ call \in [Clients -> Call]
      /\ ptr \in [Clients -> FileIds \cup {NULL}] /\ victim \in [Clients -> FileIds \cup {NULL}]
      /\ heap \in [FileIds -> {"free", "live"}] /\ abspath \in [FileIds -> Names \cup {NULL}]
      /\ InTable \subseteq FileIds /\ NULL \notin FileIds /\ NULL \notin Clients
    BY AsASet, FileMemoryAssumption DEF TypeOK, LocalTypeOK, StoreTypeOK
<1> DEFINE N(d, f) == heap[f] = "live" /\ Unlinks(d, f) /\ f \notin InTable =>
                          \A g \in InTable : abspath[g] # abspath[f]
<1>i. /\ \A d \in Clients : \A f \in FileIds : N(d, f)
      /\ \A f \in FileIds : \A d \in Clients : d \in Freeing(f) => f \notin InTable
      /\ OtherVictim
      /\ \A f \in FileIds : heap[f] = "live" => f \in InTable \/ \E d \in Clients : d \in Freeing(f)
    BY UnlinkedAsASet
<1>m. \A d \in Clients : \A f : Unlinks(d, f)' <=>
            \/ pc'[d] \in {"openCheck", "deleteLock"} /\ call'[d].op = "remove" /\ ptr'[d] = f
            \/ pc'[d] = "lockVictim" /\ victim'[d] = f
    BY DEF Unlinks
<1>f. \A d \in Clients : \A f : d \in Freeing(f)' <=>
            \/ pc'[d] = "freeVictim" /\ victim'[d] = f
            \/ pc'[d] = "freeOwn" /\ ptr'[d] = f
    BY DEF Freeing
<1>o. \A c, d \in Clients : (Request(c) \/ Handler(c)) /\ d # c =>
            \A f : (Unlinks(d, f)' <=> Unlinks(d, f)) /\ (d \in Freeing(f)' <=> d \in Freeing(f))
    BY OthersStay DEF Unlinks, Freeing
<1> DEFINE N1 == \A d \in Clients : \A f \in FileIds :
                  heap'[f] = "live" /\ Unlinks(d, f)' /\ f \notin InTable' =>
                      \A g \in InTable' : abspath'[g] # abspath'[f]
           N2 == \A f \in FileIds : \A d \in Clients : d \in Freeing(f)' => f \notin InTable'
           N4 == \A f \in FileIds : heap'[f] = "live" => f \in InTable' \/ \E d \in Clients : d \in Freeing(f)'
<1> SUFFICES N1 /\ N2 /\ OtherVictim' /\ N4
  <2>1. \A f \in FileIds : Freeing(f)' \subseteq Clients
      BY DEF Freeing
  <2> QED
      BY <2>1, UnlinkedAsASetNext
<1>1. ASSUME NEW c \in Clients, fileInit(c) PROVE N1 /\ N2 /\ OtherVictim' /\ N4
  <2>1. PICK f \in FileIds :
           /\ Fresh(f) /\ f \notin InTable /\ heap[f] = "free"
           /\ InTable' = InTable \cup {f}
           /\ heap' = [heap EXCEPT ![f] = "live"]
           /\ abspath' = [abspath EXCEPT ![f] = call[c].name]
           /\ UNCHANGED <<call, ptr, victim>> /\ pc[c] = "fileInit"
           /\ pc' = [pc EXCEPT ![c] = "lookup"]
      BY <1>1, TableMoves DEF Requests
  <2>2. \A d \in Clients : \A g \in FileIds :
            /\ Unlinks(d, g)' <=> Unlinks(d, g)
            /\ d \in Freeing(g)' <=> d \in Freeing(g)
            /\ ~ Unlinks(d, f) /\ d \notin Freeing(f)
      BY <1>0, <1>m, <1>f, <2>1 DEF Unlinks, Freeing, Fresh
  <2>3. N1
    <3> SUFFICES ASSUME NEW d \in Clients, NEW h \in FileIds, heap'[h] = "live", Unlinks(d, h)', h \notin InTable',
                        NEW g \in InTable'
                 PROVE  abspath'[g] # abspath'[h]
        OBVIOUS
    <3>1. h # f /\ heap[h] = "live" /\ Unlinks(d, h) /\ h \notin InTable /\ abspath'[h] = abspath[h]
        BY <1>0, <2>1, <2>2
    <3>2. CASE g # f
        BY <1>0, <1>i, <2>1, <3>1, <3>2
    <3>3. CASE g = f
      <4>1. PICK k \in Clients : k \in Freeing(h)
          BY <1>i, <3>1
      <4>2. call[c].name # abspath[h]
          BY <1>i, <2>1, <3>1, <4>1, NotCreatedMeanwhile DEF Requests
      <4> QED
          BY <1>0, <2>1, <3>1, <3>3, <4>2
    <3> QED
        BY <3>2, <3>3
  <2>4. N2
      BY <1>i, <2>1, <2>2
  <2>5. OtherVictim'
      BY <1>0, <1>i, <2>1 DEF OtherVictim
  <2>6. N4
      BY <1>0, <1>i, <2>1, <2>2
  <2> QED
      BY <2>3, <2>4, <2>5, <2>6
<1>2. ASSUME NEW c \in Clients, fileDelete(c) \/ unlinkVictim(c) PROVE N1 /\ N2 /\ OtherVictim' /\ N4
  <2>1. PICK f \in FileIds : /\ f = Unlinker(c) /\ heap[f] = "live"
                             /\ InTable' = InTable \ {f}
                             /\ UNCHANGED <<heap, abspath>>
      BY <1>2, UnlinksItself DEF Requests, Unlinked
  <2>2. /\ pc[c] \in {"deleteLock", "lockVictim"}
        /\ UNCHANGED <<call, ptr, victim>>
        /\ pc' = [pc EXCEPT ![c] = IF pc[c] = "deleteLock" THEN "freeOwn" ELSE "freeVictim"]
      BY <1>2, UnlinkRemoves
  <2>3. c \in Freeing(f)' /\ \A g : c \notin Freeing(g) /\ ~ Unlinks(c, g)' /\ (c \in Freeing(g)' => g = f)
      BY <1>0, <1>m, <1>f, <2>1, <2>2 DEF Unlinker, Freeing
  <2>4. \A d \in Clients : d # c => \A g : (Unlinks(d, g)' <=> Unlinks(d, g)) /\ (d \in Freeing(g)' <=> d \in Freeing(g))
      BY <1>2, <1>o, HandlerIs DEF WriteCalls, Evictions
  <2>5. N1
    <3> SUFFICES ASSUME NEW d \in Clients, NEW h \in FileIds, heap'[h] = "live", Unlinks(d, h)', h \notin InTable',
                        NEW g \in InTable'
                 PROVE  abspath'[g] # abspath'[h]
        OBVIOUS
    <3>1. Unlinks(d, h) /\ heap[h] = "live" /\ g \in InTable /\ g # f
        BY <2>1, <2>3, <2>4
    <3>2. CASE h \in InTable
      <4>1. h = f
          BY <2>1, <3>2
      <4> QED
          BY <2>1, <3>1, <3>2, <4>1, AsASet DEF Unique
    <3>3. CASE h \notin InTable
        BY <1>i, <2>1, <3>1, <3>3
    <3> QED
        BY <3>2, <3>3
  <2>6. N2
      BY <1>i, <2>1, <2>3, <2>4
  <2>7. OtherVictim'
    <3> SUFFICES ASSUME NEW k \in Clients, NEW d \in Clients, pc'[k] = "freeVictim", pc'[d] = "lockVictim"
                 PROVE  victim'[k] # victim'[d]
        BY DEF OtherVictim
    <3>1. d # c /\ pc[d] = "lockVictim"
        BY <1>0, <2>2
    <3>2. CASE k = c
      <4>1. pc[c] = "lockVictim"
          BY <1>0, <2>2, <3>2
      <4> QED
          BY <3>1, <4>1 DEF Requests, OneEviction
    <3>3. CASE k # c
        BY <1>0, <1>i, <2>2, <3>1, <3>3 DEF OtherVictim
    <3> QED
        BY <3>2, <3>3
  <2>8. N4
    <3> SUFFICES ASSUME NEW h \in FileIds, heap'[h] = "live"
                 PROVE  h \in InTable' \/ \E d \in Clients : d \in Freeing(h)'
        OBVIOUS
    <3>1. CASE h = f
        BY <2>3, <3>1
    <3>2. CASE h # f
        BY <1>i, <2>1, <2>3, <2>4, <3>2
    <3> QED
        BY <3>1, <3>2
  <2> QED
      BY <2>5, <2>6, <2>7, <2>8
<1>3. ASSUME NEW c \in Clients, freeVictim(c) \/ fileDeleteEnd(c) PROVE N1 /\ N2 /\ OtherVictim' /\ N4
  <2>1. PICK f \in FileIds :
           /\ f = Freed(c) /\ c \in Freeing(f) /\ f \notin InTable
           /\ heap' = [heap EXCEPT ![f] = "free"]
           /\ abspath' = [abspath EXCEPT ![f] = NULL]
           /\ InTable' = InTable
      BY <1>3, TableMoves DEF Requests
  <2>2. pc'[c] \in {"idle", "pageGet", "decrease"} /\ pc[c] \in {"freeOwn", "freeVictim"}
      BY <1>0, <1>3 DEF freeVictim, fileDeleteEnd, Return, Goto, At
  <2>3. \A g : ~ Unlinks(c, g)' /\ c \notin Freeing(g)' /\ (c \in Freeing(g) => g = f)
      BY <1>m, <1>f, <2>1, <2>2 DEF Freeing, Freed
  <2>4. \A d \in Clients : d # c => /\ \A g : (Unlinks(d, g)' <=> Unlinks(d, g)) /\ (d \in Freeing(g)' <=> d \in Freeing(g))
                                    /\ pc'[d] = pc[d] /\ victim'[d] = victim[d]
      BY <1>3, <1>o, OthersStay, HandlerIs DEF WriteCalls, Evictions
  <2>5. \A g \in FileIds : heap'[g] = "live" => g # f /\ heap[g] = "live" /\ abspath'[g] = abspath[g]
      BY <1>0, <2>1
  <2>6. \A g \in InTable : abspath'[g] = abspath[g]
      BY <1>0, <2>1
  <2>7. N1
      BY <1>i, <2>1, <2>3, <2>4, <2>5, <2>6
  <2>8. N2
      BY <1>i, <2>1, <2>3, <2>4
  <2>9. OtherVictim'
      BY <1>i, <2>2, <2>4 DEF OtherVictim
  <2>10. N4
      BY <1>i, <2>1, <2>3, <2>4, <2>5
  <2> QED
      BY <2>7, <2>8, <2>9, <2>10
<1>4. ASSUME NEW c \in Clients, freeLocked(c) PROVE N1 /\ N2 /\ OtherVictim' /\ N4
  <2>1. PICK f \in FileIds : /\ f \notin InTable
                             /\ heap' = [heap EXCEPT ![f] = "free"]
                             /\ abspath' = [abspath EXCEPT ![f] = NULL]
                             /\ InTable' = InTable
      BY <1>4, TableMoves DEF Requests
  <2>2. UNCHANGED <<pc, call, ptr, victim>>
      BY <1>4, FreeLockedIs
  <2>3. \A d \in Clients : \A g : (Unlinks(d, g)' <=> Unlinks(d, g)) /\ (d \in Freeing(g)' <=> d \in Freeing(g))
      BY <1>m, <1>f, <2>2 DEF Unlinks, Freeing
  <2>4. \A g \in FileIds : /\ heap'[g] = "live" => heap[g] = "live" /\ abspath'[g] = abspath[g]
                           /\ g \in InTable => abspath'[g] = abspath[g]
      BY <1>0, <2>1
  <2>5. N1
      BY <1>0, <1>i, <2>1, <2>3, <2>4
  <2>6. N2 /\ N4
      BY <1>i, <2>1, <2>3, <2>4
  <2>7. OtherVictim'
      BY <1>i, <2>2 DEF OtherVictim
  <2> QED
      BY <2>5, <2>6, <2>7
<1>5. ASSUME NEW c \in Clients, Request(c) \/ Handler(c), ~TableSteps(c) PROVE N1 /\ N2 /\ OtherVictim' /\ N4
  <2>1. UNCHANGED <<heap, abspath>> /\ InTable' = InTable
      BY <1>5, TableFrame DEF InTable
  <2>2. /\ pc'[c] \in {"freeOwn", "freeVictim"} \/ pc[c] \in {"freeOwn", "freeVictim"} =>
              pc'[c] = pc[c] /\ ptr'[c] = ptr[c] /\ victim'[c] = victim[c]
        /\ pc'[c] \in {"openCheck", "deleteLock"} =>
              \/ /\ pc[c] \in {"openCheck", "deleteLock"}
                 /\ ptr'[c] = ptr[c] /\ call'[c] = call[c]
              \/ ptr'[c] \in InTable
        /\ pc'[c] = "lockVictim" =>
              \/ pc[c] = "lockVictim" /\ victim'[c] = victim[c]
              \/ victim'[c] \in InTable \cup {NULL}
      BY <1>5, ComesToUnlink DEF Requests
  <2>3. \A d \in Clients : \A g : d \in Freeing(g)' <=> d \in Freeing(g)
      BY <1>5, <1>f, <1>o, <2>2 DEF Freeing
  <2>4. \A d \in Clients : \A g \in FileIds : Unlinks(d, g)' => Unlinks(d, g) \/ g \in InTable
      BY <1>5, <1>0, <1>m, <1>o, <2>2 DEF Unlinks
  <2>5. N1
      BY <1>i, <2>1, <2>4
  <2>6. N2
      BY <1>i, <2>1, <2>3
  <2>7. OtherVictim'
    <3> SUFFICES ASSUME NEW k \in Clients, NEW d \in Clients, pc'[k] = "freeVictim", pc'[d] = "lockVictim"
                 PROVE  victim'[k] # victim'[d]
        BY DEF OtherVictim
    <3>1. pc[k] = "freeVictim" /\ victim'[k] = victim[k]
        BY <1>5, <2>2, OthersStay
    <3>2. victim[k] \in FileIds /\ victim[k] \notin InTable
        BY <1>i, <3>1 DEF LockDiscipline, Freeing
    <3>3. CASE d = c
        BY <1>0, <1>i, <2>2, <3>1, <3>2, <3>3 DEF OtherVictim
    <3>4. CASE d # c
        BY <1>5, <1>i, <3>1, <3>4, OthersStay DEF OtherVictim
    <3> QED
        BY <3>3, <3>4
  <2>8. N4
      BY <1>i, <2>1, <2>3
  <2> QED
      BY <2>5, <2>6, <2>7, <2>8
<1>6. CASE UNCHANGED vars
  <2>1. UNCHANGED <<heap, abspath, pc, call, ptr, victim>> /\ InTable' = InTable
      BY <1>6 DEF vars, storeVars, listVars, fileVars, localVars, InTable
  <2>2. \A d \in Clients : \A g : (Unlinks(d, g)' <=> Unlinks(d, g)) /\ (d \in Freeing(g)' <=> d \in Freeing(g))
      BY <1>m, <1>f, <2>1 DEF Unlinks, Freeing
  <2>3. N1
      BY <1>i, <2>1, <2>2
  <2>4. N2 /\ N4
      BY <1>i, <2>1, <2>2
  <2>5. OtherVictim'
      BY <1>i, <2>1 DEF OtherVictim
  <2> QED
      BY <2>3, <2>4, <2>5
<1> HIDE DEF N1, N2, N4
<1> QED
    BY <1>1, <1>2, <1>3, <1>4, <1>5, <1>6 DEF Next, TableSteps

(* All layers together.                                                    *)
LEMMA UnlinkedHolds ==
    ASSUME OneCreator, TwoHands
    PROVE  Spec => [](TypeOK /\ LockDiscipline /\ Requests /\ Entries /\ Unique /\ Unlinked)
<1>1. Init => Unlinked
    BY DEF Init, StoreInit, Unlinked, NoneInstead, Live, FreedAreOut, Freeing, OtherVictim, NoRecordLost
<1>2. /\ TypeOK /\ LockDiscipline /\ Requests /\ Entries /\ Unique
      /\ (TypeOK /\ LockDiscipline /\ Requests /\ Entries /\ Unique)'
      /\ Unlinked /\ [Next]_vars
      => Unlinked'
    BY TwoHands, UnlinkedStep
<1> QED
    BY <1>1, <1>2, UniqueHolds, PTL DEF Spec

(* No record leaks, however creations, removals and evictions of a name    *)
(* interleave, as long as no three clients create it, remove it and evict: *)
(* a record that fileDelete (workerFunctions.c:246) or fileDeleteFIFO      *)
(* (FileMemory.c:506) takes out of the table is the one the handler        *)
(* is about to free.                                                       *)
THEOREM NoRecordLeaks ==
    ASSUME OneCreator, TwoHands
    PROVE  Spec => []NoRecordLost
<1>1. Unlinked => NoRecordLost
    BY DEF Unlinked
<1> QED
    BY <1>1, UnlinkedHolds, PTL

(* Nothing but undefined behaviour changes the status.                     *)
LEMMA StatusFrame ==
    ASSUME NEW c \in Clients, Request(c) \/ Handler(c), ~Faults(c), ~freeLocked(c)
    PROVE  UNCHANGED status
<1>1. CASE Request(c) \/ OpenCalls(c)
    BY <1>1 DEF Request, OpenCalls, fileSearch, fileInit, fileSearchSilent, fileOpen, fileClose,
                fileOpenCheck, Refuse, storeVars
<1>2. CASE ReadCalls(c)
    BY <1>2 DEF ReadCalls, sendFile, sendFileEnd, fileNRead, arrayRandomPermutation,
                fileNReadAll, fileNReadNext, fileNReadName, storeVars
<1>3. CASE WriteCalls(c) \/ Evictions(c)
    BY <1>3 DEF WriteCalls, fileWrite, FileNUpdate, pageGet, fileWriteEnd, fileAppend,
                fileAppendEnd, fileDelete, fileDeleteEnd, Evictions, fileDeleteFIFO,
                unlinkVictim, freeVictim, FileNDecrease
<1> QED
    BY <1>1, <1>2, <1>3, HandlerIs

(* A record is freed only after its entry has left the table.              *)
EntryKept == status # "danglingEntry"

(* No record is freed that the table still leads to: the entry is removed  *)
(* by name, in hashTbSearch, and fileFree frees by pointer, and both mean  *)
(* the same record.                                                        *)
THEOREM NoEntryDangles ==
    ASSUME OneCreator, TwoHands
    PROVE  Spec => []EntryKept
<1>1. Init => EntryKept
    BY DEF EntryKept, Init, StoreInit
<1>2. TypeOK /\ LockDiscipline /\ Entries /\ Unlinked /\ EntryKept /\ [Next]_vars => EntryKept'
  <2> SUFFICES ASSUME TypeOK, LockDiscipline, Entries, Unlinked, EntryKept, [Next]_vars
               PROVE  EntryKept'
      OBVIOUS
  <2>1. ASSUME NEW c \in Clients, freeListed(c) PROVE status' # "danglingEntry"
    <3>1. pc[c] \in {"freeVictim", "freeOwn"} /\ status' = freeFault(Dereferenced(c))
        BY <2>1 DEF freeListed, Fault
    <3>2. Dereferenced(c) \in FileIds /\ c \in Freeing(Dereferenced(c))
        BY <3>1 DEF Dereferenced, UsesVictim, LockDiscipline, Freeing
    <3>3. Dereferenced(c) \notin InTable
        BY <3>2 DEF Unlinked, FreedAreOut
    <3>4. ~ Contains(table, Dereferenced(c))
      <4>1. DOMAIN table = 1 .. Len(table)
          BY LenProperties DEF TypeOK, StoreTypeOK
      <4> QED
          BY <3>3, <4>1 DEF Contains, InTable, ToSet
    <3> QED
        BY <3>1, <3>4 DEF freeFault
  <2>2. ASSUME NEW c \in Clients, Faults(c), ~freeListed(c) PROVE status' # "danglingEntry"
      BY <2>2 DEF Faults, Stops, StaleDeref, TopFault, topFault, ReadFault, AppendFault, Fault
  <2>3. ASSUME NEW c \in Clients, Request(c) \/ Handler(c), ~Faults(c), ~freeLocked(c)
        PROVE  UNCHANGED status
      BY <2>3, StatusFrame
  <2>5. ASSUME NEW c \in Clients, freeLocked(c) PROVE status' # "danglingEntry"
      BY <2>5 DEF freeLocked
  <2>4. CASE UNCHANGED vars
      BY <2>4 DEF EntryKept, vars, storeVars
  <2> QED
      BY <2>1, <2>2, <2>3, <2>4, <2>5, HandlerIs DEF Next, EntryKept
<1> QED
    BY <1>1, <1>2, UnlinkedHolds, PTL DEF Spec

-----------------------------------------------------------------------------
(***************************************************************************)
(* The handlers implement the store of FileStore, given OneCreator and     *)
(* TwoHands: every step of a handler is one step of that store or leaves   *)
(* it alone.                                                               *)
(*                                                                         *)
(* The state of that store is made of the table, of what the records in it *)
(* say and of what the handlers were asked for.  A step is compared with   *)
(* it in three parts: which records are in the table, what each of them    *)
(* says (its name, its committed length and its opens), and what each      *)
(* client has still to be granted.                                         *)
(***************************************************************************)


(* The invariant under which steps are compared.                           *)
StoreInv ==
    /\ TypeOK /\ LockDiscipline /\ Requests /\ Entries /\ Unique /\ Unlinked
    /\ WholeFile /\ OpenWhileServed

(* What FileStore sees of a record.                                        *)
absName == [f \in FileIds |-> IF f \in InTable THEN abspath[f] ELSE NULL]
absLength == [f \in FileIds |-> IF f \in InTable THEN committed(f) ELSE 0]
absOpeners == [f \in FileIds |-> [c \in Clients |-> IF f \in InTable THEN opened[f][c] ELSE 0]]
absRequest == [c \in Clients |-> pending(c)]

-----------------------------------------------------------------------------
(* Parts of a step.                                                        *)

(* The length that counts: without what the owner of the record is writing.*)
LEMMA CommittedIs ==
    \A f : committed(f) = IF mutex[f] \in Clients /\ pc[mutex[f]] \in Writing
                                    THEN size[f] - call[mutex[f]].n ELSE size[f]
    BY DEF committed, inWork

(* The same of the next state.                                             *)
LEMMA CommittedNext ==
    \A f : committed(f)' = IF mutex'[f] \in Clients /\ pc'[mutex'[f]] \in Writing
                           THEN size'[f] - call'[mutex'[f]].n ELSE size'[f]
    BY DEF committed, inWork

(* The records of the table say what they said.                            *)
SameRecord(f) == abspath'[f] = abspath[f] /\ committed(f)' = committed(f) /\ opened'[f] = opened[f]
SameFiles == InTable' = InTable /\ \A f \in InTable : SameRecord(f)

(* A step that changes neither is a stutter.                               *)
LEMMA StutterIs ==
    ASSUME SameFiles, \A d \in Clients : pending(d)' = pending(d)
    PROVE  UNCHANGED Store!fsVars
<1>1. UNCHANGED <<absName, absLength, absOpeners, absRequest>>
    BY DEF SameFiles, SameRecord, absName, absLength, absOpeners, absRequest
<1> QED
    BY <1>1 DEF SameFiles, Store!fsVars, Store!storeVars, absName, absLength, absOpeners, absRequest

(* What Done says of the clients' requests.                                *)
LEMMA DoneIs ==
    ASSUME NEW c \in Clients, pending(c)' = NoCall,
           \A d \in Clients : d # c => pending(d)' = pending(d)
    PROVE  absRequest' = [absRequest EXCEPT ![c] = NoCall]
    BY DEF absRequest

(* A step that only answers a client.                                      *)
LEMMA AnswerIs ==
    ASSUME SameFiles, NEW c \in Clients, pending(c)' = NoCall,
           \A d \in Clients : d # c => pending(d)' = pending(d)
    PROVE  Store!Next
<1>1. UNCHANGED <<absName, absLength, absOpeners>> /\ InTable' = InTable
    BY DEF SameFiles, SameRecord, absName, absLength, absOpeners
<1>2. absRequest' = [absRequest EXCEPT ![c] = NoCall]
    BY DoneIs
<1>3. Store!Answer(c)
    BY <1>1, <1>2 DEF Store!Answer, Store!Done, Store!NoRequest, NoCall, Store!storeVars,
                      absName, absLength, absOpeners, absRequest
<1> QED
    BY <1>3 DEF Store!Next

(* Nobody else's request is granted by a step of c.                        *)
LEMMA PendingOthers ==
    ASSUME TypeOK, NEW c \in Clients, Request(c) \/ Handler(c)
    PROVE  \A d \in Clients : d # c => pending(d)' = pending(d)
    BY OthersStay DEF pending

(* A handler that returns has nothing more to be granted.                  *)
LEMMA PendingDone ==
    ASSUME TypeOK, NEW c \in Clients, Return(c)
    PROVE  pending(c)' = NoCall
<1>1. pc'[c] = "idle" /\ call'[c] = NoCall
    BY DEF Return, TypeOK, LocalTypeOK
<1> QED
    BY <1>1 DEF pending, NoCall

(* A record that c does not move keeps its committed length.               *)
LEMMA CommittedSame ==
    ASSUME TypeOK, NEW c \in Clients, Request(c) \/ Handler(c), NEW f,
           size'[f] = size[f], mutex'[f] = mutex[f],
           mutex[f] = c => call'[c] = call[c] /\ (pc'[c] \in Writing <=> pc[c] \in Writing)
    PROVE  committed(f)' = committed(f)
<1>1. CASE mutex[f] \in Clients /\ mutex[f] # c
  <2>1. pc'[mutex[f]] = pc[mutex[f]] /\ call'[mutex[f]] = call[mutex[f]]
      BY <1>1, OthersStay
  <2> QED
      BY <1>1, <2>1, CommittedIs, CommittedNext
<1>2. CASE mutex[f] \notin Clients \/ mutex[f] = c
    BY <1>2, CommittedIs, CommittedNext
<1> QED
    BY <1>1, <1>2

(* Points that c's own request and its record tell apart.                  *)
SamePoint(c) ==
    /\ UNCHANGED call
    /\ pc'[c] \in Writing <=> pc[c] \in Writing
    /\ pc'[c] = "freeOwn" <=> pc[c] = "freeOwn"
    /\ call[c].op = "create" => (pc'[c] \in {"lookup", "openAdd"} <=> pc[c] \in {"lookup", "openAdd"})

(* A step between two such points that leaves the records alone.           *)
LEMMA QuietStep ==
    ASSUME TypeOK, NEW c \in Clients, Request(c) \/ Handler(c),
           UNCHANGED <<table, abspath, size, opened, mutex>>, SamePoint(c)
    PROVE  UNCHANGED Store!fsVars
<1>1. \A f : committed(f)' = committed(f)
    BY CommittedSame DEF SamePoint
<1>2. SameFiles
    BY <1>1 DEF SameFiles, SameRecord, InTable
<1>3. pending(c)' = pending(c)
    BY DEF pending, SamePoint
<1> QED
    BY <1>2, <1>3, PendingOthers, StutterIs

(* A handler that returns without having locked anything.                  *)
LEMMA AnswerStep ==
    ASSUME TypeOK, LockDiscipline, NEW c \in Clients, Request(c) \/ Handler(c),
           UNCHANGED <<table, abspath, size, opened, mutex>>, Return(c),
           pc[c] \notin Writing \cup {"sendUnlock"}
    PROVE  Store!Next
<1>1. \A f \in FileIds : mutex[f] # c
    BY DEF LockDiscipline, Holds
<1>2. InTable \subseteq FileIds
    BY ElementOfSeq, LenProperties DEF TypeOK, StoreTypeOK, InTable, ToSet
<1>3. \A f \in FileIds : committed(f)' = committed(f)
    BY <1>1, CommittedSame
<1>4. SameFiles
    BY <1>2, <1>3 DEF SameFiles, SameRecord, InTable
<1> QED
    BY <1>4, PendingDone, PendingOthers, AnswerIs

-----------------------------------------------------------------------------
(* The steps, by what they are to FileStore.                               *)

(* A client that makes a call makes its request.                           *)
LEMMA RequestImplements ==
    ASSUME StoreInv, NEW c \in Clients, Request(c)
    PROVE  Store!Next
<1>0. TypeOK /\ LockDiscipline /\ Asked
    BY DEF StoreInv, Requests
<1>1. PICK r \in Calls[c] : call' = [call EXCEPT ![c] = r]
    BY DEF Request
<1>2. /\ pc[c] = "idle" /\ call[c] = NoCall /\ r \in Call
      /\ pc'[c] \in {"fileSearch", "defrag", "lookup"}
      /\ pc'[c] = "lookup" => r.op # "create"
  <2>1. pc[c] = "idle" /\ r \in Call /\ pc \in [Clients -> Labels]
      BY <1>0, WorkerAssumption DEF Request, At, TypeOK, LocalTypeOK
  <2>2. call[c] = NoCall
      BY <1>0, <2>1 DEF Asked
  <2>3. pc' = [pc EXCEPT ![c] = CASE call'[c].op = "create" -> "fileSearch"
                                  [] call'[c].op = "readN"  -> "defrag"
                                  [] OTHER           -> "lookup"]
      BY <1>0, <1>1 DEF Request, Goto, TypeOK, LocalTypeOK
  <2>4. call'[c] = r
      BY <1>0, <1>1 DEF TypeOK, LocalTypeOK
  <2> QED
      BY <2>1, <2>2, <2>3, <2>4
<1>3. pending(c) = NoCall /\ pending(c)' = r
  <2>1. call'[c] = r
      BY <1>0, <1>1 DEF TypeOK, LocalTypeOK
  <2> QED
      BY <1>2, <2>1 DEF pending, NoCall
<1>4. UNCHANGED <<table, abspath, size, opened, mutex>>
    BY DEF Request, storeVars, listVars, fileVars
<1>5. \A f \in FileIds : mutex[f] # c
    BY <1>0, <1>2 DEF LockDiscipline, Holds, Writing
<1>6. SameFiles
  <2>1. \A f \in FileIds : committed(f)' = committed(f)
      BY <1>0, <1>4, <1>5, CommittedSame
  <2>2. InTable \subseteq FileIds
      BY AsASet DEF StoreInv
  <2> QED
      BY <1>4, <2>1, <2>2 DEF SameFiles, SameRecord, InTable
<1>7. UNCHANGED <<absName, absLength, absOpeners>> /\ InTable' = InTable
    BY <1>6 DEF SameFiles, SameRecord, absName, absLength, absOpeners
<1>8. /\ absRequest[c] = NoCall /\ absRequest'[c] = r
      /\ absRequest' = [absRequest EXCEPT ![c] = absRequest'[c]]
    BY <1>0, <1>3, PendingOthers DEF absRequest
<1>9. r \in Store!Requests
    BY <1>2 DEF Store!Requests, Call, Ops
<1>10. Store!Request(c)
    BY <1>7, <1>8, <1>9 DEF Store!Request, Store!NoRequest, NoCall, Store!storeVars,
                            absName, absLength, absOpeners, absRequest
<1> QED
    BY <1>10 DEF Store!Next

(* The steps that look something up, check an open, send a file or read    *)
(* the FileStack, and the refusals.                                        *)
Looks(c) ==
    \/ fileSearch(c) \/ fileSearchSilent(c) \/ fileOpenCheck(c) \/ Refuse(c)
    \/ fileNRead(c) \/ arrayRandomPermutation(c) \/ fileNReadAll(c)
    \/ fileNReadNext(c) \/ fileNReadName(c)

(* They leave the files as they are: a step of the store only where the    *)
(* handler answers.                                                        *)
LEMMA LooksImplement ==
    ASSUME StoreInv, NEW c \in Clients, Looks(c)
    PROVE  Store!Next \/ UNCHANGED Store!fsVars
<1>0. TypeOK /\ LockDiscipline /\ Asked /\ Handler(c)
    BY DEF StoreInv, Requests, Looks, Handler, OpenCalls, ReadCalls
<1>1. pc \in [Clients -> Labels] /\ call[c].op \in OpsAt(pc[c])
    BY <1>0 DEF TypeOK, LocalTypeOK, Asked
<1>2. UNCHANGED <<table, abspath, size, opened, mutex>>
    BY DEF Looks, fileSearch, fileSearchSilent, fileOpenCheck, Refuse, fileNRead, arrayRandomPermutation,
           fileNReadAll, fileNReadNext, fileNReadName, storeVars, listVars, fileVars
<1>3. pc[c] \notin Writing \cup {"sendUnlock"}
    BY DEF Looks, fileSearch, fileSearchSilent, fileOpenCheck, Refuse, fileNRead, arrayRandomPermutation,
           fileNReadAll, fileNReadNext, fileNReadName, At, Writing
<1>4. Return(c) \/ SamePoint(c)
  <2> USE <1>1 DEF SamePoint, Writing, At, Goto, OpsAt, ReadNPoints
  <2>1. CASE fileSearch(c)
      BY <2>1 DEF fileSearch, localVars
  <2>2. CASE fileSearchSilent(c)
      BY <2>2 DEF fileSearchSilent
  <2>3. CASE fileOpenCheck(c)
      BY <2>3 DEF fileOpenCheck, localVars
  <2>4. CASE Refuse(c)
      BY <2>4 DEF Refuse
  <2>5. CASE fileNRead(c) \/ arrayRandomPermutation(c) \/ fileNReadAll(c) \/ fileNReadName(c)
      BY <2>5 DEF fileNRead, arrayRandomPermutation, fileNReadAll, fileNReadName, localVars
  <2>6. CASE fileNReadNext(c)
      BY <2>6 DEF fileNReadNext
  <2> QED
      BY <2>1, <2>2, <2>3, <2>4, <2>5, <2>6 DEF Looks
<1> QED
    BY <1>0, <1>2, <1>3, <1>4, AnswerStep, QuietStep

(* The steps of a write, an append or an eviction that the store does not  *)
(* see: counting the file, taking a page, choosing a victim.               *)
Prepares(c) == FileNUpdate(c) \/ pageGet(c) \/ fileDeleteFIFO(c) \/ FileNDecrease(c)

(* Counting, taking a page and choosing a victim are no steps of the       *)
(* store.                                                                  *)
LEMMA PreparesImplement ==
    ASSUME StoreInv, NEW c \in Clients, Prepares(c)
    PROVE  UNCHANGED Store!fsVars
<1>0. TypeOK /\ LockDiscipline /\ Asked /\ Handler(c)
    BY DEF StoreInv, Requests, Prepares, Handler, WriteCalls, Evictions
<1>1. pc \in [Clients -> Labels]
    BY <1>0 DEF TypeOK, LocalTypeOK
<1>2. UNCHANGED <<table, abspath, size, opened, mutex>>
    BY DEF Prepares, FileNUpdate, pageGet, fileDeleteFIFO, FileNDecrease, fileVars
<1>3. SamePoint(c)
  <2> USE <1>1 DEF SamePoint, Writing, At, Goto, localVars
  <2>1. CASE FileNUpdate(c)
      BY <2>1 DEF FileNUpdate
  <2>2. CASE pageGet(c)
      BY <2>2 DEF pageGet
  <2>3. CASE fileDeleteFIFO(c)
      BY <2>3 DEF fileDeleteFIFO
  <2>4. CASE FileNDecrease(c)
      BY <2>4 DEF FileNDecrease
  <2> QED
      BY <2>1, <2>2, <2>3, <2>4 DEF Prepares
<1> QED
    BY <1>0, <1>2, <1>3, QuietStep

(* A fault stops the handlers and changes nothing they have stored.        *)
LEMMA FaultsImplement ==
    ASSUME StoreInv, NEW c \in Clients, Faults(c)
    PROVE  UNCHANGED Store!fsVars
<1>1. UNCHANGED <<listVars, fileVars, lockVars, pc, localVars>>
    BY DEF Faults, Stops, StaleDeref, freeListed, TopFault, ReadFault, AppendFault, Fault
<1>2. UNCHANGED <<table, abspath, size, opened, mutex>> /\ SamePoint(c)
    BY <1>1 DEF listVars, fileVars, localVars, SamePoint
<1> QED
    BY <1>2, QuietStep, HandlerIs DEF StoreInv

(* sendFile holds the record, and writes nothing.                          *)
LEMMA SendsImplement ==
    ASSUME StoreInv, NEW c \in Clients, sendFile(c) \/ sendFileEnd(c)
    PROVE  Store!Next \/ UNCHANGED Store!fsVars
<1>0. TypeOK /\ LockDiscipline /\ Asked /\ Handler(c)
    BY DEF StoreInv, Requests, Handler, ReadCalls
<1>1. /\ pc \in [Clients -> Labels] /\ mutex \in [FileIds -> Owner] /\ NULL \notin Clients
      /\ call[c].op \in OpsAt(pc[c])
      /\ InTable \subseteq FileIds
    BY <1>0, FileMemoryAssumption, AsASet DEF TypeOK, LocalTypeOK, StoreTypeOK, Asked, StoreInv
<1>2. UNCHANGED <<table, abspath, size, opened>>
    BY DEF sendFile, sendFileEnd, listVars, fileVars
<1>3. /\ pc[c] \in {"sendLock", "sendUnlock"} /\ pc'[c] \notin Writing
      /\ pc[c] \notin Writing
      /\ \A f \in FileIds : mutex'[f] # mutex[f] =>
              mutex[f] \in {NULL, c} /\ mutex'[f] \in {NULL, c}
  <2>1. CASE sendFile(c)
      BY <1>1, <2>1 DEF sendFile, CanLock, At, Goto, Writing
  <2>2. CASE sendFileEnd(c)
    <3>1. pc[c] = "sendUnlock" /\ mutex' = [mutex EXCEPT ![ptr[c]] = NULL]
          /\ pc'[c] \in {"idle", "nextFile"}
        BY <1>1, <2>2 DEF sendFileEnd, At, Return, Goto
    <3>2. ptr[c] \in FileIds /\ mutex[ptr[c]] = c
        BY <1>0, <3>1 DEF LockDiscipline
    <3> QED
        BY <1>1, <3>1, <3>2 DEF Writing
  <2> QED
      BY <2>1, <2>2
<1>4. \A f \in FileIds : committed(f)' = committed(f)
  <2> SUFFICES ASSUME NEW f \in FileIds PROVE committed(f)' = committed(f)
      OBVIOUS
  <2>1. CASE mutex'[f] = mutex[f] /\ mutex[f] # c
      BY <1>0, <1>2, <2>1, CommittedSame
  <2>2. CASE mutex[f] \in {NULL, c} /\ mutex'[f] \in {NULL, c}
      BY <1>1, <1>2, <1>3, <2>2, CommittedIs, CommittedNext
  <2> QED
      BY <1>3, <2>1, <2>2
<1>5. SameFiles
    BY <1>1, <1>2, <1>4 DEF SameFiles, SameRecord, InTable
<1>6. CASE Return(c)
    BY <1>0, <1>5, <1>6, PendingDone, PendingOthers, AnswerIs
<1>7. CASE ~Return(c)
  <2>1. UNCHANGED call /\ pc'[c] \in {"sendUnlock", "nextFile"}
      BY <1>1, <1>7 DEF sendFile, sendFileEnd, localVars, Goto
  <2>2. call[c].op # "create"
      BY <1>1, <1>3 DEF OpsAt, ReadNPoints
  <2>3. pending(c)' = pending(c)
      BY <1>3, <2>1, <2>2 DEF pending
  <2> QED
      BY <1>0, <1>5, <2>3, PendingOthers, StutterIs
<1> QED
    BY <1>6, <1>7

(* A record is freed after it left the table.                              *)
LEMMA FreesImplement ==
    ASSUME StoreInv, NEW c \in Clients, freeVictim(c) \/ fileDeleteEnd(c)
    PROVE  UNCHANGED Store!fsVars
<1>0. TypeOK /\ LockDiscipline /\ Asked /\ Entries /\ Handler(c)
    BY DEF StoreInv, Requests, Handler, WriteCalls, Evictions
<1>1. /\ pc \in [Clients -> Labels] /\ call \in [Clients -> Call]
      /\ call[c].op \in OpsAt(pc[c])
      /\ InTable \subseteq FileIds
      /\ size \in [FileIds -> Nat] /\ opened \in [FileIds -> [Clients -> Nat]]
      /\ abspath \in [FileIds -> Names \cup {NULL}]
    BY <1>0, AsASet DEF TypeOK, LocalTypeOK, StoreTypeOK, Asked
<1>2. PICK f \in FileIds : f = Freed(c) /\ f \notin InTable /\ InTable' = InTable
    BY <1>0, TableMoves
<1>3. pc[c] \in {"freeOwn", "freeVictim"} /\ fileFree(f) /\ UNCHANGED mutex
    BY <1>2 DEF freeVictim, fileDeleteEnd, fileFree, Freed, At
<1>4. \A g \in InTable : abspath'[g] = abspath[g] /\ size'[g] = size[g] /\ opened'[g] = opened[g]
    BY <1>1, <1>2, <1>3 DEF fileFree
<1>5. CASE pc[c] = "freeVictim"
  <2>1. UNCHANGED call /\ pc'[c] \in {"pageGet", "decrease"}
      BY <1>1, <1>5 DEF freeVictim, fileDeleteEnd, At, Goto
  <2>2. \A g \in InTable : committed(g)' = committed(g)
      BY <1>0, <1>3, <1>4, <1>5, <2>1, CommittedSame DEF Writing
  <2>3. call[c].op \in {"write", "append"}
      BY <1>1, <1>5 DEF OpsAt, ReadNPoints
  <2>4. pending(c)' = pending(c)
      BY <1>5, <2>1, <2>3 DEF pending
  <2> QED
      BY <1>0, <1>2, <1>4, <2>2, <2>4, PendingOthers, StutterIs DEF SameFiles, SameRecord
<1>6. CASE pc[c] = "freeOwn"
  <2>1. Return(c)
      BY <1>6 DEF freeVictim, fileDeleteEnd, At
  <2>2. \A g \in FileIds : mutex[g] # c
      BY <1>0, <1>6 DEF LockDiscipline, Holds, Writing
  <2>3. \A g \in InTable : committed(g)' = committed(g)
      BY <1>0, <1>1, <1>3, <1>4, <2>2, CommittedSame
  <2>4. pending(c) = NoCall
      BY <1>6 DEF pending
  <2> QED
      BY <1>0, <1>2, <1>4, <2>1, <2>3, <2>4, PendingDone, PendingOthers, StutterIs DEF SameFiles, SameRecord
<1> QED
    BY <1>3, <1>5, <1>6

(* So is one that somebody has locked in between.                          *)
LEMMA LockedFreeImplements ==
    ASSUME StoreInv, NEW c \in Clients, freeLocked(c)
    PROVE  UNCHANGED Store!fsVars
<1>0. TypeOK /\ LockDiscipline /\ Asked /\ Entries /\ Handler(c)
    BY HandlerIs DEF StoreInv, Requests
<1>1. PICK f \in FileIds : /\ fileFree(f) /\ ~Contains(table, f)
                           /\ UNCHANGED <<table, mutex, pc, call, ptr>>
    BY <1>0, FreeLockedIs
<1>2. f \notin InTable /\ InTable' = InTable /\ InTable \subseteq FileIds
    BY <1>0, <1>1, NotInTable, AsASet DEF InTable
<1>3. \A g \in InTable : abspath'[g] = abspath[g] /\ size'[g] = size[g] /\ opened'[g] = opened[g]
    BY <1>0, <1>1, <1>2 DEF fileFree, TypeOK, StoreTypeOK
<1>4. \A g \in InTable : committed(g)' = committed(g)
    BY <1>0, <1>1, <1>3, CommittedSame
<1>5. \A d \in Clients : pending(d)' = pending(d)
    BY <1>1 DEF pending
<1> QED
    BY <1>2, <1>3, <1>4, <1>5, StutterIs DEF SameFiles, SameRecord

(* fileInit makes the file, and leaves it to be opened.                    *)
LEMMA InitImplements ==
    ASSUME StoreInv, NEW c \in Clients, fileInit(c)
    PROVE  Store!Next
<1>0. TypeOK /\ LockDiscipline /\ Asked /\ Entries /\ Handler(c)
    BY DEF StoreInv, Requests, Handler, OpenCalls
<1>1. /\ pc \in [Clients -> Labels] /\ call \in [Clients -> Call] /\ NULL \notin Clients
      /\ InTable \subseteq FileIds
      /\ size \in [FileIds -> Nat] /\ opened \in [FileIds -> [Clients -> Nat]]
      /\ mutex \in [FileIds -> Owner]
      /\ abspath \in [FileIds -> Names \cup {NULL}]
    BY <1>0, FileMemoryAssumption, AsASet DEF TypeOK, LocalTypeOK, StoreTypeOK
<1>2. PICK f \in FileIds : /\ table' = <<f>> \o table
                           /\ abspath' = [abspath EXCEPT ![f] = call[c].name]
                           /\ size' = [size EXCEPT ![f] = 0]
                           /\ opened' = [opened EXCEPT ![f] = [d \in Clients |-> 0]]
                           /\ mutex' = [mutex EXCEPT ![f] = NULL]
                           /\ heap[f] = "free"
    BY DEF fileInit, Fresh
<1>3. /\ pc[c] = "fileInit" /\ UNCHANGED call
      /\ pc'[c] = "lookup" /\ call[c].op = "create"
  <2>1. pc[c] = "fileInit" /\ UNCHANGED call /\ pc'[c] = "lookup"
      BY <1>1 DEF fileInit, At, Goto, localVars
  <2> QED
      BY <1>0, <2>1 DEF Asked, OpsAt, ReadNPoints
<1>4. f \notin InTable /\ InTable' = InTable \cup {f}
  <2>1. f \notin InTable
      BY <1>0, <1>2, AsASet
  <2>2. PICK g \in FileIds : /\ table' = <<g>> \o table /\ table'[1] = g
                             /\ InTable' = InTable \cup {g}
    <3>1. PICK g \in FileIds : /\ table' = <<g>> \o table /\ table'[1] = g
                               /\ heap' = [heap EXCEPT ![g] = "live"] /\ heap[g] = "free"
        BY <1>0, InitAdds
    <3>2. PICK h \in FileIds : InTable' = InTable \cup {h} /\ heap' = [heap EXCEPT ![h] = "live"] /\ heap[h] = "free"
        BY <1>0, TableMoves
    <3>3. g = h
        BY <1>0, <3>1, <3>2 DEF TypeOK, StoreTypeOK
    <3> QED
        BY <3>1, <3>2, <3>3
  <2>3. (<<f>> \o table)[1] = f
    <3>1. table \in Seq(FileIds) /\ Len(table) \in Nat
        BY <1>0, LenProperties DEF TypeOK, StoreTypeOK
    <3>2. <<f>> \in Seq(FileIds) /\ Len(<<f>>) = 1 /\ <<f>>[1] = f
        OBVIOUS
    <3> QED
        BY <3>1, <3>2, ConcatProperties
  <2>4. f = g
      BY <1>2, <2>2, <2>3
  <2> QED
      BY <2>1, <2>2, <2>4
<1>5. \A g \in InTable : SameRecord(g)
  <2> SUFFICES ASSUME NEW g \in InTable PROVE SameRecord(g)
      OBVIOUS
  <2>1. g # f /\ g \in FileIds
      BY <1>1, <1>4
  <2>2. mutex[g] # c
      BY <1>0, <1>3, <2>1 DEF LockDiscipline, Holds, Writing
  <2>3. committed(g)' = committed(g)
      BY <1>0, <1>1, <1>2, <2>1, <2>2, CommittedSame
  <2> QED
      BY <1>1, <1>2, <2>1, <2>3 DEF SameRecord
<1>6. abspath'[f] = call[c].name /\ committed(f)' = 0 /\ \A d \in Clients : opened'[f][d] = 0
    BY <1>1, <1>2, CommittedNext
<1>7. pending(c) = call[c] /\ pending(c)' = [call[c] EXCEPT !.op = "open"]
    BY <1>3 DEF pending
<1>8. /\ absRequest[c] = call[c]
      /\ absRequest' = [absRequest EXCEPT ![c] = [absRequest[c] EXCEPT !.op = "open"]]
    BY <1>0, <1>7, PendingOthers DEF absRequest
<1>9. absName' = [absName EXCEPT ![f] = absRequest[c].name]
    BY <1>4, <1>5, <1>6, <1>8 DEF absName, SameRecord
<1>10. UNCHANGED <<absLength, absOpeners>>
    BY <1>4, <1>5, <1>6 DEF absLength, absOpeners, SameRecord
<1>11. Store!Create(c, f)
    BY <1>3, <1>4, <1>8, <1>9, <1>10 DEF Store!Create, absName, absLength, absOpeners, absRequest
<1> QED
    BY <1>11 DEF Store!Next
(* One client's opens of one file, seen from the store.                    *)
LEMMA OneOpener ==
    ASSUME NEW f \in FileIds, NEW c \in Clients, NEW v,
           \A g \in FileIds, d \in Clients :
               absOpeners'[g][d] = IF g = f /\ d = c THEN v ELSE absOpeners[g][d]
    PROVE  absOpeners' = [absOpeners EXCEPT ![f][c] = v]
<1>1. /\ absOpeners = [g \in FileIds |-> absOpeners[g]]
      /\ \A g \in FileIds : absOpeners[g] = [d \in Clients |-> absOpeners[g][d]]
      /\ absOpeners' = [g \in FileIds |-> absOpeners'[g]]
      /\ \A g \in FileIds : absOpeners'[g] = [d \in Clients |-> absOpeners'[g][d]]
    BY DEF absOpeners
<1>2. \A g \in FileIds : g # f => absOpeners'[g] = absOpeners[g]
    BY <1>1
<1>3. absOpeners'[f] = [absOpeners[f] EXCEPT ![c] = v]
    BY <1>1
<1> QED
    BY <1>1, <1>2, <1>3

(* fileOpen adds the client to the record it looked up.                    *)
LEMMA OpenImplements ==
    ASSUME StoreInv, NEW c \in Clients, fileOpen(c) \/ fileClose(c)
    PROVE  Store!Next
<1>0. TypeOK /\ LockDiscipline /\ Asked /\ OwnName /\ Handler(c)
    BY DEF StoreInv, Requests, Handler, OpenCalls
<1>1. /\ pc \in [Clients -> Labels] /\ call[c].op \in OpsAt(pc[c])
      /\ InTable \subseteq FileIds
      /\ opened \in [FileIds -> [Clients -> Nat]]
    BY <1>0, AsASet DEF TypeOK, LocalTypeOK, StoreTypeOK, Asked, StoreInv
<1>2. PICK f \in FileIds : f = ptr[c] /\ heap[f] = "live"
    BY DEF fileOpen, fileClose, CanLock
<1>3. /\ UNCHANGED <<table, abspath, size, mutex>> /\ Return(c)
      /\ pc[c] \in {"openAdd", "closeDel"}
    BY DEF fileOpen, fileClose, listVars, At
<1>4. \A g \in FileIds : committed(g)' = committed(g)
  <2>1. \A g \in FileIds : mutex[g] # c
      BY <1>0, <1>3 DEF LockDiscipline, Holds, Writing
  <2> QED
      BY <1>0, <1>3, <2>1, CommittedSame
<1>5. InTable' = InTable /\ UNCHANGED <<absName, absLength>>
    BY <1>1, <1>3, <1>4 DEF InTable, absName, absLength
<1>6. absRequest' = [absRequest EXCEPT ![c] = NoCall] /\ pending(c)' = NoCall
      /\ \A d \in Clients : d # c => pending(d)' = pending(d)
    BY <1>0, <1>3, PendingDone, PendingOthers, DoneIs
<1>7. call[c].op \in {"create", "open", "close"}
    BY <1>1, <1>3 DEF OpsAt, ReadNPoints
<1>8. abspath[f] = call[c].name
    BY <1>0, <1>2, <1>7 DEF OwnName
<1>9. CASE f \notin InTable
  <2>1. \A g \in FileIds : g # f => opened'[g] = opened[g]
      BY <1>1, <1>2 DEF fileOpen, fileClose, clientPidDelete
  <2>2. SameFiles
      BY <1>1, <1>3, <1>4, <1>5, <1>9, <2>1 DEF SameFiles, SameRecord
  <2> QED
      BY <1>6, <2>2, AnswerIs
<1>10. CASE f \in InTable /\ fileOpen(c)
  <2>1. pc[c] = "openAdd" /\ opened' = [opened EXCEPT ![f][c] = @ + 1]
      BY <1>2, <1>10 DEF fileOpen, At
  <2>2. absRequest[c].op = "open" /\ absRequest[c].name = absName[f]
    <3>1. call[c].op \in {"create", "open"} /\ call[c] \in [op : Ops, name : Names \cup {NULL}, n : Nat]
        BY <1>0, <1>1, <2>1 DEF OpsAt, ReadNPoints, TypeOK, LocalTypeOK, Call
    <3>2. pending(c).op = "open" /\ pending(c).name = call[c].name
        BY <2>1, <3>1 DEF pending
    <3> QED
        BY <1>8, <1>10, <3>2 DEF absRequest, absName
  <2>3. absOpeners' = [absOpeners EXCEPT ![f][c] = absOpeners[f][c] + 1]
    <3>1. \A g \in FileIds, d \in Clients :
              opened'[g][d] = IF g = f /\ d = c THEN opened[g][d] + 1 ELSE opened[g][d]
        BY <1>1, <2>1
    <3>2. PICK v : v = absOpeners[f][c] + 1
        OBVIOUS
    <3>3. \A g \in FileIds, d \in Clients :
              absOpeners'[g][d] = IF g = f /\ d = c THEN v ELSE absOpeners[g][d]
        BY <1>5, <1>10, <3>1, <3>2 DEF absOpeners
    <3>4. absOpeners' = [absOpeners EXCEPT ![f][c] = v]
        BY <3>3, OneOpener
    <3> QED
        BY <3>2, <3>4
  <2>4. Store!Open(c, f)
      BY <1>5, <1>6, <1>10, <2>2, <2>3
      DEF Store!Open, Store!Asks, Store!Done, Store!NoRequest, NoCall,
          absName, absLength, absOpeners, absRequest
  <2> QED
      BY <2>4 DEF Store!Next
<1>11. CASE f \in InTable /\ fileClose(c)
  <2>1. pc[c] = "closeDel" /\ opened' = [opened EXCEPT ![f][c] = IF @ = 0 THEN 0 ELSE @ - 1]
      BY <1>2, <1>11 DEF fileClose, At, clientPidDelete
  <2>2. absRequest[c].op = "close" /\ absRequest[c].name = absName[f]
    <3>1. call[c].op = "close"
        BY <1>1, <2>1 DEF OpsAt, ReadNPoints
    <3>2. pending(c) = call[c]
        BY <2>1, <3>1 DEF pending
    <3> QED
        BY <1>8, <1>11, <3>1, <3>2 DEF absRequest, absName
  <2>3. absOpeners' = [absOpeners EXCEPT ![f][c] = IF @ = 0 THEN 0 ELSE @ - 1]
    <3>1. \A g \in FileIds, d \in Clients :
              opened'[g][d] = IF g = f /\ d = c THEN (IF opened[g][d] = 0 THEN 0 ELSE opened[g][d] - 1)
                              ELSE opened[g][d]
        BY <1>1, <2>1
    <3>2. PICK v : v = IF absOpeners[f][c] = 0 THEN 0 ELSE absOpeners[f][c] - 1
        OBVIOUS
    <3>3. \A g \in FileIds, d \in Clients :
              absOpeners'[g][d] = IF g = f /\ d = c THEN v ELSE absOpeners[g][d]
        BY <1>5, <1>11, <3>1, <3>2 DEF absOpeners
    <3>4. absOpeners' = [absOpeners EXCEPT ![f][c] = v]
        BY <3>3, OneOpener
    <3> QED
        BY <3>2, <3>4
  <2>4. Store!Close(c, f)
      BY <1>5, <1>6, <1>11, <2>2, <2>3
      DEF Store!Close, Store!Asks, Store!Done, Store!NoRequest, NoCall,
          absName, absLength, absOpeners, absRequest
  <2> QED
      BY <2>4 DEF Store!Next
<1> QED
    BY <1>9, <1>10, <1>11
(* fileWrite and fileAppend take the record's lock and set its new size,   *)
(* which does not count until they are done; or they refuse.               *)
LEMMA StartsImplement ==
    ASSUME StoreInv, NEW c \in Clients, fileWrite(c) \/ fileAppend(c)
    PROVE  Store!Next \/ UNCHANGED Store!fsVars
<1>0. TypeOK /\ LockDiscipline /\ Asked /\ WholeFile /\ Handler(c)
    BY DEF StoreInv, Requests, Handler, WriteCalls
<1>1. /\ pc \in [Clients -> Labels] /\ call[c].op \in OpsAt(pc[c])
      /\ InTable \subseteq FileIds /\ NULL \notin Clients
      /\ size \in [FileIds -> Nat] /\ mutex \in [FileIds -> Owner]
      /\ call \in [Clients -> Call] /\ call[c].n \in Nat
    BY <1>0, AsASet, FileMemoryAssumption DEF TypeOK, LocalTypeOK, StoreTypeOK, Asked, StoreInv, Call
<1>2. PICK f \in FileIds : f = ptr[c] /\ heap[f] = "live" /\ mutex[f] = NULL
    BY DEF fileWrite, fileAppend, CanLock
<1>3. /\ pc[c] \in {"writeLock", "appendLock"} /\ UNCHANGED <<table, abspath, pages, opened>>
    BY DEF fileWrite, fileAppend, At, listVars
<1>4. CASE Return(c)
  <2>1. pc'[c] = "idle"
      BY <1>1, <1>4 DEF Return
  <2>2. UNCHANGED <<size, mutex>>
      BY <1>1, <2>1 DEF fileWrite, fileAppend, refuseWrite, Goto
  <2> QED
      BY <1>0, <1>3, <1>4, <2>2, AnswerStep DEF Writing
<1>5. CASE ~ Return(c)
  <2>1. /\ mutex' = [mutex EXCEPT ![f] = c] /\ UNCHANGED call
        /\ pc'[c] \in {"fileN", "pageGet"} /\ call[c].op \in {"write", "append"}
    <3>1. CASE fileWrite(c)
      <4>1. pc[c] = "writeLock"
          BY <3>1 DEF fileWrite, At
      <4> QED
          BY <1>1, <1>2, <1>5, <3>1, <4>1 DEF fileWrite, refuseWrite, Goto, localVars, OpsAt, ReadNPoints
    <3>2. CASE fileAppend(c)
      <4>1. pc[c] = "appendLock"
          BY <3>2 DEF fileAppend, At
      <4> QED
          BY <1>1, <1>2, <1>5, <3>2, <4>1 DEF fileAppend, Goto, localVars, OpsAt, ReadNPoints
    <3> QED
        BY <3>1, <3>2
  <2>2. committed(f) = size[f] /\ committed(f)' = size'[f] - call[c].n
    <3>1. mutex'[f] = c /\ pc'[c] \in Writing /\ call'[c] = call[c]
        BY <1>1, <2>1 DEF Writing
    <3> QED
        BY <1>1, <1>2, <3>1, CommittedIs, CommittedNext
  <2>3. size'[f] - call[c].n = size[f] /\ \A g \in FileIds : g # f => size'[g] = size[g]
    <3>1. CASE fileWrite(c)
      <4>1. pages[f] = {} /\ size' = [size EXCEPT ![f] = call[c].n]
          BY <1>2, <1>5, <3>1 DEF fileWrite, refuseWrite, writeRefused
      <4>2. Cardinality(pages[f]) = 0
          BY <4>1, FS_EmptySet
      <4>3. size[f] = 0
          BY <1>0, <1>2, <4>2 DEF WholeFile, Live
      <4> QED
          BY <1>1, <4>1, <4>3
    <3>2. CASE fileAppend(c)
      <4>1. size' = [size EXCEPT ![f] = @ + call[c].n]
          BY <1>2, <1>5, <3>2 DEF fileAppend
      <4> QED
          BY <1>1, <4>1
    <3> QED
        BY <3>1, <3>2
  <2>4. \A g \in FileIds : committed(g)' = committed(g)
    <3>1. \A g \in FileIds : mutex[g] # c
        BY <1>0, <1>3 DEF LockDiscipline, Holds, Writing
    <3>2. \A g \in FileIds : g # f => mutex'[g] = mutex[g]
        BY <1>1, <2>1
    <3>3. \A g \in FileIds : g # f => committed(g)' = committed(g)
        BY <1>0, <2>3, <3>1, <3>2, CommittedSame
    <3> QED
        BY <2>2, <2>3, <3>3
  <2>5. SameFiles
      BY <1>1, <1>3, <2>4 DEF SameFiles, SameRecord, InTable
  <2>6. pending(c)' = pending(c)
      BY <1>3, <2>1 DEF pending
  <2> QED
      BY <1>0, <2>5, <2>6, PendingOthers, StutterIs
<1> QED
    BY <1>4, <1>5

(* The end of a write or an append: the new length counts from here.       *)
LEMMA FinishImplements ==
    ASSUME StoreInv, NEW c \in Clients, NEW f \in FileIds, f = ptr[c],
           At(c, "stackAdd") \/ At(c, "appendEnd"), Return(c), Handler(c),
           UNCHANGED <<table, abspath, size, opened>>,
           mutex' = [mutex EXCEPT ![f] = NULL],
           pc[c] = "appendEnd" => ~noOldPage(c)
    PROVE  Store!Next
<1>0. TypeOK /\ LockDiscipline /\ Asked /\ OwnName /\ NewSize /\ OpenWhileServed
    BY DEF StoreInv, Requests
<1>1. /\ pc \in [Clients -> Labels] /\ call[c].op \in OpsAt(pc[c])
      /\ InTable \subseteq FileIds /\ NULL \notin Clients
      /\ size \in [FileIds -> Nat] /\ mutex \in [FileIds -> Owner]
      /\ opened \in [FileIds -> [Clients -> Nat]]
      /\ call \in [Clients -> Call] /\ call[c].n \in Nat
    BY <1>0, AsASet, FileMemoryAssumption DEF TypeOK, LocalTypeOK, StoreTypeOK, Asked, StoreInv, Call
<1>2. /\ pc[c] \in Writing /\ mutex[f] = c /\ heap[f] = "live" /\ pc[c] \in Served
    BY <1>0 DEF At, LockDiscipline, Writing, Served
<1>3. /\ pc[c] \in {"stackAdd", "appendEnd"}
      /\ pc[c] = "stackAdd" => call[c].op = "write"
      /\ pc[c] = "appendEnd" => call[c].op = "append"
    BY <1>1 DEF At, OpsAt, ReadNPoints
<1>4. committed(f) = size[f] - call[c].n /\ committed(f)' = size[f]
  <2>1. mutex'[f] = NULL
      BY <1>1
  <2> QED
      BY <1>1, <1>2, <2>1, CommittedIs, CommittedNext
<1>5. \A g \in FileIds : g # f => committed(g)' = committed(g)
  <2> SUFFICES ASSUME NEW g \in FileIds, g # f PROVE committed(g)' = committed(g)
      OBVIOUS
  <2>1. mutex'[g] = mutex[g] /\ mutex[g] # c
      BY <1>0, <1>1 DEF LockDiscipline, Holds
  <2> QED
      BY <1>0, <2>1, CommittedSame
<1>6. /\ call[c].n <= size[f] /\ size[f] <= Cardinality(Pages)
      /\ call[c].op = "write" => size[f] = call[c].n
    BY <1>0, <1>2 DEF At, NewSize
<1>7. abspath[f] = call[c].name /\ opened[f][c] > 0
    BY <1>0, <1>2, <1>3 DEF OwnName, OpenWhileServed
<1>8. InTable' = InTable /\ UNCHANGED <<absName, absOpeners>>
    BY <1>1 DEF InTable, absName, absOpeners
<1>9. absRequest' = [absRequest EXCEPT ![c] = NoCall] /\ pending(c)' = NoCall
      /\ \A d \in Clients : d # c => pending(d)' = pending(d)
    BY <1>0, PendingDone, PendingOthers, DoneIs
<1>10. CASE f \notin InTable
  <2>1. SameFiles
      BY <1>1, <1>5, <1>8, <1>10 DEF SameFiles, SameRecord
  <2> QED
      BY <1>9, <2>1, AnswerIs
<1>11. CASE f \in InTable
  <2>1. absRequest[c] = call[c]
      BY <1>3 DEF absRequest, pending
  <2>2. absLength[f] = size[f] - call[c].n /\ absLength[f] + call[c].n = size[f]
      BY <1>1, <1>4, <1>11 DEF absLength
  <2>3. absLength' = [absLength EXCEPT ![f] = @ + absRequest[c].n]
      BY <1>1, <1>4, <1>5, <1>8, <1>11, <2>1, <2>2 DEF absLength
  <2>4. absOpeners[f][c] > 0 /\ absName[f] = call[c].name
      BY <1>7, <1>11 DEF absOpeners, absName
  <2>5. Store!Extend(c, f)
      BY <1>1, <1>6, <1>8, <1>9, <2>1, <2>2, <2>3, <2>4
      DEF Store!Extend, Store!Done, Store!NoRequest, NoCall,
          absName, absLength, absOpeners, absRequest
  <2>6. CASE pc[c] = "stackAdd"
    <3>1. Store!Write(c, f)
        BY <1>1, <1>3, <1>6, <1>11, <2>1, <2>2, <2>4, <2>5, <2>6
        DEF Store!Write, Store!Asks, absName, absLength, absOpeners, absRequest
    <3> QED
        BY <3>1 DEF Store!Next
  <2>7. CASE pc[c] = "appendEnd"
    <3>1. absLength[f] > 0
        BY <1>1, <1>6, <2>2, <2>7 DEF noOldPage
    <3>2. Store!Append(c, f)
        BY <1>1, <1>3, <1>11, <2>1, <2>4, <2>5, <2>7, <3>1
        DEF Store!Append, Store!Asks, absName, absLength, absOpeners, absRequest
    <3> QED
        BY <3>2 DEF Store!Next
  <2> QED
      BY <1>3, <2>6, <2>7
<1> QED
    BY <1>10, <1>11

(* The end of a write or an append commits its bytes and answers the       *)
(* request; one that meets the full stack waits for itself and commits     *)
(* nothing.                                                                *)
LEMMA EndsImplement ==
    ASSUME StoreInv, NEW c \in Clients, fileWriteEnd(c) \/ fileAppendEnd(c)
    PROVE  Store!Next \/ UNCHANGED Store!fsVars
<1>0. TypeOK /\ LockDiscipline /\ Asked /\ Handler(c)
    BY DEF StoreInv, Requests, Handler, WriteCalls
<1>1. /\ At(c, "stackAdd") \/ At(c, "appendEnd")
      /\ pc[c] \in {"stackAdd", "appendEnd"}
      /\ UNCHANGED <<table, abspath, size, opened>>
    BY DEF fileWriteEnd, fileAppendEnd, At, listVars
<1>2. PICK f \in FileIds : f = ptr[c]
    BY <1>0, <1>1 DEF LockDiscipline, Writing
<1>3. CASE Return(c)
  <2>1. pc'[c] = "idle"
      BY <1>0, <1>3 DEF Return, TypeOK, LocalTypeOK
  <2>2. mutex' = [mutex EXCEPT ![f] = NULL] /\ (pc[c] = "appendEnd" => ~noOldPage(c))
      BY <1>0, <1>2, <2>1 DEF fileWriteEnd, fileAppendEnd, Goto, At, TypeOK, LocalTypeOK
  <2> QED
      BY <1>0, <1>1, <1>2, <1>3, <2>2, FinishImplements
<1>4. CASE ~Return(c)
  <2>1. UNCHANGED mutex /\ UNCHANGED call /\ pc[c] = "stackAdd" /\ pc'[c] = "selfLock"
      BY <1>0, <1>4 DEF fileWriteEnd, fileAppendEnd, Goto, At, TypeOK, LocalTypeOK, localVars
  <2>2. SamePoint(c)
      BY <2>1 DEF SamePoint, Writing
  <2> QED
      BY <1>0, <1>1, <2>1, <2>2, QuietStep
<1> QED
    BY <1>3, <1>4

(* Removed records leave the table, whoever unlinks them.                  *)
LEMMA DeleteIs ==
    ASSUME TypeOK, NEW f \in FileIds, InTable' = InTable \ {f}, InTable \subseteq FileIds,
           \A g \in InTable : SameRecord(g)
    PROVE  Store!Delete(f)
<1>1. /\ absName' = [absName EXCEPT ![f] = NULL]
      /\ absLength' = [absLength EXCEPT ![f] = 0]
    BY DEF absName, absLength, SameRecord
<1>2. absOpeners' = [absOpeners EXCEPT ![f] = [c \in Clients |-> 0]]
    BY DEF absOpeners, SameRecord
<1> QED
    BY <1>1, <1>2 DEF Store!Delete, Store!Nobody, absName, absLength, absOpeners

(* fileDelete is the removal asked for, fileDeleteFIFO an eviction.        *)
LEMMA UnlinksImplement ==
    ASSUME StoreInv, NEW c \in Clients, fileDelete(c) \/ unlinkVictim(c)
    PROVE  Store!Next \/ UNCHANGED Store!fsVars
<1>0. /\ TypeOK /\ LockDiscipline /\ Asked /\ OwnName /\ Entries /\ Unique /\ NoneInstead
      /\ OpenWhileServed /\ Handler(c)
    BY DEF StoreInv, Requests, Unlinked, Handler, WriteCalls, Evictions
<1>1. /\ pc \in [Clients -> Labels] /\ call[c].op \in OpsAt(pc[c])
      /\ InTable \subseteq FileIds
    BY <1>0, AsASet DEF TypeOK, LocalTypeOK, Asked
<1>2. PICK f \in FileIds : /\ f = Unlinker(c) /\ heap[f] = "live"
                           /\ InTable' = InTable \ {f} /\ UNCHANGED abspath
    BY <1>0, UnlinksItself
<1>3. /\ UNCHANGED <<size, opened, mutex, call>>
      /\ pc[c] \in {"deleteLock", "lockVictim"}
      /\ pc[c] = "deleteLock" => pc'[c] = "freeOwn"
      /\ pc[c] = "lockVictim" => pc'[c] = "freeVictim"
    BY <1>1, UnlinkRemoves DEF fileDelete, unlinkVictim, fileVars
<1>4. \A g \in FileIds : committed(g)' = committed(g)
  <2>1. pc[c] = "deleteLock" => \A g \in FileIds : mutex[g] # c
      BY <1>0 DEF LockDiscipline, Holds, Writing
  <2>2. pc[c] = "lockVictim" => (pc'[c] \in Writing <=> pc[c] \in Writing)
      BY <1>3 DEF Writing
  <2> QED
      BY <1>0, <1>3, <2>1, <2>2, CommittedSame
<1>5. \A g \in InTable : SameRecord(g)
    BY <1>1, <1>2, <1>3, <1>4 DEF SameRecord
<1>6. \A d \in Clients : d # c => pending(d)' = pending(d)
    BY <1>0, PendingOthers
<1>7. CASE pc[c] = "deleteLock"
  <2>1. call[c].op = "remove" /\ f = ptr[c]
      BY <1>1, <1>2, <1>7 DEF OpsAt, ReadNPoints, Unlinker
  <2>2. pending(c) = call[c] /\ pending(c)' = NoCall
      BY <1>3, <1>7, <2>1 DEF pending
  <2>3. abspath[f] = call[c].name /\ opened[f][c] > 0
      BY <1>0, <1>2, <1>7, <2>1 DEF OwnName, OpenWhileServed, Served
  <2>4. CASE f \in InTable
    <3>1. Store!Delete(f)
        BY <1>0, <1>1, <1>2, <1>5, DeleteIs
    <3>2. absRequest' = [absRequest EXCEPT ![c] = NoCall] /\ absRequest[c] = call[c]
        BY <1>6, <2>2, DoneIs DEF absRequest
    <3>3. absOpeners[f][c] > 0 /\ absName[f] = call[c].name
        BY <2>3, <2>4 DEF absOpeners, absName
    <3>4. Store!Remove(c, f)
        BY <2>1, <2>4, <3>1, <3>2, <3>3
        DEF Store!Remove, Store!Asks, Store!Done, Store!NoRequest, NoCall,
            absName, absOpeners, absRequest
    <3> QED
        BY <3>4 DEF Store!Next
  <2>5. CASE f \notin InTable
    <3>1. SameFiles
        BY <1>2, <1>5, <2>5 DEF SameFiles
    <3> QED
        BY <1>6, <2>2, <3>1, AnswerIs
  <2> QED
      BY <2>4, <2>5
<1>8. CASE pc[c] = "lockVictim"
  <2>1. call[c].op \in {"write", "append"}
      BY <1>1, <1>8 DEF OpsAt, ReadNPoints
  <2>2. pending(c) = call[c] /\ pending(c)' = call[c]
      BY <1>3, <1>8, <2>1 DEF pending
  <2>3. CASE f \in InTable
    <3>1. Store!Delete(f)
        BY <1>0, <1>1, <1>2, <1>5, DeleteIs
    <3>2. UNCHANGED absRequest /\ absRequest[c] = call[c]
        BY <1>6, <2>2 DEF absRequest
    <3>3. Store!Evict(c, f)
        BY <2>1, <2>3, <3>1, <3>2 DEF Store!Evict, absRequest
    <3> QED
        BY <3>3 DEF Store!Next
  <2>4. CASE f \notin InTable
    <3>1. SameFiles
        BY <1>2, <1>5, <2>4 DEF SameFiles
    <3> QED
        BY <1>6, <2>2, <3>1, StutterIs
  <2> QED
      BY <2>3, <2>4
<1> QED
    BY <1>3, <1>7, <1>8

-----------------------------------------------------------------------------
(* The handlers implement the store.                                       *)

(* Every step of the handlers is a step of the store or leaves it alone.   *)
LEMMA StepImplements == StoreInv /\ [Next]_vars => Store!Next \/ UNCHANGED Store!fsVars
<1> SUFFICES ASSUME StoreInv, [Next]_vars PROVE Store!Next \/ UNCHANGED Store!fsVars
    OBVIOUS
<1>1. ASSUME NEW c \in Clients, Request(c) \/ OpenCalls(c)
      PROVE  Store!Next \/ UNCHANGED Store!fsVars
    BY <1>1, RequestImplements, LooksImplement, InitImplements, OpenImplements
    DEF OpenCalls, Looks
<1>2. ASSUME NEW c \in Clients, ReadCalls(c)
      PROVE  Store!Next \/ UNCHANGED Store!fsVars
    BY <1>2, LooksImplement, SendsImplement DEF ReadCalls, Looks
<1>3. ASSUME NEW c \in Clients, WriteCalls(c)
      PROVE  Store!Next \/ UNCHANGED Store!fsVars
    BY <1>3, StartsImplement, PreparesImplement, EndsImplement, UnlinksImplement, FreesImplement
    DEF WriteCalls, Prepares
<1>4. ASSUME NEW c \in Clients, Evictions(c)
      PROVE  Store!Next \/ UNCHANGED Store!fsVars
    BY <1>4, PreparesImplement, UnlinksImplement, FreesImplement DEF Evictions, Prepares
<1>5. ASSUME NEW c \in Clients, Faults(c)
      PROVE  Store!Next \/ UNCHANGED Store!fsVars
    BY <1>5, FaultsImplement
<1>7. ASSUME NEW c \in Clients, freeLocked(c)
      PROVE  Store!Next \/ UNCHANGED Store!fsVars
    BY <1>7, LockedFreeImplements
<1>6. CASE UNCHANGED vars
  <2>1. SameFiles /\ \A d \in Clients : pending(d)' = pending(d)
      BY <1>6, CommittedIs, CommittedNext
      DEF vars, storeVars, listVars, fileVars, localVars, SameFiles, SameRecord, InTable, pending
  <2> QED
      BY <2>1, StutterIs
<1> QED
    BY <1>1, <1>2, <1>3, <1>4, <1>5, <1>6, <1>7, HandlerIs DEF Next

(* The handlers of workerFunctions.c, with the locks of a record dropped   *)
(* between the check of an open and its use and with evictions in between, *)
(* are the store of FileStore, for any number of clients, files, names and *)
(* pages and all calls that OneCreator and TwoHands allow.                 *)
THEOREM HandlersImplementFileStore ==
    ASSUME OneCreator, TwoHands
    PROVE  Spec => ImplementsFileStore
<1>1. Init => Store!Init
  <2> SUFFICES ASSUME Init PROVE Store!Init
      OBVIOUS
  <2>1. InTable = {}
      BY DEF Init, StoreInit, InTable, ToSet
  <2>2. \A c \in Clients : pending(c) = NoCall
      BY DEF Init, pending, NoCall
  <2> QED
      BY <2>1, <2>2 DEF Store!Init, Store!Nobody, Store!NoRequest, NoCall
<1>2. StoreInv /\ [Next]_vars => [Store!Next]_(Store!fsVars)
    BY StepImplements
<1>3. Spec => []StoreInv
    BY UnlinkedHolds, FilesAreWhole, ServedFilesAreOpen, PTL DEF StoreInv
<1> QED
    BY <1>1, <1>2, <1>3, PTL DEF Spec, ImplementsFileStore, Store!Spec

=============================================================================
