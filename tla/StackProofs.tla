----------------------------- MODULE StackProofs -----------------------------
(***************************************************************************)
(* Theorems about the FileStack and what is read from it: that an eviction *)
(* can find every written file; that the stack and file_n are exact when   *)
(* files are only created, written and read (WritesOnly), and the limit is *)
(* kept if one client writes (OneWriter); and what fileNRead visits when   *)
(* requests come one after the other (OneClient).                          *)
(***************************************************************************)
EXTENDS StoreProofs

-----------------------------------------------------------------------------
(* What is on the stack.                                                   *)

OnStack(n) == \E i \in 0 .. top - 1 : stack[i] = n

(* A file that is being written gets on the stack at the end; one that is  *)
(* appended to without a page never gets there (AppendFault).              *)
NotYet(f) ==
    \E c \in Clients : /\ mutex[f] = c
                       /\ pc[c] \in Writing
                       /\ call[c].op = "write" \/ size[f] = call[c].n

(* The file is about to be unlinked by an eviction that took its name.     *)
Chosen(f) == \E c \in Clients : pc[c] = "lockVictim" /\ victim[c] = f

(* Every file of the table that has a size is on the stack, or its write   *)
(* or its eviction is not over.                                            *)
Listed ==
    \A f \in InTable : size[f] > 0 => OnStack(abspath[f]) \/ NotYet(f) \/ Chosen(f)

-----------------------------------------------------------------------------
(* When files are only written, evicted and written again the stack has    *)
(* nothing else on it.                                                     *)

(* A file whose write is over, and which no eviction has chosen.           *)
Over(f) == f \in InTable /\ size[f] > 0 /\ ~inWork(f)
Settled(f) == Over(f) /\ ~Chosen(f)

Exact ==
    /\ \A i \in 0 .. top - 1 : \E f \in InTable : abspath[f] = stack[i] /\ Settled(f)
    /\ \A i, j \in 0 .. top - 1 : stack[i] = stack[j] => i = j
    /\ \A i \in top .. StackMax - 1 : stack[i] = NULL
    /\ \A c \in Clients :
          /\ pc[c] = "lockVictim" => Over(victim[c])
          /\ pc[c] = "freeVictim" /\ heap[victim[c]] = "live" => size[victim[c]] > 0
          /\ pc[c] \in Writing => ptr[c] \in InTable
-----------------------------------------------------------------------------
(* What a step leaves alone.                                               *)

(* The stack is changed by the end of a write, by the choice of a victim   *)
(* and by defragmentation.                                                 *)
StackSteps(c) == fileWriteEnd(c) \/ fileDeleteFIFO(c) \/ fileNRead(c)

(* Every other step leaves the array alone.                                *)
LEMMA StackFrame ==
    ASSUME NEW c \in Clients, Request(c) \/ Handler(c), ~StackSteps(c)
    PROVE  UNCHANGED <<stack, top>>
<1> USE DEF StackSteps
<1>1. CASE Request(c)
    BY <1>1 DEF Request, storeVars, listVars
<1>2. CASE OpenCalls(c)
    BY <1>2 DEF OpenCalls, fileSearch, fileInit, fileSearchSilent, fileOpen, fileClose, fileOpenCheck,
                Refuse, storeVars, listVars
<1>3. CASE ReadCalls(c)
    BY <1>3 DEF ReadCalls, sendFile, sendFileEnd, arrayRandomPermutation,
                fileNReadAll, fileNReadNext, fileNReadName, storeVars, listVars
<1>4. CASE WriteCalls(c)
    BY <1>4 DEF WriteCalls, fileWrite, FileNUpdate, pageGet, fileAppend,
                fileAppendEnd, fileDelete, fileDeleteEnd, storeVars, listVars
<1>5. CASE Evictions(c)
    BY <1>5 DEF Evictions, unlinkVictim, freeVictim, FileNDecrease, storeVars, listVars
<1>6. CASE Faults(c)
    BY <1>6 DEF Faults, Stops, StaleDeref, freeListed, TopFault, ReadFault, AppendFault, Fault, listVars
<1>7. CASE freeLocked(c)
    BY <1>7 DEF freeLocked
<1> QED
    BY <1>1, <1>2, <1>3, <1>4, <1>5, <1>6, <1>7, HandlerIs

(* The locks on records, and who is writing: a write goes on until its end,*)
(* and begins in fileWrite or fileAppend.                                  *)
WriteStarts(c) ==
    /\ fileWrite(c) \/ fileAppend(c)
    /\ mutex' = [mutex EXCEPT ![ptr[c]] = c]
    /\ UNCHANGED localVars
    /\ pc'[c] \in {"fileN", "pageGet"}
WriteEnds(c) ==
    /\ fileWriteEnd(c) \/ fileAppendEnd(c)
    /\ mutex' = [mutex EXCEPT ![ptr[c]] = NULL]
    /\ Return(c)

(* Every step starts a write, ends one, or leaves them and their locks as  *)
(* they are.                                                               *)
LEMMA WritingFrame ==
    ASSUME TypeOK, LockDiscipline, NEW c \in Clients, Request(c) \/ Handler(c)
    PROVE  \/ WriteStarts(c)
           \/ WriteEnds(c)
           \/ /\ \A f \in FileIds : mutex[f] # NULL /\ pc[mutex[f]] \in Writing => mutex'[f] = mutex[f]
              /\ \A f \in FileIds : mutex'[f] # NULL /\ pc'[mutex'[f]] \in Writing => mutex'[f] = mutex[f]
              /\ pc[c] \in Writing <=> pc'[c] \in Writing
              /\ pc[c] \in Writing => UNCHANGED <<call, ptr>>
<1> DEFINE Goal == /\ \A f \in FileIds : mutex[f] # NULL /\ pc[mutex[f]] \in Writing => mutex'[f] = mutex[f]
                   /\ \A f \in FileIds : mutex'[f] # NULL /\ pc'[mutex'[f]] \in Writing => mutex'[f] = mutex[f]
                   /\ pc[c] \in Writing <=> pc'[c] \in Writing
                   /\ pc[c] \in Writing => UNCHANGED <<call, ptr>>
<1>0. /\ pc \in [Clients -> Labels]
      /\ mutex \in [FileIds -> Owner]
    BY DEF TypeOK, StoreTypeOK, LocalTypeOK
<1> USE <1>0 DEF Writing, At, Goto, Return, localVars
<1>1. CASE Request(c)
    BY <1>1 DEF Request, storeVars, fileVars
<1>2. CASE OpenCalls(c)
  <2>1. CASE fileInit(c)
    <3>1. /\ status = "running"
          /\ \E f \in FileIds : mutex' = [mutex EXCEPT ![f] = NULL] /\ heap[f] = "free"
        BY <2>1 DEF fileInit, Fresh
    <3>2. PICK f \in FileIds : mutex' = [mutex EXCEPT ![f] = NULL] /\ heap[f] = "free"
        BY <3>1
    <3>3. mutex[f] # NULL => pc[mutex[f]] \notin Writing
        BY <3>1, <3>2 DEF LockDiscipline, Owner, Holds
    <3> QED
        BY <2>1, <3>2, <3>3 DEF fileInit
  <2>2. CASE ~fileInit(c)
      BY <1>2, <2>2 DEF OpenCalls, fileSearch, fileSearchSilent, fileOpen, fileClose, fileOpenCheck,
                        Refuse, storeVars, fileVars
  <2> QED
      BY <2>1, <2>2
<1>3. CASE ReadCalls(c)
  <2>1. CASE sendFile(c)
      BY <2>1 DEF sendFile, CanLock
  <2>2. CASE sendFileEnd(c)
    <3>1. pc[c] = "sendUnlock" /\ mutex[ptr[c]] = c
        BY <2>2 DEF sendFileEnd, LockDiscipline
    <3> QED
        BY <2>2, <3>1 DEF sendFileEnd
  <2>3. CASE ~sendFile(c) /\ ~sendFileEnd(c)
      BY <1>3, <2>3 DEF ReadCalls, fileNRead, arrayRandomPermutation,
                fileNReadAll, fileNReadNext, fileNReadName, storeVars, fileVars
  <2> QED
      BY <2>1, <2>2, <2>3
<1>4. CASE fileWrite(c) \/ fileAppend(c)
    BY <1>4 DEF fileWrite, fileAppend, refuseWrite, CanLock, WriteStarts
<1>5. CASE fileWriteEnd(c) \/ fileAppendEnd(c)
    BY <1>5 DEF fileWriteEnd, fileAppendEnd, WriteEnds
<1>6. CASE FileNUpdate(c) \/ pageGet(c) \/ fileDelete(c) \/ fileDeleteEnd(c)
    BY <1>6 DEF FileNUpdate, pageGet, fileDelete, fileDeleteEnd, fileFree, fileVars
<1>7. CASE Evictions(c)
    BY <1>7 DEF Evictions, fileDeleteFIFO, unlinkVictim, freeVictim, fileFree, FileNDecrease, fileVars
<1>8. CASE Faults(c)
    BY <1>8 DEF Faults, Stops, StaleDeref, freeListed, TopFault, ReadFault, AppendFault, Fault, fileVars
<1>9. CASE freeLocked(c)
    BY <1>9, FreeLockedIs
<1> QED
    BY <1>1, <1>2, <1>3, <1>4, <1>5, <1>6, <1>7, <1>8, <1>9, HandlerIs DEF WriteCalls

(* Sizes are set by fileInit, fileWrite, fileAppend and fileFree.          *)
LEMMA SizeFrame ==
    ASSUME TypeOK, NEW c \in Clients, Request(c) \/ Handler(c), ~WriteStarts(c),
           ~fileInit(c), ~freeVictim(c), ~fileDeleteEnd(c), ~freeLocked(c)
    PROVE  UNCHANGED size
<1>1. CASE Request(c)
    BY <1>1 DEF Request, storeVars, fileVars
<1>2. CASE OpenCalls(c)
    BY <1>2 DEF OpenCalls, fileSearch, fileSearchSilent, fileOpen, fileClose, fileOpenCheck,
                Refuse, storeVars, fileVars
<1>3. CASE ReadCalls(c)
    BY <1>3 DEF ReadCalls, sendFile, sendFileEnd, fileNRead, arrayRandomPermutation,
                fileNReadAll, fileNReadNext, fileNReadName, storeVars, fileVars
<1>4. CASE fileWrite(c) \/ fileAppend(c)
    BY <1>4 DEF WriteStarts, fileWrite, fileAppend, refuseWrite, Goto, TypeOK, LocalTypeOK
<1>5. CASE WriteCalls(c) /\ ~fileWrite(c) /\ ~fileAppend(c)
    BY <1>5 DEF WriteCalls, FileNUpdate, pageGet, fileWriteEnd,
                fileAppendEnd, fileDelete, storeVars, fileVars
<1>6. CASE Evictions(c)
    BY <1>6 DEF Evictions, fileDeleteFIFO, unlinkVictim, FileNDecrease, storeVars, fileVars
<1>7. CASE Faults(c)
    BY <1>7 DEF Faults, Stops, StaleDeref, freeListed, TopFault, ReadFault, AppendFault, Fault, fileVars
<1> QED
    BY <1>1, <1>2, <1>3, <1>4, <1>5, <1>6, <1>7, HandlerIs
-----------------------------------------------------------------------------
(* Defragmentation.                                                        *)

(* A position that is kept has fewer positions kept before it than there   *)
(* are at all, and than any later one has.                                 *)
Before(k) == { j \in kept : j < k }

(* The rank of a kept position is below the number of them, and grows.     *)
LEMMA RankOrders ==
    ASSUME TypeOK, NEW k \in kept
    PROVE  /\ kept \in SUBSET (0 .. StackMax - 1) /\ IsFiniteSet(kept)
           /\ Cardinality(Before(k)) \in 0 .. Cardinality(kept) - 1
           /\ Cardinality(kept) \in Nat /\ Cardinality(kept) <= StackMax
           /\ \A m \in kept : k < m => Cardinality(Before(k)) < Cardinality(Before(m))
<1>1. StackMax \in Nat /\ DOMAIN stack = 0 .. StackMax - 1
    BY FileMemoryAssumption DEF StackMax, TypeOK, StoreTypeOK
<1>2. kept \in SUBSET (0 .. StackMax - 1)
    BY <1>1 DEF kept
<1>3. IsFiniteSet(0 .. StackMax - 1) /\ Cardinality(0 .. StackMax - 1) = StackMax
    BY <1>1, FS_Interval
<1>4. IsFiniteSet(kept) /\ Cardinality(kept) <= StackMax /\ Cardinality(kept) \in Nat
    BY ZenonT(30), <1>2, <1>3, FS_Subset, FS_CardinalityType
<1>5. \A m \in kept : /\ Before(m) \in SUBSET kept /\ m \notin Before(m)
                      /\ IsFiniteSet(Before(m)) /\ Cardinality(Before(m)) \in Nat
  <2> SUFFICES ASSUME NEW m \in kept
               PROVE  /\ Before(m) \in SUBSET kept /\ m \notin Before(m)
                      /\ IsFiniteSet(Before(m)) /\ Cardinality(Before(m)) \in Nat
      OBVIOUS
  <2>1. Before(m) \in SUBSET kept /\ m \notin Before(m)
      BY <1>2 DEF Before
  <2>2. IsFiniteSet(Before(m))
      BY <1>4, <2>1, FS_Subset
  <2> QED
      BY <2>1, <2>2, FS_CardinalityType
<1>6. Cardinality(Before(k)) < Cardinality(kept)
    BY <1>4, <1>5, FS_Subset
<1>7. ASSUME NEW m \in kept, k < m PROVE Cardinality(Before(k)) < Cardinality(Before(m))
  <2>1. Before(k) \in SUBSET Before(m) /\ k \in Before(m)
    <3>1. \A j \in kept : j \in Int
        BY <1>2
    <3>2. \A j \in kept : j < k => j < m
        BY <1>7, <3>1
    <3> QED
        BY <1>7, <3>2 DEF Before
  <2> QED
      BY <1>5, <2>1, FS_Subset
<1> QED
    BY <1>2, <1>4, <1>5, <1>6, <1>7

(* It moves a name that is kept to the number of names kept before it.     *)
LEMMA DefragMoves ==
    ASSUME TypeOK, fileStackDefrag, NEW k \in kept
    PROVE  /\ top' = Cardinality(kept)
           /\ Cardinality(Before(k)) \in 0 .. top' - 1
           /\ stack'[Cardinality(Before(k))] = stack[k]
<1>1. /\ stack' = [i \in DOMAIN stack |->
                     IF \E m \in kept : Cardinality(Before(m)) = i
                     THEN stack[CHOOSE m \in kept : Cardinality(Before(m)) = i] ELSE NULL]
      /\ top' = Cardinality(kept)
    BY DEF fileStackDefrag, Before
<1>2. /\ DOMAIN stack = 0 .. StackMax - 1 /\ StackMax \in Nat
      /\ kept \in SUBSET (0 .. StackMax - 1)
      /\ Cardinality(Before(k)) \in 0 .. Cardinality(kept) - 1
      /\ Cardinality(kept) \in Nat /\ Cardinality(kept) <= StackMax
    BY RankOrders, FileMemoryAssumption DEF StackMax, TypeOK, StoreTypeOK
<1>3. \A m \in kept : Cardinality(Before(m)) = Cardinality(Before(k)) => m = k
  <2> SUFFICES ASSUME NEW m \in kept, m # k PROVE Cardinality(Before(m)) # Cardinality(Before(k))
      OBVIOUS
  <2>1. m \in Int /\ k \in Int
      BY <1>2
  <2>2. CASE k < m
    <3>1. Cardinality(Before(k)) < Cardinality(Before(m)) /\ Cardinality(Before(m)) \in Nat
        BY <2>2, RankOrders
    <3> QED
        BY <1>2, <3>1
  <2>3. CASE m < k
    <3>1. Cardinality(Before(m)) < Cardinality(Before(k)) /\ Cardinality(Before(m)) \in Nat
        BY <2>3, RankOrders
    <3> QED
        BY <1>2, <3>1
  <2> QED
      BY <2>1, <2>2, <2>3
<1>4. PICK r : r = Cardinality(Before(k))
    OBVIOUS
<1>5. (CHOOSE m \in kept : Cardinality(Before(m)) = r) = k
    BY <1>3, <1>4
<1>6. stack'[r] = stack[k]
  <2>1. r \in DOMAIN stack /\ \E m \in kept : Cardinality(Before(m)) = r
      BY <1>2, <1>4
  <2> QED
      BY <1>1, <1>5, <2>1
<1> QED
    BY <1>1, <1>2, <1>4, <1>6

(* A stored name that is on the stack stays on it.                         *)
LEMMA DefragKeeps ==
    ASSUME TypeOK, fileStackDefrag, NEW n, Stored(n), OnStack(n)
    PROVE  \E i \in 0 .. top' - 1 : stack'[i] = n
<1> DEFINE S == { i \in 0 .. StackMax - 1 : stack[i] = n }
<1>1. StackMax \in Nat /\ DOMAIN stack = 0 .. StackMax - 1 /\ top \in 0 .. StackMax
    BY FileMemoryAssumption DEF StackMax, TypeOK, StoreTypeOK
<1>2. IsFiniteSet(0 .. StackMax - 1)
    BY <1>1, FS_Interval
<1>3. IsFiniteSet(S) /\ S \in SUBSET Int
  <2>1. S \in SUBSET (0 .. StackMax - 1)
      OBVIOUS
  <2>2. 0 .. StackMax - 1 \subseteq Int
      OBVIOUS
  <2> HIDE DEF S
  <2> QED
      BY <1>2, <2>1, <2>2, FS_Subset
<1>4. S # {}
    BY <1>1 DEF OnStack
<1>5. PICK k \in S : \A y \in S : k =< y
  <2> HIDE DEF S
  <2> QED
      BY <1>3, <1>4, HasLeast
<1>6. k \in kept
  <2>1. k \in 0 .. StackMax - 1 /\ stack[k] = n
      OBVIOUS
  <2>2. \A j \in 0 .. k - 1 : stack[j] # n
    <3> SUFFICES ASSUME NEW j \in 0 .. k - 1, stack[j] = n PROVE FALSE
        OBVIOUS
    <3>1. j \in 0 .. StackMax - 1 /\ k \in Int /\ ~(k =< j)
        BY <1>1, <2>1
    <3>2. j \in S
        BY <3>1
    <3> QED
        BY <1>5, <3>1, <3>2
  <2> QED
      BY <1>1, <2>1, <2>2 DEF kept
<1>7. stack[k] = n
    OBVIOUS
<1> QED
    BY <1>6, <1>7, DefragMoves
-----------------------------------------------------------------------------
(* A written file nobody is working on can be evicted.                     *)

(* A record of the table was in it before, with the same name, or is new   *)
(* and empty.                                                              *)
LEMMA StaysIn ==
    ASSUME TypeOK, LockDiscipline, Asked, Entries, NEW c \in Clients, Request(c) \/ Handler(c),
           NEW f \in InTable'
    PROVE  \/ f \in InTable /\ f \in FileIds /\ abspath'[f] = abspath[f]
           \/ f \notin InTable /\ f \in FileIds /\ fileInit(c) /\ size'[f] = 0
<1>0. /\ InTable \subseteq FileIds
      /\ heap \in [FileIds -> {"free", "live"}]
      /\ abspath \in [FileIds -> Names \cup {NULL}]
      /\ size \in [FileIds -> Nat]
    BY AsASet DEF TypeOK, StoreTypeOK
<1>1. CASE fileInit(c)
  <2>1. PICK g \in FileIds : /\ heap[g] = "free" /\ heap' = [heap EXCEPT ![g] = "live"]
                             /\ abspath' = [abspath EXCEPT ![g] = call[c].name]
                             /\ size' = [size EXCEPT ![g] = 0]
      BY <1>1 DEF fileInit, Fresh
  <2>2. PICK h \in FileIds : /\ h \notin InTable /\ InTable' = InTable \cup {h}
                             /\ heap[h] = "free" /\ heap' = [heap EXCEPT ![h] = "live"]
      BY <1>1, TableMoves
  <2>3. g = h
      BY <1>0, <2>1, <2>2
  <2> QED
      BY <1>0, <1>1, <2>1, <2>2, <2>3
<1>2. CASE fileDelete(c) \/ unlinkVictim(c)
    BY <1>0, <1>2, TableMoves
<1>3. CASE freeVictim(c) \/ fileDeleteEnd(c) \/ freeLocked(c)
  <2>1. InTable' = InTable /\ Freed(c) \notin InTable /\ abspath' = [abspath EXCEPT ![Freed(c)] = NULL]
      BY <1>3, FreeClears DEF InTable
  <2> QED
      BY <1>0, <2>1
<1>4. CASE ~TableSteps(c)
    BY <1>0, <1>4, TableFrame DEF InTable
<1> QED
    BY <1>1, <1>2, <1>3, <1>4 DEF TableSteps

(* fileFree clears the size of that record only.                           *)
LEMMA FreesSize ==
    ASSUME LockDiscipline, NEW c \in Clients, freeVictim(c) \/ fileDeleteEnd(c) \/ freeLocked(c)
    PROVE  size' = [size EXCEPT ![Freed(c)] = 0]
<1>1. CASE freeVictim(c) \/ fileDeleteEnd(c)
    BY <1>1 DEF freeVictim, fileDeleteEnd, fileFree, Freed, At
<1>2. CASE freeLocked(c)
    BY <1>2, FreeLockedIs DEF fileFree, Freed
<1> QED
    BY <1>1, <1>2

(* A record of the table keeps its size, unless a write of it starts.      *)
LEMMA SizeStays ==
    ASSUME TypeOK, LockDiscipline, Asked, Entries, NEW c \in Clients, Request(c) \/ Handler(c),
           ~WriteStarts(c), NEW f \in InTable, f \in InTable'
    PROVE  size'[f] = size[f]
<1>0. InTable \subseteq FileIds /\ size \in [FileIds -> Nat]
    BY AsASet DEF TypeOK, StoreTypeOK
<1>1. CASE fileInit(c)
  <2>1. PICK g \in FileIds : heap[g] = "free" /\ size' = [size EXCEPT ![g] = 0]
      BY <1>1 DEF fileInit, Fresh
  <2>2. f # g
      BY <2>1, AsASet
  <2> QED
      BY <1>0, <2>1, <2>2
<1>2. CASE freeVictim(c) \/ fileDeleteEnd(c) \/ freeLocked(c)
  <2>1. size' = [size EXCEPT ![Freed(c)] = 0]
      BY <1>2, FreesSize
  <2>2. Freed(c) \notin InTable
      BY <1>2, FreeClears
  <2> QED
      BY <1>0, <2>1, <2>2
<1>3. CASE ~fileInit(c) /\ ~freeVictim(c) /\ ~fileDeleteEnd(c) /\ ~freeLocked(c)
    BY <1>3, SizeFrame
<1> QED
    BY <1>1, <1>2, <1>3

(* What fileDeleteFIFO takes off the stack: the name of its victim, and    *)
(* names that nothing in the table has.                                    *)
LEMMA TakeKeeps ==
    ASSUME TypeOK, NEW key, topFault(key) = "none", fileStackTake(key),
           NEW n, OnStack(n), Stored(n)
    PROVE  \/ n = stack[victimIndex(key)]
           \/ \E i \in 0 .. top' - 1 : stack'[i] = n
<1>1. top \in Nat /\ stack \in [0 .. StackMax - 1 -> Names \cup {NULL}] /\ top \in 0 .. StackMax
      /\ StackMax \in Nat
    BY FileMemoryAssumption DEF TypeOK, StoreTypeOK, StackMax
<1>2. victimIndex(key) \in 0 .. top - 1 /\ \A i \in candidates(key) : i <= victimIndex(key)
  <2>1. candidates(key) # {} /\ candidates(key) \in SUBSET Int /\ candidates(key) \in SUBSET (0 .. top - 1)
      BY <1>1 DEF topFault, candidates
  <2>2. IsFiniteSet(0 .. top - 1)
      BY <1>1, FS_Interval
  <2>3. IsFiniteSet(candidates(key))
      BY <2>1, <2>2, FS_Subset
  <2> QED
      BY <1>1, <2>1, <2>3, MaxIsMember, VictimBelowTop DEF victimIndex
<1>3. PICK v \in 0 .. top - 1 : v = victimIndex(key)
    BY <1>2
<1>4. PICK j \in 0 .. top - 1 : stack[j] = n
    BY DEF OnStack
<1>5. /\ stack' = [stack EXCEPT ![v] = NULL]
      /\ top' = IF foundSelf(key) THEN top ELSE v
    BY <1>3 DEF fileStackTake
<1>6. CASE j = v
    BY <1>3, <1>4, <1>6
<1>7. CASE j < v
  <2>1. stack'[j] = n /\ j \in 0 .. top' - 1
      BY <1>1, <1>4, <1>5, <1>7
  <2> QED
      BY <2>1
<1>8. CASE j > v
  <2>1. j \notin candidates(key)
      BY <1>1, <1>2, <1>3, <1>4, <1>8
  <2>2. foundSelf(key)
      BY <1>1, <1>4, <2>1 DEF candidates
  <2>3. stack'[j] = n /\ j \in 0 .. top' - 1
      BY <1>1, <1>4, <1>5, <1>8, <2>2
  <2> QED
      BY <2>3
<1> QED
    BY <1>1, <1>4, <1>6, <1>7, <1>8

(* An eviction that has chosen its victim waits, or unlinks it, or stops   *)
(* at a fault.                                                             *)
LEMMA AtLockVictim ==
    ASSUME TypeOK, NEW c \in Clients, Request(c) \/ Handler(c), pc[c] = "lockVictim"
    PROVE  unlinkVictim(c) \/ (Faults(c) /\ UNCHANGED <<pc, victim>>)
<1> USE DEF At
<1>1. CASE Request(c)
    BY <1>1 DEF Request
<1>2. CASE OpenCalls(c)
    BY <1>2 DEF OpenCalls, fileSearch, fileInit, fileSearchSilent, fileOpen, fileClose,
                fileOpenCheck, Refuse
<1>3. CASE ReadCalls(c)
    BY <1>3 DEF ReadCalls, sendFile, sendFileEnd, fileNRead, arrayRandomPermutation,
                fileNReadAll, fileNReadNext, fileNReadName
<1>4. CASE WriteCalls(c)
    BY <1>4 DEF WriteCalls, fileWrite, FileNUpdate, pageGet, fileWriteEnd, fileAppend,
                fileAppendEnd, fileDelete, fileDeleteEnd
<1>5. CASE Evictions(c)
    BY <1>5 DEF Evictions, fileDeleteFIFO, freeVictim, FileNDecrease
<1>6. CASE Faults(c)
    BY <1>6 DEF Faults, Stops, StaleDeref, freeListed, TopFault, ReadFault, AppendFault, Fault, localVars
<1>7. CASE freeLocked(c)
    BY <1>7 DEF freeLocked
<1> QED
    BY <1>1, <1>2, <1>3, <1>4, <1>5, <1>6, <1>7, HandlerIs

(* Every step keeps Listed.                                                *)
LEMMA ListedStep ==
    /\ TypeOK /\ LockDiscipline /\ Requests /\ Entries /\ Unique /\ Listed
    /\ [Next]_vars
    => Listed'
<1> SUFFICES ASSUME TypeOK, LockDiscipline, Requests, Entries, Unique, Listed, [Next]_vars
             PROVE  Listed'
    OBVIOUS
<1>0. /\ pc \in [Clients -> Labels] /\ mutex \in [FileIds -> Owner] /\ NULL \notin Clients
      /\ size \in [FileIds -> Nat] /\ top \in 0 .. StackMax /\ StackMax \in Nat
      /\ stack \in [0 .. StackMax - 1 -> Names \cup {NULL}]
      /\ ptr \in [Clients -> FileIds \cup {NULL}]
      /\ victim \in [Clients -> FileIds \cup {NULL}]
      /\ call \in [Clients -> Call]
      /\ InTable \subseteq FileIds
      /\ Asked /\ OneEviction
    BY FileMemoryAssumption, AsASet DEF TypeOK, StoreTypeOK, LocalTypeOK, StackMax, Requests
<1>1. ASSUME NEW c \in Clients, Request(c) \/ Handler(c), NEW f \in InTable', size'[f] > 0
      PROVE  OnStack(abspath[f])' \/ NotYet(f)' \/ Chosen(f)'
  <2>1. f \in InTable /\ f \in FileIds /\ abspath'[f] = abspath[f]
      BY <1>0, <1>1, StaysIn
  <2>2. CASE WriteStarts(c)
    <3>1. PICK g \in FileIds : /\ g = ptr[c] /\ mutex[g] = NULL /\ mutex' = [mutex EXCEPT ![g] = c]
                               /\ UNCHANGED <<call, victim, stack, top, abspath>>
                               /\ pc'[c] \in Writing /\ pc[c] \notin Writing
        BY <2>2 DEF WriteStarts, fileWrite, fileAppend, CanLock, localVars, Writing, At, listVars
    <3>2. \A d \in Clients : d # c => pc'[d] = pc[d]
        BY <1>1, OthersStay
    <3>3. CASE f = g /\ (call[c].op = "write" \/ size'[f] = call[c].n)
        BY <1>0, <3>1, <3>3 DEF NotYet
    <3>4. CASE f = g /\ call[c].op # "write" /\ size'[f] # call[c].n
      <4>1. fileAppend(c) /\ size' = [size EXCEPT ![g] = @ + call[c].n] /\ call[c].n \in Nat
        <5>1. fileAppend(c)
            BY <1>0, <2>2, <3>4 DEF WriteStarts, fileWrite, At, Asked, OpsAt, ReadNPoints
        <5>2. pc'[c] # "idle"
            BY <3>1 DEF Writing
        <5> QED
            BY <1>0, <3>1, <5>1, <5>2 DEF fileAppend, Return, Call
      <4>2. size[f] > 0
          BY <1>0, <3>4, <4>1
      <4>3. OnStack(abspath[f]) \/ Chosen(f)
          BY <2>1, <3>1, <3>4, <4>2, <1>0 DEF Listed, NotYet
      <4>4. Chosen(f) => Chosen(f)'
          BY <3>1, <3>2 DEF Chosen, Writing
      <4> QED
          BY <2>1, <3>1, <4>3, <4>4 DEF OnStack
    <3>5. CASE f # g
      <4>1. size'[f] = size[f]
          BY <1>0, <2>1, <2>2, <3>1, <3>5 DEF WriteStarts, fileWrite, fileAppend, refuseWrite
      <4>2. NotYet(f) => NotYet(f)'
          BY <1>0, <2>1, <3>1, <3>2, <3>5, <4>1 DEF NotYet
      <4>3. Chosen(f) => Chosen(f)'
          BY <3>1, <3>2 DEF Chosen, Writing
      <4> QED
          BY <1>1, <2>1, <3>1, <4>1, <4>2, <4>3 DEF Listed, OnStack
    <3> QED
        BY <3>3, <3>4, <3>5
  <2>3. CASE ~WriteStarts(c)
    <3>1. size'[f] = size[f] /\ size[f] > 0
        BY <1>0, <1>1, <2>1, <2>3, SizeStays
    <3>2. OnStack(abspath[f]) \/ NotYet(f) \/ Chosen(f)
        BY <2>1, <3>1 DEF Listed
    <3>3. Stored(abspath[f])
      <4>1. hashEntries(abspath[f]) # {} /\ abspath[f] # NULL
          BY <2>1, AsASet, FileMemoryAssumption
      <4> QED
          BY <4>1, SearchFinds, FileMemoryAssumption DEF Stored, TypeOK, StoreTypeOK
    <3>4. ASSUME NotYet(f) PROVE OnStack(abspath[f])' \/ NotYet(f)'
      <4>1. PICK d \in Clients : /\ mutex[f] = d /\ pc[d] \in Writing
                                 /\ call[d].op = "write" \/ size[f] = call[d].n
          BY <3>4 DEF NotYet
      <4>2. ptr[d] = f
          BY <2>1, <4>1 DEF LockDiscipline, Holds
      <4>3. CASE WriteEnds(c) /\ c = d
        <5>1. fileWriteEnd(c)
          <6>1. ASSUME fileAppendEnd(c) PROVE FALSE
            <7>1. call[c].op = "append" /\ size[f] # call[c].n
                BY <1>0, <4>2, <4>3, <6>1 DEF fileAppendEnd, noOldPage, At, Asked, OpsAt, ReadNPoints
            <7> QED
                BY <4>1, <4>3, <7>1
          <6> QED
              BY <4>3, <6>1 DEF WriteEnds
        <5>2. /\ top < StackMax /\ top' = top + 1
              /\ stack' = [stack EXCEPT ![top] = abspath[f]]
          <6>1. pc'[c] = "idle"
              BY <1>0, <4>3 DEF WriteEnds, Return
          <6> QED
              BY <1>0, <4>2, <4>3, <5>1, <6>1 DEF fileWriteEnd, fileStackAdd, Goto
        <5>3. stack'[top] = abspath[f] /\ top \in 0 .. top' - 1
            BY <1>0, <5>2
        <5> QED
            BY <2>1, <5>3 DEF OnStack
      <4>4. CASE ~(WriteEnds(c) /\ c = d)
        <5>1. mutex'[f] = d /\ pc'[d] \in Writing /\ call'[d] = call[d]
          <6>1. CASE d = c
              BY <1>0, <1>1, <2>1, <2>3, <4>1, <4>4, <6>1, WritingFrame
          <6>2. CASE d # c
            <7>1. pc'[d] = pc[d] /\ call'[d] = call[d]
                BY <1>1, <6>2, OthersStay
            <7>2. mutex'[f] = d
              <8>1. CASE WriteEnds(c)
                <9>1. ptr[c] # f /\ mutex' = [mutex EXCEPT ![ptr[c]] = NULL]
                  <10>1. pc[c] \in Writing
                      BY <8>1 DEF WriteEnds, fileWriteEnd, fileAppendEnd, At, Writing
                  <10>2. mutex[ptr[c]] = c
                      BY <10>1 DEF LockDiscipline
                  <10> QED
                      BY <4>1, <6>2, <8>1, <10>2 DEF WriteEnds
                <9> QED
                    BY <1>0, <2>1, <4>1, <9>1
              <8>2. CASE ~WriteEnds(c)
                  BY <1>0, <1>1, <2>1, <2>3, <4>1, <8>2, WritingFrame
              <8> QED
                  BY <8>1, <8>2
            <7> QED
                BY <4>1, <7>1, <7>2
          <6> QED
              BY <6>1, <6>2
        <5> QED
            BY <3>1, <4>1, <5>1 DEF NotYet
      <4> QED
          BY <4>3, <4>4
    <3>5. ASSUME Chosen(f) PROVE Chosen(f)'
      <4>1. PICK d \in Clients : pc[d] = "lockVictim" /\ victim[d] = f
          BY <3>5 DEF Chosen
      <4>2. CASE d # c
          BY <1>1, <4>1, <4>2, OthersStay DEF Chosen
      <4>3. CASE d = c /\ unlinkVictim(c)
        <5>1. InTable' = InTable \ {hashTbSearch(abspath[f])}
            BY <4>1, <4>3, TableMoves, <1>0 DEF Unlinker
        <5>2. hashTbSearch(abspath[f]) = f
          <6>1. hashTbSearch(abspath[f]) \in InTable /\ abspath[hashTbSearch(abspath[f])] = abspath[f]
            <7>1. hashTbSearch(abspath[f]) \in FileIds
                BY <3>3, SearchType DEF Stored, TypeOK, StoreTypeOK
            <7> QED
                BY <7>1, SearchFinds, FileMemoryAssumption DEF TypeOK, StoreTypeOK
          <6> QED
              BY <2>1, <6>1, AsASet DEF Unique
        <5> QED
            BY <1>1, <5>1, <5>2
      <4>4. CASE d = c /\ ~unlinkVictim(c)
        <5>1. UNCHANGED <<pc, victim>>
            BY <1>1, <4>1, <4>4, AtLockVictim
        <5> QED
            BY <4>1, <5>1 DEF Chosen
      <4> QED
          BY <4>2, <4>3, <4>4
    <3>6. ASSUME OnStack(abspath[f]) PROVE OnStack(abspath[f])' \/ Chosen(f)'
      <4>1. CASE ~StackSteps(c)
          BY <1>1, <2>1, <3>6, <4>1, StackFrame DEF OnStack
      <4>2. CASE fileWriteEnd(c)
        <5>1. \A i \in 0 .. top - 1 : i \in 0 .. top' - 1 /\ stack'[i] = stack[i]
          <6>1. \/ UNCHANGED <<stack, top>>
                \/ top' = top + 1 /\ stack' = [stack EXCEPT ![top] = abspath[ptr[c]]]
              BY <4>2 DEF fileWriteEnd, fileStackAdd
          <6>2. \A i \in 0 .. top - 1 : i \in 0 .. StackMax - 1 /\ i # top /\ i \in 0 .. (top + 1) - 1
              BY <1>0
          <6> QED
              BY <1>0, <6>1, <6>2
        <5> QED
            BY <2>1, <3>6, <5>1 DEF OnStack
      <4>3. CASE fileNRead(c)
        <5>1. \E i \in 0 .. top' - 1 : stack'[i] = abspath[f]
            BY <3>3, <3>6, <4>3, DefragKeeps DEF fileNRead
        <5> QED
            BY <2>1, <5>1 DEF OnStack
      <4>4. CASE fileDeleteFIFO(c)
        <5>1. CASE top = 0
            BY <1>0, <3>6, <5>1 DEF OnStack
        <5>2. CASE top # 0
          <6>1. /\ topFault(evictKey(c)) = "none"
                /\ victim' = [victim EXCEPT ![c] = hashTbSearch(stack[victimIndex(evictKey(c))])]
                /\ fileStackTake(evictKey(c))
                /\ pc' = [pc EXCEPT ![c] = "lockVictim"]
              BY <4>4, <5>2 DEF fileDeleteFIFO, Goto
          <6>2. CASE abspath[f] = stack[victimIndex(evictKey(c))]
            <7>1. hashTbSearch(abspath[f]) = f
              <8>1. hashTbSearch(abspath[f]) \in InTable /\ abspath[hashTbSearch(abspath[f])] = abspath[f]
                <9>1. hashTbSearch(abspath[f]) \in FileIds
                    BY <3>3, SearchType DEF Stored, TypeOK, StoreTypeOK
                <9> QED
                    BY <9>1, SearchFinds, FileMemoryAssumption DEF TypeOK, StoreTypeOK
              <8> QED
                  BY <2>1, <8>1, AsASet DEF Unique
            <7>2. victim'[c] = f /\ pc'[c] = "lockVictim"
                BY <1>0, <6>1, <6>2, <7>1
            <7> QED
                BY <7>2 DEF Chosen
          <6>3. CASE \E i \in 0 .. top' - 1 : stack'[i] = abspath[f]
              BY <2>1, <6>3 DEF OnStack
          <6> QED
              BY <3>3, <3>6, <6>1, <6>2, <6>3, TakeKeeps
        <5> QED
            BY <5>1, <5>2
      <4> QED
          BY <4>1, <4>2, <4>3, <4>4 DEF StackSteps
    <3> QED
        BY <3>2, <3>4, <3>5, <3>6
  <2> QED
      BY <2>2, <2>3
<1>2. CASE UNCHANGED vars
    BY <1>2 DEF vars, storeVars, listVars, fileVars, localVars, Listed, InTable, OnStack, NotYet, Chosen
<1> QED
    BY <1>1, <1>2 DEF Next, Listed

(* Every file that has been written can be found by an eviction, unless a  *)
(* handler is working on it: for any number of clients that read, write,   *)
(* append to and remove the files, through the holes and the stale names   *)
(* that fileStackGetTop (FileMemory.c:368) and fileDelete leave and through*)
(* fileStackDefrag (FileMemory.c:316).  With two creators of one name it   *)
(* fails: an eviction takes the name off the stack and unlinks the newer   *)
(* record of the two, and nothing leads to the other one any more.         *)
THEOREM StoredFilesAreEvictable ==
    ASSUME OneCreator
    PROVE  Spec => []StoredEvictable
<1>1. Init => Listed
    BY DEF Init, StoreInit, Listed, InTable, ToSet
<1>2. /\ TypeOK /\ LockDiscipline /\ Requests /\ Entries /\ Unique /\ Listed
      /\ [Next]_vars
      => Listed'
    BY ListedStep
<1>3. TypeOK /\ Requests /\ Entries /\ WholeFile /\ Listed => StoredEvictable
  <2> SUFFICES ASSUME TypeOK, Requests, Entries, WholeFile, Listed, filestack_mutex = NULL,
                      NEW f \in Written, mutex[f] = NULL
               PROVE  OnStack(abspath[f])
      BY DEF StoredEvictable, OnStack
  <2>1. f \in InTable /\ f \in FileIds /\ f \in Live /\ pages[f] # {}
      BY AsASet DEF Written, InTable, Live
  <2>2. size[f] > 0
    <3>1. Cardinality(pages[f]) # 0
        BY <2>1, CardOfPages, FS_EmptySet
    <3> QED
        BY <2>1, <3>1, CardOfPages DEF WholeFile
  <2>3. ~NotYet(f) /\ ~Chosen(f)
      BY FileMemoryAssumption DEF NotYet, Chosen, Requests, OneEviction
  <2> QED
      BY <2>1, <2>2, <2>3 DEF Listed
<1>4. Spec => [](TypeOK /\ LockDiscipline /\ Requests /\ Entries /\ Unique)
    BY UniqueHolds
<1> QED
    BY <1>1, <1>2, <1>3, <1>4, FilesAreWhole, PTL DEF Spec
-----------------------------------------------------------------------------
(* The stack when files are only created, written and read.                *)

(* How a handler comes to the points at which it has a victim.             *)
LEMMA VictimComes ==
    ASSUME TypeOK, NEW c \in Clients, Request(c) \/ Handler(c), NEW d \in Clients
    PROVE  /\ pc'[d] = "lockVictim" =>
                 \/ pc[d] = "lockVictim" /\ victim'[d] = victim[d]
                 \/ d = c /\ fileDeleteFIFO(c) /\ top > 0
           /\ pc'[d] = "freeVictim" =>
                 \/ pc[d] = "freeVictim" /\ victim'[d] = victim[d]
                 \/ d = c /\ unlinkVictim(c)
<1> DEFINE Goal == /\ pc'[c] = "lockVictim" =>
                         \/ pc[c] = "lockVictim" /\ victim'[c] = victim[c]
                         \/ fileDeleteFIFO(c) /\ top > 0
                   /\ pc'[c] = "freeVictim" =>
                         \/ pc[c] = "freeVictim" /\ victim'[c] = victim[c]
                         \/ unlinkVictim(c)
<1>0. pc \in [Clients -> Labels] /\ top \in Nat
    BY FileMemoryAssumption DEF TypeOK, LocalTypeOK, StoreTypeOK, StackMax
<1> USE <1>0 DEF At, Goto, Return, localVars
<1>1. CASE Request(c)
  <2>1. Goal
      BY <1>1 DEF Request
  <2> QED
      BY <1>1, <2>1, OthersStay
<1>2. CASE OpenCalls(c)
  <2>1. Goal
      BY <1>2 DEF OpenCalls, fileSearch, fileInit, fileSearchSilent, fileOpen, fileClose,
                  fileOpenCheck, Refuse
  <2> QED
      BY <1>2, <2>1, OthersStay, HandlerIs
<1>3. CASE ReadCalls(c)
  <2>1. Goal
      BY <1>3 DEF ReadCalls, sendFile, sendFileEnd, fileNRead, arrayRandomPermutation,
                  fileNReadAll, fileNReadNext, fileNReadName
  <2> QED
      BY <1>3, <2>1, OthersStay, HandlerIs
<1>4. CASE WriteCalls(c)
  <2>1. Goal
      BY <1>4 DEF WriteCalls, fileWrite, refuseWrite, FileNUpdate, pageGet, fileWriteEnd, fileAppend,
                  fileAppendEnd, fileDelete, fileDeleteEnd
  <2> QED
      BY <1>4, <2>1, OthersStay, HandlerIs
<1>5. CASE Evictions(c)
  <2>1. Goal
      BY <1>5 DEF Evictions, fileDeleteFIFO, unlinkVictim, freeVictim, FileNDecrease
  <2> QED
      BY <1>5, <2>1, OthersStay, HandlerIs
<1>6. CASE Faults(c)
  <2>1. Goal
      BY <1>6 DEF Faults, Stops, StaleDeref, freeListed, TopFault, ReadFault, AppendFault, Fault
  <2> QED
      BY <1>6, <2>1, OthersStay, HandlerIs
<1>7. CASE freeLocked(c)
    BY <1>7 DEF freeLocked
<1> QED
    BY <1>1, <1>2, <1>3, <1>4, <1>5, <1>6, <1>7, HandlerIs

(* What WritesOnly says of a handler, and that nobody can remove a record. *)
LEMMA OnlyWrites ==
    ASSUME WritesOnly, TypeOK, Asked
    PROVE  \A c \in Clients :
              /\ call[c].op \notin {"append", "remove"}
              /\ pc[c] \notin {"appendLock", "appendEnd", "deleteLock", "freeOwn"}
              /\ pc[c] \in Writing \cup {"writeLock"} => call[c].op = "write" /\ call[c].n > 0
<1>1. \A c \in Clients : call[c].op \notin {"append", "remove"}
    BY DEF WritesOnly, Asked, NoCall
<1>2. \A c \in Clients : pc[c] \notin {"appendLock", "appendEnd", "deleteLock", "freeOwn"}
    BY <1>1 DEF Asked, OpsAt, ReadNPoints
<1>3. \A c \in Clients : pc[c] \in Writing \cup {"writeLock"} => call[c].op = "write"
    BY <1>1 DEF Asked, OpsAt, ReadNPoints, Writing
<1> QED
    BY <1>1, <1>2, <1>3 DEF WritesOnly, Asked, Writing

(* Everything proved of the records and the table.                         *)
TableInv ==
    /\ TypeOK /\ LockDiscipline /\ Requests /\ Entries /\ Unique /\ Unlinked /\ WholeFile
    /\ Asked /\ NewSize /\ OneEviction

(* A write begins on a record of the table that has no size.               *)
LEMMA WriteBegins ==
    ASSUME WritesOnly, TableInv, Exact, NEW c \in Clients, WriteStarts(c)
    PROVE  /\ fileWrite(c) /\ ptr[c] \in InTable /\ ptr[c] \in FileIds
           /\ mutex[ptr[c]] = NULL /\ size[ptr[c]] = 0
           /\ size' = [size EXCEPT ![ptr[c]] = call[c].n]
           /\ UNCHANGED <<table, stack, top, heap, abspath>>
<1>0. TypeOK /\ Asked /\ pc \in [Clients -> Labels] /\ table \in Seq(FileIds)
    BY DEF TableInv, TypeOK, LocalTypeOK, StoreTypeOK
<1>1. fileWrite(c)
    BY <1>0, OnlyWrites DEF WriteStarts, fileAppend, At
<1>2. /\ CanLock(ptr[c]) /\ pages[ptr[c]] = {}
      /\ size' = [size EXCEPT ![ptr[c]] = call[c].n]
      /\ UNCHANGED <<table, stack, top, heap, abspath>>
  <2>1. pc'[c] # "idle"
      BY DEF WriteStarts
  <2> QED
      BY <1>0, <1>1, <2>1 DEF fileWrite, refuseWrite, writeRefused, Return, listVars
<1>3. PICK g \in FileIds : g = ptr[c] /\ heap[g] = "live" /\ mutex[g] = NULL /\ g \in Live
    BY <1>2 DEF CanLock, Live
<1>4. size[g] = 0
    BY <1>2, <1>3, FS_EmptySet DEF TableInv, WholeFile
<1>5. g \in InTable
  <2>1. Freeing(g) = {}
    <3>1. ASSUME NEW d \in Freeing(g) PROVE FALSE
        BY <1>0, <1>3, <1>4, <3>1, OnlyWrites DEF Freeing, Exact
    <3> QED
        BY <3>1
  <2>2. Contains(table, g)
      BY <1>3, <2>1 DEF TableInv, Unlinked, NoRecordLost
  <2>3. DOMAIN table = 1 .. Len(table)
      BY <1>0, LenProperties
  <2> QED
      BY <2>2, <2>3 DEF Contains, InTable, ToSet
<1> QED
    BY <1>1, <1>2, <1>3, <1>4, <1>5

(* A record leaves the table when its eviction unlinks it.                 *)
LEMMA LeavesTable ==
    ASSUME WritesOnly, TableInv, NEW c \in Clients, Request(c) \/ Handler(c),
           NEW f \in InTable, f \notin InTable'
    PROVE  unlinkVictim(c) /\ victim[c] = f /\ mutex[f] = NULL
<1>0. TypeOK /\ LockDiscipline /\ Asked /\ Entries /\ Unique /\ NoneInstead
    BY DEF TableInv, Unlinked
<1>1. ~fileDelete(c)
    BY <1>0, OnlyWrites DEF fileDelete, At
<1>2. unlinkVictim(c)
  <2>1. ASSUME ~TableSteps(c) PROVE FALSE
      BY <2>1, TableFrame DEF InTable
  <2>2. ASSUME fileInit(c) \/ freeVictim(c) \/ fileDeleteEnd(c) \/ freeLocked(c) PROVE FALSE
      BY <1>0, <2>2, TableMoves
  <2> QED
      BY <1>1, <2>1, <2>2 DEF TableSteps
<1>3. PICK g \in FileIds : g = Unlinker(c) /\ mutex[g] = NULL /\ InTable' = InTable \ {g}
    BY <1>0, <1>2, UnlinksItself
<1>4. pc[c] = "lockVictim" /\ f = g
    BY <1>2, <1>3 DEF unlinkVictim, At
<1> QED
    BY <1>2, <1>3, <1>4 DEF Unlinker

(* What is over stays over until it is unlinked.                           *)
LEMMA OverStays ==
    ASSUME WritesOnly, TableInv, Exact, NEW c \in Clients, Request(c) \/ Handler(c),
           NEW f, Over(f), ~(unlinkVictim(c) /\ victim[c] = f)
    PROVE  Over(f)' /\ abspath'[f] = abspath[f]
<1>0. /\ TypeOK /\ LockDiscipline /\ Asked /\ Entries
      /\ f \in InTable /\ size[f] > 0 /\ ~inWork(f) /\ InTable \subseteq FileIds
      /\ pc \in [Clients -> Labels] /\ mutex \in [FileIds -> Owner] /\ NULL \notin Clients
      /\ size \in [FileIds -> Nat]
    BY FileMemoryAssumption, AsASet DEF TableInv, Over, TypeOK, LocalTypeOK, StoreTypeOK
<1>1. f \in InTable'
    BY <1>0, LeavesTable
<1>2. abspath'[f] = abspath[f]
    BY <1>0, <1>1, StaysIn
<1>3. size'[f] > 0
  <2>1. CASE WriteStarts(c)
      BY <1>0, <2>1, WriteBegins
  <2>2. CASE ~WriteStarts(c)
      BY <1>0, <1>1, <2>2, SizeStays
  <2> QED
      BY <2>1, <2>2
<1>4. ~(\E d \in Clients : mutex'[f] = d /\ pc'[d] \in Writing)
  <2> SUFFICES ASSUME NEW d \in Clients, mutex'[f] = d, pc'[d] \in Writing PROVE FALSE
      OBVIOUS
  <2>1. ~(mutex[f] = d /\ pc[d] \in Writing)
      BY <1>0 DEF inWork
  <2>2. CASE WriteStarts(c)
    <3>1. ptr[c] # f /\ mutex[f] = d
      <4>1. ptr[c] \in FileIds /\ size[ptr[c]] = 0 /\ mutex' = [mutex EXCEPT ![ptr[c]] = c]
          BY <2>2, WriteBegins DEF WriteStarts
      <4>2. ptr[c] # f
          BY <1>0, <4>1
      <4> QED
          BY <1>0, <4>1, <4>2
    <3>2. CASE d = c
      <4>1. pc[c] = "writeLock"
          BY <2>2, WriteBegins DEF fileWrite, At
      <4>2. mutex[f] # c
          BY <1>0, <4>1 DEF LockDiscipline, Holds, Writing
      <4> QED
          BY <3>1, <3>2, <4>2
    <3>3. CASE d # c
        BY <1>0, <2>1, <3>1, <3>3, OthersStay
    <3> QED
        BY <3>2, <3>3
  <2>3. CASE WriteEnds(c)
    <3>1. pc'[c] = "idle" /\ mutex' = [mutex EXCEPT ![ptr[c]] = NULL]
        BY <1>0, <2>3 DEF WriteEnds, Return
    <3>2. d # c /\ mutex[f] = d
        BY <1>0, <3>1 DEF Writing
    <3> QED
        BY <1>0, <2>1, <3>2, OthersStay
  <2>4. CASE ~WriteStarts(c) /\ ~WriteEnds(c)
    <3>1. mutex[f] = d /\ (pc[c] \in Writing <=> pc'[c] \in Writing)
        BY <1>0, <2>4, WritingFrame
    <3>2. pc[d] \in Writing
        BY <1>0, <3>1, OthersStay
    <3> QED
        BY <2>1, <3>1, <3>2
  <2> QED
      BY <2>2, <2>3, <2>4
<1> QED
    BY <1>1, <1>2, <1>3, <1>4 DEF Over, inWork

(* What is settled stays so until an eviction chooses it.                  *)
LEMMA SettledStays ==
    ASSUME WritesOnly, TableInv, Exact, NEW c \in Clients, Request(c) \/ Handler(c),
           NEW f, Settled(f), ~(fileDeleteFIFO(c) /\ top > 0 /\ victim'[c] = f)
    PROVE  Settled(f)' /\ abspath'[f] = abspath[f]
<1>1. TypeOK /\ Over(f) /\ ~Chosen(f)
    BY DEF TableInv, Settled
<1>2. ~(unlinkVictim(c) /\ victim[c] = f)
    BY <1>1 DEF unlinkVictim, At, Chosen
<1>3. ASSUME NEW d \in Clients, pc'[d] = "lockVictim", victim'[d] = f PROVE FALSE
    BY <1>1, <1>3, VictimComes DEF Chosen
<1>4. ~Chosen(f)'
    BY <1>3 DEF Chosen
<1> QED
    BY <1>1, <1>2, <1>4, OverStays DEF Settled
(* When it is exact, defragmentation finds nothing to do.                  *)
LEMMA ExactTypes ==
    ASSUME TableInv
    PROVE  /\ top \in 0 .. StackMax /\ StackMax \in Nat /\ top \in Nat
           /\ stack \in [0 .. StackMax - 1 -> Names \cup {NULL}]
           /\ pc \in [Clients -> Labels] /\ mutex \in [FileIds -> Owner]
           /\ ptr \in [Clients -> FileIds \cup {NULL}]
           /\ victim \in [Clients -> FileIds \cup {NULL}]
           /\ size \in [FileIds -> Nat] /\ NULL \notin Names \cup FileIds \cup Clients
           /\ InTable \subseteq FileIds
           /\ \A n \in Names : Stored(n) <=> \E f \in InTable : abspath[f] = n
           /\ \A f \in InTable : abspath[f] \in Names /\ heap[f] = "live" /\ hashTbSearch(abspath[f]) = f
<1>1. TypeOK /\ Entries /\ UniqueNames /\ table \in Seq(FileIds) /\ NULL \notin Names \cup FileIds \cup Clients
    BY FileMemoryAssumption DEF TableInv, Unique, TypeOK, StoreTypeOK
<1>2. /\ InTable \subseteq FileIds
      /\ \A f \in InTable : heap[f] = "live" /\ abspath[f] \in Names
      /\ \A n : hashEntries(n) = {} <=> \A f \in InTable : abspath[f] # n
      /\ \A f, g \in InTable : abspath[f] = abspath[g] => f = g
    BY <1>1, AsASet
<1>3. \A n \in Names : hashTbSearch(n) = NULL <=> hashEntries(n) = {}
    BY <1>1, SearchFinds
<1>4. \A n \in Names : Stored(n) <=> \E f \in InTable : abspath[f] = n
    BY <1>1, <1>2, <1>3 DEF Stored
<1>5. ASSUME NEW f \in InTable PROVE hashTbSearch(abspath[f]) = f
  <2>1. hashTbSearch(abspath[f]) # NULL
      BY <1>2, <1>3, <1>5
  <2>2. hashTbSearch(abspath[f]) \in FileIds
      BY <1>1, <2>1, SearchType
  <2>3. hashTbSearch(abspath[f]) \in InTable /\ abspath[hashTbSearch(abspath[f])] = abspath[f]
      BY <1>1, <2>2, SearchFinds
  <2> QED
      BY <1>2, <1>5, <2>3
<1> QED
    BY <1>1, <1>2, <1>4, <1>5, FileMemoryAssumption DEF TypeOK, StoreTypeOK, LocalTypeOK, StackMax

(* On an exact stack fileStackDefrag finds nothing to remove and nothing   *)
(* to move.                                                                *)
LEMMA DefragExact ==
    ASSUME TableInv, Exact, fileStackDefrag
    PROVE  UNCHANGED <<stack, top>>
<1>0. /\ top \in 0 .. StackMax /\ StackMax \in Nat /\ top \in Nat
      /\ stack \in [0 .. StackMax - 1 -> Names \cup {NULL}]
      /\ NULL \notin Names
      /\ \A n \in Names : Stored(n) <=> \E f \in InTable : abspath[f] = n
      /\ \A f \in InTable : abspath[f] \in Names
    BY ExactTypes
<1>1. kept = 0 .. top - 1
  <2>1. ASSUME NEW i \in 0 .. top - 1 PROVE i \in kept
    <3>1. Stored(stack[i]) /\ i \in DOMAIN stack
        BY <1>0 DEF Exact
    <3>2. \A j \in 0 .. i - 1 : j \in 0 .. top - 1 /\ j # i
        BY <1>0
    <3>3. \A j \in 0 .. i - 1 : stack[j] # stack[i]
        BY <3>2 DEF Exact
    <3> QED
        BY <3>1, <3>3 DEF kept
  <2>2. ASSUME NEW i \in kept PROVE i \in 0 .. top - 1
    <3>1. i \in 0 .. StackMax - 1 /\ stack[i] # NULL
        BY <1>0 DEF kept, Stored
    <3>2. i \notin top .. StackMax - 1
        BY <3>1 DEF Exact
    <3> QED
        BY <1>0, <3>1, <3>2
  <2> QED
      BY <2>1, <2>2
<1>2. \A k \in kept : Cardinality(Before(k)) = k
  <2> SUFFICES ASSUME NEW k \in 0 .. top - 1 PROVE Cardinality(Before(k)) = k
      BY <1>1
  <2>1. Before(k) = 0 .. k - 1
      BY <1>0, <1>1 DEF Before
  <2>2. k \in Nat /\ k - 1 \in Int
      BY <1>0
  <2>3. Cardinality(0 .. k - 1) = IF 0 > k - 1 THEN 0 ELSE (k - 1) - 0 + 1
      BY <2>2, FS_Interval
  <2> QED
      BY <2>1, <2>2, <2>3
<1>3. top' = top
  <2>1. Cardinality(0 .. top - 1) = IF 0 > top - 1 THEN 0 ELSE (top - 1) - 0 + 1
    <3>1. top - 1 \in Int
        BY <1>0
    <3> QED
        BY <3>1, FS_Interval
  <2>2. top' = Cardinality(kept)
      BY DEF fileStackDefrag
  <2> QED
      BY <1>0, <1>1, <2>1, <2>2
<1>4. stack' = [i \in DOMAIN stack |->
                  IF \E m \in kept : Cardinality(Before(m)) = i
                  THEN stack[CHOOSE m \in kept : Cardinality(Before(m)) = i] ELSE NULL]
    BY DEF fileStackDefrag, Before
<1>5. \A i \in 0 .. StackMax - 1 : stack'[i] = stack[i]
  <2> SUFFICES ASSUME NEW i \in 0 .. StackMax - 1 PROVE stack'[i] = stack[i]
      OBVIOUS
  <2>1. CASE i \in kept
    <3>1. (CHOOSE m \in kept : Cardinality(Before(m)) = i) = i
        BY <1>2, <2>1
    <3> QED
        BY <1>0, <1>2, <1>4, <2>1, <3>1
  <2>2. CASE i \notin kept
    <3>1. ~\E m \in kept : Cardinality(Before(m)) = i
        BY <1>2, <2>2
    <3>2. i \in top .. StackMax - 1
        BY <1>0, <1>1, <2>2
    <3>3. stack'[i] = NULL /\ stack[i] = NULL
        BY <1>0, <1>4, <3>1, <3>2 DEF Exact
    <3> QED
        BY <3>3
  <2> QED
      BY <2>1, <2>2
<1>6. DOMAIN stack' = 0 .. StackMax - 1 /\ stack' = [i \in 0 .. StackMax - 1 |-> stack'[i]]
    BY <1>0, <1>4
<1> QED
    BY <1>0, <1>3, <1>5, <1>6

(* When it is exact, an eviction takes the top of the stack.               *)
LEMMA TakesTop ==
    ASSUME WritesOnly, TableInv, Exact, NEW c \in Clients, fileDeleteFIFO(c), top > 0
    PROVE  /\ stack' = [stack EXCEPT ![top - 1] = NULL] /\ top' = top - 1
           /\ Settled(victim'[c]) /\ abspath[victim'[c]] = stack[top - 1]
           /\ pc'[c] = "lockVictim"
<1>0. /\ top \in 0 .. StackMax /\ StackMax \in Nat /\ top \in Nat
      /\ stack \in [0 .. StackMax - 1 -> Names \cup {NULL}]
      /\ NULL \notin Names \cup FileIds \cup Clients
      /\ pc \in [Clients -> Labels]
      /\ victim \in [Clients -> FileIds \cup {NULL}]
      /\ \A n \in Names : Stored(n) <=> \E f \in InTable : abspath[f] = n
      /\ \A f \in InTable : abspath[f] \in Names /\ hashTbSearch(abspath[f]) = f
    BY ExactTypes
<1>1. PICK t \in 0 .. top - 1 : t = top - 1
    BY <1>0
<1>2. PICK f \in InTable : abspath[f] = stack[t] /\ Settled(f)
    BY DEF Exact
<1>3. ~foundSelf(evictKey(c))
  <2> SUFFICES ASSUME evictKey(c) # NULL, stack[t] = evictKey(c) PROVE FALSE
      BY <1>1 DEF foundSelf
  <2>1. call[c].name = stack[t] /\ pc[c] = "evict"
      BY DEF evictKey, fileDeleteFIFO, At
  <2>2. ptr[c] \in InTable /\ abspath[ptr[c]] = call[c].name /\ mutex[ptr[c]] = c
    <3>1. pc[c] \in Writing
        BY <2>1 DEF Writing
    <3>2. ptr[c] \in InTable
        BY <3>1 DEF Exact
    <3>3. mutex[ptr[c]] = c /\ LockDiscipline /\ OwnName
        BY <3>1 DEF TableInv, LockDiscipline, Requests
    <3>4. abspath[ptr[c]] = call[c].name
      <4>1. call[c].op # "readN" /\ heap[ptr[c]] = "live" /\ ptr[c] \in FileIds
          BY <3>1, <3>2, OnlyWrites, ExactTypes DEF TableInv
      <4> QED
          BY <3>3, <4>1 DEF OwnName
    <3> QED
        BY <3>2, <3>3, <3>4
  <2>3. ptr[c] = f
      BY <1>0, <1>2, <2>1, <2>2
  <2>4. inWork(f)
      BY <2>1, <2>2, <2>3 DEF inWork, Writing
  <2> QED
      BY <1>2, <2>4 DEF Settled, Over
<1>4. victimIndex(evictKey(c)) = t
  <2>1. candidates(evictKey(c)) \subseteq 0 .. top - 1 /\ t \in candidates(evictKey(c))
      BY <1>0, <1>1, <1>2, <1>3 DEF candidates
  <2>2. IsFiniteSet(0 .. top - 1)
    <3>1. top - 1 \in Int
        BY <1>0
    <3> QED
        BY <3>1, FS_Interval
  <2>3. IsFiniteSet(candidates(evictKey(c))) /\ candidates(evictKey(c)) \in SUBSET Int
    <3>1. 0 .. top - 1 \in SUBSET Int
        OBVIOUS
    <3> QED
        BY <2>1, <2>2, <3>1, FS_Subset
  <2>4. /\ victimIndex(evictKey(c)) \in candidates(evictKey(c))
        /\ t <= victimIndex(evictKey(c))
      BY <2>1, <2>3, MaxIsMember DEF victimIndex
  <2> QED
      BY <1>0, <1>1, <2>1, <2>4
<1>5. /\ victim' = [victim EXCEPT ![c] = hashTbSearch(stack[victimIndex(evictKey(c))])]
      /\ fileStackTake(evictKey(c))
      /\ pc' = [pc EXCEPT ![c] = "lockVictim"]
    BY <1>0 DEF fileDeleteFIFO, Goto
<1>6. victim'[c] = f
    BY <1>0, <1>2, <1>4, <1>5
<1> QED
    BY <1>0, <1>1, <1>2, <1>3, <1>4, <1>5, <1>6 DEF fileStackTake

(* A record that is being written is in the table.                         *)
LEMMA WrittenStaysIn ==
    ASSUME WritesOnly, TableInv, Exact, NEW c \in Clients, Request(c) \/ Handler(c),
           NEW d \in Clients, pc'[d] \in Writing
    PROVE  ptr'[d] \in InTable'
<1>0. /\ TypeOK /\ LockDiscipline
      /\ pc \in [Clients -> Labels] /\ mutex \in [FileIds -> Owner] /\ NULL \notin Clients
    BY ExactTypes DEF TableInv
<1>1. ASSUME pc[d] \in Writing, ptr'[d] = ptr[d] PROVE ptr'[d] \in InTable'
  <2>1. ptr[d] \in InTable /\ mutex[ptr[d]] = d
      BY <1>0, <1>1 DEF Exact, LockDiscipline
  <2> QED
      BY <1>0, <1>1, <2>1, LeavesTable
<1>2. CASE d # c
    BY <1>0, <1>1, <1>2, OthersStay
<1>3. CASE d = c /\ WriteStarts(c)
  <2>1. ptr[c] \in InTable /\ table' = table /\ ptr' = ptr
      BY <1>3, WriteBegins DEF WriteStarts, localVars
  <2> QED
      BY <1>3, <2>1 DEF InTable
<1>4. CASE d = c /\ WriteEnds(c)
    BY <1>0, <1>4 DEF WriteEnds, Return, Writing
<1>5. CASE d = c /\ ~WriteStarts(c) /\ ~WriteEnds(c)
    BY <1>0, <1>1, <1>5, WritingFrame
<1> QED
    BY <1>2, <1>3, <1>4, <1>5

(* An eviction has chosen a file whose write is over, and the record it    *)
(* frees has a size.                                                       *)
LEMMA VictimsAreOver ==
    ASSUME WritesOnly, TableInv, Exact, NEW c \in Clients, Request(c) \/ Handler(c),
           NEW d \in Clients
    PROVE  /\ pc'[d] = "lockVictim" => Over(victim[d])'
           /\ pc'[d] = "freeVictim" /\ heap'[victim'[d]] = "live" => size'[victim'[d]] > 0
<1>0. /\ TypeOK /\ LockDiscipline /\ Asked /\ Entries /\ OneEviction
      /\ pc \in [Clients -> Labels] /\ size \in [FileIds -> Nat] /\ NULL \notin Clients
      /\ heap \in [FileIds -> {"free", "live"}]
    BY ExactTypes DEF TableInv, TypeOK, StoreTypeOK
<1>1. ASSUME NEW f, Over(f), ~(unlinkVictim(c) /\ victim[c] = f) PROVE Over(f)'
    BY <1>1, OverStays
<1>2. ASSUME pc'[d] = "lockVictim" PROVE Over(victim[d])'
  <2>1. CASE pc[d] = "lockVictim" /\ victim'[d] = victim[d]
    <3>1. Over(victim[d])
        BY <2>1 DEF Exact
    <3>2. ~unlinkVictim(c)
      <4>1. ASSUME unlinkVictim(c) PROVE FALSE
        <5>1. pc[c] = "lockVictim" /\ pc'[c] = "freeVictim"
            BY <1>0, <4>1 DEF unlinkVictim, At, Goto
        <5>2. c = d
            BY <1>0, <2>1, <5>1 DEF OneEviction
        <5> QED
            BY <1>2, <5>1, <5>2
      <4> QED
          BY <4>1
    <3>3. PICK f : f = victim[d]
        OBVIOUS
    <3> QED
        BY <1>1, <2>1, <3>1, <3>2, <3>3 DEF Over, inWork
  <2>2. CASE d = c /\ fileDeleteFIFO(c) /\ top > 0
    <3>1. PICK f : f = victim'[c]
        OBVIOUS
    <3>2. Over(f)
        BY <2>2, <3>1, TakesTop DEF Settled
    <3>3. ~unlinkVictim(c)
        BY <2>2 DEF fileDeleteFIFO, unlinkVictim, At
    <3> QED
        BY <1>1, <2>2, <3>1, <3>2, <3>3 DEF Over, inWork
  <2> QED
      BY <1>0, <1>2, <2>1, <2>2, VictimComes
<1>3. ASSUME pc'[d] = "freeVictim", heap'[victim'[d]] = "live" PROVE size'[victim'[d]] > 0
  <2>1. CASE pc[d] = "freeVictim" /\ victim'[d] = victim[d]
    <3>1. PICK g \in FileIds : g = victim[d] /\ (heap[g] = "live" => size[g] > 0)
        BY <1>0, <2>1 DEF LockDiscipline, Exact
    <3>2. CASE WriteStarts(c)
        BY <1>0, <1>3, <2>1, <3>1, <3>2, WriteBegins
    <3>3. CASE fileInit(c)
        BY <1>0, <1>3, <2>1, <3>1, <3>3 DEF fileInit, Fresh
    <3>4. CASE freeVictim(c) \/ fileDeleteEnd(c) \/ freeLocked(c)
      <4>1. /\ Freed(c) \in FileIds /\ heap' = [heap EXCEPT ![Freed(c)] = "free"]
          BY <1>0, <3>4, FreeClears
      <4>2. size' = [size EXCEPT ![Freed(c)] = 0]
          BY <1>0, <3>4, FreesSize
      <4> QED
          BY <1>0, <1>3, <2>1, <3>1, <4>1, <4>2
    <3>5. CASE ~WriteStarts(c) /\ ~fileInit(c) /\ ~freeVictim(c) /\ ~fileDeleteEnd(c)
               /\ ~freeLocked(c)
      <4>1. size' = size
          BY <1>0, <3>5, SizeFrame
      <4>2. heap' = heap
        <5>1. CASE ~TableSteps(c)
            BY <5>1, TableFrame
        <5>2. CASE fileDelete(c) \/ unlinkVictim(c)
            BY <5>2, UnlinkRemoves
        <5> QED
            BY <3>5, <5>1, <5>2 DEF TableSteps
      <4> QED
          BY <1>3, <2>1, <3>1, <4>1, <4>2
    <3> QED
        BY <3>2, <3>3, <3>4, <3>5
  <2>2. CASE d = c /\ unlinkVictim(c)
    <3>1. size[victim[c]] > 0 /\ UNCHANGED <<victim, size>>
        BY <2>2 DEF Exact, Over, unlinkVictim, At, localVars, fileVars
    <3> QED
        BY <2>2, <3>1
  <2> QED
      BY <1>0, <1>3, <2>1, <2>2, VictimComes
<1> QED
    BY <1>2, <1>3

(* The file a write puts on the stack.                                     *)
LEMMA WriteSettles ==
    ASSUME WritesOnly, TableInv, Exact, NEW c \in Clients, fileWriteEnd(c), top < StackMax
    PROVE  /\ stack' = [stack EXCEPT ![top] = abspath[ptr[c]]] /\ top' = top + 1
           /\ ptr[c] \in InTable /\ inWork(ptr[c])
           /\ \E f \in InTable : f = ptr[c] /\ Settled(f)' /\ abspath'[f] = abspath[f]
<1>0. /\ TypeOK /\ LockDiscipline /\ Asked /\ NewSize
      /\ top \in Nat /\ StackMax \in Nat /\ NULL \notin Clients /\ InTable \subseteq FileIds
      /\ pc \in [Clients -> Labels] /\ mutex \in [FileIds -> Owner]
    BY ExactTypes DEF TableInv
<1>1. pc[c] = "stackAdd" /\ pc[c] \in Writing /\ status = "running"
    BY DEF fileWriteEnd, At, Writing
<1>2. /\ stack' = [stack EXCEPT ![top] = abspath[ptr[c]]] /\ top' = top + 1
      /\ mutex' = [mutex EXCEPT ![ptr[c]] = NULL] /\ pc' = [pc EXCEPT ![c] = "idle"]
      /\ UNCHANGED <<table, size, abspath>>
    BY <1>0 DEF fileWriteEnd, fileStackAdd, Return
<1>3. ptr[c] \in InTable /\ mutex[ptr[c]] = c
    BY <1>0, <1>1 DEF Exact, LockDiscipline
<1>4. inWork(ptr[c])
    BY <1>1, <1>3 DEF inWork
<1>5. PICK f \in InTable : f = ptr[c] /\ f \in FileIds
    BY <1>0, <1>3
<1>6. size[f] > 0
    BY <1>0, <1>1, <1>5, OnlyWrites DEF NewSize
<1>7. Over(f)'
    BY <1>0, <1>2, <1>3, <1>5, <1>6 DEF Over, inWork, InTable
<1>8. ~Chosen(f)'
  <2> SUFFICES ASSUME NEW d \in Clients, pc'[d] = "lockVictim", victim'[d] = f PROVE FALSE
      BY DEF Chosen
  <2>1. WriteCalls(c) /\ Handler(c)
      BY DEF Handler, WriteCalls
  <2>2. pc[d] = "lockVictim" /\ victim[d] = f
      BY <1>0, <1>1, <2>1, VictimComes DEF fileDeleteFIFO, At
  <2>3. Over(f)
      BY <2>2 DEF Exact
  <2> QED
      BY <1>4, <1>5, <2>3 DEF Over
<1> QED
    BY <1>2, <1>3, <1>4, <1>5, <1>7, <1>8 DEF Settled

(* Every step keeps the stack exact.                                       *)
LEMMA ExactStep == WritesOnly /\ TableInv /\ Exact /\ [Next]_vars => Exact'
<1> SUFFICES ASSUME WritesOnly, TableInv, Exact, [Next]_vars PROVE Exact'
    OBVIOUS
<1>0. /\ top \in 0 .. StackMax /\ StackMax \in Nat /\ top \in Nat
      /\ stack \in [0 .. StackMax - 1 -> Names \cup {NULL}]
      /\ \A f, g \in InTable : abspath[f] = abspath[g] => f = g
      /\ \A f \in InTable : abspath[f] # NULL
  <2>1. \A f \in InTable : abspath[f] \in Names /\ NULL \notin Names /\ hashTbSearch(abspath[f]) = f
      BY ExactTypes
  <2>2. \A f, g \in InTable : abspath[f] = abspath[g] => f = g
      BY <2>1
  <2> QED
      BY <2>1, <2>2, ExactTypes
<1>1. CASE UNCHANGED vars
    BY <1>1 DEF vars, storeVars, listVars, fileVars, localVars, Exact, Settled, Over, inWork, InTable, Chosen
<1>2. ASSUME NEW c \in Clients, Request(c) \/ Handler(c) PROVE Exact'
  <2>1. \A d \in Clients : /\ pc'[d] = "lockVictim" => Over(victim[d])'
                           /\ pc'[d] = "freeVictim" /\ heap'[victim'[d]] = "live" => size'[victim'[d]] > 0
                           /\ pc'[d] \in Writing => ptr'[d] \in InTable'
      BY <1>2, VictimsAreOver, WrittenStaysIn
  <2>2. ASSUME NEW f, Settled(f), ~(fileDeleteFIFO(c) /\ top > 0 /\ victim'[c] = f)
        PROVE  f \in InTable' /\ Settled(f)' /\ abspath'[f] = abspath[f]
      BY <1>2, <2>2, SettledStays DEF Settled, Over
  <2>3. CASE UNCHANGED <<stack, top>> /\ ~(fileDeleteFIFO(c) /\ top > 0)
    <3>1. \A i \in 0 .. top - 1 : \E f \in InTable' : abspath'[f] = stack[i] /\ Settled(f)'
      <4> SUFFICES ASSUME NEW i \in 0 .. top - 1
                   PROVE  \E f \in InTable' : abspath'[f] = stack[i] /\ Settled(f)'
          OBVIOUS
      <4>1. PICK f \in InTable : abspath[f] = stack[i] /\ Settled(f)
          BY DEF Exact
      <4>2. f \in InTable' /\ Settled(f)' /\ abspath'[f] = abspath[f]
          BY <2>2, <2>3, <4>1
      <4> QED
          BY <4>1, <4>2
    <3> QED
        BY <2>1, <2>3, <3>1 DEF Exact, StackMax
  <2>4. CASE fileDeleteFIFO(c) /\ top > 0
    <3>1. /\ stack' = [stack EXCEPT ![top - 1] = NULL] /\ top' = top - 1
          /\ abspath[victim'[c]] = stack[top - 1]
        BY <2>4, TakesTop
    <3>2. ASSUME NEW i \in 0 .. top' - 1
          PROVE  /\ i \in 0 .. top - 1 /\ stack'[i] = stack[i]
                 /\ \E f \in InTable' : abspath'[f] = stack[i] /\ Settled(f)'
      <4>1. i \in 0 .. top - 1 /\ i # top - 1 /\ top - 1 \in 0 .. top - 1 /\ i \in 0 .. StackMax - 1
          BY <1>0, <2>4, <3>1
      <4>2. PICK f \in InTable : abspath[f] = stack[i] /\ Settled(f)
          BY <4>1 DEF Exact
      <4>3. stack[i] # stack[top - 1]
          BY <4>1 DEF Exact
      <4>4. f \in InTable' /\ Settled(f)' /\ abspath'[f] = abspath[f]
          BY <2>2, <3>1, <4>2, <4>3
      <4> QED
          BY <1>0, <3>1, <4>1, <4>2, <4>4
    <3>3. \A i \in 0 .. top' - 1 : \E f \in InTable' : abspath'[f] = stack'[i] /\ Settled(f)'
        BY <3>2
    <3>4. \A i, j \in 0 .. top' - 1 : stack'[i] = stack'[j] => i = j
        BY <3>2 DEF Exact
    <3>5. \A i \in top' .. StackMax - 1 : stack'[i] = NULL
      <4> SUFFICES ASSUME NEW i \in top' .. StackMax - 1 PROVE stack'[i] = NULL
          OBVIOUS
      <4>1. i \in 0 .. StackMax - 1 /\ (i = top - 1 \/ i \in top .. StackMax - 1)
          BY <1>0, <2>4, <3>1
      <4> QED
          BY <1>0, <3>1, <4>1 DEF Exact
    <3> QED
        BY <2>1, <3>3, <3>4, <3>5 DEF Exact, StackMax
  <2>5. CASE fileWriteEnd(c) /\ top # StackMax
    <3>0. top < StackMax /\ ~fileDeleteFIFO(c) /\ top \in 0 .. StackMax - 1
        BY <1>0, <2>5 DEF fileWriteEnd, fileDeleteFIFO, At
    <3>1. /\ stack' = [stack EXCEPT ![top] = abspath[ptr[c]]] /\ top' = top + 1
          /\ ptr[c] \in InTable /\ inWork(ptr[c])
          /\ \E f \in InTable : f = ptr[c] /\ Settled(f)' /\ abspath'[f] = abspath[f]
        BY <2>5, <3>0, WriteSettles
    <3>2. PICK g \in InTable : g = ptr[c] /\ Settled(g)' /\ abspath'[g] = abspath[g]
        BY <3>1
    <3>3. ASSUME NEW i \in 0 .. top - 1
          PROVE  /\ stack'[i] = stack[i] /\ stack[i] # abspath[g]
                 /\ \E f \in InTable' : abspath'[f] = stack[i] /\ Settled(f)'
      <4>1. PICK f \in InTable : abspath[f] = stack[i] /\ Settled(f)
          BY DEF Exact
      <4>2. f # g
          BY <3>1, <3>2, <4>1 DEF Settled, Over
      <4>3. f \in InTable' /\ Settled(f)' /\ abspath'[f] = abspath[f]
          BY <2>2, <3>0, <4>1
      <4>4. i # top /\ i \in 0 .. StackMax - 1
          BY <1>0
      <4> QED
          BY <1>0, <3>1, <4>1, <4>2, <4>3, <4>4
    <3>4. stack'[top] = abspath[g] /\ g \in InTable'
        BY <1>0, <3>0, <3>1, <3>2 DEF Settled, Over
    <3>5. \A i \in 0 .. top' - 1 : i = top \/ i \in 0 .. top - 1
        BY <1>0, <3>1
    <3>6. \A i \in 0 .. top' - 1 : \E f \in InTable' : abspath'[f] = stack'[i] /\ Settled(f)'
        BY <3>2, <3>3, <3>4, <3>5
    <3>7. \A i, j \in 0 .. top' - 1 : stack'[i] = stack'[j] => i = j
        BY <3>3, <3>4, <3>5 DEF Exact
    <3>8. \A i \in top' .. StackMax - 1 : stack'[i] = NULL
      <4> SUFFICES ASSUME NEW i \in top' .. StackMax - 1 PROVE stack'[i] = NULL
          OBVIOUS
      <4>1. i \in 0 .. StackMax - 1 /\ i # top /\ i \in top .. StackMax - 1
          BY <1>0, <3>1
      <4> QED
          BY <1>0, <3>1, <4>1 DEF Exact
    <3> QED
        BY <2>1, <3>6, <3>7, <3>8 DEF Exact, StackMax
  <2>6. CASE fileNRead(c)
    <3>1. UNCHANGED <<stack, top>> /\ ~fileDeleteFIFO(c)
        BY <2>6, DefragExact DEF fileNRead, fileDeleteFIFO, At
    <3> QED
        BY <2>3, <3>1
  <2>7. CASE fileWriteEnd(c) /\ top = StackMax
    <3>1. UNCHANGED <<stack, top>> /\ ~fileDeleteFIFO(c)
        BY <1>0, <2>7 DEF fileWriteEnd, fileDeleteFIFO, At
    <3> QED
        BY <2>3, <3>1
  <2>8. CASE fileDeleteFIFO(c) /\ ~(top > 0)
    <3>1. UNCHANGED <<stack, top>>
        BY <2>8 DEF fileDeleteFIFO
    <3> QED
        BY <2>3, <2>8, <3>1
  <2>9. CASE ~StackSteps(c)
      BY <1>2, <2>3, <2>9, StackFrame DEF StackSteps
  <2> QED
      BY <2>4, <2>5, <2>6, <2>7, <2>8, <2>9 DEF StackSteps
<1> QED
    BY <1>1, <1>2 DEF Next

(* The stack is exact in every reachable state.                            *)
LEMMA ExactHolds ==
    ASSUME OneCreator, WritesOnly
    PROVE  Spec => [](TableInv /\ Exact)
<1>1. TwoHands
    BY DEF WritesOnly, TwoHands, MayCall
<1>2. Spec => []TableInv
  <2>1. /\ TypeOK /\ LockDiscipline /\ Requests /\ Entries /\ Unique /\ Unlinked /\ WholeFile
        => TableInv
      BY DEF TableInv, Requests
  <2> QED
      BY <1>1, <2>1, UnlinkedHolds, FilesAreWhole, PTL
<1>3. Init => Exact
  <2> SUFFICES ASSUME Init PROVE Exact
      OBVIOUS
  <2>1. top = 0 /\ stack = [i \in 0 .. StackMax - 1 |-> NULL] /\ StackMax \in Nat
      BY FileMemoryAssumption DEF Init, StoreInit, StackMax
  <2>2. \A c \in Clients : pc[c] \notin {"lockVictim", "freeVictim"} \cup Writing
      BY DEF Init, Writing
  <2> QED
      BY <2>1, <2>2 DEF Exact
<1> QED
    BY <1>2, <1>3, ExactStep, WritesOnly, PTL DEF Spec

(* An eviction can find every file of an exact stack.                      *)
LEMMA ListedHolds ==
    ASSUME OneCreator, WritesOnly
    PROVE  Spec => [](TableInv /\ Listed /\ Exact)
<1>1. Init => Listed
    BY DEF Init, StoreInit, Listed, InTable, ToSet
<1>2. TableInv /\ Listed /\ [Next]_vars => Listed'
    BY ListedStep DEF TableInv, Requests
<1> QED
    BY <1>1, <1>2, ExactHolds, OneCreator, WritesOnly, PTL DEF Spec

(* The written files that an eviction may choose.                          *)
SettledFiles == { f \in InTable : Settled(f) }

(* They are written: a file that has a size and no writer has its pages.   *)
LEMMA SettledAreWritten ==
    ASSUME TableInv
    PROVE  SettledFiles \subseteq Written
<1>0. /\ LockDiscipline /\ WholeFile
      /\ InTable \subseteq FileIds /\ NULL \notin FileIds \cup Clients
      /\ mutex \in [FileIds -> Clients \cup {NULL}]
      /\ \A f \in InTable : heap[f] = "live"
    BY ExactTypes DEF TableInv, Owner
<1> SUFFICES ASSUME NEW f \in SettledFiles PROVE f \in Written
    OBVIOUS
<1>1. f \in InTable /\ f \in FileIds /\ size[f] > 0 /\ ~inWork(f) /\ f \in Live
    BY <1>0 DEF SettledFiles, Settled, Over, Live
<1>2. Cardinality(pages[f]) = size[f]
  <2>1. CASE mutex[f] = NULL
      BY <1>0, <1>1, <2>1 DEF WholeFile
  <2>2. CASE mutex[f] # NULL
    <3>1. PICK d \in Clients : mutex[f] = d
        BY <1>0, <1>1, <2>2
    <3>2. ptr[d] = f /\ pc[d] \in Writing \cup {"sendUnlock"}
        BY <1>0, <1>1, <3>1 DEF LockDiscipline, Holds
    <3>3. pc[d] = "sendUnlock"
        BY <1>1, <3>1, <3>2 DEF inWork
    <3> QED
        BY <1>0, <3>2, <3>3 DEF WholeFile
  <2> QED
      BY <2>1, <2>2
<1>3. pages[f] # {}
  <2>1. Cardinality(pages[f]) # 0
      BY <1>0, <1>1, <1>2, CardOfPages DEF TableInv
  <2> QED
      BY <2>1, FS_EmptySet
<1> QED
    BY <1>1, <1>3 DEF Written, InTable

(* And a written file is one of them unless somebody is at work on it.     *)
LEMMA WrittenAre ==
    ASSUME TableInv
    PROVE  \A f \in Written : f \in SettledFiles \/ inWork(f) \/ Chosen(f)
<1>0. TypeOK /\ WholeFile /\ InTable \subseteq FileIds /\ \A f \in InTable : heap[f] = "live"
    BY ExactTypes DEF TableInv
<1> SUFFICES ASSUME NEW f \in Written PROVE f \in SettledFiles \/ inWork(f) \/ Chosen(f)
    OBVIOUS
<1>1. f \in InTable /\ f \in FileIds /\ f \in Live /\ pages[f] # {}
    BY <1>0 DEF Written, InTable, Live
<1>2. Cardinality(pages[f]) # 0
    BY <1>0, <1>1, CardOfPages, FS_EmptySet
<1>3. size[f] > 0
    BY <1>0, <1>1, <1>2, CardOfPages DEF WholeFile
<1> QED
    BY <1>1, <1>3 DEF SettledFiles, Settled, Over

(* When files are only created, written and read, the names on the         *)
(* FileStack are exactly those of the written files whose write is over,   *)
(* each once: fileWrite pushes the name of every file it writes, an        *)
(* eviction takes the name together with its file (fileStackGetTop,        *)
(* FileMemory.c:363), and what fileStackDefrag (FileMemory.c:314) does     *)
(* changes nothing.                                                        *)
THEOREM StackIsExact ==
    ASSUME OneCreator, WritesOnly
    PROVE  Spec => []StackExact
<1>1. TableInv /\ Listed /\ Exact => StackExact
  <2> SUFFICES ASSUME TableInv, Listed, Exact, filestack_mutex = NULL
               PROVE  /\ { stack[i] : i \in 0 .. top - 1 }
                            = { abspath[f] : f \in { g \in Written : ~inWork(g) } }
                      /\ \A i, j \in 0 .. top - 1 : stack[i] = stack[j] => i = j
      BY DEF StackExact
  <2>1. \A f : ~Chosen(f)
      BY FileMemoryAssumption DEF TableInv, OneEviction, Chosen
  <2>2. ASSUME NEW i \in 0 .. top - 1
        PROVE  \E f \in { g \in Written : ~inWork(g) } : stack[i] = abspath[f]
    <3>1. PICK f \in InTable : abspath[f] = stack[i] /\ Settled(f)
        BY DEF Exact
    <3>2. f \in Written /\ ~inWork(f)
        BY <3>1, SettledAreWritten DEF SettledFiles, Settled, Over
    <3> QED
        BY <3>1, <3>2
  <2>3. ASSUME NEW f \in Written, ~inWork(f)
        PROVE  \E i \in 0 .. top - 1 : abspath[f] = stack[i]
    <3>1. f \in InTable /\ size[f] > 0
        BY <2>1, <2>3, WrittenAre DEF SettledFiles, Settled, Over
    <3>2. ~NotYet(f)
        BY <2>3 DEF NotYet, inWork
    <3>3. OnStack(abspath[f])
        BY <2>1, <3>1, <3>2 DEF Listed
    <3> QED
        BY <3>3 DEF OnStack
  <2>4. \A i, j \in 0 .. top - 1 : stack[i] = stack[j] => i = j
      BY DEF Exact
  <2> QED
      BY <2>2, <2>3, <2>4
<1> QED
    BY <1>1, ListedHolds, PTL
-----------------------------------------------------------------------------
(* The count of files, when one client writes.                             *)

(* The file being written is counted from FileNUpdate on, and the victim   *)
(* of an eviction until its place is given to that file or FileNDecrease.  *)
Counted(c) == IF pc[c] = "fileN" \/ file_n_mutex = c THEN 0 ELSE 1
Leaving(c) == IF pc[c] \in {"lockVictim", "freeVictim", "decrease"} THEN 1 ELSE 0

(* file_n is the number of names on the stack and of these two, and a file *)
(* takes its first page when it is counted.                                *)
FileCount ==
    /\ file_n <= c_file_max
    /\ (\A c \in Clients : pc[c] \notin Writing) => file_n = top
    /\ \A c \in Clients :
          /\ pc[c] \in Writing => file_n = top + Counted(c) + Leaving(c)
          /\ file_n_mutex = c => file_n >= c_file_max
          /\ pc[c] = "fileN" \/ file_n_mutex = c => pages[ptr[c]] = {}

(* Who writes is alone.                                                    *)
LEMMA WriterAlone ==
    ASSUME OneWriter, WritesOnly, TableInv,
           NEW c \in Clients, NEW d \in Clients,
           pc[c] \in Writing \cup {"writeLock"}, pc[d] \in Writing \cup {"writeLock"}
    PROVE  c = d
<1>1. \A e \in Clients : pc[e] \in Writing \cup {"writeLock"} =>
          /\ call[e].op = "write" /\ call[e] \in Calls[e] /\ call[e] \in Call
  <2>1. TypeOK /\ Asked
      BY DEF TableInv
  <2>2. \A e \in Clients : pc[e] \in Writing \cup {"writeLock"} => pc[e] # "idle"
      BY DEF Writing
  <2> QED
      BY <2>1, <2>2, OnlyWrites DEF Asked, TypeOK, LocalTypeOK
<1>2. \A e \in Clients : pc[e] \in Writing \cup {"writeLock"} =>
          \E n \in Names : MayCall(e, {"write"}, n)
  <2> SUFFICES ASSUME NEW e \in Clients, pc[e] \in Writing \cup {"writeLock"}
               PROVE  \E n \in Names : MayCall(e, {"write"}, n)
      OBVIOUS
  <2>1. call[e].name \in Names
      BY <1>1, WorkerAssumption DEF Call
  <2> QED
      BY <1>1, <2>1 DEF MayCall
<1> QED
    BY <1>2 DEF OneWriter

(* The steps of a write that count, and the others.                        *)
Counts(c) ==
    FileNUpdate(c) \/ pageGet(c) \/ fileWriteEnd(c) \/ Evictions(c)

(* Every other step leaves file_n, its mutex and the stack alone; it       *)
(* begins a write, of a file that has no page, or leaves the writes where  *)
(* they are.  The pages of a file change only when it is freed under its   *)
(* reader.                                                                 *)
LEMMA CountFrame ==
    ASSUME WritesOnly, TableInv, Exact, NEW c \in Clients, Request(c) \/ Handler(c), ~Counts(c)
    PROVE  /\ UNCHANGED <<file_n, file_n_mutex, top>>
           /\ \/ WriteStarts(c) /\ pc[c] = "writeLock" /\ pc'[c] = "fileN"
                 /\ UNCHANGED <<pages, ptr>> /\ pages[ptr[c]] = {}
              \/ /\ pc[c] \in Writing => UNCHANGED <<pc, ptr>>
                 /\ pc'[c] \in Writing <=> pc[c] \in Writing
           /\ \A f \in FileIds : heap[f] = "live" => pages'[f] = pages[f] \/ pages'[f] = {}
           /\ status = "running"
<1>0. /\ pc \in [Clients -> Labels] /\ pages \in [FileIds -> SUBSET Pages]
      /\ pc[c] \notin {"appendLock", "appendEnd", "deleteLock", "freeOwn"}
    BY OnlyWrites DEF TableInv, TypeOK, LocalTypeOK, StoreTypeOK
<1> USE <1>0 DEF At, Goto, Return, Counts
<1>1. CASE Request(c)
    BY <1>1 DEF Request, storeVars, listVars, fileVars, lockVars, localVars, Writing
<1>2. CASE fileInit(c)
    BY <1>2 DEF fileInit, Fresh, lockVars, localVars, Writing
<1>3. CASE OpenCalls(c) /\ ~fileInit(c)
    BY <1>3 DEF OpenCalls, fileSearch, fileSearchSilent, fileOpen, fileClose, fileOpenCheck,
                Refuse, storeVars, listVars, fileVars, lockVars, localVars, Writing
<1>4. CASE fileNRead(c)
    BY <1>4, DefragExact DEF fileNRead, fileVars, lockVars, localVars, Writing
<1>5. CASE ReadCalls(c) /\ ~fileNRead(c)
    BY <1>5 DEF ReadCalls, sendFile, sendFileEnd, arrayRandomPermutation, fileNReadAll, fileNReadNext,
                fileNReadName, storeVars, listVars, fileVars, lockVars, localVars, Writing
<1>6. CASE fileWrite(c)
    BY <1>6 DEF fileWrite, refuseWrite, writeRefused, WriteStarts, listVars, lockVars, localVars, Writing
<1>7. CASE WriteCalls(c) /\ ~fileWrite(c)
    BY <1>7 DEF WriteCalls, fileAppend, fileAppendEnd, fileDelete, fileDeleteEnd
<1>8. CASE Faults(c)
    BY <1>8 DEF Faults, Stops, StaleDeref, freeListed, TopFault, ReadFault, AppendFault, Fault,
                listVars, fileVars, lockVars, localVars
<1>9. CASE freeLocked(c)
    BY <1>9, FreeLockedIs DEF TableInv, fileFree, Writing
<1> QED
    BY <1>1, <1>2, <1>3, <1>4, <1>5, <1>6, <1>7, <1>8, <1>9, HandlerIs DEF Counts

(* One writer keeps the count: FileNUpdate adds its file or leaves the     *)
(* place of the file it evicts to it, and FileNDecrease makes up for an    *)
(* eviction by pageGet.                                                    *)
LEMMA CountStep == OneWriter /\ WritesOnly /\ TableInv /\ Exact /\ FileCount /\ [Next]_vars => FileCount'
<1> SUFFICES ASSUME OneWriter, WritesOnly, TableInv, Exact, FileCount, [Next]_vars PROVE FileCount'
    OBVIOUS
<1>0. /\ top \in Nat /\ file_n \in Int /\ c_file_max \in Nat \ {0} /\ StackMax \in Nat
      /\ pc \in [Clients -> Labels] /\ NULL \notin Clients
      /\ file_n_mutex \in Clients \cup {NULL} /\ TypeOK /\ LockDiscipline
      /\ pages \in [FileIds -> SUBSET Pages]
    BY ExactTypes, FileMemoryAssumption DEF TableInv, TypeOK, StoreTypeOK, Owner
<1>1. CASE UNCHANGED vars
    BY <1>1 DEF vars, storeVars, listVars, fileVars, lockVars, localVars, FileCount, Counted, Leaving
<1>2. ASSUME NEW c \in Clients, Request(c) \/ Handler(c), ~Counts(c) PROVE FileCount'
  <2>0. UNCHANGED <<file_n, file_n_mutex, top>>
      BY <1>2, CountFrame
  <2>1. CASE WriteStarts(c) /\ pc[c] = "writeLock" /\ pc'[c] = "fileN"
               /\ UNCHANGED <<pages, ptr>> /\ pages[ptr[c]] = {}
    <3>1. \A d \in Clients : pc[d] \notin Writing
      <4> SUFFICES ASSUME NEW d \in Clients, pc[d] \in Writing PROVE FALSE
          OBVIOUS
      <4>1. d = c
          BY <2>1, WriterAlone
      <4> QED
          BY <2>1, <4>1 DEF Writing
    <3>2. file_n = top /\ \A d \in Clients : file_n_mutex # d
        BY <1>0, <3>1 DEF FileCount, LockDiscipline, Writing
    <3>3. \A d \in Clients : pc'[d] \in Writing \/ pc'[d] = "fileN" => d = c
        BY <1>0, <1>2, <3>1, OthersStay DEF Writing
    <3> QED
        BY <1>0, <2>0, <2>1, <3>2, <3>3 DEF FileCount, Counted, Leaving, Writing
  <2>2. CASE /\ pc[c] \in Writing => UNCHANGED <<pc, ptr>>
             /\ pc'[c] \in Writing <=> pc[c] \in Writing
    <3>1. ASSUME NEW d \in Clients
          PROVE  /\ pc'[d] \in Writing <=> pc[d] \in Writing
                 /\ pc[d] \in Writing => /\ pc'[d] = pc[d] /\ ptr'[d] = ptr[d]
                                         /\ pages'[ptr[d]] = pages[ptr[d]] \/ pages'[ptr[d]] = {}
      <4>1. pc[d] \in Writing => ptr[d] \in FileIds /\ heap[ptr[d]] = "live"
          BY <1>0, <1>2, CountFrame DEF LockDiscipline
      <4>2. pc[d] \in Writing => pages'[ptr[d]] = pages[ptr[d]] \/ pages'[ptr[d]] = {}
          BY <1>2, <4>1, CountFrame
      <4> QED
          BY <1>0, <1>2, <2>2, <4>2, OthersStay
    <3>2. \A d \in Clients : /\ pc[d] = "fileN" \/ file_n_mutex = d => pc[d] \in Writing
                             /\ pc'[d] = "fileN" => pc'[d] \in Writing
        BY <1>0 DEF LockDiscipline, Writing
    <3> QED
        BY <2>0, <3>1, <3>2 DEF FileCount, Counted, Leaving
  <2> QED
      BY <1>2, <2>1, <2>2, CountFrame
<1>3. ASSUME NEW c \in Clients, Counts(c), Handler(c) PROVE FileCount'
  <2> DEFINE Goal ==
        /\ file_n' <= c_file_max /\ file_n' \in Int
        /\ pc'[c] \notin Writing => file_n' = top'
        /\ pc'[c] \in Writing => file_n' = top' + Counted(c)' + Leaving(c)'
        /\ file_n_mutex' = c => file_n' >= c_file_max
        /\ pc'[c] = "fileN" \/ file_n_mutex' = c => pages'[ptr'[c]] = {}
        /\ file_n_mutex' \in {c, NULL}
  <2>1. pc[c] \in Writing
      BY <1>3 DEF Counts, FileNUpdate, pageGet, fileWriteEnd, Evictions, fileDeleteFIFO, unlinkVictim,
                  freeVictim, FileNDecrease, At, Writing
  <2>2. \A d \in Clients : d # c => pc[d] \notin Writing /\ pc'[d] = pc[d]
      BY <1>0, <1>3, <2>1, WriterAlone, OthersStay
  <2>3. file_n_mutex \in {c, NULL} /\ (file_n_mutex = c => pc[c] \in {"evict", "lockVictim", "freeVictim"})
      BY <1>0, <2>2 DEF LockDiscipline, Writing
  <2>4. /\ file_n <= c_file_max
        /\ file_n = top + Counted(c) + Leaving(c)
        /\ file_n_mutex = c => file_n >= c_file_max
        /\ pc[c] = "fileN" \/ file_n_mutex = c => pages[ptr[c]] = {}
      BY <2>1 DEF FileCount
  <2>5. ASSUME FileNUpdate(c) PROVE Goal
      BY <1>0, <2>3, <2>4, <2>5
      DEF FileNUpdate, fileMaxReached, At, Goto, fileVars, localVars, Writing, Counted, Leaving
  <2>6. ASSUME pageGet(c) PROVE Goal
    <3>1. call[c].op = "write"
        BY <2>1, OnlyWrites DEF TableInv
    <3>2. /\ pc[c] = "pageGet" /\ pc'[c] \in {"pageGet", "evict", "stackAdd"}
          /\ UNCHANGED <<file_n, file_n_mutex, top>>
        BY <1>0, <2>6, <3>1 DEF pageGet, At, Goto, lockVars
    <3> QED
        BY <1>0, <2>3, <2>4, <3>2 DEF Writing, Counted, Leaving
  <2>7. ASSUME fileWriteEnd(c) PROVE Goal
    <3>1. /\ pc[c] = "stackAdd" /\ UNCHANGED <<file_n, file_n_mutex>>
          /\ \/ top' = top /\ pc'[c] = "selfLock"
             \/ top' = top + 1 /\ pc'[c] = "idle"
        BY <1>0, <2>7 DEF fileWriteEnd, fileStackAdd, At, Goto, Return
    <3> QED
        BY <1>0, <2>3, <2>4, <3>1 DEF Writing, Counted, Leaving
  <2>8. ASSUME fileDeleteFIFO(c) PROVE Goal
    <3>1. pc[c] = "evict" /\ UNCHANGED <<file_n, ptr, pages>>
        BY <2>8 DEF fileDeleteFIFO, At, fileVars
    <3>2. ASSUME top = 0 PROVE Goal
      <4>1. file_n_mutex = NULL
          BY <1>0, <2>3, <2>4, <3>1, <3>2 DEF Counted, Leaving
      <4>2. UNCHANGED <<top, file_n_mutex>> /\ pc'[c] = "pageGet"
          BY <1>0, <2>8, <3>2, <4>1 DEF fileDeleteFIFO, Goto
      <4> QED
          BY <1>0, <2>4, <3>1, <4>1, <4>2 DEF Writing, Counted, Leaving
    <3>3. ASSUME top > 0 PROVE Goal
      <4>1. top' = top - 1 /\ pc'[c] = "lockVictim" /\ file_n_mutex' = file_n_mutex
          BY <1>0, <2>8, <3>3, TakesTop DEF fileDeleteFIFO
      <4> QED
          BY <1>0, <2>3, <2>4, <3>1, <4>1 DEF Writing, Counted, Leaving
    <3> QED
        BY <1>0, <3>2, <3>3
  <2>9. ASSUME unlinkVictim(c) PROVE Goal
    <3>1. /\ pc[c] = "lockVictim" /\ pc'[c] = "freeVictim"
          /\ UNCHANGED <<file_n, file_n_mutex, top, ptr, pages>>
        BY <1>0, <2>9 DEF unlinkVictim, At, Goto, fileVars, localVars
    <3> QED
        BY <1>0, <2>3, <2>4, <3>1 DEF Writing, Counted, Leaving
  <2>10. ASSUME freeVictim(c) PROVE Goal
    <3>1. /\ pc[c] = "freeVictim" /\ file_n_mutex' = NULL /\ UNCHANGED <<file_n, top>>
          /\ pc'[c] = (IF file_n_mutex = c THEN "pageGet" ELSE "decrease")
        BY <1>0, <2>3, <2>10 DEF freeVictim, At, Goto
    <3> QED
        BY <1>0, <2>3, <2>4, <3>1 DEF Writing, Counted, Leaving
  <2>11. ASSUME FileNDecrease(c) PROVE Goal
    <3>1. /\ pc[c] = "decrease" /\ pc'[c] = "pageGet" /\ file_n' = file_n - 1
          /\ UNCHANGED <<file_n_mutex, top>>
        BY <1>0, <2>11 DEF FileNDecrease, At, Goto, lockVars
    <3> QED
        BY <1>0, <2>3, <2>4, <3>1 DEF Writing, Counted, Leaving
  <2>12. Goal
      BY <1>3, <2>5, <2>6, <2>7, <2>8, <2>9, <2>10, <2>11 DEF Counts, Evictions
  <2> HIDE DEF Goal
  <2>13. \A d \in Clients : d # c => /\ pc'[d] \notin Writing /\ pc'[d] # "fileN"
                                     /\ file_n_mutex' # d
      BY <1>0, <2>2, <2>12 DEF Goal, Writing
  <2> QED
      BY <2>12, <2>13 DEF Goal, FileCount
<1> QED
    BY <1>1, <1>2, <1>3, HandlerIs DEF Next, Counts, WriteCalls

(* There are as many settled files as names on the stack, and all of them  *)
(* are written.                                                            *)
LEMMA SettledCount ==
    ASSUME TableInv, Listed, Exact
    PROVE  /\ IsFiniteSet(SettledFiles) /\ Cardinality(SettledFiles) = top
           /\ SettledFiles \subseteq Written
<1>0. /\ top \in Nat /\ TypeOK /\ LockDiscipline /\ WholeFile
      /\ InTable \subseteq FileIds /\ NULL \notin FileIds \cup Clients
      /\ mutex \in [FileIds -> Clients \cup {NULL}] /\ pc \in [Clients -> Labels]
      /\ \A f \in InTable : heap[f] = "live" /\ hashTbSearch(abspath[f]) = f
    BY ExactTypes DEF TableInv, Owner
<1>1. \A f, g \in InTable : abspath[f] = abspath[g] => f = g
    BY <1>0
<1> DEFINE h == [ i \in 0 .. top - 1 |-> hashTbSearch(stack[i]) ]
<1>2. \A i \in 0 .. top - 1 : h[i] \in SettledFiles /\ abspath[h[i]] = stack[i]
    BY <1>0 DEF Exact, SettledFiles
<1>3. ASSUME NEW f \in SettledFiles PROVE \E i \in 0 .. top - 1 : h[i] = f
  <2>1. f \in InTable /\ size[f] > 0 /\ ~inWork(f) /\ ~Chosen(f)
      BY <1>3 DEF SettledFiles, Settled, Over
  <2>2. ~NotYet(f)
      BY <2>1 DEF NotYet, inWork
  <2>3. OnStack(abspath[f])
      BY <2>1, <2>2 DEF Listed
  <2>4. PICK i \in 0 .. top - 1 : stack[i] = abspath[f]
      BY <2>3 DEF OnStack
  <2> QED
      BY <1>0, <2>1, <2>4
<1>4. \A i, j \in 0 .. top - 1 : h[i] = h[j] => i = j
    BY <1>2 DEF Exact
<1>5. ExistsBijection(0 .. top - 1, SettledFiles)
  <2>1. h \in [0 .. top - 1 -> SettledFiles] /\ DOMAIN h = 0 .. top - 1
      BY <1>2
  <2> HIDE DEF h
  <2>2. h \in Bijection(0 .. top - 1, SettledFiles)
      BY <1>3, <1>4, <2>1 DEF Bijection, Injection, Surjection, IsInjective
  <2> QED
      BY <2>2 DEF ExistsBijection
<1>6. IsFiniteSet(0 .. top - 1) /\ Cardinality(0 .. top - 1) = top
  <2>1. top - 1 \in Int
      BY <1>0
  <2>2. /\ IsFiniteSet(0 .. top - 1)
        /\ Cardinality(0 .. top - 1) = IF 0 > top - 1 THEN 0 ELSE (top - 1) - 0 + 1
      BY <2>1, FS_Interval
  <2> QED
      BY <1>0, <2>2
<1> QED
    BY <1>5, <1>6, SettledAreWritten, FS_Bijection

(* A set that gets one more member, or none.                               *)
LEMMA OneMore ==
    ASSUME NEW S, IsFiniteSet(S), NEW x, NEW T, T = {} \/ T = {x}
    PROVE  /\ IsFiniteSet(S \cup T) /\ Cardinality(S \cup T) \in Nat
           /\ Cardinality(S \cup T) <= Cardinality(S) + 1
           /\ T = {} => Cardinality(S \cup T) = Cardinality(S)
<1>1. Cardinality(S) \in Nat
    BY FS_CardinalityType
<1>2. CASE T = {}
  <2>1. S \cup T = S
      BY <1>2
  <2>2. IsFiniteSet(S \cup T) /\ Cardinality(S \cup T) = Cardinality(S)
      BY <2>1
  <2>3. Cardinality(S) <= Cardinality(S) + 1
      BY <1>1
  <2> QED
      BY <1>1, <2>2, <2>3
<1>3. CASE T = {x}
  <2>1. /\ IsFiniteSet(S \cup T)
        /\ Cardinality(S \cup T) = IF x \in S THEN Cardinality(S) ELSE Cardinality(S) + 1
      BY <1>3, FS_AddElement
  <2> QED
      BY <1>1, <1>3, <2>1
<1> QED
    BY <1>2, <1>3

(* Besides the settled ones only the file being written and the victim of  *)
(* its eviction are written.                                               *)
LEMMA WrittenCount ==
    ASSUME OneWriter, WritesOnly, TableInv, Listed, Exact, FileCount
    PROVE  /\ IsFiniteSet(Written) /\ Cardinality(Written) <= c_file_max
           /\ Cardinality(Written) >= top
           /\ (\A c \in Clients : pc[c] \notin Writing) => Cardinality(Written) = file_n
<1>0. /\ top \in Nat /\ file_n \in Int /\ c_file_max \in Nat \ {0} /\ TypeOK /\ LockDiscipline
      /\ WholeFile /\ InTable \subseteq FileIds /\ NULL \notin Clients
      /\ \A f \in InTable : heap[f] = "live"
    BY ExactTypes, FileMemoryAssumption DEF TableInv, TypeOK, StoreTypeOK
<1>1. IsFiniteSet(SettledFiles) /\ Cardinality(SettledFiles) = top /\ SettledFiles \subseteq Written
    BY SettledCount
<1>2. \A f \in Written : f \in SettledFiles \/ inWork(f) \/ Chosen(f)
    BY WrittenAre
<1>3. CASE \A c \in Clients : pc[c] \notin Writing
  <2>1. \A f : ~inWork(f) /\ ~Chosen(f)
      BY <1>3 DEF inWork, Chosen, Writing
  <2>2. Written = SettledFiles
      BY <1>1, <1>2, <2>1
  <2> QED
      BY <1>0, <1>1, <1>3, <2>2 DEF FileCount
<1>4. ASSUME NEW c \in Clients, pc[c] \in Writing
      PROVE  /\ IsFiniteSet(Written) /\ Cardinality(Written) <= c_file_max
             /\ Cardinality(Written) >= top
  <2> DEFINE Own == IF Counted(c) = 0 THEN {} ELSE {ptr[c]}
             Out == IF Leaving(c) = 0 THEN {} ELSE {victim[c]}
  <2>1. ASSUME NEW f \in Written PROVE f \in (SettledFiles \cup Own) \cup Out
    <3>1. CASE inWork(f)
      <4>1. PICK d \in Clients : mutex[f] = d /\ pc[d] \in Writing
          BY <3>1 DEF inWork
      <4>2. d = c
          BY <1>4, <4>1, WriterAlone
      <4>3. f \in FileIds /\ pages[f] # {}
          BY <1>0 DEF Written, InTable
      <4>4. ptr[c] = f
          BY <1>0, <4>1, <4>2, <4>3 DEF LockDiscipline, Holds
      <4>5. Counted(c) # 0
          BY <4>3, <4>4 DEF Counted, FileCount
      <4> QED
          BY <4>4, <4>5
    <3>2. CASE Chosen(f)
      <4>1. PICK d \in Clients : pc[d] = "lockVictim" /\ victim[d] = f
          BY <3>2 DEF Chosen
      <4>2. d = c
          BY <1>4, <4>1, WriterAlone DEF Writing
      <4> QED
          BY <4>1, <4>2 DEF Leaving
    <3> QED
        BY <1>2, <3>1, <3>2
  <2>2. /\ Counted(c) \in {0, 1} /\ Leaving(c) \in {0, 1}
        /\ file_n = top + Counted(c) + Leaving(c) /\ file_n <= c_file_max
      BY <1>4 DEF FileCount, Counted, Leaving
  <2>3. /\ IsFiniteSet(SettledFiles \cup Own) /\ Cardinality(SettledFiles \cup Own) \in Nat
        /\ Cardinality(SettledFiles \cup Own) <= top + Counted(c)
    <3>1. Own = {} \/ Own = {ptr[c]}
        OBVIOUS
    <3>2. Counted(c) = 0 => Own = {}
        OBVIOUS
    <3> HIDE DEF Own
    <3>3. /\ IsFiniteSet(SettledFiles \cup Own) /\ Cardinality(SettledFiles \cup Own) \in Nat
          /\ Cardinality(SettledFiles \cup Own) <= Cardinality(SettledFiles) + 1
          /\ Own = {} => Cardinality(SettledFiles \cup Own) = Cardinality(SettledFiles)
        BY <1>1, <3>1, OneMore
    <3> QED
        BY <1>0, <1>1, <2>2, <3>2, <3>3
  <2>4. PICK T : T = SettledFiles \cup Own
      OBVIOUS
  <2>5. /\ IsFiniteSet(T \cup Out) /\ Cardinality(T \cup Out) \in Nat
        /\ Cardinality(T \cup Out) <= Cardinality(T) + Leaving(c)
    <3>1. Out = {} \/ Out = {victim[c]}
        OBVIOUS
    <3>2. Leaving(c) = 0 => Out = {}
        OBVIOUS
    <3> HIDE DEF Own, Out
    <3>3. /\ IsFiniteSet(T \cup Out) /\ Cardinality(T \cup Out) \in Nat
          /\ Cardinality(T \cup Out) <= Cardinality(T) + 1
          /\ Out = {} => Cardinality(T \cup Out) = Cardinality(T)
        BY <2>3, <2>4, <3>1, OneMore
    <3> QED
        BY <2>2, <2>3, <2>4, <3>2, <3>3
  <2>6. Cardinality(T \cup Out) <= c_file_max
    <3> HIDE DEF Own, Out
    <3> QED
        BY <1>0, <2>2, <2>3, <2>4, <2>5
  <2>7. Written \subseteq T \cup Out
      BY <2>1, <2>4
  <2> HIDE DEF Own, Out
  <2>8. IsFiniteSet(Written) /\ Cardinality(Written) <= Cardinality(T \cup Out)
      BY <2>5, <2>7, FS_Subset
  <2>9. Cardinality(SettledFiles) <= Cardinality(Written) /\ Cardinality(Written) \in Nat
      BY <1>1, <2>8, FS_Subset, FS_CardinalityType
  <2> QED
      BY <1>0, <1>1, <2>5, <2>6, <2>8, <2>9
<1> QED
    BY <1>3, <1>4

(* The invariants that the count rests on.                                 *)
LEMMA CountHolds ==
    ASSUME OneCreator, OneWriter, WritesOnly
    PROVE  Spec => [](TableInv /\ Listed /\ Exact /\ FileCount)
<1>1. Init => FileCount
  <2> SUFFICES ASSUME Init PROVE FileCount
      OBVIOUS
  <2>1. top = 0 /\ file_n = 0 /\ file_n_mutex = NULL /\ NULL \notin Clients /\ c_file_max \in Nat
      BY FileMemoryAssumption DEF Init, StoreInit
  <2>2. \A c \in Clients : pc[c] \notin Writing /\ pc[c] # "fileN"
      BY DEF Init, Writing
  <2> QED
      BY <2>1, <2>2 DEF FileCount
<1>2. TableInv /\ Exact /\ FileCount /\ [Next]_vars => FileCount'
    BY CountStep, OneWriter, WritesOnly
<1> QED
    BY <1>1, <1>2, ListedHolds, OneCreator, WritesOnly, PTL DEF Spec

(* When one client writes and nothing is removed or appended to, there are *)
(* never more files than file_max, and between requests file_n is their    *)
(* number: FileNUpdate (FileMemory.c:531) counts a file before it is on    *)
(* the stack, or leaves it uncounted for the victim whose place it takes,  *)
(* and FileNDecrease (:544) settles the victims of pageGet.                *)
THEOREM CapacityKept ==
    ASSUME OneCreator, OneWriter, WritesOnly
    PROVE  Spec => []CapacityRespected
<1>1. TableInv /\ Listed /\ Exact /\ FileCount => CapacityRespected
  <2> SUFFICES ASSUME TableInv, Listed, Exact, FileCount PROVE CapacityRespected
      OBVIOUS
  <2>1. Quiescent => \A c \in Clients : pc[c] \notin Writing
      BY DEF Quiescent, Writing
  <2> QED
      BY <2>1, WrittenCount, OneWriter, WritesOnly DEF CapacityRespected
<1> QED
    BY <1>1, CountHolds, PTL

(* "checks if file_max has been reached. if so, a FIFO file deletion is    *)
(* requested" (FileMemory.c:528), and not before.                          *)
THEOREM FullBeforeEvicting ==
    ASSUME OneCreator, OneWriter, WritesOnly
    PROVE  Spec => EvictsWhenFull
<1> DEFINE Limit == \A c \in Clients :
                       pc[c] = "fileN" /\ pc'[c] = "evict" => Cardinality(Written) >= c_file_max
<1>1. TableInv /\ Listed /\ Exact /\ FileCount /\ [Next]_vars => Limit
  <2> SUFFICES ASSUME TableInv, Listed, Exact, FileCount, [Next]_vars,
                      NEW c \in Clients, pc[c] = "fileN", pc'[c] = "evict"
               PROVE  Cardinality(Written) >= c_file_max
      OBVIOUS
  <2>0. /\ top \in Nat /\ file_n \in Int /\ c_file_max \in Nat /\ pc \in [Clients -> Labels]
        /\ TypeOK /\ pc[c] \in Writing
      BY ExactTypes, FileMemoryAssumption DEF TableInv, TypeOK, StoreTypeOK, Writing
  <2>1. file_n = top
      BY <2>0 DEF FileCount, Counted, Leaving
  <2>2. file_n >= c_file_max
    <3>1. PICK d \in Clients : Request(d) \/ Handler(d)
        BY DEF Next, vars, localVars
    <3>2. d = c
        BY <2>0, <3>1, OthersStay
    <3>3. FileNUpdate(c)
      <4>1. Counts(c)
        <5> SUFFICES ASSUME ~Counts(c) PROVE FALSE
            OBVIOUS
        <5>1. pc[c] # "writeLock" /\ (pc[c] \in Writing => UNCHANGED <<pc, ptr>>)
            BY <2>0, <3>1, <3>2, CountFrame, WritesOnly
        <5> QED
            BY <2>0, <5>1
      <4> QED
          BY <4>1 DEF Counts, pageGet, fileWriteEnd, Evictions, fileDeleteFIFO, unlinkVictim,
                      freeVictim, FileNDecrease, At
    <3> QED
        BY <2>0, <3>3 DEF FileNUpdate, fileMaxReached, Goto
  <2>3. Cardinality(Written) >= top /\ IsFiniteSet(Written)
      BY WrittenCount, OneWriter, WritesOnly
  <2>4. Cardinality(Written) \in Nat
      BY <2>3, FS_CardinalityType
  <2> QED
      BY <2>0, <2>1, <2>2, <2>3, <2>4
<1> QED
    BY <1>1, CountHolds, PTL DEF EvictsWhenFull, Spec
-----------------------------------------------------------------------------
(* One request after the other.                                            *)

(* Records a handler is about to use are in the table, and one it is about *)
(* to free is allocated and unlocked.                                      *)
InHand ==
    \A c \in Clients :
        /\ pc[c] \in UsesPtr \ {"freeOwn"} /\ ptr[c] # NULL => ptr[c] \in InTable
        /\ pc[c] = "freeOwn" => heap[ptr[c]] = "live"
        /\ pc[c] = "lockVictim" => victim[c] \in InTable
        /\ pc[c] = "freeVictim" => heap[victim[c]] = "live" /\ mutex[victim[c]] = NULL

(* The names a readNFiles has still to visit, and those it has visited,    *)
(* are as many as there are on the stack, and at first they are all.       *)
Visiting == {"readTop", "nextFile", "nameLock", "sendLock", "sendUnlock"}
Visits(c) == call[c].op = "readN" /\ pc[c] \in Visiting
InBatch(c, n) == \E k \in 1 .. Len(batch[c]) : batch[c][k] = n

Visit ==
    \A c \in Clients :
        IF Visits(c)
        THEN /\ Len(batch[c]) + seen[c] = top
             /\ seen[c] = 0 => \A f \in InTable : size[f] > 0 => InBatch(c, abspath[f])
             /\ pc[c] # "readTop" /\ call[c].n = 0 => want[c] = top
        ELSE seen[c] = 0

(* A client alone frees no record that is locked.                          *)
LEMMA NotLockedAlone ==
    ASSUME OneClient, TypeOK, LockDiscipline, InHand, NEW c \in Clients
    PROVE  ~freeLocked(c)
<1> SUFFICES ASSUME freeLocked(c) PROVE FALSE
    OBVIOUS
<1>1. PICK f \in FileIds : /\ \/ pc[c] = "freeVictim" /\ victim[c] = f
                              \/ pc[c] = "freeOwn" /\ ptr[c] = f
                           /\ mutex[f] # NULL
    BY FreeLockedIs
<1>2. mutex[f] = c
    BY <1>1 DEF OneClient, TypeOK, StoreTypeOK, Owner
<1>3. pc[c] = "freeVictim" /\ victim[c] = f
    BY <1>1, <1>2 DEF LockDiscipline, Holds, Writing
<1> QED
    BY <1>1, <1>3 DEF InHand

(* With nobody else at work a record found in the table stays there until  *)
(* its handler unlinks it, and is freed by that handler alone.             *)
LEMMA InHandStep ==
    OneClient /\ TypeOK /\ LockDiscipline /\ Asked /\ Entries /\ InHand /\ [Next]_vars => InHand'
<1> SUFFICES ASSUME OneClient, TypeOK, LockDiscipline, Asked, Entries, InHand, [Next]_vars PROVE InHand'
    OBVIOUS
<1>0. /\ pc \in [Clients -> Labels] /\ table \in Seq(FileIds) /\ NULL \notin FileIds
      /\ ptr \in [Clients -> FileIds \cup {NULL}]
      /\ victim \in [Clients -> FileIds \cup {NULL}]
      /\ heap \in [FileIds -> {"free", "live"}]
      /\ mutex \in [FileIds -> Owner]
    BY FileMemoryAssumption DEF TypeOK, StoreTypeOK, LocalTypeOK
<1>1. \A n : hashTbSearch(n) # NULL => hashTbSearch(n) \in InTable
  <2> SUFFICES ASSUME NEW n, hashTbSearch(n) # NULL PROVE hashTbSearch(n) \in InTable
      OBVIOUS
  <2>1. hashTbSearch(n) \in FileIds
      BY <1>0, SearchType
  <2> QED
      BY <1>0, <2>1, SearchFinds
<1>2. CASE UNCHANGED vars
    BY <1>2 DEF vars, storeVars, listVars, fileVars, localVars, InHand, InTable
<1>3. ASSUME NEW c \in Clients, Request(c) \/ Handler(c) PROVE InHand'
  <2> DEFINE Goal ==
        /\ pc'[c] \in UsesPtr \ {"freeOwn"} /\ ptr'[c] # NULL => ptr'[c] \in InTable'
        /\ pc'[c] = "freeOwn" => heap'[ptr'[c]] = "live"
        /\ pc'[c] = "lockVictim" => victim'[c] \in InTable'
        /\ pc'[c] = "freeVictim" => heap'[victim'[c]] = "live" /\ mutex'[victim'[c]] = NULL
  <2>1. ASSUME Goal PROVE InHand'
      BY <2>1 DEF InHand, OneClient
  <2>2. /\ pc[c] \in UsesPtr \ {"freeOwn"} /\ ptr[c] # NULL => ptr[c] \in InTable
        /\ pc[c] = "freeOwn" => heap[ptr[c]] = "live"
        /\ pc[c] = "lockVictim" => victim[c] \in InTable
        /\ pc[c] = "freeVictim" => heap[victim[c]] = "live" /\ mutex[victim[c]] = NULL
      BY DEF InHand
  <2> USE <1>0, <2>2 DEF At, Goto, Return, UsesPtr, InTable
  <2>3. CASE Request(c)
    <3>1. Goal
        BY <2>3 DEF Request
    <3> QED
        BY <2>1, <3>1
  <2>4. CASE fileSearch(c) \/ fileInit(c) \/ fileOpen(c) \/ fileClose(c) \/ Refuse(c)
    <3>1. Goal
        BY <2>4 DEF fileSearch, fileInit, fileOpen, fileClose, Refuse
    <3> QED
        BY <2>1, <3>1
  <2>5. CASE fileSearchSilent(c)
    <3>1. Goal
        BY <1>1, <2>5 DEF fileSearchSilent, storeVars, listVars
    <3> QED
        BY <2>1, <3>1
  <2>6. CASE fileOpenCheck(c)
    <3>1. Goal
        BY <2>6 DEF fileOpenCheck, storeVars, listVars, localVars
    <3> QED
        BY <2>1, <3>1
  <2>7. CASE sendFile(c) \/ sendFileEnd(c) \/ fileNRead(c) \/ arrayRandomPermutation(c) \/ fileNReadAll(c)
    <3>1. Goal
        BY <2>7 DEF sendFile, sendFileEnd, fileNRead, arrayRandomPermutation, fileNReadAll
    <3> QED
        BY <2>1, <3>1
  <2>8. CASE fileNReadNext(c) \/ fileNReadName(c)
    <3>1. Goal
        BY <1>1, <2>8 DEF fileNReadNext, fileNReadName, storeVars, listVars, localVars
    <3> QED
        BY <2>1, <3>1
  <2>9. CASE /\ WriteCalls(c)
             /\ ~fileDelete(c)
    <3>1. Goal
        BY <2>9 DEF WriteCalls, fileWrite, refuseWrite, FileNUpdate, pageGet, fileWriteEnd, fileAppend,
                    fileAppendEnd, fileDeleteEnd
    <3> QED
        BY <2>1, <3>1
  <2>10. CASE fileDelete(c)
    <3>1. Goal
        BY <2>10 DEF fileDelete, CanLock, fileVars, localVars
    <3> QED
        BY <2>1, <3>1
  <2>11. CASE fileDeleteFIFO(c)
    <3>1. CASE top = 0
      <4>1. Goal
          BY <2>11, <3>1 DEF fileDeleteFIFO
      <4> QED
          BY <2>1, <4>1
    <3>2. CASE top # 0
      <4>1. /\ topFault(evictKey(c)) = "none" /\ pc'[c] = "lockVictim" /\ table' = table
            /\ victim'[c] = hashTbSearch(stack[victimIndex(evictKey(c))])
          BY <2>11, <3>2 DEF fileDeleteFIFO
      <4>2. victimIndex(evictKey(c)) \in candidates(evictKey(c))
        <5>1. top \in Nat
            BY FileMemoryAssumption DEF TypeOK, StoreTypeOK, StackMax
        <5>2. /\ candidates(evictKey(c)) # {} /\ candidates(evictKey(c)) \in SUBSET Int
              /\ candidates(evictKey(c)) \in SUBSET (0 .. top - 1)
            BY <4>1, <5>1 DEF topFault, candidates
        <5>3. top - 1 \in Int
            BY <5>1
        <5>4. IsFiniteSet(0 .. top - 1)
            BY <5>3, FS_Interval
        <5>5. IsFiniteSet(candidates(evictKey(c)))
            BY <5>2, <5>4, FS_Subset
        <5> QED
            BY <5>2, <5>5, MaxIsMember DEF victimIndex
      <4>3. hashTbSearch(stack[victimIndex(evictKey(c))]) # NULL
          BY <4>2 DEF candidates, Stored
      <4>4. Goal
          BY <1>1, <4>1, <4>3
      <4> QED
          BY <2>1, <4>4
    <3> QED
        BY <3>1, <3>2
  <2>12. CASE unlinkVictim(c)
    <3>1. Goal
        BY <2>12 DEF unlinkVictim, CanLock, fileVars, localVars
    <3> QED
        BY <2>1, <3>1
  <2>13. CASE freeVictim(c) \/ FileNDecrease(c)
    <3>1. Goal
        BY <2>13 DEF freeVictim, FileNDecrease
    <3> QED
        BY <2>1, <3>1
  <2>14. CASE Faults(c)
    <3>1. Goal
        BY <2>14 DEF Faults, Stops, StaleDeref, freeListed, TopFault, ReadFault, AppendFault, Fault,
                     listVars, fileVars, localVars
    <3> QED
        BY <2>1, <3>1
  <2>15. ASSUME freeLocked(c) PROVE FALSE
      BY <2>15, NotLockedAlone
  <2> QED
      BY <1>3, <2>3, <2>4, <2>5, <2>6, <2>7, <2>8, <2>9, <2>10, <2>11, <2>12, <2>13, <2>14, <2>15, HandlerIs
      DEF OpenCalls, ReadCalls, Evictions
<1> QED
    BY <1>2, <1>3 DEF Next

(* A step of fileNRead takes a name off the copy and counts it; no other   *)
(* request is served meanwhile, so the stack and the table stay as they    *)
(* were copied.                                                            *)
LEMMA VisitStep ==
    OneClient /\ TypeOK /\ Asked /\ Listed /\ Visit /\ [Next]_vars => Visit'
<1> SUFFICES ASSUME OneClient, TypeOK, Asked, Listed, Visit, [Next]_vars PROVE Visit'
    OBVIOUS
<1>0. /\ pc \in [Clients -> Labels] /\ call \in [Clients -> Call]
      /\ batch \in [Clients -> Seq(Names)] /\ want \in [Clients -> Int] /\ seen \in [Clients -> Nat]
      /\ top \in Nat
    BY FileMemoryAssumption DEF TypeOK, StoreTypeOK, LocalTypeOK, StackMax
<1>1. CASE UNCHANGED vars
    BY <1>1 DEF vars, storeVars, listVars, fileVars, localVars, workVars, Visit, Visits, InBatch, InTable
<1>2. ASSUME NEW c \in Clients, Request(c) \/ Handler(c) PROVE Visit'
  <2> DEFINE Idle == ~(call'[c].op = "readN" /\ pc'[c] \in Visiting) /\ seen'[c] = 0
             Busy == /\ call'[c].op = "readN" /\ pc'[c] \in Visiting
                     /\ Len(batch'[c]) + seen'[c] = top'
                     /\ seen'[c] = 0 => \A f \in InTable' : size'[f] > 0 =>
                            \E k \in 1 .. Len(batch'[c]) : batch'[c][k] = abspath'[f]
                     /\ pc'[c] # "readTop" /\ call'[c].n = 0 => want'[c] = top'
  <2>1. ASSUME Idle \/ Busy PROVE Visit'
      BY <2>1 DEF Visit, Visits, InBatch, OneClient
  <2>2. /\ call[c].op \in OpsAt(pc[c])
        /\ ~Visits(c) => seen[c] = 0
        /\ Visits(c) =>
             /\ Len(batch[c]) + seen[c] = top
             /\ seen[c] = 0 => \A f \in InTable : size[f] > 0 =>
                    \E k \in 1 .. Len(batch[c]) : batch[c][k] = abspath[f]
             /\ pc[c] # "readTop" /\ call[c].n = 0 => want[c] = top
      BY DEF Visit, Asked, InBatch
  <2> HIDE DEF Idle, Busy
  <2> USE <1>0, <2>2 DEF At, Goto, Return, Visits, Visiting, InTable
  <2>3. CASE Request(c)
    <3>1. PICK r \in Calls[c] : Request(c)!3!(r)
        BY <2>3 DEF Request
    <3>2. Idle
        BY <2>3, <3>1, WorkerAssumption DEF Request, Idle, workVars
    <3> QED
        BY <2>1, <3>2
  <2>4. CASE fileSearch(c) \/ fileInit(c) \/ fileSearchSilent(c) \/ fileOpen(c) \/ fileClose(c) \/ Refuse(c)
    <3>1. Idle
        BY <2>4 DEF fileSearch, fileInit, fileSearchSilent, fileOpen, fileClose, Refuse, Idle, localVars, workVars,
                    OpsAt, ReadNPoints, NoCall
    <3> QED
        BY <2>1, <3>1
  <2>5. CASE fileOpenCheck(c)
    <3>1. Idle
        BY <2>5 DEF fileOpenCheck, hasOpen, Idle, localVars, OpsAt, NoCall
    <3> QED
        BY <2>1, <3>1
  <2>a. ASSUME Visits(c), pc'[c] \in Visiting, pc'[c] # "readTop",
                UNCHANGED <<call, batch, seen, table, top, size, abspath>>,
                call[c].n = 0 => want'[c] = top
         PROVE  Visit'
    <3>1. Busy
        BY <2>a DEF Busy
    <3> QED
        BY <2>1, <3>1
  <2>6. CASE sendFile(c) \/ sendFileEnd(c)
    <3>1. CASE Visits(c) /\ pc'[c] # "idle"
        BY <2>6, <2>a, <3>1 DEF sendFile, sendFileEnd, localVars, workVars, listVars
    <3>2. CASE ~Visits(c) \/ pc'[c] = "idle"
      <4>1. Idle
          BY <2>6, <3>2 DEF sendFile, sendFileEnd, Idle, localVars, workVars, NoCall
      <4> QED
          BY <2>1, <4>1
    <3> QED
        BY <3>1, <3>2
  <2>7. CASE fileNRead(c)
    <3>1. Idle
        BY <2>7 DEF fileNRead, Idle, localVars, OpsAt, ReadNPoints
    <3> QED
        BY <2>1, <3>1
  <2>13. CASE fileNReadAll(c)
    <3>1. Visits(c)
        BY <2>13 DEF fileNReadAll, OpsAt, ReadNPoints
    <3> QED
        BY <2>a, <2>13, <3>1 DEF fileNReadAll, storeVars, listVars, fileVars
  <2>8. CASE fileNReadName(c)
    <3>1. Idle \/ Busy
        BY <2>8 DEF fileNReadName, Idle, Busy, localVars, workVars, storeVars, listVars, fileVars, OpsAt, ReadNPoints
    <3> QED
        BY <2>1, <3>1
  <2>9. CASE fileNReadNext(c)
    <3>1. CASE ~moreFiles(c)
      <4>1. Idle
          BY <2>9, <3>1 DEF fileNReadNext, Idle, NoCall
      <4> QED
          BY <2>1, <4>1
    <3>2. CASE moreFiles(c)
      <4>1. PICK k \in 1 .. Len(batch[c]) :
                /\ batch' = [batch EXCEPT ![c] = RemoveAt(@, k)]
                /\ pc'[c] \in {"nextFile", "nameLock"}
          BY <2>9, <3>2 DEF fileNReadNext
      <4>2. seen'[c] = seen[c] + 1 /\ UNCHANGED <<call, want>> /\ UNCHANGED top /\ pc[c] = "nextFile"
          BY <2>9, <3>2 DEF fileNReadNext, storeVars, listVars
      <4>3. batch[c] \in Seq(Names) /\ batch'[c] = RemoveAt(batch[c], k)
          BY <4>1
      <4>4. Len(batch'[c]) = Len(batch[c]) - 1
          BY <4>3, RemoveAtElements
      <4>5. seen[c] \in Nat /\ Len(batch[c]) \in Nat
          BY <4>3, LenProperties
      <4>6. call[c].op = "readN"
          BY <4>2 DEF OpsAt, ReadNPoints
      <4>7. Busy
        <5>1. call'[c].op = "readN" /\ pc'[c] \in Visiting /\ seen'[c] # 0 /\ pc[c] \in Visiting /\ pc[c] # "readTop"
            BY <4>1, <4>2, <4>5, <4>6
        <5>2. Len(batch'[c]) + seen'[c] = top
            BY <4>2, <4>4, <4>5, <4>6, <5>1
        <5> QED
            BY <4>2, <4>6, <5>1, <5>2 DEF Busy
      <4> QED
          BY <2>1, <4>7
    <3> QED
        BY <3>1, <3>2
  <2>10. CASE arrayRandomPermutation(c)
    <3>1. /\ batch'[c] = [i \in 1 .. top |-> stack[i - 1]]
          /\ pc'[c] \in {"readTop", "nextFile"} /\ pc[c] = "copy"
          /\ pc'[c] # "readTop" => call[c].n # 0
          /\ UNCHANGED <<call, seen, top, table, size, abspath, stack>>
        BY <2>10 DEF arrayRandomPermutation, storeVars, listVars, fileVars
    <3>2. seen[c] = 0 /\ call[c].op = "readN"
        BY <3>1 DEF OpsAt, ReadNPoints
    <3>3. batch'[c] \in Seq(Names \cup {NULL}) /\ Len(batch'[c]) = top
      <4>1. \A i \in 1 .. top : stack[i - 1] \in Names \cup {NULL}
        <5>1. /\ stack \in [0 .. StackMax - 1 -> Names \cup {NULL}]
              /\ top \in 0 .. StackMax /\ StackMax \in Nat
            BY FileMemoryAssumption DEF TypeOK, StoreTypeOK, StackMax
        <5>2. \A i \in 1 .. top : i - 1 \in 0 .. StackMax - 1
            BY <5>1
        <5> QED
            BY <5>1, <5>2
      <4>2. batch'[c] \in [1 .. top -> Names \cup {NULL}]
          BY <3>1, <4>1
      <4>3. top \in Nat
          BY <1>0
      <4> HIDE <1>0, <2>2
      <4> QED
          BY <4>2, <4>3, AsSequence
    <3>4. ASSUME NEW f \in InTable, size[f] > 0
          PROVE  \E k \in 1 .. top : stack[k - 1] = abspath[f]
      <4>1. OnStack(abspath[f])
          BY <3>1, <3>4 DEF Listed, NotYet, Chosen, OneClient, Writing
      <4>2. PICK i \in 0 .. top - 1 : stack[i] = abspath[f]
          BY <4>1 DEF OnStack
      <4>3. i + 1 \in 1 .. top /\ (i + 1) - 1 = i
          BY <4>2
      <4> QED
          BY <4>2, <4>3
    <3>5. Busy
        BY <3>1, <3>2, <3>3, <3>4 DEF Busy
    <3> QED
        BY <2>1, <3>5
  <2>11. CASE WriteCalls(c) \/ Evictions(c)
    <3>1. Idle
        BY <2>11 DEF WriteCalls, fileWrite, refuseWrite, FileNUpdate, pageGet, fileWriteEnd, fileAppend,
                    fileAppendEnd, fileDelete, fileDeleteEnd, Evictions, fileDeleteFIFO, unlinkVictim, freeVictim, FileNDecrease, Idle, localVars, workVars, NoCall
    <3> QED
        BY <2>1, <3>1
  <2>12. CASE Faults(c)
    <3>1. UNCHANGED <<listVars, fileVars, pc, localVars>>
        BY <2>12 DEF Faults, Stops, StaleDeref, freeListed, TopFault, ReadFault, AppendFault, Fault
    <3>2. Idle \/ Busy
        BY <3>1 DEF Idle, Busy, listVars, fileVars, localVars, workVars
    <3> QED
        BY <2>1, <3>2
  <2>14. CASE freeLocked(c)
    <3>1. pc[c] \in {"freeVictim", "freeOwn"} /\ UNCHANGED <<pc, localVars>>
        BY <2>14 DEF freeLocked
    <3>2. Idle
        BY <3>1 DEF Idle, localVars
    <3> QED
        BY <2>1, <3>2
  <2> QED
      BY <1>2, <2>3, <2>4, <2>5, <2>6, <2>7, <2>13, <2>8, <2>9, <2>10, <2>11, <2>12, <2>14, HandlerIs
      DEF OpenCalls, ReadCalls
<1> QED
    BY <1>1, <1>2 DEF Next

(* All of this holds of the requests of one connection: nobody creates,    *)
(* removes or evicts anything between the steps of another handler.        *)
LEMMA AloneHolds ==
    ASSUME OneClient
    PROVE  Spec => [](/\ TypeOK /\ LockDiscipline /\ Asked /\ Entries /\ Unlinked
                      /\ InHand /\ Visit)
<1>1. OneCreator /\ TwoHands
    BY OneClient DEF OneClient, OneCreator, TwoHands
<1>2. Init => InHand /\ Visit /\ Listed
    BY DEF Init, StoreInit, InHand, Visit, Visits, Visiting, UsesPtr, NoCall, Listed, InTable, ToSet
<1>3. /\ TypeOK /\ LockDiscipline /\ Requests /\ Entries /\ Unique /\ Listed
      /\ [Next]_vars
      => Listed'
    BY <1>1, ListedStep
<1>4. TypeOK /\ LockDiscipline /\ Requests /\ Entries /\ InHand /\ [Next]_vars => InHand'
    BY OneClient, InHandStep DEF Requests
<1>5. TypeOK /\ Requests /\ Listed /\ Visit /\ [Next]_vars => Visit'
    BY OneClient, VisitStep DEF Requests
<1>6. Spec => [](TypeOK /\ LockDiscipline /\ Requests /\ Entries /\ Unique)
    BY <1>1, UniqueHolds
<1>7. Spec => []Unlinked
    BY <1>1, UnlinkedHolds
<1>8. Requests => Asked
    BY DEF Requests
<1> QED
    BY <1>2, <1>3, <1>4, <1>5, <1>6, <1>7, <1>8, PTL DEF Spec

(* readNFiles with N = 0 visits every file that is stored: fileNRead       *)
(* (workerFunctions.c:14) reads FStack->top (line 29) after the sections   *)
(* that compact and copy the stack, and with no other request in between   *)
(* it is the length of the copy, which has the name of every written file. *)
THEOREM ReadsEverything ==
    ASSUME OneClient
    PROVE  Spec => []ReadsAll
<1>1. TypeOK /\ Asked /\ Entries /\ Visit /\ WholeFile => ReadsAll
  <2> SUFFICES ASSUME TypeOK, Asked, Entries, Visit, WholeFile, NEW c \in Clients,
                      pc[c] = "nextFile", call[c].n = 0, seen[c] = 0
               PROVE  /\ \A f \in Written : abspath[f] \in ToSet(batch[c])
                      /\ want[c] = Len(batch[c])
      BY DEF ReadsAll
  <2>1. call[c].op = "readN"
      BY DEF Asked, OpsAt, ReadNPoints
  <2>2. batch[c] \in Seq(Names) /\ top \in Nat
      BY FileMemoryAssumption DEF TypeOK, LocalTypeOK, StoreTypeOK, StackMax
  <2>3. Len(batch[c]) = top /\ want[c] = top
      BY <2>1, <2>2, LenProperties DEF Visit, Visits, Visiting
  <2>4. ASSUME NEW f \in Written PROVE abspath[f] \in ToSet(batch[c])
    <3>1. f \in InTable /\ f \in FileIds /\ f \in Live /\ pages[f] # {}
        BY AsASet DEF Written, InTable, Live
    <3>2. Cardinality(pages[f]) # 0
        BY <3>1, CardOfPages, FS_EmptySet
    <3>3. size[f] > 0
        BY <3>1, <3>2, CardOfPages DEF WholeFile
    <3>4. InBatch(c, abspath[f])
        BY <2>1, <3>1, <3>3 DEF Visit, Visits, Visiting
    <3> QED
        BY <2>2, <3>4, LenProperties DEF InBatch, ToSet
  <2> QED
      BY <2>3, <2>4
<1> QED
    BY <1>1, AloneHolds, FilesAreWhole, PTL

(* Requests that come one after the other never use a freed record, free a *)
(* locked one, free one the table still leads to, or read past the end of  *)
(* the copy of the stack: fileNRead (workerFunctions.c:14) takes as many   *)
(* names off the copy as FStack->top says, and every record a handler has  *)
(* looked up is still in the table when it locks it.                       *)
THEOREM NoRacesAlone ==
    ASSUME OneClient
    PROVE  Spec => []NoRaceFault
<1>1. Init => NoRaceFault
    BY DEF NoRaceFault, Init, StoreInit
<1>2. /\ TypeOK /\ LockDiscipline /\ Asked /\ Entries /\ Unlinked /\ InHand /\ Visit
      /\ NoRaceFault /\ [Next]_vars
      => NoRaceFault'
  <2> SUFFICES ASSUME TypeOK, LockDiscipline, Asked, Entries, Unlinked, InHand, Visit,
                      NoRaceFault, [Next]_vars
               PROVE  NoRaceFault'
      OBVIOUS
  <2>1. ASSUME NEW c \in Clients, StaleDeref(c) PROVE NoRaceFault'
    <3>1. status' = "nullDeref" \/ (Dereferenced(c) # NULL /\ heap[Dereferenced(c)] = "free")
        BY <2>1 DEF StaleDeref, Fault
    <3>2. pc[c] \in UsesPtr \cup UsesVictim
        BY <2>1 DEF StaleDeref
    <3>3. Dereferenced(c) # NULL => heap[Dereferenced(c)] = "live"
        BY <3>2, AsASet DEF Dereferenced, UsesVictim, UsesPtr, InHand
    <3> QED
        BY <3>1, <3>3 DEF NoRaceFault
  <2>2. ASSUME NEW c \in Clients, freeListed(c) PROVE NoRaceFault'
    <3>1. /\ pc[c] \in {"freeVictim", "freeOwn"}
          /\ freeFault(Dereferenced(c)) = "danglingEntry"
        BY <2>2 DEF freeListed
    <3>2. Dereferenced(c) \in FileIds /\ c \in Freeing(Dereferenced(c))
        BY <3>1 DEF Dereferenced, UsesVictim, LockDiscipline, Freeing
    <3>3. Dereferenced(c) \notin InTable
        BY <3>2 DEF Unlinked, FreedAreOut
    <3>4. ~ Contains(table, Dereferenced(c))
      <4>1. DOMAIN table = 1 .. Len(table)
          BY LenProperties DEF TypeOK, StoreTypeOK
      <4> QED
          BY <3>3, <4>1 DEF Contains, InTable, ToSet
    <3> QED
        BY <3>1, <3>4 DEF freeFault
  <2>3. ASSUME NEW c \in Clients, ReadFault(c) PROVE NoRaceFault'
    <3>1. CASE At(c, "nextFile") /\ moreFiles(c) /\ batch[c] = <<>>
      <4>1. call[c].op = "readN"
          BY <3>1 DEF Asked, OpsAt, ReadNPoints, At
      <4>2. Len(batch[c]) + seen[c] = top
          BY <3>1, <4>1 DEF Visit, Visits, Visiting, At
      <4>3. Len(batch[c]) = 0 /\ seen[c] \in Nat /\ top \in Nat
          BY <3>1, FileMemoryAssumption DEF TypeOK, LocalTypeOK, StoreTypeOK, StackMax
      <4> QED
          BY <3>1, <4>2, <4>3 DEF moreFiles
    <3>2. CASE Fault("nullDeref")
        BY <3>2 DEF Fault, NoRaceFault
    <3> QED
        BY <2>3, <3>1, <3>2 DEF ReadFault
  <2>4. ASSUME NEW c \in Clients, TopFault(c) \/ AppendFault(c) PROVE NoRaceFault'
      BY <2>4 DEF TopFault, topFault, AppendFault, Fault, NoRaceFault
  <2>5. ASSUME NEW c \in Clients, Request(c) \/ Handler(c), ~Faults(c) PROVE NoRaceFault'
      BY <2>5, StatusFrame, NotLockedAlone, OneClient DEF NoRaceFault
  <2>6. CASE UNCHANGED vars
      BY <2>6 DEF NoRaceFault, vars, storeVars
  <2> QED
      BY <2>1, <2>2, <2>3, <2>4, <2>5, <2>6, HandlerIs DEF Next, Faults, Stops
<1> QED
    BY <1>1, <1>2, AloneHolds, PTL DEF Spec

(* Before fileNRead copies the stack no name is on it twice, and then none *)
(* is in the copy.                                                         *)
CopyOnce ==
    \A c \in Clients :
        /\ pc[c] = "copy" =>
               \A i, j \in 0 .. top - 1 : stack[i] # NULL /\ stack[i] = stack[j] => i = j
        /\ IsInjective(batch[c])

(* fileStackDefrag leaves no name twice.                                   *)
LEMMA DefragOnce ==
    ASSUME TypeOK, fileStackDefrag
    PROVE  \A i, j \in 0 .. top' - 1 : stack'[i] # NULL /\ stack'[i] = stack'[j] => i = j
<1>1. /\ stack' = [m \in DOMAIN stack |->
                     IF \E k \in kept : Cardinality(Before(k)) = m
                     THEN stack[CHOOSE k \in kept : Cardinality(Before(k)) = m] ELSE NULL]
      /\ top' = Cardinality(kept)
    BY DEF fileStackDefrag, Before
<1>2. DOMAIN stack = 0 .. StackMax - 1 /\ StackMax \in Nat
    BY FileMemoryAssumption DEF StackMax, TypeOK, StoreTypeOK
<1>k. kept \in SUBSET (0 .. StackMax - 1)
    BY <1>2 DEF kept
<1>3. top' \in Nat /\ top' <= StackMax
  <2>1. IsFiniteSet(0 .. StackMax - 1) /\ Cardinality(0 .. StackMax - 1) = StackMax
      BY <1>2, FS_Interval
  <2>2. IsFiniteSet(kept) /\ Cardinality(kept) <= StackMax
      BY <1>k, <2>1, FS_Subset
  <2>3. Cardinality(kept) \in Nat
      BY <2>2, FS_CardinalityType
  <2> QED
      BY <1>1, <2>2, <2>3
<1>4. \A m \in 0 .. top' - 1 : m \in DOMAIN stack
  <2>1. \A t, n \in Nat : t <= n => 0 .. t - 1 \subseteq 0 .. n - 1
      OBVIOUS
  <2>2. 0 .. top' - 1 \subseteq 0 .. StackMax - 1
      BY <1>2, <1>3, <2>1
  <2> QED
      BY <1>2, <2>2
<1>5. ASSUME NEW m \in DOMAIN stack, stack'[m] # NULL
      PROVE  \E k \in kept : Cardinality(Before(k)) = m /\ stack'[m] = stack[k]
  <2>1. /\ \E k \in kept : Cardinality(Before(k)) = m
        /\ stack'[m] = stack[CHOOSE k \in kept : Cardinality(Before(k)) = m]
      BY <1>1, <1>5
  <2> QED
      BY <2>1
<1> SUFFICES ASSUME NEW i \in 0 .. top' - 1, NEW j \in 0 .. top' - 1,
                    stack'[i] # NULL, stack'[i] = stack'[j]
             PROVE  i = j
    OBVIOUS
<1>6. PICK k \in kept : Cardinality(Before(k)) = i /\ stack'[i] = stack[k]
    BY <1>4, <1>5
<1>7. PICK l \in kept : Cardinality(Before(l)) = j /\ stack'[j] = stack[l]
    BY <1>4, <1>5
<1>8. k \in Int /\ l \in Int /\ k >= 0 /\ l >= 0 /\ stack[k] = stack[l]
  <2>1. k \in 0 .. StackMax - 1 /\ l \in 0 .. StackMax - 1
      BY <1>k
  <2>2. stack[k] = stack[l]
      BY <1>6, <1>7
  <2> QED
      BY <2>1, <2>2
<1>9. ~(k < l) /\ ~(l < k)
  <2>1. k < l => k \in 0 .. l - 1
      BY <1>8
  <2>2. l < k => l \in 0 .. k - 1
      BY <1>8
  <2> QED
      BY <1>8, <2>1, <2>2 DEF kept
<1> QED
    BY <1>6, <1>7, <1>8, <1>9

(* Only fileNRead comes to the copy.                                       *)
LEMMA ComesToCopy ==
    ASSUME TypeOK, NEW c \in Clients, Request(c) \/ Handler(c), pc'[c] = "copy"
    PROVE  fileNRead(c) \/ (pc[c] = "copy" /\ UNCHANGED <<stack, top>>)
<1>0. pc \in [Clients -> Labels]
    BY DEF TypeOK, LocalTypeOK
<1> USE <1>0 DEF At, Goto, Return, localVars
<1>1. CASE Request(c)
    BY <1>1 DEF Request
<1>2. CASE OpenCalls(c)
    BY <1>2 DEF OpenCalls, fileSearch, fileInit, fileSearchSilent, fileOpen, fileClose,
                fileOpenCheck, Refuse
<1>3. CASE ReadCalls(c)
    BY <1>3 DEF ReadCalls, sendFile, sendFileEnd, arrayRandomPermutation, fileNReadAll,
                fileNReadNext, fileNReadName
<1>4. CASE WriteCalls(c)
    BY <1>4 DEF WriteCalls, fileWrite, refuseWrite, FileNUpdate, pageGet, fileWriteEnd, fileAppend,
                fileAppendEnd, fileDelete, fileDeleteEnd
<1>5. CASE Evictions(c)
    BY <1>5 DEF Evictions, fileDeleteFIFO, unlinkVictim, freeVictim, FileNDecrease
<1>6. CASE Faults(c)
    BY <1>6 DEF Faults, Stops, StaleDeref, freeListed, TopFault, ReadFault, AppendFault, Fault, listVars
<1>7. CASE freeLocked(c)
    BY <1>7 DEF freeLocked
<1> QED
    BY <1>1, <1>2, <1>3, <1>4, <1>5, <1>6, <1>7, HandlerIs

(* A readNFiles whose requests nobody overtakes visits no file twice, also *)
(* when the FileStack has its name twice (written, removed, created and    *)
(* written again): fileStackDefrag (FileMemory.c:314) keeps one of the two *)
(* and fileNRead (workerFunctions.c:14) takes each entry of the copy once. *)
THEOREM ReadsEachOnce ==
    ASSUME OneClient
    PROVE  Spec => []ReadsOnce
<1>1. Init => CopyOnce
    BY DEF Init, CopyOnce, IsInjective
<1>2. TypeOK /\ CopyOnce /\ [Next]_vars => CopyOnce'
  <2> SUFFICES ASSUME TypeOK, CopyOnce, [Next]_vars PROVE CopyOnce'
      OBVIOUS
  <2>0. batch \in [Clients -> Seq(Names)] /\ top \in Nat
      BY FileMemoryAssumption DEF TypeOK, LocalTypeOK, StoreTypeOK, StackMax
  <2>1. ASSUME NEW c \in Clients, Request(c) \/ Handler(c)
        PROVE  /\ pc'[c] = "copy" =>
                      \A i, j \in 0 .. top' - 1 : stack'[i] # NULL /\ stack'[i] = stack'[j] => i = j
               /\ IsInjective(batch'[c])
    <3>1. ASSUME pc'[c] = "copy", NEW i \in 0 .. top' - 1, NEW j \in 0 .. top' - 1,
                 stack'[i] # NULL, stack'[i] = stack'[j]
          PROVE  i = j
      <4>1. CASE fileNRead(c)
          BY <3>1, <4>1, DefragOnce DEF fileNRead
      <4>2. CASE pc[c] = "copy" /\ UNCHANGED <<stack, top>>
          BY <3>1, <4>2 DEF CopyOnce
      <4> QED
          BY <2>1, <3>1, <4>1, <4>2, ComesToCopy
    <3>2. CASE arrayRandomPermutation(c)
      <4>1. /\ batch'[c] = [i \in 1 .. top |-> stack[i - 1]] /\ pc[c] = "copy"
            /\ \A i \in 0 .. top - 1 : stack[i] # NULL
          BY <2>0, <3>2 DEF arrayRandomPermutation, At
      <4>2. \A i, j \in 1 .. top : i - 1 \in 0 .. top - 1 /\ j - 1 \in 0 .. top - 1 /\ (i - 1 = j - 1 => i = j)
          BY <2>0
      <4>3. \A i, j \in 1 .. top : stack[i - 1] = stack[j - 1] => i = j
          BY <4>1, <4>2 DEF CopyOnce
      <4>4. IsInjective(batch'[c])
          BY <4>1, <4>3 DEF IsInjective
      <4> QED
          BY <3>1, <4>4
    <3>3. CASE fileNReadNext(c)
      <4>1. CASE \E k \in 1 .. Len(batch[c]) : batch'[c] = RemoveAt(batch[c], k)
          BY <2>0, <3>1, <4>1, RemoveAtInjective DEF CopyOnce
      <4>2. CASE batch'[c] = <<>>
          BY <3>1, <4>2 DEF IsInjective
      <4> QED
          BY <2>0, <3>3, <4>1, <4>2 DEF fileNReadNext, Return
    <3>4. CASE ~arrayRandomPermutation(c) /\ ~fileNReadNext(c)
      <4>1. batch'[c] = batch[c] \/ batch'[c] = <<>>
        <5> USE <2>0 DEF Return, localVars, workVars
        <5>1. CASE Request(c)
            BY <5>1 DEF Request
        <5>2. CASE OpenCalls(c)
            BY <5>2 DEF OpenCalls, fileSearch, fileInit, fileSearchSilent, fileOpen, fileClose,
                        fileOpenCheck, Refuse
        <5>3. CASE ReadCalls(c)
            BY <3>4, <5>3 DEF ReadCalls, sendFile, sendFileEnd, fileNRead, fileNReadAll, fileNReadName
        <5>4. CASE WriteCalls(c)
            BY <5>4 DEF WriteCalls, fileWrite, refuseWrite, FileNUpdate, pageGet, fileWriteEnd,
                        fileAppend, fileAppendEnd, fileDelete, fileDeleteEnd
        <5>5. CASE Evictions(c)
            BY <5>5 DEF Evictions, fileDeleteFIFO, unlinkVictim, freeVictim, FileNDecrease
        <5>6. CASE Faults(c)
            BY <5>6 DEF Faults, Stops, StaleDeref, freeListed, TopFault, ReadFault, AppendFault, Fault
        <5>7. CASE freeLocked(c)
            BY <5>7 DEF freeLocked
        <5> QED
            BY <2>1, <5>1, <5>2, <5>3, <5>4, <5>5, <5>6, <5>7, HandlerIs
      <4>2. IsInjective(batch'[c])
          BY <4>1 DEF IsInjective, CopyOnce
      <4> QED
          BY <3>1, <4>2
    <3> QED
        BY <3>2, <3>3, <3>4
  <2>2. CASE UNCHANGED vars
      BY <2>2 DEF vars, storeVars, listVars, localVars, CopyOnce
  <2>3. \A c, d \in Clients : c = d
      BY OneClient DEF OneClient
  <2> QED
      BY <2>1, <2>2, <2>3 DEF Next, CopyOnce
<1>3. CopyOnce => ReadsOnce
    BY DEF CopyOnce, ReadsOnce
<1> QED
    BY <1>1, <1>2, <1>3, AloneHolds, PTL DEF Spec
=============================================================================
