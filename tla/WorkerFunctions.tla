-------------------------- MODULE WorkerFunctions --------------------------
(***************************************************************************)
(* The request handlers (workerFunctions.c) running over the shared store, *)
(* together with the eviction code they call (pageGet, FileNUpdate,        *)
(* fileDeleteFIFO of FileMemory.c) and the API calls of the clients that   *)
(* start them (API.c).                                                     *)
(*                                                                         *)
(* A connection is served by one worker at a time and a client waits for   *)
(* its answer, so a handler is named by its client: pc[c] is where the     *)
(* handler of c's request stands.  An action runs from one point where the *)
(* handler may have to wait for a mutex to the next.  Reading from and     *)
(* writing to the socket changes nothing shared and is part of the step.   *)
(***************************************************************************)
EXTENDS FileMemory

CONSTANTS
    Calls,       \* Calls[c]: the API calls client c may make
    MaxCalls     \* bound: MaxCalls[c] is how many calls client c makes

Ops == {"create", "open", "close", "read", "write", "append", "remove", "readN"}

(* n is the number of pages a write needs or an append adds, and the N of  *)
(* readNFiles.                                                             *)
Call == [op : Ops, name : Names \cup {NULL}, n : Nat]

ASSUME WorkerAssumption ==
    /\ Calls \in [Clients -> SUBSET Call]
    /\ \A c \in Clients : \A r \in Calls[c] : r.op # "readN" => r.name # NULL
    /\ MaxCalls \in [Clients -> Nat]

VARIABLES
    pc,          \* where the handler serving c stands
    call,        \* the API call of c being served
    ptr,         \* file_req / rnd_file: the record the handler works on
    victim,      \* to_del of fileDeleteFIFO
    batch,       \* stackRandOrd: the names fileNRead has still to visit
    want,        \* file_num in fileNRead
    seen,        \* i in the loop of fileNRead
    calls        \* how many calls c has made

localVars == <<call, ptr, victim, batch, want, seen, calls>>
workVars == <<batch, want, seen>>
vars == <<storeVars, pc, localVars>>

NoCall == [op |-> "open", name |-> NULL, n |-> 0]

(* Points at which the handler is about to dereference its record.         *)
UsesPtr == {"openAdd", "closeDel", "openCheck", "refuse", "sendLock",
            "writeLock", "appendLock", "deleteLock", "freeOwn", "nameLock"}
UsesVictim == {"lockVictim", "freeVictim"}
(* Points at which the handler holds the mutex of its record for writing.  *)
Writing == {"fileN", "pageGet", "evict", "lockVictim", "freeVictim", "decrease",
            "stackAdd", "selfLock", "appendEnd"}
Labels == UsesPtr \cup UsesVictim \cup Writing \cup
          {"idle", "fileSearch", "fileInit", "lookup", "sendUnlock", "defrag", "copy", "readTop", "nextFile"}

LocalTypeOK ==
    /\ pc \in [Clients -> Labels]
    /\ call \in [Clients -> Call]
    /\ ptr \in [Clients -> FileIds \cup {NULL}]
    /\ victim \in [Clients -> FileIds \cup {NULL}]
    /\ batch \in [Clients -> Seq(Names)]
    /\ want \in [Clients -> Int]
    /\ seen \in [Clients -> Nat]
    /\ calls \in [Clients -> Nat]

TypeOK == StoreTypeOK /\ LocalTypeOK

Init ==
    /\ StoreInit
    /\ pc = [c \in Clients |-> "idle"]
    /\ call = [c \in Clients |-> NoCall]
    /\ ptr = [c \in Clients |-> NULL]
    /\ victim = [c \in Clients |-> NULL]
    /\ batch = [c \in Clients |-> <<>>]
    /\ want = [c \in Clients |-> 0]
    /\ seen = [c \in Clients |-> 0]
    /\ calls = [c \in Clients |-> 0]

-----------------------------------------------------------------------------

At(c, l) == status = "running" /\ pc[c] = l
Goto(c, l) == pc' = [pc EXCEPT ![c] = l]

(* The handler returns; its locals are gone.                               *)
Return(c) ==
    /\ pc' = [pc EXCEPT ![c] = "idle"]
    /\ call' = [call EXCEPT ![c] = NoCall]
    /\ ptr' = [ptr EXCEPT ![c] = NULL]
    /\ victim' = [victim EXCEPT ![c] = NULL]
    /\ batch' = [batch EXCEPT ![c] = <<>>]
    /\ want' = [want EXCEPT ![c] = 0]
    /\ seen' = [seen EXCEPT ![c] = 0]
    /\ UNCHANGED calls

Fault(why) ==
    /\ status' = why
    /\ UNCHANGED <<listVars, fileVars, lockVars, pc, localVars>>

(* A client that is not waiting makes an API call.                         *)
Request(c) ==
    /\ At(c, "idle")
    /\ calls[c] < MaxCalls[c]
    /\ \E r \in Calls[c] :
        /\ call' = [call EXCEPT ![c] = r]
        /\ Goto(c, CASE r.op = "create" -> "fileSearch"
                     [] r.op = "readN"  -> "defrag"
                     [] OTHER           -> "lookup")
    /\ calls' = [calls EXCEPT ![c] = @ + 1]
    /\ UNCHANGED <<storeVars, ptr, victim, workVars>>

-----------------------------------------------------------------------------
(* openFile with O_CREATE: ask whether the name exists, if not ask to      *)
(* initialise it, then open it; three requests of one API call.            *)

fileSearchIgnored(c) ==                               \* mutant: EEXIST ignored
    /\ At(c, "fileSearch")
    /\ Goto(c, "fileInit")
    /\ UNCHANGED <<storeVars, localVars>>
fileSearch(c) ==
    /\ At(c, "fileSearch")
    /\ \/ /\ Stored(call[c].name)              \* EEXIST: openFile gives up
          /\ Return(c)
       \/ /\ ~Stored(call[c].name)
          /\ Goto(c, "fileInit")
          /\ UNCHANGED localVars
    /\ UNCHANGED storeVars

(* An address malloc may return: free, and known to no thread.             *)
Fresh(f) == heap[f] = "free" /\ \A c \in Clients : ptr[c] # f /\ victim[c] # f

(* fileInit adds a record without looking for an earlier one.              *)
fileInit(c) ==
    /\ At(c, "fileInit")
    /\ \E f \in FileIds :
        /\ Fresh(f)
        /\ table' = <<f>> \o table
        /\ heap' = [heap EXCEPT ![f] = "live"]
        /\ abspath' = [abspath EXCEPT ![f] = call[c].name]
        /\ size' = [size EXCEPT ![f] = 0]
        /\ pages' = [pages EXCEPT ![f] = {}]
        /\ opened' = [opened EXCEPT ![f] = [d \in Clients |-> 0]]
        /\ mutex' = [mutex EXCEPT ![f] = NULL]
    /\ Goto(c, "lookup")
    /\ UNCHANGED <<stack, top, freePages, file_n, lockVars, status, localVars>>

(* fileSearchSilent.  fileWrite and fileAppend go on to lock the record    *)
(* even when there is none.                                                *)
fileSearchSilent(c) ==
    /\ At(c, "lookup")
    /\ LET f == hashTbSearch(call[c].name)
           op == call[c].op
       IN  \/ /\ f = NULL
              /\ op \notin {"write", "append"}
              /\ Return(c)
           \/ /\ f # NULL \/ op \in {"write", "append"}
              /\ ptr' = [ptr EXCEPT ![c] = f]
              /\ Goto(c, IF f = NULL THEN "refuse"
                         ELSE CASE op \in {"create", "open"} -> "openAdd"
                                [] op = "close" -> "closeDel"
                                [] OTHER -> "openCheck")
              /\ UNCHANGED <<call, victim, workVars, calls>>
    /\ UNCHANGED storeVars

(* The rest of fileOpen: the pid is added, once more if it is there.       *)
fileOpen(c) ==
    /\ At(c, "openAdd")
    /\ CanLock(ptr[c])
    /\ opened' = [opened EXCEPT ![ptr[c]][c] = @ + 1]
    /\ Return(c)
    /\ UNCHANGED <<listVars, heap, abspath, size, pages, mutex, lockVars, status>>

(* The rest of fileClose.                                                  *)
fileClose(c) ==
    /\ At(c, "closeDel")
    /\ CanLock(ptr[c])
    /\ opened' = clientPidDelete(ptr[c], c)
    /\ Return(c)
    /\ UNCHANGED <<listVars, heap, abspath, size, pages, mutex, lockVars, status>>

(* The rest of fileOpenCheck: is c among the clients that opened the file? *)
hasOpenAny(f, c) == \E d \in Clients : opened[f][d] > 0   \* mutant: is anybody?
hasOpen(f, c) == opened[f][c] > 0

fileOpenCheck(c) ==
    /\ At(c, "openCheck")
    /\ CanLock(ptr[c])
    /\ \/ /\ hasOpen(ptr[c], c)
          /\ Goto(c, CASE call[c].op = "read"   -> "sendLock"
                       [] call[c].op = "write"  -> "writeLock"
                       [] call[c].op = "append" -> "appendLock"
                       [] OTHER                 -> "deleteLock")
          /\ UNCHANGED localVars
       \/ /\ ~hasOpen(ptr[c], c)              \* EPERM
          /\ call[c].op \in {"write", "append"}
          /\ Goto(c, "refuse")
          /\ UNCHANGED localVars
       \/ /\ ~hasOpen(ptr[c], c)
          /\ call[c].op \in {"read", "remove"}
          /\ Return(c)
    /\ UNCHANGED storeVars

(* fileWrite and fileAppend with an error: lock, answer, unlock.           *)
Refuse(c) ==
    /\ At(c, "refuse")
    /\ CanLock(ptr[c])
    /\ Return(c)
    /\ UNCHANGED storeVars

-----------------------------------------------------------------------------
(* sendFile, for fileRead and for each file of fileNRead: the record is    *)
(* locked while its size and pages go to the client.                       *)

sendFile(c) ==
    /\ At(c, "sendLock")
    /\ CanLock(ptr[c])
    /\ mutex' = [mutex EXCEPT ![ptr[c]] = c]
    /\ Goto(c, "sendUnlock")
    /\ UNCHANGED <<listVars, heap, abspath, size, pages, opened, lockVars, status, localVars>>

sendFileEnd(c) ==
    /\ At(c, "sendUnlock")
    /\ mutex' = [mutex EXCEPT ![ptr[c]] = NULL]
    /\ \/ /\ call[c].op = "read"
          /\ Return(c)
       \/ /\ call[c].op = "readN"
          /\ Goto(c, "nextFile")
          /\ ptr' = [ptr EXCEPT ![c] = NULL]
          /\ UNCHANGED <<call, victim, workVars, calls>>
    /\ UNCHANGED <<listVars, heap, abspath, size, pages, opened, lockVars, status>>

-----------------------------------------------------------------------------
(* fileWrite from its lock of the record on.  It is refused with EEXIST    *)
(* when the file has pages and with EFBIG when it exceeds the memory.      *)

writeRefused(f, n) == pages[f] # {} \/ n > Cardinality(Pages)

refuseWriteLocked(c) ==                               \* mutant: return without unlock
    /\ Return(c)
    /\ mutex' = [mutex EXCEPT ![ptr[c]] = c]
    /\ UNCHANGED size
refuseWrite(c) == Return(c) /\ UNCHANGED <<size, mutex>>

fileWrite(c) ==
    /\ At(c, "writeLock")
    /\ CanLock(ptr[c])
    /\ \/ /\ writeRefused(ptr[c], call[c].n)
          /\ refuseWrite(c)
       \/ /\ ~writeRefused(ptr[c], call[c].n)
          /\ mutex' = [mutex EXCEPT ![ptr[c]] = c]
          /\ size' = [size EXCEPT ![ptr[c]] = call[c].n]
          /\ Goto(c, "fileN")
          /\ UNCHANGED localVars
    /\ UNCHANGED <<listVars, heap, abspath, pages, opened, lockVars, status>>

(* FileNUpdate: count the file, or with file_max reached go and evict one  *)
(* with file_n_mutex held.                                                 *)
fileMaxPassed == file_n > c_file_max                  \* mutant: off by one
fileMaxAlmost == file_n + 1 >= c_file_max             \* mutant: one too early
fileMaxReached == file_n >= c_file_max

FileNUpdate(c) ==
    /\ At(c, "fileN")
    /\ file_n_mutex = NULL
    /\ \/ /\ fileMaxReached
          /\ file_n_mutex' = c
          /\ Goto(c, "evict")
          /\ UNCHANGED file_n
       \/ /\ ~fileMaxReached
          /\ file_n' = file_n + 1
          /\ Goto(c, "pageGet")
          /\ UNCHANGED file_n_mutex
    /\ UNCHANGED <<table, stack, top, freePages, fileVars, filestack_mutex, status, localVars>>

(* The name fileStackGetTop is told to spare: none from FileNUpdate (which *)
(* holds file_n_mutex), the file's own from pageGet.                       *)
evictKey(c) == IF file_n_mutex = c THEN NULL ELSE call[c].name

(* fileDeleteFIFO up to its wait for the victim's mutex.  With an empty    *)
(* stack it gives up; FileNUpdate returns with the file uncounted and      *)
(* pageGet tries again.                                                    *)
fileDeleteFIFO(c) ==
    /\ At(c, "evict")
    /\ filestack_mutex = NULL
    /\ \/ /\ top = 0
          /\ file_n_mutex' = IF file_n_mutex = c THEN NULL ELSE file_n_mutex
          /\ Goto(c, "pageGet")
          /\ UNCHANGED <<stack, top, filestack_mutex, victim>>
       \/ /\ top > 0
          /\ topFault(evictKey(c)) = "none"
          /\ filestack_mutex' = c
          /\ victim' = [victim EXCEPT ![c] =
                            hashTbSearch(stack[victimIndex(evictKey(c))])]
          /\ fileStackTake(evictKey(c))
          /\ Goto(c, "lockVictim")
          /\ UNCHANGED file_n_mutex
    /\ UNCHANGED <<table, freePages, file_n, fileVars, status, call, ptr, workVars, calls>>

(* With the victim's mutex: its entry leaves the table, all is unlocked.   *)
unlinkVictim(c) ==
    /\ At(c, "lockVictim")
    /\ CanLock(victim[c])
    /\ table' = hashTbRemove(abspath[victim[c]])
    /\ filestack_mutex' = NULL
    /\ Goto(c, "freeVictim")
    /\ UNCHANGED <<stack, top, freePages, file_n, fileVars, file_n_mutex, status, localVars>>

(* fileFree of the victim; FileNUpdate then unlocks file_n_mutex, pageGet  *)
(* calls FileNDecrease.                                                    *)
freeVictim(c) ==
    /\ At(c, "freeVictim")
    /\ heap[victim[c]] = "live"
    /\ freeFault(victim[c]) = "none"
    /\ fileFree(victim[c])
    /\ victim' = [victim EXCEPT ![c] = NULL]
    /\ \/ /\ file_n_mutex = c
          /\ file_n_mutex' = NULL
          /\ Goto(c, "pageGet")
       \/ /\ file_n_mutex # c
          /\ Goto(c, "decrease")
          /\ UNCHANGED file_n_mutex
    /\ UNCHANGED <<table, stack, top, file_n, filestack_mutex, status,
                   call, ptr, workVars, calls>>

FileNDecrease(c) ==
    /\ At(c, "decrease")
    /\ file_n_mutex = NULL
    /\ file_n' = file_n - 1
    /\ Goto(c, "pageGet")
    /\ UNCHANGED <<table, stack, top, freePages, fileVars, lockVars, status, localVars>>

(* The loop of filePagesInitialize and filePagesRenew around pageGet.      *)
MissingTwo(f) == size[f] > Cardinality(pages[f]) + 1  \* mutant: off by one
Missing(f) == size[f] > Cardinality(pages[f])

pageGet(c) ==
    /\ At(c, "pageGet")
    /\ \/ /\ Missing(ptr[c])
          /\ \E p \in freePages :
                /\ freePages' = freePages \ {p}
                /\ pages' = [pages EXCEPT ![ptr[c]] = @ \cup {p}]
          /\ UNCHANGED pc
       \/ /\ Missing(ptr[c])
          /\ freePages = {}
          /\ Goto(c, "evict")
          /\ UNCHANGED <<freePages, pages>>
       \/ /\ ~Missing(ptr[c])
          /\ Goto(c, IF call[c].op = "write" THEN "stackAdd" ELSE "appendEnd")
          /\ UNCHANGED <<freePages, pages>>
    /\ UNCHANGED <<table, stack, top, file_n, heap, abspath, size, opened, mutex,
                   lockVars, status, localVars>>

(* The end of fileWrite: fileStackAdd, and the record is unlocked.  On a   *)
(* full stack fileStackAdd calls fileStackDefrag, which waits for the      *)
(* filestack_mutex its caller holds.                                       *)
fileWriteEnd(c) ==
    /\ At(c, "stackAdd")
    /\ filestack_mutex = NULL
    /\ \/ /\ top = StackMax
          /\ filestack_mutex' = c
          /\ Goto(c, "selfLock")
          /\ UNCHANGED <<stack, top, mutex, localVars>>
       \/ /\ top < StackMax
          /\ fileStackAdd(abspath[ptr[c]])
          /\ mutex' = [mutex EXCEPT ![ptr[c]] = NULL]
          /\ Return(c)
          /\ UNCHANGED filestack_mutex
    /\ UNCHANGED <<table, freePages, file_n, heap, abspath, size, pages, opened,
                   file_n_mutex, status>>

-----------------------------------------------------------------------------
(* fileAppend from its lock of the record on: refused beyond the memory,   *)
(* otherwise n pages more.                                                 *)

fileAppend(c) ==
    /\ At(c, "appendLock")
    /\ CanLock(ptr[c])
    /\ \/ /\ size[ptr[c]] + call[c].n > Cardinality(Pages)
          /\ Return(c)
          /\ UNCHANGED <<size, mutex>>
       \/ /\ size[ptr[c]] + call[c].n <= Cardinality(Pages)
          /\ mutex' = [mutex EXCEPT ![ptr[c]] = c]
          /\ size' = [size EXCEPT ![ptr[c]] = @ + call[c].n]
          /\ Goto(c, "pageGet")
          /\ UNCHANGED localVars
    /\ UNCHANGED <<listVars, heap, abspath, pages, opened, lockVars, status>>

(* The bytes go first to page old_pages-1; a file that had no page makes   *)
(* that pages[-1].                                                         *)
noOldPage(c) == size[ptr[c]] = call[c].n

fileAppendEnd(c) ==
    /\ At(c, "appendEnd")
    /\ ~noOldPage(c)
    /\ mutex' = [mutex EXCEPT ![ptr[c]] = NULL]
    /\ Return(c)
    /\ UNCHANGED <<listVars, heap, abspath, size, pages, opened, lockVars, status>>

-----------------------------------------------------------------------------
(* fileDelete from its lock of the record on: the first entry of that name *)
(* leaves the table, the record is unlocked, then freed.                   *)

fileDelete(c) ==
    /\ At(c, "deleteLock")
    /\ CanLock(ptr[c])
    /\ table' = hashTbRemove(abspath[ptr[c]])
    /\ Goto(c, "freeOwn")
    /\ UNCHANGED <<stack, top, freePages, file_n, fileVars, lockVars, status, localVars>>

fileDeleteEnd(c) ==
    /\ At(c, "freeOwn")
    /\ heap[ptr[c]] = "live"
    /\ freeFault(ptr[c]) = "none"
    /\ fileFree(ptr[c])
    /\ Return(c)
    /\ UNCHANGED <<table, stack, top, file_n, lockVars, status>>

-----------------------------------------------------------------------------
(* fileNRead.                                                              *)

fileNRead(c) ==
    /\ At(c, "defrag")
    /\ filestack_mutex = NULL
    /\ fileStackDefrag
    /\ Goto(c, "copy")
    /\ UNCHANGED <<table, freePages, file_n, fileVars, lockVars, status, localVars>>

(* The copy is made in a second critical section.  Its random order is     *)
(* left to fileNReadNext, which takes any name that is left.               *)
arrayRandomPermutation(c) ==
    /\ At(c, "copy")
    /\ filestack_mutex = NULL
    /\ \A i \in 0 .. top - 1 : stack[i] # NULL
    /\ batch' = [batch EXCEPT ![c] = [i \in 1 .. top |-> stack[i - 1]]]
    /\ want' = [want EXCEPT ![c] = call[c].n]
    /\ Goto(c, IF call[c].n = 0 THEN "readTop" ELSE "nextFile")
    /\ UNCHANGED <<storeVars, call, ptr, victim, seen, calls>>

(* N = 0 stands for all files: FStack->top, read without the mutex.        *)
fileNReadButOne(c) ==                                 \* mutant: off by one
    /\ At(c, "readTop")
    /\ want' = [want EXCEPT ![c] = top - 1]
    /\ Goto(c, "nextFile")
    /\ UNCHANGED <<storeVars, call, ptr, victim, batch, seen, calls>>
fileNReadAll(c) ==
    /\ At(c, "readTop")
    /\ want' = [want EXCEPT ![c] = top]
    /\ Goto(c, "nextFile")
    /\ UNCHANGED <<storeVars, call, ptr, victim, batch, seen, calls>>

(* The loop condition reads FStack->top again, without the mutex.          *)
moreFiles(c) == seen[c] < want[c] /\ seen[c] < top

fileNReadNext(c) ==
    /\ At(c, "nextFile")
    /\ \/ /\ ~moreFiles(c)
          /\ Return(c)
       \/ /\ moreFiles(c)
          /\ \E k \in 1 .. Len(batch[c]) :
                LET f == hashTbSearch(batch[c][k])
                IN  /\ batch' = [batch EXCEPT ![c] = RemoveAt(@, k)]
                    /\ ptr' = [ptr EXCEPT ![c] = f]
                    /\ Goto(c, IF f = NULL THEN "nextFile" ELSE "nameLock")
          /\ seen' = [seen EXCEPT ![c] = @ + 1]
          /\ UNCHANGED <<call, victim, want, calls>>
    /\ UNCHANGED storeVars

fileNReadName(c) ==
    /\ At(c, "nameLock")
    /\ CanLock(ptr[c])
    /\ Goto(c, "sendLock")
    /\ UNCHANGED <<storeVars, localVars>>

-----------------------------------------------------------------------------
(* Undefined behaviour: the model stops where the code has none defined,   *)
(* after the step that reaches it.                                         *)

Dereferenced(c) == IF pc[c] \in UsesVictim THEN victim[c] ELSE ptr[c]

StaleDeref(c) ==
    /\ status = "running"
    /\ pc[c] \in UsesPtr \cup UsesVictim
    /\ \/ /\ Dereferenced(c) = NULL
          /\ Fault("nullDeref")
       \/ /\ Dereferenced(c) # NULL
          /\ heap[Dereferenced(c)] = "free"
          /\ Fault("useAfterFree")

(* A record the table still leads to is freed.                             *)
freeListed(c) ==
    /\ status = "running"
    /\ pc[c] \in {"freeVictim", "freeOwn"}
    /\ heap[Dereferenced(c)] = "live"
    /\ freeFault(Dereferenced(c)) = "danglingEntry"
    /\ Fault("danglingEntry")

(* A record somebody has locked since it was unlinked is freed all the     *)
(* same: its pages are in the list again and its memory is gone, while the *)
(* other handler is sending it or writing to it.                           *)
freeLocked(c) ==
    /\ status = "running"
    /\ pc[c] \in {"freeVictim", "freeOwn"}
    /\ heap[Dereferenced(c)] = "live"
    /\ freeFault(Dereferenced(c)) = "destroyLocked"
    /\ fileFree(Dereferenced(c))
    /\ status' = "destroyLocked"
    /\ UNCHANGED <<table, stack, top, file_n, lockVars, pc, localVars>>

FreeFault(c) ==
    IF Contains(table, Dereferenced(c)) THEN freeListed(c) ELSE freeLocked(c)

TopFault(c) ==
    /\ At(c, "evict")
    /\ filestack_mutex = NULL
    /\ top > 0
    /\ topFault(evictKey(c)) # "none"
    /\ Fault(topFault(evictKey(c)))

(* fileNRead copies a hole, or runs past the end of the copy.              *)
ReadFault(c) ==
    \/ /\ At(c, "copy")
       /\ filestack_mutex = NULL
       /\ \E i \in 0 .. top - 1 : stack[i] = NULL
       /\ Fault("nullDeref")
    \/ /\ At(c, "nextFile")
       /\ moreFiles(c)
       /\ batch[c] = <<>>
       /\ Fault("overread")

AppendFault(c) == At(c, "appendEnd") /\ noOldPage(c) /\ Fault("badIndex")

-----------------------------------------------------------------------------

OpenCalls(c) == fileSearch(c) \/ fileInit(c) \/ fileSearchSilent(c) \/ fileOpen(c)
                \/ fileClose(c) \/ fileOpenCheck(c) \/ Refuse(c)
ReadCalls(c) == sendFile(c) \/ sendFileEnd(c) \/ fileNRead(c) \/ arrayRandomPermutation(c)
                \/ fileNReadAll(c) \/ fileNReadNext(c) \/ fileNReadName(c)
WriteCalls(c) == fileWrite(c) \/ FileNUpdate(c) \/ pageGet(c) \/ fileWriteEnd(c)
                 \/ fileAppend(c) \/ fileAppendEnd(c) \/ fileDelete(c) \/ fileDeleteEnd(c)
Evictions(c) == fileDeleteFIFO(c) \/ unlinkVictim(c) \/ freeVictim(c) \/ FileNDecrease(c)
Stops(c) == StaleDeref(c) \/ TopFault(c) \/ ReadFault(c) \/ AppendFault(c)

Handler(c) == OpenCalls(c) \/ ReadCalls(c) \/ WriteCalls(c) \/ Evictions(c)
              \/ Stops(c) \/ FreeFault(c)

Next == \E c \in Clients : Request(c) \/ Handler(c)

(* Handlers run on; clients need not call.                                 *)
Spec == Init /\ [][Next]_vars
FairSpec == Spec /\ \A c \in Clients : WF_vars(Handler(c))

=============================================================================
