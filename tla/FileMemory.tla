----------------------------- MODULE FileMemory -----------------------------
(***************************************************************************)
(* The shared store of the file server (FileMemory.c): the hash table of   *)
(* file records, the FileStack of written names used to choose eviction    *)
(* victims, the list of free pages, the file counter, the records          *)
(* themselves with their mutexes, and the global mutexes.                  *)
(*                                                                         *)
(* hashTB_mutex and pages_mutex protect sections in which no other mutex   *)
(* is waited for, so a section under them is part of one step.             *)
(* filestack_mutex, file_n_mutex and the mutex of each record are held     *)
(* across waits and are variables here.                                    *)
(*                                                                         *)
(* A record (MemFile) is an address in FileIds.  heap says whether it is   *)
(* allocated; an address may be handed out again only once no thread holds *)
(* a pointer to it, so a stale pointer is always seen as one.  The size of *)
(* a record is the number of pages the code computes for it; how that      *)
(* number relates to bytes is the subject of module PageLayout.            *)
(***************************************************************************)
EXTENDS Integers, FiniteSets, SequencesExt

CONSTANTS
    Clients,      \* client processes (their pids); each has one connection
    Names,        \* absolute path names
    FileIds,      \* addresses of MemFile records
    Pages,        \* page indexes, 0 .. page_num-1
    c_file_max,   \* configured limit on the number of files
    NULL          \* the null pointer; as a mutex owner: unlocked

ASSUME FileMemoryAssumption ==
    /\ IsFiniteSet(Pages)
    /\ c_file_max \in Nat \ {0}
    /\ NULL \notin Clients
    /\ NULL \notin Names
    /\ NULL \notin FileIds

StackMax == 2 * c_file_max - 1          \* stack->max, set by fileStackInit

VARIABLES
    table,            \* FileHashTb: records, most recently added first
    stack, top,       \* FStack->stack and FStack->top
    freePages,        \* FileMemory.pages
    file_n,           \* FileMemory.file_n
    heap,             \* "live" while the record is allocated
    abspath, size, pages, opened, mutex,      \* the fields of MemFile
    filestack_mutex, file_n_mutex,
    status            \* "running", or the undefined behaviour reached

listVars == <<table, stack, top, freePages, file_n>>
fileVars == <<heap, abspath, size, pages, opened, mutex>>
lockVars == <<filestack_mutex, file_n_mutex>>
storeVars == <<listVars, fileVars, lockVars, status>>

(* What the program can run into; each ends the behaviour.                 *)
Undefined == { "nullDeref",       \* a NULL pointer or name is dereferenced
               "useAfterFree",    \* a freed record is dereferenced or freed
               "destroyLocked",   \* a record is freed while its mutex is held
               "danglingEntry",   \* a record is freed while still in the table
               "stackUnderflow",  \* stack[-1] is read
               "overread",        \* the copy made by fileNRead is overrun
               "badIndex" }       \* pages[-1] is used

Owner == Clients \cup {NULL}

StoreTypeOK ==
    /\ table \in Seq(FileIds)
    /\ stack \in [0 .. StackMax - 1 -> Names \cup {NULL}]
    /\ top \in 0 .. StackMax
    /\ freePages \subseteq Pages
    /\ file_n \in Int
    /\ heap \in [FileIds -> {"free", "live"}]
    /\ abspath \in [FileIds -> Names \cup {NULL}]
    /\ size \in [FileIds -> Nat]
    /\ pages \in [FileIds -> SUBSET Pages]
    /\ opened \in [FileIds -> [Clients -> Nat]]
    /\ mutex \in [FileIds -> Owner]
    /\ filestack_mutex \in Owner
    /\ file_n_mutex \in Owner
    /\ status \in {"running"} \cup Undefined

(* memorySetup: every page free, nothing stored.                           *)
StoreInit ==
    /\ table = <<>>
    /\ stack = [i \in 0 .. StackMax - 1 |-> NULL]
    /\ top = 0
    /\ freePages = Pages
    /\ file_n = 0
    /\ heap = [f \in FileIds |-> "free"]
    /\ abspath = [f \in FileIds |-> NULL]
    /\ size = [f \in FileIds |-> 0]
    /\ pages = [f \in FileIds |-> {}]
    /\ opened = [f \in FileIds |-> [c \in Clients |-> 0]]
    /\ mutex = [f \in FileIds |-> NULL]
    /\ filestack_mutex = NULL
    /\ file_n_mutex = NULL
    /\ status = "running"

-----------------------------------------------------------------------------
(* The hash table.  Equal names share a bucket and new entries go to its   *)
(* head, so a search meets the most recent record of a name first.         *)

hashEntries(n) == { i \in 1 .. Len(table) : abspath[table[i]] = n }

(* hashTbSearch with flag SRC.                                             *)
hashTbSearch(n) == IF hashEntries(n) = {} THEN NULL ELSE table[Min(hashEntries(n))]

(* hashTbSearch with flag DEL: the table without the first entry for n.    *)
hashTbRemoveNone(n) == table                          \* mutant: flag SRC
hashTbRemoveRest(n) ==                                \* mutant: next not kept
    IF hashEntries(n) = {} THEN table ELSE SubSeq(table, 1, Min(hashEntries(n)) - 1)
hashTbRemove(n) ==
    IF hashEntries(n) = {} THEN table ELSE RemoveAt(table, Min(hashEntries(n)))

(* A NULL name is never found.                                             *)
Stored(n) == n # NULL /\ hashTbSearch(n) # NULL

-----------------------------------------------------------------------------
(* The FileStack, an array of names filled from 0.  Deleted files leave    *)
(* stale names; fileStackGetTop leaves holes (NULL) below the caller's own *)
(* name.                                                                   *)

fileStackAdd(n) ==
    /\ stack' = [stack EXCEPT ![top] = n]
    /\ top' = top + 1

(* fileStackDefrag keeps the first occurrence of every stored name, in     *)
(* order.  It scans the whole array, the part above top included.          *)
keptAll == { i \in DOMAIN stack : Stored(stack[i]) }  \* mutant: duplicates stay
kept == { i \in DOMAIN stack : /\ Stored(stack[i])
                               /\ \A j \in 0 .. i - 1 : stack[j] # stack[i] }

fileStackDefrag ==
    LET last(k) == Cardinality({ j \in kept : j < k })
    IN  /\ stack' = [i \in DOMAIN stack |->
                        IF \E k \in kept : last(k) = i
                        THEN stack[CHOOSE k \in kept : last(k) = i] ELSE NULL]
        /\ top' = Cardinality(kept)

(* fileStackGetTop: the caller's own name (key) is skipped when it is on   *)
(* top, and only there.                                                    *)
foundSelf(key) == key # NULL /\ stack[top - 1] = key

candidates(key) ==
    { i \in 0 .. top - (IF foundSelf(key) THEN 2 ELSE 1) : Stored(stack[i]) }

(* The array index of the victim: the highest candidate.                   *)
victimIndex(key) == Max(candidates(key))

(* What the search runs into instead of returning: strncmp of a hole on    *)
(* top, or the loop leaving the array at index -1.                         *)
topFault(key) ==
    IF key # NULL /\ stack[top - 1] = NULL THEN "nullDeref"
    ELSE IF candidates(key) = {} THEN "stackUnderflow" ELSE "none"

fileStackTakeLow(key) ==                              \* mutant: own name dropped
    /\ stack' = [stack EXCEPT ![victimIndex(key)] = NULL]
    /\ top' = victimIndex(key)
fileStackTakeHigh(key) ==                             \* mutant: top not lowered
    /\ stack' = [stack EXCEPT ![victimIndex(key)] = NULL]
    /\ top' = top
fileStackTake(key) ==
    /\ stack' = [stack EXCEPT ![victimIndex(key)] = NULL]
    /\ top' = IF foundSelf(key) THEN top ELSE victimIndex(key)

-----------------------------------------------------------------------------
(* Records.                                                                *)

(* clientPidDelete: one occurrence of the pid leaves clients_opened.       *)
clientPidDeleteBelow(f, c) == [opened EXCEPT ![f][c] = @ - 1]   \* mutant: not searched for
clientPidDeleteAny(f, c) ==                           \* mutant: whoever's pid it is
    [opened EXCEPT ![f] = [d \in Clients |-> 0]]
clientPidDelete(f, c) == [opened EXCEPT ![f][c] = IF @ = 0 THEN 0 ELSE @ - 1]

(* A mutex of an allocated record that is free to take.                    *)
CanLockAlways(f) == f \in FileIds /\ heap[f] = "live"  \* mutant: no lock taken
CanLock(f) == f \in FileIds /\ heap[f] = "live" /\ mutex[f] = NULL

(* fileFree: the pages go back to the list, the record to the allocator.   *)
(* Nothing is locked while it runs, and nobody asks whether the mutex it   *)
(* destroys is locked or whether the table still leads to the record.      *)
freeFault(f) ==
    IF Contains(table, f) THEN "danglingEntry"
    ELSE IF mutex[f] # NULL THEN "destroyLocked" ELSE "none"

releasedButOne(f) ==                                  \* mutant: one page lost
    freePages \cup { p \in pages[f] : p # CHOOSE q \in pages[f] : TRUE }
released(f) == freePages \cup pages[f]

fileFree(f) ==
    /\ freePages' = released(f)
    /\ pages' = [pages EXCEPT ![f] = {}]
    /\ size' = [size EXCEPT ![f] = 0]
    /\ heap' = [heap EXCEPT ![f] = "free"]
    /\ abspath' = [abspath EXCEPT ![f] = NULL]
    /\ opened' = [opened EXCEPT ![f] = [c \in Clients |-> 0]]
    /\ UNCHANGED mutex

=============================================================================
