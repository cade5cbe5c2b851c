--------------------------- MODULE StoreProperties ---------------------------
(***************************************************************************)
(* What the store promises while its handlers interleave.  Every property  *)
(* holds up to the first undefined behaviour; NoRaceFault says which       *)
(* requests meet none, NotFreedWhileLocked is refuted by those that do.    *)
(***************************************************************************)
EXTENDS WorkerFunctions

Live == { f \in FileIds : heap[f] = "live" }
Written == { f \in ToSet(table) : pages[f] # {} }
Quiescent == \A c \in Clients : pc[c] = "idle"

-----------------------------------------------------------------------------
(* Pages.                                                                  *)

(* No page is lost and none is given to two files: pageTake, pageAdd,      *)
(* filePagesInitialize, filePagesRenew and fileFree hand every page from   *)
(* the list to one record and back.                                        *)
PageConservation ==
    /\ \A p \in Pages : p \in freePages \/ \E f \in FileIds : p \in pages[f]
    /\ \A f \in FileIds : pages[f] \cap freePages = {}
    /\ \A f, g \in FileIds : f # g => pages[f] \cap pages[g] = {}
    /\ \A f \in FileIds \ Live : pages[f] = {}

(* A record nobody has locked holds exactly the pages of its size: what    *)
(* sendFile reads under the lock is never a file half written, half        *)
(* appended or half evicted.  A record being written has at most the pages *)
(* of its new size, and all of them once the loop around pageGet is over.  *)
WholeFile ==
    /\ \A f \in Live :
          /\ mutex[f] = NULL => Cardinality(pages[f]) = size[f]
          /\ Cardinality(pages[f]) <= size[f]
    /\ \A c \in Clients :
          pc[c] \in {"sendUnlock", "stackAdd", "selfLock", "appendEnd"} =>
              Cardinality(pages[ptr[c]]) = size[ptr[c]]

(* What sendFile reads of a record under its lock does not change while it *)
(* writes it to the socket: as long as the record is allocated no writer,  *)
(* appender or evictor, and no handler that frees another record, touches  *)
(* its size or its pages.  Whether it stays allocated is another matter    *)
(* (NotFreedWhileLocked).                                                  *)
StableWhileSending ==
    [][ \A c \in Clients : pc[c] = "sendUnlock" /\ heap'[ptr[c]] = "live" =>
            /\ size'[ptr[c]] = size[ptr[c]]
            /\ pages'[ptr[c]] = pages[ptr[c]] ]_vars

(* No record leaks: one that left the table, by a removal or an eviction,  *)
(* is in the hands of a handler that is about to free it.                  *)
Freeing(f) ==
    { c \in Clients : \/ pc[c] = "freeVictim" /\ victim[c] = f
                      \/ pc[c] = "freeOwn" /\ ptr[c] = f }

NoRecordLost ==
    \A f \in Live : Contains(table, f) \/ Freeing(f) # {}

-----------------------------------------------------------------------------
(* Locks and opens.                                                        *)

Holds(c) == { f \in FileIds : mutex[f] = c }

(* Who may own what: a record's mutex belongs to the one handler that is   *)
(* sending or writing that record and to nobody else, its record is        *)
(* allocated unless the program has just freed it (NotFreedWhileLocked),   *)
(* and the two global mutexes belong only to handlers inside the sections  *)
(* that fileDeleteFIFO, fileStackAdd and FileNUpdate keep them for.        *)
LockDiscipline ==
    /\ \A c \in Clients :
          pc[c] \in Writing \cup {"sendUnlock"} =>
              /\ ptr[c] \in FileIds /\ mutex[ptr[c]] = c
              /\ heap[ptr[c]] = "live" \/ status = "destroyLocked"
    /\ \A c \in Clients : \A f \in Holds(c) :
          pc[c] \in Writing \cup {"sendUnlock"} /\ ptr[c] = f
    /\ \A c \in Clients :
          /\ pc[c] = "freeOwn" => ptr[c] \in FileIds
          /\ pc[c] = "freeVictim" => victim[c] \in FileIds
          /\ filestack_mutex = c => pc[c] \in {"lockVictim", "selfLock"}
          /\ file_n_mutex = c => pc[c] \in {"evict", "lockVictim", "freeVictim"}

(* Every way out of a handler, the refusals included, releases what it     *)
(* locked: an answered client owns no mutex.                               *)
LocksReleased ==
    \A c \in Clients :
        pc[c] = "idle" => /\ Holds(c) = {}
                          /\ filestack_mutex # c
                          /\ file_n_mutex # c

(* A client whose read, write, append or remove got past fileOpenCheck has *)
(* the file open until the handler is done with it, although the record    *)
(* was unlocked in between and other clients open and close it.            *)
Served == {"sendLock", "sendUnlock", "writeLock", "appendLock", "deleteLock"} \cup Writing

OpenWhileServed ==
    \A c \in Clients :
        pc[c] \in Served /\ call[c].op # "readN" =>
            /\ ptr[c] \in FileIds
            /\ heap[ptr[c]] = "live" => opened[ptr[c]][c] > 0

-----------------------------------------------------------------------------
(* Who may call what.  The conditions under which the properties below     *)
(* hold; the code imposes none of them.                                    *)

MayCall(c, ops, n) == \E r \in Calls[c] : r.op \in ops /\ r.name = n

(* A name is created by one client at most.                                *)
OneCreator ==
    \A n \in Names : \A c, d \in Clients :
        MayCall(c, {"create"}, n) /\ MayCall(d, {"create"}, n) => c = d

(* Of the clients that create a name, remove it, and remove it or make     *)
(* room by evicting, no three are different.                               *)
TwoHands ==
    \A n \in Names : \A c, d, e \in Clients :
        /\ MayCall(c, {"create"}, n)
        /\ MayCall(d, {"remove"}, n)
        /\ \/ MayCall(e, {"remove"}, n)
           \/ \E m \in Names : MayCall(e, {"write", "append"}, m)
        => c = d \/ c = e \/ d = e

(* Files are created, written and read; a file that is written has a page. *)
WritesOnly ==
    \A c \in Clients : \A r \in Calls[c] :
        /\ r.op \notin {"append", "remove"}
        /\ r.op = "write" => r.n > 0

(* The writes are one client's.                                            *)
OneWriter ==
    \A n, m \in Names : \A c, d \in Clients :
        MayCall(c, {"write"}, n) /\ MayCall(d, {"write"}, m) => c = d

(* The requests of one connection, which are served one after the other.   *)
OneClient == \A c, d \in Clients : c = d

-----------------------------------------------------------------------------
(* Names and the FileStack.                                                *)

(* With one client creating a name, no two records of the table have that  *)
(* name: the name is looked up by fileSearch, before fileInit adds it.     *)
UniqueNames ==
    \A i, j \in DOMAIN table : abspath[table[i]] = abspath[table[j]] => i = j

(* A written file nobody is working on can be found by an eviction: its    *)
(* name stays on the FileStack below top, through holes, stale names and   *)
(* defragmentation.                                                        *)
StoredEvictable ==
    filestack_mutex = NULL =>
        \A f \in Written :
            mutex[f] = NULL => \E i \in 0 .. top - 1 : stack[i] = abspath[f]

(* A file that is being written or appended to.                            *)
inWork(f) == \E c \in Clients : mutex[f] = c /\ pc[c] \in Writing

(* When files are only created, written and read the names below top are   *)
(* exactly those of the written files whose write is over, each once,      *)
(* unless an eviction is under way: no file is missing, no name is stale,  *)
(* there is no hole.                                                       *)
StackExact ==
    filestack_mutex = NULL =>
        /\ { stack[i] : i \in 0 .. top - 1 }
              = { abspath[f] : f \in { g \in Written : ~inWork(g) } }
        /\ \A i, j \in 0 .. top - 1 : stack[i] = stack[j] => i = j

(* file_n counts the written files, and there are never more of them than  *)
(* c_file_max, as long as one client writes and nothing is removed.        *)
CapacityRespected ==
    /\ Cardinality(Written) <= c_file_max
    /\ Quiescent => file_n = Cardinality(Written)

(* "checks if file_max has been reached. if so, a FIFO file deletion is    *)
(* requested", FileMemory.c:528: as long as one client writes and nothing  *)
(* is removed FileNUpdate evicts only when that many files are stored.     *)
EvictsWhenFull ==
    [][ \A c \in Clients :
            pc[c] = "fileN" /\ pc'[c] = "evict" =>
                Cardinality(Written) >= c_file_max ]_vars

(* fileNRead visits a name once although the FileStack may hold it twice   *)
(* (written, removed, created and written again): fileStackDefrag keeps    *)
(* one of the two before the copy is made.                                 *)
ReadsOnce == \A c \in Clients : IsInjective(batch[c])

(* readNFiles with N = 0 sets out to visit every written file.             *)
ReadsAll ==
    \A c \in Clients :
        pc[c] = "nextFile" /\ call[c].n = 0 /\ seen[c] = 0 =>
            /\ { abspath[f] : f \in Written } \subseteq ToSet(batch[c])
            /\ want[c] = Len(batch[c])

-----------------------------------------------------------------------------
(* The store as its clients see it.                                        *)

(* A file that is being written or appended to still has its old length.   *)
committed(f) == IF inWork(f) THEN size[f] - call[mutex[f]].n ELSE size[f]

InTable == ToSet(table)

(* What c has still to be granted: openFile with O_CREATE has become a     *)
(* plain open once the file is there, and a removed file is only freed.    *)
pending(c) ==
    IF pc[c] = "freeOwn" THEN NoCall
    ELSE IF call[c].op = "create" /\ pc[c] \in {"lookup", "openAdd"}
    THEN [call[c] EXCEPT !.op = "open"] ELSE call[c]

Store == INSTANCE FileStore WITH
    Capacity <- Cardinality(Pages),
    files <- InTable,
    name <- [f \in FileIds |-> IF f \in InTable THEN abspath[f] ELSE NULL],
    length <- [f \in FileIds |-> IF f \in InTable THEN committed(f) ELSE 0],
    openers <- [f \in FileIds |-> [c \in Clients |-> IF f \in InTable THEN opened[f][c] ELSE 0]],
    request <- [c \in Clients |-> pending(c)]

(* The handlers, interleaved, with locks released between the check of an  *)
(* open and the use of it, and with files evicted under them, are the      *)
(* store of FileStore: every request takes effect at one instant while its *)
(* handler runs, on a file of its name that its client has open, a length  *)
(* changes only by a whole write or append, and a file goes away only as   *)
(* its removal or as one eviction.                                         *)
ImplementsFileStore == Store!Spec

-----------------------------------------------------------------------------
(* Undefined behaviour.                                                    *)

(* Requests served one after the other never touch a freed record, free a  *)
(* locked one, free one still in the table or overrun the copy of the      *)
(* stack.                                                                  *)
NoRaceFault ==
    status \notin {"useAfterFree", "destroyLocked", "danglingEntry", "overread"}

(* Every request is answered, unless undefined behaviour is met.           *)
RequestCompletes ==
    \A c \in Clients : pc[c] # "idle" ~> (pc[c] = "idle" \/ status # "running")

(* fileDeleteFIFO waits for the mutex of the file that is being written:   *)
(* FileNUpdate names no file to spare, and a stale entry of the FileStack  *)
(* (written, removed, created again) has led to it.                        *)
OwnVictim(c) == pc[c] = "lockVictim" /\ victim[c] = ptr[c]

(* A client alone is answered: no refusal leaves a mutex locked behind it, *)
(* the stack is never full when a name is pushed, and there is always      *)
(* something to evict when no page is left.  Only a write that has come    *)
(* upon its own file as the victim waits for ever.                         *)
AloneCompletes ==
    \A c \in Clients :
        pc[c] # "idle" ~> (pc[c] = "idle" \/ OwnVictim(c) \/ status # "running")

-----------------------------------------------------------------------------
(* What a comment of the source says and the code does not do.  It is      *)
(* refuted by a run of its own, and so is RequestCompletes once two        *)
(* clients write.                                                          *)

(* "a mutex used to prevent race conditions from multiple threads          *)
(* accessing the same file at the same time", FileMemory.h:42: a record    *)
(* stays allocated while a handler has it locked.                          *)
NotFreedWhileLocked == \A f \in FileIds : mutex[f] # NULL => heap[f] = "live"

=============================================================================
