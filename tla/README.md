# A verification project for the file server

The repository is a file server for Unix: clients connect to a local socket,
create, open, write, append to, read and remove files that the server keeps in
a fixed amount of memory, and the server evicts files when the memory or the
number of files reaches its limit (`src/relazione.pdf`, in Italian, describes
the design). The server is multithreaded: a main thread multiplexes the
connections with `select`, a pool of workers serves one request each, and a
thread waits for signals. `API.c` is the client's side of the protocol and
`client.c` a command line program on top of it. This directory holds TLA+
modules of those parts, the TLC configurations that check them, and TLAPS
proofs about all of them.

Run a check with `tlc -config <run>.cfg <module>.tla`, and the proofs with
`tlapm` on `Lemmas.tla` and on each `...Proofs.tla`. `PROJECT.json` lists the runs, the source lines each
definition models, the hazards of the code, what the runs found, and the
theorems.

## The system

| part | source | state | operations | talks to |
|---|---|---|---|---|
| file store | `FileMemory.c` | hash table of records, list of free pages, memory, `file_n` | search, add, remove, `pageGet`, `fileFree`, `FileNUpdate` | called by the handlers under four kinds of mutex |
| FileStack, eviction | `FileMemory.c` | array of names with `top` and `max` | add, defragment, take a victim, `fileDeleteFIFO` | table, pages, the victim's record |
| request handlers | `workerFunctions.c` | locals of a worker | one per request of `ReqFunctions` | the store; the client's socket |
| file contents | `workerFunctions.c`, `addPageToMem` | pages of a record | write, append, send | store |
| thread pool | `ThreadPool.c` | linked list, mutex, condition | add, take, clear, destroy, exit task | main thread adds, workers take |
| main loop | `server.c` | `fd_struct`, `fd_work_set`, signal | accept, hand out, take back, close | pool; worker pipe; signal pipe |
| signal thread | `server.c` | none | wait for one signal, write it to a pipe | main thread |
| client API | `API.c` | `fd_st` | one function per call, of one to three requests | socket |
| lists and hash table | `FileMemory.c` | buckets and `clients_opened`, doubly linked | add, search, take, delete a cell, destroy | store |
| configuration | `config.c` | the file position, six settings | search each setting in turn, once | read by everybody |
| client program | `client.c` | command line, directory walk | make the API calls of each option | API |

What is hard here:

* A handler runs through several critical sections and keeps a raw pointer to
  a record between them, while removals and evictions by other workers free
  records.
* Mutexes are held across waits: `fileDeleteFIFO` waits for the record of its
  victim with `filestack_mutex` (and, when called by `FileNUpdate`,
  `file_n_mutex`) held, from inside a handler that has locked its own record.
* The FileStack contains stale names, holes and duplicates by design, and its
  `top` is read without a mutex by `fileNRead`.
* `openFile(O_CREATE)` is two or three requests.
* A connection leaves the main thread's set while a worker has it and comes
  back as two integers through a pipe that all workers share.
* Signals, closing clients and workers race for the end of the main loop.
* A condition signal is lost when all workers are busy.
* Byte counts, page counts and offsets of an append meet page boundaries.
* Client and handler agree on the length of every message only by construction:
  some answers come before the pid is read, some after, some calls end early,
  and either side may meet the end of the stream anywhere.
* Cells leave the linked lists through two different functions.
* The parser of the configuration and that of the command line each carry a
  position from one search to the next.

## The modules

`FileMemory` has the shared store as variables and the operations of
`FileMemory.c` as operators and action parts. `hashTB_mutex`, `pages_mutex`
and the mutexes of the configuration protect sections that wait for no other
mutex, so such a section is part of one step. `filestack_mutex`,
`file_n_mutex` and the mutex of each record are variables.

`WorkerFunctions` extends it with the handlers. `pc[c]` is where the handler
of the request of client `c` stands; an action runs from one point where the
code may have to wait to the next. The API calls appear as what they ask:
`create` is `openFile` with `O_CREATE` and goes through `fileSearch`,
`fileInit` and `fileOpen`.

| in the model | in the code |
|---|---|
| `table`, `stack`, `top`, `freePages`, `file_n` | `FileHashTb`, `FStack`, `FileMemory.pages`, `FileMemory.file_n` |
| `heap`, `abspath`, `size`, `pages`, `opened`, `mutex` | the fields of `MemFile`, and whether it is allocated |
| `ptr`, `victim`, `batch`, `want`, `seen` | `file_req`, `to_del`, `stackRandOrd`, `file_num`, `i` |
| `pc` points `...Lock`, `...Check`, `...Add` | before a `pthread_mutex_lock` |
| `status` | `running`, or the undefined behaviour met |

Undefined behaviour (a freed record used, a NULL dereferenced, an array
overrun, a mutex destroyed while held) ends a behaviour of the model in a
`status` of its own, after the step that reaches it; safety properties speak
of what happens up to there. So a record that somebody has locked is freed like
any other (`freeLocked`: its pages go back to the list, its memory is gone, the
other handler still has its mutex), and only then does the behaviour end, with
the status `destroyLocked`. `claim_locked` reports that this happens,
`NoRaceFault` says that one connection alone does not meet it. Freeing a record
the table still leads to (`freeListed`, status `danglingEntry`) takes two
creators of a name or three clients; no run has them, and `NoEntryDangles`
proves that nothing less reaches it. Where two
requests race on a field read without its mutex (`FStack->top` in `fileNRead`)
each read is a step.

`FileStore` is the abstract store: files with a name, a length and the clients
that have them open, and one atomic step for each request. `WorkerFunctions`
implements it (`ImplementsFileStore`): a file of the abstract store is a record
in the table, its length changes when the handler has all its pages, and a
request takes effect where the handler changes the table or the opens. Files
are named by record because two clients can create one name.

`StoreProperties` holds the properties of the store, the refinement mapping and
the conditions on who calls what (`OneCreator`, `TwoHands`, `WritesOnly`,
`OneWriter`, `OneClient`); `MCStore` its instances, with an assumption that says
which conditions each of them meets.

The theorems are in modules of their own:

| module | extends | proves |
|---|---|---|
| `StoreProofs` | `StoreProperties`, `Lemmas` | types, locks, pages, contents and opens, for all sets of calls; which record a handler works on and unlinks; unique names; no record leaks; the handlers implement `FileStore` |
| `StackProofs` | `StoreProofs` | the FileStack, `file_n` and the limit, `fileNRead` |
| `ProtocolProofs` | `Protocol`, `Lemmas` | the two sides of a connection stay in step; what is acknowledged is stored and read back |
| `PartsProofs` | `HashTable`, `Config`, `Lemmas` | the linked lists; they implement `RecordTable`; the settings are those of the file |
| `CommandLineProofs` | `CommandLine`, `Lemmas` | the commands are those of the arguments; what they open they close; what `-w` sends |
| `ThreadPoolProofs` | `ThreadPool`, `Lemmas` | the linked list; it implements `TaskPool` |
| `ServerProofs` | `Server`, `Lemmas` | connections, `max`, the end of the loop, the use of the pool |
| `Lemmas` | library | least elements, values occurring in a queue, removal from a sequence |

`HashTable` looks below the table of `FileMemory`: buckets shared by names and
the list of clients of each record, cell by cell with `next` and `prev`, and
the two ways a cell leaves a list. `RecordTable` is what `FileMemory` assumes
of them, and `HashTable` implements it (`ImplementsRecordTable`). A record
stays in `taken` between its way out of the table and `fileFree`, so the
refinement also says that a lookup removed a record of the right name.

`PageLayout` has the bytes of one file: a byte is the position at which it
belongs, so what `sendFile` sends can be compared with what clients wrote.
`Protocol` extends it with one connection: the calls of `API.c` and the
handlers that serve them, each cut at its reads and writes, and the two
directions of the socket as sequences of fields. A side that reads a field of
another kind than the one it expects has the status `outOfStep`.

| in `Protocol` | in the code |
|---|---|
| `toServer`, `toClient` | the socket; a field is what one `writeNB` writes |
| `cl`, `sending`, `expects`, `answers` | where an API call stands, what it still writes and reads, and what it has read |
| `at`, `reading`, `got` | the same of the handler |
| `present`, `opens`, `size`, `pages_n` | the file: in the table, opened, bytes, pages |
| `Unsent` | the value of a variable after a `readNB` that read nothing |

`Config` is `configGetAll` line by line, `CommandLine` the two loops of `main`
in `client.c` and the recursion of `sendFilesDirectory` with its frames as a
stack. What `-w` sends is compared with `visits`, the files that a walk through
the directories meets, in order, as a recursive function of the place in the
walk. `MCParts` puts `HashTable`, `Config` and `CommandLine` side by side:
each is one thread working on data of its own, they share nothing, and each
behaviour runs one of them.

`TaskPool` is the abstract thread pool: a FIFO sequence, workers, and the
closing sequence. `ThreadPool` has the linked list, its head and tail and the
allocation of nodes, and implements `TaskPool` (`tasks` is the list read from
its head). `Server` extends `TaskPool` with the main thread, the pipes, the
signal thread and the clients; it uses the abstract queue because `ThreadPool`
has been shown to implement it. `clientReadReq` is four steps: the code of the
request is read (or the end of the stream is found), the handler returns
(`ReqFunArr`), and the two integers are written to the pipe. What the handler
does meanwhile is `WorkerFunctions` and `Protocol`; in `Server` the worker is in
it for as long as it likes, for ever included, since it waits for the rest of
the request, for the client to take the answer and for the mutexes of the
store. `Server` in turn justifies what `WorkerFunctions` assumes, that a
connection is served by one worker at a time (`ConnectionTracked`).

Definitions commented `mutant:` are deliberately wrong variants of the
definition that follows them. They are used by no specification; each shows
that a property fails when the code is changed that way (`mutants` in
`PROJECT.json`).

### Abstractions

* Names, clients, records and pages are model values; the order inside the
  page list is not kept, and any free page may be taken.
* In `WorkerFunctions`, `size` counts the pages the code computes for a
  record. How that number relates to bytes is `PageLayout`.
* `fileFree` returns its pages in one step (in the code one `pageAdd` each):
  the record is unreachable then, and `pageGet` can only see fewer pages.
* `fileStackDefrag` and `fileStackGetTop` lock `hashTB_mutex` for each name
  or for the search; they are one step under `filestack_mutex`.
* The random order of `fileNRead` is a free choice of the next name.
* The address of a freed record is reused only when no handler has a pointer
  to it, so a stale pointer is always recognised as stale.
* A client is one process with one connection and one request at a time, and
  process identifiers are not reused. `WorkerFunctions` has as many workers as
  clients, and no client dies in it; `Protocol` has one connection, and clients
  that die anywhere.
* A field of `Protocol` arrives whole: `readNB` and `writeNB` loop until it
  does. Other connections show only as the removal or eviction of the file
  between two requests (`otherClient`).
* `Config` counts sizes in the units of the file, with the widths of the
  products in bytes; the name of the socket is a value like the others.
* In `CommandLine` an argument is an option or a word, and the API answers any
  call with 0 or -1. What `-r` stores in a directory, printing and the delay
  of `-t` are left out.
* In `Server`, system calls do not fail and descriptors are handed out lowest
  first. When the main thread reads a pair from the pipe that is none the
  behaviour ends (`garbled`), which `PairsArrive` is about.

## Properties and runs

| run | bounds | what it shows |
|---|---|---|
| `store_shared` | 2 clients, 5 and 3 calls, 2 names, 3 records, 2 pages, 2 files | types, pages, contents, locks, opens and unique names, that a record leaves the table once, and the refinement of `FileStore`, while one client creates, writes and appends and the other does everything else |
| `store_sequential` | 1 connection, 9 calls, 2 names, 2 files | long histories of writes, removals and rewrites on the FileStack never hide a written file from evictions or from `readNFiles`, which visits none twice although the stack holds names twice; every call is answered, except a write whose victim is its own file; race faults need two connections |
| `store_evict` | 6 and 1 calls, 3 names, 2 files, 3 pages | with one writer and no removal the stack has exactly the written files, the counter is exact, the limit is kept, and files are evicted only at the limit, with a reader in between |
| `protocol` | 5 calls, pages of 3 bytes, memory of 9, sizes 1 to 10 | client and handlers stay in step, what was acknowledged is stored and read back, every call returns, the end of a connection is noticed |
| `parts` | 4 cells, 2 records, 2 names in one bucket; 956 configuration files; 4461 command lines; `-w` on 306 directory trees | the lists implement the table; a configuration is loaded as written; commands and `-w` make the calls that were asked for |
| `pool` | 3 workers, 4 tasks, 5 nodes | the linked list is intact and implements the FIFO pool; lost signals delay nothing forever; all workers exit |
| `server_loop` | 2 clients, 2 requests each, 2 workers, SIGHUP and SIGINT | connections are in one place, `max` covers them, SIGHUP waits for all of them |
| `server_live` | 2 clients, 1 request each, 1 worker, SIGHUP and SIGINT | if handlers return: requests are answered, SIGINT closes the server although clients stay, SIGHUP once they leave |
| `claim_locked` | as `store_shared` | violated: a record is freed while another handler has it locked |
| `claim_completes` | 4 and 2 calls, 2 files, 2 pages | violated: an append and the write that evicts its file wait for each other |
| `claim_pipe_pairs` | 2 clients, 2 workers | violated: two workers mix their integers in the pipe |
| `claim_send` | `-w` with each number on 306 directory trees | violated: `-w` sends more files than its number |

Type invariants: `TypeOK` of the store is an invariant of its own, because the
proofs rest on it; those of `ThreadPool` and `Server` are conjuncts of
`ListIntact` and `ConnectionTracked`. The other modules have none: their
variables are compared with a reference value by value.

The bounds are small because the code has no behaviour that depends on more:
a race is between two handlers (the third party, the evicting one, is one of
them), two names are needed for a victim that is another file, three records
for a stale pointer next to two live records, and a limit of one or two files
makes the array of the FileStack one or three entries long, so it fills, wraps
and leaves holes within a few calls. `store_sequential` needs nine calls to
write, remove and rewrite two files. A second worker is needed to lose a
signal or to mix pairs, a third to pass the exit task on. In `protocol` the
sizes are below, at and above one, two and three pages and above the memory,
and five calls create, write, append to, read and close a file. Four cells make
the first, a middle and the last cell of a list, with one more for a list of
clients; three directories nest two deep with one beside.

`MaxCalls` and `MaxRequests` bound the calls and requests; `Signals` the
signals. Behaviours end when the budgets are used up, when the server has
closed or when undefined behaviour is met, so deadlock checking is off in all
runs and the absence of deadlocks is stated by the liveness properties.
Symmetry is used in the runs without liveness only: no call set, and no
property, names a particular file name, record, page, client or worker.

### Fairness

`FairSpec` of the store assumes weak fairness of each handler: worker threads
are scheduled, and a handler that can go on does; its clients send what they
have begun to send and take their answers. A mutex that others take
again and again would need strong fairness, but the budgets of calls make the
contention finite. `ThreadPool` assumes the same of workers and of the main
thread once it has begun to close. `ThreadsFairSpec` of `Server` assumes that
the main thread, the signal thread and the workers run on, a worker until it
calls a handler and again when the handler has returned. That handlers do return
(`HandlersReturn`) is nothing the code guarantees: a client that sends the code
of a request and stops keeps its worker in `readNB` for ever, and two handlers
can wait for each other in the store (`claim_completes`). Then no request that
needs the worker is answered, and the join of server.c:155 does not come back.
It is therefore no part of the specification but the premise of the three
liveness properties: `RequestAnswered` and `InterruptCloses` assume nothing
else, `HangupCloses` moreover that a connected client asks again or closes in
the end (`ClientsFair`). What they say is that the main loop, the queue, the
pipe and the closing lose nothing by themselves. A request shows in `Server`
when its code is there to be read, so the read before the call of the handler
does not wait. Nobody has to connect or to send a signal.
`Protocol` assumes that the handlers run on and that the client, unless it
dies, goes on with a call it has begun; it need not begin another or close.
`OutOfStep` is fair because it is the same read as `readRequest` and
`readAnswer`, of a wrong field. Nothing is assumed of the other clients.
`parts` has no liveness properties.

### What the code does not keep

Each `claim_...` run refutes a comment of the source or a statement of the
documentation; `findings` in `PROJECT.json` quotes it.

A record can be freed while another handler has it locked (`claim_locked`): the
handler has looked it up, `fileDelete` or `fileDeleteFIFO` unlinks it and
unlocks it, the handler locks it, and it is freed. What the handler then sends,
writes and unlocks is freed memory. `StableWhileSending` and `LockDiscipline`
say what is true of locked records up to there. The deadlock of
`claim_completes` and the mixed pairs of `claim_pipe_pairs` take two handlers as
well; `claim_send` is about one client program.

The models follow the code in other places where it does not do what a comment
says or what its caller needs. They are not runs of their own, but bound what
the passing runs can state. In the store:

* `fileStackGetTop` takes the newest file, though FileMemory.c:495 says FIFO
  (`victimIndex`). It spares the file being written only on top of the stack
  (`foundSelf`), and leaves the array when only stale names are left
  (`topFault`, status `stackUnderflow`).
* `fileDelete` does not decrement `file_n`, so after removals writes evict
  below the limit; and a file that is being written counts before it can be
  evicted, so two writers pass the limit. `CapacityRespected` and
  `EvictsWhenFull` are checked with one writer and no removals.
* On a full FileStack `fileStackAdd` waits for the mutex it holds, and
  `pageGet` with nothing to evict loops. `AloneCompletes`: neither happens to
  one client, over any nine calls. A client alone can hang in one way:
  `FileNUpdate` names no file to spare, so after a removal and a new creation
  the stale entry on the stack leads `fileDeleteFIFO` to the file that is being
  written and locked (`OwnVictim`).
* Evictions are counted in a section of their own (`FileNDecrease` in
  `pageGet`), so `file_n` lags behind the table in between.
* Two clients that create one name at the same time get two records.
  `fileDelete` unlinks by name and frees by pointer, so it can then free the
  record that stays in the table (status `danglingEntry`), and an eviction can
  unlink the newer record and leave the older one where no eviction finds it.
  `UniqueNames`, `StoredEvictable` and `ImplementsFileStore` need one creator.
* With one creator the same happens to three clients: one is about to remove
  a file, a second evicts it meanwhile, the creator creates the name again,
  and the removal unlinks the new record in place of the one it frees.
  `NoRecordLost` and `ImplementsFileStore` need `TwoHands`.
* `fileWrite` and `fileAppend` dereference NULL for a file that is not stored
  (status `nullDeref`); an append to a file never written uses page -1
  (`badIndex`); `fileNRead` overruns its copy of the stack when a write comes
  in between (`overread`).
* `clientPidDelete` does not free a first cell that has a successor:
  `ListsLinked` lets cells of clients be lost, and no others.

On one connection:

* An append that starts at the end of a page, or fills the page it adds last to
  the last byte, gets the counts of bytes wrong (`edge`); `sendFile` then sends
  another number of bytes than it announced (`spoiled`) and the two sides fall
  out of step. `ReadBack` speaks of contents without such an append.
* `fileWrite` and `fileAppend` compare bytes with `memory_size`, pages are what
  runs out. The run has a memory of whole pages; in another one an accepted
  file may need a page that does not exist.
* An error of `read` is a count that is not 0 (API.c:213), so after a
  connection reset `clientReadReq` takes a function it never read (status
  `wildCall`). `ClosesCleanly`: that takes a client dying inside a call.
* `readNFiles` returns at once when it cannot write a file (API.c:322) and
  leaves the rest of the answer in the stream.
* `fileDelete`, `fileOpen` and `fileClose` answer before they act, so success
  is reported before it is there; only the client's own order of requests hides
  it.
* After `closeConnection` `fd_st` is still set: later calls write to a closed
  descriptor. The model ends the client there.

In the parsers:

* A setting that is missing or comes before an earlier one reaches `atoi(NULL)`
  or `strncpy(.., NULL, ..)` (`crashed`). 2048 MB are a negative
  `memory_size`, 4096 MB are zero.
* A second `-f` with another name leaves the connection open in
  `closeConnection` (CommandLine, `sock_name` against `client_socket_name`).
* `-w` with a limit sends more files when the limit is met inside a
  subdirectory, though the help text says "up to n files" (client.c:361,
  `claim_send`), and counts a directory it cannot open as -1; without a limit a
  subdirectory after such a one may send nothing. `SendsToTheLimit` says
  what is sent otherwise.
* The same line has the number of `-w` after the directory; `main` reads it
  before, and skips one that follows. `CommandsAsSaid` and `SendsToTheLimit`
  leave open what such a line asks for (`NumberFollows`); in `SendsUpTo` it is
  the number.
* A read that fails leaves the file open (client.c:230): `OpensClosed` counts
  such files (`missed`) and says that no other is left open.
* A list without a name (`,`) makes its calls with NULL. `sendRequest` then
  sends the code of the request, a length it has not set, and no path
  (API.c:426). `CommandLine` has these calls, `Protocol` does not.

The passing runs state what holds up to those points. `UniqueNames` and
`StoredEvictable` hold with one creator of each name, `NoRecordLost` and
`ImplementsFileStore` if moreover no three clients create, remove and evict,
`StackExact` with one creator and no append or removal,
`CapacityRespected` and `EvictsWhenFull` if moreover one client writes,
`ReadsAll`, `ReadsOnce`, `AloneCompletes` and `NoRaceFault` on one connection,
`ReadBack` away from page ends, `ConnectionTracked` until a pair is
mixed. `MCConditions` in `MCStore` has TLC evaluate that the runs meet the
conditions under which their properties are proved.

## Proofs

Every theorem is proved for all values of the constants that meet the named
assumptions of its modules: finitely many pages, workers, cells and
directories, positive sizes and limits, NULL and the other values that stand
for none distinct from every real one, well-formed calls, configuration files
and command lines, and no directory inside itself. The budgets of calls, the
number and length of files, arguments and directories may be anything. `theorems` in `PROJECT.json` lists them
with the properties they state.

### Conditions on the calls

Some properties of the store fail when certain requests race, and the code does
nothing to prevent that. The theorems about them name the condition as an
assumption of their own; they are predicates of the constant `Calls`, defined
in `StoreProperties`, and TLC evaluates in `MCConditions` which runs meet them.

| condition | says | met by | needed because |
|---|---|---|---|
| `OneCreator` | a name is created by one client at most | every store run | two clients are both told by `fileSearch` that the name is free |
| `TwoHands` | no three clients create a name, remove it, and remove or evict | every store run (they have two clients) | an eviction has unlinked a file, its creator makes it again, and a removal that looked it up before unlinks the new record and frees the old one |
| `WritesOnly` | no append and no removal; a written file has a page | `store_evict` | a removal leaves a stale name on the stack and does not decrement `file_n` |
| `OneWriter` | one client writes | `store_evict` | two writers count before either has a name on the stack, and both see the limit not reached |
| `OneClient` | one connection | `store_sequential` | every use of a pointer after the mutex was released, and `fileNRead`, which reads `top` again after it has copied the stack |

`WritesOnly` excludes appends for the sake of the proof: an append may evict
too, and the count of `file_n` is then kept by `FileNDecrease` at another
point.

### The store, for all calls (`StoreProofs`)

* `LocksCorrect`: `TypeOK` and `LockDiscipline` are invariant; `TypeCorrect` and
  `LocksAreReleased` follow.
* `PagesConserved`: no page is lost or owned twice.
* `FilesAreWhole`: an unlocked record has the pages of its size.
* `SendingIsStable`: an action property, a record being sent keeps its size and
  pages as long as it is allocated. It may be freed (`claim_locked`).
* `ServedFilesAreOpen`: a handler that passed `fileOpenCheck` keeps its open.

Neither `TypeOK` nor `LockDiscipline` is inductive alone: that
`pages[ptr[c]]` is well defined in a writing step needs that a writing handler
has a record, and that it keeps it needs that only the owner of the record's
mutex moves between the writing points. A record may be freed under the handler
that has it locked (`freeLocked`); that handler keeps its mutex, the status says
that the record is gone, and no step follows. `TypeStep` and `LockStep`
therefore take both. Relative to the two, `PageConservation` is inductive: pages move only in
`pageGet` and `fileFree` (`PagesFrame`). `WholeFile` is inductive with its
second and third conjuncts, which say what a record being written may miss;
`FullFrame` separates the steps that touch pages from those that only lock.
`OpenWhileServed` needs to know that only `readN` calls reach the points of
`fileNRead` (`ReadNOnly`), because the other calls check the open.

### The table (`StoreProofs`)

* `NamesAreUnique`: `UniqueNames`, given `OneCreator`.
* `NoRecordLeaks`, `NoEntryDangles`: a record out of the table is in the hands
  of the handler that frees it, and none is freed while it is in the table;
  given `OneCreator` and `TwoHands`.

The invariants come in layers. `Requests`: what a handler at a point was asked
for, that its record has the name it asked for as long as it is allocated, and
that one eviction at a time holds `filestack_mutex` while it waits for its
victim. `Entries`: the table holds allocated records, each once. Both hold for all
calls. `Unique` adds that nobody adds a name between its creator's `fileSearch`
and `fileInit` (`StillFree`). `Unlinked` is the invariant behind `NoRecordLost`:
`hashTbSearch` with `DEL` takes a record out by name while `fileFree` frees by
pointer, so one has to know that when a handler unlinks a name, the record it
has in hand is the one found (`UnlinksItself`), or nothing of that name is
(`NoneInstead`), and that no two handlers free one record (`OtherVictim`).

### The refinement of `FileStore` (`StoreProofs`)

`HandlersImplementFileStore`: given `OneCreator` and `TwoHands`,
`Spec => ImplementsFileStore`. `StepImplements` maps every step under the
conjunction of the invariants above (`StoreInv`). A step is compared in three
parts: the records in the table, what each says (name, committed length,
opens), and what each client has still to be granted. Most steps leave all
three alone or only end a request (`QuietStep`, `AnswerStep`). The others have a
lemma each: a create, an open, a close, the end of a write or append
(`EndsImplement`, where the length becomes committed and `WholeFile` says that
the pages are there), a removal and an eviction (`UnlinksImplement`).

### The FileStack (`StackProofs`)

* `StoredFilesAreEvictable`, given `OneCreator`: a written file nobody works on
  is on the stack. The invariant `Listed` says of every file in the table with
  a size that its name is below `top`, or its first write is not over, or it
  has been chosen for eviction. `DefragMoves` and `DefragKeeps` say where
  `fileStackDefrag` puts a name, `TakeKeeps` what `fileStackGetTop` leaves.
* `StackIsExact`, given `OneCreator` and `WritesOnly`. The invariant `Exact`
  says that every name below `top` is that of a file whose write is over, each
  once, and that the array is empty above; then defragmentation changes nothing
  (`DefragExact`) and the victim is always the top (`TakesTop`). That no such
  file is missing is `Listed` again. `SettledAreWritten` and `WrittenAre` carry
  both from sizes to pages with `WholeFile`.
* `CapacityKept`, `FullBeforeEvicting`, given `OneWriter` as well. `FileCount`
  relates `file_n` to `top` at each point of a write and of an eviction.
* `ReadsEverything`, `ReadsEachOnce`, `NoRacesAlone`, given `OneClient`. `InHand` says that the
  record a handler is about to use is in the table, `Visit` that the names left
  in the copy and those visited are together as many as `top`. The names of the
  copy are distinct because `fileStackDefrag` has just left each name once
  (`DefragOnce`), whatever was on the stack before.

### The thread pool (`ThreadPoolProofs`)

* `PoolCorrect`, `ListStaysIntact`, `PoolImplementsTaskPool`. The invariant
  `PoolInv` says that there is a sequence of distinct nodes which `queue`, the
  `next` pointers and `queue_tail` follow, and that these are the allocated ones
  (`ListIs`). Each operation of the list is one of the queue on that sequence,
  which gives the invariant and the step of `TaskPool` together (`PoolStep`).
  `chain`, the recursive function that walks the list, is computed in
  `ChainIsList` without induction: the function that follows the sequence
  satisfies the same equation, and two functions that do cannot differ at a
  least argument (`NatLeast`).

### The main loop (`ServerProofs`)

* `ConnectionsTracked`, `MaxIsEnough`, `HangupServesEveryone`: the safety
  properties of `server_loop`, from `ServerCorrect`.
* `PoolUsed`: the server uses the pool only as `TaskPool` allows, a task being
  added only when nobody has it. With `PoolImplementsTaskPool` this closes the
  argument for the abstract queue in `Server`.

`ServerInv` has three layers: what the threads do (`Threads`: types, the phases
of the pool, that the fixed descriptors stay in the set, that a descriptor
belongs to one client), how the integers in the pipe pair up (`Paired`), and
where the connections are (`Served`). `Paired` is needed because the main thread
reads the pipe two integers at a time: read from the front, a descriptor never
comes before its `fdOpen`, and those still missing are those of the workers
between their two writes. The number of holders of a connection is a sum over
the queue, the workers and the pipe; the `Holders...` lemmas say how each
operation moves one from a place to the next.

### One connection (`ProtocolProofs`)

* `SyncTheorem`: the inductive invariant `SyncInv`, for every page size, memory
  size and number of calls.
* `StaysInStep`: `InStep`, neither side ever reads a field for another one, and
  nothing is left in the socket between two calls, until an answer is `spoiled`.
* `StoresWhatItSaid`, `ReadsWhatWasWritten`, `EndsAsAnEnd`: `AckedStored`,
  `ReadBack` and `ClosesCleanly`.

`InStep` says nothing of what is on its way in the socket in the middle of a
call, so it is far from inductive. `Phase` says it: for each place at which a call of the client can
stand, what the handler has still to read, where it stands, and what is on its
way back (`AtIdle`, `AtAsked`, ..., `AtNextBytes`). When the client has closed,
`Gone` takes its place: the handler reads what was sent before and then
nothing, and may find a request cut short. `Acked` relates what the client was
told to the size of the file between an answer and the next, `LayoutOK` the
size to the pages and each byte to its place in them. All of it holds until an
answer is spoiled, and the proof needs that premise of the state after a step
only where an answer is sent.

Each handler and each piece of a call has a lemma (`SearchStep`, `ReadStep`,
`PutStep`, ..., `OpenFileStep`, `ReadNFilesStep`). A field that arrives is the
one that is expected because what is left to read describes the sequence of
fields on its way (`Flow`, `Brings`), so the lemmas about reads and writes are
stated once for all functions. The arithmetic of pages is in
`WriteKeepsLayout` and `AppendKeepsLayout`: an append away from page ends adds
`pagesFor` of the new size and leaves the bytes before it where they were, and
`ContentsAre` shows that `sendFile` then sends every byte in its order.

### The lists (`PartsProofs`)

* `ListsStayLinked`: `ListsLinked`, for any hash function, any number of
  buckets, records and clients.
* `ListsAreTheTable`: `HashSpec => ImplementsRecordTable`.

`HashInv` says that the cells met from each head are a sequence without
repetition, that `next` and `prev` lead from each to its neighbours in it, that
no cell is in two lists (`Shaped`), and what the cells hold (`Filled`). That
lists share no cell is what makes an operation on one leave the others alone,
and that `prev` is the inverse of `next` is what makes the two ways out of a
list, `hashTbSearch` and `clientPidDelete`, remove one cell and not another.
Every operation is an insertion at the front of one sequence (`AddShape`), a
removal from one (`RemoveShape`) or the end of one (`ClearShape`). What the
loops of the code find follows from the sequence: a cell added at the head is
met first (`WalkAdd`), the first cell a loop takes leaves it the rest
(`WalkFirst`), and a cell it would not take is not missed (`WalkDrop`). For the refinement, the entries of a name are
a walk over its bucket (`AddEntries`, `RemoveEntries`), and how often a client
has a record open is the number of cells that hold it (`Holders`).

### The settings (`PartsProofs`)

`SettingsAreAsWritten`: `LoadedAsWritten`, for all configuration files. The
invariant `ConfigInv` has for each setting found so far the line it was found at
(`Marks`); the lines grow from one setting to the next, which is all that one
pass over the file can promise. For a file that has just the six settings in
order (`Exact`), the line is that of the setting, and loading fails only where a
value is missing or comes round to zero.

### The command line (`CommandLineProofs`)

* `CommandLineIsKept`: `CommandsAsSaid`, for all arguments.
* `CommandsCloseWhatTheyOpen`: `OpensClosed`, for all answers of the API.
* `SendsTheFirst`: `SendsToTheLimit`, for all trees of directories and all
  limits.

The loop of `main` advances by one to four arguments. `AskedInv` is kept because
the arguments a turn passes over are no commands (`Passed`), so they say nothing
by themselves (`OneTurn`); `ReadTurn`, `ReadNTurn` and the others show it for each
command, whichever of its parameters are there. `OpensInv` says that the calls
still to be made fit together (`CallsFit`): after an open comes the call that
closes, also when a failed read skips one, so that at most one file is open
beyond those that failed to close.

`WalkInv` is about the frames of `sendFilesDirectory`. `Remains` says what each
of them has left to visit, `Faithful` that what was sent and what is left are
the whole walk. A frame is called with what its caller had left of the limit, so
until the limit is reached no frame stops early (`FirstOnes`). Afterwards it
gets harder: a frame that meets the limit returns 0 for what it sent, and its
caller goes on as if it had sent nothing. `OnCount` says that without that the
innermost frame knows exactly how many files may still be sent, and `Exactly`
that it holds unless some subdirectory has files on both sides of the limit
(`Forgotten`), which is the case that `SendsToTheLimit` excepts. TLC checked
`WalkInv` on the trees of the run `parts` before it was proved.

### Recursion without induction

`chain`, `Walk` and `visits` are recursive functions, and what they compute has
to be known for arguments of any size. Their equations are proved from the
existence of a solution: were there none, there would be a least depth without
one (`NatLeast`), and from the solution for the depth below it one can be made
(`WalkExists`, `VisitsExist`; for `chain`, the list itself is the solution). The depth of a walk through directories is a
number that each step makes smaller (`WalksShrink`), which exists because
directories are finite and none lies in itself.

### Model-checked only

Liveness (`AloneCompletes`, `TaskIsTaken`, `AllWorkersExit`,
`RequestAnswered`, `HangupCloses`, `InterruptCloses`, `EndNoticed`,
`CallReturns`), which is out of the prover's reach. Every safety property and
every refinement that a passing run checks is stated by a theorem.

## Not modelled

* A call with NULL for a path (`-W ,`) on the wire: the length that is sent is
  an uninitialized variable, and `Protocol` gives every call a path.
* Errors of `malloc`, `select`, `accept` and the `pthread` functions: the code
  prints and goes on or exits.
* Names and contents byte by byte, lines longer than `CONFIG_LINE_MAX`, and
  numbers that are none: no property tells them apart.
* `fileLock` and `fileUnlock` are empty, `lockFile` and `unlockFile` only
  declared.
* `fileStackRemove` and `src/functions.h`: never used.
* The retries of `openConnection`, the delay of `-t`, printing and the files
  `readFile` stores in a directory.
* The test scripts and the makefile; they were read for what they call.

## Plan

1. Done: `FileMemory`, `WorkerFunctions`, `StoreProperties`, `StoreProofs`.
2. Done: `TaskPool`, `ThreadPool` with its refinement, `Server`.
3. Done: `FileStore` and its refinement; `PageLayout`, `Protocol`.
4. Done: `HashTable` with `RecordTable`, `Config`, `CommandLine`.
5. Done: the theorems of `StoreProofs`, `StackProofs`, `ThreadPoolProofs` and
   `ServerProofs`.
6. Done: the theorems of `ProtocolProofs`, `PartsProofs` and
   `CommandLineProofs`.
7. Left: bytes and pages together in `WorkerFunctions`, with the limit of memory
   checked in bytes against the pages handed out.
