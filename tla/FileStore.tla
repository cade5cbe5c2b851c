------------------------------ MODULE FileStore ------------------------------
(***************************************************************************)
(* What the file store promises its clients (FileMemory.c behind           *)
(* workerFunctions.c): a set of files, each with a name, a length and the  *)
(* clients that have it open, on which every request takes effect in one   *)
(* step, at most once, on a file of the name it asks for and only as far   *)
(* as the client that made it may; a file goes away because a client that  *)
(* has it open removes it or because a write or an append needs room.      *)
(*                                                                         *)
(* A file is named by its record, not by its name: two clients that create *)
(* one name at the same time get two files.  WorkerFunctions refines this  *)
(* store with records, locks, pages and interleaved handlers.              *)
(***************************************************************************)
EXTENDS Naturals

CONSTANTS
    Clients,     \* the clients, each with at most one request
    Names,       \* path names
    FileIds,     \* files that may exist
    Capacity,    \* the memory, in pages
    NULL         \* no name

VARIABLES
    files,       \* the files stored
    name,        \* their names
    length,      \* their lengths, in pages; 0: created and not yet written
    openers,     \* openers[f][c]: how often c has opened f
    request      \* the request of each client that has not taken effect yet

storeVars == <<files, name, length, openers>>
fsVars == <<storeVars, request>>

Requests == [op : {"create", "open", "close", "read", "write", "append", "remove", "readN"},
             name : Names \cup {NULL}, n : Nat]
NoRequest == [op |-> "open", name |-> NULL, n |-> 0]

Nobody == [c \in Clients |-> 0]

Init ==
    /\ files = {}
    /\ name = [f \in FileIds |-> NULL]
    /\ length = [f \in FileIds |-> 0]
    /\ openers = [f \in FileIds |-> Nobody]
    /\ request = [c \in Clients |-> NoRequest]

Done(c) == request' = [request EXCEPT ![c] = NoRequest]

Request(c) ==
    /\ request[c] = NoRequest
    /\ request'[c] \in Requests
    /\ request' = [request EXCEPT ![c] = request'[c]]
    /\ UNCHANGED storeVars

(* A request that is refused, or that only reads.                          *)
Answer(c) == Done(c) /\ UNCHANGED storeVars

(* c asks for op on a file of this name.                                   *)
Asks(c, ops, f) ==
    /\ request[c].op \in ops
    /\ f \in files
    /\ request[c].name = name[f]

(* openFile with O_CREATE makes the file, and has still to open it.        *)
Create(c, f) ==
    /\ request[c].op = "create"
    /\ f \notin files
    /\ files' = files \cup {f}
    /\ name' = [name EXCEPT ![f] = request[c].name]
    /\ request' = [request EXCEPT ![c].op = "open"]
    /\ UNCHANGED <<length, openers>>

Open(c, f) ==
    /\ Asks(c, {"open"}, f)
    /\ openers' = [openers EXCEPT ![f][c] = @ + 1]
    /\ Done(c)
    /\ UNCHANGED <<files, name, length>>

Close(c, f) ==
    /\ Asks(c, {"close"}, f)
    /\ openers' = [openers EXCEPT ![f][c] = IF @ = 0 THEN 0 ELSE @ - 1]
    /\ Done(c)
    /\ UNCHANGED <<files, name, length>>

(* A file is written once, whole, and appended to after that.              *)
Extend(c, f) ==
    /\ openers[f][c] > 0
    /\ length[f] + request[c].n <= Capacity
    /\ length' = [length EXCEPT ![f] = @ + request[c].n]
    /\ Done(c)
    /\ UNCHANGED <<files, name, openers>>

Write(c, f) == Asks(c, {"write"}, f) /\ length[f] = 0 /\ Extend(c, f)
Append(c, f) == Asks(c, {"append"}, f) /\ length[f] > 0 /\ Extend(c, f)

Delete(f) ==
    /\ files' = files \ {f}
    /\ name' = [name EXCEPT ![f] = NULL]
    /\ length' = [length EXCEPT ![f] = 0]
    /\ openers' = [openers EXCEPT ![f] = Nobody]

Remove(c, f) == Asks(c, {"remove"}, f) /\ openers[f][c] > 0 /\ Delete(f) /\ Done(c)

(* A write or an append that needs room.                                   *)
Evict(c, f) ==
    /\ request[c].op \in {"write", "append"}
    /\ f \in files
    /\ Delete(f)
    /\ UNCHANGED request

Next ==
    \E c \in Clients :
        \/ Request(c) \/ Answer(c)
        \/ \E f \in FileIds :
              \/ Create(c, f) \/ Open(c, f) \/ Close(c, f)
              \/ Write(c, f) \/ Append(c, f) \/ Remove(c, f) \/ Evict(c, f)

Spec == Init /\ [][Next]_fsVars

=============================================================================
