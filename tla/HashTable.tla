----------------------------- MODULE HashTable -----------------------------
(***************************************************************************)
(* The doubly linked lists of FileMemory.c: the buckets of the hash table  *)
(* and the clients_opened list of every record, cell by cell.  Every       *)
(* operation runs under hashTB_mutex or the mutex of its record, so it is  *)
(* one step.  A hash entry and the cell that holds it are allocated and    *)
(* freed together and are one cell here.  Two names are equal when their   *)
(* keys and their characters are; keys of different names may be equal.    *)
(***************************************************************************)
EXTENDS Integers, Sequences, FiniteSetsExt

CONSTANTS
    Clients, Names, FileIds, NULL,
    Cells,         \* addresses of DL_List cells
    Buckets,       \* 0 .. c_file_hash_tb_size-1
    Pos,           \* Pos[n]: hashKey(n) % c_file_hash_tb_size
    MaxOpens       \* bound: how often a record is opened at a time

ASSUME HashTableAssumption ==
    /\ Cells \subseteq Nat /\ IsFiniteSet(Cells) /\ FileIds \subseteq Nat
    /\ Pos \in [Names -> Buckets]
    /\ NULL \notin Cells \cup FileIds \cup Clients \cup Names
    /\ Buckets \cap FileIds = {}

VARIABLES
    head,          \* TB->table[i] and clients_opened: the first cell
    next, prev, data,   \* the fields of a cell
    used,          \* the cells that are allocated
    abspath,       \* the name of a record; NULL: no record
    up,            \* the server has not destroyed the table
    taken          \* the records out of the table, each with the name it was
                   \* looked up by: what fileDelete and fileDeleteFIFO hold

hashVars == <<head, next, prev, data, used, abspath, up, taken>>

Lists == Buckets \cup FileIds

HashInit ==
    /\ head = [l \in Lists |-> NULL]
    /\ next = [x \in Cells |-> NULL]
    /\ prev = [x \in Cells |-> NULL]
    /\ data = [x \in Cells |-> NULL]
    /\ used = {}
    /\ abspath = [f \in FileIds |-> NULL]
    /\ up = TRUE
    /\ taken = {}

(* What gives[x] is of the cells met from h on, one after the other, as    *)
(* every loop over a list meets them.  A list bent into a circle is cut    *)
(* after all the cells there are.                                          *)
Walk(h, link, gives) ==
    LET from[k \in 0 .. Cardinality(Cells) + 1] ==
            [x \in Cells \cup {NULL} |->
                IF x = NULL \/ k = 0 THEN <<>> ELSE gives[x] \o from[k - 1][link[x]]]
    IN  from[Cardinality(Cells) + 1][h]

Chain(l) == Walk(head[l], next, [x \in Cells |-> <<x>>])
CellsOf(l) == { Chain(l)[i] : i \in DOMAIN Chain(l) }

Records == { f \in FileIds : abspath[f] # NULL }
Entries == { data[x] : x \in UNION { CellsOf(b) : b \in Buckets } }

-----------------------------------------------------------------------------
(* DL_ListAdd.  Which free cell is taken makes no difference.              *)
DL_ListAdd(l, d) ==
    LET x == Min(Cells \ used)
    IN  /\ Cells # used
        /\ used' = used \cup {x}
        /\ data' = [data EXCEPT ![x] = d]
        /\ next' = [next EXCEPT ![x] = head[l]]
        /\ prev' = [y \in Cells |-> IF y = x THEN NULL
                                    ELSE IF y = head[l] THEN x ELSE prev[y]]
        /\ head' = [head EXCEPT ![l] = x]

(* The first cell of l leaves it: hashTbSearch, DL_ListTake.               *)
withoutHead(l) ==
    [head |-> [head EXCEPT ![l] = next[head[l]]],
     next |-> next,
     prev |-> [y \in Cells |-> IF y = next[head[l]] THEN NULL ELSE prev[y]]]

(* DL_ListDeleteCell, of a cell that is not the first.                     *)
withoutCellNoPrev(x) ==                               \* mutant: prev not moved
    [head |-> head, next |-> [next EXCEPT ![prev[x]] = next[x]], prev |-> prev]
withoutCell(x) ==
    [head |-> head,
     next |-> [next EXCEPT ![prev[x]] = next[x]],
     prev |-> [y \in Cells |-> IF y = next[x] THEN prev[x] ELSE prev[y]]]

Without(l, x) == IF x = head[l] THEN withoutHead(l) ELSE withoutCell(x)

(* The lists become those of h; of the cells gone from them, those in free  *)
(* are freed.  Nobody reads the links of a cell that is in no list.         *)
Becomes(h, gone, free) ==
    LET without(field, ys) == [y \in Cells |-> IF y \in ys THEN NULL ELSE field[y]]
    IN  /\ head' = h.head
        /\ next' = without(h.next, gone)
        /\ prev' = without(h.prev, gone)
        /\ data' = without(data, free)
        /\ used' = used \ free

(* The first cell of a list for which the loop stops, NULL if it runs out. *)
FirstCell(l, Hits) ==
    LET at == { i \in DOMAIN Chain(l) : Chain(l)[i] \in Hits }
    IN  IF at = {} THEN NULL ELSE Chain(l)[CHOOSE i \in at : \A j \in at : i <= j]

-----------------------------------------------------------------------------
(* The hash table.                                                         *)

holdsFirst(n) == CellsOf(Pos[n])                      \* mutant: names not compared
holds(n) == { x \in CellsOf(Pos[n]) : abspath[data[x]] = n }

(* fileInit: a record that is not in the table yet.                        *)
hashTbAdd(n, f) ==
    /\ up
    /\ FileIds # Records
    /\ f = Min(FileIds \ Records)
    /\ abspath' = [abspath EXCEPT ![f] = n]
    /\ DL_ListAdd(Pos[n], f)
    /\ UNCHANGED <<up, taken>>

(* hashTbSearch with flag DEL, which finds something.                      *)
hashTbRemove(n) ==
    LET x == FirstCell(Pos[n], holds(n))
    IN  /\ up
        /\ x # NULL
        /\ Becomes(Without(Pos[n], x), {x}, {x})
        /\ taken' = taken \cup {<<n, data[x]>>}
        /\ UNCHANGED <<abspath, up>>

(* fileFree of a record that has left the table, with the list of the      *)
(* clients that have it open.                                              *)
fileFree(f) ==
    /\ f \in Records \ Entries
    /\ Becomes([head |-> [head EXCEPT ![f] = NULL], next |-> next, prev |-> prev],
               CellsOf(f), CellsOf(f))
    /\ abspath' = [abspath EXCEPT ![f] = NULL]
    /\ taken' = { t \in taken : t[2] # f }
    /\ UNCHANGED up

-----------------------------------------------------------------------------
(* The clients that have a record open.                                    *)

fileOpen(f, c) ==
    /\ up
    /\ f \in Records
    /\ Len(Chain(f)) < MaxOpens
    /\ DL_ListAdd(f, c)
    /\ UNCHANGED <<abspath, up, taken>>

(* clientPidDelete.  A first cell that has a successor is not freed.       *)
clientPidDelete(f, c) ==
    LET x == FirstCell(f, { y \in CellsOf(f) : data[y] = c })
    IN  /\ up
        /\ f \in Records
        /\ x # NULL
        /\ Becomes(Without(f, x), {x}, IF x = head[f] /\ next[x] # NULL THEN {} ELSE {x})
        /\ UNCHANGED <<abspath, up, taken>>

-----------------------------------------------------------------------------
(* memoryClean: the workers are gone, and hashTbDestroy takes the entries  *)
(* of each bucket one by one and frees their records.                      *)

memoryClean ==
    /\ up
    /\ Records = Entries
    /\ up' = FALSE
    /\ UNCHANGED <<head, next, prev, data, used, abspath, taken>>

hashTbDestroy ==
    /\ ~up
    /\ Records = Entries
    /\ \E b \in { l \in Buckets : head[l] # NULL } :
          /\ Becomes(withoutHead(b), {head[b]}, {head[b]})
          /\ taken' = taken \cup {<<abspath[data[head[b]]], data[head[b]]>>}
    /\ UNCHANGED <<abspath, up>>

-----------------------------------------------------------------------------

HashNext ==
    \/ \E n \in Names : hashTbRemove(n) \/ \E f \in FileIds : hashTbAdd(n, f)
    \/ \E f \in FileIds : fileFree(f)
                          \/ \E c \in Clients : fileOpen(f, c) \/ clientPidDelete(f, c)
    \/ memoryClean \/ hashTbDestroy

HashSpec == HashInit /\ [][HashNext]_hashVars

-----------------------------------------------------------------------------

InUse == Buckets \cup Records

(* The lists are doubly linked: prev leads back over the cells next leads  *)
(* over, whatever cells were added at the head and removed at the head, in *)
(* the middle and at the end, and no list leads to a freed cell or into    *)
(* another one.  No cell is lost when a list or a record goes, except some *)
(* of clients_opened (workerFunctions.c:357).                              *)
Reached == UNION { CellsOf(l) : l \in InUse }
ListsLinked ==
    /\ \A l \in InUse :
          /\ Len(Chain(l)) <= Cardinality(Cells)
          /\ CellsOf(l) \subseteq used
          /\ \A i \in DOMAIN Chain(l) :
                prev[Chain(l)[i]] = IF i = 1 THEN NULL ELSE Chain(l)[i - 1]
    /\ \A l, m \in InUse : l # m => CellsOf(l) \cap CellsOf(m) = {}
    /\ \A x \in used \ Reached : data[x] \in Clients

(* Equal names apart from the hash and the bucket they fall in: what       *)
(* hashTbSearch returns and removes, and what clientOpenSearch counts.     *)
entriesOf(n) ==
    Walk(head[Pos[n]], next, [x \in Cells |-> IF abspath[data[x]] = n THEN <<data[x]>> ELSE <<>>])

Table == INSTANCE RecordTable WITH
    entries <- [n \in Names |-> entriesOf(n)],
    live <- Records,
    opened <- [f \in FileIds |-> [c \in Clients |->
                 IF f \in Records THEN Cardinality({ x \in CellsOf(f) : data[x] = c }) ELSE 0]]

(* Buckets shared by several names, and lists changed cell by cell, are    *)
(* the table that FileMemory works with.                                   *)
ImplementsRecordTable == Table!TableSpec

=============================================================================
