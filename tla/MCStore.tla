------------------------------ MODULE MCStore ------------------------------
(***************************************************************************)
(* Instances of the store for TLC: who calls what, and how often.          *)
(***************************************************************************)
EXTENDS StoreProperties

CONSTANTS c1, c2, a, b, c, f1, f2, f3, p1, p2, p3

(* The calls with these operations on every name, of n pages each.         *)
On(ops, n) == [op : ops, name : Names, n : {n}]
ReadN(N) == [op : {"readN"}, name : {NULL}, n : N]

(* Every set of calls treats names alike, and no property names a name, a  *)
(* record or a page.                                                       *)
Interchangeable == Permutations(Names) \cup Permutations(FileIds) \cup Permutations(Pages)

(* One connection, every operation.                                        *)
SequentialCalls == c1 :> (On({"create", "read", "remove"}, 0) \cup On({"write", "append"}, 1) \cup ReadN({0}))
SequentialMax == c1 :> 9

(* One client fills the store, another opens, closes, reads, writes and removes. *)
SharedCalls ==
    c1 :> (On({"create"}, 0) \cup On({"write", "append"}, 1)) @@
    c2 :> (On({"open", "close", "read", "remove"}, 0) \cup On({"write"}, 1) \cup ReadN({0, 1}))
SharedMax == c1 :> 5 @@ c2 :> 3

(* One client fills the store, another reads from it.                      *)
EvictCalls ==
    c1 :> (On({"create"}, 0) \cup On({"write"}, 1) \cup On({"write"}, 2)) @@
    c2 :> (On({"open", "read"}, 0) \cup ReadN({0, 1}))
EvictMax == c1 :> 6 @@ c2 :> 1

(* One client appends to its file while another writes a file of two pages. *)
AppendCalls ==
    c1 :> (On({"create"}, 0) \cup On({"write", "append"}, 1)) @@
    c2 :> (On({"open"}, 0) \cup On({"write"}, 2))
AppendMax == c1 :> 4 @@ c2 :> 2

(* The conditions of StoreProperties that these sets of calls meet.        *)
ASSUME MCConditions ==
    /\ OneCreator
    /\ TwoHands
    /\ Calls = EvictCalls => WritesOnly /\ OneWriter
    /\ Clients = {c1} => OneClient

=============================================================================
