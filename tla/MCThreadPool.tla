---------------------------- MODULE MCThreadPool ----------------------------
(***************************************************************************)
(* Instances of the thread pool for TLC.                                   *)
(***************************************************************************)
EXTENDS ThreadPool, TLC

CONSTANTS w1, w2, w3, t1, t2, t3, t4, n1, n2, n3, n4, n5

Interchangeable == Permutations(Workers) \cup Permutations(Nodes)

=============================================================================
