------------------------------ MODULE MCServer ------------------------------
(***************************************************************************)
(* Instances of the server for TLC.                                        *)
(***************************************************************************)
EXTENDS Server, TLC

CONSTANTS c1, c2, c3, w1, w2

Connections == 8 .. 7 + Cardinality(Clients)
Interchangeable == Permutations(Clients) \cup Permutations(Workers)

=============================================================================
