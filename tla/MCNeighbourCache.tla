-------------------------- MODULE MCNeighbourCache --------------------------
(* NeighbourCache with its nodes interchangeable. *)
EXTENDS NeighbourCache, TLC

Interchangeable == Permutations(Nodes)
=============================================================================
