------------------------------- MODULE MCRaft -------------------------------
(* Instances of Raft for TLC. *)
EXTENDS RaftInv, TLC

\* Nodes are interchangeable: no definition tells them apart.
Symmetry == Permutations(Node)
=============================================================================
