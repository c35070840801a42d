------------------------------- MODULE MCPier -------------------------------
(* Instances of Pier for TLC; the constants are numbers, set in the cfg files. *)
EXTENDS Pier
=============================================================================
