-------------------------------- MODULE MCEgz -------------------------------
(* Instances of Egz for TLC; the constants are numbers, set in the cfg files. *)
EXTENDS EgzInv
=============================================================================
