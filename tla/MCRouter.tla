-------------------------------- MODULE MCRouter --------------------------------
(* Constants for the model checker. *)
EXTENDS Router

CONSTANTS t1, t2
=============================================================================
