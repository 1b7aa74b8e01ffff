------------------------------ MODULE MCDailyRun ------------------------------
(* Constants for the model checker. *)
EXTENDS DailyRun

CONSTANTS w1, w2, d1
=============================================================================
