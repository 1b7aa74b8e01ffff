----------------------------- MODULE MCChorePages -----------------------------
(* Constants for the model checker. *)
EXTENDS ChorePages

CONSTANTS dishes, bins

Alternating == [i \in Instances |-> IF i % 2 = 1 THEN dishes ELSE bins]
=============================================================================
