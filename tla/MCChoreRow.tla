----------------------------- MODULE MCChoreRow -----------------------------
(* The instances of ChoreRow that TLC explores. *)
EXTENDS ChoreRow

CONSTANTS ann, bob, r1, r2
=============================================================================
