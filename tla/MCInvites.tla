------------------------------- MODULE MCInvites -------------------------------
(* Constants for the model checker. *)
EXTENDS Invites, TLC

CONSTANTS ann, bob, cat, r1, r2, r3, r4

Symmetry == Permutations(Requests) \cup Permutations(Users \ {Founder})
=============================================================================
