----------------------------- MODULE MCRotation -----------------------------
(* The instance of Rotation that TLC explores. *)
EXTENDS Rotation, TLC

CONSTANTS ann, bob, cat, dan

Symmetry == Permutations(Users)
=============================================================================
