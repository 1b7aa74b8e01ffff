---------------------------- MODULE MCHousehold ----------------------------
(* The instances of Household that TLC explores. *)
EXTENDS Household, TLC

CONSTANTS ann, bob, cat, d1

Three == {ann, bob, cat}

\* The users are interchangeable: Init ranges over all of them and no
\* definition names one.
Symmetry == Permutations(Users)
=============================================================================
