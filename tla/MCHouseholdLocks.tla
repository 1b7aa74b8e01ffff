-------------------------- MODULE MCHouseholdLocks --------------------------
(* The instances of HouseholdLocks that TLC explores. *)
EXTENDS HouseholdLocks, TLC

CONSTANTS r1, r2, r3, c1, c2

Symmetry == Permutations(Requests) \cup Permutations(Chores)
=============================================================================
