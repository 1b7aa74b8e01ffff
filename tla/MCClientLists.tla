----------------------------- MODULE MCClientLists -----------------------------
(* Constants for the model checker. *)
EXTENDS ClientLists, TLC

CONSTANTS milk, bread, ann, bob, c1, c2

\* Beside a change of another device, and after it, one write at a time.
OneWriteAtATime == foreign > 0 => Cardinality(InFlight) <= 1

Symmetry == Permutations(Items) \cup Permutations(Texts) \cup Permutations(Calls)
=============================================================================
