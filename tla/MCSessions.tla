------------------------------ MODULE MCSessions ------------------------------
EXTENDS Sessions, TLC

CONSTANTS MaxEvents     \* bound: kinds of disturbance in one behaviour

\* Calls differ in nothing but their name.
Symmetry == Permutations(Calls)

FewEvents == Cardinality(events) <= MaxEvents
=============================================================================
