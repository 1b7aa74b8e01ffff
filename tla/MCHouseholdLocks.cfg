\* Three transactions, of any kind.
SPECIFICATION Spec
CONSTANTS
    r1 = r1
    r2 = r2
    r3 = r3
    c1 = c1
    c2 = c2
    Requests = {r1, r2, r3}
    Kinds <- AllKinds
    Chores = {c1, c2}
    MaxBatch = 2
SYMMETRY Symmetry
INVARIANTS
    NoAssignmentLost
    NoTurnTwice
    OrderlyNeverDeadlock
\* Every transaction runs once and then the model stops.
CHECK_DEADLOCK FALSE
