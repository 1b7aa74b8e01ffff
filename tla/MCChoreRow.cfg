\* Two transactions of any kind, with fairness (no symmetry).
SPECIFICATION FairSpec
CONSTANTS
    ann = ann
    bob = bob
    r1 = r1
    r2 = r2
    NoUser = NoUser
    NoRequest = NoRequest
    Users = {ann, bob}
    Requests = {r1, r2}
    Kinds <- AllKinds
INVARIANTS
    OneAward
PROPERTIES
    ClosedForGood
    KeepsLifecycle
    EveryRequestEnds
\* Every transaction runs once and then the model stops.
CHECK_DEADLOCK FALSE
