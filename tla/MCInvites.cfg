\* Four requests of any kind about the invites of one household.
SPECIFICATION Spec
CONSTANTS
    ann = ann
    bob = bob
    cat = cat
    r1 = r1
    r2 = r2
    r3 = r3
    r4 = r4
    Users = {ann, bob, cat}
    Founder = ann
    Requests = {r1, r2, r3, r4}
    TTL = 5
    LastInstant = 9
SYMMETRY Symmetry
INVARIANTS
    SingleUse
    OneOpenInvite
    EndedIsRefused
PROPERTIES
    HouseholdGoesWithItsLastMember
\* Every request is made once and then the model stops.
CHECK_DEADLOCK FALSE
