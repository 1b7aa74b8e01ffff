\* Two requests in flight.
SPECIFICATION Spec
CONSTANTS
    ann = ann
    bob = bob
    cat = cat
    r1 = r1
    r2 = r2
    Users = {ann, bob, cat}
    Requests = {r1, r2}
INVARIANTS
    AtLeastOneAdmin
