\* Four members and a pointer that goes round them three times.
SPECIFICATION Spec
CONSTANTS
    ann = ann
    bob = bob
    cat = cat
    dan = dan
    NoUser = NoUser
    Users = {ann, bob, cat, dan}
    MaxBatch = 3
    MaxPointer = 12
SYMMETRY Symmetry
INVARIANTS
    FairTurns
    BatchIsOneByOne
PROPERTIES
    FirstLapDeparturesSkipNobody
