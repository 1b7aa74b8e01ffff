\* Two rows, two requests at once, or one beside a change of another device.
SPECIFICATION ListsSpec
CONSTANTS
    milk = milk
    bread = bread
    ann = ann
    bob = bob
    c1 = c1
    c2 = c2
    NoRow = NoRow
    Items = {milk, bread}
    Texts = {ann, bob}
    Calls = {c1, c2}
    MaxWrites = 2
    MaxForeign = 1
SYMMETRY Symmetry
CONSTRAINT OneWriteAtATime
INVARIANTS
    ShownIsStored
    ListedOnce
