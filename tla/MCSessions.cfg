\* Two calls at once, a login and a refresh.
SPECIFICATION Spec
CONSTANTS
    MaxTokens = 2
    MaxLate = 1
    MaxEvents = 2
    Calls = {c1, c2}
INVARIANTS
    NoTokenUsedTwice
    SessionsLast
    NothingStoredWhileOut
    NobodyWaitsInVain
CONSTRAINT FewEvents
SYMMETRY Symmetry
\* Tokens are bounded.
CHECK_DEADLOCK FALSE
