\* Three accounts and one series over three due dates, backfilled a day late.
SPECIFICATION Spec
CONSTANTS
    ann = ann
    bob = bob
    cat = cat
    d1 = d1
    NoUser = NoUser
    Users <- Three
    Definitions = {d1}
    EffortLevels = {"easy"}
    Intervals = {1}
    DaysAhead = 0
    GraceDays = 1
    LastDay = 2
    MaxPointer = 3
SYMMETRY Symmetry
INVARIANTS
    AtLeastOneAdmin
    OpenChoresHeldByMembers
    LedgerMatchesCompletions
    DeletedSeriesHasNothingPending
PROPERTIES
    PointsAreKept
    DailyJobIsIdempotent
    EveryChoreKeepsItsLifecycle
\* The clock, the pointer and the accounts are bounded, and a deleted
\* household has nothing left to do.
CHECK_DEADLOCK FALSE
