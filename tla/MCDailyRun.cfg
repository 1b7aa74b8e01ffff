\* Two workers, a daily chore over three days, one crash or error.
SPECIFICATION FairSpec
CONSTANTS
    w1 = w1
    w2 = w2
    d1 = d1
    Workers = {w1, w2}
    Definitions = {d1}
    DaysAhead = 0
    GraceDays = 1
    LastDay = 2
    MaxFaults = 1
INVARIANTS
    NoRunFailsOnADuplicate
    DeletedSeriesStayQuiet
    AnnouncedOnce
PROPERTIES
    EveryDueDateIsSeenTo
\* The clock stops on the last day.
CHECK_DEADLOCK FALSE
