\* Three people, two chores, a week's end and the next day a month's.  A
\* household that has been deleted asks for nothing more.
SPECIFICATION BoardSpec
CONSTANTS
    People = {1, 2, 3}
    Nobody = 0
    Chores = {1, 2}
    PointsOf <- MediumOnes
    FirstDay <- TwoBoundaries
    Days = 2
    MaxChanges = 1
    Series <- SomeSeries
    DaysAhead = 35
    GraceDays = 3
INVARIANTS
    BoardIsRight
    CadenceIsKept
CHECK_DEADLOCK FALSE
