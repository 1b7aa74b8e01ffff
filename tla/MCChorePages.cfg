\* Up to five rows, in at most two pages of two.
SPECIFICATION PagesSpec
CONSTANTS
    dishes = dishes
    bins = bins
    SeriesOf <- Alternating
    Instances = {1, 2, 3, 4, 5}
    Series = {dishes, bins}
    LastStamp = 1
    PageSize = 2
    MaxPages = 2
INVARIANTS
    NothingLeftOut
    NoRowTwice
