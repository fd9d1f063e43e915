SPECIFICATION FairSpec
CONSTANTS
    N = 2
    Capacity = 2
    SameType = TRUE
    MayCrash = {2}
    EndAnytime = FALSE
    MaxPut = 5
    MaxRounds = 2
CHECK_DEADLOCK FALSE
PROPERTY DriverReturns
