SPECIFICATION ThreadsFairSpec
CONSTANTS
    N = 3
    Capacity = 3
    MaxPuts = 7
    MaxRounds = 2
    MaxSets = 2
    MaxUps = 2
CHECK_DEADLOCK FALSE
INVARIANTS JoinMeansOver AllOrNothing UnfinishedCounts BuffersApart ProcessedInOrder RoundIsComplete
           NobodySleepsOn TakenOnce AllMet
PROPERTIES AllFinishIsLast AllReturn
