SPECIFICATION MCFairSpec
CONSTANTS
    BoxUsers = {1, 2}
    BoxTimed = {2}
    MaxKeys = 2
    MaxCopies = 1
    MaxMsg = 2
    Borrowers = {1, 2, 3}
    ChunkSize = 2
    ChunkLimit = 2
    Waitable = TRUE
    MayMove = TRUE
    MaxHeld = 2
    MaxGets = 5
    Putters = {1, 2}
    Getters = {3, 4}
    PipeTimed = {1, 3}
    Controls = {"close", "abort"}
    MaxElems = 3
    FPipeTimed = {"putter", "getter"}
    NElm = 2
    MayAbort = TRUE
    MaxPut = 5
    BufSize = 2
    MayThrow = TRUE
    MayStop = TRUE
    MaxItems = 5
    MaxLog = 3
CHECK_DEADLOCK FALSE
INVARIANTS NoLostWakeup OneOwner InOrder ReadAsWritten
PROPERTY WaitReturns
