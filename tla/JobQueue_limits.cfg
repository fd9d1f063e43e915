SPECIFICATION MCFairSpec
CONSTANTS
    Kind = "weight_jobque"
    Producers = {p1, p2}
    Workers = {w1, w2}
    Controllers = {c1}
    Timed = {w1}
    ControlOps = {"close"}
    Weights = {1, 2}
    Limits = {1, 2}
    InitLimit = 2
    MaxPut = 3
    MaxControl = 2
    Scenarios = {"aborted", "bounded", "resized", "synced"}
CHECK_DEADLOCK FALSE
INVARIANTS LimitKept NobodyForgotten FifoNoLoss
PROPERTY BlockedReturns
