SPECIFICATION MCFairSpec
CONSTANTS
    Kind = "weight_jobque"
    Producers = {p1, p2}
    Workers = {w1, w2}
    Controllers = {c1, c2}
    Timed = {w1}
    ControlOps = {"close"}
    Weights = {1, 2}
    Limits = {1, 2}
    InitLimit = 2
    MaxPut = 2
    MaxControl = 1
    Scenarios = {"weight_jobque", "jobque"}
CHECK_DEADLOCK FALSE
INVARIANTS TypeOK OnePlace NoLostWakeup ClosedIsFinished
PROPERTIES ImplementsService ImplementsFairService CallsReturn
