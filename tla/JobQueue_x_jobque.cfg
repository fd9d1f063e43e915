SPECIFICATION Spec
CONSTANTS
    Kind = "jobque"
    Producers = {p1}
    Workers = {w1}
    Controllers = {c1}
    Timed = {}
    ControlOps = {"abort", "reset"}
    Weights = {1}
    Limits = {1}
    InitLimit = 1
    MaxPut = 2
    MaxControl = 2
CHECK_DEADLOCK FALSE
INVARIANT IdleMeansAllCommitted
