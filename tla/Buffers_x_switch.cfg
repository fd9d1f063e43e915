SPECIFICATION Spec
CONSTANTS
    Objects = {1, 2}
    Busy = {1}
    FileSizes = {0, 2}
    Zero = 0
    Junk = Junk
    Page = 2
    InitReq = 2
    Thresholds = {0, 2}
    MaxItems = 3
    MaxCalls = 4
    SwitchMayFail = TRUE
CHECK_DEADLOCK FALSE
INVARIANT HoldsWhatWasPut
