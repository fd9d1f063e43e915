SPECIFICATION MCFairSpec
CONSTANTS
    Sigs = {"CHLD", "USR1", "TERM"}
    Masks = {{}, {"CHLD"}, {"USR1"}, {"TERM"}, {"CHLD", "USR1", "TERM"}}
    MaxSent = 2
    Procs = {p, q}
    Given = {q}
    N = 2
    Ways = {"command", "socket", "fds"}
    MaxFd = 10
    CloseLimit = 256
    MaxItems = 4
    BufSize = 2
    Room = 1
    Failing = {1, 2}
    ForkFails = TRUE
CHECK_DEADLOCK FALSE
INVARIANTS SignalOnce FinishAfterStart OnlyItsOwn
PROPERTY HandledInTheEnd
