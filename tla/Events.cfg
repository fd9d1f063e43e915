SPECIFICATION EventsFairSpec
CONSTANTS
    Callers = {1}
    EvFds = {1, 2, 3, 4, 5}
    EvIds = {1, 2, 3, 4, 5}
    Batch = 3
    MaxConns = 3
    MaxRefused = 2
    MaxMsgs = 2
    MaxTicks = 2
    MaxCalls = 2
    MaxWork = 4
    MaxFlags = 2
    Submitters = {1, 2, 3}
    Switchers = {1}
    Flags = {"a", "b"}
    Wants = {{"a"}, {"a", "b"}}
    Owners = {1}
    MaxCbs = 2
    Committers = {1, 2}
    EvNames = {"go", "a", "b", "back", "both"}
    Table <- TwoStates
    Combined <- BothEvents
    Initials <- TwoInitials
    Terminals <- TwoTerminals
    Trigger = "go"
    Services = {"s1", "s2"}
    Prios = {0, 1}
    EvNumbers = {1, 2}
    Handlers = {"h1", "h2"}
    MaxSets = 2
    Proxies = {"p", "q"}
    MaxInstalls = 3
CHECK_DEADLOCK FALSE
INVARIANTS TableFollows ServicesHear WorkIsDone
PROPERTY DoneInTheEnd
