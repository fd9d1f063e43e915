SPECIFICATION SortSpec
CONSTANTS
    Sorts = {"msort"}
    Named = {"msort"}
    Sizes = {2, 3}
    Keys = {0, 1}
    KeyMask = {0}
    MaxLevel = 1
    MtThreshold = 2
    Threshold = 2
    MaxDepth = 1
CHECK_DEADLOCK FALSE
INVARIANT NothingLost
