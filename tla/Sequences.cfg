SPECIFICATION Spec
CONSTANTS
    Undef = Undef
    MaxLen = 4
    MaxArg = 3
    Sizes = {0, 1, 3, 4, 8}
    Keys = {0, 1, 5}
CHECK_DEADLOCK FALSE
INVARIANTS Yields StaysInside DistanceCounts SortedAndWhole ComesBack
