SPECIFICATION Spec
CONSTANTS
    Sigs = {"CHLD"}
    Masks = {{"CHLD"}}
    MaxSent = 0
    Procs = {p, q}
CHECK_DEADLOCK FALSE
INVARIANT IteratorIsValid
