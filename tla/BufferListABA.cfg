SPECIFICATION Spec
CONSTANTS
    Procs = {p1, p2}
    Poppers = {p1, p2}
    N = 4
    MaxRetry = 2
    MultiSlice = FALSE
INVARIANT NoDoubleAllocation
