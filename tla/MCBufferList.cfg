SPECIFICATION Spec
CONSTANTS
    Procs = {p1, p2, p3}
    Poppers = {p1}
    N = 3
    MaxRetry = 2
    MultiSlice = TRUE
INVARIANTS NoDoubleAllocation FreeListIntact SizeAccounting
SYMMETRY PusherSymmetry
