SPECIFICATION Spec
CONSTANTS
    c1 = c1
    c2 = c2
    Conns = {c1, c2}
    Fds = {3, 4}
    None = None
    Kinds = {"fallback", "invalid"}
    Plans <- MCPlans
    InitialLen = 2
    ResizeLen = 2
    OnDataThreshold = 4
    Room = 1
    WriteLen = 2
INVARIANTS EventsMeetOpenFiles EventsInOrder NoEdgeLost
PROPERTIES BlockedWriteReturns ClosedMeansReleased
CHECK_DEADLOCK FALSE
