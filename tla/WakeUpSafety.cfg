SPECIFICATION Spec
CONSTANTS
    Flushers = {g1, g2}
    Waiters = {w1}
    Cap = 2
    SendChCap = 1
    MaxPut = 3
    MaxHotRestart = 1
    Failures = TRUE
    Nothing = Nothing
INVARIANTS NoLostWakeUp FramesIntact
SYMMETRY FlusherSymmetry
CHECK_DEADLOCK FALSE
