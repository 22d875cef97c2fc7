SPECIFICATION FairSpec
CONSTANTS
    Flushers = {g1, g2}
    Waiters = {w1, w2}
    Cap = 1
    SendChCap = 1
    MaxPut = 2
    MaxHotRestart = 0
    Failures = FALSE
    Nothing = Nothing
PROPERTIES EveryElementConsumed WakeUpReturns
CHECK_DEADLOCK FALSE
