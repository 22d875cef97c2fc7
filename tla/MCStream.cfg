SPECIFICATION FairSpec
CONSTANTS
    D = D
    Modes = {TRUE, FALSE}
    Workers = {w1, w2}
    Readers = {r1}
    Users = {u1}
    MaxData = 2
    Env = {"peerClose", "sessionClose", "onDataClose", "deadline"}
    w1 = w1
    w2 = w2
    r1 = r1
    u1 = u1
INVARIANTS OneInProcess ReadInOrder ReportedOnce ClosedMeansDrained
PROPERTY BlockedReadReturns
CHECK_DEADLOCK FALSE
