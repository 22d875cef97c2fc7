SPECIFICATION FairSpec
CONSTANTS
    s1 = s1
    s2 = s2
    x1 = x1
    x2 = x2
    x3 = x3
    Sessions = {s1, s2}
    Streams = {x1, x2, x3}
    Of <- MCOf
    Closers = {c1}
    AcceptCap = 1
    Backlog = 1
    MaxLost = 1
    NoOne = NoOne
INVARIANTS RefsExact TerminatedUnused
PROPERTIES CloseEndsSessions DispatcherGoesOn
CHECK_DEADLOCK FALSE
