SPECIFICATION FairSpec
CONSTANTS
    Users = {u1, u2}
    MaxIds = 2
    Capacity = 1
    QueueCap = 2
    Plans <- MCPlans
INVARIANTS ExclusiveUse OpenIsReachable OwnAnswers InOrder
PROPERTY CloseReachesPeer
CHECK_DEADLOCK FALSE
