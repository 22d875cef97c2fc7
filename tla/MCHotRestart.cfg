SPECIFICATION Spec
CONSTANTS
    MaxGen = 2
    MaxConns = 5
    Plans <- MCPlans
    UnlinkOnClose = FALSE
INVARIANTS AckMeansAllReplaced DoneMeansMoved NoSessionForgotten
PROPERTIES Rebuilt CloseReturns
CHECK_DEADLOCK FALSE
