CONSTANTS
    Producers = {p1, p2}
    Elements <- MCElements
    ZeroElement <- MCZero
    Cap = 2
    MaxPut = 5
    NoOne = NoOne
    Pending = Pending
    QueueEmpty = QueueEmpty
SPECIFICATION Spec
INVARIANT PopsInOrder
PROPERTY ImplementsFIFO
