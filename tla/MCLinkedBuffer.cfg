SPECIFICATION Spec
CONSTANTS
    a1 = a1  a2 = a2  a3 = a3  b1 = b1  b2 = b2
    Slices <- MCSlices
    CapOf <- MCCapOf
    MaxBytes <- MCMaxBytes
    Sizes = {1, 2}
    MinHeap = 2
    QueueCap = 2
    Misses <- MCMisses
    DropUnsent = FALSE
INVARIANTS SlicesConserved BytesInOrder ViewsIntact
SYMMETRY SliceSymmetry
CHECK_DEADLOCK FALSE
