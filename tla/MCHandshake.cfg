SPECIFICATION Spec
CONSTANTS
    Sess = {1, 2, 3}
    Id <- MCId
    MemTypes = {"file", "memfd"}
    Plans <- MCPlans
INVARIANTS MappedWhileHeld SameMemory NothingLeft
PROPERTY Establishes
CHECK_DEADLOCK FALSE
