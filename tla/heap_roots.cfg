SPECIFICATION Spec
CONSTANTS
    Threads = {t1, t2}
    Values = {v1, v2}
    SlotsPerChunk = 2
    None = None
    Stale = Stale
    MaxChunks = 3
    MaxHandles = 2
    MaxEpoch = 1
    MaxTakes = 4
SYMMETRY PoolSymmetry
INVARIANTS RootKeepsItsValue OneOwnerPerSlot
CHECK_DEADLOCK FALSE
