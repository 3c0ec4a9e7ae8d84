SPECIFICATION Spec
CONSTANTS
    Threads = {t1, t2}
    Classes = {"box", "pair"}
    NeedsDrop = {"box"}
    Runs = {r1, r2}
    Words = {1, 2}
    Bits <- TwoWords
    None = None
    MaxEpoch = 3
    MaxClaims = 3
    MaxPanics = 1
SYMMETRY ThreadSymmetry
INVARIANTS OneWriterPerWord NoLostCapacity RunHasOnePlace
CHECK_DEADLOCK FALSE
