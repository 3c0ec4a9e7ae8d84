\* The turns of a and b: a writes to b while b's cuts read, put back, count,
\* write, rewire and clear, in nested cuts and in a fork of c.
CONSTANTS
    Machines <- Family
    Turns <- TwoTurns
    Wires <- MayWire
    FirstWires <- Wired
    FirstItems <- OneEach
    Calls <- FullCalls
    ClearsSent = FALSE
    MaxCuts = 1
    MaxSteps <- TwoSteps
    MaxScopes = 1
    Admits <- ToB
    MaxAdmits = 1
SPECIFICATION Spec
INVARIANTS  CommitsAreSerial
\* The turns end.
CHECK_DEADLOCK FALSE
