\* A cut of b writes to c, forks c, and the fork clears c and writes.
CONSTANTS
    Machines <- Family
    Turns <- TwoTurns
    Wires <- MayWire
    FirstWires <- Wired
    FirstItems <- NoItems
    Calls <- ClearCalls
    ClearsSent = TRUE
    MaxCuts = 1
    MaxSteps <- ThreeSteps
    MaxScopes = 1
    Admits <- ToB
    MaxAdmits = 0
SPECIFICATION Spec
INVARIANT CommitsAreSerial
CHECK_DEADLOCK FALSE
