SPECIFICATION Spec
CONSTANTS
  d1 = d1
  d2 = d2
  e1 = e1
  e2 = e2
  Slots <- MCSlots
  Drops <- MCDrops
  Ephemerons <- MCEphemerons
  Runs <- MCRuns
  None = None
  MaxRoots = 1
  MaxOps = 2
SYMMETRY SlotSymmetry
INVARIANTS ViewableIsIntact  DestroyedOnce
CHECK_DEADLOCK FALSE
