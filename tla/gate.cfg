SPECIFICATION FairSpec
CONSTANTS
  t1 = t1
  t2 = t2
  t3 = t3
  Threads <- MCThreads
  NoThread = NoThread
  Automatic = TRUE
  MaxOps = 3
  MaxBatch = 1
INVARIANTS CountIsAdmissions ExclusiveIsAlone
  SleeperHasWaker WaiterIsLatched
PROPERTIES PoisonIsTerminal ImplementsAccess OperationsEnd
CHECK_DEADLOCK FALSE
