SPECIFICATION Spec
CONSTANTS
  host = host other = other worker = worker
  parent = parent child = child lazy = lazy promise = promise session = session
  NoWork = NoWork NoSource = NoSource NoSession = NoSession
  Threads = {host, worker}
  Workers = {worker}
  Tasks = {parent}
  Deferreds = {lazy}
  Promises = {promise}
  Sessions = {session}
  SessionOf <- OneSession
  MaxPolls = 1
  MaxEpoch = 2
  MayClose = TRUE
  MayStop = FALSE
INVARIANTS
  OneOwner
  WakeIsOwned
  SleeperIsWoken
  
  StableIsSettled
  SettledBeforeRetired

  
