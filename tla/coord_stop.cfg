SPECIFICATION FairSpec
CONSTANTS
  host = host other = other worker = worker
  parent = parent child = child lazy = lazy promise = promise session = session
  NoWork = NoWork NoSource = NoSource NoSession = NoSession
  Threads = {host, worker}
  Workers = {worker}
  Tasks = {parent}
  Deferreds = {lazy}
  Promises = {}
  Sessions = {session}
  SessionOf <- OneSession
  MaxPolls = 1
  MaxEpoch = 1
  MayClose = FALSE
  MayStop = TRUE
PROPERTIES
  StopJoins
  WorkProgresses
CHECK_DEADLOCK FALSE
