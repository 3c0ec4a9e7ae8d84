SPECIFICATION FairSpec
CONSTANTS
    host = host
    other = other
    client = client
    worker = worker
    NoThread = NoThread
    Hosts <- OneHost
    Clients <- OneClient
    Drivers <- OneWorker
    MaxCalls = 2
    MaxFaults = 1
    MayPoison = TRUE
INVARIANTS LeasesAreHeld FinalizersAreOwed StableIsQuiet
PROPERTIES RequestIsServed PumpReturns
CHECK_DEADLOCK FALSE
