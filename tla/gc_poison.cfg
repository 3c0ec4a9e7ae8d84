SPECIFICATION Spec
CONSTANTS
    host = host
    other = other
    client = client
    worker = worker
    NoThread = NoThread
    Hosts <- TwoHosts
    Clients <- NoThreads
    Drivers <- NoThreads
    MaxCalls = 2
    MaxFaults = 1
    MayPoison = TRUE
PROPERTY PoisonIsTerminal
CHECK_DEADLOCK FALSE
