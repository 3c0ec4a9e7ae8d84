\* Two turns that fail and wait, a host's volume that it creates and revokes,
\* and a promise that one of them resolves, twice perhaps, or nobody does.
SPECIFICATION FairSpec
CONSTANTS
    Turns = {t1, t2}
    heap = heap
    runtime = runtime
    HostVolumes = {host}
    NewVolumes = {}
    Promises = {p}
    Named = {host}
    Paths <- OnePath
    Kinds = {"set"}
    Atoms = {"1"}
    Outcomes = {"fulfilled", "broken"}
    FirstHeap <- TwoLeaves
    MaxDepth = 2
    MaxSteps = 2
    MaxScopes = 1
    Interrupts <- EveryTurn
    MaxSerials = 3
INVARIANTS CommittedReadsHold InterruptsAreExact
PROPERTIES ResolvesOnce WaitsEnd LostIsBroken
CHECK_DEADLOCK FALSE
