\* Two turns, forks and nested cuts on two paths of the heap and of a volume
\* that a cut creates.
SPECIFICATION Spec
CONSTANTS
    Turns = {t1, t2}
    heap = heap
    runtime = runtime
    HostVolumes = {}
    NewVolumes = {made}
    Promises = {}
    Named = {heap, made}
    Paths <- TwoPaths
    Kinds <- AllKinds
    Atoms = {"1"}
    Outcomes = {}
    FirstHeap <- TwoLeaves
    MaxDepth = 2
    MaxSteps = 3
    MaxScopes = 1
    Interrupts = {}
    MaxSerials = 1
SYMMETRY TurnSymmetry
INVARIANTS ViewsAreEdits ReadsAreSerial CommittedReadsHold
PROPERTIES ChangesAreRecorded
CHECK_DEADLOCK FALSE
