SPECIFICATION Spec
CONSTANTS
    p = p
    q = q
    watcherLoop = watcherLoop
    mcpLoop = mcpLoop
    server = server
    Absent = Absent
    Unreadable = Unreadable
    InitialTrees <- MCTrees
    NoIndex = NoIndex
    Nobody = Nobody
    Paths = {p, q}
    Ignored = {q}
    Contents <- MCContents
    PartsOf <- MCPartsOf
    Callers = {watcherLoop, mcpLoop}
    Processes = {server}
    ProcessOf <- SameServer
    KindsOf <- MCKindsOf
    BatchSize = 2
    MaxEdits = 2
    MaxCommits = 0
    MaxCalls = 3
    MaxFaults = 1
INVARIANTS
    SearchComplete
    OrphansAccounted
PROPERTIES
    SuccessIsCurrent
    NoLostUpdate
CHECK_DEADLOCK FALSE
