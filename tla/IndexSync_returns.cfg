SPECIFICATION FairSpec
CONSTANTS
    p = p
    q = q
    watcherLoop = watcherLoop
    mcpLoop = mcpLoop
    server = server
    Absent = Absent
    Unreadable = Unreadable
    InitialTrees <- MCTrees
    NoIndex = NoIndex
    Nobody = Nobody
    Paths = {p, q}
    Ignored = {q}
    Contents <- MCContents
    PartsOf <- MCPartsOf
    Callers = {watcherLoop, mcpLoop}
    Processes = {server}
    ProcessOf <- SameServer
    KindsOf <- MCKindsOf
    BatchSize = 2
    MaxEdits = 1
    MaxCommits = 1
    MaxCalls = 2
    MaxFaults = 1
PROPERTIES
    CallsReturn
CHECK_DEADLOCK FALSE
