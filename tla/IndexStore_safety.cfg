SPECIFICATION Spec
CONSTANTS
    mcpLoop = mcpLoop
    watcherLoop = watcherLoop
    other = other
    server = server
    r1 = r1
    r2 = r2
    None = None
    Torn = Torn
    Repos = {r1}
    Callers = {mcpLoop, watcherLoop, other}
    Processes = {server}
    ProcessOf <- MCOneProcess
    KindsOf <- MCAnyCall
    MaxSaves = 2
    MaxCalls = 5
    MaxFaults = 2
SYMMETRY MCSymmetry
INVARIANTS
    AcknowledgedSurvives
PROPERTIES
    LoadsAreRecent
CHECK_DEADLOCK FALSE
