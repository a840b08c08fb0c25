SPECIFICATION Spec
CONSTANTS
    mcpCall = mcpCall
    watcherCall = watcherCall
    worker = worker
    w1 = w1
    w2 = w2
    Nobody = Nobody
    Calls = {mcpCall, watcherCall}
    Workers = {worker}
    Waiters = {w1, w2}
    MaxRuns = 1
    MaxPanics = 1
PROPERTIES
    SleepersHaveARun
CHECK_DEADLOCK FALSE
