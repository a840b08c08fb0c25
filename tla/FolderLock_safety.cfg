SPECIFICATION Spec
CONSTANTS
    p1 = p1
    p2 = p2
    p3 = p3
    loop1 = loop1
    mcp1 = mcp1
    mcp2 = mcp2
    mcp3 = mcp3
    Absent = Absent
    NoPid = NoPid
    Processes = {p1, p2, p3}
    Callers = {loop1, mcp1, mcp2, mcp3}
    PidOf <- MCPidOf
    MaxStarts = 4
    MaxStops = 2
    MaxFaults = 2
INVARIANTS
    NoWedge
    OneOwnerUnlessRaced
PROPERTIES
    AloneAcquires
CHECK_DEADLOCK FALSE
