\* Two calls of MapPort against two of UnmapPort.
SPECIFICATION OrderedSpec
CONSTANTS
    m1 = m1
    m2 = m2
    u1 = u1
    u2 = u2
    Calls = {m1, m2}
    Unmaps = {u1, u2}
    Locals = {i1, i2}
    Ports = {p1, p2}
    None = None
INVARIANTS NoOrphan UnmapStops ConnsAreOwned
PROPERTIES UnmapReturns Reconnects
CHECK_DEADLOCK FALSE
