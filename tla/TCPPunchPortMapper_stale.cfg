\* Stop with a port that a finished MapPort has just replaced.
SPECIFICATION Spec
CONSTANTS
    Ports = {p1, p2}
    InternalPort = p1
    None = None
    MaxFaults = 0
INVARIANT UnmapStopsPunch
CHECK_DEADLOCK FALSE
