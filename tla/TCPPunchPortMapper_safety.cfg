\* One renewing goroutine and Stop; the ports of both layers may change.
SPECIFICATION Spec
CONSTANTS
    Ports = {p1, p2}
    InternalPort = p1
    None = None
    MaxFaults = 2
INVARIANTS MappingTracks BothLayersReleased FirstFailureLeavesNothing
PROPERTY StopReturns
CHECK_DEADLOCK FALSE
