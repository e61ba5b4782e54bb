\* Two closers and two acceptors against the renewal goroutine.
SPECIFICATION Spec
CONSTANTS
    Ports = {p1, p2, p3}
    NoPort = NoPort
    Closers = {c1, c2}
    Acceptors = {a1, a2}
    NoOne = NoOne
    MaxFaults = 1
INVARIANTS PortsAgree ClosedMeansReleased
PROPERTIES CloseReturns AcceptEnds PublishesPorts
CHECK_DEADLOCK FALSE
