\* Two goroutines close the listener, two take and close the wrapper.
SPECIFICATION Spec
CONSTANTS
    Ports = {p1, p2}
    NoPort = NoPort
    Closers = {c1, c2}
    Users = {u1, u2}
    NoOne = NoOne
    MaxFaults = 1
INVARIANTS ClosedOnceIfTaken SameError WrapperAgrees ClosedMeansReleased
PROPERTIES CloseReturns PublishesPorts
CHECK_DEADLOCK FALSE
