\* A wrapper taken from a closed listener.
SPECIFICATION Spec
CONSTANTS
    Ports = {p1, p2}
    NoPort = NoPort
    Closers = {c1}
    Users = {u1}
    NoOne = NoOne
    MaxFaults = 0
INVARIANT ClosedOnce
CHECK_DEADLOCK FALSE
