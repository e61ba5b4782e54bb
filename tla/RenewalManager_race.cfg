\* One cycle and no mapper fault: Stop alone against a renewal in flight.
SPECIFICATION Spec
CONSTANTS
    Ports = {p1, p2}
    NoPort = NoPort
    MaxStarts = 1
    MaxFaults = 0
INVARIANT StopUnmaps
CHECK_DEADLOCK FALSE
