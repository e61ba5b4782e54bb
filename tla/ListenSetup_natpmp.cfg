\* One caller, no fault: NAT-PMP alone.
SPECIFICATION Spec
CONSTANTS
    c1 = c1
    c2 = c2
    Callers = {c1}
    Fixed = {8080, 9090}
    Ephemeral = 40000
    Ports = {8080, 9090}
    None = None
    MaxFaults = 0
INVARIANT NATPMPUnmaps
CHECK_DEADLOCK FALSE
