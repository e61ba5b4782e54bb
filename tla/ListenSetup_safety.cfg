\* Two callers, with and without fallback, for the same port, two ports or port 0.
SPECIFICATION OrderedSpec
CONSTANTS
    c1 = c1
    c2 = c2
    Callers = {c1, c2}
    Fixed = {8080, 9090}
    Ephemeral = 40000
    Ports = {8080, 9090}
    None = None
    MaxFaults = 1
INVARIANTS FailureLeavesNothing FallbackServes Undisturbed
PROPERTIES CancelEndsCall Heals
CHECK_DEADLOCK FALSE
