\* Leases of two intervals, granted almost in full; up to two failures in a row.
SPECIFICATION Spec
CONSTANTS
    Interval = 9
    Duration = 18
    Shortest = 16
    Latency = 3
    Setup = 2
    MaxFailures = 2
INVARIANTS LeaseHeld OutageBounded
CHECK_DEADLOCK FALSE
