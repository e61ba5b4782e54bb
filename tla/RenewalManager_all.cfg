\* Two cycles of Start and Stop, two mapper faults.
SPECIFICATION Spec
CONSTANTS
    Ports = {p1, p2}
    NoPort = NoPort
    MaxStarts = 2
    MaxFaults = 2
INVARIANTS TypeOK OneOpenLoop TrackedPort LeakOnlyByRace
PROPERTIES PortChangeIsCurrent StopReturns LoopExits Recovers
CHECK_DEADLOCK FALSE
