\* Each environment varies one part; a cancellation may come at any moment.
SPECIFICATION Spec
CONSTANT Environments <- MCEnvironments
INVARIANTS  EndpointIsMapped MostPreferred ReportedIsOutermost
CHECK_DEADLOCK FALSE
