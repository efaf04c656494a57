CONSTANTS
    Sockets = {s1, s2, s3}
    NoSocket = NoSocket
    MaxAttempts = 2
    MaxFaults = 2
    MaxToggles = 2
SPECIFICATION Spec
SYMMETRY Symmetry
INVARIANT NeverAbandoned
CHECK_DEADLOCK FALSE
