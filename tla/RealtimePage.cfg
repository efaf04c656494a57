CONSTANTS
    Sockets = {s1, s2, s3}
    NoSocket = NoSocket
    MaxAttempts = 1
    MaxFaults = 2
    MaxToggles = 2
SPECIFICATION FairSpec
INVARIANTS TypeOK NoDeadEnd NothingInherited
PROPERTIES StaysQuiet Settles
CHECK_DEADLOCK FALSE
