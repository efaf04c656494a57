SPECIFICATION Spec
CONSTANTS
    w1 = w1
    w2 = w2
    c1 = c1
    s1 = s1
    s2 = s2
    Workers <- MCWorkers
    Clients <- MCClients
    Scans <- MCScans
    Requests = {}
    Documents = {"good"}
    TaskRetries <- OneRetry
    MaxTaskRetries = 1
    MaxRetries = 3
    MaxRecoveryAttempts = 1
    FaultKinds = {}
    MaxFaults = 0
    Timely = FALSE
PROPERTY ReadyIsFinal
CHECK_DEADLOCK FALSE
