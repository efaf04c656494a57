SPECIFICATION FairSpec
CONSTANTS
    w1 = w1
    w2 = w2
    c1 = c1
    s1 = s1
    s2 = s2
    Workers <- MCWorkers
    Clients <- MCClients
    Scans <- MCScans
    Requests = {"retry", "delete"}
    Documents = {"good", "encrypted", "scan", "poor"}
    TaskRetries <- OneRetry
    MaxTaskRetries = 1
    MaxRetries = 3
    MaxRecoveryAttempts = 3
    FaultKinds = {"error", "killed"}
    MaxFaults = 2
    Timely = TRUE
INVARIANTS OneDriver OneReview
PROPERTIES ImplementsLifecycle ReadyIsFinal ResumableSettles
CHECK_DEADLOCK FALSE
