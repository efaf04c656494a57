SPECIFICATION Spec
CONSTANTS
    w1 = w1
    w2 = w2
    c1 = c1
    s1 = s1
    s2 = s2
    Workers <- MCWorkers
    Clients <- MCClients
    Scans <- MCScans
    Requests = {"retry", "delete"}
    Documents = {"good", "mismatch"}
    TaskRetries <- ExtractRetried
    MaxTaskRetries = 1
    MaxRetries = 1
    MaxRecoveryAttempts = 1
    FaultKinds = {"error", "killed", "soft_limit", "node_lost", "restart"}
    MaxFaults = 1
    Timely = FALSE
SYMMETRY Symmetry
INVARIANTS TypeOK StateIsBacked Provenance DeletedIsEmpty WorkersAreBacked RetryCountBounded
CHECK_DEADLOCK FALSE
