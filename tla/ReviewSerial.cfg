SPECIFICATION Spec
CONSTANTS
    c1 = c1
    c2 = c2
    p1 = p1
    p2 = p2
    u1 = u1
    a1 = a1
    r1 = r1
    Client <- MCClient
    Process <- MCProcess
    User = {u1}
    Analyst = {a1}
    Reason = {r1}
    Request <- SingleRequests
    MaxRequests = 5
    MaxAnalyses = 1
    LocksExpire = TRUE
    Serial = TRUE
SYMMETRY Symmetry
INVARIANT ApprovalsAreReal
PROPERTY KeepsThePromise
CHECK_DEADLOCK FALSE
