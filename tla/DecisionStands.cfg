SPECIFICATION Spec
CONSTANTS
    c1 = c1
    c2 = c2
    p1 = p1
    p2 = p2
    u1 = u1
    a1 = a1
    r1 = r1
    Client <- MCClient
    Process = {p1}
    User = {u1}
    Analyst = {a1}
    Reason = {r1}
    Request <- Decisions
    MaxRequests = 2
    MaxAnalyses = 0
    LocksExpire = FALSE
    Serial = FALSE
PROPERTY DecisionStands
CHECK_DEADLOCK FALSE
