CONSTANTS
    Requests = {1, 2}
    Processors = {p1, p2}
    Keys = {k1}
    NoKey = NoKey
    max_attempts = 2
    MaxFaults = 1
SPECIFICATION Spec
SYMMETRY Symmetry
INVARIANTS MailTypeOK SentWasAccepted DuplicateHasCause AttemptsBounded
CHECK_DEADLOCK FALSE
