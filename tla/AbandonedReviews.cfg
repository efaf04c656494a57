CONSTANTS
    Reviews = {r1, r2}
    Worked = {r1}
    Scans = {s1, s2}
    MAX_RECOVERY_ATTEMPTS = 2
    MAX_ESCALATION_COUNT = 4
    MaxManual = 2
SPECIFICATION Spec
SYMMETRY Symmetry
INVARIANTS AbandonedTypeOK EscalationsAccounted ActionsBounded
PROPERTY CooldownHolds
CHECK_DEADLOCK FALSE
