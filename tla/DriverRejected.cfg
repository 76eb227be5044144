SPECIFICATION Spec
CONSTANTS
    Sends = {s1}
    Handles = {h1}
    Transactional = FALSE
    Attributes = {}
    ServerAttempts = 2
    MaxFaults = 2
INVARIANTS RejectedIsAbsent
CHECK_DEADLOCK FALSE
