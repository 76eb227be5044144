SPECIFICATION RuntimeSpec
CONSTANTS
    Sends = {s1, s2, s3}
    Handles = {h1, h2}
    Transactional = TRUE
    Attributes = {"messageGroup"}
    ServerAttempts = 3
    MaxFaults = 3
INVARIANTS RejectedIsAbsent ResolvedAsDecided DeliveryAccounted StoppedIsQuiet NoLostWakeup
