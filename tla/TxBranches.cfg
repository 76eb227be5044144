SPECIFICATION FairSpec
CONSTANTS
  Requests = {q1}
  NumBranches = 2
  MaxFence = 1
  Ops = {p1, p2}
INVARIANTS TypeOK CommittedHasHalves AuditTruth ResultProved
PROPERTIES LocalRunsOnce AuditsStand HalvesResolved CommittedPublished
CHECK_DEADLOCK FALSE
