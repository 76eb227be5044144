SPECIFICATION Spec
CONSTANTS
  Requests = {q1}
  NumBranches = 1
  MaxFence = 2
  Ops = {p1}
PROPERTIES PublishesAtomically
CHECK_DEADLOCK FALSE
