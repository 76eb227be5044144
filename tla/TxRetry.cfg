SPECIFICATION Spec
CONSTANTS
  Requests = {q1}
  NumBranches = 1
  MaxFence = 2
  Ops = {p1, p2}
SYMMETRY Symmetry
INVARIANTS DecisionsAgree BusinessOnce
CHECK_DEADLOCK FALSE
