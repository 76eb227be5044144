SPECIFICATION Spec
CONSTANTS
  Records = {r1, r2}
  Relays = {w1, w2}
  Lease = 2
  Delays = {0, 1}
  MaxClaims = 7
  Concurrency = 2
  MaxSlips = 1
  MaxReplays = 2
SYMMETRY Symmetry
INVARIANTS TypeOK ExclusiveLease ConfirmedWasAccepted CountersAccount ReplayOncePerAuthorization
PROPERTY TerminalUntilAuthorized
