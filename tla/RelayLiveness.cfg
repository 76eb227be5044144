SPECIFICATION FairSpec
CONSTANTS
  Records = {r1, r2}
  Relays = {w1}
  Lease = 1
  Delays = {1}
  MaxClaims = 6
  Concurrency = 2
  MaxSlips = 2
  MaxReplays = 0
PROPERTIES EventuallySettled
