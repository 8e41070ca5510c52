CONSTANTS
  None = None
  Worker = {w1, w2}
  Job = {j1}
  Limit = 1
  MaxAttempts = 2
  MaxFaults = 0
  Delivery = {}
  MaxPosts = 2
SPECIFICATION Spec
INVARIANT ClaimsAreExclusive
