CONSTANTS
  None = None
  Worker = {w1, w2}
  Job = {j1}
  Limit = 1
  MaxAttempts = 2
  MaxFaults = 2
  Delivery = {d1}
  MaxPosts = 2
SPECIFICATION Spec
INVARIANTS
  TypeOK
  JobOutcomesAreHonest
  DeliveriesAreHonest
PROPERTIES
  JobsFinish
  DeliveriesSettle
  ImplementsRetries
