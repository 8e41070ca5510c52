CONSTANTS
  high = high
  live = live
  std = std
  ann = ann
  bob = bob
  a1 = a1
  a2 = a2
  a3 = a3
  b1 = b1
  b2 = b2
  x1 = x1
  x2 = x2
  None = None
  Standard = {std}
  HighRisk = {high}
  Liveness = {live}
  Reviewer = {ann, bob}
  Single = {b2}
  Dual = {a1, a2, a3, b1}
  Escalation = {x1, x2}
  TargetOf <- MCTargetOf
  ReviewerOf <- MCReviewerOf
  VerdictOf <- MCVerdictOf
SPECIFICATION Spec
CHECK_DEADLOCK FALSE
INVARIANTS
  TypeOK
  HighRiskNeedsTwoReviewers
  LivenessStaysFinal
  DecisionsAreBacked
