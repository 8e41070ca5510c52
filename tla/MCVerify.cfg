CONSTANTS
  alice = alice
  s1 = s1
  v2 = v2
  e1 = e1
  None = None
  Subject = {alice}
  Session = {s1, s2}
  Enrolment = {e1}
  Verification = {v1, v2}
  Withdrawal = {w1}
  Deletion = {}
  Retention = {}
  Purge = {}
  Extractor = {x1, x2}
  Pad = {}
  Matcher = {m1}
  Approved = {x1, x2}
  Revocable = {x1, m1}
  Flaggable = {alice}
  Holdable = {}
  Mortal = {}
  SubjectOf <- MCSubjectOf
  ConsentOf <- MCConsentOf
  ModalityOf <- MCModalityOf
  SessionPurpose <- MCSessionPurpose
  SessionModality <- MCSessionModality
SPECIFICATION Spec
CHECK_DEADLOCK FALSE
INVARIANTS
  TypeOK
  SessionSpentOnceAsIssued
  ApprovalRespectsRegistry
  ApprovalRespectsRisk
  AttemptIsAudited
  NotificationsBacked
