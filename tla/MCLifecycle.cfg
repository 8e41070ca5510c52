CONSTANTS
  None = None
  Subject = {"alice"}
  Session = {"toEnrol", "toVerify"}
  Enrolment = {"e1"}
  Verification = {"v1"}
  Withdrawal = {"w1"}
  Deletion = {"d1", "d2"}
  Retention = {"r1", "r2"}
  Purge = {"p1"}
  Extractor = {"x1", "x2"}
  Pad = {"q1"}
  Matcher = {}
  Approved = {"x1", "x2", "q1"}
  Revocable = {"x1", "q1"}
  Flaggable = {}
  Holdable = {"alice"}
  Mortal = {"r1"}
  SubjectOf <- MCSubjectOf
  ConsentOf <- MCConsentOf
  ModalityOf <- MCModalityOf
  SessionPurpose <- MCSessionPurpose
  SessionModality <- MCSessionModality
  Scenes <- MCScenes
SPECIFICATION SceneSpec
CHECK_DEADLOCK FALSE
INVARIANTS
  ApprovalRespectsRegistry
  ApprovalRespectsWithdrawal
  DeletionBlocksMatching
  DeletionSticks
  HoldBlocksDeletion
  ErasureAuditIsHonest
  LiveEvidenceHasObject
PROPERTIES
  ImplementsConsent
