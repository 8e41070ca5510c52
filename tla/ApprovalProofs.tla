--------------------------- MODULE ApprovalProofs ---------------------------
(***************************************************************************)
(* Type correctness of the biometric lifecycle, with what each call leaves *)
(* alone, which every other proof about it starts from (TypeCorrect); and  *)
(* what a capture's result means, for every number of calls: its session   *)
(* is spent once, on the result it was issued for                          *)
(* (SessionSpentOnceAsIssued); an approval matched a template of the       *)
(* verified subject and modality whose consent stood when the verification *)
(* began (ApprovalRespectsWithdrawal), and no risk signal stood all        *)
(* through (ApprovalRespectsRisk).                                         *)
(*                                                                         *)
(* TypeOK is not inductive by itself: AuditErasure names erasing[c] in the *)
(* audit log, so the induction carries that a sweep between its UPDATE and *)
(* its audit event knows which row it is deleting.                         *)
(*                                                                         *)
(* SessionSpentOnceAsIssued speaks of calls that have produced something;  *)
(* the induction needs every call from the statement that spent its        *)
(* session: SessionInv adds that a spent session is marked used, that two  *)
(* calls never hold one session, and that a call past that statement holds *)
(* a session of its own purpose and modality whether or not it has         *)
(* produced anything yet.                                                  *)
(*                                                                         *)
(* The other two are not inductive either: verifySubject reads the consent *)
(* and the signals once and uses them several statements later.            *)
(* ConsentInv carries that a withdrawn consent never stands again;         *)
(* MatchInv what the verification still knows of what it read; RiskInv     *)
(* that a signal standing since the beginning stops the approval at its    *)
(* last statement before record().                                         *)
(***************************************************************************)
EXTENDS Lifecycle, FiniteSetTheorems, TLAPS

USE DEF Moves, Audited, Enqueued, matching, captures, settings, retained, notices

-----------------------------------------------------------------------------
\* Steps of a capture call.

\* Consuming a capture session keeps the types of the rows it writes.
LEMMA ConsumeTypes ==
  ASSUME TypeOK, NEW c \in Capture, NEW s \in Session, NEW from, NEW purpose,
         Consume(c, s, from, purpose)
  PROVE  /\ pc' \in [Call -> Pc]
         /\ held' \in [Capture -> Session \cup {None}]
         /\ sessions' \in [Session -> {"none", "pending", "used", "expired"}]
         /\ pad' = pad
  BY DEF TypeOK, Consume, Pc

\* Finding and inserting the subject of a capture keep the types.
LEMMA SubjectTypes ==
  ASSUME TypeOK, NEW c \in Capture, EnsureSubject(c) \/ InsertSubject(c)
  PROVE  TypeOK'
<1>1. CASE EnsureSubject(c)
  <2>1. pc' \in [Call -> Pc]
    BY <1>1 DEF TypeOK, EnsureSubject, AfterSubject, Pc
  <2> QED
    BY <1>1, <2>1 DEF TypeOK, EnsureSubject
<1>2. CASE InsertSubject(c)
  <2>1. pc' \in [Call -> Pc]
    BY <1>2 DEF TypeOK, InsertSubject, AfterSubject, Pc
  <2> QED
    BY <1>2, <2>1, ArgumentsAreTyped DEF TypeOK, InsertSubject
<1> QED
  BY <1>1, <1>2

\* A step of an enrolment keeps the types.
LEMMA EnrolTypes ==
  ASSUME TypeOK, NEW e \in Enrolment, Enrol(e)
  PROVE  TypeOK'
<1>0. e \in Capture
  BY DEF Capture
<1>1. CASE EnsureSubject(e) \/ InsertSubject(e)
  BY <1>0, <1>1, SubjectTypes
<1>2. ASSUME NEW s \in Session, ConsumeForEnrolment(e, s) PROVE TypeOK'
  <2>1. Consume(e, s, "ready", "enrolment")
    BY <1>2 DEF ConsumeForEnrolment
  <2> QED
    BY <1>0, <1>2, <2>1, ConsumeTypes DEF TypeOK, ConsumeForEnrolment
<1>3. CASE RecordConsent(e)
  BY <1>3, ArgumentsAreTyped DEF TypeOK, Pc, RecordConsent
<1>4. CASE AuditConsent(e)
  BY <1>4, ArgumentsAreTyped DEF TypeOK, Pc, AuditConsent, AuditAction, Call, Capture, Sweeper
<1>5. CASE AnalyseReference(e)
  <2>1. PICK p \in Pad \cup {None}, to \in {"extractorChecked", "failed"} :
          /\ pc' = [pc EXCEPT ![e] = to]
          /\ pad' = [pad EXCEPT ![e] = p]
          /\ UNCHANGED <<subjects, consents, templates, requests, known, sessions, held>>
          /\ UNCHANGED <<matching, settings, retained, notices>>
    BY <1>5 DEF AnalyseReference
  <2> QED
    BY <2>1 DEF TypeOK, Pc
<1>6. CASE CheckReference(e)
  <2>1. pc' \in [Call -> Pc]
    BY <1>6 DEF TypeOK, CheckReference, Pc
  <2> QED
    BY <1>6, <2>1 DEF TypeOK, CheckReference
<1>7. CASE StoreTemplate(e)
  <2>1. Cardinality(Inserted) + 1 \in Nat
    BY EnrolmentsAreFinite, FS_Subset, FS_CardinalityType DEF Inserted
  <2> DEFINE Stored(m) == [status |-> "active", wiped |-> FALSE, model |-> m,
                           born |-> Cardinality(Inserted) + 1]
  <2>2. PICK m \in Extractor :
          /\ pc' = [pc EXCEPT ![e] = "stored"]
          /\ templates' = [templates EXCEPT ![e] = Stored(m)]
          /\ UNCHANGED <<subjects, consents, requests, known>>
          /\ UNCHANGED <<matching, captures, settings, retained, notices>>
    BY <1>7 DEF StoreTemplate
  <2>3. Stored(m) \in Template
    BY <2>1 DEF Template
  <2>4. templates' \in [Enrolment -> Template]
    BY <2>2, <2>3 DEF TypeOK
  <2> QED
    BY <2>2, <2>4 DEF TypeOK, Pc
<1>8. CASE AuditEnrolment(e)
  BY <1>8, ArgumentsAreTyped DEF TypeOK, Pc, AuditEnrolment, AuditAction, Call, Capture, Sweeper
<1> QED
  BY <1>1, <1>2, <1>3, <1>4, <1>5, <1>6, <1>7, <1>8 DEF Enrol

\* A step of a verification keeps the types.
LEMMA VerifyTypes ==
  ASSUME TypeOK, NEW v \in Verification, Verify(v)
  PROVE  TypeOK'
<1>a. ASSUME NEW from, NEW to \in Pc, NEW d \in {"approved", "review", "rejected"},
             NEW r \in {"POLICY_DECISION", "REFERENCE_NOT_FOUND", "CONSENT_WITHDRAWN",
                        "SERVICE_UNAVAILABLE", "MODEL_NOT_APPROVED",
                        "MODEL_VERSION_MISMATCH", "RISK_SIGNAL_REVIEW"},
             Concludes(v, from, to, d, r),
             relied' \in [Verification -> SUBSET Model],
             pad' \in [Capture -> Pad \cup {None}], UNCHANGED <<sessions, held>>
      PROVE  TypeOK'
  <2>1. Decided(d, r) \in Outcome
    BY DEF Decided, Outcome
  <2>2. outcome' \in [Verification -> Outcome \cup {None}]
    BY <1>a, <2>1 DEF TypeOK, Concludes
  <2>3. pc' \in [Call -> Pc]
    BY <1>a DEF TypeOK, Concludes
  <2> QED
    BY <1>a, <2>2, <2>3 DEF TypeOK, Concludes
<1>b. ASSUME NEW from, NEW to \in Pc, Continues(v, from, to), UNCHANGED captures
      PROVE  TypeOK'
  BY <1>b DEF TypeOK, Continues
<1>c. ASSUME NEW from, ProviderFails(v, from) PROVE TypeOK'
  <2>1. CASE Concludes(v, from, "recording", "review", "SERVICE_UNAVAILABLE")
    BY <1>a, <1>c, <2>1 DEF TypeOK, ProviderFails, Pc
  <2>2. CASE Continues(v, from, "failed")
    BY <1>b, <1>c, <2>2 DEF ProviderFails, Pc
  <2> QED
    BY <1>c, <2>1, <2>2 DEF ProviderFails
<1>1. ASSUME NEW s \in Session, ConsumeForVerification(v, s) PROVE TypeOK'
  <2>1. Snapshot(v) \in Known
    <3>1. /\ {e \in Enrolment : consents[e] = "withdrawn"} \in SUBSET Enrolment
          /\ {d \in Deletion : requests[d] = "completed"} \in SUBSET Deletion
          /\ {m \in Model : registry[m] = "revoked"} \in SUBSET Model
          /\ (SubjectOf[v] \in signals) \in BOOLEAN
      OBVIOUS
    <3> QED
      BY <3>1 DEF Snapshot, Nothing, Known
  <2>2. known' \in [Verification \cup Deletion -> Known]
    BY <1>1, <2>1 DEF TypeOK, ConsumeForVerification
  <2>3. v \in Capture
    BY DEF Capture
  <2>4. Consume(v, s, "idle", "verification")
    BY <1>1 DEF ConsumeForVerification
  <2> QED
    BY <1>1, <2>2, <2>3, <2>4, ConsumeTypes DEF TypeOK, ConsumeForVerification
<1>2. CASE LocateSubject(v)
  BY <1>2, ArgumentsAreTyped DEF TypeOK, Pc, LocateSubject, Continues, Concludes, Decided, Outcome
<1>3. CASE ReadTemplate(v)
  <2>1. UNCHANGED <<relied, captures>>
    BY <1>3 DEF ReadTemplate
  <2>2. CASE Concludes(v, "located", "recording", "rejected", "REFERENCE_NOT_FOUND")
    BY <1>a, <2>1, <2>2 DEF TypeOK, Pc
  <2>3. CASE Concludes(v, "located", "recording", "rejected", "CONSENT_WITHDRAWN")
    BY <1>a, <2>1, <2>3 DEF TypeOK, Pc
  <2>4. ASSUME NEW e \in Candidates(v), Moves(v, "located", "referenced"),
               ref' = [ref EXCEPT ![v] = e],
               UNCHANGED <<subjects, consents, templates, requests, known>>,
               UNCHANGED <<attempts, cases, outcome, settings, retained, notices>>
        PROVE  TypeOK'
    BY <2>1, <2>4 DEF TypeOK, Candidates, Pc
  <2> QED
    BY <1>3, <2>2, <2>3, <2>4 DEF ReadTemplate
<1>4. CASE AnalyseProbe(v)
  <2>1. CASE ProviderFails(v, "referenced")
    BY <1>c, <2>1
  <2>2. ASSUME NEW m \in Extractor, NEW p \in Pad \cup {None},
               relied' = [relied EXCEPT ![v] = {m}],
               pad' = [pad EXCEPT ![v] = p],
               UNCHANGED <<sessions, held>>
        PROVE  /\ relied' \in [Verification -> SUBSET Model]
               /\ pad' \in [Capture -> Pad \cup {None}]
    BY <2>2 DEF TypeOK, Model, Capture
  <2>3. ASSUME NEW m \in Extractor, NEW p \in Pad \cup {None},
               relied' = [relied EXCEPT ![v] = {m}],
               pad' = [pad EXCEPT ![v] = p],
               UNCHANGED <<sessions, held>>,
               Moves(v, "referenced", "extractorChecked"),
               UNCHANGED <<subjects, consents, templates, requests, known>>,
               UNCHANGED <<attempts, cases, ref, outcome, settings, retained, notices>>
        PROVE  TypeOK'
    BY <2>2, <2>3 DEF TypeOK, Pc
  <2>4. ASSUME NEW m \in Extractor, NEW p \in Pad \cup {None},
               relied' = [relied EXCEPT ![v] = {m}],
               pad' = [pad EXCEPT ![v] = p],
               UNCHANGED <<sessions, held>>,
               Concludes(v, "referenced", "recording", "review", "MODEL_NOT_APPROVED")
        PROVE  TypeOK'
    BY <1>a, <2>2, <2>4 DEF Pc
  <2> QED
    BY <1>4, <2>1, <2>3, <2>4 DEF AnalyseProbe
<1>5. CASE CheckProbe(v)
  <2>1. UNCHANGED captures
    BY <1>5 DEF CheckProbe
  <2>2. CASE /\ UNCHANGED relied
             /\ \/ Concludes(v, "extractorChecked", "recording", "review", "MODEL_NOT_APPROVED")
                \/ Concludes(v, "extractorChecked", "recording", "review", "MODEL_VERSION_MISMATCH")
    BY <1>a, <2>1, <2>2 DEF TypeOK, Pc
  <2>3. CASE /\ Moves(v, "extractorChecked", "comparing")
             /\ relied' = [relied EXCEPT ![v] = @ \cup ({pad[v]} \ {None})]
             /\ UNCHANGED <<subjects, consents, templates, requests, known>>
             /\ UNCHANGED <<attempts, cases, ref, outcome, settings, retained, notices>>
    <3>1. pad[v] \in Pad \cup {None}
      BY DEF TypeOK, Capture
    <3>2. relied' \in [Verification -> SUBSET Model]
      BY <2>3, <3>1 DEF TypeOK, Model
    <3> QED
      BY <2>1, <2>3, <3>2 DEF TypeOK, Pc
  <2> QED
    BY <1>5, <2>2, <2>3 DEF CheckProbe
<1>6. CASE Compare(v)
  <2>1. CASE ProviderFails(v, "comparing")
    BY <1>c, <2>1
  <2>2. ASSUME NEW o \in PolicyOutcome, Judge(v, o), UNCHANGED captures,
               relied' \in [Verification -> SUBSET Model]
        PROVE  TypeOK'
    <3>1. /\ o.decision \in {"approved", "review", "rejected"}
          /\ o.reason = "POLICY_DECISION"
      BY <2>2 DEF PolicyOutcome, Decided
    <3>2. (IF o.decision = "approved" THEN "scored" ELSE "recording") \in Pc
      BY DEF Pc
    <3>3. pad' \in [Capture -> Pad \cup {None}] /\ UNCHANGED <<sessions, held>>
      BY <2>2 DEF TypeOK
    <3> QED
      BY <1>a, <2>2, <3>1, <3>2, <3>3 DEF Judge
  <2>3. CASE Concludes(v, "comparing", "recording", "review", "MODEL_NOT_APPROVED")
                 /\ UNCHANGED relied /\ UNCHANGED captures
    BY <1>a, <2>3 DEF TypeOK, Pc
  <2>4. relied \in [Verification -> SUBSET Model]
    BY DEF TypeOK
  <2>5. ASSUME NEW m \in MatcherNamed(v),
               relied' = [relied EXCEPT ![v] = @ \cup ({m} \ {None})]
        PROVE  relied' \in [Verification -> SUBSET Model]
    <3>1. {m} \ {None} \subseteq Model
      BY <2>5 DEF MatcherNamed, Model
    <3> QED
      BY <2>5, <3>1 DEF TypeOK
  <2> QED
    BY <1>6, <2>1, <2>2, <2>3, <2>4, <2>5 DEF Compare
<1>7. CASE CheckRisk(v)
  <2>1. /\ relied' \in [Verification -> SUBSET Model]
        /\ pad' \in [Capture -> Pad \cup {None}]
        /\ UNCHANGED captures
    BY <1>7 DEF TypeOK, CheckRisk
  <2>2. CASE Concludes(v, "scored", "recording", "review", "RISK_SIGNAL_REVIEW")
    BY <1>a, <2>1, <2>2 DEF Pc
  <2>3. CASE Continues(v, "scored", "recording")
    BY <1>b, <2>1, <2>3 DEF Pc, CheckRisk
  <2> QED
    BY <1>7, <2>2, <2>3 DEF CheckRisk
<1>8. CASE EnsureSubject(v) \/ InsertSubject(v)
  BY <1>8, SubjectTypes DEF Capture
<1>9. CASE RecordAudit(v)
  BY <1>9, ArgumentsAreTyped DEF TypeOK, Pc, RecordAudit, AuditAction, Call, Capture, Sweeper
<1>10. CASE InsertAttempt(v)
  BY <1>10, ArgumentsAreTyped DEF TypeOK, Pc, InsertAttempt
<1>11. CASE OpenCase(v)
  BY <1>11, ArgumentsAreTyped DEF TypeOK, Pc, OpenCase
<1>12. CASE NotifyReview(v)
  BY <1>12, ArgumentsAreTyped DEF TypeOK, Pc, NotifyReview, WebhookEvent, Call, Capture, Sweeper
<1>13. CASE NotifyCompleted(v)
  <2>1. pc' \in [Call -> Pc]
    BY <1>13 DEF TypeOK, NotifyCompleted, Pc
  <2>2. webhooks' \subseteq WebhookEvent \X Call
    BY <1>13 DEF TypeOK, NotifyCompleted, WebhookEvent, Call, Capture
  <2> QED
    BY <1>13, <2>1, <2>2 DEF TypeOK, NotifyCompleted
<1> QED
  BY <1>1, <1>2, <1>3, <1>4, <1>5, <1>6, <1>7, <1>8, <1>9, <1>10, <1>11, <1>12, <1>13
  DEF Verify

-----------------------------------------------------------------------------
\* Steps of the other calls, and of the environment.

\* A step of a withdrawal keeps the types.
LEMMA WithdrawTypes ==
  ASSUME TypeOK, NEW w \in Withdrawal, Withdraw(w)
  PROVE  TypeOK'
<1>1. CASE ReadReceipt(w)
  BY <1>1, ArgumentsAreTyped DEF TypeOK, Pc, ReadReceipt
<1>2. CASE MarkWithdrawn(w)
  BY <1>2, ArgumentsAreTyped DEF TypeOK, Pc, MarkWithdrawn
<1>3. CASE RevokeTemplates(w)
  <2>1. templates' \in [Enrolment -> Template]
    <3>1. ConsentOf[w] \in Enrolment /\ templates[ConsentOf[w]] \in Template
      BY ArgumentsAreTyped DEF TypeOK
    <3>2. PICK st \in {"none", "active", "revoked"} :
            templates' = [templates EXCEPT ![ConsentOf[w]].status = st]
      BY <1>3, <3>1 DEF RevokeTemplates, Template
    <3>3. [templates[ConsentOf[w]] EXCEPT !.status = st] \in Template
      BY <3>1 DEF Template
    <3> QED
      BY <3>1, <3>2, <3>3 DEF TypeOK
  <2> QED
    BY <1>3, <2>1 DEF TypeOK, RevokeTemplates, Pc
<1>4. CASE AuditWithdrawal(w)
  BY <1>4, ArgumentsAreTyped DEF TypeOK, Pc, AuditWithdrawal, AuditAction, Call, Capture, Sweeper
<1>5. CASE NotifyWithdrawal(w)
  BY <1>5, ArgumentsAreTyped DEF TypeOK, Pc, NotifyWithdrawal, WebhookEvent, Call, Capture, Sweeper
<1> QED
  BY <1>1, <1>2, <1>3, <1>4, <1>5 DEF Withdraw

\* A step of the retention of an evidence object keeps the types.
LEMMA RetainTypes ==
  ASSUME TypeOK, NEW x \in Retention, Retain(x)
  PROVE  TypeOK'
<1>1. CASE PutObject(x)
  <2>1. pc' \in [Call -> Pc]
    BY <1>1 DEF TypeOK, PutObject, Pc
  <2> QED
    BY <1>1, <2>1 DEF TypeOK, PutObject
<1>2. CASE InsertEvidence(x)
  BY <1>2, ArgumentsAreTyped DEF TypeOK, Pc, InsertEvidence
<1>3. CASE AuditRetention(x)
  BY <1>3, ArgumentsAreTyped DEF TypeOK, Pc, AuditRetention, AuditAction, Call
<1> QED
  BY <1>1, <1>2, <1>3 DEF Retain

\* A sweep that has marked a row deleted knows which, until it has audited the erasure.
ErasingNamed ==
  \A c \in Sweeper : pc[c] \in {"marked", "erased"} => erasing[c] # None

\* A step of a sweep keeps the types.
LEMMA SweepTypes ==
  ASSUME TypeOK, ErasingNamed, NEW c \in Sweeper, Sweep(c)
  PROVE  TypeOK'
<1>1. ASSUME NEW x \in Retention, MarkDeleted(c, x) PROVE TypeOK'
  <2>1. pc' \in [Call -> Pc]
    BY <1>1 DEF TypeOK, MarkDeleted, Pc
  <2>2. /\ evidence' \in [Retention -> {"none", "live", "deleted"}]
        /\ todo' \in [Sweeper -> SUBSET Retention]
        /\ erasing' \in [Sweeper -> Retention \cup {None}]
    BY <1>1 DEF TypeOK, MarkDeleted
  <2> QED
    BY <1>1, <2>1, <2>2 DEF TypeOK, MarkDeleted
<1>2. CASE EraseObject(c)
  BY <1>2, ArgumentsAreTyped DEF TypeOK, Pc, EraseObject
<1>3. CASE AuditErasure(c)
  <2>1. erasing[c] \in Retention
    BY <1>3 DEF TypeOK, ErasingNamed, AuditErasure
  <2> QED
    BY <1>3, <2>1 DEF TypeOK, AuditErasure, AuditAction, Pc, Call
<1> QED
  BY <1>1, <1>2, <1>3 DEF Sweep

\* A step of a purge keeps the types.
LEMMA PurgeTypes ==
  ASSUME TypeOK, ErasingNamed, NEW p \in Purge, PurgeExpired(p)
  PROVE  TypeOK'
<1>1. CASE ListExpired(p)
  BY <1>1, ArgumentsAreTyped DEF TypeOK, Pc, ListExpired
<1>2. CASE Sweep(p)
  BY <1>2, SweepTypes DEF Sweeper
<1>3. CASE FinishPurge(p)
  BY <1>3, ArgumentsAreTyped DEF TypeOK, Pc, FinishPurge
<1> QED
  BY <1>1, <1>2, <1>3 DEF PurgeExpired

\* A step of a deletion keeps the types.
LEMMA DeleteTypes ==
  ASSUME TypeOK, ErasingNamed, NEW d \in Deletion, Delete(d)
  PROVE  TypeOK'
<1>1. CASE FindSubject(d)
  <2>1. known' \in [Verification \cup Deletion -> Known]
    <3>1. /\ {e \in Enrolment : consents[e] # "none" /\ SubjectOf[e] = SubjectOf[d]}
               \in SUBSET Enrolment
          /\ LiveOf(SubjectOf[d]) \in SUBSET Retention
          /\ (SubjectOf[d] \in holds) \in BOOLEAN
      BY DEF LiveOf
    <3>2. [Nothing EXCEPT !.given  = {e \in Enrolment : /\ consents[e] # "none"
                                                       /\ SubjectOf[e] = SubjectOf[d]},
                          !.kept   = LiveOf(SubjectOf[d]),
                          !.onHold = SubjectOf[d] \in holds] \in Known
      BY <3>1 DEF Nothing, Known
    <3> QED
      BY <1>1, <3>2 DEF TypeOK, FindSubject
  <2> QED
    BY <1>1, <2>1 DEF TypeOK, FindSubject, Pc
<1>2. CASE CheckHold(d)
  BY <1>2, ArgumentsAreTyped DEF TypeOK, Pc, CheckHold
<1>3. CASE ParkRequest(d)
  BY <1>3, ArgumentsAreTyped DEF TypeOK, Pc, ParkRequest
<1>4. CASE AuditBlocked(d)
  BY <1>4, ArgumentsAreTyped DEF TypeOK, Pc, AuditBlocked, AuditAction, Call, Capture, Sweeper
<1>5. CASE WipeTemplates(d)
  <2>1. templates' \in [Enrolment -> Template]
    <3>1. ASSUME NEW t \in Template
          PROVE  [t EXCEPT !.status = "revoked", !.wiped = TRUE] \in Template
      BY DEF Template
    <3> QED
      BY <1>5, <3>1 DEF TypeOK, WipeTemplates
  <2> QED
    BY <1>5, <2>1 DEF TypeOK, WipeTemplates, Pc
<1>6. CASE WithdrawAll(d)
  BY <1>6, ArgumentsAreTyped DEF TypeOK, Pc, WithdrawAll
<1>7. CASE ListEvidence(d)
  BY <1>7, ArgumentsAreTyped DEF TypeOK, Pc, ListEvidence, LiveOf
<1>8. CASE Sweep(d)
  BY <1>8, SweepTypes DEF Sweeper
<1>9. CASE CompleteRequest(d)
  BY <1>9, ArgumentsAreTyped DEF TypeOK, Pc, CompleteRequest
<1>10. CASE AuditDeletion(d)
  BY <1>10, ArgumentsAreTyped DEF TypeOK, Pc, AuditDeletion, AuditAction, Call, Capture, Sweeper
<1> QED
  BY <1>1, <1>2, <1>3, <1>4, <1>5, <1>6, <1>7, <1>8, <1>9, <1>10 DEF Delete

\* What happens around the handlers keeps the types.
LEMMA EnvironmentTypes ==
  ASSUME TypeOK, Environment \/ \E c \in Mortal : Crash(c)
  PROVE  TypeOK'
<1>1. CASE \E s \in Session : CreateSession(s) \/ SessionLapses(s)
  BY <1>1, ArgumentsAreTyped DEF TypeOK, Pc, CreateSession, SessionLapses
<1>2. CASE \E m \in Revocable : ApproveModel(m) \/ RevokeModel(m)
  <2>1. registry' \in [Model -> {"absent", "active", "revoked"}]
    BY <1>2 DEF TypeOK, ApproveModel, RevokeModel
  <2> QED
    BY <1>2, <2>1 DEF TypeOK, ApproveModel, RevokeModel
<1>3. CASE \E s \in Flaggable : RaiseSignal(s)
  BY <1>3, ArgumentsAreTyped DEF TypeOK, Pc, RaiseSignal
<1>4. ASSUME NEW s \in Flaggable, SignalLapses(s) PROVE TypeOK'
  <2>1. known' \in [Verification \cup Deletion -> Known]
    <3>1. ASSUME NEW k \in Known PROVE [k EXCEPT !.risky = FALSE] \in Known
      BY DEF Known
    <3> QED
      BY <1>4, <3>1 DEF TypeOK, SignalLapses
  <2> QED
    BY <1>4, <2>1 DEF TypeOK, SignalLapses
<1>5. CASE \E s \in Holdable : PlaceHold(s)
  BY <1>5, ArgumentsAreTyped DEF TypeOK, Pc, PlaceHold
<1>6. ASSUME NEW s \in Holdable, ReleaseHold(s) PROVE TypeOK'
  <2>1. known' \in [Verification \cup Deletion -> Known]
    <3>1. ASSUME NEW k \in Known PROVE [k EXCEPT !.onHold = FALSE] \in Known
      BY DEF Known
    <3> QED
      BY <1>6, <3>1 DEF TypeOK, ReleaseHold
  <2> QED
    BY <1>6, <2>1 DEF TypeOK, ReleaseHold
<1>7. CASE \E x \in Retention : EvidenceLapses(x)
  BY <1>7 DEF TypeOK, EvidenceLapses
<1>8. CASE \E c \in Mortal : Crash(c)
  <2>1. PICK c \in Mortal : pc' = [pc EXCEPT ![c] = "crashed"]
    BY <1>8 DEF Crash
  <2>2. pc' \in [Call -> Pc]
    BY <2>1 DEF TypeOK, Pc
  <2> QED
    BY <1>8, <2>2 DEF TypeOK, Crash
<1> QED
  BY <1>1, <1>2, <1>3, <1>4, <1>5, <1>6, <1>7, <1>8 DEF Environment

-----------------------------------------------------------------------------
\* What each call leaves alone.

\* What finding and inserting a subject leave alone.
LEMMA SubjectFrame ==
  ASSUME NEW c, EnsureSubject(c) \/ InsertSubject(c)
  PROVE  /\ UNCHANGED <<consents, templates, requests, known>>
         /\ UNCHANGED <<matching, captures, settings, retained, notices>>
         /\ \E to : pc' = [pc EXCEPT ![c] = to]
<1>1. CASE EnsureSubject(c)
  BY <1>1 DEF EnsureSubject
<1>2. CASE InsertSubject(c)
  BY <1>2 DEF InsertSubject
<1> QED
  BY <1>1, <1>2

\* What a step of an enrolment leaves alone.
LEMMA EnrolFrame ==
  ASSUME NEW e \in Enrolment, Enrol(e)
  PROVE  /\ UNCHANGED <<requests, known, matching, settings, retained>>
         /\ \E to : pc' = [pc EXCEPT ![e] = to]
<1>1. CASE EnsureSubject(e) \/ InsertSubject(e)
  BY <1>1, SubjectFrame
<1>2. CASE \E s \in Session : ConsumeForEnrolment(e, s)
  BY <1>2 DEF ConsumeForEnrolment, Consume
<1>3. CASE RecordConsent(e)
  BY <1>3 DEF RecordConsent
<1>4. CASE AuditConsent(e)
  BY <1>4 DEF AuditConsent
<1>5. CASE AnalyseReference(e)
  BY <1>5 DEF AnalyseReference
<1>6. CASE CheckReference(e)
  BY <1>6 DEF CheckReference
<1>7. CASE StoreTemplate(e)
  BY <1>7 DEF StoreTemplate
<1>8. CASE AuditEnrolment(e)
  BY <1>8 DEF AuditEnrolment
<1> QED
  BY <1>1, <1>2, <1>3, <1>4, <1>5, <1>6, <1>7, <1>8 DEF Enrol

\* What a step of a verification leaves alone.
LEMMA VerifyFrame ==
  ASSUME NEW v \in Verification, Verify(v)
  PROVE  /\ UNCHANGED <<consents, templates, requests, settings, retained>>
         /\ \E to : pc' = [pc EXCEPT ![v] = to]
<1>1. CASE \E s \in Session : ConsumeForVerification(v, s)
  BY <1>1 DEF ConsumeForVerification, Consume
<1>2. CASE LocateSubject(v)
  BY <1>2 DEF LocateSubject, Continues, Concludes
<1>3. CASE ReadTemplate(v)
  BY <1>3 DEF ReadTemplate, Concludes
<1>4. CASE AnalyseProbe(v)
  BY <1>4 DEF AnalyseProbe, ProviderFails, Continues, Concludes
<1>5. CASE CheckProbe(v)
  BY <1>5 DEF CheckProbe, Concludes
<1>6. CASE Compare(v)
  BY <1>6 DEF Compare, ProviderFails, Continues, Judge, Concludes
<1>7. CASE CheckRisk(v)
  BY <1>7 DEF CheckRisk, Continues, Concludes
<1>8. CASE EnsureSubject(v) \/ InsertSubject(v)
  BY <1>8, SubjectFrame
<1>9. CASE RecordAudit(v)
  BY <1>9 DEF RecordAudit
<1>10. CASE InsertAttempt(v)
  BY <1>10 DEF InsertAttempt
<1>11. CASE OpenCase(v)
  BY <1>11 DEF OpenCase
<1>12. CASE NotifyReview(v)
  BY <1>12 DEF NotifyReview
<1>13. CASE NotifyCompleted(v)
  BY <1>13 DEF NotifyCompleted
<1> QED
  BY <1>1, <1>2, <1>3, <1>4, <1>5, <1>6, <1>7, <1>8, <1>9, <1>10, <1>11, <1>12, <1>13
  DEF Verify

\* What a step of a withdrawal leaves alone.
LEMMA WithdrawFrame ==
  ASSUME NEW w \in Withdrawal, Withdraw(w)
  PROVE  /\ UNCHANGED <<subjects, requests, known, matching, captures, settings, retained>>
         /\ \E to : pc' = [pc EXCEPT ![w] = to]
  BY DEF Withdraw, ReadReceipt, MarkWithdrawn, RevokeTemplates, AuditWithdrawal,
         NotifyWithdrawal

\* What a step of a retention leaves alone.
LEMMA RetainFrame ==
  ASSUME NEW x \in Retention, Retain(x)
  PROVE  /\ UNCHANGED <<subjects, consents, templates, requests, known, todo, erasing>>
         /\ UNCHANGED <<matching, captures, settings>>
         /\ \E to : pc' = [pc EXCEPT ![x] = to]
  BY DEF Retain, PutObject, InsertEvidence, AuditRetention

\* What a step of a sweep leaves alone.
LEMMA SweepFrame ==
  ASSUME NEW c \in Sweeper, Sweep(c)
  PROVE  /\ UNCHANGED <<subjects, consents, templates, requests, known>>
         /\ UNCHANGED <<matching, captures, settings>>
         /\ \E to : pc' = [pc EXCEPT ![c] = to]
<1>1. CASE \E x \in Retention : MarkDeleted(c, x)
  BY <1>1 DEF MarkDeleted
<1>2. CASE EraseObject(c) \/ AuditErasure(c)
  BY <1>2 DEF EraseObject, AuditErasure
<1> QED
  BY <1>1, <1>2 DEF Sweep

\* What a step of a purge leaves alone.
LEMMA PurgeFrame ==
  ASSUME NEW p \in Purge, PurgeExpired(p)
  PROVE  /\ UNCHANGED <<subjects, consents, templates, requests, known>>
         /\ UNCHANGED <<matching, captures, settings>>
         /\ \E to : pc' = [pc EXCEPT ![p] = to]
<1>1. CASE ListExpired(p) \/ FinishPurge(p)
  BY <1>1 DEF ListExpired, FinishPurge
<1>2. CASE Sweep(p)
  BY <1>2, SweepFrame DEF Sweeper
<1> QED
  BY <1>1, <1>2 DEF PurgeExpired

\* What a step of a deletion leaves alone.
LEMMA DeleteFrame ==
  ASSUME NEW d \in Deletion, Delete(d)
  PROVE  /\ UNCHANGED <<subjects, matching, captures, settings>>
         /\ \E to : pc' = [pc EXCEPT ![d] = to]
<1>1. CASE Sweep(d)
  BY <1>1, SweepFrame DEF Sweeper
<1>2. CASE FindSubject(d) \/ CheckHold(d) \/ ParkRequest(d) \/ AuditBlocked(d)
  BY <1>2 DEF FindSubject, CheckHold, ParkRequest, AuditBlocked
<1>3. CASE \/ WipeTemplates(d) \/ WithdrawAll(d) \/ ListEvidence(d)
           \/ CompleteRequest(d) \/ AuditDeletion(d)
  BY <1>3 DEF WipeTemplates, WithdrawAll, ListEvidence, CompleteRequest, AuditDeletion
<1> QED
  BY <1>1, <1>2, <1>3 DEF Delete

\* What the environment's steps leave alone.
LEMMA EnvironmentFrame ==
  ASSUME Environment
  PROVE  /\ UNCHANGED <<subjects, consents, templates, requests, pc>>
         /\ UNCHANGED <<matching, held, pad, retained, notices>>
  BY DEF Environment, CreateSession, SessionLapses, ApproveModel, RevokeModel, RaiseSignal,
         SignalLapses, PlaceHold, ReleaseHold, EvidenceLapses

-----------------------------------------------------------------------------
(***************************************************************************)
(* Type correctness.                                                       *)
(***************************************************************************)
TypeInv == TypeOK /\ ErasingNamed

\* A sweep that moves on keeps ErasingNamed if it still needs no name or has one.
LEMMA NamesKept ==
  ASSUME TypeInv, NEW c \in Sweeper, NEW to, pc' = [pc EXCEPT ![c] = to],
         \A other \in Sweeper \ {c} : erasing'[other] = erasing[other],
         to \notin {"marked", "erased"} \/ erasing'[c] # None
  PROVE  ErasingNamed'
<1>1. c \in Call /\ pc \in [Call -> Pc] /\ Sweeper \subseteq Call
  BY DEF TypeInv, TypeOK, Call
<1> SUFFICES ASSUME NEW other \in Sweeper, pc'[other] \in {"marked", "erased"}
             PROVE  erasing'[other] # None
  BY DEF ErasingNamed
<1>2. CASE other = c
  BY <1>1, <1>2
<1>3. CASE other # c
  BY <1>1, <1>3 DEF TypeInv, ErasingNamed
<1> QED
  BY <1>2, <1>3

\* A sweeper that has marked a row still names it.
LEMMA SweepNames ==
  ASSUME TypeInv, NEW c \in Sweeper, Sweep(c)
  PROVE  ErasingNamed'
<1>1. erasing \in [Sweeper -> Retention \cup {None}]
  BY DEF TypeInv, TypeOK
<1>2. ASSUME NEW x \in Retention, MarkDeleted(c, x) PROVE ErasingNamed'
  <2>1. x # None
    BY NoneIsNoRow DEF Call
  <2>2. CASE evidence[x] = "live"
    <3>1. erasing' = [erasing EXCEPT ![c] = x] /\ pc' = [pc EXCEPT ![c] = "marked"]
      BY <1>2, <2>2 DEF MarkDeleted
    <3>2. erasing'[c] = x /\ \A other \in Sweeper \ {c} : erasing'[other] = erasing[other]
      BY <1>1, <3>1
    <3> QED
      BY <2>1, <3>1, <3>2, NamesKept
  <2>3. CASE evidence[x] # "live"
    <3>1. UNCHANGED erasing /\ pc' = [pc EXCEPT ![c] = "sweeping"]
      BY <1>2, <2>3 DEF MarkDeleted
    <3> QED
      BY <3>1, NamesKept
  <2> QED
    BY <2>2, <2>3
<1>3. CASE EraseObject(c)
  <2>1. UNCHANGED erasing /\ pc[c] = "marked" /\ pc' = [pc EXCEPT ![c] = "erased"]
    BY <1>3 DEF EraseObject
  <2>2. erasing'[c] # None
    BY <2>1 DEF TypeInv, ErasingNamed
  <2> QED
    BY <2>1, <2>2, NamesKept
<1>4. CASE AuditErasure(c)
  <2>1. erasing' = [erasing EXCEPT ![c] = None] /\ pc' = [pc EXCEPT ![c] = "sweeping"]
    BY <1>4 DEF AuditErasure
  <2>2. \A other \in Sweeper \ {c} : erasing'[other] = erasing[other]
    BY <1>1, <2>1
  <2> QED
    BY <2>1, <2>2, NamesKept
<1> QED
  BY <1>2, <1>3, <1>4 DEF Sweep

\* A step that leaves the sweepers' counters and rows alone leaves ErasingNamed alone.
LEMMA OthersName ==
  ASSUME TypeInv, UNCHANGED erasing, NEW c \in Call \ Sweeper, NEW to,
         pc' = [pc EXCEPT ![c] = to]
  PROVE  ErasingNamed'
  BY DEF TypeInv, TypeOK, ErasingNamed

\* Every step of the lifecycle keeps the types and the sweepers' names.
LEMMA NextTypes ==
  ASSUME TypeInv, [Next]_vars
  PROVE  TypeInv'
<1>1. ASSUME NEW e \in Enrolment, Enrol(e) PROVE TypeInv'
  BY <1>1, EnrolTypes, EnrolFrame, OthersName, CallsAreDistinct DEF TypeInv, Call, Capture
<1>2. ASSUME NEW v \in Verification, Verify(v) PROVE TypeInv'
  BY <1>2, VerifyTypes, VerifyFrame, OthersName, CallsAreDistinct DEF TypeInv, Call, Capture
<1>3. ASSUME NEW w \in Withdrawal, Withdraw(w) PROVE TypeInv'
  BY <1>3, WithdrawTypes, WithdrawFrame, OthersName, CallsAreDistinct DEF TypeInv, Call
<1>4. ASSUME NEW x \in Retention, Retain(x) PROVE TypeInv'
  BY <1>4, RetainTypes, RetainFrame, OthersName, CallsAreDistinct DEF TypeInv, Call
<1>5. ASSUME NEW p \in Purge, PurgeExpired(p) PROVE TypeInv'
  <2>1. p \in Sweeper
    BY DEF Sweeper
  <2>2. ListExpired(p) => ErasingNamed'
    BY <2>1, NamesKept DEF ListExpired
  <2>3. FinishPurge(p) => ErasingNamed'
    BY <2>1, NamesKept DEF FinishPurge
  <2>4. ErasingNamed'
    BY <1>5, <2>1, <2>2, <2>3, SweepNames DEF PurgeExpired
  <2> QED
    BY <1>5, <2>4, PurgeTypes DEF TypeInv
<1>6. ASSUME NEW d \in Deletion, Delete(d) PROVE TypeInv'
  <2>1. d \in Sweeper
    BY DEF Sweeper
  <2>2. ErasingNamed'
    <3>1. ASSUME UNCHANGED erasing, NEW to, to \notin {"marked", "erased"},
                 pc' = [pc EXCEPT ![d] = to]
          PROVE  ErasingNamed'
      BY <2>1, <3>1, NamesKept
    <3>2. CASE FindSubject(d)
      BY <3>1, <3>2 DEF FindSubject
    <3>3. CASE CheckHold(d)
      BY <3>1, <3>3 DEF CheckHold
    <3>4. CASE ParkRequest(d) \/ AuditBlocked(d)
      BY <3>1, <3>4 DEF ParkRequest, AuditBlocked
    <3>5. CASE WipeTemplates(d) \/ WithdrawAll(d)
      BY <3>1, <3>5 DEF WipeTemplates, WithdrawAll
    <3>6. CASE ListEvidence(d)
      BY <3>1, <3>6 DEF ListEvidence
    <3>7. CASE CompleteRequest(d) \/ AuditDeletion(d)
      BY <3>1, <3>7 DEF CompleteRequest, AuditDeletion
    <3>8. CASE Sweep(d)
      BY <2>1, <3>8, SweepNames
    <3> QED
      BY <1>6, <3>2, <3>3, <3>4, <3>5, <3>6, <3>7, <3>8 DEF Delete
  <2> QED
    BY <1>6, <2>2, DeleteTypes DEF TypeInv
<1>7. ASSUME Environment PROVE TypeInv'
  <2>1. ErasingNamed'
    BY <1>7, EnvironmentFrame DEF TypeInv, ErasingNamed
  <2> QED
    BY <1>7, <2>1, EnvironmentTypes DEF TypeInv
<1>8. ASSUME NEW c \in Mortal, Crash(c) PROVE TypeInv'
  <2>1. ErasingNamed'
    BY <1>8, BoundsAreSubsets DEF TypeInv, TypeOK, ErasingNamed, Crash
  <2> QED
    BY <1>8, <2>1, EnvironmentTypes DEF TypeInv
<1>9. CASE UNCHANGED vars
  BY <1>9 DEF vars, TypeInv, TypeOK, ErasingNamed
<1> QED
  BY <1>1, <1>2, <1>3, <1>4, <1>5, <1>6, <1>7, <1>8, <1>9 DEF Next

\* The migrated, empty database is typed.
LEMMA InitTypes == Init => TypeInv
<1> SUFFICES ASSUME Init PROVE TypeInv
  OBVIOUS
<1>1. Nothing \in Known
  BY DEF Nothing, Known
<1>2. NoTemplate \in Template
  BY DEF NoTemplate, Template
<1>3. ErasingNamed
  BY DEF Init, ErasingNamed, Call
<1> QED
  BY <1>1, <1>2, <1>3 DEF Init, TypeInv, TypeOK, Pc

\* Every variable stays within its type, and a sweep always knows the row it is erasing.
THEOREM TypesAreInvariant == Spec => []TypeInv
<1>1. Init => TypeInv
  BY InitTypes
<1>2. TypeInv /\ [Next]_vars => TypeInv'
  BY NextTypes
<1> QED
  BY <1>1, <1>2, PTL DEF Spec

\* Type correctness for every number of subjects, sessions, models and concurrent calls.
THEOREM TypeCorrect == Spec => []TypeOK
<1>1. TypeInv => TypeOK
  BY DEF TypeInv
<1> QED
  BY <1>1, TypesAreInvariant, PTL

-----------------------------------------------------------------------------
(***************************************************************************)
(* Capture sessions.                                                       *)
(***************************************************************************)

\* Call c has not come to the statement that spends its session.
Fresh(c) ==
  \/ pc[c] = "idle"
  \/ c \in Enrolment /\ pc[c] \in {"subjectMissing", "ready"}

\* Call c got past it (a failed or dead call may have spent a session of any kind).
Spent(c) == ~Fresh(c) /\ pc[c] \notin {"failed", "crashed"}

IssuedFor(c) ==
  /\ held[c] # None
  /\ SessionPurpose[held[c]] = PurposeOf(c)
  /\ SessionModality[held[c]] = ModalityOf[c]

SessionInv ==
  /\ \A c \in Capture : held[c] # None => sessions[held[c]] = "used"
  /\ \A c, o \in Capture : c # o /\ held[c] # None => held[o] # held[c]
  /\ \A c \in Capture : Fresh(c) => held[c] = None /\ ~Produced(c)
  /\ \A c \in Capture : Spent(c) \/ Produced(c) => IssuedFor(c)

-----------------------------------------------------------------------------
\* Sessions that are used stay used, and calls hold on to what they have.

\* SessionInv survives a step that holds no new session and frees none.
LEMMA SessionKept ==
  ASSUME TypeOK, SessionInv, UNCHANGED held,
         \A s \in Session : sessions[s] = "used" => sessions'[s] = "used",
         \A c \in Capture : /\ Fresh(c)' => Fresh(c)
                            /\ Spent(c)' => Spent(c)
                            /\ Produced(c)' => Produced(c) \/ Spent(c)
  PROVE  SessionInv'
<1>1. \A c \in Capture : held'[c] # None => held[c] \in Session
  BY DEF TypeOK
<1>2. \A c \in Capture : IssuedFor(c) => IssuedFor(c)'
  BY DEF IssuedFor, PurposeOf
<1>3. \A c \in Capture : held'[c] # None => sessions'[held'[c]] = "used"
  BY <1>1 DEF SessionInv
<1>4. \A c, o \in Capture : c # o /\ held'[c] # None => held'[o] # held'[c]
  BY DEF SessionInv
<1>5. \A c \in Capture : Fresh(c)' => held'[c] = None /\ ~Produced(c)'
  BY DEF SessionInv, Spent
<1>6. \A c \in Capture : Spent(c)' \/ Produced(c)' => IssuedFor(c)'
  BY <1>2 DEF SessionInv
<1> QED
  BY <1>3, <1>4, <1>5, <1>6 DEF SessionInv

\* A step of capture call c that is not the spending of a session: it stays on its side
\* of that statement and produces nothing before it.
LEMMA OwnStep ==
  ASSUME TypeOK, SessionInv, NEW c \in Capture, NEW to,
         pc' = [pc EXCEPT ![c] = to], UNCHANGED <<held, sessions>>,
         \A o \in Capture \ {c} : Produced(o)' <=> Produced(o),
         Fresh(c)' => Fresh(c),
         Spent(c)' => Spent(c),
         Produced(c)' => Produced(c) \/ Spent(c)
  PROVE  SessionInv'
<1>1. \A o \in Capture \ {c} : (Fresh(o)' <=> Fresh(o)) /\ (Spent(o)' <=> Spent(o))
  BY DEF TypeOK, Fresh, Spent, Call
<1> QED
  BY <1>1, SessionKept

\* A step of a call that captures nothing.
LEMMA OtherStep ==
  ASSUME TypeOK, SessionInv, NEW c \in Call \ Capture, NEW to,
         pc' = [pc EXCEPT ![c] = to], UNCHANGED <<held, sessions>>,
         \A o \in Capture : Produced(o)' <=> Produced(o)
  PROVE  SessionInv'
<1>1. \A o \in Capture : (Fresh(o)' <=> Fresh(o)) /\ (Spent(o)' <=> Spent(o))
  BY DEF TypeOK, Fresh, Spent, Call
<1> QED
  BY <1>1, SessionKept

\* The statement that spends a session.
LEMMA ConsumeSpends ==
  ASSUME TypeOK, SessionInv, NEW c \in Capture, NEW s \in Session, NEW from,
         Consume(c, s, from, PurposeOf(c)), pc[c] = from => Fresh(c),
         \A o \in Capture : Produced(o)' <=> Produced(o)
  PROVE  SessionInv'
<1>1. pc[c] = from /\ Fresh(c) /\ held[c] = None /\ ~Produced(c)
  BY DEF SessionInv, Consume
<1>2. c \in Call
  BY DEF Call
<1>3. CASE sessions[s] # "pending"
  <2>1. pc' = [pc EXCEPT ![c] = "failed"] /\ UNCHANGED <<held, sessions>>
    BY <1>3 DEF Consume
  <2>2. ~Fresh(c)' /\ ~Spent(c)'
    BY <1>2, <2>1 DEF TypeOK, Fresh, Spent
  <2> QED
    BY <1>1, <2>1, <2>2, OwnStep
<1>4. CASE sessions[s] = "pending"
  <2> DEFINE ok == SessionPurpose[s] = PurposeOf(c) /\ SessionModality[s] = ModalityOf[c]
  <2>1. /\ sessions' = [sessions EXCEPT ![s] = "used"]
        /\ held' = [held EXCEPT ![c] = s]
        /\ pc' = [pc EXCEPT ![c] = IF ok THEN "consumed" ELSE "failed"]
    BY <1>4 DEF Consume
  <2>2. s # None /\ held'[c] = s /\ sessions'[s] = "used"
    BY <2>1, NoneIsNoRow DEF TypeOK
  <2>3. \A o \in Capture \ {c} : held'[o] = held[o]
    BY <2>1 DEF TypeOK
  <2>4. \A r \in Session : sessions[r] = "used" => sessions'[r] = "used"
    BY <2>1 DEF TypeOK
  <2>5. \A o \in Capture : held[o] # s
    BY <1>4, <2>2 DEF SessionInv
  <2>6. \A o \in Capture \ {c} : (Fresh(o)' <=> Fresh(o)) /\ (Spent(o)' <=> Spent(o))
    BY <1>2, <2>1 DEF TypeOK, Fresh, Spent, Call
  <2>7. ~Fresh(c)' /\ (Spent(c)' => ok)
    BY <1>2, <2>1 DEF TypeOK, Fresh, Spent
  <2>8. Spent(c)' => IssuedFor(c)'
    BY <2>2, <2>7 DEF IssuedFor, PurposeOf
  <2>9. \A o \in Capture \ {c} : IssuedFor(o) => IssuedFor(o)'
    BY <2>3 DEF IssuedFor, PurposeOf
  <2>10. \A o \in Capture : held'[o] # None => sessions'[held'[o]] = "used"
    BY <2>2, <2>3, <2>4 DEF SessionInv, TypeOK
  <2>11. \A a, b \in Capture : a # b /\ held'[a] # None => held'[b] # held'[a]
    BY <2>2, <2>3, <2>5 DEF SessionInv
  <2>12. \A o \in Capture : Fresh(o)' => held'[o] = None /\ ~Produced(o)'
    BY <2>3, <2>6, <2>7 DEF SessionInv
  <2>13. \A o \in Capture : Spent(o)' \/ Produced(o)' => IssuedFor(o)'
    BY <1>1, <2>6, <2>8, <2>9 DEF SessionInv
  <2> QED
    BY <2>10, <2>11, <2>12, <2>13 DEF SessionInv
<1> QED
  BY <1>3, <1>4

-----------------------------------------------------------------------------
\* One lemma per kind of call.

\* A step of a capture call past its session that produces nothing.
LEMMA LateStep ==
  ASSUME TypeOK, SessionInv, NEW c \in Capture, Spent(c), NEW to,
         pc' = [pc EXCEPT ![c] = to], UNCHANGED <<held, sessions, templates, attempts>>,
         to \notin {"idle", "ready"}, c \in Enrolment => to # "subjectMissing"
  PROVE  SessionInv'
<1>1. c \in Call
  BY DEF Call
<1>2. ~Fresh(c)'
  BY <1>1 DEF Fresh, TypeOK
<1>3. \A o \in Capture : Produced(o)' <=> Produced(o)
  BY DEF Produced
<1> QED
  BY <1>2, <1>3, OwnStep

\* A step of an enrolment keeps SessionInv.
LEMMA EnrolKeepsSessions ==
  ASSUME TypeOK, SessionInv, NEW e \in Enrolment, Enrol(e)
  PROVE  SessionInv'
<1>1. e \in Capture /\ e \in Call
  BY DEF Capture, Call
<1>2. CASE EnsureSubject(e) \/ InsertSubject(e)
  <2>1. PICK to \in {"subjectMissing", "ready", "failed"} : pc' = [pc EXCEPT ![e] = to]
    BY <1>2 DEF EnsureSubject, InsertSubject, AfterSubject
  <2>2. Fresh(e) /\ UNCHANGED <<held, sessions, templates, attempts>>
    BY <1>2 DEF EnsureSubject, InsertSubject, Fresh
  <2>3. ~Spent(e)'
    BY <1>1, <2>1 DEF Fresh, Spent, TypeOK
  <2>4. \A o \in Capture : Produced(o)' <=> Produced(o)
    BY <2>2 DEF Produced
  <2> QED
    BY <1>1, <2>1, <2>2, <2>3, <2>4, OwnStep
<1>3. ASSUME NEW s \in Session, ConsumeForEnrolment(e, s) PROVE SessionInv'
  <2>1. Consume(e, s, "ready", PurposeOf(e))
    BY <1>3 DEF ConsumeForEnrolment, PurposeOf
  <2>2. pc[e] = "ready" => Fresh(e)
    BY DEF Fresh
  <2>3. \A o \in Capture : Produced(o)' <=> Produced(o)
    BY <1>3 DEF ConsumeForEnrolment, Produced
  <2> QED
    BY <1>1, <2>1, <2>2, <2>3, ConsumeSpends
<1>4. CASE RecordConsent(e) \/ AuditConsent(e)
  <2>1. PICK to \in {"consented", "consentAudited"} : pc' = [pc EXCEPT ![e] = to]
    BY <1>4 DEF RecordConsent, AuditConsent
  <2>2. Spent(e) /\ UNCHANGED <<held, sessions, templates, attempts>>
    BY <1>4 DEF RecordConsent, AuditConsent, Spent, Fresh
  <2> QED
    BY <1>1, <2>1, <2>2, LateStep
<1>5. CASE AnalyseReference(e)
  <2>1. PICK to \in {"extractorChecked", "failed"} : pc' = [pc EXCEPT ![e] = to]
    BY <1>5 DEF AnalyseReference
  <2>2. Spent(e) /\ UNCHANGED <<held, sessions, templates, attempts>>
    BY <1>5 DEF AnalyseReference, Spent, Fresh
  <2> QED
    BY <1>1, <2>1, <2>2, LateStep
<1>6. CASE CheckReference(e)
  <2>1. PICK to \in {"analysed", "failed"} : pc' = [pc EXCEPT ![e] = to]
    BY <1>6 DEF CheckReference
  <2>2. Spent(e) /\ UNCHANGED <<held, sessions, templates, attempts>>
    BY <1>6 DEF CheckReference, Spent, Fresh
  <2> QED
    BY <1>1, <2>1, <2>2, LateStep
<1>7. CASE StoreTemplate(e)
  <2>1. pc' = [pc EXCEPT ![e] = "stored"] /\ Spent(e)
    BY <1>7 DEF StoreTemplate, Spent, Fresh
  <2>2. UNCHANGED <<held, sessions, attempts>>
    BY <1>7 DEF StoreTemplate
  <2>3. \A f \in Enrolment \ {e} : templates'[f] = templates[f]
    BY <1>7 DEF StoreTemplate, TypeOK
  <2>4. \A o \in Capture \ {e} : Produced(o)' <=> Produced(o)
    BY <2>2, <2>3 DEF Produced, Capture
  <2>5. ~Fresh(e)'
    BY <1>1, <2>1 DEF Fresh, TypeOK
  <2> QED
    BY <1>1, <2>1, <2>2, <2>4, <2>5, OwnStep
<1>8. CASE AuditEnrolment(e)
  <2>1. pc' = [pc EXCEPT ![e] = "done"] /\ Spent(e)
    BY <1>8 DEF AuditEnrolment, Spent, Fresh
  <2>2. UNCHANGED <<held, sessions, templates, attempts>>
    BY <1>8 DEF AuditEnrolment
  <2> QED
    BY <1>1, <2>1, <2>2, LateStep
<1> QED
  BY <1>2, <1>3, <1>4, <1>5, <1>6, <1>7, <1>8 DEF Enrol

\* Where a verification goes from a point past its session.
LEMMA VerifyMoves ==
  ASSUME NEW v \in Verification, Verify(v), ~\E s \in Session : ConsumeForVerification(v, s)
  PROVE  /\ pc[v] \notin {"idle", "failed", "crashed"}
         /\ \E to : /\ pc' = [pc EXCEPT ![v] = to]
                    /\ to \notin {"idle", "ready"}
         /\ UNCHANGED <<held, sessions, templates>>
         /\ InsertAttempt(v) \/ UNCHANGED attempts
<1>1. v \notin Enrolment
  BY CallsAreDistinct
<1>2. CASE LocateSubject(v)
  BY <1>2 DEF LocateSubject, Continues, Concludes
<1>3. CASE ReadTemplate(v)
  BY <1>3 DEF ReadTemplate, Concludes
<1>4. CASE AnalyseProbe(v)
  BY <1>4 DEF AnalyseProbe, ProviderFails, Continues, Concludes
<1>5. CASE CheckProbe(v)
  BY <1>5 DEF CheckProbe, Concludes
<1>6. CASE Compare(v)
  BY <1>6 DEF Compare, ProviderFails, Continues, Judge, Concludes
<1>7. CASE CheckRisk(v)
  BY <1>7 DEF CheckRisk, Continues, Concludes
<1>8. CASE EnsureSubject(v)
  <2>1. PICK to \in {"subjectMissing", "recording"} : pc' = [pc EXCEPT ![v] = to]
    BY <1>1, <1>8 DEF EnsureSubject, AfterSubject
  <2> QED
    BY <1>1, <1>8, <2>1 DEF EnsureSubject
<1>9. CASE InsertSubject(v)
  <2>1. PICK to \in {"failed", "recording"} : pc' = [pc EXCEPT ![v] = to]
    BY <1>1, <1>9 DEF InsertSubject, AfterSubject
  <2> QED
    BY <1>9, <2>1 DEF InsertSubject
<1>10. CASE RecordAudit(v) \/ InsertAttempt(v) \/ OpenCase(v)
  BY <1>10 DEF RecordAudit, InsertAttempt, OpenCase
<1>11. CASE NotifyReview(v) \/ NotifyCompleted(v)
  BY <1>11 DEF NotifyReview, NotifyCompleted
<1> QED
  BY <1>2, <1>3, <1>4, <1>5, <1>6, <1>7, <1>8, <1>9, <1>10, <1>11 DEF Verify

\* A step of a verification keeps SessionInv.
LEMMA VerifyKeepsSessions ==
  ASSUME TypeOK, SessionInv, NEW v \in Verification, Verify(v)
  PROVE  SessionInv'
<1>1. v \in Capture /\ v \in Call /\ v \notin Enrolment
  BY CallsAreDistinct DEF Capture, Call
<1>2. ASSUME NEW s \in Session, ConsumeForVerification(v, s) PROVE SessionInv'
  <2>1. Consume(v, s, "idle", PurposeOf(v))
    BY <1>1, <1>2 DEF ConsumeForVerification, PurposeOf
  <2>2. pc[v] = "idle" => Fresh(v)
    BY DEF Fresh
  <2>3. \A o \in Capture : Produced(o)' <=> Produced(o)
    BY <1>2 DEF ConsumeForVerification, Produced
  <2> QED
    BY <1>1, <2>1, <2>2, <2>3, ConsumeSpends
<1>3. CASE ~\E s \in Session : ConsumeForVerification(v, s)
  <2>1. PICK to : pc' = [pc EXCEPT ![v] = to] /\ to \notin {"idle", "ready"}
    BY <1>3, VerifyMoves
  <2>2. Spent(v) /\ UNCHANGED <<held, sessions, templates>>
    BY <1>1, <1>3, VerifyMoves DEF Spent, Fresh
  <2>3. CASE UNCHANGED attempts
    BY <1>1, <2>1, <2>2, <2>3, LateStep
  <2>4. CASE InsertAttempt(v)
    <3>1. \A o \in Verification \ {v} : attempts'[o] = attempts[o]
      BY <2>4 DEF InsertAttempt, TypeOK
    <3>2. \A o \in Capture \ {v} : Produced(o)' <=> Produced(o)
      BY <2>2, <3>1 DEF Produced, Capture
    <3>3. ~Fresh(v)'
      BY <1>1, <2>1 DEF Fresh, TypeOK
    <3> QED
      BY <1>1, <2>1, <2>2, <3>2, <3>3, OwnStep
  <2> QED
    BY <1>3, <2>3, <2>4, VerifyMoves
<1> QED
  BY <1>2, <1>3

\* The other calls change a template's status but never to or from "none".
LEMMA OthersKeepSessions ==
  ASSUME TypeOK, SessionInv,
         \/ \E w \in Withdrawal : Withdraw(w)
         \/ \E d \in Deletion : Delete(d)
         \/ \E x \in Retention : Retain(x)
         \/ \E p \in Purge : PurgeExpired(p)
  PROVE  SessionInv'
<1>1. Withdrawal \cup Deletion \cup Retention \cup Purge \subseteq Call \ Capture
  BY CallsAreDistinct DEF Call, Capture, Sweeper
<1>2. ASSUME \A e \in Enrolment : (templates'[e].status = "none") <=> (templates[e].status = "none"),
             UNCHANGED attempts
      PROVE  \A o \in Capture : Produced(o)' <=> Produced(o)
  BY <1>2 DEF Produced, Capture
<1>3. ASSUME NEW w \in Withdrawal, Withdraw(w) PROVE SessionInv'
  <2>1. \A e \in Enrolment : (templates'[e].status = "none") <=> (templates[e].status = "none")
    <3>1. CASE RevokeTemplates(w)
      BY <3>1, ArgumentsAreTyped DEF RevokeTemplates, TypeOK, Template
    <3>2. CASE UNCHANGED templates
      BY <3>2
    <3> QED
      BY <1>3, <3>1, <3>2
      DEF Withdraw, ReadReceipt, MarkWithdrawn, AuditWithdrawal, NotifyWithdrawal
  <2> QED
    BY <1>1, <1>2, <1>3, <2>1, WithdrawFrame, OtherStep
<1>4. ASSUME NEW d \in Deletion, Delete(d) PROVE SessionInv'
  <2>1. \A e \in Enrolment : (templates'[e].status = "none") <=> (templates[e].status = "none")
    <3>1. CASE WipeTemplates(d)
      <4>1. ASSUME NEW t \in Template
            PROVE  [t EXCEPT !.status = "revoked", !.wiped = TRUE].status = "revoked"
        BY DEF Template
      <4> QED
        BY <3>1, <4>1 DEF WipeTemplates, TypeOK
    <3>2. CASE UNCHANGED templates
      BY <3>2
    <3>3. CASE Sweep(d)
      BY <3>3, SweepFrame DEF Sweeper
    <3> QED
      BY <1>4, <3>1, <3>2, <3>3
      DEF Delete, FindSubject, CheckHold, ParkRequest, AuditBlocked, WithdrawAll,
          ListEvidence, CompleteRequest, AuditDeletion
  <2> QED
    BY <1>1, <1>2, <1>4, <2>1, DeleteFrame, OtherStep
<1>5. ASSUME NEW x \in Retention, Retain(x) PROVE SessionInv'
  BY <1>1, <1>2, <1>5, RetainFrame, OtherStep
<1>6. ASSUME NEW p \in Purge, PurgeExpired(p) PROVE SessionInv'
  BY <1>1, <1>2, <1>6, PurgeFrame, OtherStep
<1> QED
  BY <1>3, <1>4, <1>5, <1>6

-----------------------------------------------------------------------------
\* Every step of the lifecycle keeps SessionInv.
LEMMA SessionsKept ==
  ASSUME TypeOK, SessionInv, [Next]_vars
  PROVE  SessionInv'
<1>1. ASSUME NEW e \in Enrolment, Enrol(e) PROVE SessionInv'
  BY <1>1, EnrolKeepsSessions
<1>2. ASSUME NEW v \in Verification, Verify(v) PROVE SessionInv'
  BY <1>2, VerifyKeepsSessions
<1>3. ASSUME Environment PROVE SessionInv'
  <2>1. UNCHANGED <<templates, attempts, pc, held>>
    BY <1>3, EnvironmentFrame
  <2>2. \A s \in Session : sessions[s] = "used" => sessions'[s] = "used"
    BY <1>3 DEF Environment, CreateSession, SessionLapses, ApproveModel, RevokeModel,
                RaiseSignal, SignalLapses, PlaceHold, ReleaseHold, EvidenceLapses, TypeOK
  <2>3. \A c \in Capture : /\ Fresh(c)' => Fresh(c)
                           /\ Spent(c)' => Spent(c)
                           /\ Produced(c)' => Produced(c)
    BY <2>1 DEF Fresh, Spent, Produced
  <2> QED
    BY <2>1, <2>2, <2>3, SessionKept
<1>4. ASSUME NEW c \in Mortal, Crash(c) PROVE SessionInv'
  <2>1. c \in Call /\ pc' = [pc EXCEPT ![c] = "crashed"] /\ UNCHANGED <<held, sessions>>
    BY <1>4, BoundsAreSubsets DEF Crash
  <2>2. \A o \in Capture : Produced(o)' <=> Produced(o)
    BY <1>4 DEF Crash, Produced
  <2>3. ~Fresh(c)' /\ ~Spent(c)'
    BY <2>1 DEF Fresh, Spent, TypeOK
  <2> QED
    BY <2>1, <2>2, <2>3, OwnStep, OtherStep
<1>5. CASE UNCHANGED vars
  <2>1. UNCHANGED <<templates, attempts, pc, held, sessions>>
    BY <1>5 DEF vars
  <2>2. \A c \in Capture : /\ Fresh(c)' => Fresh(c)
                           /\ Spent(c)' => Spent(c)
                           /\ Produced(c)' => Produced(c)
    BY <2>1 DEF Fresh, Spent, Produced
  <2> QED
    BY <2>1, <2>2, SessionKept
<1> QED
  BY <1>1, <1>2, <1>3, <1>4, <1>5, OthersKeepSessions DEF Next

\* The inductive invariant holds of every reachable state.
THEOREM SessionInvariant == Spec => []SessionInv
<1>1. Init => SessionInv
  BY DEF Init, SessionInv, Fresh, Spent, Produced, Capture, Call, NoTemplate
<1>2. TypeInv /\ SessionInv /\ [Next]_vars => SessionInv'
  BY SessionsKept DEF TypeInv
<1> QED
  BY <1>1, <1>2, TypesAreInvariant, PTL DEF Spec

\* However many calls race for the same capture token (consumeCaptureSession), a session
\* yields at most one template or attempt, of the purpose and modality it was issued for.
THEOREM SessionsAreSpentOnce == Spec => []SessionSpentOnceAsIssued
<1>1. SessionInv => SessionSpentOnceAsIssued
  BY DEF SessionInv, IssuedFor, SessionSpentOnceAsIssued
<1> QED
  BY <1>1, SessionInvariant, PTL

-----------------------------------------------------------------------------
(***************************************************************************)
(* Consents, matches and risk signals.                                     *)
(***************************************************************************)
\* Enrolment e has not inserted its consent receipt.
BeforeConsent(e) == pc[e] \in {"idle", "subjectMissing", "ready", "consumed"}

ConsentInv ==
  /\ \A e \in Enrolment : BeforeConsent(e) => consents[e] = "none"
  /\ \A w \in Withdrawal : pc[w] = "withdrawing" => consents[ConsentOf[w]] # "none"
  /\ \A v \in Verification : \A e \in known[v].withdrawn : consents[e] = "withdrawn"

\* The template that verification v read is one it may be matched against.
Matched(v) ==
  /\ SubjectOf[ref[v]] = SubjectOf[v]
  /\ ModalityOf[ref[v]] = ModalityOf[v]
  /\ ref[v] \notin known[v].withdrawn

MatchInv ==
  /\ \A v \in Verification : pc[v] = "idle" => ref[v] = None
  /\ \A v \in Verification : ref[v] # None => Matched(v)
  /\ \A v \in Verification :
       \/ pc[v] \in {"referenced", "extractorChecked", "comparing", "scored"}
       \/ outcome[v] # None /\ outcome[v].decision = "approved"
       \/ ApprovedAttempt(v)
       => ref[v] # None

\* Verification v has passed its risk check and not yet recorded its attempt.
Settled(v) == pc[v] \in {"unnamed", "subjectMissing", "recording", "audited"}

RiskInv ==
  /\ \A v \in Verification : known[v].risky => SubjectOf[v] \in signals
  /\ \A v \in Verification : pc[v] = "idle" => attempts[v] = None
  /\ \A v \in Verification :
       \/ Settled(v) /\ outcome[v] # None /\ outcome[v].decision = "approved"
       \/ ApprovedAttempt(v)
       => ~known[v].risky

-----------------------------------------------------------------------------
(***************************************************************************)
(* A withdrawn consent stays withdrawn.                                    *)
(***************************************************************************)

\* What every call and the environment does to the notes a verification took: nothing,
\* unless it begins or a signal lapses.
LEMMA NotesKept ==
  ASSUME TypeOK, [Next]_vars, NEW v \in Verification,
         ~\E s \in Session : ConsumeForVerification(v, s)
  PROVE  /\ known'[v].withdrawn = known[v].withdrawn
         /\ known'[v].completed = known[v].completed
         /\ known'[v].revoked = known[v].revoked
         /\ known'[v].risky => known[v].risky
<1>1. known[v] \in Known
  BY DEF TypeOK
<1>2. CASE UNCHANGED known
  BY <1>2
<1>3. ASSUME NEW k \in Known
      PROVE  /\ [k EXCEPT !.risky = FALSE].withdrawn = k.withdrawn
             /\ [k EXCEPT !.risky = FALSE].completed = k.completed
             /\ [k EXCEPT !.risky = FALSE].revoked = k.revoked
             /\ [k EXCEPT !.risky = FALSE].risky = FALSE
             /\ [k EXCEPT !.onHold = FALSE].withdrawn = k.withdrawn
             /\ [k EXCEPT !.onHold = FALSE].completed = k.completed
             /\ [k EXCEPT !.onHold = FALSE].revoked = k.revoked
             /\ [k EXCEPT !.onHold = FALSE].risky = k.risky
  BY DEF Known
<1>4. ASSUME NEW o \in Verification, Verify(o)
      PROVE  UNCHANGED known \/ \E s \in Session : ConsumeForVerification(o, s)
  <2>1. CASE LocateSubject(o) \/ ReadTemplate(o)
    BY <2>1 DEF LocateSubject, ReadTemplate, Continues, Concludes
  <2>2. CASE AnalyseProbe(o) \/ CheckProbe(o)
    BY <2>2 DEF AnalyseProbe, CheckProbe, ProviderFails, Continues, Concludes
  <2>3. CASE Compare(o) \/ CheckRisk(o)
    BY <2>3 DEF Compare, Judge, CheckRisk, ProviderFails, Continues, Concludes
  <2>4. CASE EnsureSubject(o) \/ InsertSubject(o)
    BY <2>4, SubjectFrame
  <2>5. CASE \/ RecordAudit(o) \/ InsertAttempt(o) \/ OpenCase(o) \/ NotifyReview(o)
             \/ NotifyCompleted(o)
    BY <2>5 DEF RecordAudit, InsertAttempt, OpenCase, NotifyReview, NotifyCompleted
  <2> QED
    BY <1>4, <2>1, <2>2, <2>3, <2>4, <2>5 DEF Verify
<1>5. ASSUME NEW o \in Verification, Verify(o) PROVE known'[v] = known[v]
  <2>1. CASE UNCHANGED known
    BY <2>1
  <2>2. CASE \E s \in Session : ConsumeForVerification(o, s)
    <3>1. o # v /\ known' = [known EXCEPT ![o] = Snapshot(o)]
      BY <2>2 DEF ConsumeForVerification
    <3> QED
      BY <3>1 DEF TypeOK
  <2> QED
    BY <1>4, <1>5, <2>1, <2>2
<1>6. ASSUME NEW d \in Deletion, Delete(d) PROVE known'[v] = known[v]
  <2>1. CASE FindSubject(d)
    <3>1. d # v
      BY CallsAreDistinct DEF Sweeper
    <3> QED
      BY <2>1, <3>1 DEF FindSubject, TypeOK
  <2>2. CASE Sweep(d)
    BY <2>2, SweepFrame DEF Sweeper
  <2>3. CASE UNCHANGED known
    BY <2>3
  <2> QED
    BY <1>6, <2>1, <2>2, <2>3
    DEF Delete, CheckHold, ParkRequest, AuditBlocked, WipeTemplates, WithdrawAll, ListEvidence,
        CompleteRequest, AuditDeletion
<1>7. ASSUME Environment
      PROVE  /\ known'[v].withdrawn = known[v].withdrawn
             /\ known'[v].completed = known[v].completed
             /\ known'[v].revoked = known[v].revoked
             /\ known'[v].risky => known[v].risky
  <2>1. CASE \E s \in Subject : SignalLapses(s) \/ ReleaseHold(s)
    <3>1. v \in DOMAIN known
      BY DEF TypeOK
    <3>2. \/ known'[v] = known[v]
          \/ known'[v] = [known[v] EXCEPT !.risky = FALSE]
          \/ known'[v] = [known[v] EXCEPT !.onHold = FALSE]
      BY <2>1, <3>1 DEF SignalLapses, ReleaseHold
    <3> QED
      BY <1>1, <1>3, <3>2
  <2> QED
    BY <1>7, <2>1, BoundsAreSubsets
    DEF Environment, CreateSession, SessionLapses, ApproveModel, RevokeModel, RaiseSignal,
        PlaceHold, EvidenceLapses
<1>8. ASSUME NEW c \in Mortal, Crash(c) PROVE UNCHANGED known
  BY <1>8 DEF Crash
<1>9. CASE UNCHANGED vars
  BY <1>9 DEF vars
<1> QED
  BY <1>2, <1>5, <1>6, <1>7, <1>8, <1>9, EnrolFrame, WithdrawFrame, RetainFrame, PurgeFrame
  DEF Next

\* A call that has nothing to do with a consent takes a step.
LEMMA ConsentKept ==
  ASSUME TypeOK, ConsentInv, UNCHANGED consents,
         \A e \in Enrolment : BeforeConsent(e)' => BeforeConsent(e),
         \A w \in Withdrawal : pc'[w] = "withdrawing" => consents[ConsentOf[w]] # "none",
         \A v \in Verification : \A e \in known'[v].withdrawn : consents[e] = "withdrawn"
  PROVE  ConsentInv'
  BY DEF ConsentInv

\* The statements that change a receipt: it is given once, and withdrawn for good.
LEMMA ReceiptsAdvance ==
  ASSUME TypeOK, ConsentInv, UNCHANGED known,
         \A e \in Enrolment : BeforeConsent(e)' => BeforeConsent(e) /\ consents'[e] = consents[e],
         \A e \in Enrolment : /\ consents[e] = "withdrawn" => consents'[e] = "withdrawn"
                              /\ consents[e] # "none" => consents'[e] # "none",
         \A w \in Withdrawal : pc'[w] = "withdrawing" => pc[w] = "withdrawing"
  PROVE  ConsentInv'
<1>1. \A w \in Withdrawal : ConsentOf[w] \in Enrolment
  BY ArgumentsAreTyped
<1>2. \A v \in Verification : known[v].withdrawn \subseteq Enrolment
  BY DEF TypeOK, Known
<1> QED
  BY <1>1, <1>2 DEF ConsentInv

\* A step of an enrolment keeps ConsentInv.
LEMMA EnrolKeepsConsents ==
  ASSUME TypeOK, ConsentInv, NEW e \in Enrolment, Enrol(e)
  PROVE  ConsentInv'
<1>1. /\ e \in Call
      /\ \A f \in Enrolment : f \in Call
      /\ \A w \in Withdrawal : w \in Call /\ w # e
  BY CallsAreDistinct DEF Call, Capture
<1>2. UNCHANGED known /\ \E to : pc' = [pc EXCEPT ![e] = to]
  BY EnrolFrame
<1>3. \A w \in Withdrawal : pc'[w] = pc[w]
  BY <1>1, <1>2 DEF TypeOK
<1>4. \A f \in Enrolment \ {e} : BeforeConsent(f)' <=> BeforeConsent(f)
  BY <1>1, <1>2 DEF TypeOK, BeforeConsent
<1>5. CASE RecordConsent(e)
  <2>1. consents[e] = "none" /\ ~BeforeConsent(e)'
    BY <1>1, <1>5 DEF RecordConsent, ConsentInv, BeforeConsent, TypeOK
  <2>2. \A f \in Enrolment : consents'[f] = IF f = e THEN "given" ELSE consents[f]
    BY <1>5 DEF RecordConsent, TypeOK
  <2> QED
    BY <1>2, <1>3, <1>4, <2>1, <2>2, ReceiptsAdvance DEF BeforeConsent
<1>6. CASE ~RecordConsent(e)
  <2>1. UNCHANGED consents
    BY <1>6, SubjectFrame
    DEF Enrol, ConsumeForEnrolment, AuditConsent, AnalyseReference, CheckReference,
        StoreTemplate, AuditEnrolment
  <2>2. BeforeConsent(e)' => BeforeConsent(e)
    <3>1. CASE EnsureSubject(e) \/ InsertSubject(e)
      BY <3>1 DEF EnsureSubject, InsertSubject, BeforeConsent
    <3>2. CASE \E s \in Session : ConsumeForEnrolment(e, s)
      BY <3>2 DEF ConsumeForEnrolment, Consume, BeforeConsent
    <3>3. CASE AuditConsent(e) \/ AnalyseReference(e) \/ CheckReference(e)
      <4>1. PICK to \in {"consentAudited", "extractorChecked", "analysed", "failed"} :
              pc' = [pc EXCEPT ![e] = to]
        BY <3>3 DEF AuditConsent, AnalyseReference, CheckReference
      <4> QED
        BY <1>1, <4>1 DEF BeforeConsent, TypeOK
    <3>4. CASE StoreTemplate(e) \/ AuditEnrolment(e)
      BY <1>1, <3>4 DEF StoreTemplate, AuditEnrolment, BeforeConsent, TypeOK
    <3> QED
      BY <1>6, <3>1, <3>2, <3>3, <3>4 DEF Enrol
  <2> QED
    BY <1>2, <1>3, <1>4, <2>1, <2>2, ConsentKept DEF ConsentInv
<1> QED
  BY <1>5, <1>6

\* A step of a withdrawal keeps ConsentInv.
LEMMA WithdrawKeepsConsents ==
  ASSUME TypeOK, ConsentInv, NEW w \in Withdrawal, Withdraw(w)
  PROVE  ConsentInv'
<1>1. /\ w \in Call /\ ConsentOf[w] \in Enrolment
      /\ \A e \in Enrolment : e \in Call /\ e # w
      /\ \A o \in Withdrawal : o \in Call
  BY CallsAreDistinct, ArgumentsAreTyped DEF Call, Capture
<1>2. UNCHANGED known /\ \E to : pc' = [pc EXCEPT ![w] = to]
  BY WithdrawFrame
<1>3. \A e \in Enrolment : pc'[e] = pc[e]
  BY <1>1, <1>2 DEF TypeOK
<1>4. \A o \in Withdrawal \ {w} : pc'[o] = pc[o]
  BY <1>1, <1>2 DEF TypeOK
<1>5. CASE ReadReceipt(w)
  <2>1. UNCHANGED consents /\ (pc'[w] = "withdrawing" => consents[ConsentOf[w]] # "none")
    BY <1>1, <1>5 DEF ReadReceipt, TypeOK
  <2> QED
    BY <1>2, <1>3, <1>4, <2>1, ConsentKept DEF ConsentInv, BeforeConsent
<1>6. CASE MarkWithdrawn(w)
  <2>1. pc'[w] = "withdrawn" /\ consents[ConsentOf[w]] # "none"
    BY <1>1, <1>6 DEF MarkWithdrawn, ConsentInv, TypeOK
  <2>2. \A e \in Enrolment :
          consents'[e] = IF e = ConsentOf[w] THEN "withdrawn" ELSE consents[e]
    BY <1>6 DEF MarkWithdrawn, TypeOK
  <2>3. \A e \in Enrolment : BeforeConsent(e)' => BeforeConsent(e) /\ e # ConsentOf[w]
    BY <1>3, <2>1 DEF BeforeConsent, ConsentInv
  <2> QED
    BY <1>2, <1>4, <2>1, <2>2, <2>3, ReceiptsAdvance
<1>7. CASE RevokeTemplates(w) \/ AuditWithdrawal(w) \/ NotifyWithdrawal(w)
  <2>1. UNCHANGED consents /\ pc'[w] # "withdrawing"
    BY <1>1, <1>7 DEF RevokeTemplates, AuditWithdrawal, NotifyWithdrawal, TypeOK
  <2> QED
    BY <1>2, <1>3, <1>4, <2>1, ConsentKept DEF ConsentInv, BeforeConsent
<1> QED
  BY <1>5, <1>6, <1>7 DEF Withdraw

\* A step of a call that neither gives nor withdraws one receipt.
LEMMA OthersKeepConsents ==
  ASSUME TypeOK, ConsentInv, NEW c \in Call \ (Enrolment \cup Withdrawal), NEW to,
         pc' = [pc EXCEPT ![c] = to], UNCHANGED consents,
         \A v \in Verification : \A e \in known'[v].withdrawn : consents[e] = "withdrawn"
  PROVE  ConsentInv'
<1>1. \A o \in Enrolment \cup Withdrawal : pc'[o] = pc[o]
  BY DEF TypeOK, Call, Capture
<1> QED
  BY <1>1, ConsentKept DEF ConsentInv, BeforeConsent

\* A step of a deletion keeps ConsentInv.
LEMMA DeleteKeepsConsents ==
  ASSUME TypeOK, ConsentInv, NEW d \in Deletion, Delete(d),
         \A v \in Verification : known'[v].withdrawn = known[v].withdrawn
  PROVE  ConsentInv'
<1>1. d \in Call \ (Enrolment \cup Withdrawal)
  BY CallsAreDistinct DEF Call, Sweeper
<1>2. PICK to : pc' = [pc EXCEPT ![d] = to]
  BY DeleteFrame
<1>3. CASE WithdrawAll(d)
  <2>1. \A o \in Enrolment \cup Withdrawal : pc'[o] = pc[o]
    BY <1>1, <1>2 DEF TypeOK, Call, Capture
  <2>2. \A e \in Enrolment :
          consents'[e] = consents[e] \/ (consents[e] = "given" /\ consents'[e] = "withdrawn")
    BY <1>3 DEF WithdrawAll
  <2>3. \A e \in Enrolment : BeforeConsent(e)' => BeforeConsent(e) /\ consents'[e] = consents[e]
    BY <2>1, <2>2 DEF BeforeConsent, ConsentInv
  <2>4. UNCHANGED known
    BY <1>3 DEF WithdrawAll
  <2> QED
    BY <2>1, <2>2, <2>3, <2>4, ReceiptsAdvance
<1>4. CASE UNCHANGED consents
  BY <1>1, <1>2, <1>4, OthersKeepConsents DEF ConsentInv
<1>5. CASE Sweep(d)
  BY <1>4, <1>5, SweepFrame DEF Sweeper
<1> QED
  BY <1>3, <1>4, <1>5
  DEF Delete, FindSubject, CheckHold, ParkRequest, AuditBlocked, WipeTemplates, ListEvidence,
      CompleteRequest, AuditDeletion

\* Every step of the lifecycle keeps ConsentInv.
LEMMA ConsentsKept ==
  ASSUME TypeOK, ConsentInv, [Next]_vars
  PROVE  ConsentInv'
<1>1. ASSUME NEW v \in Verification, ~\E s \in Session : ConsumeForVerification(v, s)
      PROVE  known'[v].withdrawn = known[v].withdrawn
  BY <1>1, NotesKept
<1>2. ASSUME NEW c \in Call \ Verification, NEW to, pc' = [pc EXCEPT ![c] = to]
      PROVE  \A v \in Verification : known'[v].withdrawn = known[v].withdrawn
  <2>1. \A v \in Verification : pc'[v] = pc[v]
    BY <1>2 DEF TypeOK, Call, Capture
  <2>2. ASSUME NEW v \in Verification, NEW s \in Session, ConsumeForVerification(v, s)
        PROVE  FALSE
    <3>1. pc[v] = "idle" /\ pc'[v] # "idle"
      BY <2>2 DEF ConsumeForVerification, Consume, TypeOK, Call, Capture
    <3> QED
      BY <2>1, <3>1
  <2> QED
    BY <1>1, <2>2
<1>3. ASSUME NEW e \in Enrolment, Enrol(e) PROVE ConsentInv'
  BY <1>3, EnrolKeepsConsents
<1>4. ASSUME NEW w \in Withdrawal, Withdraw(w) PROVE ConsentInv'
  BY <1>4, WithdrawKeepsConsents
<1>5. ASSUME NEW d \in Deletion, Delete(d) PROVE ConsentInv'
  <2>1. d \in Call \ Verification
    BY CallsAreDistinct DEF Call, Sweeper
  <2> QED
    BY <1>2, <1>5, <2>1, DeleteFrame, DeleteKeepsConsents
<1>6. ASSUME NEW v \in Verification, Verify(v) PROVE ConsentInv'
  <2>1. v \in Call \ (Enrolment \cup Withdrawal)
    BY CallsAreDistinct DEF Call, Capture
  <2>2. \A o \in Verification : \A e \in known'[o].withdrawn : consents[e] = "withdrawn"
    <3>1. ASSUME NEW o \in Verification, NEW s \in Session, ConsumeForVerification(o, s)
          PROVE  \A e \in known'[o].withdrawn : consents[e] = "withdrawn"
      <4>1. known'[o] = Snapshot(o)
        BY <3>1 DEF ConsumeForVerification, TypeOK
      <4>2. Snapshot(o).withdrawn = {e \in Enrolment : consents[e] = "withdrawn"}
        BY DEF Snapshot, Nothing
      <4> QED
        BY <4>1, <4>2
    <3> QED
      BY <1>1, <3>1 DEF ConsentInv
  <2> QED
    BY <1>6, <2>1, <2>2, VerifyFrame, OthersKeepConsents
<1>7. ASSUME NEW x \in Retention, Retain(x) PROVE ConsentInv'
  <2>1. x \in Call \ (Enrolment \cup Withdrawal)
    BY CallsAreDistinct DEF Call
  <2> QED
    BY <1>7, <2>1, RetainFrame, OthersKeepConsents DEF ConsentInv
<1>8. ASSUME NEW p \in Purge, PurgeExpired(p) PROVE ConsentInv'
  <2>1. p \in Call \ (Enrolment \cup Withdrawal)
    BY CallsAreDistinct DEF Call, Sweeper
  <2> QED
    BY <1>8, <2>1, PurgeFrame, OthersKeepConsents DEF ConsentInv
<1>9. ASSUME NEW c \in Mortal, Crash(c) PROVE ConsentInv'
  <2>1. UNCHANGED <<consents, known>> /\ pc' = [pc EXCEPT ![c] = "crashed"]
    BY <1>9 DEF Crash
  <2>2. \A o \in Enrolment \cup Withdrawal : pc'[o] = pc[o] \/ pc'[o] = "crashed"
    BY <2>1 DEF TypeOK, Call, Capture
  <2> QED
    BY <2>1, <2>2, ConsentKept DEF ConsentInv, BeforeConsent
<1>10. ASSUME UNCHANGED <<consents, pc>> PROVE ConsentInv'
  <2>1. ASSUME NEW v \in Verification, NEW s \in Session, ConsumeForVerification(v, s)
        PROVE  FALSE
    <3>1. pc[v] = "idle" /\ pc'[v] # "idle"
      BY <2>1 DEF ConsumeForVerification, Consume, TypeOK, Call, Capture
    <3> QED
      BY <1>10, <3>1
  <2> QED
    BY <1>1, <1>10, <2>1, ConsentKept DEF ConsentInv, BeforeConsent
<1>11. CASE Environment \/ UNCHANGED vars
  BY <1>10, <1>11, EnvironmentFrame DEF vars
<1> QED
  BY <1>3, <1>4, <1>5, <1>6, <1>7, <1>8, <1>9, <1>11 DEF Next

\* A receipt withdrawn when a verification began is withdrawn for as long as the
\* verification runs and after.
THEOREM ConsentInvariant == Spec => []ConsentInv
<1>1. Init => ConsentInv
  BY ArgumentsAreTyped DEF Init, ConsentInv, Nothing, Call
<1>2. TypeInv /\ ConsentInv /\ [Next]_vars => ConsentInv'
  BY ConsentsKept DEF TypeInv
<1> QED
  BY <1>1, <1>2, TypesAreInvariant, PTL DEF Spec

-----------------------------------------------------------------------------
(***************************************************************************)
(* The template an approval matched.                                       *)
(***************************************************************************)
Approves(o) == o # None /\ o.decision = "approved"

\* A step of verification v that leaves ref alone and comes to a point, an outcome or a
\* record that needs a template only if it has one.
LEMMA MatchOwn ==
  ASSUME TypeOK, MatchInv, NEW v \in Verification, NEW to,
         pc' = [pc EXCEPT ![v] = to], to # "idle", UNCHANGED ref,
         \A o \in Verification : pc[o] = "idle" \/ known'[o].withdrawn = known[o].withdrawn,
         \A o \in Verification \ {v} : outcome'[o] = outcome[o] /\ attempts'[o] = attempts[o],
         \/ to \in {"referenced", "extractorChecked", "comparing", "scored"}
         \/ Approves(outcome'[v])
         \/ Approves(attempts'[v])
         => ref[v] # None
  PROVE  MatchInv'
<1>1. v \in Call /\ pc \in [Call -> Pc] /\ \A o \in Verification : o \in Call
  BY DEF TypeOK, Call, Capture
<1>2. pc'[v] = to /\ \A o \in Verification \ {v} : pc'[o] = pc[o]
  BY <1>1
<1>3. \A o \in Verification : pc'[o] = "idle" => ref'[o] = None
  BY <1>2 DEF MatchInv
<1>4. \A o \in Verification : ref'[o] # None => Matched(o)'
  BY DEF MatchInv, Matched
<1>5. ASSUME NEW o \in Verification,
             \/ pc'[o] \in {"referenced", "extractorChecked", "comparing", "scored"}
             \/ outcome'[o] # None /\ outcome'[o].decision = "approved"
             \/ ApprovedAttempt(o)'
      PROVE  ref'[o] # None
  <2>1. CASE o = v
    BY <1>2, <1>5, <2>1 DEF Approves, ApprovedAttempt
  <2>2. CASE o # v
    BY <1>2, <1>5, <2>2 DEF MatchInv, ApprovedAttempt
  <2> QED
    BY <2>1, <2>2
<1> QED
  BY <1>3, <1>4, <1>5 DEF MatchInv

\* A verification's own step keeps MatchInv.
LEMMA VerifyKeepsMatch ==
  ASSUME TypeOK, ConsentInv, MatchInv, [Next]_vars, NEW v \in Verification, Verify(v)
  PROVE  MatchInv'
<1>1. v \in Call /\ v \notin Enrolment
  BY CallsAreDistinct DEF Call, Capture
<1>2. \A o \in Verification : pc[o] = "idle" \/ known'[o].withdrawn = known[o].withdrawn
  <2>1. ASSUME NEW o \in Verification, NEW s \in Session, ConsumeForVerification(o, s)
        PROVE  pc[o] = "idle"
    BY <2>1 DEF ConsumeForVerification, Consume
  <2> QED
    BY <2>1, NotesKept
<1>3. /\ Approves(outcome[v]) => ref[v] # None
      /\ Approves(attempts[v]) => ref[v] # None
  BY DEF MatchInv, Approves, ApprovedAttempt
<1>4. ASSUME NEW d, NEW r PROVE Approves(Decided(d, r)) => d = "approved"
  BY DEF Approves, Decided
<1>5. ASSUME NEW to, to # "idle", pc' = [pc EXCEPT ![v] = to], UNCHANGED <<ref, outcome, attempts>>,
             to \in {"referenced", "extractorChecked", "comparing", "scored"} => ref[v] # None
      PROVE  MatchInv'
  BY <1>2, <1>3, <1>5, MatchOwn
<1>6. ASSUME NEW from, NEW to, to # "idle", NEW d, NEW r, Concludes(v, from, to, d, r),
             to \in {"referenced", "extractorChecked", "comparing", "scored"} \/ d = "approved"
             => ref[v] # None
      PROVE  MatchInv'
  <2>1. outcome'[v] = Decided(d, r) /\ \A o \in Verification \ {v} : outcome'[o] = outcome[o]
    BY <1>6 DEF Concludes, TypeOK
  <2>2. pc' = [pc EXCEPT ![v] = to] /\ UNCHANGED <<attempts, ref>>
    BY <1>6 DEF Concludes
  <2> QED
    <3>1. \/ to \in {"referenced", "extractorChecked", "comparing", "scored"}
          \/ Approves(outcome'[v])
          \/ Approves(attempts'[v])
          => ref[v] # None
      BY <1>3, <1>4, <1>6, <2>1, <2>2
    <3> QED
      BY <1>2, <1>6, <2>1, <2>2, <3>1, MatchOwn
<1>7. ASSUME NEW s \in Session, ConsumeForVerification(v, s) PROVE MatchInv'
  <2>1. PICK to \in {"consumed", "failed"} : pc' = [pc EXCEPT ![v] = to]
    BY <1>7 DEF ConsumeForVerification, Consume
  <2>2. UNCHANGED <<ref, outcome, attempts>>
    BY <1>7 DEF ConsumeForVerification
  <2> QED
    BY <1>5, <2>1, <2>2
<1>8. CASE LocateSubject(v)
  <2>1. CASE Continues(v, "consumed", "located")
    BY <1>5, <2>1 DEF Continues
  <2>2. CASE Concludes(v, "consumed", "unnamed", "rejected", "REFERENCE_NOT_FOUND")
    BY <1>6, <2>2
  <2> QED
    BY <1>8, <2>1, <2>2 DEF LocateSubject
<1>9. CASE ReadTemplate(v)
  <2>1. CASE Concludes(v, "located", "recording", "rejected", "REFERENCE_NOT_FOUND")
    BY <1>6, <2>1
  <2>2. CASE Concludes(v, "located", "recording", "rejected", "CONSENT_WITHDRAWN")
    BY <1>6, <2>2
  <2>3. ASSUME NEW e \in Candidates(v), consents[e] # "withdrawn",
               Moves(v, "located", "referenced"), ref' = [ref EXCEPT ![v] = e],
               UNCHANGED <<known, outcome, attempts>>
        PROVE  MatchInv'
    <3>1. e \in Enrolment /\ e # None /\ SubjectOf[e] = SubjectOf[v]
                           /\ ModalityOf[e] = ModalityOf[v]
      BY NoneIsNoRow DEF Candidates, Call, Capture
    <3>2. ref'[v] = e /\ \A o \in Verification \ {v} : ref'[o] = ref[o]
      BY <2>3 DEF TypeOK
    <3>3. pc'[v] = "referenced" /\ \A o \in Verification \ {v} : pc'[o] = pc[o]
      BY <1>1, <2>3 DEF TypeOK, Call, Capture
    <3>4. e \notin known[v].withdrawn
      BY <2>3 DEF ConsentInv
    <3>5. \A o \in Verification : ref'[o] # None => Matched(o)'
      BY <2>3, <3>1, <3>2, <3>4 DEF MatchInv, Matched
    <3>6. \A o \in Verification : pc'[o] = "idle" => ref'[o] = None
      BY <3>2, <3>3 DEF MatchInv
    <3>7. \A o \in Verification :
            \/ pc'[o] \in {"referenced", "extractorChecked", "comparing", "scored"}
            \/ outcome'[o] # None /\ outcome'[o].decision = "approved"
            \/ ApprovedAttempt(o)'
            => ref'[o] # None
      BY <2>3, <3>1, <3>2, <3>3 DEF MatchInv, ApprovedAttempt
    <3> QED
      BY <3>5, <3>6, <3>7 DEF MatchInv
  <2> QED
    BY <1>9, <2>1, <2>2, <2>3 DEF ReadTemplate
<1>10. ASSUME NEW from, from \in {"referenced", "comparing"}, ProviderFails(v, from)
       PROVE  MatchInv'
  <2>1. CASE Concludes(v, from, "recording", "review", "SERVICE_UNAVAILABLE")
    BY <1>6, <2>1
  <2>2. CASE Continues(v, from, "failed")
    BY <1>5, <2>2 DEF Continues
  <2> QED
    BY <1>10, <2>1, <2>2 DEF ProviderFails
<1>11. CASE AnalyseProbe(v)
  <2>1. CASE \E to \in {"extractorChecked"} : /\ Moves(v, "referenced", to)
                                              /\ UNCHANGED <<ref, outcome, attempts>>
    BY <1>5, <2>1 DEF MatchInv
  <2>2. CASE Concludes(v, "referenced", "recording", "review", "MODEL_NOT_APPROVED")
    BY <1>6, <2>2
  <2> QED
    BY <1>10, <1>11, <2>1, <2>2 DEF AnalyseProbe
<1>12. CASE CheckProbe(v)
  <2>1. CASE Concludes(v, "extractorChecked", "recording", "review", "MODEL_NOT_APPROVED")
    BY <1>6, <2>1
  <2>2. CASE Concludes(v, "extractorChecked", "recording", "review", "MODEL_VERSION_MISMATCH")
    BY <1>6, <2>2
  <2>3. CASE Moves(v, "extractorChecked", "comparing") /\ UNCHANGED <<ref, outcome, attempts>>
    BY <1>5, <2>3 DEF MatchInv
  <2> QED
    BY <1>12, <2>1, <2>2, <2>3 DEF CheckProbe
<1>13. CASE Compare(v)
  <2>1. ASSUME NEW o, Judge(v, o) PROVE MatchInv'
    <3>1. ref[v] # None
      BY <2>1 DEF Judge, Concludes, MatchInv
    <3> DEFINE to == IF o.decision = "approved" THEN "scored" ELSE "recording"
    <3>2. Concludes(v, "comparing", to, o.decision, o.reason) /\ to # "idle"
      BY <2>1 DEF Judge
    <3> QED
      BY <1>6, <3>1, <3>2
  <2>2. CASE Concludes(v, "comparing", "recording", "review", "MODEL_NOT_APPROVED")
    BY <1>6, <2>2
  <2> QED
    BY <1>10, <1>13, <2>1, <2>2 DEF Compare
<1>14. CASE CheckRisk(v)
  <2>1. CASE Concludes(v, "scored", "recording", "review", "RISK_SIGNAL_REVIEW")
    BY <1>6, <2>1
  <2>2. CASE Continues(v, "scored", "recording")
    BY <1>5, <2>2 DEF Continues
  <2> QED
    BY <1>14, <2>1, <2>2 DEF CheckRisk
<1>15. CASE EnsureSubject(v)
  <2>1. PICK to \in {"subjectMissing", "recording"} : pc' = [pc EXCEPT ![v] = to]
    BY <1>1, <1>15 DEF EnsureSubject, AfterSubject
  <2> QED
    BY <1>5, <1>15, <2>1 DEF EnsureSubject
<1>16. CASE InsertSubject(v)
  <2>1. PICK to \in {"failed", "recording"} : pc' = [pc EXCEPT ![v] = to]
    BY <1>1, <1>16 DEF InsertSubject, AfterSubject
  <2> QED
    BY <1>5, <1>16, <2>1 DEF InsertSubject
<1>17. CASE RecordAudit(v) \/ OpenCase(v) \/ NotifyReview(v) \/ NotifyCompleted(v)
  <2>1. PICK to \in {"audited", "caseOpened", "reviewNotified", "done"} :
          pc' = [pc EXCEPT ![v] = to]
    BY <1>17 DEF RecordAudit, OpenCase, NotifyReview, NotifyCompleted
  <2> QED
    BY <1>5, <1>17, <2>1 DEF RecordAudit, OpenCase, NotifyReview, NotifyCompleted
<1>18. CASE InsertAttempt(v)
  <2>1. attempts'[v] = outcome[v] /\ \A o \in Verification \ {v} : attempts'[o] = attempts[o]
    BY <1>18 DEF InsertAttempt, TypeOK
  <2>2. pc' = [pc EXCEPT ![v] = "recorded"] /\ UNCHANGED <<ref, outcome>>
    BY <1>18 DEF InsertAttempt
  <2> QED
    BY <1>2, <1>3, <2>1, <2>2, MatchOwn
<1> QED
  BY <1>7, <1>8, <1>9, <1>11, <1>12, <1>13, <1>14, <1>15, <1>16, <1>17, <1>18 DEF Verify

\* A step that no verification takes.
LEMMA MatchFrame ==
  ASSUME TypeOK, MatchInv, [Next]_vars, UNCHANGED <<ref, outcome, attempts>>,
         \A v \in Verification : pc'[v] = pc[v] \/ pc'[v] = "crashed"
  PROVE  MatchInv'
<1>1. ASSUME NEW v \in Verification, NEW s \in Session, ConsumeForVerification(v, s)
      PROVE  FALSE
  <2>1. pc[v] = "idle" /\ pc'[v] \in {"consumed", "failed"}
    BY <1>1 DEF ConsumeForVerification, Consume, TypeOK, Call, Capture
  <2> QED
    BY <2>1
<1>2. \A v \in Verification : known'[v].withdrawn = known[v].withdrawn
  BY <1>1, NotesKept
<1> QED
  BY <1>2 DEF MatchInv, Matched, ApprovedAttempt

\* Every step of the lifecycle keeps MatchInv.
LEMMA MatchKept ==
  ASSUME TypeOK, ConsentInv, MatchInv, [Next]_vars
  PROVE  MatchInv'
<1>1. ASSUME NEW c \in Call \ Verification, NEW to, pc' = [pc EXCEPT ![c] = to],
             UNCHANGED matching
      PROVE  MatchInv'
  <2>1. \A v \in Verification : pc'[v] = pc[v]
    BY <1>1 DEF TypeOK, Call, Capture
  <2> QED
    BY <1>1, <2>1, MatchFrame
<1>2. Enrolment \cup Withdrawal \cup Retention \cup Deletion \cup Purge \subseteq Call \ Verification
  BY CallsAreDistinct DEF Call, Capture, Sweeper
<1>3. ASSUME NEW e \in Enrolment, Enrol(e) PROVE MatchInv'
  BY <1>1, <1>2, <1>3, EnrolFrame
<1>4. ASSUME NEW w \in Withdrawal, Withdraw(w) PROVE MatchInv'
  BY <1>1, <1>2, <1>4, WithdrawFrame
<1>5. ASSUME NEW d \in Deletion, Delete(d) PROVE MatchInv'
  BY <1>1, <1>2, <1>5, DeleteFrame
<1>6. ASSUME NEW x \in Retention, Retain(x) PROVE MatchInv'
  BY <1>1, <1>2, <1>6, RetainFrame
<1>7. ASSUME NEW p \in Purge, PurgeExpired(p) PROVE MatchInv'
  BY <1>1, <1>2, <1>7, PurgeFrame
<1>8. ASSUME NEW v \in Verification, Verify(v) PROVE MatchInv'
  BY <1>8, VerifyKeepsMatch
<1>9. ASSUME NEW c \in Mortal, Crash(c) PROVE MatchInv'
  <2>1. \A v \in Verification : pc'[v] = pc[v] \/ pc'[v] = "crashed"
    BY <1>9 DEF Crash, TypeOK, Call, Capture
  <2> QED
    BY <1>9, <2>1, MatchFrame DEF Crash
<1>10. CASE Environment \/ UNCHANGED vars
  BY <1>10, MatchFrame, EnvironmentFrame DEF vars
<1> QED
  BY <1>3, <1>4, <1>5, <1>6, <1>7, <1>8, <1>9, <1>10 DEF Next

\* What a verification holds of the template it read stays true until it is recorded.
THEOREM MatchInvariant == Spec => []MatchInv
<1>1. Init => MatchInv
  BY DEF Init, MatchInv, ApprovedAttempt, Call, Capture
<1>2. TypeInv /\ ConsentInv /\ MatchInv /\ [Next]_vars => MatchInv'
  BY MatchKept DEF TypeInv
<1> QED
  BY <1>1, <1>2, TypesAreInvariant, ConsentInvariant, PTL DEF Spec

\* verifySubject reads the consent once, before the provider's calls, and approves on it
\* whatever has happened since; still no approval rests on a consent that was withdrawn
\* when the call began, or on a template of another subject or modality.
THEOREM ApprovalsRespectWithdrawal == Spec => []ApprovalRespectsWithdrawal
<1>1. MatchInv => ApprovalRespectsWithdrawal
  BY DEF MatchInv, Matched, ApprovalRespectsWithdrawal
<1> QED
  BY <1>1, MatchInvariant, PTL

-----------------------------------------------------------------------------
(***************************************************************************)
(* The risk check.                                                         *)
(***************************************************************************)

\* Signals are only taken away with the notes that a verification took of them.
LEMMA SignalsStand ==
  ASSUME TypeOK, RiskInv, [Next]_vars, NEW v \in Verification,
         ~\E s \in Session : ConsumeForVerification(v, s), known'[v].risky
  PROVE  known[v].risky /\ SubjectOf[v] \in signals'
<1>1. known[v].risky /\ SubjectOf[v] \in signals
  BY NotesKept DEF RiskInv
<1>2. CASE UNCHANGED signals
  BY <1>1, <1>2
<1>3. CASE Environment
  <2>1. ASSUME NEW s \in Flaggable, SignalLapses(s) PROVE SubjectOf[v] # s
    <3>1. v \in DOMAIN known /\ known[v] \in Known
      BY DEF TypeOK
    <3>2. [known[v] EXCEPT !.risky = FALSE].risky = FALSE
      BY <3>1 DEF Known
    <3>3. SubjectOf[v] = s => known'[v] = [known[v] EXCEPT !.risky = FALSE]
      BY <2>1, <3>1 DEF SignalLapses
    <3> QED
      BY <3>2, <3>3
  <2>2. CASE \E s \in Flaggable : SignalLapses(s)
    BY <1>1, <2>1, <2>2 DEF SignalLapses
  <2>3. CASE \E s \in Flaggable : RaiseSignal(s)
    BY <1>1, <2>3 DEF RaiseSignal
  <2> QED
    BY <1>2, <1>3, <2>2, <2>3
    DEF Environment, CreateSession, SessionLapses, ApproveModel, RevokeModel, PlaceHold,
        ReleaseHold, EvidenceLapses
<1>4. CASE UNCHANGED vars
  BY <1>2, <1>4 DEF vars
<1>5. CASE \E c \in Mortal : Crash(c)
  BY <1>2, <1>5 DEF Crash
<1> QED
  BY <1>2, <1>3, <1>4, <1>5, EnrolFrame, VerifyFrame, WithdrawFrame, DeleteFrame, RetainFrame,
     PurgeFrame
  DEF Next

\* A step of verification v past its beginning.
LEMMA RiskOwn ==
  ASSUME TypeOK, RiskInv, [Next]_vars, NEW v \in Verification, NEW to,
         pc[v] # "idle", pc' = [pc EXCEPT ![v] = to], to # "idle",
         \A o \in Verification \ {v} : outcome'[o] = outcome[o] /\ attempts'[o] = attempts[o],
         \/ Settled(v)' /\ Approves(outcome'[v])
         \/ Approves(attempts'[v])
         => ~known[v].risky
  PROVE  RiskInv'
<1>1. v \in Call /\ pc \in [Call -> Pc] /\ \A o \in Verification : o \in Call
  BY DEF TypeOK, Call, Capture
<1>2. pc'[v] = to /\ \A o \in Verification \ {v} : pc'[o] = pc[o]
  BY <1>1
<1>3. ASSUME NEW o \in Verification PROVE ~\E s \in Session : ConsumeForVerification(o, s)
  <2>1. ASSUME NEW s \in Session, ConsumeForVerification(o, s) PROVE FALSE
    <3>1. pc[o] = "idle" /\ pc'[o] # "idle"
      BY <1>1, <2>1 DEF ConsumeForVerification, Consume
    <3> QED
      BY <1>2, <3>1
  <2> QED
    BY <2>1
<1>4. \A o \in Verification : known'[o].risky => known[o].risky /\ SubjectOf[o] \in signals'
  BY <1>3, SignalsStand
<1>5. \A o \in Verification : pc'[o] = "idle" => attempts'[o] = None
  BY <1>2 DEF RiskInv
<1>6. ASSUME NEW o \in Verification,
             \/ Settled(o)' /\ outcome'[o] # None /\ outcome'[o].decision = "approved"
             \/ ApprovedAttempt(o)'
      PROVE  ~known'[o].risky
  <2>1. CASE o = v
    BY <1>4, <1>6, <2>1 DEF Approves, ApprovedAttempt
  <2>2. CASE o # v
    BY <1>2, <1>4, <1>6, <2>2 DEF RiskInv, ApprovedAttempt, Settled
  <2> QED
    BY <2>1, <2>2
<1> QED
  BY <1>4, <1>5, <1>6 DEF RiskInv

\* A verification's own step keeps RiskInv.
LEMMA VerifyKeepsRisk ==
  ASSUME TypeOK, RiskInv, [Next]_vars, NEW v \in Verification, Verify(v)
  PROVE  RiskInv'
<1>1. v \in Call /\ v \notin Enrolment
  BY CallsAreDistinct DEF Call, Capture
<1>2. /\ Settled(v) /\ Approves(outcome[v]) => ~known[v].risky
      /\ Approves(attempts[v]) => ~known[v].risky
  BY DEF RiskInv, Approves, ApprovedAttempt
<1>3. ASSUME NEW d, NEW r PROVE Approves(Decided(d, r)) => d = "approved"
  BY DEF Approves, Decided
<1>4. ASSUME NEW to, to # "idle", pc[v] # "idle", pc' = [pc EXCEPT ![v] = to],
             UNCHANGED <<outcome, attempts>>,
             to \in {"unnamed", "subjectMissing", "recording", "audited"} => Settled(v)
      PROVE  RiskInv'
  <2>1. Settled(v)' => Settled(v)
    BY <1>1, <1>4 DEF Settled, TypeOK
  <2> QED
    BY <1>2, <1>4, <2>1, RiskOwn
<1>5. ASSUME NEW from, from # "idle", NEW to, to # "idle", NEW d, NEW r,
             Concludes(v, from, to, d, r),
             to \in {"unnamed", "subjectMissing", "recording", "audited"} => d # "approved"
      PROVE  RiskInv'
  <2>1. outcome'[v] = Decided(d, r) /\ \A o \in Verification \ {v} : outcome'[o] = outcome[o]
    BY <1>5 DEF Concludes, TypeOK
  <2>2. pc[v] = from /\ pc' = [pc EXCEPT ![v] = to] /\ UNCHANGED attempts
    BY <1>5 DEF Concludes
  <2>3. Settled(v)' => d # "approved"
    BY <1>1, <1>5, <2>2 DEF Settled, TypeOK
  <2>4. Settled(v)' => ~Approves(outcome'[v])
    BY <1>3, <2>1, <2>3
  <2> QED
    BY <1>2, <1>5, <2>1, <2>2, <2>4, RiskOwn
<1>6. ASSUME NEW s \in Session, ConsumeForVerification(v, s) PROVE RiskInv'
  <2>1. PICK to \in {"consumed", "failed"} : pc' = [pc EXCEPT ![v] = to]
    BY <1>6 DEF ConsumeForVerification, Consume
  <2>2. /\ pc[v] = "idle" /\ known' = [known EXCEPT ![v] = Snapshot(v)]
        /\ UNCHANGED <<attempts, outcome, signals>>
    BY <1>6 DEF ConsumeForVerification, Consume
  <2>3. pc'[v] \in {"consumed", "failed"} /\ \A o \in Verification \ {v} : pc'[o] = pc[o]
    BY <1>1, <2>1 DEF TypeOK, Call, Capture
  <2>4. known'[v].risky = (SubjectOf[v] \in signals)
    BY <2>2 DEF TypeOK, Snapshot, Nothing
  <2>5. \A o \in Verification \ {v} : known'[o] = known[o]
    BY <2>2 DEF TypeOK
  <2>6. attempts[v] = None
    BY <2>2 DEF RiskInv
  <2> QED
    BY <2>2, <2>3, <2>4, <2>5, <2>6 DEF RiskInv, Settled, ApprovedAttempt
<1>7. CASE LocateSubject(v)
  <2>1. CASE Continues(v, "consumed", "located")
    BY <1>4, <2>1 DEF Continues
  <2>2. CASE Concludes(v, "consumed", "unnamed", "rejected", "REFERENCE_NOT_FOUND")
    BY <1>5, <2>2
  <2> QED
    BY <1>7, <2>1, <2>2 DEF LocateSubject
<1>8. CASE ReadTemplate(v)
  <2>1. CASE Concludes(v, "located", "recording", "rejected", "REFERENCE_NOT_FOUND")
    BY <1>5, <2>1
  <2>2. CASE Concludes(v, "located", "recording", "rejected", "CONSENT_WITHDRAWN")
    BY <1>5, <2>2
  <2>3. CASE Moves(v, "located", "referenced") /\ UNCHANGED <<outcome, attempts>>
    BY <1>4, <2>3
  <2> QED
    BY <1>8, <2>1, <2>2, <2>3 DEF ReadTemplate
<1>9. ASSUME NEW from, from \in {"referenced", "comparing"}, ProviderFails(v, from)
      PROVE  RiskInv'
  <2>1. CASE Concludes(v, from, "recording", "review", "SERVICE_UNAVAILABLE")
    BY <1>5, <1>9, <2>1
  <2>2. CASE Continues(v, from, "failed")
    BY <1>4, <1>9, <2>2 DEF Continues
  <2> QED
    BY <1>9, <2>1, <2>2 DEF ProviderFails
<1>10. CASE AnalyseProbe(v)
  <2>1. CASE Moves(v, "referenced", "extractorChecked") /\ UNCHANGED <<outcome, attempts>>
    BY <1>4, <2>1
  <2>2. CASE Concludes(v, "referenced", "recording", "review", "MODEL_NOT_APPROVED")
    BY <1>5, <2>2
  <2> QED
    BY <1>9, <1>10, <2>1, <2>2 DEF AnalyseProbe
<1>11. CASE CheckProbe(v)
  <2>1. CASE Concludes(v, "extractorChecked", "recording", "review", "MODEL_NOT_APPROVED")
    BY <1>5, <2>1
  <2>2. CASE Concludes(v, "extractorChecked", "recording", "review", "MODEL_VERSION_MISMATCH")
    BY <1>5, <2>2
  <2>3. CASE Moves(v, "extractorChecked", "comparing") /\ UNCHANGED <<outcome, attempts>>
    BY <1>4, <2>3
  <2> QED
    BY <1>11, <2>1, <2>2, <2>3 DEF CheckProbe
<1>12. CASE Compare(v)
  <2>1. ASSUME NEW o, Judge(v, o) PROVE RiskInv'
    <3> DEFINE to == IF o.decision = "approved" THEN "scored" ELSE "recording"
    <3>1. /\ Concludes(v, "comparing", to, o.decision, o.reason) /\ to # "idle"
          /\ to \in {"unnamed", "subjectMissing", "recording", "audited"} => o.decision # "approved"
      BY <2>1 DEF Judge
    <3> QED
      BY <1>5, <3>1
  <2>2. CASE Concludes(v, "comparing", "recording", "review", "MODEL_NOT_APPROVED")
    BY <1>5, <2>2
  <2> QED
    BY <1>9, <1>12, <2>1, <2>2 DEF Compare
<1>13. CASE CheckRisk(v)
  <2>1. CASE Concludes(v, "scored", "recording", "review", "RISK_SIGNAL_REVIEW")
    BY <1>5, <2>1
  <2>2. CASE SubjectOf[v] \notin signals /\ Continues(v, "scored", "recording")
    <3>1. ~known[v].risky
      BY <2>2 DEF RiskInv
    <3> QED
      BY <2>2, <3>1, RiskOwn DEF Continues
  <2> QED
    BY <1>13, <2>1, <2>2 DEF CheckRisk
<1>14. CASE EnsureSubject(v)
  <2>1. PICK to \in {"subjectMissing", "recording"} : pc' = [pc EXCEPT ![v] = to]
    BY <1>1, <1>14 DEF EnsureSubject, AfterSubject
  <2>2. Settled(v) /\ pc[v] # "idle" /\ UNCHANGED <<outcome, attempts>>
    BY <1>1, <1>14 DEF EnsureSubject, Settled
  <2> QED
    BY <1>4, <2>1, <2>2
<1>15. CASE InsertSubject(v)
  <2>1. PICK to \in {"failed", "recording"} : pc' = [pc EXCEPT ![v] = to]
    BY <1>1, <1>15 DEF InsertSubject, AfterSubject
  <2>2. Settled(v) /\ pc[v] # "idle" /\ UNCHANGED <<outcome, attempts>>
    BY <1>15 DEF InsertSubject, Settled
  <2> QED
    BY <1>4, <2>1, <2>2
<1>16. CASE RecordAudit(v)
  BY <1>4, <1>16 DEF RecordAudit, Settled
<1>17. CASE OpenCase(v) \/ NotifyReview(v) \/ NotifyCompleted(v)
  <2>1. PICK to \in {"caseOpened", "reviewNotified", "done"} : pc' = [pc EXCEPT ![v] = to]
    BY <1>17 DEF OpenCase, NotifyReview, NotifyCompleted
  <2>2. pc[v] # "idle" /\ UNCHANGED <<outcome, attempts>>
    BY <1>17 DEF OpenCase, NotifyReview, NotifyCompleted
  <2> QED
    BY <1>4, <2>1, <2>2
<1>18. CASE InsertAttempt(v)
  <2>1. attempts'[v] = outcome[v] /\ \A o \in Verification \ {v} : attempts'[o] = attempts[o]
    BY <1>18 DEF InsertAttempt, TypeOK
  <2>2. Settled(v) /\ pc[v] # "idle" /\ pc' = [pc EXCEPT ![v] = "recorded"] /\ UNCHANGED outcome
    BY <1>18 DEF InsertAttempt, Settled
  <2> QED
    BY <1>2, <2>1, <2>2, RiskOwn
<1> QED
  BY <1>6, <1>7, <1>8, <1>10, <1>11, <1>12, <1>13, <1>14, <1>15, <1>16, <1>17, <1>18 DEF Verify

\* A step that no verification takes.
LEMMA RiskFrame ==
  ASSUME TypeOK, RiskInv, [Next]_vars, UNCHANGED <<outcome, attempts>>,
         \A v \in Verification : pc'[v] = pc[v] \/ pc'[v] = "crashed"
  PROVE  RiskInv'
<1>1. ASSUME NEW v \in Verification, NEW s \in Session, ConsumeForVerification(v, s)
      PROVE  FALSE
  <2>1. pc[v] = "idle" /\ pc'[v] \in {"consumed", "failed"}
    BY <1>1 DEF ConsumeForVerification, Consume, TypeOK, Call, Capture
  <2> QED
    BY <2>1
<1>2. \A v \in Verification : known'[v].risky => known[v].risky /\ SubjectOf[v] \in signals'
  BY <1>1, SignalsStand
<1> QED
  BY <1>2 DEF RiskInv, Settled, ApprovedAttempt

\* Every step of the lifecycle keeps RiskInv.
LEMMA RiskKept ==
  ASSUME TypeOK, RiskInv, [Next]_vars
  PROVE  RiskInv'
<1>1. ASSUME NEW c \in Call \ Verification, NEW to, pc' = [pc EXCEPT ![c] = to],
             UNCHANGED matching
      PROVE  RiskInv'
  <2>1. \A v \in Verification : pc'[v] = pc[v]
    BY <1>1 DEF TypeOK, Call, Capture
  <2> QED
    BY <1>1, <2>1, RiskFrame
<1>2. Enrolment \cup Withdrawal \cup Retention \cup Deletion \cup Purge \subseteq Call \ Verification
  BY CallsAreDistinct DEF Call, Capture, Sweeper
<1>3. ASSUME NEW e \in Enrolment, Enrol(e) PROVE RiskInv'
  BY <1>1, <1>2, <1>3, EnrolFrame
<1>4. ASSUME NEW w \in Withdrawal, Withdraw(w) PROVE RiskInv'
  BY <1>1, <1>2, <1>4, WithdrawFrame
<1>5. ASSUME NEW d \in Deletion, Delete(d) PROVE RiskInv'
  BY <1>1, <1>2, <1>5, DeleteFrame
<1>6. ASSUME NEW x \in Retention, Retain(x) PROVE RiskInv'
  BY <1>1, <1>2, <1>6, RetainFrame
<1>7. ASSUME NEW p \in Purge, PurgeExpired(p) PROVE RiskInv'
  BY <1>1, <1>2, <1>7, PurgeFrame
<1>8. ASSUME NEW v \in Verification, Verify(v) PROVE RiskInv'
  BY <1>8, VerifyKeepsRisk
<1>9. ASSUME NEW c \in Mortal, Crash(c) PROVE RiskInv'
  <2>1. \A v \in Verification : pc'[v] = pc[v] \/ pc'[v] = "crashed"
    BY <1>9 DEF Crash, TypeOK, Call, Capture
  <2> QED
    BY <1>9, <2>1, RiskFrame DEF Crash
<1>10. CASE Environment \/ UNCHANGED vars
  BY <1>10, RiskFrame, EnvironmentFrame DEF vars
<1> QED
  BY <1>3, <1>4, <1>5, <1>6, <1>7, <1>8, <1>9, <1>10 DEF Next

\* No verification is approved while a high-severity risk signal has stood since before
\* it began, whichever signals are raised or lapse around its one read of them.
THEOREM ApprovalsRespectRisk == Spec => []ApprovalRespectsRisk
<1>1. Init => RiskInv
  BY DEF Init, RiskInv, ApprovedAttempt, Settled, Nothing, Call, Capture
<1>2. TypeInv /\ RiskInv /\ [Next]_vars => RiskInv'
  BY RiskKept DEF TypeInv
<1>3. RiskInv => ApprovalRespectsRisk
  BY DEF RiskInv, ApprovalRespectsRisk
<1> QED
  BY <1>1, <1>2, <1>3, TypesAreInvariant, PTL DEF Spec

=============================================================================
