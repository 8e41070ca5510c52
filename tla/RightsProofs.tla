----------------------------- MODULE RightsProofs -----------------------------
(***************************************************************************)
(* Deletion, legal holds, retained evidence and the trail a verification   *)
(* or a withdrawal leaves, for every number of calls and crashes.          *)
(*                                                                         *)
(* A sweep works on rows it listed a while ago and other sweeps work on    *)
(* the same rows, so the inductions follow one row through the sweeps      *)
(* (EvidenceInv), one deletion through its statements (DeletionInv,        *)
(* HoldInv) and one call through what it has written so far (TrailInv).    *)
(* The last part reads all of them as steps of ConsentLedger.              *)
(***************************************************************************)
EXTENDS ApprovalProofs

USE DEF Moves, Audited, Enqueued, matching, captures, settings, retained, notices

-----------------------------------------------------------------------------
(***************************************************************************)
(* What each call adds to the audit log and to the webhooks.               *)
(***************************************************************************)

\* Nothing that is in either log leaves it, and what comes is of the given kinds.
AuditsOnly(actions) ==
  audit \subseteq audit' /\ \A b, r : <<b, r>> \in audit' => <<b, r>> \in audit \/ b \in actions
EnqueuesOnly(events) ==
  webhooks \subseteq webhooks' /\ \A b, r : <<b, r>> \in webhooks' => <<b, r>> \in webhooks \/ b \in events

\* One entry more, and no other.
LEMMA EntryAdded ==
  ASSUME NEW old, NEW a, NEW q, NEW new, new = old \cup {<<a, q>>}
  PROVE  /\ old \subseteq new /\ <<a, q>> \in new
         /\ \A b, r : <<b, r>> \in new => <<b, r>> \in old \/ (b = a /\ r = q)
<1>1. \A b, r : <<b, r>> = <<a, q>> => b = a /\ r = q
  OBVIOUS
<1> QED
  BY <1>1

\* An action that is audited or enqueued is the only one that is.
LEMMA AuditedOnly ==
  ASSUME NEW a, NEW q, Audited(a, q)
  PROVE  AuditsOnly({a}) /\ <<a, q>> \in audit' /\ \A b, r : <<b, r>> \in audit' => <<b, r>> \in audit \/ r = q
<1>1. audit' = audit \cup {<<a, q>>}
  OBVIOUS
<1> QED
  BY <1>1, EntryAdded DEF AuditsOnly

\* Enqueuing one webhook enqueues nothing else.
LEMMA EnqueuedOnly ==
  ASSUME NEW a, NEW q, Enqueued(a, q)
  PROVE  /\ EnqueuesOnly({a}) /\ <<a, q>> \in webhooks'
         /\ \A b, r : <<b, r>> \in webhooks' => <<b, r>> \in webhooks \/ r = q
<1>1. webhooks' = webhooks \cup {<<a, q>>}
  OBVIOUS
<1> QED
  BY <1>1, EntryAdded DEF EnqueuesOnly

\* What is one of some kinds is one of more kinds.
LEMMA KindsGrow ==
  ASSUME NEW S, NEW T, S \subseteq T
  PROVE  (AuditsOnly(S) => AuditsOnly(T)) /\ (EnqueuesOnly(S) => EnqueuesOnly(T))
BY DEF AuditsOnly, EnqueuesOnly

\* A step that leaves the logs alone.
LEMMA LogsKept ==
  ASSUME NEW S
  PROVE  (UNCHANGED audit => AuditsOnly(S)) /\ (UNCHANGED webhooks => EnqueuesOnly(S))
BY DEF AuditsOnly, EnqueuesOnly

\* What an enrolment audits.
LEMMA EnrolLogs ==
  ASSUME NEW e \in Enrolment, Enrol(e)
  PROVE  AuditsOnly({"consent.recorded", "subject.enrolled"}) /\ EnqueuesOnly({})
<1>1. CASE EnsureSubject(e) \/ InsertSubject(e)
  BY <1>1, SubjectFrame, LogsKept
<1>2. CASE \E s \in Session : ConsumeForEnrolment(e, s)
  BY <1>2, LogsKept DEF ConsumeForEnrolment
<1>3. CASE RecordConsent(e) \/ CheckReference(e)
  BY <1>3, LogsKept DEF RecordConsent, CheckReference
<1>4. CASE AnalyseReference(e) \/ StoreTemplate(e)
  BY <1>4, LogsKept DEF AnalyseReference, StoreTemplate
<1>5. CASE AuditConsent(e)
  <2>1. Audited("consent.recorded", e) /\ UNCHANGED webhooks
    BY <1>5 DEF AuditConsent
  <2> QED
    BY <2>1, AuditedOnly, KindsGrow, LogsKept
<1>6. CASE AuditEnrolment(e)
  <2>1. Audited("subject.enrolled", e) /\ UNCHANGED webhooks
    BY <1>6 DEF AuditEnrolment
  <2> QED
    BY <2>1, AuditedOnly, KindsGrow, LogsKept
<1> QED
  BY <1>1, <1>2, <1>3, <1>4, <1>5, <1>6 DEF Enrol

\* What a verification audits and enqueues is about itself.
LEMMA VerifyLogs ==
  ASSUME NEW v \in Verification, Verify(v)
  PROVE  /\ AuditsOnly({"verification.completed"})
         /\ EnqueuesOnly({"verification.review_required", "verification.completed"})
         /\ ~RecordAudit(v) => UNCHANGED audit
         /\ ~NotifyReview(v) /\ ~NotifyCompleted(v) => UNCHANGED webhooks
         /\ \A b, r : <<b, r>> \in webhooks' => <<b, r>> \in webhooks \/ r = v
<1>1. CASE RecordAudit(v)
  <2>1. Audited("verification.completed", v) /\ UNCHANGED webhooks
    BY <1>1 DEF RecordAudit
  <2> QED
    BY <1>1, <2>1, AuditedOnly, LogsKept
<1>2. CASE NotifyReview(v) \/ NotifyCompleted(v)
  <2>1. CASE NotifyReview(v)
    <3>1. Enqueued("verification.review_required", v) /\ UNCHANGED audit
      BY <2>1 DEF NotifyReview
    <3> QED
      BY <1>2, <3>1, EnqueuedOnly, KindsGrow, LogsKept
  <2>2. CASE NotifyCompleted(v)
    <3>1. Enqueued("verification.completed", v) /\ UNCHANGED audit
      BY <2>2 DEF NotifyCompleted
    <3> QED
      BY <1>2, <3>1, EnqueuedOnly, KindsGrow, LogsKept
  <2> QED
    BY <1>2, <2>1, <2>2
<1>3. CASE UNCHANGED notices
  BY <1>3, LogsKept
<1>4. CASE EnsureSubject(v) \/ InsertSubject(v)
  BY <1>3, <1>4, SubjectFrame
<1>5. CASE LocateSubject(v) \/ ReadTemplate(v)
  BY <1>3, <1>5 DEF LocateSubject, ReadTemplate, Continues, Concludes
<1>6. CASE AnalyseProbe(v) \/ CheckProbe(v)
  BY <1>3, <1>6 DEF AnalyseProbe, CheckProbe, ProviderFails, Continues, Concludes
<1>7. CASE Compare(v) \/ CheckRisk(v)
  BY <1>3, <1>7 DEF Compare, Judge, CheckRisk, ProviderFails, Continues, Concludes
<1>8. CASE (\E s \in Session : ConsumeForVerification(v, s)) \/ InsertAttempt(v) \/ OpenCase(v)
  BY <1>3, <1>8 DEF ConsumeForVerification, InsertAttempt, OpenCase
<1> QED
  BY <1>1, <1>2, <1>4, <1>5, <1>6, <1>7, <1>8 DEF Verify

\* What a withdrawal audits and enqueues is about its receipt.
LEMMA WithdrawLogs ==
  ASSUME NEW w \in Withdrawal, Withdraw(w)
  PROVE  /\ AuditsOnly({"consent.withdrawn"}) /\ EnqueuesOnly({"consent.withdrawn"})
         /\ ~AuditWithdrawal(w) => UNCHANGED audit
         /\ ~NotifyWithdrawal(w) => UNCHANGED webhooks
<1>1. CASE AuditWithdrawal(w)
  <2>1. Audited("consent.withdrawn", ConsentOf[w]) /\ UNCHANGED webhooks
    BY <1>1 DEF AuditWithdrawal
  <2> QED
    BY <1>1, <2>1, AuditedOnly, LogsKept
<1>2. CASE NotifyWithdrawal(w)
  <2>1. Enqueued("consent.withdrawn", ConsentOf[w]) /\ UNCHANGED audit
    BY <1>2 DEF NotifyWithdrawal
  <2> QED
    BY <1>2, <2>1, EnqueuedOnly, LogsKept
<1>3. CASE ReadReceipt(w) \/ MarkWithdrawn(w) \/ RevokeTemplates(w)
  BY <1>3, LogsKept DEF ReadReceipt, MarkWithdrawn, RevokeTemplates
<1> QED
  BY <1>1, <1>2, <1>3 DEF Withdraw

\* What a retention audits.
LEMMA RetainLogs ==
  ASSUME NEW x \in Retention, Retain(x)
  PROVE  AuditsOnly({"evidence.retained"}) /\ EnqueuesOnly({})
<1>1. CASE PutObject(x) \/ InsertEvidence(x)
  BY <1>1, LogsKept DEF PutObject, InsertEvidence
<1>2. CASE AuditRetention(x)
  <2>1. Audited("evidence.retained", x) /\ UNCHANGED webhooks
    BY <1>2 DEF AuditRetention
  <2> QED
    BY <2>1, AuditedOnly, LogsKept
<1> QED
  BY <1>1, <1>2 DEF Retain

\* What a sweep audits is about the row it is erasing.
LEMMA SweepLogs ==
  ASSUME NEW c \in Sweeper, Sweep(c)
  PROVE  /\ AuditsOnly({"evidence.deleted"}) /\ EnqueuesOnly({})
         /\ ~AuditErasure(c) => UNCHANGED audit
<1>1. CASE AuditErasure(c)
  <2>1. Audited("evidence.deleted", erasing[c]) /\ UNCHANGED webhooks
    BY <1>1 DEF AuditErasure
  <2> QED
    BY <1>1, <2>1, AuditedOnly, LogsKept
<1>2. CASE EraseObject(c) \/ \E x \in Retention : MarkDeleted(c, x)
  BY <1>2, LogsKept DEF EraseObject, MarkDeleted
<1> QED
  BY <1>1, <1>2 DEF Sweep

\* The same of a purge, and of a deletion outside its sweep.
LEMMA PurgeLogs ==
  ASSUME NEW p \in Purge, PurgeExpired(p)
  PROVE  AuditsOnly({"evidence.deleted"}) /\ EnqueuesOnly({})
BY SweepLogs, LogsKept DEF PurgeExpired, ListExpired, FinishPurge, Sweeper

\* The audit events and webhooks a step of a deletion may add.
LEMMA DeleteLogs ==
  ASSUME NEW d \in Deletion, Delete(d)
  PROVE  /\ AuditsOnly({"evidence.deleted", "subject.deletion_blocked", "subject.deleted"})
         /\ EnqueuesOnly({})
         /\ ~Sweep(d) => AuditsOnly({"subject.deletion_blocked", "subject.deleted"})
<1>1. CASE AuditBlocked(d)
  <2>1. Audited("subject.deletion_blocked", d) /\ UNCHANGED webhooks
    BY <1>1 DEF AuditBlocked
  <2>2. AuditsOnly({"subject.deletion_blocked"})
    BY <2>1, AuditedOnly
  <2>3. AuditsOnly({"subject.deletion_blocked", "subject.deleted"})
    BY <2>2, KindsGrow
  <2> QED
    BY <2>1, <2>3, KindsGrow, LogsKept
<1>2. CASE AuditDeletion(d)
  <2>1. Audited("subject.deleted", d) /\ UNCHANGED webhooks
    BY <1>2 DEF AuditDeletion
  <2>2. AuditsOnly({"subject.deleted"})
    BY <2>1, AuditedOnly
  <2>3. AuditsOnly({"subject.deletion_blocked", "subject.deleted"})
    BY <2>2, KindsGrow
  <2> QED
    BY <2>1, <2>3, KindsGrow, LogsKept
<1>3. CASE Sweep(d)
  BY <1>3, SweepLogs, KindsGrow DEF Sweeper
<1>4. CASE \/ FindSubject(d) \/ CheckHold(d) \/ ParkRequest(d) \/ WipeTemplates(d)
           \/ WithdrawAll(d) \/ ListEvidence(d) \/ CompleteRequest(d)
  BY <1>4, LogsKept
  DEF FindSubject, CheckHold, ParkRequest, WipeTemplates, WithdrawAll, ListEvidence, CompleteRequest
<1> QED
  BY <1>1, <1>2, <1>3, <1>4 DEF Delete

-----------------------------------------------------------------------------
(***************************************************************************)
(* Evidence and its ciphertext.                                            *)
(***************************************************************************)

\* A row that is put away is there, and a row being erased, or erased, is not live.
EvidenceInv ==
  /\ \A x \in Retention : pc[x] \in {"idle", "put"} => evidence[x] = "none"
  /\ \A x \in Retention : pc[x] = "put" \/ evidence[x] = "live" => x \in storage
  /\ \A c \in Sweeper : erasing[c] # None =>
       /\ evidence[erasing[c]] = "deleted"
       /\ pc[c] = "erased" => erasing[c] \notin storage
  /\ \A x \in Retention : <<"evidence.deleted", x>> \in audit =>
       evidence[x] = "deleted" /\ x \notin storage

\* No erasure is audited.
NoErasureAudited == \A x \in Retention : <<"evidence.deleted", x>> \in audit' => <<"evidence.deleted", x>> \in audit

\* A step that touches neither evidence nor the calls that do.
LEMMA EvidenceFrame ==
  ASSUME TypeOK, EvidenceInv, UNCHANGED retained, NoErasureAudited,
         \A c \in Retention \cup Sweeper : pc'[c] = pc[c] \/ pc'[c] = "crashed"
  PROVE  EvidenceInv'
BY DEF EvidenceInv, NoErasureAudited

\* A step of a call that has nothing to do with evidence.
LEMMA OthersKeepEvidence ==
  ASSUME TypeOK, EvidenceInv, UNCHANGED retained, NoErasureAudited,
         NEW c \in Call \ (Retention \cup Sweeper), NEW to, pc' = [pc EXCEPT ![c] = to]
  PROVE  EvidenceInv'
<1>1. \A o \in Retention \cup Sweeper : pc'[o] = pc[o]
  BY DEF TypeOK, Call, Sweeper
<1> QED
  BY <1>1, EvidenceFrame

\* Completing the retention of an object keeps EvidenceInv.
LEMMA RetainKeepsEvidence ==
  ASSUME TypeOK, EvidenceInv, NEW x \in Retention, Retain(x)
  PROVE  EvidenceInv'
<1>1. /\ x \in Call /\ x # None /\ x \notin Sweeper
      /\ \A c \in Sweeper : c \in Call /\ c # x
      /\ \A y \in Retention : y \in Call
  BY CallsAreDistinct, NoneIsNoRow DEF Call, Sweeper
<1>2. NoErasureAudited
  BY RetainLogs DEF NoErasureAudited, AuditsOnly
<1>3. PICK to : pc' = [pc EXCEPT ![x] = to]
  BY RetainFrame
<1>4. /\ \A c \in Sweeper : pc'[c] = pc[c]
      /\ \A y \in Retention \ {x} : pc'[y] = pc[y]
      /\ pc'[x] = to
  BY <1>1, <1>3 DEF TypeOK
<1>5. \A c \in Sweeper : erasing[c] # None => erasing[c] \in Retention
  BY DEF TypeOK
<1>6. CASE PutObject(x)
  <2>1. /\ evidence[x] = "none" /\ pc'[x] = "put" /\ storage' = storage \cup {x}
        /\ UNCHANGED <<evidence, erasing>>
    BY <1>1, <1>6 DEF PutObject, EvidenceInv, TypeOK
  <2> QED
    BY <1>2, <1>4, <1>5, <2>1 DEF EvidenceInv, NoErasureAudited
<1>7. CASE InsertEvidence(x)
  <2>1. /\ evidence[x] = "none" /\ x \in storage /\ pc'[x] = "inserted"
        /\ evidence'[x] = "live" /\ \A y \in Retention \ {x} : evidence'[y] = evidence[y]
        /\ UNCHANGED <<storage, erasing>>
    BY <1>1, <1>7 DEF InsertEvidence, EvidenceInv, TypeOK
  <2> QED
    BY <1>2, <1>4, <1>5, <2>1 DEF EvidenceInv, NoErasureAudited
<1>8. CASE AuditRetention(x)
  <2>1. pc'[x] = "done" /\ UNCHANGED retained
    BY <1>1, <1>8 DEF AuditRetention, TypeOK
  <2> QED
    BY <1>2, <1>4, <2>1 DEF EvidenceInv, NoErasureAudited
<1> QED
  BY <1>6, <1>7, <1>8 DEF Retain

\* A step of a sweep keeps EvidenceInv: the row is closed, then the object goes.
LEMMA SweepKeepsEvidence ==
  ASSUME TypeInv, EvidenceInv, NEW c \in Sweeper, Sweep(c)
  PROVE  EvidenceInv'
<1>1. /\ c \in Call
      /\ \A o \in Sweeper : o \in Call
      /\ \A x \in Retention : x \in Call /\ x # c /\ x # None
  BY CallsAreDistinct, NoneIsNoRow DEF Call
<1>2. PICK to : pc' = [pc EXCEPT ![c] = to]
  BY SweepFrame
<1>3. /\ \A x \in Retention : pc'[x] = pc[x]
      /\ \A o \in Sweeper \ {c} : pc'[o] = pc[o]
      /\ pc'[c] = to
  BY <1>1, <1>2 DEF TypeInv, TypeOK
<1>4. \A o \in Sweeper : erasing[o] # None => erasing[o] \in Retention
  BY DEF TypeInv, TypeOK
<1>5. ASSUME NEW x \in Retention, MarkDeleted(c, x) PROVE EvidenceInv'
  <2>0. UNCHANGED <<storage, audit>>
    BY <1>5 DEF MarkDeleted
  <2>1. CASE evidence[x] = "live"
    <3>1. /\ pc'[c] = "marked" /\ evidence'[x] = "deleted" /\ erasing'[c] = x
          /\ \A y \in Retention \ {x} : evidence'[y] = evidence[y]
          /\ \A o \in Sweeper \ {c} : erasing'[o] = erasing[o]
      BY <1>1, <1>5, <2>1 DEF MarkDeleted, TypeInv, TypeOK
    <3> QED
      BY <1>3, <1>4, <2>0, <2>1, <3>1 DEF EvidenceInv
  <2>2. CASE evidence[x] # "live"
    <3>1. pc'[c] = "sweeping" /\ UNCHANGED <<evidence, erasing>>
      BY <1>1, <1>5, <2>2 DEF MarkDeleted, TypeInv, TypeOK
    <3> QED
      BY <1>3, <2>0, <3>1 DEF EvidenceInv
  <2> QED
    BY <2>1, <2>2
<1>6. CASE EraseObject(c)
  <2>1. /\ pc[c] = "marked" /\ pc'[c] = "erased" /\ storage' = storage \ {erasing[c]}
        /\ UNCHANGED <<evidence, erasing, audit>>
    BY <1>1, <1>6 DEF EraseObject, TypeInv, TypeOK
  <2>2. erasing[c] # None /\ evidence[erasing[c]] = "deleted"
    BY <2>1 DEF TypeInv, ErasingNamed, EvidenceInv
  <2> QED
    BY <1>3, <2>1, <2>2 DEF EvidenceInv
<1>7. CASE AuditErasure(c)
  <2>1. /\ pc[c] = "erased" /\ pc'[c] = "sweeping" /\ UNCHANGED <<evidence, storage>>
        /\ erasing'[c] = None /\ \A o \in Sweeper \ {c} : erasing'[o] = erasing[o]
    BY <1>1, <1>7 DEF AuditErasure, TypeInv, TypeOK
  <2>2. evidence[erasing[c]] = "deleted" /\ erasing[c] \notin storage
    BY <2>1 DEF TypeInv, ErasingNamed, EvidenceInv
  <2>3. Audited("evidence.deleted", erasing[c])
    BY <1>7 DEF AuditErasure
  <2>4. \A b, r : <<b, r>> \in audit' => <<b, r>> \in audit \/ r = erasing[c]
    BY <2>3, AuditedOnly
  <2> QED
    BY <1>3, <2>1, <2>2, <2>4 DEF EvidenceInv
<1> QED
  BY <1>5, <1>6, <1>7 DEF Sweep

\* Every step of the lifecycle keeps EvidenceInv.
LEMMA EvidenceKept ==
  ASSUME TypeInv, EvidenceInv, [Next]_vars
  PROVE  EvidenceInv'
<1>0. TypeOK
  BY DEF TypeInv
<1>1. ASSUME NEW e \in Enrolment, Enrol(e) PROVE EvidenceInv'
  <2>1. e \in Call \ (Retention \cup Sweeper) /\ NoErasureAudited
    BY <1>1, CallsAreDistinct, EnrolLogs DEF Call, Capture, NoErasureAudited, AuditsOnly
  <2> QED
    BY <1>0, <1>1, <2>1, EnrolFrame, OthersKeepEvidence
<1>2. ASSUME NEW v \in Verification, Verify(v) PROVE EvidenceInv'
  <2>1. v \in Call \ (Retention \cup Sweeper) /\ NoErasureAudited
    BY <1>2, CallsAreDistinct, VerifyLogs DEF Call, Capture, NoErasureAudited, AuditsOnly
  <2> QED
    BY <1>0, <1>2, <2>1, VerifyFrame, OthersKeepEvidence
<1>3. ASSUME NEW w \in Withdrawal, Withdraw(w) PROVE EvidenceInv'
  <2>1. w \in Call \ (Retention \cup Sweeper) /\ NoErasureAudited
    BY <1>3, CallsAreDistinct, WithdrawLogs DEF Call, NoErasureAudited, AuditsOnly
  <2> QED
    BY <1>0, <1>3, <2>1, WithdrawFrame, OthersKeepEvidence
<1>4. ASSUME NEW c \in Sweeper, NEW to, pc' = [pc EXCEPT ![c] = to], to \notin {"erased"},
             UNCHANGED <<evidence, storage, erasing>>, NoErasureAudited
      PROVE  EvidenceInv'
  <2>1. /\ \A x \in Retention : pc'[x] = pc[x]
        /\ \A o \in Sweeper : pc'[o] = "erased" => pc[o] = "erased"
    BY <1>0, <1>4, CallsAreDistinct DEF TypeOK, Call
  <2> QED
    BY <1>4, <2>1 DEF EvidenceInv, NoErasureAudited
<1>5. ASSUME NEW d \in Deletion, Delete(d) PROVE EvidenceInv'
  <2>1. d \in Sweeper
    BY DEF Sweeper
  <2>2. CASE Sweep(d)
    BY <2>1, <2>2, SweepKeepsEvidence
  <2>3. CASE ~Sweep(d)
    <3>1. NoErasureAudited
      BY <1>5, <2>3, DeleteLogs DEF NoErasureAudited, AuditsOnly
    <3>2. UNCHANGED <<evidence, storage, erasing>>
      BY <1>5, <2>3
      DEF Delete, FindSubject, CheckHold, ParkRequest, AuditBlocked, WipeTemplates, WithdrawAll,
          ListEvidence, CompleteRequest, AuditDeletion
    <3>3. \E to : pc' = [pc EXCEPT ![d] = to] /\ to \notin {"erased"}
      BY <1>5, <2>3
      DEF Delete, FindSubject, CheckHold, ParkRequest, AuditBlocked, WipeTemplates, WithdrawAll,
          ListEvidence, CompleteRequest, AuditDeletion
    <3> QED
      BY <1>4, <2>1, <3>1, <3>2, <3>3
  <2> QED
    BY <2>2, <2>3
<1>6. ASSUME NEW p \in Purge, PurgeExpired(p) PROVE EvidenceInv'
  <2>1. p \in Sweeper
    BY DEF Sweeper
  <2>2. CASE Sweep(p)
    BY <2>1, <2>2, SweepKeepsEvidence
  <2>3. CASE ListExpired(p)
    BY <1>4, <2>1, <2>3 DEF ListExpired, NoErasureAudited
  <2>4. CASE FinishPurge(p)
    BY <1>4, <2>1, <2>4 DEF FinishPurge, NoErasureAudited
  <2> QED
    BY <1>6, <2>2, <2>3, <2>4 DEF PurgeExpired
<1>7. ASSUME NEW x \in Retention, Retain(x) PROVE EvidenceInv'
  BY <1>0, <1>7, RetainKeepsEvidence
<1>8. ASSUME NEW c \in Mortal, Crash(c) PROVE EvidenceInv'
  <2>1. \A o \in Retention \cup Sweeper : pc'[o] = pc[o] \/ pc'[o] = "crashed"
    BY <1>0, <1>8 DEF Crash, TypeOK, Call
  <2> QED
    BY <1>0, <1>8, <2>1, EvidenceFrame DEF Crash, NoErasureAudited
<1>9. CASE Environment \/ UNCHANGED vars
  BY <1>0, <1>9, EnvironmentFrame, EvidenceFrame DEF vars, NoErasureAudited
<1> QED
  BY <1>1, <1>2, <1>3, <1>5, <1>6, <1>7, <1>8, <1>9 DEF Next

\* What a sweep is erasing is already marked deleted, and what is live is in storage.
THEOREM EvidenceInvariant == Spec => []EvidenceInv
<1>1. Init => EvidenceInv
  BY DEF Init, EvidenceInv, Call
<1>2. TypeInv /\ EvidenceInv /\ [Next]_vars => EvidenceInv'
  BY EvidenceKept
<1> QED
  BY <1>1, <1>2, TypesAreInvariant, PTL DEF Spec

\* deleteObject marks, erases and audits in three statements, and two sweeps may have
\* listed the same row; still the log never says evidence is gone while storage holds it.
THEOREM ErasureAuditIsAlwaysHonest == Spec => []ErasureAuditIsHonest
<1>1. EvidenceInv => ErasureAuditIsHonest
  BY DEF EvidenceInv, ErasureAuditIsHonest
<1> QED
  BY <1>1, EvidenceInvariant, PTL

\* retain stores the object before the row and deleteObject marks the row before the
\* object goes, so a live row never lacks its object, whatever is interleaved or crashes.
THEOREM LiveEvidenceAlwaysHasObject == Spec => []LiveEvidenceHasObject
<1>1. EvidenceInv => LiveEvidenceHasObject
  BY DEF EvidenceInv, LiveEvidenceHasObject
<1> QED
  BY <1>1, EvidenceInvariant, PTL

-----------------------------------------------------------------------------
(***************************************************************************)
(* What a deletion found.                                                  *)
(***************************************************************************)

\* A consent once given is never taken back and one withdrawn stays withdrawn.
LEMMA ConsentsAdvance ==
  ASSUME TypeOK, ConsentInv, [Next]_vars, NEW e \in Enrolment
  PROVE  /\ consents[e] # "none" => consents'[e] # "none"
         /\ consents[e] = "withdrawn" => consents'[e] = "withdrawn"
<1>1. CASE UNCHANGED consents
  BY <1>1
<1>2. ASSUME NEW o \in Enrolment, Enrol(o) PROVE UNCHANGED consents \/ RecordConsent(o)
  BY <1>2, SubjectFrame
  DEF Enrol, ConsumeForEnrolment, AuditConsent, AnalyseReference, CheckReference, StoreTemplate,
      AuditEnrolment
<1>3. ASSUME NEW o \in Enrolment, RecordConsent(o)
      PROVE  consents[o] = "none" /\ consents' = [consents EXCEPT ![o] = "given"]
  BY <1>3 DEF RecordConsent, ConsentInv, BeforeConsent
<1>4. ASSUME NEW w \in Withdrawal, Withdraw(w) PROVE UNCHANGED consents \/ MarkWithdrawn(w)
  BY <1>4 DEF Withdraw, ReadReceipt, RevokeTemplates, AuditWithdrawal, NotifyWithdrawal
<1>5. ASSUME NEW w \in Withdrawal, MarkWithdrawn(w)
      PROVE  consents' = [consents EXCEPT ![ConsentOf[w]] = "withdrawn"]
  BY <1>5 DEF MarkWithdrawn
<1>6. ASSUME NEW d \in Deletion, Delete(d) PROVE UNCHANGED consents \/ WithdrawAll(d)
  BY <1>6, SweepFrame
  DEF Delete, FindSubject, CheckHold, ParkRequest, AuditBlocked, WipeTemplates, ListEvidence,
      CompleteRequest, AuditDeletion, Sweeper
<1>7. ASSUME NEW d \in Deletion, WithdrawAll(d)
      PROVE  consents'[e] = consents[e] \/ consents'[e] = "withdrawn"
  BY <1>7 DEF WithdrawAll
<1>8. CASE \E c \in Mortal : Crash(c)
  BY <1>1, <1>8 DEF Crash
<1>9. CASE UNCHANGED vars
  BY <1>1, <1>9 DEF vars
<1>10. consents \in [Enrolment -> {"none", "given", "withdrawn"}]
  BY DEF TypeOK
<1> QED
  BY <1>1, <1>2, <1>3, <1>4, <1>5, <1>6, <1>7, <1>8, <1>9, <1>10, VerifyFrame, RetainFrame,
     PurgeFrame, EnvironmentFrame
  DEF Next

\* A sweep only marks rows deleted.
LEMMA SweepAdvances ==
  ASSUME TypeOK, NEW c \in Sweeper, Sweep(c), NEW x \in Retention
  PROVE  /\ evidence'[x] = evidence[x] \/ evidence'[x] = "deleted"
         /\ x \in todo[c] => x \in todo'[c] \/ evidence'[x] = "deleted" \/ evidence[x] = "none"
<1>1. ASSUME NEW y \in Retention, MarkDeleted(c, y)
      PROVE  /\ evidence'[x] = evidence[x] \/ evidence'[x] = "deleted"
             /\ x \in todo[c] => x \in todo'[c] \/ evidence'[x] = "deleted" \/ evidence[x] = "none"
  <2>1. todo'[c] = todo[c] \ {y}
    BY <1>1 DEF MarkDeleted, TypeOK
  <2>2. CASE evidence[y] = "live"
    BY <1>1, <2>1, <2>2 DEF MarkDeleted, TypeOK
  <2>3. CASE evidence[y] # "live"
    BY <1>1, <2>1, <2>3 DEF MarkDeleted, TypeOK
  <2> QED
    BY <2>2, <2>3
<1>2. CASE EraseObject(c) \/ AuditErasure(c)
  BY <1>2 DEF EraseObject, AuditErasure
<1> QED
  BY <1>1, <1>2 DEF Sweep

\* Evidence once retained does not go, and what is deleted stays deleted.
LEMMA EvidenceAdvances ==
  ASSUME TypeOK, EvidenceInv, [Next]_vars, NEW x \in Retention
  PROVE  /\ evidence[x] # "none" => evidence'[x] # "none"
         /\ evidence[x] = "deleted" => evidence'[x] = "deleted"
<1>1. CASE UNCHANGED evidence
  BY <1>1
<1>2. ASSUME NEW y \in Retention, Retain(y) PROVE UNCHANGED evidence \/ InsertEvidence(y)
  BY <1>2 DEF Retain, PutObject, AuditRetention
<1>3. ASSUME NEW y \in Retention, InsertEvidence(y)
      PROVE  evidence[y] = "none" /\ evidence' = [evidence EXCEPT ![y] = "live"]
  BY <1>3 DEF InsertEvidence, EvidenceInv
<1>4. ASSUME NEW c \in Sweeper, Sweep(c)
      PROVE  evidence'[x] = evidence[x] \/ evidence'[x] = "deleted"
  BY <1>4, SweepAdvances
<1>5. ASSUME NEW p \in Purge, PurgeExpired(p) PROVE UNCHANGED evidence \/ Sweep(p)
  BY <1>5 DEF PurgeExpired, ListExpired, FinishPurge
<1>6. ASSUME NEW d \in Deletion, Delete(d) PROVE UNCHANGED evidence \/ Sweep(d)
  BY <1>6
  DEF Delete, FindSubject, CheckHold, ParkRequest, AuditBlocked, WipeTemplates, WithdrawAll,
      ListEvidence, CompleteRequest, AuditDeletion
<1>7. CASE \E c \in Mortal : Crash(c)
  BY <1>1, <1>7 DEF Crash
<1>8. CASE UNCHANGED vars
  BY <1>1, <1>8 DEF vars
<1>9. evidence \in [Retention -> {"none", "live", "deleted"}]
  BY DEF TypeOK
<1> QED
  BY <1>1, <1>2, <1>3, <1>4, <1>5, <1>6, <1>7, <1>8, <1>9, EnrolFrame, VerifyFrame,
     WithdrawFrame, EnvironmentFrame
  DEF Next, Sweeper

\* What a deletion found when it began stays as it was noted.
LEMMA FindingsKept ==
  ASSUME TypeOK, [Next]_vars, NEW d \in Deletion, ~FindSubject(d)
  PROVE  /\ known'[d].given = known[d].given /\ known'[d].kept = known[d].kept
         /\ known'[d].onHold => known[d].onHold /\ (SubjectOf[d] \in holds => SubjectOf[d] \in holds')
<1>1. d \in DOMAIN known /\ known[d] \in Known
  BY DEF TypeOK
<1>2. CASE UNCHANGED <<known, holds>>
  BY <1>2
<1>3. ASSUME NEW k \in Known
      PROVE  /\ [k EXCEPT !.risky = FALSE].given = k.given
             /\ [k EXCEPT !.risky = FALSE].kept = k.kept
             /\ [k EXCEPT !.risky = FALSE].onHold = k.onHold
             /\ [k EXCEPT !.onHold = FALSE].given = k.given
             /\ [k EXCEPT !.onHold = FALSE].kept = k.kept
             /\ [k EXCEPT !.onHold = FALSE].onHold = FALSE
  BY DEF Known
<1>4. ASSUME NEW v \in Verification, Verify(v) PROVE known'[d] = known[d] /\ UNCHANGED holds
  <2>1. v # d /\ UNCHANGED holds
    BY <1>4, CallsAreDistinct, VerifyFrame DEF Sweeper
  <2>2. CASE \E s \in Session : ConsumeForVerification(v, s)
    BY <2>1, <2>2 DEF ConsumeForVerification, TypeOK
  <2>3. CASE UNCHANGED known
    BY <2>1, <2>3
  <2>4. CASE LocateSubject(v) \/ ReadTemplate(v)
    BY <2>3, <2>4 DEF LocateSubject, ReadTemplate, Continues, Concludes
  <2>5. CASE AnalyseProbe(v) \/ CheckProbe(v)
    BY <2>3, <2>5 DEF AnalyseProbe, CheckProbe, ProviderFails, Continues, Concludes
  <2>6. CASE Compare(v) \/ CheckRisk(v)
    BY <2>3, <2>6 DEF Compare, Judge, CheckRisk, ProviderFails, Continues, Concludes
  <2>7. CASE EnsureSubject(v) \/ InsertSubject(v)
    BY <2>3, <2>7, SubjectFrame
  <2>8. CASE \/ RecordAudit(v) \/ InsertAttempt(v) \/ OpenCase(v) \/ NotifyReview(v)
             \/ NotifyCompleted(v)
    BY <2>3, <2>8 DEF RecordAudit, InsertAttempt, OpenCase, NotifyReview, NotifyCompleted
  <2> QED
    BY <1>4, <2>2, <2>4, <2>5, <2>6, <2>7, <2>8 DEF Verify
<1>5. ASSUME NEW o \in Deletion, Delete(o) PROVE known'[d] = known[d] /\ UNCHANGED holds
  <2>1. UNCHANGED holds
    BY <1>5, DeleteFrame
  <2>2. CASE FindSubject(o)
    <3>1. o # d
      BY <2>2
    <3> QED
      BY <2>1, <2>2, <3>1 DEF FindSubject, TypeOK
  <2>3. CASE UNCHANGED known
    BY <2>1, <2>3
  <2>4. CASE Sweep(o)
    BY <2>3, <2>4, SweepFrame DEF Sweeper
  <2> QED
    BY <1>5, <2>2, <2>3, <2>4
    DEF Delete, CheckHold, ParkRequest, AuditBlocked, WipeTemplates, WithdrawAll, ListEvidence,
        CompleteRequest, AuditDeletion
<1>6. CASE Environment
  <2>1. ASSUME NEW s \in Flaggable, SignalLapses(s)
        PROVE  (known'[d] = known[d] \/ known'[d] = [known[d] EXCEPT !.risky = FALSE]) /\ UNCHANGED holds
    BY <1>1, <2>1 DEF SignalLapses
  <2>2. ASSUME NEW s \in Holdable, ReleaseHold(s)
        PROVE  /\ holds' = holds \ {s}
               /\ IF SubjectOf[d] = s THEN known'[d] = [known[d] EXCEPT !.onHold = FALSE]
                  ELSE known'[d] = known[d]
    BY <1>1, <2>2 DEF ReleaseHold
  <2>3. ASSUME NEW s \in Holdable, PlaceHold(s) PROVE UNCHANGED known /\ holds \subseteq holds'
    BY <2>3 DEF PlaceHold
  <2>4. CASE \E s \in Flaggable : SignalLapses(s)
    BY <1>1, <1>3, <2>1, <2>4
  <2>5. ASSUME NEW s \in Holdable, ReleaseHold(s)
        PROVE  /\ known'[d].given = known[d].given /\ known'[d].kept = known[d].kept
               /\ known'[d].onHold => known[d].onHold /\ (SubjectOf[d] \in holds => SubjectOf[d] \in holds')
    <3>1. CASE SubjectOf[d] = s
      <4>1. known'[d] = [known[d] EXCEPT !.onHold = FALSE]
        BY <2>2, <2>5, <3>1
      <4>2. known'[d].onHold = FALSE
        BY <1>1, <1>3, <4>1
      <4> QED
        BY <1>1, <1>3, <4>1, <4>2
    <3>2. CASE SubjectOf[d] # s
      BY <2>2, <2>5, <3>2
    <3> QED
      BY <3>1, <3>2
  <2>6. CASE \E s \in Holdable : PlaceHold(s)
    BY <2>3, <2>6
  <2>7. CASE UNCHANGED <<known, holds>>
    BY <2>7
  <2> QED
    BY <1>6, <2>4, <2>5, <2>6, <2>7
    DEF Environment, CreateSession, SessionLapses, ApproveModel, RevokeModel, RaiseSignal,
        EvidenceLapses
<1>7. CASE \E c \in Mortal : Crash(c)
  BY <1>2, <1>7 DEF Crash
<1>8. CASE UNCHANGED vars
  BY <1>2, <1>8 DEF vars
<1> QED
  BY <1>2, <1>4, <1>5, <1>6, <1>7, <1>8, EnrolFrame, WithdrawFrame, RetainFrame, PurgeFrame
  DEF Next

-----------------------------------------------------------------------------
(***************************************************************************)
(* A completed deletion is a whole one.                                    *)
(***************************************************************************)

Sweeping == {"sweeping", "marked", "erased"}

\* What deletion d found is of its subject and, statement by statement, withdrawn,
\* listed and deleted.
Honoured(d) ==
  /\ pc[d] = "idle" => known[d].given = {} /\ known[d].kept = {}
  /\ pc[d] \notin {"parked", "requested", "done", "crashed"} => requests[d] = "none"
  /\ \A e \in known[d].given : consents[e] # "none" /\ SubjectOf[e] = SubjectOf[d]
  /\ \A x \in known[d].kept : evidence[x] # "none" /\ SubjectOf[x] = SubjectOf[d]
  /\ pc[d] \in {"unconsented"} \cup Sweeping =>
       \A e \in known[d].given : consents[e] = "withdrawn"
  /\ pc[d] \in Sweeping => \A x \in known[d].kept : x \in todo[d] \/ evidence[x] = "deleted"
  /\ requests[d] = "completed" =>
       /\ \A e \in known[d].given : consents[e] = "withdrawn"
       /\ \A x \in known[d].kept : evidence[x] = "deleted"

DeletionInv == \A d \in Deletion : Honoured(d)

\* Receipts and rows that a step has not taken back.
Advanced ==
  /\ \A e \in Enrolment : /\ consents[e] # "none" => consents'[e] # "none"
                          /\ consents[e] = "withdrawn" => consents'[e] = "withdrawn"
  /\ \A x \in Retention : /\ evidence[x] # "none" => evidence'[x] # "none"
                          /\ evidence[x] = "deleted" => evidence'[x] = "deleted"

\* A step that is not deletion d's leaves it honoured.
LEMMA HonouredKept ==
  ASSUME TypeOK, Advanced, NEW d \in Deletion, Honoured(d),
         known'[d].given = known[d].given, known'[d].kept = known[d].kept,
         requests'[d] = requests[d], todo'[d] = todo[d],
         pc'[d] = pc[d] \/ pc'[d] = "crashed"
  PROVE  Honoured(d)'
<1>1. known[d].given \subseteq Enrolment /\ known[d].kept \subseteq Retention
  BY DEF TypeOK, Known
<1> QED
  BY <1>1 DEF Honoured, Advanced, Sweeping

\* A step of deletion d that is no part of its sweep.
LEMMA HonouredOwn ==
  ASSUME TypeOK, Advanced, NEW d \in Deletion, Honoured(d), Delete(d), ~Sweep(d),
         ~FindSubject(d) => known'[d].given = known[d].given /\ known'[d].kept = known[d].kept
  PROVE  Honoured(d)'
<1>1. /\ d \in Call /\ d \in Sweeper /\ pc \in [Call -> Pc]
      /\ known[d].given \subseteq Enrolment /\ known[d].kept \subseteq Retention
  BY DEF TypeOK, Known, Call, Sweeper
<1>2. CASE FindSubject(d)
  <2>1. /\ UNCHANGED <<consents, evidence, requests>> /\ pc'[d] \in {"found", "failed"}
        /\ requests[d] = "none"
    BY <1>1, <1>2 DEF FindSubject, Honoured
  <2>2. known' = [known EXCEPT ![d] =
          [Nothing EXCEPT !.given  = {e \in Enrolment : /\ consents[e] # "none"
                                                        /\ SubjectOf[e] = SubjectOf[d]},
                          !.kept   = LiveOf(SubjectOf[d]),
                          !.onHold = SubjectOf[d] \in holds]]
    BY <1>2 DEF FindSubject
  <2>3. /\ known'[d].given = {e \in Enrolment : consents[e] # "none" /\ SubjectOf[e] = SubjectOf[d]}
        /\ known'[d].kept = {x \in Retention : evidence[x] = "live" /\ SubjectOf[x] = SubjectOf[d]}
    BY <2>2 DEF TypeOK, Nothing, LiveOf
  <2> QED
    BY <2>1, <2>3 DEF Honoured, Sweeping
<1>3. ASSUME ~FindSubject(d), NEW to, to \notin {"idle", "unconsented"} \cup Sweeping,
             pc' = [pc EXCEPT ![d] = to],
             requests'[d] = requests[d] \/ requests'[d] = "blocked",
             to \notin {"parked", "requested", "done", "crashed"} => requests'[d] = "none"
      PROVE  Honoured(d)'
  <2>1. pc'[d] = to
    BY <1>1, <1>3
  <2> QED
    BY <1>1, <1>3, <2>1 DEF Honoured, Advanced
<1>4. CASE ~FindSubject(d) /\ (CheckHold(d) \/ WipeTemplates(d))
  <2>1. UNCHANGED requests /\ requests[d] = "none"
    BY <1>4 DEF CheckHold, WipeTemplates, Honoured
  <2>2. PICK to \in {"blocked", "cleared", "wiped"} : pc' = [pc EXCEPT ![d] = to]
    BY <1>4 DEF CheckHold, WipeTemplates
  <2> QED
    BY <1>3, <1>4, <2>1, <2>2 DEF Sweeping
<1>9. CASE ~FindSubject(d) /\ (AuditBlocked(d) \/ AuditDeletion(d))
  <2>1. UNCHANGED requests /\ pc' = [pc EXCEPT ![d] = "done"]
    BY <1>9 DEF AuditBlocked, AuditDeletion
  <2> QED
    BY <1>3, <1>9, <2>1 DEF Sweeping
<1>5. CASE ~FindSubject(d) /\ ParkRequest(d)
  <2>1. pc' = [pc EXCEPT ![d] = "parked"] /\ requests'[d] = "blocked"
    BY <1>5 DEF ParkRequest, TypeOK
  <2> QED
    BY <1>3, <1>5, <2>1 DEF Sweeping
<1>6. CASE ~FindSubject(d) /\ WithdrawAll(d)
  <2>1. /\ pc[d] = "wiped" /\ pc'[d] = "unconsented" /\ UNCHANGED <<requests, evidence, todo>>
        /\ known'[d].given = known[d].given /\ known'[d].kept = known[d].kept
    BY <1>1, <1>6 DEF WithdrawAll
  <2>2. \A e \in Enrolment : consents'[e] =
          IF SubjectOf[e] = SubjectOf[d] /\ consents[e] = "given" THEN "withdrawn" ELSE consents[e]
    BY <1>6 DEF WithdrawAll
  <2>3. \A e \in Enrolment : consents[e] \in {"none", "given", "withdrawn"}
    BY DEF TypeOK
  <2>4. \A e \in known[d].given : consents'[e] = "withdrawn"
    BY <1>1, <2>2, <2>3 DEF Honoured
  <2> QED
    BY <1>1, <2>1, <2>4 DEF Honoured, Sweeping
<1>7. CASE ~FindSubject(d) /\ ListEvidence(d)
  <2>1. /\ pc[d] = "unconsented" /\ pc'[d] = "sweeping"
        /\ UNCHANGED <<requests, evidence, consents>>
        /\ todo'[d] = {x \in Retention : evidence[x] = "live" /\ SubjectOf[x] = SubjectOf[d]}
        /\ known'[d].given = known[d].given /\ known'[d].kept = known[d].kept
    BY <1>1, <1>7 DEF ListEvidence, LiveOf, TypeOK
  <2>2. \A x \in Retention : evidence[x] \in {"none", "live", "deleted"}
    BY DEF TypeOK
  <2>3. \A x \in known[d].kept : x \in todo'[d] \/ evidence[x] = "deleted"
    BY <1>1, <2>1, <2>2 DEF Honoured
  <2> QED
    BY <2>1, <2>3 DEF Honoured, Sweeping
<1>8. CASE ~FindSubject(d) /\ CompleteRequest(d)
  <2>1. /\ pc[d] = "sweeping" /\ pc'[d] = "requested" /\ todo[d] = {}
        /\ UNCHANGED <<evidence, consents>>
        /\ known'[d].given = known[d].given /\ known'[d].kept = known[d].kept
    BY <1>1, <1>8 DEF CompleteRequest
  <2>2. /\ \A e \in known[d].given : consents[e] = "withdrawn"
        /\ \A x \in known[d].kept : evidence[x] = "deleted"
    BY <2>1 DEF Honoured, Sweeping
  <2> QED
    BY <2>1, <2>2 DEF Honoured, Sweeping
<1> QED
  BY <1>2, <1>4, <1>5, <1>6, <1>7, <1>8, <1>9 DEF Delete

\* A step of deletion d's sweep.
LEMMA HonouredSweep ==
  ASSUME TypeOK, Advanced, NEW d \in Deletion, Honoured(d), Sweep(d)
  PROVE  Honoured(d)'
<1>1. /\ d \in Call /\ d \in Sweeper /\ known[d].kept \subseteq Retention
      /\ known[d].given \subseteq Enrolment
  BY DEF TypeOK, Known, Call, Sweeper
<1>2. UNCHANGED <<consents, requests, known>>
  BY <1>1, SweepFrame
<1>3. pc[d] \in Sweeping /\ pc'[d] \in Sweeping
  <2>1. ASSUME NEW x \in Retention, MarkDeleted(d, x)
        PROVE  pc[d] \in Sweeping /\ pc'[d] \in Sweeping
    BY <1>1, <2>1 DEF MarkDeleted, Sweeping, TypeOK
  <2>2. CASE EraseObject(d) \/ AuditErasure(d)
    BY <1>1, <2>2 DEF EraseObject, AuditErasure, Sweeping, TypeOK
  <2> QED
    BY <2>1, <2>2 DEF Sweep
<1>4. \A x \in Retention : x \in todo[d] => x \in todo'[d] \/ evidence'[x] = "deleted" \/ evidence[x] = "none"
  BY <1>1, SweepAdvances
<1>5. \A x \in known[d].kept : x \in todo'[d] \/ evidence'[x] = "deleted"
  BY <1>1, <1>3, <1>4 DEF Honoured, Advanced
<1> QED
  BY <1>1, <1>2, <1>3, <1>5 DEF Honoured, Advanced, Sweeping

\* A step of another sweep leaves deletion d's list alone.
LEMMA ListsKept ==
  ASSUME TypeOK, NEW d \in Deletion, NEW c \in Sweeper \ {d}, Sweep(c) \/ Delete(c) \/ PurgeExpired(c)
  PROVE  todo'[d] = todo[d]
<1>1. ASSUME Sweep(c) PROVE todo'[d] = todo[d]
  <2>1. ASSUME NEW x \in Retention, MarkDeleted(c, x) PROVE todo'[d] = todo[d]
    BY <2>1 DEF MarkDeleted, TypeOK
  <2>2. CASE EraseObject(c) \/ AuditErasure(c)
    BY <2>2 DEF EraseObject, AuditErasure
  <2> QED
    BY <1>1, <2>1, <2>2 DEF Sweep
<1>2. CASE ListExpired(c) \/ ListEvidence(c)
  <2>1. PICK rows : todo' = [todo EXCEPT ![c] = rows]
    BY <1>2 DEF ListExpired, ListEvidence
  <2> QED
    BY <2>1 DEF TypeOK, Sweeper
<1>3. CASE FinishPurge(c)
  BY <1>3 DEF FinishPurge
<1>4. CASE \/ FindSubject(c) \/ CheckHold(c) \/ ParkRequest(c) \/ AuditBlocked(c)
           \/ WipeTemplates(c) \/ WithdrawAll(c) \/ CompleteRequest(c) \/ AuditDeletion(c)
  BY <1>4 DEF FindSubject, CheckHold, ParkRequest, AuditBlocked, WipeTemplates, WithdrawAll,
              CompleteRequest, AuditDeletion
<1> QED
  BY <1>1, <1>2, <1>3, <1>4 DEF Delete, PurgeExpired

\* Another deletion's request is another row.
LEMMA RequestsKept ==
  ASSUME TypeOK, NEW d \in Deletion, NEW o \in Deletion \ {d}, Delete(o)
  PROVE  requests'[d] = requests[d]
<1>1. CASE ParkRequest(o) \/ CompleteRequest(o)
  BY <1>1 DEF ParkRequest, CompleteRequest, TypeOK
<1>2. CASE Sweep(o)
  BY <1>2, SweepFrame DEF Sweeper
<1>3. CASE \/ FindSubject(o) \/ CheckHold(o) \/ AuditBlocked(o) \/ WipeTemplates(o)
           \/ WithdrawAll(o) \/ ListEvidence(o) \/ AuditDeletion(o)
  BY <1>3 DEF FindSubject, CheckHold, AuditBlocked, WipeTemplates, WithdrawAll, ListEvidence,
              AuditDeletion
<1> QED
  BY <1>1, <1>2, <1>3 DEF Delete

\* What a step of any other call does to deletion d's own state: nothing.
LEMMA DeletionFrame ==
  ASSUME TypeOK, [Next]_vars, NEW d \in Deletion, ~Delete(d)
  PROVE  /\ requests'[d] = requests[d] /\ todo'[d] = todo[d]
         /\ pc'[d] = pc[d] \/ (pc'[d] = "crashed" /\ pc[d] # "idle")
<1>0. d \in Call /\ d \in Sweeper /\ pc \in [Call -> Pc]
  BY DEF TypeOK, Call, Sweeper
<1>1. ASSUME NEW c \in Call \ {d}, NEW to, pc' = [pc EXCEPT ![c] = to] PROVE pc'[d] = pc[d]
  BY <1>0, <1>1
<1>2. /\ Enrolment \cup Verification \cup Withdrawal \cup Retention \cup Purge \subseteq Call \ {d}
      /\ Purge \subseteq Sweeper \ {d}
  BY CallsAreDistinct DEF Call, Capture, Sweeper
<1>3. ASSUME NEW e \in Enrolment, Enrol(e)
      PROVE  requests'[d] = requests[d] /\ todo'[d] = todo[d] /\ pc'[d] = pc[d]
  BY <1>1, <1>2, <1>3, EnrolFrame
<1>4. ASSUME NEW v \in Verification, Verify(v)
      PROVE  requests'[d] = requests[d] /\ todo'[d] = todo[d] /\ pc'[d] = pc[d]
  BY <1>1, <1>2, <1>4, VerifyFrame
<1>5. ASSUME NEW w \in Withdrawal, Withdraw(w)
      PROVE  requests'[d] = requests[d] /\ todo'[d] = todo[d] /\ pc'[d] = pc[d]
  BY <1>1, <1>2, <1>5, WithdrawFrame
<1>6. ASSUME NEW x \in Retention, Retain(x)
      PROVE  requests'[d] = requests[d] /\ todo'[d] = todo[d] /\ pc'[d] = pc[d]
  BY <1>1, <1>2, <1>6, RetainFrame
<1>7. ASSUME NEW p \in Purge, PurgeExpired(p)
      PROVE  requests'[d] = requests[d] /\ todo'[d] = todo[d] /\ pc'[d] = pc[d]
  BY <1>1, <1>2, <1>7, PurgeFrame, ListsKept
<1>8. ASSUME NEW o \in Deletion, Delete(o)
      PROVE  requests'[d] = requests[d] /\ todo'[d] = todo[d] /\ pc'[d] = pc[d]
  <2>1. o \in Sweeper \ {d} /\ o \in Deletion \ {d} /\ o \in Call \ {d}
    BY <1>8 DEF Sweeper, Call
  <2> QED
    BY <1>1, <1>8, <2>1, DeleteFrame, ListsKept, RequestsKept
<1>9. ASSUME NEW c \in Mortal, Crash(c)
      PROVE  /\ requests'[d] = requests[d] /\ todo'[d] = todo[d]
             /\ pc'[d] = pc[d] \/ (pc'[d] = "crashed" /\ pc[d] # "idle")
  BY <1>0, <1>9 DEF Crash, Ended
<1>10. CASE Environment \/ UNCHANGED vars
  BY <1>10, EnvironmentFrame DEF vars
<1> QED
  BY <1>3, <1>4, <1>5, <1>6, <1>7, <1>8, <1>9, <1>10 DEF Next

\* Every step of the lifecycle keeps DeletionInv.
LEMMA DeletionKept ==
  ASSUME TypeOK, ConsentInv, EvidenceInv, DeletionInv, [Next]_vars
  PROVE  DeletionInv'
<1>1. Advanced
  BY ConsentsAdvance, EvidenceAdvances DEF Advanced
<1>2. ASSUME NEW d \in Deletion PROVE Honoured(d)'
  <2>1. Honoured(d)
    BY DEF DeletionInv
  <2>2. ~FindSubject(d) => known'[d].given = known[d].given /\ known'[d].kept = known[d].kept
    BY FindingsKept
  <2>3. CASE Delete(d)
    BY <1>1, <2>1, <2>2, <2>3, HonouredOwn, HonouredSweep
  <2>4. CASE ~Delete(d)
    <3>1. ~FindSubject(d)
      BY <2>4 DEF Delete
    <3> QED
      BY <1>1, <2>1, <2>2, <2>4, <3>1, DeletionFrame, HonouredKept
  <2> QED
    BY <2>3, <2>4
<1> QED
  BY <1>2 DEF DeletionInv

\* What a deletion found is withdrawn, listed and erased in that order.
THEOREM DeletionInvariant == Spec => []DeletionInv
<1>1. Init => DeletionInv
  BY DEF Init, DeletionInv, Honoured, Sweeping, Nothing, Call, Sweeper
<1>2. TypeInv /\ ConsentInv /\ EvidenceInv /\ DeletionInv /\ [Next]_vars => DeletionInv'
  BY DeletionKept DEF TypeInv
<1> QED
  BY <1>1, <1>2, TypesAreInvariant, ConsentInvariant, EvidenceInvariant, PTL DEF Spec

\* deleteSubjectData withdraws, lists and erases in separate statements, with enrolments,
\* withdrawals and purges in between; once it reports itself completed, nothing that it
\* found is left to use.
THEOREM DeletionsStick == Spec => []DeletionSticks
<1>1. DeletionInv => DeletionSticks
  BY DEF DeletionInv, Honoured, DeletionSticks
<1> QED
  BY <1>1, DeletionInvariant, PTL

-----------------------------------------------------------------------------
(***************************************************************************)
(* A completed deletion blocks matching.                                   *)
(***************************************************************************)

\* A deletion that verification v found completed stays so, and v had found its consents
\* withdrawn.
BlockInv ==
  \A v \in Verification : \A d \in known[v].completed :
    requests[d] = "completed" /\ known[d].given \subseteq known[v].withdrawn

\* A completed deletion is over: it neither looks again nor changes its request.
LEMMA CompletedStays ==
  ASSUME TypeOK, DeletionInv, [Next]_vars, NEW d \in Deletion, requests[d] = "completed"
  PROVE  requests'[d] = "completed" /\ known'[d].given = known[d].given
<1>1. ~FindSubject(d) /\ ~ParkRequest(d)
  BY DEF FindSubject, ParkRequest, DeletionInv, Honoured
<1>2. known'[d].given = known[d].given
  BY <1>1, FindingsKept
<1>3. CASE ~Delete(d)
  BY <1>2, <1>3, DeletionFrame
<1>4. CASE Delete(d)
  <2>1. CASE CompleteRequest(d)
    BY <2>1 DEF CompleteRequest, TypeOK
  <2>3. CASE Sweep(d)
    BY <2>3, SweepFrame DEF Sweeper
  <2>4. CASE CheckHold(d) \/ AuditBlocked(d) \/ AuditDeletion(d)
    BY <2>4 DEF CheckHold, AuditBlocked, AuditDeletion
  <2>2. CASE WipeTemplates(d) \/ WithdrawAll(d) \/ ListEvidence(d)
    BY <2>2 DEF WipeTemplates, WithdrawAll, ListEvidence
  <2>5. requests'[d] = "completed"
    BY <1>1, <1>4, <2>1, <2>2, <2>3, <2>4 DEF Delete
  <2> QED
    BY <1>2, <2>5
<1> QED
  BY <1>3, <1>4

\* Every step of the lifecycle keeps BlockInv.
LEMMA BlocksKept ==
  ASSUME TypeOK, DeletionInv, BlockInv, [Next]_vars
  PROVE  BlockInv'
<1>1. \A v \in Verification : known[v].completed \subseteq Deletion
  BY DEF TypeOK, Known
<1>2. ASSUME NEW v \in Verification, NEW s \in Session, ConsumeForVerification(v, s),
             NEW d \in known'[v].completed
      PROVE  requests'[d] = "completed" /\ known'[d].given \subseteq known'[v].withdrawn
  <2>1. known' = [known EXCEPT ![v] = Snapshot(v)] /\ UNCHANGED requests
    BY <1>2 DEF ConsumeForVerification
  <2>2. /\ known'[v].completed = {o \in Deletion : requests[o] = "completed"}
        /\ known'[v].withdrawn = {e \in Enrolment : consents[e] = "withdrawn"}
    BY <2>1 DEF TypeOK, Snapshot, Nothing
  <2>3. d \in Deletion /\ requests[d] = "completed" /\ d # v
    BY <1>2, <2>2, CallsAreDistinct DEF Sweeper
  <2>4. known'[d] = known[d] /\ known[d].given \subseteq Enrolment
    BY <2>1, <2>3 DEF TypeOK, Known
  <2>5. \A e \in known[d].given : consents[e] = "withdrawn"
    BY <2>3 DEF DeletionInv, Honoured
  <2> QED
    BY <2>1, <2>2, <2>3, <2>4, <2>5
<1>3. ASSUME NEW v \in Verification, ~\E s \in Session : ConsumeForVerification(v, s),
             NEW d \in known'[v].completed
      PROVE  requests'[d] = "completed" /\ known'[d].given \subseteq known'[v].withdrawn
  <2>1. known'[v].withdrawn = known[v].withdrawn /\ d \in known[v].completed
    BY <1>3, NotesKept
  <2>2. d \in Deletion /\ requests[d] = "completed" /\ known[d].given \subseteq known[v].withdrawn
    BY <1>1, <2>1 DEF BlockInv
  <2> QED
    BY <2>1, <2>2, CompletedStays
<1> QED
  BY <1>2, <1>3 DEF BlockInv

\* What a verification found of completed deletions, it found whole, and it stays true.
THEOREM BlockInvariant == Spec => []BlockInv
<1>1. Init => BlockInv
  BY DEF Init, BlockInv, Nothing
<1>2. TypeInv /\ DeletionInv /\ BlockInv /\ [Next]_vars => BlockInv'
  BY BlocksKept DEF TypeInv
<1> QED
  BY <1>1, <1>2, TypesAreInvariant, DeletionInvariant, PTL DEF Spec

\* deleteSubjectData revokes templates before it withdraws consents, and an enrolment in
\* flight inserts another template afterwards; it is the consent that stops it: no
\* verification begun after the deletion completed is approved on what it found.
THEOREM DeletionsBlockMatching == Spec => []DeletionBlocksMatching
<1>1. BlockInv /\ MatchInv => DeletionBlocksMatching
  BY DEF BlockInv, MatchInv, Matched, DeletionBlocksMatching
<1> QED
  BY <1>1, BlockInvariant, MatchInvariant, PTL

-----------------------------------------------------------------------------
(***************************************************************************)
(* Legal holds.                                                            *)
(***************************************************************************)

\* Deletion d has got no further than a hold allows.
Stopped(d) ==
  /\ pc[d] \in {"found", "blocked", "parked", "done", "failed", "crashed"}
  /\ requests[d] # "completed"

HoldInv == \A d \in Deletion : known[d].onHold => SubjectOf[d] \in holds /\ Stopped(d)

\* A deletion that is stopped stays so as long as the hold stands.
LEMMA StoppedStays ==
  ASSUME TypeOK, NEW d \in Deletion, Stopped(d), SubjectOf[d] \in holds, Delete(d), ~FindSubject(d)
  PROVE  Stopped(d)'
<1>1. /\ d \in Call /\ d \in Sweeper
      /\ pc[d] \in {"found", "blocked", "parked", "done", "failed", "crashed"}
      /\ requests[d] # "completed"
  BY DEF Stopped, Call, Sweeper
<1>2. CASE CheckHold(d)
  BY <1>1, <1>2 DEF CheckHold, Stopped, TypeOK
<1>3. CASE ParkRequest(d)
  BY <1>1, <1>3 DEF ParkRequest, Stopped, TypeOK
<1>4. CASE AuditBlocked(d)
  BY <1>1, <1>4 DEF AuditBlocked, Stopped, TypeOK
<1>5. ~WipeTemplates(d) /\ ~WithdrawAll(d) /\ ~ListEvidence(d)
  BY <1>1 DEF WipeTemplates, WithdrawAll, ListEvidence
<1>6. ~CompleteRequest(d) /\ ~AuditDeletion(d) /\ ~EraseObject(d) /\ ~AuditErasure(d)
  BY <1>1 DEF CompleteRequest, AuditDeletion, EraseObject, AuditErasure
<1>7. \A x \in Retention : ~MarkDeleted(d, x)
  BY <1>1 DEF MarkDeleted
<1> QED
  BY <1>2, <1>3, <1>4, <1>5, <1>6, <1>7 DEF Delete, Sweep

\* Every step of the lifecycle keeps HoldInv.
LEMMA HoldsKept ==
  ASSUME TypeOK, DeletionInv, HoldInv, [Next]_vars
  PROVE  HoldInv'
<1>1. ASSUME NEW d \in Deletion, FindSubject(d), known'[d].onHold
      PROVE  SubjectOf[d] \in holds' /\ Stopped(d)'
  <2>1. /\ UNCHANGED <<holds, requests>> /\ pc'[d] \in {"found", "failed"}
        /\ requests[d] = "none"
    BY <1>1 DEF FindSubject, DeletionInv, Honoured, TypeOK, Call, Sweeper
  <2>2. known' = [known EXCEPT ![d] =
          [Nothing EXCEPT !.given  = {e \in Enrolment : /\ consents[e] # "none"
                                                        /\ SubjectOf[e] = SubjectOf[d]},
                          !.kept   = LiveOf(SubjectOf[d]),
                          !.onHold = SubjectOf[d] \in holds]]
    BY <1>1 DEF FindSubject
  <2>3. known'[d].onHold = (SubjectOf[d] \in holds)
    BY <2>2 DEF TypeOK, Nothing
  <2> QED
    BY <1>1, <2>1, <2>3 DEF Stopped
<1>2. ASSUME NEW d \in Deletion, ~FindSubject(d), known'[d].onHold
      PROVE  SubjectOf[d] \in holds' /\ Stopped(d)'
  <2>1. known[d].onHold /\ (SubjectOf[d] \in holds => SubjectOf[d] \in holds')
    BY <1>2, FindingsKept
  <2>2. SubjectOf[d] \in holds /\ Stopped(d)
    BY <2>1 DEF HoldInv
  <2>3. CASE Delete(d)
    BY <1>2, <2>1, <2>2, <2>3, StoppedStays
  <2>4. CASE ~Delete(d)
    BY <2>1, <2>2, <2>4, DeletionFrame DEF Stopped
  <2> QED
    BY <2>3, <2>4
<1> QED
  BY <1>1, <1>2 DEF HoldInv

\* A legal hold that stood when the deletion began and has not been released since stops
\* it before anything is revoked, although the hold is read in a statement of its own.
THEOREM HoldsBlockDeletion == Spec => []HoldBlocksDeletion
<1>1. Init => HoldInv
  BY DEF Init, HoldInv, Nothing
<1>2. TypeInv /\ DeletionInv /\ HoldInv /\ [Next]_vars => HoldInv'
  BY HoldsKept DEF TypeInv
<1>3. HoldInv => HoldBlocksDeletion
  BY DEF HoldInv, Stopped, HoldBlocksDeletion
<1> QED
  BY <1>1, <1>2, <1>3, TypesAreInvariant, DeletionInvariant, PTL DEF Spec

-----------------------------------------------------------------------------
(***************************************************************************)
(* The trail of a verification.                                            *)
(***************************************************************************)

\* The audit log only grows.
LEMMA AuditGrows ==
  ASSUME [Next]_vars
  PROVE  audit \subseteq audit'
<1>1. CASE UNCHANGED audit
  BY <1>1
<1>2. CASE \E c \in Mortal : Crash(c)
  BY <1>1, <1>2 DEF Crash
<1>3. CASE UNCHANGED vars
  BY <1>1, <1>3 DEF vars
<1> QED
  BY <1>1, <1>2, <1>3, EnrolLogs, VerifyLogs, WithdrawLogs, RetainLogs, PurgeLogs, DeleteLogs,
     EnvironmentFrame
  DEF Next, AuditsOnly

\* Verification v has not inserted its attempt.
Unrecorded(v) ==
  pc[v] \in {"idle", "consumed", "located", "referenced", "extractorChecked", "comparing",
             "scored", "unnamed", "subjectMissing", "recording", "audited"}

Concluded == {"scored", "unnamed", "subjectMissing", "recording", "audited"}

CaseOf(o) == IF HighRisk(o) THEN "dual" ELSE "single"

Notified(event, v) == <<event, v>> \in webhooks

\* How far the record of verification v has come: the audit event, the attempt, the
\* case of a review and its notice, the completion notice.
Told(v) ==
  /\ pc[v] = "audited" \/ attempts[v] # None => <<"verification.completed", v>> \in audit
  /\ Unrecorded(v) =>
       /\ attempts[v] = None /\ cases[v] = "none"
       /\ ~Notified("verification.review_required", v) /\ ~Notified("verification.completed", v)
  /\ pc[v] \in Concluded => outcome[v] # None
  /\ outcome[v] # None /\ HighRisk(outcome[v]) => outcome[v].decision = "review"
  /\ pc[v] \in {"recorded", "caseOpened", "reviewNotified"} =>
       /\ attempts[v] = outcome[v] /\ outcome[v] # None
       /\ ~Notified("verification.completed", v)
  /\ pc[v] = "recorded" => cases[v] = "none" /\ ~Notified("verification.review_required", v)
  /\ pc[v] \in {"caseOpened", "reviewNotified"} =>
       outcome[v].decision = "review" /\ cases[v] = CaseOf(outcome[v])
  /\ Notified("verification.review_required", v) => cases[v] # "none"
  /\ Notified("verification.completed", v) =>
       /\ attempts[v] # None
       /\ (cases[v] # "none") <=> (attempts[v].decision = "review")
       /\ (cases[v] = "dual") <=> HighRisk(attempts[v])

TrailInv == \A v \in Verification : Told(v)

\* A step that writes nothing of verification v's record.
LEMMA ToldKept ==
  ASSUME NEW v \in Verification, Told(v), audit \subseteq audit',
         attempts'[v] = attempts[v], cases'[v] = cases[v], outcome'[v] = outcome[v],
         pc'[v] = pc[v] \/ pc'[v] = "crashed",
         webhooks \subseteq webhooks',
         Notified("verification.review_required", v)' => Notified("verification.review_required", v),
         Notified("verification.completed", v)' => Notified("verification.completed", v)
  PROVE  Told(v)'
<1>1. /\ Notified("verification.review_required", v)' <=> Notified("verification.review_required", v)
      /\ Notified("verification.completed", v)' <=> Notified("verification.completed", v)
  BY DEF Notified
<1>2. CaseOf(outcome[v])' = CaseOf(outcome[v]) /\ (HighRisk(outcome[v])' <=> HighRisk(outcome[v]))
  BY DEF CaseOf, HighRisk
<1> QED
  BY <1>1 DEF Told, Unrecorded, Concluded, CaseOf, HighRisk

\* A statement of verification v before the attempt is inserted.
LEMMA ToldEarly ==
  ASSUME TypeOK, NEW v \in Verification, Told(v), Unrecorded(v), NEW to,
         to \in {"consumed", "located", "referenced", "extractorChecked", "comparing",
                 "scored", "unnamed", "subjectMissing", "recording", "audited", "failed"},
         pc' = [pc EXCEPT ![v] = to], UNCHANGED <<attempts, cases, webhooks>>,
         to = "audited" => <<"verification.completed", v>> \in audit',
         to \in Concluded => outcome'[v] # None,
         outcome'[v] # None /\ HighRisk(outcome'[v]) => outcome'[v].decision = "review"
  PROVE  Told(v)'
<1>1. pc'[v] = to
  BY DEF TypeOK, Call, Capture
<1>2. /\ attempts'[v] = None /\ cases'[v] = "none"
      /\ ~Notified("verification.review_required", v)' /\ ~Notified("verification.completed", v)'
  BY DEF Told, Notified
<1> QED
  BY <1>1, <1>2 DEF Told, Unrecorded, HighRisk

\* The statements of a verification that conclude.
LEMMA ToldConcluding ==
  ASSUME TypeOK, NEW v \in Verification, Told(v),
         NEW from, NEW to, NEW d \in {"approved", "review", "rejected"}, NEW r,
         Concludes(v, from, to, d, r),
         r \in {"POLICY_DECISION", "REFERENCE_NOT_FOUND", "CONSENT_WITHDRAWN",
                "SERVICE_UNAVAILABLE", "MODEL_NOT_APPROVED", "MODEL_VERSION_MISMATCH",
                "RISK_SIGNAL_REVIEW"},
         from \in {"consumed", "located", "referenced", "extractorChecked", "comparing", "scored"},
         to \in {"scored", "unnamed", "recording"},
         r \in {"MODEL_VERSION_MISMATCH", "MODEL_NOT_APPROVED"} => d = "review"
  PROVE  Told(v)'
<1>1. pc[v] = from /\ pc' = [pc EXCEPT ![v] = to] /\ UNCHANGED <<attempts, cases, webhooks>>
  BY DEF Concludes
<1>2. outcome'[v] = [decision |-> d, reason |-> r]
  BY DEF Concludes, Decided, TypeOK
<1>3. /\ outcome'[v] # None
      /\ HighRisk(outcome'[v]) => outcome'[v].decision = "review"
  BY <1>2, NoneIsNoOutcome DEF HighRisk, Outcome
<1> QED
  BY <1>1, <1>3, ToldEarly DEF Unrecorded

\* The statements of a verification that go on.
LEMMA ToldContinuing ==
  ASSUME TypeOK, NEW v \in Verification, Told(v),
         NEW from, NEW to, pc[v] = from, pc' = [pc EXCEPT ![v] = to],
         UNCHANGED <<attempts, cases, webhooks, outcome>>, Unrecorded(v),
         to \in {"consumed", "located", "referenced", "extractorChecked", "comparing",
                 "unnamed", "subjectMissing", "recording", "failed"},
         to \in Concluded => from \in Concluded
  PROVE  Told(v)'
<1>1. /\ to \in Concluded => outcome'[v] # None
      /\ outcome'[v] # None /\ HighRisk(outcome'[v]) => outcome'[v].decision = "review"
  BY DEF Told, HighRisk
<1> QED
  BY <1>1, ToldEarly

\* A verification's own step writes the rows before the events that name them.
LEMMA VerifyTells ==
  ASSUME TypeOK, NEW v \in Verification, Told(v), Verify(v), audit \subseteq audit'
  PROVE  Told(v)'
<1>0. v \in Call /\ v \notin Enrolment /\ pc \in [Call -> Pc]
  BY CallsAreDistinct DEF Call, Capture, TypeOK
<1>1. CASE \E s \in Session : ConsumeForVerification(v, s)
  <2>1. PICK to \in {"consumed", "failed"} : pc' = [pc EXCEPT ![v] = to]
    BY <1>1 DEF ConsumeForVerification, Consume
  <2>2. pc[v] = "idle" /\ UNCHANGED <<attempts, cases, webhooks, outcome>>
    BY <1>1 DEF ConsumeForVerification, Consume
  <2> QED
    BY <2>1, <2>2, ToldContinuing DEF Unrecorded, Concluded
<1>2. CASE LocateSubject(v)
  <2>1. CASE Continues(v, "consumed", "located")
    <3>1. PICK to \in {"located"} : pc' = [pc EXCEPT ![v] = to]
      BY <2>1 DEF Continues
    <3>2. pc[v] = "consumed" /\ UNCHANGED <<attempts, cases, webhooks, outcome>>
      BY <2>1 DEF Continues
    <3> QED
      BY <3>1, <3>2, ToldContinuing DEF Unrecorded, Concluded
  <2>2. CASE Concludes(v, "consumed", "unnamed", "rejected", "REFERENCE_NOT_FOUND")
    BY <2>2, ToldConcluding
  <2> QED
    BY <1>2, <2>1, <2>2 DEF LocateSubject
<1>3. CASE ReadTemplate(v)
  <2>1. CASE Concludes(v, "located", "recording", "rejected", "REFERENCE_NOT_FOUND")
    BY <2>1, ToldConcluding
  <2>2. CASE Concludes(v, "located", "recording", "rejected", "CONSENT_WITHDRAWN")
    BY <2>2, ToldConcluding
  <2>3. CASE Moves(v, "located", "referenced") /\ UNCHANGED <<attempts, cases, outcome, notices>>
    <3>1. PICK to \in {"referenced"} : pc' = [pc EXCEPT ![v] = to]
      BY <2>3 DEF Continues
    <3>2. pc[v] = "located" /\ UNCHANGED <<attempts, cases, webhooks, outcome>>
      BY <2>3 DEF Continues
    <3> QED
      BY <3>1, <3>2, ToldContinuing DEF Unrecorded, Concluded
  <2> QED
    BY <1>3, <2>1, <2>2, <2>3 DEF ReadTemplate
<1>4. ASSUME NEW from \in {"referenced", "comparing"}, ProviderFails(v, from) PROVE Told(v)'
  <2>1. CASE Concludes(v, from, "recording", "review", "SERVICE_UNAVAILABLE")
    BY <1>4, <2>1, ToldConcluding
  <2>2. CASE Continues(v, from, "failed")
    BY <1>4, <2>2, ToldContinuing DEF Unrecorded, Concluded, Continues
  <2> QED
    BY <1>4, <2>1, <2>2 DEF ProviderFails
<1>5. CASE AnalyseProbe(v)
  <2>1. CASE Moves(v, "referenced", "extractorChecked") /\ UNCHANGED <<attempts, cases, outcome, notices>>
    <3>1. PICK to \in {"extractorChecked"} : pc' = [pc EXCEPT ![v] = to]
      BY <2>1 DEF Continues
    <3>2. pc[v] = "referenced" /\ UNCHANGED <<attempts, cases, webhooks, outcome>>
      BY <2>1 DEF Continues
    <3> QED
      BY <3>1, <3>2, ToldContinuing DEF Unrecorded, Concluded
  <2>2. CASE Concludes(v, "referenced", "recording", "review", "MODEL_NOT_APPROVED")
    BY <2>2, ToldConcluding
  <2> QED
    BY <1>4, <1>5, <2>1, <2>2 DEF AnalyseProbe
<1>6. CASE CheckProbe(v)
  <2>1. CASE Concludes(v, "extractorChecked", "recording", "review", "MODEL_NOT_APPROVED")
    BY <2>1, ToldConcluding
  <2>2. CASE Concludes(v, "extractorChecked", "recording", "review", "MODEL_VERSION_MISMATCH")
    BY <2>2, ToldConcluding
  <2>3. CASE Moves(v, "extractorChecked", "comparing") /\ UNCHANGED <<attempts, cases, outcome, notices>>
    <3>1. PICK to \in {"comparing"} : pc' = [pc EXCEPT ![v] = to]
      BY <2>3 DEF Continues
    <3>2. pc[v] = "extractorChecked" /\ UNCHANGED <<attempts, cases, webhooks, outcome>>
      BY <2>3 DEF Continues
    <3> QED
      BY <3>1, <3>2, ToldContinuing DEF Unrecorded, Concluded
  <2> QED
    BY <1>6, <2>1, <2>2, <2>3 DEF CheckProbe
<1>7. CASE Compare(v)
  <2>1. ASSUME NEW o \in PolicyOutcome, Judge(v, o) PROVE Told(v)'
    <3>1. PICK d \in {"approved", "review", "rejected"} : o = Decided(d, "POLICY_DECISION")
      BY DEF PolicyOutcome
    <3>2. o.decision = d /\ o.reason = "POLICY_DECISION"
      BY <3>1 DEF Decided
    <3>3. CASE d = "approved"
      <4>1. Concludes(v, "comparing", "scored", d, "POLICY_DECISION")
        BY <2>1, <3>2, <3>3 DEF Judge
      <4> QED
        BY <4>1, ToldConcluding
    <3>4. CASE d # "approved"
      <4>1. Concludes(v, "comparing", "recording", d, "POLICY_DECISION")
        BY <2>1, <3>2, <3>4 DEF Judge
      <4> QED
        BY <4>1, ToldConcluding
    <3> QED
      BY <3>3, <3>4
  <2>2. CASE Concludes(v, "comparing", "recording", "review", "MODEL_NOT_APPROVED")
    BY <2>2, ToldConcluding
  <2> QED
    BY <1>4, <1>7, <2>1, <2>2 DEF Compare
<1>8. CASE CheckRisk(v)
  <2>1. CASE Concludes(v, "scored", "recording", "review", "RISK_SIGNAL_REVIEW")
    BY <2>1, ToldConcluding
  <2>2. CASE Continues(v, "scored", "recording")
    BY <2>2, ToldContinuing DEF Unrecorded, Concluded, Continues
  <2> QED
    BY <1>8, <2>1, <2>2 DEF CheckRisk
<1>9. CASE EnsureSubject(v)
  <2>1. PICK to \in {"subjectMissing", "recording"} : pc' = [pc EXCEPT ![v] = to]
    BY <1>0, <1>9 DEF EnsureSubject, AfterSubject
  <2>2. pc[v] = "unnamed" /\ UNCHANGED <<attempts, cases, webhooks, outcome>>
    BY <1>0, <1>9 DEF EnsureSubject
  <2> QED
    BY <2>1, <2>2, ToldContinuing DEF Unrecorded, Concluded
<1>10. CASE InsertSubject(v)
  <2>1. PICK to \in {"failed", "recording"} : pc' = [pc EXCEPT ![v] = to]
    BY <1>0, <1>10 DEF InsertSubject, AfterSubject
  <2>2. pc[v] = "subjectMissing" /\ UNCHANGED <<attempts, cases, webhooks, outcome>>
    BY <1>0, <1>10 DEF InsertSubject
  <2> QED
    BY <2>1, <2>2, ToldContinuing DEF Unrecorded, Concluded
<1>11. CASE RecordAudit(v)
  <2>1. <<"verification.completed", v>> \in audit'
    BY <1>11, AuditedOnly DEF RecordAudit
  <2>2. /\ pc[v] = "recording" /\ pc' = [pc EXCEPT ![v] = "audited"]
        /\ UNCHANGED <<attempts, cases, webhooks, outcome>>
    BY <1>11 DEF RecordAudit
  <2>3. /\ outcome'[v] # None
        /\ HighRisk(outcome'[v]) => outcome'[v].decision = "review"
    BY <2>2 DEF Told, Concluded, HighRisk
  <2> QED
    BY <2>1, <2>2, <2>3, ToldEarly DEF Unrecorded
<1>12. CASE InsertAttempt(v)
  <2>1. /\ pc[v] = "audited" /\ pc'[v] = "recorded" /\ UNCHANGED <<cases, webhooks, outcome, audit>>
        /\ attempts'[v] = outcome[v]
    BY <1>0, <1>12 DEF InsertAttempt, TypeOK
  <2> QED
    BY <2>1 DEF Told, Unrecorded, Concluded, Notified, HighRisk
<1>13. CASE OpenCase(v)
  <2>1. /\ pc[v] = "recorded" /\ pc'[v] = "caseOpened" /\ UNCHANGED <<attempts, webhooks, outcome, audit>>
        /\ outcome[v].decision = "review" /\ cases'[v] = CaseOf(outcome[v])
    BY <1>0, <1>13 DEF OpenCase, CaseOf, TypeOK
  <2> QED
    BY <2>1 DEF Told, Unrecorded, Concluded, Notified, HighRisk, CaseOf
<1>14. CASE NotifyReview(v)
  <2>1. /\ pc[v] = "caseOpened" /\ pc'[v] = "reviewNotified" /\ UNCHANGED <<attempts, cases, outcome, audit>>
    BY <1>0, <1>14 DEF NotifyReview
  <2>2. ~Notified("verification.completed", v)'
    <3>1. Enqueued("verification.review_required", v)
      BY <1>14 DEF NotifyReview
    <3>2. EnqueuesOnly({"verification.review_required"})
      BY <3>1, EnqueuedOnly
    <3> QED
      BY <2>1, <3>2 DEF Told, Notified, EnqueuesOnly
  <2>3. cases[v] # "none"
    BY <2>1 DEF Told, CaseOf
  <2> QED
    BY <2>1, <2>2, <2>3 DEF Told, Unrecorded, Concluded, HighRisk, CaseOf
<1>15. CASE NotifyCompleted(v)
  <2>1. /\ pc[v] \in {"recorded", "reviewNotified"} /\ pc'[v] = "done"
        /\ UNCHANGED <<attempts, cases, outcome, audit>>
        /\ pc[v] = "recorded" => outcome[v].decision # "review"
    BY <1>0, <1>15 DEF NotifyCompleted
  <2>2. Notified("verification.review_required", v)' => Notified("verification.review_required", v)
    <3>1. Enqueued("verification.completed", v)
      BY <1>15 DEF NotifyCompleted
    <3>2. EnqueuesOnly({"verification.completed"})
      BY <3>1, EnqueuedOnly
    <3> QED
      BY <3>2 DEF Notified, EnqueuesOnly
  <2>3. /\ attempts[v] = outcome[v] /\ attempts[v] # None
        /\ (cases[v] # "none") <=> (attempts[v].decision = "review")
        /\ (cases[v] = "dual") <=> HighRisk(attempts[v])
    BY <2>1 DEF Told, CaseOf, HighRisk
  <2> QED
    BY <2>1, <2>2, <2>3 DEF Told, Unrecorded, Concluded, HighRisk
<1> QED
  BY <1>1, <1>2, <1>3, <1>5, <1>6, <1>7, <1>8, <1>9, <1>10, <1>11, <1>12, <1>13, <1>14, <1>15
  DEF Verify

\* A verification writes nothing of another's.
LEMMA VerifyOthers ==
  ASSUME TypeOK, NEW o \in Verification, Verify(o), NEW v \in Verification, v # o
  PROVE  /\ attempts'[v] = attempts[v] /\ cases'[v] = cases[v] /\ outcome'[v] = outcome[v]
         /\ ref'[v] = ref[v] /\ relied'[v] = relied[v] /\ pad'[v] = pad[v] /\ pc'[v] = pc[v]
<1>0. v \in Capture /\ o \in Capture /\ v \in Call
  BY DEF Call, Capture
<1>1. pc'[v] = pc[v]
  BY <1>0, VerifyFrame DEF TypeOK
<1>2. CASE EnsureSubject(o) \/ InsertSubject(o)
  BY <1>1, <1>2, SubjectFrame
<1>3. CASE \E s \in Session : ConsumeForVerification(o, s)
  BY <1>1, <1>3 DEF ConsumeForVerification, Consume
<1>4. CASE LocateSubject(o) \/ ReadTemplate(o)
  <2>1. /\ UNCHANGED <<attempts, cases, relied, pad>>
        /\ UNCHANGED outcome \/ \E r : outcome' = [outcome EXCEPT ![o] = r]
        /\ UNCHANGED ref \/ \E r : ref' = [ref EXCEPT ![o] = r]
    BY <1>4 DEF LocateSubject, ReadTemplate, Continues, Concludes
  <2> QED
    BY <1>1, <2>1 DEF TypeOK
<1>5. CASE AnalyseProbe(o) \/ CheckProbe(o)
  <2>1. /\ UNCHANGED <<attempts, cases, ref>>
        /\ UNCHANGED outcome \/ \E r : outcome' = [outcome EXCEPT ![o] = r]
        /\ UNCHANGED relied \/ \E r : relied' = [relied EXCEPT ![o] = r]
        /\ UNCHANGED pad \/ \E r : pad' = [pad EXCEPT ![o] = r]
    BY <1>5 DEF AnalyseProbe, CheckProbe, ProviderFails, Continues, Concludes
  <2> QED
    BY <1>0, <1>1, <2>1 DEF TypeOK
<1>6. CASE Compare(o) \/ CheckRisk(o)
  <2>1. /\ UNCHANGED <<attempts, cases, ref, pad>>
        /\ UNCHANGED outcome \/ \E r : outcome' = [outcome EXCEPT ![o] = r]
        /\ UNCHANGED relied \/ \E r : relied' = [relied EXCEPT ![o] = r]
    BY <1>6 DEF Compare, Judge, CheckRisk, ProviderFails, Continues, Concludes
  <2> QED
    BY <1>1, <2>1 DEF TypeOK
<1>7. CASE RecordAudit(o) \/ NotifyReview(o) \/ NotifyCompleted(o)
  BY <1>1, <1>7 DEF RecordAudit, NotifyReview, NotifyCompleted
<1>8. CASE InsertAttempt(o) \/ OpenCase(o)
  <2>1. /\ UNCHANGED <<outcome, ref, relied, pad>>
        /\ UNCHANGED attempts \/ \E r : attempts' = [attempts EXCEPT ![o] = r]
        /\ UNCHANGED cases \/ \E r : cases' = [cases EXCEPT ![o] = r]
    BY <1>8 DEF InsertAttempt, OpenCase
  <2> QED
    BY <1>1, <2>1 DEF TypeOK
<1> QED
  BY <1>2, <1>3, <1>4, <1>5, <1>6, <1>7, <1>8 DEF Verify

\* Every step of the lifecycle keeps TrailInv.
LEMMA TrailKept ==
  ASSUME TypeOK, TrailInv, [Next]_vars
  PROVE  TrailInv'
<1>0. audit \subseteq audit'
  BY AuditGrows
<1>1. ASSUME NEW v \in Verification, UNCHANGED matching, EnqueuesOnly({"consent.withdrawn"}),
             pc'[v] = pc[v] \/ pc'[v] = "crashed"
      PROVE  Told(v)'
  <2>1. /\ Notified("verification.review_required", v)' => Notified("verification.review_required", v)
        /\ Notified("verification.completed", v)' => Notified("verification.completed", v)
        /\ webhooks \subseteq webhooks'
    BY <1>1 DEF Notified, EnqueuesOnly
  <2> QED
    BY <1>0, <1>1, <2>1, ToldKept DEF TrailInv
<1>2. ASSUME NEW c \in Call \ Verification, NEW to, pc' = [pc EXCEPT ![c] = to]
      PROVE  \A v \in Verification : pc'[v] = pc[v]
  BY <1>2 DEF TypeOK, Call, Capture
<1>3. Enrolment \cup Withdrawal \cup Retention \cup Deletion \cup Purge \subseteq Call \ Verification
  BY CallsAreDistinct DEF Call, Capture, Sweeper
<1>4. ASSUME NEW v \in Verification PROVE Told(v)'
  <2>1. ASSUME NEW e \in Enrolment, Enrol(e) PROVE Told(v)'
    BY <1>1, <1>2, <1>3, <2>1, EnrolFrame, EnrolLogs, KindsGrow
  <2>2. ASSUME NEW w \in Withdrawal, Withdraw(w) PROVE Told(v)'
    BY <1>1, <1>2, <1>3, <2>2, WithdrawFrame, WithdrawLogs
  <2>3. ASSUME NEW d \in Deletion, Delete(d) PROVE Told(v)'
    BY <1>1, <1>2, <1>3, <2>3, DeleteFrame, DeleteLogs, KindsGrow
  <2>4. ASSUME NEW x \in Retention, Retain(x) PROVE Told(v)'
    BY <1>1, <1>2, <1>3, <2>4, RetainFrame, RetainLogs, KindsGrow
  <2>5. ASSUME NEW p \in Purge, PurgeExpired(p) PROVE Told(v)'
    BY <1>1, <1>2, <1>3, <2>5, PurgeFrame, PurgeLogs, KindsGrow
  <2>6. ASSUME NEW o \in Verification, Verify(o) PROVE Told(v)'
    <3>1. CASE o = v
      BY <1>0, <2>6, <3>1, VerifyTells DEF TrailInv
    <3>2. CASE o # v
      <4>1. /\ Notified("verification.review_required", v)' => Notified("verification.review_required", v)
            /\ Notified("verification.completed", v)' => Notified("verification.completed", v)
            /\ webhooks \subseteq webhooks'
        BY <2>6, <3>2, VerifyLogs DEF Notified, EnqueuesOnly
      <4> QED
        BY <1>0, <2>6, <3>2, <4>1, VerifyOthers, ToldKept DEF TrailInv
    <3> QED
      BY <3>1, <3>2
  <2>7. ASSUME NEW c \in Mortal, Crash(c) PROVE Told(v)'
    <3>1. (pc'[v] = pc[v] \/ pc'[v] = "crashed") /\ UNCHANGED matching /\ UNCHANGED webhooks
      BY <2>7 DEF Crash, TypeOK, Call, Capture
    <3> QED
      BY <1>1, <3>1, LogsKept
  <2>8. CASE Environment \/ UNCHANGED vars
    <3>1. pc'[v] = pc[v] /\ UNCHANGED matching /\ UNCHANGED webhooks
      BY <2>8, EnvironmentFrame DEF vars
    <3> QED
      BY <1>1, <3>1, LogsKept
  <2> QED
    BY <2>1, <2>2, <2>3, <2>4, <2>5, <2>6, <2>7, <2>8 DEF Next
<1> QED
  BY <1>4 DEF TrailInv

\* The record of every verification has come as far as its handler.
THEOREM TrailInvariant == Spec => []TrailInv
<1>1. Init => TrailInv
  BY DEF Init, TrailInv, Told, Unrecorded, Concluded, Notified, Call, Capture
<1>2. TypeInv /\ TrailInv /\ [Next]_vars => TrailInv'
  BY TrailKept DEF TypeInv
<1> QED
  BY <1>1, <1>2, TypesAreInvariant, PTL DEF Spec

\* record() audits before it inserts, so whatever crash comes between the two statements,
\* no attempt row is without its event.
THEOREM AttemptsAreAudited == Spec => []AttemptIsAudited
<1>1. TrailInv => AttemptIsAudited
  BY DEF TrailInv, Told, AttemptIsAudited
<1> QED
  BY <1>1, TrailInvariant, PTL

-----------------------------------------------------------------------------
(***************************************************************************)
(* The trail of a withdrawal.                                              *)
(***************************************************************************)

\* How far the record of withdrawal w has come, and what its notice says.
WithdrawalInv ==
  /\ \A w \in Withdrawal :
       /\ pc[w] \in {"withdrawn", "revoked", "audited"} => consents[ConsentOf[w]] = "withdrawn"
       /\ pc[w] = "audited" => <<"consent.withdrawn", ConsentOf[w]>> \in audit
  /\ \A e \in Enrolment : <<"consent.withdrawn", e>> \in webhooks =>
       consents[e] = "withdrawn" /\ <<"consent.withdrawn", e>> \in audit

\* A step of no withdrawal.
LEMMA WithdrawalsFrame ==
  ASSUME TypeOK, ConsentInv, WithdrawalInv, [Next]_vars,
         \A w \in Withdrawal : pc'[w] = pc[w] \/ pc'[w] = "crashed",
         EnqueuesOnly({"verification.review_required", "verification.completed"})
  PROVE  WithdrawalInv'
<1>1. /\ audit \subseteq audit'
      /\ \A e \in Enrolment : consents[e] = "withdrawn" => consents'[e] = "withdrawn"
  BY AuditGrows, ConsentsAdvance
<1>2. \A w \in Withdrawal : ConsentOf[w] \in Enrolment
  BY ArgumentsAreTyped
<1> QED
  BY <1>1, <1>2 DEF WithdrawalInv, EnqueuesOnly

\* A withdrawal's own step withdraws before it audits, and audits before it notifies.
LEMMA WithdrawTells ==
  ASSUME TypeOK, ConsentInv, WithdrawalInv, [Next]_vars, NEW w \in Withdrawal, Withdraw(w)
  PROVE  WithdrawalInv'
<1>0. /\ w \in Call /\ ConsentOf[w] \in Enrolment
      /\ \A o \in Withdrawal : o \in Call /\ ConsentOf[o] \in Enrolment
  BY ArgumentsAreTyped DEF Call
<1>1. /\ audit \subseteq audit'
      /\ \A e \in Enrolment : consents[e] = "withdrawn" => consents'[e] = "withdrawn"
  BY AuditGrows, ConsentsAdvance
<1>2. \A o \in Withdrawal \ {w} : pc'[o] = pc[o]
  BY <1>0, WithdrawFrame DEF TypeOK
<1>3. ASSUME UNCHANGED webhooks,
             pc'[w] \in {"withdrawn", "revoked", "audited"} => consents'[ConsentOf[w]] = "withdrawn",
             pc'[w] = "audited" => <<"consent.withdrawn", ConsentOf[w]>> \in audit'
      PROVE  WithdrawalInv'
  BY <1>0, <1>1, <1>2, <1>3 DEF WithdrawalInv
<1>4. CASE ReadReceipt(w)
  <2>1. pc'[w] \in {"failed", "done", "withdrawing"} /\ UNCHANGED webhooks
    BY <1>0, <1>4 DEF ReadReceipt, TypeOK
  <2> QED
    BY <1>3, <2>1
<1>5. CASE MarkWithdrawn(w)
  <2>1. pc'[w] = "withdrawn" /\ consents'[ConsentOf[w]] = "withdrawn" /\ UNCHANGED webhooks
    BY <1>0, <1>5 DEF MarkWithdrawn, TypeOK
  <2> QED
    BY <1>3, <2>1
<1>6. CASE RevokeTemplates(w)
  <2>1. pc[w] = "withdrawn" /\ pc'[w] = "revoked" /\ UNCHANGED <<webhooks, consents>>
    BY <1>0, <1>6 DEF RevokeTemplates, TypeOK
  <2> QED
    BY <1>3, <2>1 DEF WithdrawalInv
<1>7. CASE AuditWithdrawal(w)
  <2>1. pc[w] = "revoked" /\ pc'[w] = "audited" /\ UNCHANGED <<webhooks, consents>>
    BY <1>0, <1>7 DEF AuditWithdrawal, TypeOK
  <2>2. <<"consent.withdrawn", ConsentOf[w]>> \in audit'
    BY <1>7, AuditedOnly DEF AuditWithdrawal
  <2> QED
    BY <1>3, <2>1, <2>2 DEF WithdrawalInv
<1>8. CASE NotifyWithdrawal(w)
  <2>1. pc[w] = "audited" /\ pc'[w] = "done" /\ UNCHANGED <<audit, consents>>
    BY <1>0, <1>8 DEF NotifyWithdrawal, TypeOK
  <2>2. \A b, r : <<b, r>> \in webhooks' => <<b, r>> \in webhooks \/ r = ConsentOf[w]
    BY <1>8, EnqueuedOnly DEF NotifyWithdrawal
  <2>3. consents[ConsentOf[w]] = "withdrawn" /\ <<"consent.withdrawn", ConsentOf[w]>> \in audit
    BY <2>1 DEF WithdrawalInv
  <2> QED
    BY <1>0, <1>2, <2>1, <2>2, <2>3 DEF WithdrawalInv
<1> QED
  BY <1>4, <1>5, <1>6, <1>7, <1>8 DEF Withdraw

\* Every step of the lifecycle keeps WithdrawalInv.
LEMMA WithdrawalsKept ==
  ASSUME TypeOK, ConsentInv, WithdrawalInv, [Next]_vars
  PROVE  WithdrawalInv'
<1>1. ASSUME NEW c \in Call \ Withdrawal, NEW to, pc' = [pc EXCEPT ![c] = to]
      PROVE  \A w \in Withdrawal : pc'[w] = pc[w]
  BY <1>1 DEF TypeOK, Call
<1>2. Enrolment \cup Verification \cup Retention \cup Deletion \cup Purge \subseteq Call \ Withdrawal
  BY CallsAreDistinct DEF Call, Capture, Sweeper
<1>3. ASSUME NEW e \in Enrolment, Enrol(e) PROVE WithdrawalInv'
  BY <1>1, <1>2, <1>3, EnrolFrame, EnrolLogs, KindsGrow, WithdrawalsFrame
<1>4. ASSUME NEW v \in Verification, Verify(v) PROVE WithdrawalInv'
  BY <1>1, <1>2, <1>4, VerifyFrame, VerifyLogs, WithdrawalsFrame
<1>5. ASSUME NEW d \in Deletion, Delete(d) PROVE WithdrawalInv'
  BY <1>1, <1>2, <1>5, DeleteFrame, DeleteLogs, KindsGrow, WithdrawalsFrame
<1>6. ASSUME NEW x \in Retention, Retain(x) PROVE WithdrawalInv'
  BY <1>1, <1>2, <1>6, RetainFrame, RetainLogs, KindsGrow, WithdrawalsFrame
<1>7. ASSUME NEW p \in Purge, PurgeExpired(p) PROVE WithdrawalInv'
  BY <1>1, <1>2, <1>7, PurgeFrame, PurgeLogs, KindsGrow, WithdrawalsFrame
<1>8. ASSUME NEW w \in Withdrawal, Withdraw(w) PROVE WithdrawalInv'
  BY <1>8, WithdrawTells
<1>9. ASSUME NEW c \in Mortal, Crash(c) PROVE WithdrawalInv'
  <2>1. UNCHANGED webhooks /\ \A w \in Withdrawal : pc'[w] = pc[w] \/ pc'[w] = "crashed"
    BY <1>9 DEF Crash, TypeOK, Call
  <2> QED
    BY <2>1, LogsKept, WithdrawalsFrame
<1>10. CASE Environment \/ UNCHANGED vars
  <2>1. UNCHANGED webhooks /\ \A w \in Withdrawal : pc'[w] = pc[w]
    BY <1>10, EnvironmentFrame DEF vars
  <2> QED
    BY <2>1, LogsKept, WithdrawalsFrame
<1> QED
  BY <1>3, <1>4, <1>5, <1>6, <1>7, <1>8, <1>9, <1>10 DEF Next

\* A withdrawal that has come to its audit or its notice has marked the receipt.
THEOREM WithdrawalInvariant == Spec => []WithdrawalInv
<1>1. Init => WithdrawalInv
  BY DEF Init, WithdrawalInv, Call
<1>2. TypeInv /\ ConsentInv /\ WithdrawalInv /\ [Next]_vars => WithdrawalInv'
  BY WithdrawalsKept DEF TypeInv
<1> QED
  BY <1>1, <1>2, TypesAreInvariant, ConsentInvariant, PTL DEF Spec

\* Attempt, case, consent and audit event are each written in a statement of their own
\* before the webhook that tells of them, so a webhook is never ahead of the tables.
THEOREM NotificationsAreBacked == Spec => []NotificationsBacked
<1>1. TrailInv /\ WithdrawalInv => NotificationsBacked
  BY DEF TrailInv, Told, Notified, HighRisk, WithdrawalInv, NotificationsBacked
<1> QED
  BY <1>1, TrailInvariant, WithdrawalInvariant, PTL

-----------------------------------------------------------------------------
(***************************************************************************)
(* The models an approval rests on.                                        *)
(***************************************************************************)

\* Enrolment e has not inserted its template.
BeforeTemplate(e) ==
  pc[e] \in {"idle", "subjectMissing", "ready", "consumed", "consented", "consentAudited",
             "extractorChecked", "analysed"}

TemplatesInv == \A e \in Enrolment : BeforeTemplate(e) => templates[e].status = "none"

\* Templates are inserted once, keep their model and are never taken out.
TemplatesStay ==
  \A e \in Enrolment : templates[e].status # "none" =>
    templates'[e].status # "none" /\ templates'[e].model = templates[e].model

\* What one step does to the templates.
LEMMA TemplatesAdvance ==
  ASSUME TypeOK, TemplatesInv, [Next]_vars
  PROVE  /\ TemplatesStay
         /\ \A e \in Enrolment : templates[e].status = "none" /\ ~StoreTemplate(e) =>
              templates'[e].status = "none"
<1>0. templates \in [Enrolment -> Template] /\ \A w \in Withdrawal : ConsentOf[w] \in Enrolment
  BY ArgumentsAreTyped DEF TypeOK
<1>1. CASE UNCHANGED templates
  BY <1>1 DEF TemplatesStay
<1>2. ASSUME NEW o \in Enrolment, Enrol(o) PROVE UNCHANGED templates \/ StoreTemplate(o)
  BY <1>2, SubjectFrame
  DEF Enrol, ConsumeForEnrolment, RecordConsent, AuditConsent, AnalyseReference, CheckReference,
      AuditEnrolment
<1>3. ASSUME NEW o \in Enrolment, StoreTemplate(o)
      PROVE  /\ templates[o].status = "none"
             /\ \A e \in Enrolment \ {o} : templates'[e] = templates[e]
  BY <1>0, <1>3 DEF StoreTemplate, TemplatesInv, BeforeTemplate
<1>4. ASSUME NEW w \in Withdrawal, Withdraw(w) PROVE UNCHANGED templates \/ RevokeTemplates(w)
  BY <1>4 DEF Withdraw, ReadReceipt, MarkWithdrawn, AuditWithdrawal, NotifyWithdrawal
<1>5. ASSUME NEW t \in Template, NEW st
      PROVE  /\ [t EXCEPT !.status = st].status = st /\ [t EXCEPT !.status = st].model = t.model
             /\ [t EXCEPT !.status = st, !.wiped = TRUE].status = st
             /\ [t EXCEPT !.status = st, !.wiped = TRUE].model = t.model
  BY DEF Template
<1>6. ASSUME NEW w \in Withdrawal, RevokeTemplates(w), NEW e \in Enrolment
      PROVE  /\ templates'[e].model = templates[e].model
             /\ templates'[e].status # "none" <=> templates[e].status # "none"
  <2>1. PICK st : /\ st = IF templates[ConsentOf[w]].status = "active" THEN "revoked"
                          ELSE templates[ConsentOf[w]].status
                  /\ templates' = [templates EXCEPT ![ConsentOf[w]].status = st]
    BY <1>6 DEF RevokeTemplates
  <2>2. CASE e = ConsentOf[w]
    <3>1. templates'[e] = [templates[e] EXCEPT !.status = st]
      BY <1>0, <2>1, <2>2
    <3>2. templates[e] \in Template
      BY <1>0
    <3>3. templates'[e].status = st /\ templates'[e].model = templates[e].model
      BY <1>5, <3>1, <3>2
    <3> QED
      BY <2>1, <2>2, <3>3
  <2>3. CASE e # ConsentOf[w]
    BY <1>0, <2>1, <2>3
  <2> QED
    BY <2>2, <2>3
<1>7. ASSUME NEW d \in Deletion, Delete(d) PROVE UNCHANGED templates \/ WipeTemplates(d)
  BY <1>7, SweepFrame
  DEF Delete, FindSubject, CheckHold, ParkRequest, AuditBlocked, WithdrawAll, ListEvidence,
      CompleteRequest, AuditDeletion, Sweeper
<1>8. ASSUME NEW d \in Deletion, WipeTemplates(d), NEW e \in Enrolment
      PROVE  /\ templates'[e].model = templates[e].model
             /\ templates'[e].status # "none" <=> templates[e].status # "none"
  <2>1. templates'[e] = templates[e]
        \/ /\ templates[e].status = "active"
           /\ templates'[e] = [templates[e] EXCEPT !.status = "revoked", !.wiped = TRUE]
    BY <1>8 DEF WipeTemplates
  <2>2. templates[e] \in Template
    BY <1>0
  <2>3. PICK st \in {"revoked"} : TRUE
    OBVIOUS
  <2>4. /\ [templates[e] EXCEPT !.status = st, !.wiped = TRUE].status = st
        /\ [templates[e] EXCEPT !.status = st, !.wiped = TRUE].model = templates[e].model
    BY <1>5, <2>2
  <2> QED
    BY <2>1, <2>3, <2>4
<1>9. CASE \E c \in Mortal : Crash(c)
  BY <1>1, <1>9 DEF Crash
<1>10. CASE UNCHANGED vars
  BY <1>1, <1>10 DEF vars
<1>11. CASE \E e \in Enrolment : Enrol(e)
  <2>1. PICK o \in Enrolment : Enrol(o)
    BY <1>11
  <2>2. CASE StoreTemplate(o)
    BY <1>3, <2>2 DEF TemplatesStay
  <2> QED
    BY <1>1, <1>2, <2>1, <2>2
<1>12. CASE \E w \in Withdrawal : Withdraw(w)
  <2>1. PICK w \in Withdrawal : Withdraw(w)
    BY <1>12
  <2>2. CASE RevokeTemplates(w)
    BY <1>6, <2>2 DEF TemplatesStay
  <2> QED
    BY <1>1, <1>4, <2>1, <2>2
<1>13. CASE \E d \in Deletion : Delete(d)
  <2>1. PICK d \in Deletion : Delete(d)
    BY <1>13
  <2>2. CASE WipeTemplates(d)
    BY <1>8, <2>2 DEF TemplatesStay
  <2> QED
    BY <1>1, <1>7, <2>1, <2>2
<1> QED
  BY <1>1, <1>9, <1>10, <1>11, <1>12, <1>13, VerifyFrame, RetainFrame, PurgeFrame,
     EnvironmentFrame
  DEF Next

\* An enrolment past its insert never comes back before it.
LEMMA EnrolAdvances ==
  ASSUME TypeOK, NEW e \in Enrolment, Enrol(e), BeforeTemplate(e)'
  PROVE  BeforeTemplate(e) /\ ~StoreTemplate(e)
<1>0. e \in Call /\ pc \in [Call -> Pc]
  BY DEF TypeOK, Call, Capture
<1>1. ~StoreTemplate(e) /\ ~AuditEnrolment(e)
  BY <1>0 DEF StoreTemplate, AuditEnrolment, BeforeTemplate
<1>2. CASE EnsureSubject(e) \/ InsertSubject(e)
  BY <1>1, <1>2 DEF EnsureSubject, InsertSubject, BeforeTemplate
<1>3. CASE (\E s \in Session : ConsumeForEnrolment(e, s)) \/ RecordConsent(e) \/ AuditConsent(e)
  BY <1>1, <1>3 DEF ConsumeForEnrolment, Consume, RecordConsent, AuditConsent, BeforeTemplate
<1>4. CASE AnalyseReference(e) \/ CheckReference(e)
  BY <1>1, <1>4 DEF AnalyseReference, CheckReference, BeforeTemplate
<1> QED
  BY <1>1, <1>2, <1>3, <1>4 DEF Enrol

\* Every step of the lifecycle keeps TemplatesInv.
LEMMA TemplatesKept ==
  ASSUME TypeOK, TemplatesInv, [Next]_vars
  PROVE  TemplatesInv'
<1>0. pc \in [Call -> Pc] /\ \A e \in Enrolment : e \in Call
  BY DEF TypeOK, Call, Capture
<1>1. ASSUME NEW e \in Enrolment, BeforeTemplate(e)', pc'[e] = pc[e] PROVE templates'[e].status = "none"
  <2>1. BeforeTemplate(e) /\ ~StoreTemplate(e)
    BY <1>0, <1>1 DEF BeforeTemplate, StoreTemplate
  <2> QED
    BY <2>1, TemplatesAdvance DEF TemplatesInv
<1>2. ASSUME NEW e \in Enrolment, BeforeTemplate(e)' PROVE templates'[e].status = "none"
  <2>1. ASSUME NEW o \in Enrolment, Enrol(o) PROVE templates'[e].status = "none"
    <3>1. CASE o = e
      BY <1>2, <2>1, <3>1, EnrolAdvances, TemplatesAdvance DEF TemplatesInv
    <3>2. CASE o # e
      BY <1>0, <1>1, <1>2, <2>1, <3>2, EnrolFrame
    <3> QED
      BY <3>1, <3>2
  <2>2. ASSUME NEW c \in Call \ Enrolment, NEW to, pc' = [pc EXCEPT ![c] = to]
        PROVE  templates'[e].status = "none"
    BY <1>0, <1>1, <1>2, <2>2
  <2>3. Verification \cup Withdrawal \cup Retention \cup Deletion \cup Purge \subseteq Call \ Enrolment
    BY CallsAreDistinct DEF Call, Capture, Sweeper
  <2>4. CASE \E c \in Mortal : Crash(c)
    <3>1. pc'[e] = pc[e]
      BY <1>0, <1>2, <2>4 DEF Crash, BeforeTemplate
    <3> QED
      BY <1>1, <1>2, <3>1
  <2>5. CASE Environment \/ UNCHANGED vars
    BY <1>1, <1>2, <2>5, EnvironmentFrame DEF vars
  <2> QED
    BY <2>1, <2>2, <2>3, <2>4, <2>5, VerifyFrame, WithdrawFrame, RetainFrame, DeleteFrame,
       PurgeFrame
    DEF Next
<1> QED
  BY <1>2 DEF TemplatesInv

\* Registry rows once inserted stay, and a revoked one stays revoked.
LEMMA RegistryAdvances ==
  ASSUME TypeOK, [Next]_vars, NEW m \in Model
  PROVE  /\ registry[m] # "absent" => registry'[m] # "absent"
         /\ registry[m] = "revoked" => registry'[m] = "revoked"
<1>0. registry \in [Model -> {"absent", "active", "revoked"}]
  BY DEF TypeOK
<1>1. CASE UNCHANGED registry
  BY <1>1
<1>2. CASE Environment
  <2>1. ASSUME NEW r \in Revocable, ApproveModel(r) \/ RevokeModel(r)
        PROVE  /\ registry[m] # "absent" => registry'[m] # "absent"
               /\ registry[m] = "revoked" => registry'[m] = "revoked"
    BY <1>0, <2>1 DEF ApproveModel, RevokeModel
  <2> QED
    BY <1>1, <1>2, <2>1
    DEF Environment, CreateSession, SessionLapses, RaiseSignal, SignalLapses, PlaceHold,
        ReleaseHold, EvidenceLapses
<1>3. CASE \E c \in Mortal : Crash(c)
  BY <1>1, <1>3 DEF Crash
<1>4. CASE UNCHANGED vars
  BY <1>1, <1>4 DEF vars
<1> QED
  BY <1>1, <1>2, <1>3, <1>4, EnrolFrame, VerifyFrame, WithdrawFrame, RetainFrame, DeleteFrame,
     PurgeFrame
  DEF Next

\* Registered, and not revoked when verification v began.
Trusted(v) == \A m \in relied[v] : registry[m] # "absent" /\ m \notin known[v].revoked

\* Verification v relies on trusted models, and on the one its template was made with.
Rests(v) ==
  /\ ref[v] # None
  /\ relied[v] \cap Extractor = {templates[ref[v]].model}
  /\ Trusted(v)
  /\ ModalityOf[v] = "face" => relied[v] \cap Pad # {}

RestsOnMatcher(v) == ModalityOf[v] = "fingerprint" => relied[v] \cap Matcher # {}

\* The extractor's registry row has been read.
ExtractorTrusted(v) ==
  /\ \E m \in Extractor : relied[v] = {m}
  /\ Trusted(v)
  /\ pad[v] = None => ModalityOf[v] = "fingerprint"

Undecided(v) ==
  pc[v] \in {"idle", "consumed", "located", "referenced", "extractorChecked", "comparing"}

\* How far verification v has established what it relies on.
Relies(v) ==
  /\ \A m \in known[v].revoked : registry[m] = "revoked"
  /\ ref[v] # None => templates[ref[v]].status # "none"
  /\ Undecided(v) => outcome[v] = None /\ attempts[v] = None
  /\ pc[v] = "extractorChecked" => ExtractorTrusted(v)
  /\ pc[v] = "comparing" => Rests(v)
  /\ pc[v] = "scored" \/ Approves(outcome[v]) \/ Approves(attempts[v]) => Rests(v) /\ RestsOnMatcher(v)

RegistryInv == \A v \in Verification : Relies(v)

\* The registry only advances and the templates stay.
Steady ==
  /\ TemplatesStay
  /\ \A m \in Model : /\ registry[m] # "absent" => registry'[m] # "absent"
                      /\ registry[m] = "revoked" => registry'[m] = "revoked"

\* What is established stays so while its locals do.
LEMMA RestsKept ==
  ASSUME TypeOK, Steady, NEW v \in Verification, Relies(v),
         known'[v].revoked = known[v].revoked, relied'[v] = relied[v], ref'[v] = ref[v]
  PROVE  /\ \A m \in known'[v].revoked : registry'[m] = "revoked"
         /\ ref'[v] # None => templates'[ref'[v]].status # "none"
         /\ Rests(v) => Rests(v)'
         /\ Trusted(v) => Trusted(v)'
<1>1. /\ known[v].revoked \subseteq Model /\ relied[v] \subseteq Model
      /\ ref[v] # None => ref[v] \in Enrolment
  BY DEF TypeOK, Known
<1>2. \A m \in known'[v].revoked : registry'[m] = "revoked"
  BY <1>1 DEF Relies, Steady
<1>3. ref[v] # None => /\ templates'[ref'[v]].status # "none"
                       /\ templates'[ref'[v]].model = templates[ref[v]].model
  BY <1>1 DEF Relies, Steady, TemplatesStay
<1>4. Trusted(v) => Trusted(v)'
  BY <1>1 DEF Trusted, Steady
<1> QED
  BY <1>2, <1>3, <1>4 DEF Rests

\* A step that is not verification v's.
LEMMA ReliesKept ==
  ASSUME TypeOK, Steady, NEW v \in Verification, Relies(v),
         known'[v].revoked = known[v].revoked, relied'[v] = relied[v], ref'[v] = ref[v],
         pad'[v] = pad[v], outcome'[v] = outcome[v], attempts'[v] = attempts[v],
         pc'[v] = pc[v] \/ pc'[v] = "crashed"
  PROVE  Relies(v)'
<1>1. ExtractorTrusted(v) => ExtractorTrusted(v)'
  BY RestsKept DEF ExtractorTrusted
<1>2. RestsOnMatcher(v) => RestsOnMatcher(v)'
  BY DEF RestsOnMatcher
<1> QED
  BY <1>1, <1>2, RestsKept DEF Relies, Undecided, Approves

\* A statement of verification v that concludes without approving.
LEMMA ReliesRefusing ==
  ASSUME TypeOK, Steady, NEW v \in Verification, Relies(v), known'[v].revoked = known[v].revoked,
         NEW from, NEW to, NEW d, NEW r, Concludes(v, from, to, d, r), d # "approved",
         to \in {"unnamed", "recording"}, Undecided(v) \/ UNCHANGED relied
  PROVE  Relies(v)'
<1>1. /\ pc'[v] = to /\ ref'[v] = ref[v] /\ attempts'[v] = attempts[v]
      /\ outcome'[v] = [decision |-> d, reason |-> r]
  BY DEF Concludes, Decided, TypeOK, Call, Capture
<1>2. ~Approves(outcome'[v])
  BY <1>1 DEF Approves
<1>3. /\ known[v].revoked \subseteq Model
      /\ ref[v] # None => ref[v] \in Enrolment
  BY DEF TypeOK, Known
<1>4. /\ \A m \in known'[v].revoked : registry'[m] = "revoked"
      /\ ref'[v] # None => templates'[ref'[v]].status # "none"
  BY <1>1, <1>3 DEF Relies, Steady, TemplatesStay
<1>5. Approves(attempts'[v]) => Rests(v)' /\ RestsOnMatcher(v)'
  <2>1. CASE Undecided(v)
    BY <1>1, <2>1 DEF Relies, Approves
  <2>2. CASE UNCHANGED relied
    BY <1>1, <2>2, RestsKept DEF Relies, RestsOnMatcher
  <2> QED
    BY <2>1, <2>2
<1> QED
  BY <1>1, <1>2, <1>4, <1>5 DEF Relies, Undecided, Approves

\* The statements of a verification that only move it on.
LEMMA ReliesMoving ==
  ASSUME TypeOK, Steady, NEW v \in Verification, Relies(v), known'[v].revoked = known[v].revoked,
         NEW to, pc'[v] = to, relied'[v] = relied[v], ref'[v] = ref[v],
         outcome'[v] = outcome[v], attempts'[v] \in {attempts[v], outcome[v]},
         to \notin {"extractorChecked", "comparing", "scored"},
         to \in {"consumed", "located", "referenced"} => Undecided(v) /\ attempts'[v] = attempts[v],
         to # "idle"
  PROVE  Relies(v)'
<1>1. Approves(outcome[v]) \/ Approves(attempts[v]) => Rests(v) /\ RestsOnMatcher(v)
  BY DEF Relies
<1>2. Approves(outcome'[v]) \/ Approves(attempts'[v]) => Rests(v)' /\ RestsOnMatcher(v)'
  BY <1>1, RestsKept DEF Approves, RestsOnMatcher
<1> QED
  BY <1>2, RestsKept DEF Relies, Undecided

\* A probe that passes relies on an extractor not revoked before the verification began.
LEMMA ProbeRelies ==
  ASSUME TypeOK, Steady, MatchInv, NEW v \in Verification, Relies(v), UNCHANGED known,
         AnalyseProbe(v) \/ CheckProbe(v)
  PROVE  Relies(v)'
<1>0. /\ v \in Call /\ v \in Capture /\ known[v].revoked \subseteq Model
      /\ pc \in [Call -> Pc] /\ relied \in [Verification -> SUBSET Model]
      /\ pad \in [Capture -> Pad \cup {None}] /\ registry \in [Model -> {"absent", "active", "revoked"}]
      /\ ref[v] # None => ref[v] \in Enrolment
      /\ outcome \in [Verification -> Outcome \cup {None}]
  BY DEF TypeOK, Known, Call, Capture
<1>1. CASE ProviderFails(v, "referenced")
  <2>1. CASE Concludes(v, "referenced", "recording", "review", "SERVICE_UNAVAILABLE")
    <3>1. Undecided(v)
      BY <2>1 DEF Concludes, Undecided
    <3> QED
      BY <2>1, <3>1, ReliesRefusing
  <2>2. CASE Continues(v, "referenced", "failed") /\ UNCHANGED relied
    <3>1. /\ pc'[v] = "failed" /\ relied'[v] = relied[v] /\ ref'[v] = ref[v]
          /\ outcome'[v] = outcome[v] /\ attempts'[v] = attempts[v]
      BY <1>0, <2>2 DEF Continues
    <3> QED
      BY <3>1, ReliesMoving
  <2> QED
    BY <1>1, <2>1, <2>2 DEF ProviderFails
<1>2. ASSUME NEW m \in Extractor, NEW p \in Pad \cup {None}, p = None => ModalityOf[v] = "fingerprint",
             relied' = [relied EXCEPT ![v] = {m}], pad' = [pad EXCEPT ![v] = p],
             registry[m] = "active", Moves(v, "referenced", "extractorChecked"),
             UNCHANGED <<templates, registry, attempts, ref, outcome>>
      PROVE  Relies(v)'
  <2>1. /\ pc[v] = "referenced" /\ pc'[v] = "extractorChecked" /\ relied'[v] = {m} /\ pad'[v] = p
        /\ outcome'[v] = None /\ attempts'[v] = None /\ ref'[v] = ref[v]
    BY <1>0, <1>2 DEF Relies, Undecided
  <2>2. m \in Model /\ m \notin known[v].revoked
    BY <1>2 DEF Relies, Model
  <2>3. Trusted(v)'
    BY <1>2, <2>1, <2>2 DEF Trusted
  <2>4. ExtractorTrusted(v)'
    BY <1>2, <2>1, <2>3 DEF ExtractorTrusted
  <2> QED
    BY <1>2, <2>1, <2>4 DEF Relies, Undecided, Approves
<1>3. ASSUME NEW from \in {"referenced", "extractorChecked"}, NEW r,
             Concludes(v, from, "recording", "review", r)
      PROVE  Relies(v)'
  <2>1. Undecided(v)
    BY <1>3 DEF Concludes, Undecided
  <2> QED
    BY <1>3, <2>1, ReliesRefusing
<1>4. ASSUME PadApproved(v), relied[v] = {templates[ref[v]].model},
             Moves(v, "extractorChecked", "comparing"),
             relied' = [relied EXCEPT ![v] = @ \cup ({pad[v]} \ {None})],
             UNCHANGED <<templates, registry, attempts, ref, outcome>>
      PROVE  Relies(v)'
  <2>1. /\ pc[v] = "extractorChecked" /\ pc'[v] = "comparing"
        /\ relied'[v] = relied[v] \cup ({pad[v]} \ {None})
        /\ outcome'[v] = None /\ attempts'[v] = None /\ ref'[v] = ref[v]
    BY <1>0, <1>4 DEF Relies, Undecided
  <2>2. ref[v] # None
    BY <2>1 DEF MatchInv
  <2>3. ExtractorTrusted(v)
    BY <2>1 DEF Relies
  <2>4. pad[v] # None => pad[v] \in Pad /\ registry[pad[v]] = "active"
    BY <1>4 DEF PadApproved
  <2>5. Trusted(v)'
    <3>1. ASSUME NEW m \in relied'[v] PROVE registry'[m] # "absent" /\ m \notin known'[v].revoked
      <4>1. CASE m \in relied[v]
        BY <1>4, <2>3, <4>1 DEF ExtractorTrusted, Trusted
      <4>2. CASE m = pad[v] /\ pad[v] # None
        BY <1>4, <2>4, <4>2 DEF Relies
      <4> QED
        BY <2>1, <3>1, <4>1, <4>2
    <3> QED
      BY <3>1 DEF Trusted
  <2>6. relied'[v] \cap Extractor = {templates[ref[v]].model}
    <3>1. pad[v] # None => pad[v] \notin Extractor
      BY <2>4, ModelsAreDistinct
    <3> QED
      BY <1>4, <2>1, <2>3, <3>1 DEF ExtractorTrusted
  <2>7. ModalityOf[v] = "face" => relied'[v] \cap Pad # {}
    BY <2>1, <2>3, <2>4 DEF ExtractorTrusted
  <2>8. Rests(v)'
    BY <1>4, <2>1, <2>2, <2>5, <2>6, <2>7 DEF Rests
  <2> QED
    BY <1>4, <2>1, <2>8 DEF Relies, Undecided, Approves
<1>5. CASE AnalyseProbe(v)
  BY <1>1, <1>2, <1>3, <1>5 DEF AnalyseProbe
<1>6. CASE CheckProbe(v)
  BY <1>3, <1>4, <1>6 DEF CheckProbe
<1> QED
  BY <1>5, <1>6

\* A comparison that scores or approves relies on models not revoked before the
\* verification began.
LEMMA CompareRelies ==
  ASSUME TypeOK, Steady, NEW v \in Verification, Relies(v), UNCHANGED known, Compare(v)
  PROVE  Relies(v)'
<1>0. /\ v \in Call /\ v \in Capture /\ known[v].revoked \subseteq Model
      /\ pc \in [Call -> Pc] /\ relied \in [Verification -> SUBSET Model]
      /\ outcome \in [Verification -> Outcome \cup {None}]
      /\ ModalityOf[v] \in {"face", "fingerprint"}
  BY ArgumentsAreTyped DEF TypeOK, Known, Call, Capture, Modality
<1>1. CASE ProviderFails(v, "comparing")
  <2>1. CASE Concludes(v, "comparing", "recording", "review", "SERVICE_UNAVAILABLE")
    <3>1. Undecided(v)
      BY <2>1 DEF Concludes, Undecided
    <3> QED
      BY <2>1, <3>1, ReliesRefusing
  <2>2. CASE Continues(v, "comparing", "failed") /\ UNCHANGED relied
    <3>1. /\ pc'[v] = "failed" /\ relied'[v] = relied[v] /\ ref'[v] = ref[v]
          /\ outcome'[v] = outcome[v] /\ attempts'[v] = attempts[v]
      BY <1>0, <2>2 DEF Continues
    <3> QED
      BY <3>1, ReliesMoving
  <2> QED
    BY <1>1, <2>1, <2>2 DEF ProviderFails
<1>2. ASSUME NEW o, Judge(v, o), o.decision # "approved" PROVE Relies(v)'
  <2>1. Concludes(v, "comparing", "recording", o.decision, o.reason)
    BY <1>2 DEF Judge
  <2>2. Undecided(v)
    BY <2>1 DEF Concludes, Undecided
  <2> QED
    BY <1>2, <2>1, <2>2, ReliesRefusing
<1>3. ASSUME NEW o, Judge(v, o), o.decision = "approved",
             NEW more, more \subseteq Matcher, \A m \in more : registry[m] = "active",
             relied'[v] = relied[v] \cup more, ModalityOf[v] = "fingerprint" => more # {}
      PROVE  Relies(v)'
  <2>1. /\ pc[v] = "comparing" /\ pc'[v] = "scored" /\ attempts'[v] = None /\ ref'[v] = ref[v]
        /\ UNCHANGED <<templates, registry>>
    BY <1>0, <1>3 DEF Judge, Concludes, Relies, Undecided
  <2>2. Rests(v)
    BY <2>1 DEF Relies
  <2>3. Trusted(v)'
    BY <1>0, <1>3, <2>1, <2>2 DEF Rests, Trusted, Relies
  <2>4. relied'[v] \cap Extractor = relied[v] \cap Extractor
    BY <1>3, ModelsAreDistinct
  <2>5. Rests(v)' /\ RestsOnMatcher(v)'
    BY <1>3, <2>1, <2>2, <2>3, <2>4 DEF Rests, RestsOnMatcher
  <2> QED
    BY <2>1, <2>5 DEF Relies, Undecided
<1>4. ASSUME NEW m \in MatcherNamed(v), m # None => registry[m] = "active",
             relied' = [relied EXCEPT ![v] = @ \cup ({m} \ {None})],
             NEW o \in PolicyOutcome, Judge(v, o)
      PROVE  Relies(v)'
  <2>1. PICK more : more = {m} \ {None}
    OBVIOUS
  <2>2. relied'[v] = relied[v] \cup more
    BY <1>0, <1>4, <2>1
  <2>3. more \subseteq Matcher /\ \A n \in more : registry[n] = "active"
    BY <1>4, <2>1 DEF MatcherNamed
  <2>4. ModalityOf[v] = "fingerprint" => more # {}
    <3>1. ModalityOf[v] = "fingerprint" => m \in Matcher /\ m # None
      BY <1>4, NoneIsNoRow DEF MatcherNamed, Model
    <3> QED
      BY <2>1, <3>1
  <2>5. CASE o.decision = "approved"
    BY <1>3, <1>4, <2>2, <2>3, <2>4, <2>5
  <2> QED
    BY <1>2, <1>4, <2>5
<1>5. CASE Concludes(v, "comparing", "recording", "review", "MODEL_NOT_APPROVED")
  <2>1. Undecided(v)
    BY <1>5 DEF Concludes, Undecided
  <2> QED
    BY <1>5, <2>1, ReliesRefusing
<1> QED
  BY <1>1, <1>4, <1>5 DEF Compare

\* Every other statement of a verification.
LEMMA VerifyRelies ==
  ASSUME TypeOK, Steady, MatchInv, NEW v \in Verification, Relies(v), Verify(v),
         (~\E s \in Session : ConsumeForVerification(v, s)) => known'[v].revoked = known[v].revoked
  PROVE  Relies(v)'
<1>0. /\ v \in Call /\ v \notin Enrolment /\ pc \in [Call -> Pc]
      /\ ref \in [Verification -> Enrolment \cup {None}]
      /\ attempts \in [Verification -> Outcome \cup {None}]
  BY CallsAreDistinct DEF Call, Capture, TypeOK
<1>a. CASE known'[v].revoked = known[v].revoked
  <2>1. CASE LocateSubject(v)
    <3>1. CASE Continues(v, "consumed", "located") /\ UNCHANGED relied
      <4>1. /\ pc'[v] = "located" /\ relied'[v] = relied[v] /\ ref'[v] = ref[v]
            /\ outcome'[v] = outcome[v] /\ attempts'[v] = attempts[v] /\ Undecided(v)
        BY <1>0, <3>1 DEF Continues, Undecided
      <4> QED
        BY <1>a, <4>1, ReliesMoving
    <3>2. CASE Concludes(v, "consumed", "unnamed", "rejected", "REFERENCE_NOT_FOUND")
      <4>1. Undecided(v)
        BY <3>2 DEF Concludes, Undecided
      <4> QED
        BY <1>a, <3>2, <4>1, ReliesRefusing
    <3> QED
      BY <2>1, <3>1, <3>2 DEF LocateSubject, Continues
  <2>2. CASE ReadTemplate(v)
    <3>1. ASSUME NEW r, Concludes(v, "located", "recording", "rejected", r) PROVE Relies(v)'
      <4>1. Undecided(v)
        BY <3>1 DEF Concludes, Undecided
      <4> QED
        BY <1>a, <3>1, <4>1, ReliesRefusing
    <3>2. ASSUME NEW e \in Candidates(v), Moves(v, "located", "referenced"),
                 ref' = [ref EXCEPT ![v] = e], UNCHANGED <<templates, attempts, outcome, registry>>
          PROVE  Relies(v)'
      <4>1. /\ pc'[v] = "referenced" /\ ref'[v] = e /\ templates[e].status = "active"
            /\ outcome'[v] = None /\ attempts'[v] = None
        BY <1>0, <3>2 DEF Candidates, Relies, Undecided
      <4> QED
        BY <1>a, <3>2, <4>1 DEF Relies, Undecided, Approves
    <3> QED
      BY <2>2, <3>1, <3>2 DEF ReadTemplate
  <2>3. CASE CheckRisk(v)
    <3>1. CASE Concludes(v, "scored", "recording", "review", "RISK_SIGNAL_REVIEW") /\ UNCHANGED relied
      BY <1>a, <3>1, ReliesRefusing
    <3>2. CASE Continues(v, "scored", "recording") /\ UNCHANGED relied
      <4>1. /\ pc'[v] = "recording" /\ relied'[v] = relied[v] /\ ref'[v] = ref[v]
            /\ outcome'[v] = outcome[v] /\ attempts'[v] = attempts[v]
        BY <1>0, <3>2 DEF Continues
      <4> QED
        BY <1>a, <4>1, ReliesMoving
    <3> QED
      BY <2>3, <3>1, <3>2 DEF CheckRisk
  <2>4. CASE EnsureSubject(v) \/ InsertSubject(v)
    <3>1. /\ pc'[v] \in {"recording", "subjectMissing", "failed"}
          /\ relied'[v] = relied[v] /\ ref'[v] = ref[v]
          /\ outcome'[v] = outcome[v] /\ attempts'[v] = attempts[v]
      BY <1>0, <2>4 DEF EnsureSubject, InsertSubject, AfterSubject
    <3> QED
      BY <1>a, <3>1, ReliesMoving
  <2>5. CASE RecordAudit(v) \/ OpenCase(v) \/ NotifyReview(v) \/ NotifyCompleted(v)
    <3>1. /\ pc'[v] \in {"audited", "caseOpened", "reviewNotified", "done"}
          /\ relied'[v] = relied[v] /\ ref'[v] = ref[v]
          /\ outcome'[v] = outcome[v] /\ attempts'[v] = attempts[v]
      BY <1>0, <2>5 DEF RecordAudit, OpenCase, NotifyReview, NotifyCompleted
    <3> QED
      BY <1>a, <3>1, ReliesMoving
  <2>6. CASE InsertAttempt(v)
    <3>1. /\ pc'[v] = "recorded" /\ relied'[v] = relied[v] /\ ref'[v] = ref[v]
          /\ outcome'[v] = outcome[v] /\ attempts'[v] = outcome[v]
      BY <1>0, <2>6 DEF InsertAttempt
    <3> QED
      BY <1>a, <3>1, ReliesMoving
  <2>7. CASE AnalyseProbe(v) \/ CheckProbe(v)
    <3>1. UNCHANGED known
      BY <2>7 DEF AnalyseProbe, CheckProbe, ProviderFails, Continues, Concludes
    <3> QED
      BY <2>7, <3>1, ProbeRelies
  <2>8. CASE Compare(v)
    <3>1. UNCHANGED known
      BY <2>8 DEF Compare, Judge, ProviderFails, Continues, Concludes
    <3> QED
      BY <2>8, <3>1, CompareRelies
  <2>9. CASE \E s \in Session : ConsumeForVerification(v, s)
    <3>1. /\ pc'[v] \in {"consumed", "failed"} /\ pc[v] = "idle"
          /\ relied'[v] = relied[v] /\ ref'[v] = ref[v]
          /\ outcome'[v] = outcome[v] /\ attempts'[v] = attempts[v]
      BY <1>0, <2>9 DEF ConsumeForVerification, Consume
    <3> QED
      BY <1>a, <3>1, ReliesMoving DEF Undecided
  <2> QED
    BY <2>1, <2>2, <2>3, <2>4, <2>5, <2>6, <2>7, <2>8, <2>9 DEF Verify
<1>b. CASE \E s \in Session : ConsumeForVerification(v, s)
  <2>1. /\ pc'[v] \in {"consumed", "failed"} /\ pc[v] = "idle"
        /\ UNCHANGED <<registry, templates, relied, ref, outcome, attempts>>
        /\ known' = [known EXCEPT ![v] = Snapshot(v)]
    BY <1>0, <1>b DEF ConsumeForVerification, Consume
  <2>2. known'[v].revoked = {m \in Model : registry[m] = "revoked"}
    BY <2>1 DEF TypeOK, Snapshot, Nothing
  <2>3. outcome[v] = None /\ attempts[v] = None
    BY <2>1 DEF Relies, Undecided
  <2> QED
    BY <2>1, <2>2, <2>3 DEF Relies, Undecided, Approves
<1> QED
  BY <1>a, <1>b

\* Every step of the lifecycle keeps RegistryInv.
LEMMA RegistryKept ==
  ASSUME TypeOK, MatchInv, TemplatesInv, RegistryInv, [Next]_vars
  PROVE  RegistryInv'
<1>1. Steady
  BY TemplatesAdvance, RegistryAdvances DEF Steady
<1>2. ASSUME NEW v \in Verification, UNCHANGED matching, pad'[v] = pad[v],
             pc'[v] = pc[v] \/ pc'[v] = "crashed"
      PROVE  Relies(v)'
  <2>1. ASSUME NEW s \in Session, ConsumeForVerification(v, s) PROVE FALSE
    <3>1. pc[v] = "idle" /\ pc'[v] \in {"consumed", "failed"}
      BY <2>1 DEF ConsumeForVerification, Consume, TypeOK, Call, Capture
    <3> QED
      BY <1>2, <3>1
  <2>2. known'[v].revoked = known[v].revoked
    BY <2>1, NotesKept
  <2> QED
    BY <1>1, <1>2, <2>2, ReliesKept DEF RegistryInv
<1>3. ASSUME NEW c \in Call \ Verification, NEW to, pc' = [pc EXCEPT ![c] = to]
      PROVE  \A v \in Verification : pc'[v] = pc[v]
  BY <1>3 DEF TypeOK, Call, Capture
<1>4. Enrolment \cup Withdrawal \cup Retention \cup Deletion \cup Purge \subseteq Call \ Verification
  BY CallsAreDistinct DEF Call, Capture, Sweeper
<1>5. ASSUME NEW v \in Verification PROVE Relies(v)'
  <2>1. ASSUME NEW e \in Enrolment, Enrol(e) PROVE Relies(v)'
    <3>1. e # v /\ v \in Capture
      BY CallsAreDistinct DEF Capture
    <3>2. UNCHANGED pad \/ \E p : pad' = [pad EXCEPT ![e] = p]
      <4>1. CASE EnsureSubject(e) \/ InsertSubject(e)
        BY <4>1, SubjectFrame
      <4>2. CASE \E s \in Session : ConsumeForEnrolment(e, s)
        BY <4>2 DEF ConsumeForEnrolment, Consume
      <4>3. CASE AnalyseReference(e)
        BY <4>3 DEF AnalyseReference
      <4>4. CASE \/ RecordConsent(e) \/ AuditConsent(e) \/ CheckReference(e) \/ StoreTemplate(e)
                 \/ AuditEnrolment(e)
        BY <4>4 DEF RecordConsent, AuditConsent, CheckReference, StoreTemplate, AuditEnrolment
      <4> QED
        BY <2>1, <4>1, <4>2, <4>3, <4>4 DEF Enrol
    <3>3. pad'[v] = pad[v]
      BY <3>1, <3>2 DEF TypeOK
    <3> QED
      BY <1>2, <1>3, <1>4, <2>1, <3>3, EnrolFrame
  <2>2. ASSUME NEW w \in Withdrawal, Withdraw(w) PROVE Relies(v)'
    BY <1>2, <1>3, <1>4, <2>2, WithdrawFrame
  <2>3. ASSUME NEW d \in Deletion, Delete(d) PROVE Relies(v)'
    BY <1>2, <1>3, <1>4, <2>3, DeleteFrame
  <2>4. ASSUME NEW x \in Retention, Retain(x) PROVE Relies(v)'
    BY <1>2, <1>3, <1>4, <2>4, RetainFrame
  <2>5. ASSUME NEW p \in Purge, PurgeExpired(p) PROVE Relies(v)'
    BY <1>2, <1>3, <1>4, <2>5, PurgeFrame
  <2>6. ASSUME NEW o \in Verification, Verify(o) PROVE Relies(v)'
    <3>1. (~\E s \in Session : ConsumeForVerification(v, s)) => known'[v].revoked = known[v].revoked
      BY NotesKept
    <3>2. CASE o = v
      BY <1>1, <2>6, <3>1, <3>2, VerifyRelies DEF RegistryInv
    <3>3. CASE o # v
      <4>1. ASSUME NEW s \in Session, ConsumeForVerification(v, s) PROVE FALSE
        <5>1. pc[v] = "idle" /\ pc'[v] \in {"consumed", "failed"}
          BY <4>1 DEF ConsumeForVerification, Consume, TypeOK, Call, Capture
        <5> QED
          BY <2>6, <3>3, <5>1, VerifyOthers
      <4> QED
        BY <1>1, <2>6, <3>1, <3>3, <4>1, VerifyOthers, ReliesKept DEF RegistryInv
    <3> QED
      BY <3>2, <3>3
  <2>7. ASSUME NEW c \in Mortal, Crash(c) PROVE Relies(v)'
    <3>1. (pc'[v] = pc[v] \/ pc'[v] = "crashed") /\ UNCHANGED <<matching, pad>>
      BY <2>7 DEF Crash, TypeOK, Call, Capture
    <3> QED
      BY <1>2, <3>1
  <2>8. CASE Environment \/ UNCHANGED vars
    BY <1>2, <2>8, EnvironmentFrame DEF vars
  <2> QED
    BY <2>1, <2>2, <2>3, <2>4, <2>5, <2>6, <2>7, <2>8 DEF Next
<1> QED
  BY <1>5 DEF RegistryInv

\* An enrolment inserts its template once, after its analysis.
THEOREM TemplatesInvariant == Spec => []TemplatesInv
<1>1. Init => TemplatesInv
  BY DEF Init, TemplatesInv, NoTemplate
<1>2. TypeInv /\ TemplatesInv /\ [Next]_vars => TemplatesInv'
  BY TemplatesKept DEF TypeInv
<1> QED
  BY <1>1, <1>2, TypesAreInvariant, PTL DEF Spec

\* What a verification has established of the models it relies on stays true of them.
THEOREM RegistryInvariant == Spec => []RegistryInv
<1>1. Init => RegistryInv
  BY DEF Init, RegistryInv, Relies, Undecided, Approves, Nothing, Call, Capture
<1>2. TypeInv /\ MatchInv /\ TemplatesInv /\ RegistryInv /\ [Next]_vars => RegistryInv'
  BY RegistryKept DEF TypeInv
<1> QED
  BY <1>1, <1>2, TypesAreInvariant, MatchInvariant, TemplatesInvariant, PTL DEF Spec

\* verifySubject reads the registry once for each model, between provider calls, while
\* operators register and revoke; no approval rests on a model that was unregistered, or
\* revoked when the call began, or on a template another extractor made.
THEOREM ApprovalsRespectRegistry == Spec => []ApprovalRespectsRegistry
<1>1. RegistryInv => ApprovalRespectsRegistry
  <2>1. ASSUME RegistryInv, NEW v \in Verification, ApprovedAttempt(v)
        PROVE  /\ relied[v] \cap Extractor = {templates[ref[v]].model}
               /\ relied[v] \cap known[v].revoked = {}
               /\ \A m \in relied[v] : registry[m] # "absent"
               /\ ModalityOf[v] = "face" => relied[v] \cap Pad # {}
               /\ ModalityOf[v] = "fingerprint" => relied[v] \cap Matcher # {}
    BY <2>1 DEF RegistryInv, Relies, Rests, RestsOnMatcher, Trusted, Approves, ApprovedAttempt
  <2> QED
    BY <2>1 DEF ApprovalRespectsRegistry
<1> QED
  BY <1>1, RegistryInvariant, PTL


-----------------------------------------------------------------------------
(***************************************************************************)
(* The lifecycle implements the consent ledger.                            *)
(***************************************************************************)

\* Enrolment e has recorded its consent and goes on to its template.
Consented(e) == pc[e] \in {"consented", "consentAudited", "extractorChecked", "analysed"}

Unmatched(v) == pc[v] \in {"idle", "consumed", "located"}

\* A template stands on a receipt, and a verification reads one template.
StandingInv ==
  /\ \A e \in Enrolment : Consented(e) \/ templates[e].status # "none" => consents[e] # "none"
  /\ \A v \in Verification : Unmatched(v) => ref[v] = None

\* What a step of any other call does to a capture call's place in its code.
LEMMA CaptureFrame ==
  ASSUME TypeOK, [Next]_vars, NEW c \in Capture,
         c \in Enrolment => ~Enrol(c), c \in Verification => ~Verify(c)
  PROVE  pc'[c] = pc[c] \/ pc'[c] = "crashed"
<1>0. c \in Call /\ pc \in [Call -> Pc]
  BY DEF TypeOK, Call
<1>1. ASSUME NEW o \in Call \ {c}, NEW to, pc' = [pc EXCEPT ![o] = to] PROVE pc'[c] = pc[c]
  BY <1>0, <1>1
<1>2. Withdrawal \cup Retention \cup Deletion \cup Purge \subseteq Call \ {c}
  BY CallsAreDistinct DEF Call, Capture, Sweeper
<1>3. ASSUME NEW e \in Enrolment, Enrol(e) PROVE pc'[c] = pc[c]
  <2>1. e \in Call \ {c}
    BY <1>3, CallsAreDistinct DEF Call, Capture
  <2> QED
    BY <1>1, <1>3, <2>1, EnrolFrame
<1>4. ASSUME NEW v \in Verification, Verify(v) PROVE pc'[c] = pc[c]
  <2>1. v \in Call \ {c}
    BY <1>4, CallsAreDistinct DEF Call, Capture
  <2> QED
    BY <1>1, <1>4, <2>1, VerifyFrame
<1>5. CASE (\E w \in Withdrawal : Withdraw(w)) \/ (\E x \in Retention : Retain(x))
  BY <1>1, <1>2, <1>5, WithdrawFrame, RetainFrame
<1>6. CASE (\E d \in Deletion : Delete(d)) \/ (\E p \in Purge : PurgeExpired(p))
  BY <1>1, <1>2, <1>6, DeleteFrame, PurgeFrame
<1>7. CASE \E o \in Mortal : Crash(o)
  BY <1>0, <1>7 DEF Crash
<1>8. CASE Environment \/ UNCHANGED vars
  BY <1>8, EnvironmentFrame DEF vars
<1> QED
  BY <1>3, <1>4, <1>5, <1>6, <1>7, <1>8 DEF Next

\* Only verification v's own calls write what it has read and recorded.
LEMMA VerificationFrame ==
  ASSUME TypeOK, [Next]_vars, NEW v \in Verification, ~Verify(v)
  PROVE  ref'[v] = ref[v] /\ attempts'[v] = attempts[v]
<1>1. ASSUME NEW o \in Verification, Verify(o)
      PROVE  ref'[v] = ref[v] /\ attempts'[v] = attempts[v]
  BY <1>1, VerifyOthers
<1>2. CASE UNCHANGED matching
  BY <1>2
<1>3. CASE \E c \in Mortal : Crash(c)
  BY <1>2, <1>3 DEF Crash
<1>4. CASE UNCHANGED vars
  BY <1>2, <1>4 DEF vars
<1> QED
  BY <1>1, <1>2, <1>3, <1>4, EnrolFrame, WithdrawFrame, RetainFrame, DeleteFrame, PurgeFrame,
     EnvironmentFrame
  DEF Next

\* An enrolment comes past its consent only by recording it.
LEMMA EnrolConsents ==
  ASSUME TypeOK, NEW e \in Enrolment, Enrol(e), Consented(e)'
  PROVE  Consented(e) \/ consents'[e] # "none"
<1>0. e \in Call /\ e \in Capture /\ pc \in [Call -> Pc] /\ consents \in [Enrolment -> {"none", "given", "withdrawn"}]
  BY DEF TypeOK, Call, Capture
<1>1. CASE EnsureSubject(e) \/ InsertSubject(e)
  BY <1>0, <1>1 DEF EnsureSubject, InsertSubject, AfterSubject, Consented
<1>2. CASE \E s \in Session : ConsumeForEnrolment(e, s)
  BY <1>0, <1>2 DEF ConsumeForEnrolment, Consume, Consented
<1>3. CASE RecordConsent(e)
  BY <1>0, <1>3 DEF RecordConsent
<1>4. CASE AuditConsent(e) \/ AnalyseReference(e) \/ CheckReference(e)
  BY <1>0, <1>4 DEF AuditConsent, AnalyseReference, CheckReference, Consented
<1>5. CASE StoreTemplate(e) \/ AuditEnrolment(e)
  BY <1>0, <1>5 DEF StoreTemplate, AuditEnrolment, Consented
<1> QED
  BY <1>1, <1>2, <1>3, <1>4, <1>5 DEF Enrol

\* A verification leaves ref alone but in the SELECT that matches it.
LEMMA VerifyMatches ==
  ASSUME TypeOK, NEW v \in Verification, Verify(v)
  PROVE  /\ UNCHANGED ref \/ ReadTemplate(v)
         /\ UNCHANGED attempts \/ InsertAttempt(v)
         /\ Unmatched(v)' => Unmatched(v) /\ UNCHANGED ref
<1>0. v \in Call /\ v \in Capture /\ pc \in [Call -> Pc] /\ v \notin Enrolment
  BY CallsAreDistinct DEF TypeOK, Call, Capture
<1>1. CASE \E s \in Session : ConsumeForVerification(v, s)
  BY <1>0, <1>1 DEF ConsumeForVerification, Consume, Unmatched
<1>2. CASE LocateSubject(v)
  BY <1>0, <1>2 DEF LocateSubject, Continues, Concludes, Unmatched
<1>3. CASE ReadTemplate(v)
  BY <1>0, <1>3 DEF ReadTemplate, Concludes, Unmatched
<1>4. CASE AnalyseProbe(v)
  BY <1>0, <1>4 DEF AnalyseProbe, ProviderFails, Continues, Concludes, Unmatched
<1>5. CASE CheckProbe(v)
  BY <1>0, <1>5 DEF CheckProbe, Concludes, Unmatched
<1>6. CASE Compare(v) \/ CheckRisk(v)
  BY <1>0, <1>6 DEF Compare, Judge, CheckRisk, ProviderFails, Continues, Concludes, Unmatched
<1>7. CASE EnsureSubject(v) \/ InsertSubject(v)
  BY <1>0, <1>7 DEF EnsureSubject, InsertSubject, AfterSubject, Unmatched
<1>8. CASE \/ RecordAudit(v) \/ InsertAttempt(v) \/ OpenCase(v) \/ NotifyReview(v)
           \/ NotifyCompleted(v)
  BY <1>0, <1>8 DEF RecordAudit, InsertAttempt, OpenCase, NotifyReview, NotifyCompleted, Unmatched
<1> QED
  BY <1>1, <1>2, <1>3, <1>4, <1>5, <1>6, <1>7, <1>8 DEF Verify

\* Every step of the lifecycle keeps StandingInv.
LEMMA StandingKept ==
  ASSUME TypeOK, ConsentInv, TemplatesInv, StandingInv, [Next]_vars
  PROVE  StandingInv'
<1>1. ASSUME NEW e \in Enrolment, Consented(e)' \/ templates'[e].status # "none"
      PROVE  consents'[e] # "none"
  <2>1. consents[e] # "none" => consents'[e] # "none"
    BY ConsentsAdvance
  <2>2. CASE Consented(e) \/ templates[e].status # "none"
    BY <2>1, <2>2 DEF StandingInv
  <2>3. CASE StoreTemplate(e)
    <3>1. Consented(e)
      BY <2>3 DEF StoreTemplate, Consented
    <3> QED
      BY <2>2, <3>1
  <2>4. CASE templates[e].status = "none" /\ ~StoreTemplate(e)
    <3>1. Consented(e)'
      BY <1>1, <2>4, TemplatesAdvance
    <3>2. CASE Enrol(e)
      BY <2>2, <3>1, <3>2, EnrolConsents
    <3>3. CASE ~Enrol(e)
      <4>1. e \in Capture /\ e \notin Verification
        BY CallsAreDistinct DEF Capture
      <4>2. pc'[e] = pc[e]
        BY <3>1, <3>3, <4>1, CaptureFrame DEF Consented
      <4> QED
        BY <2>2, <3>1, <4>2 DEF Consented
    <3> QED
      BY <3>2, <3>3
  <2> QED
    BY <2>2, <2>3, <2>4
<1>2. ASSUME NEW v \in Verification, Unmatched(v)'
      PROVE  ref'[v] = None
  <2>1. CASE Verify(v)
    BY <1>2, <2>1, VerifyMatches DEF StandingInv
  <2>2. CASE ~Verify(v)
    <3>1. v \in Capture /\ v \notin Enrolment
      BY CallsAreDistinct DEF Capture
    <3>2. pc'[v] = pc[v]
      BY <1>2, <2>2, <3>1, CaptureFrame DEF Unmatched
    <3> QED
      BY <1>2, <2>2, <3>2, VerificationFrame DEF StandingInv, Unmatched
  <2> QED
    BY <2>1, <2>2
<1> QED
  BY <1>1, <1>2 DEF StandingInv

\* A template is never stored without a receipt, and a verification is matched once.
THEOREM StandingInvariant == Spec => []StandingInv
<1>1. Init => StandingInv
  BY DEF Init, StandingInv, Consented, Call, Capture, NoTemplate
<1>2. TypeInv /\ ConsentInv /\ TemplatesInv /\ StandingInv /\ [Next]_vars => StandingInv'
  BY StandingKept DEF TypeInv
<1> QED
  BY <1>1, <1>2, TypesAreInvariant, ConsentInvariant, TemplatesInvariant, PTL DEF Spec


\* A request is completed by CompleteRequest alone.
LEMMA CompletesOnce ==
  ASSUME TypeOK, DeletionInv, [Next]_vars, NEW d \in Deletion, ~CompleteRequest(d)
  PROVE  requests'[d] = "completed" <=> requests[d] = "completed"
<1>1. requests[d] = "completed" => requests'[d] = "completed"
  BY CompletedStays
<1>2. CASE ~Delete(d)
  BY <1>2, DeletionFrame
<1>3. CASE ParkRequest(d)
  BY <1>3 DEF ParkRequest, TypeOK, DeletionInv, Honoured
<1>4. CASE Sweep(d)
  BY <1>4, SweepFrame DEF Sweeper
<1>5. CASE \/ FindSubject(d) \/ CheckHold(d) \/ AuditBlocked(d) \/ WipeTemplates(d)
           \/ WithdrawAll(d) \/ ListEvidence(d) \/ AuditDeletion(d)
  BY <1>5 DEF FindSubject, CheckHold, AuditBlocked, WipeTemplates, WithdrawAll, ListEvidence,
              AuditDeletion
<1> QED
  BY <1>1, <1>2, <1>3, <1>4, <1>5 DEF Delete

\* The ledger sees nothing of a deletion's steps between its first and its last.
LEMMA ErasureKept ==
  ASSUME TypeOK, DeletionInv, [Next]_vars, NEW d \in Deletion, ~FindSubject(d), ~CompleteRequest(d)
  PROVE  Erasures'[d] = Erasures[d] /\ known'[d].given = known[d].given
<1>0. d \in Call /\ d \in Sweeper /\ pc \in [Call -> Pc]
  BY DEF TypeOK, Call, Sweeper
<1>1. known'[d].given = known[d].given
  BY FindingsKept
<1>2. requests'[d] = "completed" <=> requests[d] = "completed"
  BY CompletesOnce
<1>3. pc'[d] = "idle" <=> pc[d] = "idle"
  <2>1. CASE ~Delete(d)
    BY <2>1, DeletionFrame
  <2>2. CASE Sweep(d)
    <3>1. ASSUME NEW x \in Retention, MarkDeleted(d, x) PROVE pc[d] # "idle" /\ pc'[d] # "idle"
      BY <1>0, <3>1 DEF MarkDeleted
    <3>2. CASE EraseObject(d) \/ AuditErasure(d)
      BY <1>0, <3>2 DEF EraseObject, AuditErasure
    <3> QED
      BY <2>2, <3>1, <3>2 DEF Sweep
  <2>3. CASE CheckHold(d) \/ ParkRequest(d) \/ AuditBlocked(d) \/ WipeTemplates(d)
    BY <1>0, <2>3 DEF CheckHold, ParkRequest, AuditBlocked, WipeTemplates
  <2>4. CASE WithdrawAll(d) \/ ListEvidence(d) \/ AuditDeletion(d)
    BY <1>0, <2>4 DEF WithdrawAll, ListEvidence, AuditDeletion
  <2> QED
    BY <2>1, <2>2, <2>3, <2>4 DEF Delete
<1> QED
  BY <1>1, <1>2, <1>3 DEF Erasures

Found == [d \in Deletion |-> known[d].given]

\* A call that is no deletion leaves the erasures of the ledger alone.
LEMMA OthersErase ==
  ASSUME TypeOK, DeletionInv, [Next]_vars,
         \A d \in Deletion : pc'[d] = pc[d] \/ pc'[d] = "crashed"
  PROVE  UNCHANGED <<Erasures, Found>>
<1>1. ASSUME NEW d \in Deletion PROVE ~FindSubject(d) /\ ~CompleteRequest(d)
  BY DEF FindSubject, CompleteRequest, TypeOK, Call, Sweeper
<1>2. \A d \in Deletion : Erasures'[d] = Erasures[d] /\ known'[d].given = known[d].given
  BY <1>1, ErasureKept
<1> QED
  BY <1>2 DEF Erasures, Found

\* Nor does deletion o disturb another.
LEMMA OneErases ==
  ASSUME TypeOK, DeletionInv, [Next]_vars, NEW o \in Deletion, Delete(o)
  PROVE  /\ \A d \in Deletion \ {o} : Erasures'[d] = Erasures[d] /\ known'[d].given = known[d].given
         /\ ~FindSubject(o) /\ ~CompleteRequest(o) => UNCHANGED <<Erasures, Found>>
<1>1. \A d \in Deletion \ {o} : pc'[d] = pc[d]
  BY DeleteFrame DEF TypeOK, Call, Sweeper
<1>2. ASSUME NEW d \in Deletion \ {o} PROVE ~FindSubject(d) /\ ~CompleteRequest(d)
  BY <1>1 DEF FindSubject, CompleteRequest, TypeOK, Call, Sweeper
<1>3. \A d \in Deletion \ {o} : Erasures'[d] = Erasures[d] /\ known'[d].given = known[d].given
  BY <1>2, ErasureKept
<1>4. ASSUME ~FindSubject(o), ~CompleteRequest(o) PROVE UNCHANGED <<Erasures, Found>>
  BY <1>3, <1>4, ErasureKept DEF Erasures, Found
<1> QED
  BY <1>3, <1>4

\* RecordConsent is the ledger's Give, and nothing else an enrolment does is visible.
LEMMA EnrolmentGives ==
  ASSUME TypeOK, ConsentInv, NEW e \in Enrolment, Enrol(e), UNCHANGED <<Erasures, Found>>
  PROVE  [Ledger!Next]_Ledger!vars
<1>1. UNCHANGED <<ref, Results>>
  BY EnrolFrame DEF Results
<1>2. CASE RecordConsent(e)
  <2>1. consents[e] = "none" /\ consents' = [consents EXCEPT ![e] = "given"]
    BY <1>2 DEF RecordConsent, ConsentInv, BeforeConsent
  <2> QED
    BY <1>1, <2>1 DEF Found, Ledger!Next, Ledger!Give
<1>3. CASE UNCHANGED consents
  BY <1>1, <1>3 DEF Found, Ledger!vars
<1>4. UNCHANGED consents \/ RecordConsent(e)
  BY SubjectFrame
  DEF Enrol, ConsumeForEnrolment, AuditConsent, AnalyseReference, CheckReference, StoreTemplate,
      AuditEnrolment
<1> QED
  BY <1>2, <1>3, <1>4

\* Receipts of one subject that stand are withdrawn together.
LEMMA WithdrawsGiven ==
  ASSUME TypeOK, NEW gone \in SUBSET Enrolment,
         \A e, f \in gone : consents[e] = "given" /\ SubjectOf[e] = SubjectOf[f],
         consents' = [e \in Enrolment |-> IF e \in gone THEN "withdrawn" ELSE consents[e]],
         UNCHANGED <<ref, Results, Erasures, Found>>
  PROVE  Ledger!Next
  BY DEF Found, Ledger!Next, Ledger!Withdraw

\* withdrawConsent withdraws its receipt, if that has not been done meanwhile.
LEMMA WithdrawalWithdraws ==
  ASSUME TypeOK, ConsentInv, NEW w \in Withdrawal, Withdraw(w), UNCHANGED <<Erasures, Found>>
  PROVE  [Ledger!Next]_Ledger!vars
<1>1. UNCHANGED <<ref, Results>>
  BY WithdrawFrame DEF Results
<1>2. CASE MarkWithdrawn(w)
  <2>1. /\ ConsentOf[w] \in Enrolment /\ consents[ConsentOf[w]] \in {"given", "withdrawn"}
        /\ consents' = [consents EXCEPT ![ConsentOf[w]] = "withdrawn"]
    BY <1>2, ArgumentsAreTyped DEF MarkWithdrawn, ConsentInv, TypeOK
  <2>2. PICK gone : gone = {e \in {ConsentOf[w]} : consents[e] = "given"}
    OBVIOUS
  <2>3. consents' = [e \in Enrolment |-> IF e \in gone THEN "withdrawn" ELSE consents[e]]
    BY <2>1, <2>2 DEF TypeOK
  <2>4. gone \in SUBSET Enrolment
    BY <2>1, <2>2
  <2> QED
    BY <1>1, <2>2, <2>3, <2>4, WithdrawsGiven
<1>3. CASE UNCHANGED consents
  BY <1>1, <1>3 DEF Found, Ledger!vars
<1>4. UNCHANGED consents \/ MarkWithdrawn(w)
  BY DEF Withdraw, ReadReceipt, RevokeTemplates, AuditWithdrawal, NotifyWithdrawal
<1> QED
  BY <1>2, <1>3, <1>4

\* The SELECT of the template is the match, the INSERT of the attempt the result.
LEMMA VerificationMatches ==
  ASSUME TypeOK, MatchInv, TrailInv, StandingInv,
         NEW v \in Verification, Verify(v), UNCHANGED <<Erasures, Found>>
  PROVE  [Ledger!Next]_Ledger!vars
<1>1. UNCHANGED consents
  BY VerifyFrame
<1>2. CASE ReadTemplate(v) /\ ~UNCHANGED ref
  <2>1. PICK e \in Candidates(v) : /\ consents[e] # "withdrawn" /\ pc[v] = "located"
                                   /\ ref' = [ref EXCEPT ![v] = e] /\ UNCHANGED attempts
    BY <1>2 DEF ReadTemplate, Concludes
  <2>2. /\ e \in Enrolment /\ templates[e].status = "active"
        /\ SubjectOf[e] = SubjectOf[v] /\ ModalityOf[e] = ModalityOf[v]
    BY DEF Candidates
  <2>3. consents[e] = "given"
    BY <2>1, <2>2 DEF StandingInv, TypeOK
  <2>4. ref[v] = None /\ attempts[v] = None
    BY <2>1 DEF StandingInv, Unmatched, TrailInv, Told, Unrecorded
  <2>5. Results[v] = None /\ UNCHANGED Results
    BY <2>1, <2>4 DEF Results
  <2>6. Ledger!Match(v, e)
    BY <1>1, <2>1, <2>2, <2>3, <2>4, <2>5 DEF Found, Ledger!Match
  <2> QED
    BY <2>2, <2>6 DEF Ledger!Next
<1>3. CASE InsertAttempt(v)
  <2>1. /\ pc[v] = "audited" /\ attempts' = [attempts EXCEPT ![v] = outcome[v]] /\ UNCHANGED ref
    BY <1>3 DEF InsertAttempt
  <2>2. attempts[v] = None /\ outcome[v] # None
    BY <2>1 DEF TrailInv, Told, Unrecorded, Concluded
  <2>3. /\ outcome[v].decision \in {"approved", "review", "rejected"}
        /\ outcome[v].decision = "approved" => ref[v] # None
    BY <2>2 DEF TypeOK, Outcome, MatchInv
  <2>4. Results[v] = None /\ Results' = [Results EXCEPT ![v] = outcome[v].decision]
    BY <2>1, <2>2 DEF Results, TypeOK
  <2>5. Ledger!Conclude(v, outcome[v].decision)
    BY <1>1, <2>1, <2>3, <2>4 DEF Found, Ledger!Conclude
  <2> QED
    BY <2>3, <2>5 DEF Ledger!Next
<1>4. CASE UNCHANGED <<ref, attempts>>
  BY <1>1, <1>4 DEF Found, Results, Ledger!vars
<1>5. ReadTemplate(v) => UNCHANGED attempts
  BY DEF ReadTemplate, Concludes
<1> QED
  BY <1>2, <1>3, <1>4, <1>5, VerifyMatches

\* A deletion begins with what it finds and is complete when that is withdrawn.
LEMMA DeletionErases ==
  ASSUME TypeOK, DeletionInv, [Next]_vars, NEW d \in Deletion, Delete(d)
  PROVE  [Ledger!Next]_Ledger!vars
<1>0. d \in Call /\ d \in Sweeper /\ pc \in [Call -> Pc]
  BY DEF TypeOK, Call, Sweeper
<1>1. UNCHANGED <<ref, Results>>
  BY DeleteFrame DEF Results
<1>2. CASE FindSubject(d)
  <2>1. /\ UNCHANGED <<consents, requests>> /\ pc[d] = "idle" /\ pc'[d] # "idle"
        /\ requests[d] = "none"
    BY <1>0, <1>2 DEF FindSubject, DeletionInv, Honoured
  <2>2. Erasures[d] = "none" /\ Erasures'[d] = "begun"
    BY <2>1 DEF Erasures
  <2>3. known'[d].given = {e \in Enrolment : consents[e] # "none" /\ SubjectOf[e] = SubjectOf[d]}
    BY <1>2 DEF FindSubject, TypeOK, Nothing
  <2>4. Erasures' = [Erasures EXCEPT ![d] = "begun"]
    BY <2>2, OneErases DEF Erasures
  <2>5. Found' = [Found EXCEPT ![d] =
                    {e \in Enrolment : consents[e] # "none" /\ SubjectOf[e] = SubjectOf[d]}]
    BY <2>3, OneErases DEF Found
  <2>6. Ledger!Begin(d)
    BY <1>1, <2>1, <2>2, <2>4, <2>5 DEF Found, Ledger!Begin
  <2> QED
    BY <2>6 DEF Ledger!Next
<1>3. CASE CompleteRequest(d)
  <2>1. /\ UNCHANGED <<consents, known>> /\ pc[d] = "sweeping" /\ requests[d] = "none"
        /\ requests'[d] = "completed" /\ \A e \in known[d].given : consents[e] = "withdrawn"
    BY <1>0, <1>3 DEF CompleteRequest, TypeOK, DeletionInv, Honoured, Sweeping
  <2>2. Erasures[d] = "begun" /\ Erasures'[d] = "completed"
    BY <2>1 DEF Erasures
  <2>3. Erasures' = [Erasures EXCEPT ![d] = "completed"]
    BY <2>2, OneErases DEF Erasures
  <2>5. UNCHANGED Found
    BY <2>1 DEF Found
  <2>4. Ledger!Complete(d)
    BY <1>1, <2>1, <2>2, <2>3, <2>5 DEF Found, Ledger!Complete
  <2> QED
    BY <2>4 DEF Ledger!Next
<1>4. CASE ~FindSubject(d) /\ ~CompleteRequest(d)
  <2>1. UNCHANGED <<Erasures, Found>>
    BY <1>4, OneErases
  <2>2. CASE WithdrawAll(d)
    <3>1. PICK gone : gone = {e \in Enrolment : SubjectOf[e] = SubjectOf[d] /\ consents[e] = "given"}
      OBVIOUS
    <3>2. consents' = [e \in Enrolment |-> IF e \in gone THEN "withdrawn" ELSE consents[e]]
      BY <2>2, <3>1 DEF WithdrawAll
    <3> QED
      BY <1>1, <2>1, <3>1, <3>2, WithdrawsGiven
  <2>3. CASE UNCHANGED consents
    BY <1>1, <2>1, <2>3 DEF Found, Ledger!vars
  <2>4. UNCHANGED consents \/ WithdrawAll(d)
    BY <1>0, <1>4, SweepFrame
    DEF Delete, CheckHold, ParkRequest, AuditBlocked, WipeTemplates, ListEvidence, AuditDeletion
  <2> QED
    BY <2>2, <2>3, <2>4
<1> QED
  BY <1>2, <1>3, <1>4

\* Every step of the lifecycle is a step of the ledger or invisible to it.
LEMMA LedgerStep ==
  ASSUME TypeOK, ConsentInv, MatchInv, DeletionInv, TrailInv, StandingInv, [Next]_vars
  PROVE  [Ledger!Next]_Ledger!vars
<1>1. ASSUME NEW c \in Call \ Deletion, NEW to, pc' = [pc EXCEPT ![c] = to]
      PROVE  UNCHANGED <<Erasures, Found>>
  <2>1. \A d \in Deletion : pc'[d] = pc[d]
    BY <1>1 DEF TypeOK, Call, Sweeper
  <2> QED
    BY <2>1, OthersErase
<1>2. Enrolment \cup Verification \cup Withdrawal \cup Retention \cup Purge \subseteq Call \ Deletion
  BY CallsAreDistinct DEF Call, Capture, Sweeper
<1>3. ASSUME UNCHANGED <<consents, ref, attempts, Erasures, Found>> PROVE UNCHANGED Ledger!vars
  BY <1>3 DEF Found, Results, Ledger!vars
<1>4. CASE \E e \in Enrolment : Enrol(e)
  BY <1>1, <1>2, <1>4, EnrolFrame, EnrolmentGives
<1>5. CASE \E v \in Verification : Verify(v)
  BY <1>1, <1>2, <1>5, VerifyFrame, VerificationMatches
<1>6. CASE \E w \in Withdrawal : Withdraw(w)
  BY <1>1, <1>2, <1>6, WithdrawFrame, WithdrawalWithdraws
<1>7. CASE \E d \in Deletion : Delete(d)
  BY <1>7, DeletionErases
<1>8. CASE (\E x \in Retention : Retain(x)) \/ (\E p \in Purge : PurgeExpired(p))
  BY <1>1, <1>2, <1>3, <1>8, RetainFrame, PurgeFrame
<1>9. CASE \E c \in Mortal : Crash(c)
  <2>1. (\A d \in Deletion : pc'[d] = pc[d] \/ pc'[d] = "crashed") /\ UNCHANGED <<consents, ref, attempts>>
    BY <1>9 DEF Crash, TypeOK, Call, Sweeper
  <2> QED
    BY <1>3, <2>1, OthersErase
<1>10. CASE Environment
  <2>1. UNCHANGED <<pc, consents, ref, attempts>>
    BY <1>10, EnvironmentFrame
  <2> QED
    BY <1>3, <2>1, OthersErase
<1>11. CASE UNCHANGED vars
  BY <1>3, <1>11, OthersErase DEF vars
<1> QED
  BY <1>4, <1>5, <1>6, <1>7, <1>8, <1>9, <1>10, <1>11 DEF Next

\* The empty tables are the empty ledger.
LEMMA LedgerInitially == Init => Ledger!Init
  BY DEF Init, Ledger!Init, Results, Erasures, Nothing, Call, Sweeper

\* Whatever statements of enrolments, verifications, withdrawals and deletions interleave,
\* crash or are repeated, subjects and tenants see a ledger of atomic steps: a receipt stands
\* in the instant a verification is matched to it, results are final, and a deletion is
\* reported complete only when all it found is withdrawn for good.
THEOREM ImplementsTheLedger == Spec => ImplementsConsent
<1>1. TypeInv /\ ConsentInv /\ MatchInv /\ DeletionInv /\ TrailInv /\ StandingInv
        /\ [Next]_vars => [Ledger!Next]_Ledger!vars
  BY LedgerStep DEF TypeInv
<1> QED
  BY <1>1, LedgerInitially, TypesAreInvariant, ConsentInvariant, MatchInvariant, DeletionInvariant,
     TrailInvariant, StandingInvariant, PTL
  DEF Spec, ImplementsConsent, Ledger!Spec


\* A step that takes nothing back: what was withdrawn stays withdrawn, a result is final and so
\* is what a verification was matched against, and a completed deletion stays complete.
NothingTakenBack ==
  /\ \A e \in Enrolment : consents[e] = "withdrawn" => consents'[e] = "withdrawn"
  /\ \A v \in Verification :
       /\ Results[v] # None => Results'[v] = Results[v] /\ ref'[v] = ref[v]
       /\ ref[v] # None => ref'[v] = ref[v]
  /\ \A d \in Deletion : Erasures[d] = "completed" => Erasures'[d] = "completed"

\* Nothing that a subject or a tenant was told is taken back by a later statement, whichever
\* call makes it: withdrawals, results, what they were matched against and completed deletions.
THEOREM NothingIsTakenBack == Spec => [][NothingTakenBack]_<<consents, ref, Results, Erasures>>
<1>1. ASSUME TypeOK, [Ledger!Next]_Ledger!vars
      PROVE  NothingTakenBack
  <2>1. /\ DOMAIN consents = Enrolment /\ DOMAIN ref = Verification
        /\ DOMAIN Results = Verification /\ DOMAIN Erasures = Deletion
    BY <1>1 DEF TypeOK, Results, Erasures
  <2>2. CASE UNCHANGED Ledger!vars
    BY <2>2 DEF Ledger!vars, NothingTakenBack
  <2>3. CASE Ledger!Next
    BY <2>1, <2>3
    DEF NothingTakenBack, Ledger!Next, Ledger!Give, Ledger!Withdraw, Ledger!Match,
        Ledger!Conclude, Ledger!Begin, Ledger!Complete
  <2> QED
    BY <1>1, <2>2, <2>3
<1>2. TypeOK /\ [Ledger!Next]_Ledger!vars
        => [NothingTakenBack]_<<consents, ref, Results, Erasures>>
  BY <1>1
<1> QED
  BY <1>2, ImplementsTheLedger, TypeCorrect, PTL DEF ImplementsConsent, Ledger!Spec

=============================================================================
