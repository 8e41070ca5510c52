------------------------------ MODULE Lifecycle ------------------------------
(***************************************************************************)
(* The biometric lifecycle as a whole: any number of enrolments,           *)
(* verifications, withdrawals, deletions, evidence retentions and purges   *)
(* interleave at statement granularity with the operators' and the         *)
(* tenant's own changes to the model registry, the risk signals and the    *)
(* legal holds.                                                            *)
(***************************************************************************)
EXTENDS Verifications, SubjectRights

\* The admin page's registration of a model: INSERT ... ON CONFLICT DO NOTHING, so a
\* revoked row stays revoked.
ApproveModel(m) ==
  /\ registry[m] = "absent"
  /\ registry' = [registry EXCEPT ![m] = "active"]
  /\ UNCHANGED <<subjects, consents, templates, requests, pc, known, signals, holds, overdue>>
  /\ UNCHANGED <<matching, captures, retained, notices>>

\* The admin page's revocation, and the expiry that models.expiry_alert records.
RevokeModel(m) ==
  /\ registry[m] = "active"
  /\ registry' = [registry EXCEPT ![m] = "revoked"]
  /\ UNCHANGED <<subjects, consents, templates, requests, pc, known, signals, holds, overdue>>
  /\ UNCHANGED <<matching, captures, retained, notices>>

\* recordRiskSignal with high severity (velocity, duplicate capture, the tenant's own).
RaiseSignal(s) ==
  /\ s \in subjects \ signals
  /\ signals' = signals \cup {s}
  /\ UNCHANGED <<subjects, consents, templates, requests, pc, known, registry, holds, overdue>>
  /\ UNCHANGED <<matching, captures, retained, notices>>

\* The last such signal is more than an hour old.
SignalLapses(s) ==
  /\ s \in signals
  /\ signals' = signals \ {s}
  /\ known' = [c \in DOMAIN known |-> IF SubjectOf[c] = s THEN [known[c] EXCEPT !.risky = FALSE]
                                      ELSE known[c]]
  /\ UNCHANGED <<subjects, consents, templates, requests, pc, registry, holds, overdue>>
  /\ UNCHANGED <<matching, captures, retained, notices>>

\* An operator inserts or releases a row of legal_holds.
PlaceHold(s) ==
  /\ s \in subjects \ holds
  /\ holds' = holds \cup {s}
  /\ UNCHANGED <<subjects, consents, templates, requests, pc, known, registry, signals, overdue>>
  /\ UNCHANGED <<matching, captures, retained, notices>>

ReleaseHold(s) ==
  /\ s \in holds
  /\ holds' = holds \ {s}
  /\ known' = [c \in DOMAIN known |-> IF SubjectOf[c] = s THEN [known[c] EXCEPT !.onHold = FALSE]
                                      ELSE known[c]]
  /\ UNCHANGED <<subjects, consents, templates, requests, pc, registry, signals, overdue>>
  /\ UNCHANGED <<matching, captures, retained, notices>>

\* retention_expires_at passes.
EvidenceLapses(x) ==
  /\ evidence[x] = "live" /\ x \notin overdue
  /\ overdue' = overdue \cup {x}
  /\ UNCHANGED <<subjects, consents, templates, requests, pc, known, registry, signals, holds>>
  /\ UNCHANGED <<matching, captures, retained, notices>>

Environment ==
  \/ \E s \in Session : CreateSession(s) \/ SessionLapses(s)
  \/ \E m \in Revocable : ApproveModel(m) \/ RevokeModel(m)
  \/ \E s \in Flaggable : RaiseSignal(s) \/ SignalLapses(s)
  \/ \E s \in Holdable : PlaceHold(s) \/ ReleaseHold(s)
  \/ \E x \in Retention : EvidenceLapses(x)

Next ==
  \/ \E e \in Enrolment : Enrol(e)
  \/ \E v \in Verification : Verify(v)
  \/ \E w \in Withdrawal : Withdraw(w)
  \/ \E d \in Deletion : Delete(d)
  \/ \E x \in Retention : Retain(x)
  \/ \E p \in Purge : PurgeExpired(p)
  \/ \E c \in Mortal : Crash(c)
  \/ Environment

Spec == Init /\ [][Next]_vars

-----------------------------------------------------------------------------
(***************************************************************************)
(* Sessions, consent, models and risk: what an approval means.             *)
(***************************************************************************)

\* The capture call left a result behind: a template or a recorded attempt.
Produced(c) == IF c \in Enrolment THEN templates[c].status # "none" ELSE attempts[c] # None

PurposeOf(c) == IF c \in Enrolment THEN "enrolment" ELSE "verification"

\* A capture session yields at most one result, and only one of the purpose and modality
\* it was issued for: however calls race for the same token, consumeCaptureSession lets
\* no second call spend what a call with a template or an attempt has spent.
SessionSpentOnceAsIssued ==
  \A c \in Capture : Produced(c) =>
    /\ held[c] # None
    /\ SessionPurpose[held[c]] = PurposeOf(c)
    /\ SessionModality[held[c]] = ModalityOf[c]
    /\ \A other \in Capture \ {c} : held[other] # held[c]

ApprovedAttempt(v) == attempts[v] # None /\ attempts[v].decision = "approved"

\* A recorded approval matched a template of the verified subject and modality whose
\* consent had not been withdrawn when the verification began, whichever statement of
\* enrolSubject, withdrawConsent or deleteSubjectData ran in between.
ApprovalRespectsWithdrawal ==
  \A v \in Verification : ApprovedAttempt(v) =>
    /\ ref[v] # None
    /\ SubjectOf[ref[v]] = SubjectOf[v]
    /\ ModalityOf[ref[v]] = ModalityOf[v]
    /\ ref[v] \notin known[v].withdrawn

\* Every model a recorded approval rests on (extractor, PAD, fingerprint matcher) was
\* registered and not yet revoked when the verification began, and the template was
\* made by the extractor that analysed the capture.
ApprovalRespectsRegistry ==
  \A v \in Verification : ApprovedAttempt(v) =>
    /\ relied[v] \cap Extractor = {templates[ref[v]].model}
    /\ relied[v] \cap known[v].revoked = {}
    /\ \A m \in relied[v] : registry[m] # "absent"
    /\ ModalityOf[v] = "face" => relied[v] \cap Pad # {}
    /\ ModalityOf[v] = "fingerprint" => relied[v] \cap Matcher # {}

\* No verification is approved while a high-severity risk signal has stood against its
\* subject from before the call (shouldRouteToReview downgrades it).
ApprovalRespectsRisk ==
  \A v \in Verification : ApprovedAttempt(v) => ~known[v].risky

-----------------------------------------------------------------------------
(***************************************************************************)
(* The trail a verification or a withdrawal leaves.                        *)
(***************************************************************************)

\* An attempt row never exists without its audit event (record() appends the event and
\* stores its hash in the row), whatever crash separates the two.
AttemptIsAudited ==
  \A v \in Verification : attempts[v] # None => <<"verification.completed", v>> \in audit

\* A webhook never tells the tenant of something the tables do not hold: a completed
\* verification has its attempt (and, for a review, its open case with dual control
\* exactly for the model-integrity reasons), and a withdrawal notice its consent.
NotificationsBacked ==
  /\ \A v \in Verification :
       /\ <<"verification.review_required", v>> \in webhooks => cases[v] # "none"
       /\ <<"verification.completed", v>> \in webhooks =>
            /\ attempts[v] # None
            /\ (cases[v] # "none") <=> (attempts[v].decision = "review")
            /\ (cases[v] = "dual") <=>
                 attempts[v].reason \in {"MODEL_VERSION_MISMATCH", "MODEL_NOT_APPROVED"}
  /\ \A e \in Enrolment :
       <<"consent.withdrawn", e>> \in webhooks =>
            consents[e] = "withdrawn" /\ <<"consent.withdrawn", e>> \in audit

-----------------------------------------------------------------------------
(***************************************************************************)
(* Deletion, holds and evidence.                                           *)
(***************************************************************************)

\* A completed deletion leaves nothing usable of what it found: every consent given and
\* every piece of evidence live before it began is withdrawn or deleted, although
\* enrolments, withdrawals and purges ran between its statements.
DeletionSticks ==
  \A d \in Deletion : requests[d] = "completed" =>
    /\ \A e \in known[d].given : consents[e] = "withdrawn"
    /\ \A x \in known[d].kept : evidence[x] = "deleted"

\* A completed deletion blocks matching: no verification that begins after it is approved
\* against a consent the deletion found, not even when an enrolment in flight inserts
\* its template after the deletion has revoked the others.
DeletionBlocksMatching ==
  \A v \in Verification : ApprovedAttempt(v) =>
    \A d \in known[v].completed : ref[v] \notin known[d].given

\* A legal hold that stood when the deletion began and has not been released stops it:
\* nothing is revoked, withdrawn or erased on its behalf.
HoldBlocksDeletion ==
  \A d \in Deletion : known[d].onHold =>
    /\ pc[d] \in {"found", "blocked", "parked", "done", "failed", "crashed"}
    /\ requests[d] # "completed"

\* The audit log says evidence was deleted only once its ciphertext is out of storage,
\* although two sweeps (a deletion and the purge job) may list the same row.
ErasureAuditIsHonest ==
  \A x \in Retention : <<"evidence.deleted", x>> \in audit => x \notin storage

\* docs/PRIVACY_AND_RETENTION.md: "Deletion revokes templates (destroying ciphertext)", so
\* after a completed deletion no revoked template it found still holds its ciphertext.
DeletionDestroysCiphertext ==
  \A d \in Deletion : requests[d] = "completed" =>
    \A e \in known[d].given : templates[e].status = "revoked" => templates[e].wiped

\* A live evidence row always has its stored object, so fetch never reports one missing.
LiveEvidenceHasObject == \A x \in Retention : evidence[x] = "live" => x \in storage

-----------------------------------------------------------------------------
(***************************************************************************)
(* What all this is for: consent as the subject and the tenant see it.     *)
(***************************************************************************)
Results == [v \in Verification |-> IF attempts[v] = None THEN None ELSE attempts[v].decision]

Erasures == [d \in Deletion |-> IF requests[d] = "completed" THEN "completed"
                                ELSE IF pc[d] = "idle" THEN "none" ELSE "begun"]

Ledger == INSTANCE ConsentLedger WITH
  Receipt <- Enrolment, Check <- Verification, Erasure <- Deletion,
  consent <- consents, matched <- ref, result <- Results,
  erasure <- Erasures, found <- [d \in Deletion |-> known[d].given]

\* The statements of all the calls, however they interleave, amount to the ledger's steps:
\* a verification takes effect in the one SELECT that reads the template with its consent,
\* although the row it read may be revoked before the attempt is recorded.
ImplementsConsent == Ledger!Spec

=============================================================================
