---------------------------- MODULE SubjectRights ----------------------------
(***************************************************************************)
(* What a data subject can demand, and retained evidence: withdrawConsent, *)
(* deleteSubjectData, EvidenceService (retain, deleteObject, purgeExpired) *)
(* and the legal holds placed by hand (no code in the repository inserts   *)
(* or releases one).                                                       *)
(***************************************************************************)
EXTENDS Enrolments

-----------------------------------------------------------------------------
\* withdrawConsent.

\* The receipt is read; a withdrawal that has been recorded before is a success.
ReadReceipt(w) ==
  LET consent == consents[ConsentOf[w]] IN
  /\ \/ consent = "none"      /\ Moves(w, "idle", "failed")
     \/ consent = "withdrawn" /\ Moves(w, "idle", "done")
     \/ consent = "given"     /\ Moves(w, "idle", "withdrawing")
  /\ UNCHANGED <<subjects, consents, templates, requests, known>>
  /\ UNCHANGED <<matching, captures, settings, retained, notices>>

MarkWithdrawn(w) ==
  /\ Moves(w, "withdrawing", "withdrawn")
  /\ consents' = [consents EXCEPT ![ConsentOf[w]] = "withdrawn"]
  /\ UNCHANGED <<subjects, templates, requests, known>>
  /\ UNCHANGED <<matching, captures, settings, retained, notices>>

\* The active template given under this receipt (not the subject's others).
RevokeTemplates(w) ==
  /\ Moves(w, "withdrawn", "revoked")
  /\ templates' = [templates EXCEPT ![ConsentOf[w]].status =
                     IF @ = "active" THEN "revoked" ELSE @]
  /\ UNCHANGED <<subjects, consents, requests, known>>
  /\ UNCHANGED <<matching, captures, settings, retained, notices>>

AuditWithdrawal(w) ==
  /\ Moves(w, "revoked", "audited")
  /\ Audited("consent.withdrawn", ConsentOf[w])
  /\ UNCHANGED <<subjects, consents, templates, requests, known, webhooks>>
  /\ UNCHANGED <<matching, captures, settings, retained>>

NotifyWithdrawal(w) ==
  /\ Moves(w, "audited", "done")
  /\ Enqueued("consent.withdrawn", ConsentOf[w])
  /\ UNCHANGED <<subjects, consents, templates, requests, known, audit>>
  /\ UNCHANGED <<matching, captures, settings, retained>>

Withdraw(w) ==
  \/ ReadReceipt(w)
  \/ MarkWithdrawn(w)
  \/ RevokeTemplates(w)
  \/ AuditWithdrawal(w)
  \/ NotifyWithdrawal(w)

-----------------------------------------------------------------------------
\* EvidenceService.

LiveOf(s) == {x \in Retention : evidence[x] = "live" /\ SubjectOf[x] = s}

\* retain: the encrypted object is stored before its row exists.
PutObject(x) ==
  /\ SubjectOf[x] \in subjects
  /\ Moves(x, "idle", "put")
  /\ storage' = storage \cup {x}
  /\ UNCHANGED <<subjects, consents, templates, requests, known, evidence, todo, erasing>>
  /\ UNCHANGED <<matching, captures, settings, notices>>

\* Mutant: the row is inserted before the object is stored.
InsertEvidenceFirst(x) ==
  /\ Moves(x, "idle", "put")
  /\ evidence' = [evidence EXCEPT ![x] = "live"]
  /\ UNCHANGED <<subjects, consents, templates, requests, known, storage, todo, erasing>>
  /\ UNCHANGED <<matching, captures, settings, notices>>

InsertEvidence(x) ==
  /\ Moves(x, "put", "inserted")
  /\ evidence' = [evidence EXCEPT ![x] = "live"]
  /\ UNCHANGED <<subjects, consents, templates, requests, known, storage, todo, erasing>>
  /\ UNCHANGED <<matching, captures, settings, notices>>

AuditRetention(x) ==
  /\ Moves(x, "inserted", "done")
  /\ Audited("evidence.retained", x)
  /\ UNCHANGED <<subjects, consents, templates, requests, known, webhooks>>
  /\ UNCHANGED <<matching, captures, settings, retained>>

\* deleteObject for one listed row: the UPDATE finds it live and marks it, or finds
\* that another sweep has, and goes on to the next row.
MarkDeleted(c, x) ==
  /\ x \in todo[c]
  /\ todo' = [todo EXCEPT ![c] = @ \ {x}]
  /\ \/ /\ evidence[x] = "live"
        /\ Moves(c, "sweeping", "marked")
        /\ evidence' = [evidence EXCEPT ![x] = "deleted"]
        /\ erasing' = [erasing EXCEPT ![c] = x]
     \/ /\ evidence[x] # "live"
        /\ Moves(c, "sweeping", "sweeping")
        /\ UNCHANGED <<evidence, erasing>>
  /\ UNCHANGED <<subjects, consents, templates, requests, known, storage>>
  /\ UNCHANGED <<matching, captures, settings, notices>>

EraseObject(c) ==
  /\ Moves(c, "marked", "erased")
  /\ storage' = storage \ {erasing[c]}
  /\ UNCHANGED <<subjects, consents, templates, requests, known, evidence, todo, erasing>>
  /\ UNCHANGED <<matching, captures, settings, notices>>

\* Mutant: the erasure is audited before the object leaves storage.
AuditErasureFirst(c) ==
  /\ Moves(c, "marked", "sweeping")
  /\ Audited("evidence.deleted", erasing[c])
  /\ erasing' = [erasing EXCEPT ![c] = None]
  /\ UNCHANGED <<subjects, consents, templates, requests, known, webhooks, evidence,
                 storage, todo>>
  /\ UNCHANGED <<matching, captures, settings>>

AuditErasure(c) ==
  /\ Moves(c, "erased", "sweeping")
  /\ Audited("evidence.deleted", erasing[c])
  /\ erasing' = [erasing EXCEPT ![c] = None]
  /\ UNCHANGED <<subjects, consents, templates, requests, known, webhooks, evidence,
                 storage, todo>>
  /\ UNCHANGED <<matching, captures, settings>>

Retain(x) == PutObject(x) \/ InsertEvidence(x) \/ AuditRetention(x)

Sweep(c) == \/ \E x \in Retention : MarkDeleted(c, x)
            \/ EraseObject(c)
            \/ AuditErasure(c)

\* purgeExpired: every live row past its expiry, of any subject, held or not.
ListExpired(p) ==
  /\ Moves(p, "idle", "sweeping")
  /\ todo' = [todo EXCEPT ![p] = {x \in overdue : evidence[x] = "live"}]
  /\ UNCHANGED <<subjects, consents, templates, requests, known, evidence, storage, erasing>>
  /\ UNCHANGED <<matching, captures, settings, notices>>

FinishPurge(p) ==
  /\ todo[p] = {}
  /\ Moves(p, "sweeping", "done")
  /\ UNCHANGED <<subjects, consents, templates, requests, known>>
  /\ UNCHANGED <<matching, captures, settings, retained, notices>>

PurgeExpired(p) == ListExpired(p) \/ Sweep(p) \/ FinishPurge(p)

-----------------------------------------------------------------------------
\* deleteSubjectData.

FindSubject(d) ==
  /\ Moves(d, "idle", IF SubjectOf[d] \in subjects THEN "found" ELSE "failed")
  /\ known' = [known EXCEPT ![d] =
       [Nothing EXCEPT !.given  = {e \in Enrolment : /\ consents[e] # "none"
                                                     /\ SubjectOf[e] = SubjectOf[d]},
                       !.kept   = LiveOf(SubjectOf[d]),
                       !.onHold = SubjectOf[d] \in holds]]
  /\ UNCHANGED <<subjects, consents, templates, requests>>
  /\ UNCHANGED <<matching, captures, settings, retained, notices>>

\* Mutant: no legal hold is looked for.
CheckNoHold(d) ==
  /\ Moves(d, "found", "cleared")
  /\ UNCHANGED <<subjects, consents, templates, requests, known>>
  /\ UNCHANGED <<matching, captures, settings, retained, notices>>

CheckHold(d) ==
  /\ Moves(d, "found", IF SubjectOf[d] \in holds THEN "blocked" ELSE "cleared")
  /\ UNCHANGED <<subjects, consents, templates, requests, known>>
  /\ UNCHANGED <<matching, captures, settings, retained, notices>>

ParkRequest(d) ==
  /\ Moves(d, "blocked", "parked")
  /\ requests' = [requests EXCEPT ![d] = "blocked"]
  /\ UNCHANGED <<subjects, consents, templates, known>>
  /\ UNCHANGED <<matching, captures, settings, retained, notices>>

AuditBlocked(d) ==
  /\ Moves(d, "parked", "done")
  /\ Audited("subject.deletion_blocked", d)
  /\ UNCHANGED <<subjects, consents, templates, requests, known, webhooks>>
  /\ UNCHANGED <<matching, captures, settings, retained>>

\* Revokes the subject's active templates and overwrites their ciphertext.
WipeTemplates(d) ==
  /\ Moves(d, "cleared", "wiped")
  /\ templates' = [e \in Enrolment |->
       IF SubjectOf[e] = SubjectOf[d] /\ templates[e].status = "active"
       THEN [templates[e] EXCEPT !.status = "revoked", !.wiped = TRUE]
       ELSE templates[e]]
  /\ UNCHANGED <<subjects, consents, requests, known>>
  /\ UNCHANGED <<matching, captures, settings, retained, notices>>

\* Mutant: only the consents of the templates just revoked are withdrawn.
WithdrawRevoked(d) ==
  /\ Moves(d, "wiped", "unconsented")
  /\ consents' = [e \in Enrolment |->
       IF SubjectOf[e] = SubjectOf[d] /\ templates[e].wiped THEN "withdrawn" ELSE consents[e]]
  /\ UNCHANGED <<subjects, templates, requests, known>>
  /\ UNCHANGED <<matching, captures, settings, retained, notices>>

WithdrawAll(d) ==
  /\ Moves(d, "wiped", "unconsented")
  /\ consents' = [e \in Enrolment |->
       IF SubjectOf[e] = SubjectOf[d] /\ consents[e] = "given" THEN "withdrawn"
       ELSE consents[e]]
  /\ UNCHANGED <<subjects, templates, requests, known>>
  /\ UNCHANGED <<matching, captures, settings, retained, notices>>

ListEvidence(d) ==
  /\ Moves(d, "unconsented", "sweeping")
  /\ todo' = [todo EXCEPT ![d] = LiveOf(SubjectOf[d])]
  /\ UNCHANGED <<subjects, consents, templates, requests, known, evidence, storage, erasing>>
  /\ UNCHANGED <<matching, captures, settings, notices>>

CompleteRequest(d) ==
  /\ todo[d] = {}
  /\ Moves(d, "sweeping", "requested")
  /\ requests' = [requests EXCEPT ![d] = "completed"]
  /\ UNCHANGED <<subjects, consents, templates, known>>
  /\ UNCHANGED <<matching, captures, settings, retained, notices>>

AuditDeletion(d) ==
  /\ Moves(d, "requested", "done")
  /\ Audited("subject.deleted", d)
  /\ UNCHANGED <<subjects, consents, templates, requests, known, webhooks>>
  /\ UNCHANGED <<matching, captures, settings, retained>>

Delete(d) ==
  \/ FindSubject(d)
  \/ CheckHold(d)
  \/ ParkRequest(d)
  \/ AuditBlocked(d)
  \/ WipeTemplates(d)
  \/ WithdrawAll(d)
  \/ ListEvidence(d)
  \/ Sweep(d)
  \/ CompleteRequest(d)
  \/ AuditDeletion(d)

=============================================================================
