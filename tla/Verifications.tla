---------------------------- MODULE Verifications ----------------------------
(***************************************************************************)
(* verifySubject / verifyFingerprint.  Everything the decision depends on  *)
(* (session, template with its consent, registry rows, risk signals) is    *)
(* read once, in separate statements around two provider calls, and is     *)
(* used afterwards whatever has changed meanwhile.                         *)
(***************************************************************************)
EXTENDS Enrolments

\* What the tables already say when verification v begins.
Snapshot(v) ==
  [Nothing EXCEPT !.withdrawn = {e \in Enrolment : consents[e] = "withdrawn"},
                  !.completed = {d \in Deletion : requests[d] = "completed"},
                  !.revoked   = {m \in Model : registry[m] = "revoked"},
                  !.risky     = SubjectOf[v] \in signals]

ConsumeForVerification(v, s) ==
  /\ Consume(v, s, "idle", "verification")
  /\ known' = [known EXCEPT ![v] = Snapshot(v)]
  /\ UNCHANGED <<subjects, consents, templates, requests>>
  /\ UNCHANGED <<matching, settings, retained, notices>>

\* The call decides d for reason r and goes on to record it.
Concludes(v, from, to, d, r) ==
  /\ Moves(v, from, to)
  /\ outcome' = [outcome EXCEPT ![v] = Decided(d, r)]
  /\ UNCHANGED <<subjects, consents, templates, requests, known, attempts, cases, ref>>
  /\ UNCHANGED <<settings, retained, notices>>

\* The call goes on with its matching locals untouched.
Continues(v, from, to) ==
  /\ Moves(v, from, to)
  /\ UNCHANGED <<subjects, consents, templates, requests, known>>
  /\ UNCHANGED <<matching, settings, retained, notices>>

LocateSubject(v) ==
  /\ \/ /\ SubjectOf[v] \in subjects
        /\ Continues(v, "consumed", "located")
     \/ /\ SubjectOf[v] \notin subjects
        /\ Concludes(v, "consumed", "unnamed", "rejected", "REFERENCE_NOT_FOUND")
        /\ UNCHANGED relied
  /\ UNCHANGED captures

\* Active templates of the subject and modality.
Candidates(v) == {e \in Enrolment : /\ templates[e].status = "active"
                                    /\ SubjectOf[e] = SubjectOf[v]
                                    /\ ModalityOf[e] = ModalityOf[v]}

\* Mutant: the consent's withdrawn_at is not looked at.
ReadTemplateAlone(v) ==
  /\ \/ /\ Candidates(v) = {}
        /\ Concludes(v, "located", "recording", "rejected", "REFERENCE_NOT_FOUND")
     \/ \E e \in Candidates(v) :
          /\ Moves(v, "located", "referenced")
          /\ ref' = [ref EXCEPT ![v] = e]
          /\ UNCHANGED <<subjects, consents, templates, requests, known>>
          /\ UNCHANGED <<attempts, cases, outcome, settings, retained, notices>>
  /\ UNCHANGED <<relied, captures>>

\* The newest active template joined with its consent receipt, and the two cheap
\* rejections.
ReadTemplate(v) ==
  /\ \/ /\ Candidates(v) = {}
        /\ Concludes(v, "located", "recording", "rejected", "REFERENCE_NOT_FOUND")
     \/ \E e \in Candidates(v) :
          /\ \A f \in Candidates(v) : templates[f].born <= templates[e].born
          /\ \/ /\ consents[e] = "withdrawn"
                /\ Concludes(v, "located", "recording", "rejected", "CONSENT_WITHDRAWN")
             \/ /\ consents[e] # "withdrawn"
                /\ Moves(v, "located", "referenced")
                /\ ref' = [ref EXCEPT ![v] = e]
                /\ UNCHANGED <<subjects, consents, templates, requests, known>>
                /\ UNCHANGED <<attempts, cases, outcome, settings, retained, notices>>
  /\ UNCHANGED <<relied, captures>>

\* The provider is unreachable (review) or fails in a way nobody catches (the call
\* throws, its session spent and nothing recorded).
ProviderFails(v, from) ==
  /\ \/ Concludes(v, from, "recording", "review", "SERVICE_UNAVAILABLE")
     \/ Continues(v, from, "failed")
  /\ UNCHANGED <<relied, captures>>

\* analyseCapture / analyseFingerprint and the registry read for the extractor.
AnalyseProbe(v) ==
  \/ ProviderFails(v, "referenced")
  \/ \E m \in Extractor, p \in Pad \cup {None} :
       /\ p = None => ModalityOf[v] = "fingerprint"
       /\ relied' = [relied EXCEPT ![v] = {m}]
       /\ pad' = [pad EXCEPT ![v] = p]
       /\ IF registry[m] = "active"
          THEN /\ Moves(v, "referenced", "extractorChecked")
               /\ UNCHANGED <<subjects, consents, templates, requests, known>>
               /\ UNCHANGED <<attempts, cases, ref, outcome, settings, retained, notices>>
          ELSE Concludes(v, "referenced", "recording", "review", "MODEL_NOT_APPROVED")
       /\ UNCHANGED <<sessions, held>>

\* Mutant: an analysis without PAD is taken to rely on a PAD model all the same.
CheckProbeNoNull(v) ==
  /\ Moves(v, "extractorChecked", "comparing")
  /\ relied[v] = {templates[ref[v]].model}
  /\ relied' = [relied EXCEPT ![v] = @ \cup {pad[v]}]
  /\ UNCHANGED <<subjects, consents, templates, requests, known>>
  /\ UNCHANGED <<attempts, cases, ref, outcome, captures, settings, retained, notices>>

\* The registry read for the PAD model (if any), then the comparison of the template's
\* model with the analysis's.
CheckProbe(v) ==
  /\ pc[v] = "extractorChecked"
  /\ \/ /\ ~PadApproved(v)
        /\ Concludes(v, "extractorChecked", "recording", "review", "MODEL_NOT_APPROVED")
        /\ UNCHANGED relied
     \/ /\ PadApproved(v)
        /\ relied[v] # {templates[ref[v]].model}
        /\ Concludes(v, "extractorChecked", "recording", "review", "MODEL_VERSION_MISMATCH")
        /\ UNCHANGED relied
     \/ /\ PadApproved(v)
        /\ relied[v] = {templates[ref[v]].model}
        /\ Moves(v, "extractorChecked", "comparing")
        /\ relied' = [relied EXCEPT ![v] = @ \cup ({pad[v]} \ {None})]
        /\ UNCHANGED <<subjects, consents, templates, requests, known>>
        /\ UNCHANGED <<attempts, cases, ref, outcome, settings, retained, notices>>
  /\ UNCHANGED captures

\* decide / decideFingerprint: an approval still has to pass the risk check.
Judge(v, o) == Concludes(v, "comparing", IF o.decision = "approved" THEN "scored"
                                         ELSE "recording", o.decision, o.reason)

\* The matcher a comparison names; compareTemplates names none.
MatcherNamed(v) == IF ModalityOf[v] = "face" THEN {None} ELSE Matcher

\* Mutant: the matcher's registry row is not read.
CompareUnchecked(v) ==
  \E m \in MatcherNamed(v), o \in PolicyOutcome :
    /\ relied' = [relied EXCEPT ![v] = @ \cup ({m} \ {None})]
    /\ Judge(v, o)
    /\ UNCHANGED captures

\* compareTemplates / compareFingerprintTemplates; the matcher the latter names is read
\* from the registry too.
Compare(v) ==
  \/ ProviderFails(v, "comparing")
  \/ /\ \E m \in MatcherNamed(v) :
          \/ /\ m # None
             /\ registry[m] # "active"
             /\ Concludes(v, "comparing", "recording", "review", "MODEL_NOT_APPROVED")
             /\ UNCHANGED relied
          \/ /\ m # None => registry[m] = "active"
             /\ relied' = [relied EXCEPT ![v] = @ \cup ({m} \ {None})]
             /\ \E o \in PolicyOutcome : Judge(v, o)
     /\ UNCHANGED captures

\* Mutant: risk signals are not asked for.
CheckNoRisk(v) ==
  /\ Continues(v, "scored", "recording")
  /\ UNCHANGED <<relied, captures>>

\* shouldRouteToReview: a recent high-severity signal turns an approval into a review.
CheckRisk(v) ==
  /\ \/ /\ SubjectOf[v] \in signals
        /\ Concludes(v, "scored", "recording", "review", "RISK_SIGNAL_REVIEW")
     \/ /\ SubjectOf[v] \notin signals
        /\ Continues(v, "scored", "recording")
  /\ UNCHANGED <<relied, captures>>

\* record(): the audit event, the attempt, then for a review the case and its webhook,
\* then the completion webhook.  (An unknown subject was inserted first.)
RecordAudit(v) ==
  /\ Moves(v, "recording", "audited")
  /\ Audited("verification.completed", v)
  /\ UNCHANGED <<subjects, consents, templates, requests, known, webhooks>>
  /\ UNCHANGED <<matching, captures, settings, retained>>

\* Mutant: the attempt row is inserted first.
InsertAttemptFirst(v) ==
  /\ Moves(v, "recording", "recorded")
  /\ attempts' = [attempts EXCEPT ![v] = outcome[v]]
  /\ UNCHANGED <<subjects, consents, templates, requests, known, cases, ref, relied, outcome>>
  /\ UNCHANGED <<captures, settings, retained, notices>>

InsertAttempt(v) ==
  /\ Moves(v, "audited", "recorded")
  /\ attempts' = [attempts EXCEPT ![v] = outcome[v]]
  /\ UNCHANGED <<subjects, consents, templates, requests, known, cases, ref, relied, outcome>>
  /\ UNCHANGED <<captures, settings, retained, notices>>

HighRisk(o) == o.reason \in {"MODEL_VERSION_MISMATCH", "MODEL_NOT_APPROVED"}

OpenCase(v) ==
  /\ Moves(v, "recorded", "caseOpened")
  /\ outcome[v].decision = "review"
  /\ cases' = [cases EXCEPT ![v] = IF HighRisk(outcome[v]) THEN "dual" ELSE "single"]
  /\ UNCHANGED <<subjects, consents, templates, requests, known, attempts, ref, relied, outcome>>
  /\ UNCHANGED <<captures, settings, retained, notices>>

\* Mutant: the webhook is enqueued before the case is opened.
NotifyReviewFirst(v) ==
  /\ Moves(v, "recorded", "recorded")
  /\ outcome[v].decision = "review"
  /\ Enqueued("verification.review_required", v)
  /\ UNCHANGED <<subjects, consents, templates, requests, known, audit>>
  /\ UNCHANGED <<matching, captures, settings, retained>>

NotifyReview(v) ==
  /\ Moves(v, "caseOpened", "reviewNotified")
  /\ Enqueued("verification.review_required", v)
  /\ UNCHANGED <<subjects, consents, templates, requests, known, audit>>
  /\ UNCHANGED <<matching, captures, settings, retained>>

NotifyCompleted(v) ==
  /\ \/ Moves(v, "recorded", "done") /\ outcome[v].decision # "review"
     \/ Moves(v, "reviewNotified", "done")
  /\ Enqueued("verification.completed", v)
  /\ UNCHANGED <<subjects, consents, templates, requests, known, audit>>
  /\ UNCHANGED <<matching, captures, settings, retained>>

Verify(v) ==
  \/ \E s \in Session : ConsumeForVerification(v, s)
  \/ LocateSubject(v)
  \/ ReadTemplate(v)
  \/ AnalyseProbe(v)
  \/ CheckProbe(v)
  \/ Compare(v)
  \/ CheckRisk(v)
  \/ EnsureSubject(v)
  \/ InsertSubject(v)
  \/ RecordAudit(v)
  \/ InsertAttempt(v)
  \/ OpenCase(v)
  \/ NotifyReview(v)
  \/ NotifyCompleted(v)

=============================================================================
