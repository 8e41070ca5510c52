------------------------------ MODULE Enrolments ------------------------------
(***************************************************************************)
(* Capture sessions and enrolSubject / enrolFingerprint (the two handlers  *)
(* differ in the registry purpose they check and in PAD being optional).   *)
(***************************************************************************)
EXTENDS Tables

\* createCaptureSession.
CreateSession(s) ==
  /\ sessions[s] = "none"
  /\ sessions' = [sessions EXCEPT ![s] = "pending"]
  /\ UNCHANGED <<subjects, consents, templates, requests, pc, known, held, pad>>
  /\ UNCHANGED <<matching, settings, retained, notices>>

\* expires_at passes.  The retention job relabels such rows later; consuming already
\* refuses them.
SessionLapses(s) ==
  /\ sessions[s] = "pending"
  /\ sessions' = [sessions EXCEPT ![s] = "expired"]
  /\ UNCHANGED <<subjects, consents, templates, requests, pc, known, held, pad>>
  /\ UNCHANGED <<matching, settings, retained, notices>>

\* Mutant: the status is read in a SELECT of its own, so two calls both find "pending".
ConsumeWhateverStatus(c, s, from, purpose) ==
  /\ sessions[s] \in {"pending", "used"}
  /\ sessions' = [sessions EXCEPT ![s] = "used"]
  /\ held' = [held EXCEPT ![c] = s]
  /\ Moves(c, from, IF /\ SessionPurpose[s] = purpose
                       /\ SessionModality[s] = ModalityOf[c]
                    THEN "consumed" ELSE "failed")
  /\ UNCHANGED pad

\* consumeCaptureSession: one UPDATE finds the pending session and marks it used; what
\* the session was issued for is compared afterwards, so a mismatch has spent it.
Consume(c, s, from, purpose) ==
  \/ /\ sessions[s] # "pending"
     /\ Moves(c, from, "failed")
     /\ UNCHANGED captures
  \/ /\ sessions[s] = "pending"
     /\ sessions' = [sessions EXCEPT ![s] = "used"]
     /\ held' = [held EXCEPT ![c] = s]
     /\ Moves(c, from, IF /\ SessionPurpose[s] = purpose
                          /\ SessionModality[s] = ModalityOf[c]
                       THEN "consumed" ELSE "failed")
     /\ UNCHANGED pad

ConsumeForEnrolment(e, s) ==
  /\ Consume(e, s, "ready", "enrolment")
  /\ UNCHANGED <<subjects, consents, templates, requests, known>>
  /\ UNCHANGED <<matching, settings, retained, notices>>

\* recordConsent: the receipt, then its audit event.
RecordConsent(e) ==
  /\ Moves(e, "consumed", "consented")
  /\ consents' = [consents EXCEPT ![e] = "given"]
  /\ UNCHANGED <<subjects, templates, requests, known>>
  /\ UNCHANGED <<matching, captures, settings, retained, notices>>

AuditConsent(e) ==
  /\ Moves(e, "consented", "consentAudited")
  /\ Audited("consent.recorded", e)
  /\ UNCHANGED <<subjects, consents, templates, requests, known, webhooks>>
  /\ UNCHANGED <<matching, captures, settings, retained>>

\* analyseCapture / analyseFingerprint answers with the extractor and the PAD model it
\* used (a fingerprint provider may report no PAD); then the extractor's registry read.
AnalyseReference(e) ==
  \E m \in Extractor, p \in Pad \cup {None} :
    /\ p = None => ModalityOf[e] = "fingerprint"
    /\ Moves(e, "consentAudited",
                IF registry[m] = "active" THEN "extractorChecked" ELSE "failed")
    /\ pad' = [pad EXCEPT ![e] = p]
    /\ UNCHANGED <<subjects, consents, templates, requests, known, sessions, held>>
    /\ UNCHANGED <<matching, settings, retained, notices>>

\* Mutant: the PAD model's registry row is not read.
PadAssumed(c) == c \in Capture

\* assertModelApproved for the PAD model, skipped when the provider reported none.
PadApproved(c) == pad[c] \in {None} \cup {m \in Pad : registry[m] = "active"}

\* The PAD model's registry read, then the quality and liveness thresholds, which the
\* capture may miss.
CheckReference(e) ==
  /\ \/ /\ PadApproved(e)
        /\ Moves(e, "extractorChecked", "analysed")
     \/ Moves(e, "extractorChecked", "failed")
  /\ UNCHANGED <<subjects, consents, templates, requests, known>>
  /\ UNCHANGED <<matching, captures, settings, retained, notices>>

Inserted == {e \in Enrolment : templates[e].status # "none"}

\* createTemplate, then the insert.  The template carries the model that createTemplate
\* reports, which no registry read covers; an earlier template of the subject stays
\* active and the newest wins (created_at).
StoreTemplate(e) ==
  \E m \in Extractor :
    /\ Moves(e, "analysed", "stored")
    /\ templates' = [templates EXCEPT ![e] =
                       [status |-> "active", wiped |-> FALSE, model |-> m,
                        born |-> Cardinality(Inserted) + 1]]
    /\ UNCHANGED <<subjects, consents, requests, known>>
    /\ UNCHANGED <<matching, captures, settings, retained, notices>>

AuditEnrolment(e) ==
  /\ Moves(e, "stored", "done")
  /\ Audited("subject.enrolled", e)
  /\ UNCHANGED <<subjects, consents, templates, requests, known, webhooks>>
  /\ UNCHANGED <<matching, captures, settings, retained>>

Enrol(e) ==
  \/ EnsureSubject(e)
  \/ InsertSubject(e)
  \/ \E s \in Session : ConsumeForEnrolment(e, s)
  \/ RecordConsent(e)
  \/ AuditConsent(e)
  \/ AnalyseReference(e)
  \/ CheckReference(e)
  \/ StoreTemplate(e)
  \/ AuditEnrolment(e)

=============================================================================
