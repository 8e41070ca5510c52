------------------------------- MODULE Tables -------------------------------
(***************************************************************************)
(* The part of the platform's PostgreSQL schema that the biometric         *)
(* lifecycle reads and writes, the handlers (API calls and jobs) that run  *)
(* over it, and what every handler shares: its program counter and the     *)
(* subject look-up.                                                        *)
(*                                                                         *)
(* The server runs many handlers at once and no handler opens a database   *)
(* transaction around its statements (only the audit append does), so one  *)
(* action is one SQL statement or one call to a provider or to storage,    *)
(* with the local computation up to the next.  A row's primary key is the  *)
(* call that inserts it: every handler draws randomUUID() for its rows.    *)
(*                                                                         *)
(* A handler may take no further step after any of its statements: its     *)
(* process crashed, or a statement or a provider threw something no code   *)
(* catches.  Nothing is rolled back, so a dead handler and a very slow one *)
(* leave the same tables, and Crash is needed only where a property tells  *)
(* them apart.  Another call with its own id is the retry.                 *)
(***************************************************************************)
EXTENDS Naturals, FiniteSets

CONSTANTS
  Subject,        \* subject references (one project)
  Session,        \* capture sessions
  Enrolment,      \* calls to enrolSubject / enrolFingerprint
  Verification,   \* calls to verifySubject / verifyFingerprint
  Withdrawal,     \* calls to withdrawConsent
  Deletion,       \* calls to deleteSubjectData
  Retention,      \* calls to EvidenceService.retain
  Purge,          \* runs of EvidenceService.purgeExpired
  Extractor,      \* registry rows: embedding / minutiae extraction models
  Pad,            \* registry rows: presentation-attack-detection models
  Matcher,        \* registry rows: fingerprint matcher models
  Approved,       \* registry rows that are active initially
  Revocable,      \* registry rows whose status an operator may change (a bound)
  Flaggable,      \* subjects that risk signals may be raised against (a bound)
  Holdable,       \* subjects that may be put under a legal hold (a bound)
  Mortal,         \* calls whose process may be seen to die (a bound)
  SubjectOf,      \* the subject each call but a purge or a withdrawal is about
  ConsentOf,      \* the consent receipt (its enrolment) a withdrawal names
  ModalityOf,     \* the modality of each enrolment and verification
  SessionPurpose, \* what each session is issued for
  SessionModality,
  None            \* SQL NULL

Modality == {"face", "fingerprint"}
Capture  == Enrolment \cup Verification
Sweeper  == Deletion \cup Purge
Call     == Capture \cup Withdrawal \cup Retention \cup Sweeper
Model    == Extractor \cup Pad \cup Matcher

ASSUME CallsAreDistinct ==
  /\ Enrolment \cap (Verification \cup Withdrawal \cup Retention \cup Sweeper) = {}
  /\ Verification \cap (Withdrawal \cup Retention \cup Sweeper) = {}
  /\ Withdrawal \cap (Retention \cup Sweeper) = {}
  /\ Retention \cap Sweeper = {}
  /\ Deletion \cap Purge = {}

\* At most as many templates as enrolments are ever stored.
ASSUME EnrolmentsAreFinite == IsFiniteSet(Enrolment)

ASSUME NoneIsNoRow == None \notin Session \cup Call \cup Model

ASSUME ModelsAreDistinct ==
  /\ Extractor \cap (Pad \cup Matcher) = {}
  /\ Pad \cap Matcher = {}
  /\ Approved \subseteq Model

ASSUME BoundsAreSubsets ==
  /\ Revocable \subseteq Model /\ Flaggable \subseteq Subject /\ Holdable \subseteq Subject
  /\ Mortal \subseteq Call

ASSUME ArgumentsAreTyped ==
  /\ SubjectOf \in [Capture \cup Retention \cup Deletion -> Subject]
  /\ ConsentOf \in [Withdrawal -> Enrolment]
  /\ ModalityOf \in [Capture -> Modality]
  /\ SessionPurpose \in [Session -> {"enrolment", "verification"}]
  /\ SessionModality \in [Session -> Modality]

VARIABLES
  subjects,        \* rows of subjects
  sessions,        \* capture_sessions.status, "none" before the insert
  consents,        \* consent_receipts: "none", "given" or "withdrawn"
  templates,       \* reference_templates
  registry,        \* model_registry.status, "absent" before the insert
  signals,         \* subjects with a high-severity risk signal in the last hour
  attempts,        \* verification_attempts, None before the insert
  cases,           \* review_cases opened, with requires_dual_control
  evidence,        \* evidence_objects: "none", "live" or "deleted"
  storage,         \* object storage: the evidence whose ciphertext it holds
  holds,           \* subjects under an unreleased legal hold
  requests,        \* subject_requests: "none", "blocked" or "completed"
  audit,           \* audit events as <<action, resource>>
  webhooks         \* webhook events enqueued as <<event, resource>>

VARIABLES
  pc,              \* where each handler is
  held,            \* the session a capture call consumed
  pad,             \* the PAD model its analysis reported, None without PAD
  ref,             \* the template row a verification read
  relied,          \* the models a verification's analysis and match came from
  outcome,         \* the decision a verification is about to record
  todo,            \* evidence rows a sweep still has to delete
  erasing,         \* the evidence row deleteObject is in the middle of
  overdue,         \* evidence past retention_expires_at
  known            \* history: what was already true when a call began

\* The state by who writes it, for the frame of each action.
matching  == <<attempts, cases, ref, relied, outcome>>
captures  == <<sessions, held, pad>>
settings  == <<registry, signals, holds, overdue>>
retained  == <<evidence, storage, todo, erasing>>
notices   == <<audit, webhooks>>
vars == <<subjects, consents, templates, requests, pc, known,
          matching, captures, settings, retained, notices>>

-----------------------------------------------------------------------------
(***************************************************************************)
(* Decisions.  decision.ts applies the thresholds and is modelled apart: a *)
(* comparison may come out any way, with reason "POLICY_DECISION" for all  *)
(* the codes it can give (the record step does not tell them apart).       *)
(***************************************************************************)
Outcome == [decision : {"approved", "review", "rejected"},
            reason : {"POLICY_DECISION", "REFERENCE_NOT_FOUND", "CONSENT_WITHDRAWN",
                      "SERVICE_UNAVAILABLE", "MODEL_NOT_APPROVED",
                      "MODEL_VERSION_MISMATCH", "RISK_SIGNAL_REVIEW"}]

Decided(d, r) == [decision |-> d, reason |-> r]

\* A verification that has not come to a decision has none.
ASSUME NoneIsNoOutcome == None \notin Outcome

PolicyOutcome == {Decided(d, "POLICY_DECISION") : d \in {"approved", "review", "rejected"}}

Template == [status : {"none", "active", "revoked"}, wiped : BOOLEAN,
             model : Extractor \cup {None}, born : Nat]

NoTemplate == [status |-> "none", wiped |-> FALSE, model |-> None, born |-> 0]

Pc == {"idle", "subjectMissing", "ready", "consumed", "consented", "consentAudited",
       "extractorChecked", "analysed", "stored", "located", "referenced", "comparing",
       "scored", "unnamed", "recording", "audited", "recorded", "caseOpened",
       "reviewNotified", "withdrawing", "withdrawn", "revoked", "found", "cleared",
       "blocked", "parked", "wiped", "unconsented", "sweeping", "marked", "erased",
       "requested", "put", "inserted", "done", "failed", "crashed"}

AuditAction == {"consent.recorded", "subject.enrolled", "verification.completed",
                "consent.withdrawn", "evidence.retained", "evidence.deleted",
                "subject.deletion_blocked", "subject.deleted"}

WebhookEvent == {"verification.review_required", "verification.completed",
                 "consent.withdrawn"}

\* Facts noted when a call begins, for the properties: receipts already given and
\* withdrawn, evidence already retained, deletions already completed, registry rows
\* already revoked, a risk signal or a legal hold that has stood ever since.
Known == [given : SUBSET Enrolment, withdrawn : SUBSET Enrolment, kept : SUBSET Retention,
          completed : SUBSET Deletion, revoked : SUBSET Model,
          risky : BOOLEAN, onHold : BOOLEAN]

Nothing == [given |-> {}, withdrawn |-> {}, kept |-> {}, completed |-> {},
            revoked |-> {}, risky |-> FALSE, onHold |-> FALSE]

TypeOK ==
  /\ subjects \subseteq Subject
  /\ sessions \in [Session -> {"none", "pending", "used", "expired"}]
  /\ consents \in [Enrolment -> {"none", "given", "withdrawn"}]
  /\ templates \in [Enrolment -> Template]
  /\ registry \in [Model -> {"absent", "active", "revoked"}]
  /\ signals \subseteq Subject
  /\ attempts \in [Verification -> Outcome \cup {None}]
  /\ cases \in [Verification -> {"none", "single", "dual"}]
  /\ evidence \in [Retention -> {"none", "live", "deleted"}]
  /\ storage \subseteq Retention
  /\ holds \subseteq Subject
  /\ requests \in [Deletion -> {"none", "blocked", "completed"}]
  /\ audit \subseteq AuditAction \X Call
  /\ webhooks \subseteq WebhookEvent \X Call
  /\ pc \in [Call -> Pc]
  /\ held \in [Capture -> Session \cup {None}]
  /\ pad \in [Capture -> Pad \cup {None}]
  /\ ref \in [Verification -> Enrolment \cup {None}]
  /\ relied \in [Verification -> SUBSET Model]
  /\ outcome \in [Verification -> Outcome \cup {None}]
  /\ todo \in [Sweeper -> SUBSET Retention]
  /\ erasing \in [Sweeper -> Retention \cup {None}]
  /\ overdue \subseteq Retention
  /\ known \in [Verification \cup Deletion -> Known]

Init ==
  /\ subjects = {}
  /\ sessions = [s \in Session |-> "none"]
  /\ consents = [e \in Enrolment |-> "none"]
  /\ templates = [e \in Enrolment |-> NoTemplate]
  /\ registry = [m \in Model |-> IF m \in Approved THEN "active" ELSE "absent"]
  /\ signals = {}
  /\ attempts = [v \in Verification |-> None]
  /\ cases = [v \in Verification |-> "none"]
  /\ evidence = [x \in Retention |-> "none"]
  /\ storage = {}
  /\ holds = {}
  /\ requests = [d \in Deletion |-> "none"]
  /\ audit = {}
  /\ webhooks = {}
  /\ pc = [c \in Call |-> "idle"]
  /\ held = [c \in Capture |-> None]
  /\ pad = [c \in Capture |-> None]
  /\ ref = [v \in Verification |-> None]
  /\ relied = [v \in Verification |-> {}]
  /\ outcome = [v \in Verification |-> None]
  /\ todo = [d \in Sweeper |-> {}]
  /\ erasing = [d \in Sweeper |-> None]
  /\ overdue = {}
  /\ known = [c \in Verification \cup Deletion |-> Nothing]

-----------------------------------------------------------------------------
(***************************************************************************)
(* Steps every handler shares.                                             *)
(***************************************************************************)

\* Handler c moves from one point of its code to another.
Moves(c, from, to) ==
  /\ pc[c] = from
  /\ pc' = [pc EXCEPT ![c] = to]

Ended == {"idle", "done", "failed", "crashed"}

\* The process running handler c dies between two of its statements.
Crash(c) ==
  /\ pc[c] \notin Ended
  /\ pc' = [pc EXCEPT ![c] = "crashed"]
  /\ UNCHANGED <<subjects, consents, templates, requests, known>>
  /\ UNCHANGED <<matching, captures, settings, retained, notices>>

\* appendAudit runs in a transaction of its own; the chain is modelled apart.
Audited(action, row) == audit' = audit \cup {<<action, row>>}

\* enqueueWebhook inserts one event (fanned out to the endpoints, modelled apart).
Enqueued(event, row) == webhooks' = webhooks \cup {<<event, row>>}

\* ensureSubject, first half: the read.  An enrolment starts with it; a verification
\* of an unknown subject comes to it when it records its rejection.
AfterSubject(c) == IF c \in Enrolment THEN "ready" ELSE "recording"

EnsureSubject(c) ==
  /\ Moves(c, IF c \in Enrolment THEN "idle" ELSE "unnamed",
              IF SubjectOf[c] \in subjects THEN AfterSubject(c) ELSE "subjectMissing")
  /\ UNCHANGED <<subjects, consents, templates, requests, known>>
  /\ UNCHANGED <<matching, captures, settings, retained, notices>>

\* Second half: the insert.  UNIQUE (project_id, subject_ref) fails the slower of two
\* calls that both found the row missing.
InsertSubject(c) ==
  /\ Moves(c, "subjectMissing",
              IF SubjectOf[c] \in subjects THEN "failed" ELSE AfterSubject(c))
  /\ subjects' = subjects \cup {SubjectOf[c]}
  /\ UNCHANGED <<consents, templates, requests, known>>
  /\ UNCHANGED <<matching, captures, settings, retained, notices>>

=============================================================================
