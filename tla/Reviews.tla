------------------------------- MODULE Reviews -------------------------------
(***************************************************************************)
(* Human review: decideReviewCase (behind the review route),               *)
(* decideReviewCaseDual, and escalateLivenessException.  Each reads the    *)
(* case, then updates it by id whatever has happened to it since, then     *)
(* audits and notifies: one action per statement.  A case is named by its  *)
(* verification attempt (review_cases.verification_attempt_id is UNIQUE).  *)
(* A call may stop after any statement (crash).                            *)
(***************************************************************************)
EXTENDS Naturals

CONSTANTS
  Standard,    \* attempts decided "review" for a standard-risk reason
  HighRisk,    \* attempts decided "review" for a model-integrity reason
  Liveness,    \* attempts rejected with LIVENESS_FAILED: no case of their own
  Reviewer,
  Single,      \* calls to decideReviewCase
  Dual,        \* calls to decideReviewCaseDual
  Escalation,  \* calls to escalateLivenessException
  TargetOf,    \* the attempt each call is about
  ReviewerOf,  \* who makes each call
  VerdictOf,   \* the outcome each decision asks for
  None         \* SQL NULL

Attempt  == Standard \cup HighRisk \cup Liveness
Decision == Single \cup Dual
Call     == Decision \cup Escalation
Verdict  == {"approved", "rejected"}

ASSUME KindsAreDistinct ==
  /\ Standard \cap (HighRisk \cup Liveness) = {} /\ HighRisk \cap Liveness = {}
  /\ Single \cap (Dual \cup Escalation) = {} /\ Dual \cap Escalation = {}
  /\ None \notin Reviewer

ASSUME ReviewArguments ==
  /\ TargetOf \in [Call -> Attempt]
  /\ ReviewerOf \in [Call -> Reviewer]
  /\ VerdictOf \in [Decision -> Verdict]

VARIABLES
  cases,      \* review_cases: status ("none" before the insert), dual, first, decider
  exception,  \* org_settings.allow_liveness_exception
  pc,         \* where each call is
  seen,       \* the case row a decision read
  audit,      \* audit events as <<action, call>>
  webhooks,   \* verification.completed events of human decisions, by call
  intents,    \* history: <<attempt, reviewer>> for every first approval recorded
  barred      \* history: escalations begun with the exception off, and off ever since

vars == <<cases, exception, pc, seen, audit, webhooks, intents, barred>>

Case == [status : {"none", "open"} \cup Verdict, dual : BOOLEAN,
         first : Reviewer \cup {None}, decider : Reviewer \cup {None}]

NewCase(status, dual) ==
  [status |-> status, dual |-> dual, first |-> None, decider |-> None]

NoCase == NewCase("none", FALSE)

Pc == {"idle", "intending", "intended", "refusing", "deciding", "decided", "audited",
       "permitted", "eligible", "free", "disallowed", "opened", "done", "failed"}

AuditAction == {"review.first_approval", "review.self_confirmation_refused", "review.decided",
                "review.liveness_exception_refused", "review.liveness_exception_opened"}

TypeOK ==
  /\ cases \in [Attempt -> Case]
  /\ exception \in BOOLEAN
  /\ pc \in [Call -> Pc]
  /\ seen \in [Decision -> Case]
  /\ audit \subseteq AuditAction \X Call
  /\ webhooks \subseteq Decision
  /\ intents \subseteq Attempt \X Reviewer
  /\ barred \subseteq Escalation

Init ==
  /\ cases = [a \in Attempt |-> IF a \in Liveness THEN NoCase
                                ELSE NewCase("open", a \in HighRisk)]
  /\ exception = FALSE
  /\ pc = [c \in Call |-> "idle"]
  /\ seen = [c \in Decision |-> NoCase]
  /\ audit = {} /\ webhooks = {} /\ intents = {} /\ barred = {}

Moves(c, from, to) ==
  /\ pc[c] = from
  /\ pc' = [pc EXCEPT ![c] = to]

Audited(action, c) == audit' = audit \cup {<<action, c>>}

-----------------------------------------------------------------------------
\* Mutant: the second approval is not compared with the first approver.
RouteAnySecond(c, row) ==
  IF row.status # "open" THEN "failed"
  ELSE IF row.dual /\ row.first = None THEN "intending"
  ELSE "deciding"

\* Where a decision goes on after reading row: decideReviewCase never looks at
\* requires_dual_control.
Route(c, row) ==
  IF row.status # "open" THEN "failed"
  ELSE IF c \in Single \/ ~row.dual THEN "deciding"
  ELSE IF row.first = None THEN "intending"
  ELSE IF row.first = ReviewerOf[c] THEN "refusing"
  ELSE "deciding"

ReadCase(c) ==
  /\ Moves(c, "idle", Route(c, cases[TargetOf[c]]))
  /\ seen' = [seen EXCEPT ![c] = cases[TargetOf[c]]]
  /\ UNCHANGED <<cases, exception, audit, webhooks, intents, barred>>

\* Mutant: the intent is stored as a status of the case.
RecordIntentAsStatus(c) ==
  /\ Moves(c, "intending", "intended")
  /\ cases' = [cases EXCEPT ![TargetOf[c]].status = "awaiting_second_approval"]
  /\ UNCHANGED <<exception, seen, audit, webhooks, intents, barred>>

\* The first reviewer of a dual-control case records an intent.
RecordIntent(c) ==
  /\ Moves(c, "intending", "intended")
  /\ cases' = [cases EXCEPT ![TargetOf[c]].first = ReviewerOf[c]]
  /\ intents' = intents \cup {<<TargetOf[c], ReviewerOf[c]>>}
  /\ UNCHANGED <<exception, seen, audit, webhooks, barred>>

AuditIntent(c) ==
  /\ Moves(c, "intended", "done")
  /\ Audited("review.first_approval", c)
  /\ UNCHANGED <<cases, exception, seen, webhooks, intents, barred>>

\* The same reviewer again: refused, and the refusal audited.
RefuseSelf(c) ==
  /\ Moves(c, "refusing", "failed")
  /\ Audited("review.self_confirmation_refused", c)
  /\ UNCHANGED <<cases, exception, seen, webhooks, intents, barred>>

\* The final UPDATE, by id only: it also overwrites a decision made since the read.
Decide(c) ==
  /\ Moves(c, "deciding", "decided")
  /\ cases' = [cases EXCEPT ![TargetOf[c]].status = VerdictOf[c],
                            ![TargetOf[c]].decider = ReviewerOf[c]]
  /\ UNCHANGED <<exception, seen, audit, webhooks, intents, barred>>

\* Mutant: the decision is audited before the case is updated.
AuditDecisionFirst(c) ==
  /\ Moves(c, "deciding", "audited")
  /\ Audited("review.decided", c)
  /\ UNCHANGED <<cases, exception, seen, webhooks, intents, barred>>

AuditDecision(c) ==
  /\ Moves(c, "decided", "audited")
  /\ Audited("review.decided", c)
  /\ UNCHANGED <<cases, exception, seen, webhooks, intents, barred>>

NotifyDecision(c) ==
  /\ Moves(c, "audited", "done")
  /\ webhooks' = webhooks \cup {c}
  /\ UNCHANGED <<cases, exception, seen, audit, intents, barred>>

Review(c) ==
  \/ ReadCase(c)
  \/ RecordIntent(c)
  \/ AuditIntent(c)
  \/ RefuseSelf(c)
  \/ Decide(c)
  \/ AuditDecision(c)
  \/ NotifyDecision(c)

-----------------------------------------------------------------------------
\* escalateLivenessException: the tenant's setting, ...
ReadSetting(x) ==
  /\ Moves(x, "idle", IF exception THEN "permitted" ELSE "disallowed")
  /\ barred' = IF exception THEN barred ELSE barred \cup {x}
  /\ UNCHANGED <<cases, exception, seen, audit, webhooks, intents>>

AuditRefusal(x) ==
  /\ Moves(x, "disallowed", "failed")
  /\ Audited("review.liveness_exception_refused", x)
  /\ UNCHANGED <<cases, exception, seen, webhooks, intents, barred>>

\* ... that the attempt is a rejected LIVENESS_FAILED one, ...
ReadAttempt(x) ==
  /\ Moves(x, "permitted", IF TargetOf[x] \in Liveness THEN "eligible" ELSE "failed")
  /\ UNCHANGED <<cases, exception, seen, audit, webhooks, intents, barred>>

\* ... that it has no case yet, ...
ReadExisting(x) ==
  /\ Moves(x, "eligible", IF cases[TargetOf[x]].status = "none" THEN "free" ELSE "failed")
  /\ UNCHANGED <<cases, exception, seen, audit, webhooks, intents, barred>>

\* Mutant: nothing but the earlier read stands between two escalations.
OpenExceptionAgain(x) ==
  /\ Moves(x, "free", "opened")
  /\ cases' = [cases EXCEPT ![TargetOf[x]] = NewCase("open", TRUE)]
  /\ UNCHANGED <<exception, seen, audit, webhooks, intents, barred>>

\* ... and the insert, which UNIQUE(verification_attempt_id) refuses to a slower rival.
OpenException(x) ==
  /\ \/ /\ cases[TargetOf[x]].status = "none"
        /\ Moves(x, "free", "opened")
        /\ cases' = [cases EXCEPT ![TargetOf[x]] = NewCase("open", TRUE)]
     \/ /\ cases[TargetOf[x]].status # "none"
        /\ Moves(x, "free", "failed")
        /\ UNCHANGED cases
  /\ UNCHANGED <<exception, seen, audit, webhooks, intents, barred>>

AuditException(x) ==
  /\ Moves(x, "opened", "done")
  /\ Audited("review.liveness_exception_opened", x)
  /\ UNCHANGED <<cases, exception, seen, webhooks, intents, barred>>

Escalate(x) ==
  \/ ReadSetting(x)
  \/ AuditRefusal(x)
  \/ ReadAttempt(x)
  \/ ReadExisting(x)
  \/ OpenException(x)
  \/ AuditException(x)

\* The console's organisation settings form.
SwitchException ==
  /\ exception' = ~exception
  /\ barred' = {}
  /\ UNCHANGED <<cases, pc, seen, audit, webhooks, intents>>

Next ==
  \/ \E c \in Decision : Review(c)
  \/ \E x \in Escalation : Escalate(x)
  \/ SwitchException

Spec == Init /\ [][Next]_vars

-----------------------------------------------------------------------------
\* docs and the review console: high-risk cases need two different reviewers.  A decided
\* dual-control case was decided by a reviewer other than one who had recorded a first
\* approval of it, even when first approvals and decisions overwrite one another.
HighRiskNeedsTwoReviewers ==
  \A a \in Attempt : cases[a].dual /\ cases[a].status \in Verdict =>
    \E r \in Reviewer \ {cases[a].decider} : <<a, r>> \in intents

\* A liveness rejection comes up for review only as a dual-control case, only for a
\* tenant that has the exception enabled at some time during the escalation, and once:
\* of two racing escalations only one opens the case.
LivenessStaysFinal ==
  /\ \A a \in Liveness : cases[a].status # "none" => cases[a].dual
  /\ \A x \in barred : pc[x] \in {"disallowed", "failed"}
  /\ \A x, y \in Escalation :
       /\ x # y /\ TargetOf[x] = TargetOf[y]
       /\ pc[x] \in {"opened", "done"}
       => pc[y] \notin {"opened", "done"}

\* The tenant and the auditors hear of a human decision only after the case holds one:
\* an audited decision has a closed case, and a notified one has been audited.
DecisionsAreBacked ==
  \A c \in Decision :
    /\ <<"review.decided", c>> \in audit => cases[TargetOf[c]].status \in Verdict
    /\ c \in webhooks => <<"review.decided", c>> \in audit

=============================================================================
