----------------------------- MODULE ReviewProofs -----------------------------
(***************************************************************************)
(* Human review, for any number of attempts, reviewers and overlapping     *)
(* calls.  What a call does next depends on a case it read a while ago, so *)
(* no property is inductive by itself.  The induction carries what such a  *)
(* call still knows: a case once there stays there, a decided one stays    *)
(* decided, and a first approval once recorded stays on record even when   *)
(* the row's first approver is overwritten.                                *)
(***************************************************************************)
EXTENDS Reviews, TLAPS

Status(c) == cases[TargetOf[c]].status

\* What the calls under way know of their cases, whatever the others did since they read them.
CallsKnow ==
  /\ \A c \in Decision : pc[c] = "deciding" => Status(c) # "none"
  /\ \A c \in Decision : pc[c] = "decided" => Status(c) \in Verdict
  /\ \A c \in Decision : pc[c] = "audited" => <<"review.decided", c>> \in audit
  /\ \A x \in Escalation : pc[x] \in {"eligible", "free"} => TargetOf[x] \in Liveness
  /\ \A x \in Escalation : pc[x] \in {"opened", "done"} => Status(x) # "none"

\* The first approver a case names has recorded an approval of it.
FirstsAreRecorded == \A a \in Attempt : cases[a].first # None => <<a, cases[a].first>> \in intents

\* A standard case asks for one reviewer only.
StandardIsSingle == \A a \in Standard : ~cases[a].dual

ReviewInv ==
  /\ TypeOK
  /\ CallsKnow
  /\ FirstsAreRecorded
  /\ StandardIsSingle
  /\ LivenessStaysFinal
  /\ DecisionsAreBacked

\* decideReviewCase is called for no case that asks for two reviewers (nothing in the code sees
\* to that: the run MCDualControl is about a call that is).
SingleIsStandard == \A c \in Single : TargetOf[c] \in Standard

\* A decision on its way to the final UPDATE of a dual case has another reviewer's approval.
SecondsAreBacked ==
  \A c \in Decision : pc[c] = "deciding" /\ cases[TargetOf[c]].dual =>
    \E r \in Reviewer \ {ReviewerOf[c]} : <<TargetOf[c], r>> \in intents

-----------------------------------------------------------------------------
\* The calls, their attempts and their reviewers, and which calls are of different kinds.
LEMMA CallsTyped ==
  /\ \A c \in Decision : /\ c \in Call /\ TargetOf[c] \in Attempt /\ ReviewerOf[c] \in Reviewer
                         /\ VerdictOf[c] \in Verdict /\ c \notin Escalation
  /\ \A x \in Escalation : x \in Call /\ TargetOf[x] \in Attempt /\ x \notin Decision
  /\ None \notin Reviewer /\ "none" \notin Verdict /\ "open" \notin Verdict
  /\ Standard \cap Liveness = {} /\ Standard \subseteq Attempt /\ Liveness \subseteq Attempt
BY KindsAreDistinct, ReviewArguments DEF Call, Decision, Attempt, Verdict

\* What a fresh case row holds.
LEMMA NewCases ==
  ASSUME NEW status \in {"none", "open"}, NEW dual \in BOOLEAN
  PROVE  /\ NewCase(status, dual) \in Case /\ NewCase(status, dual).status = status
         /\ NewCase(status, dual).dual = dual /\ NewCase(status, dual).first = None
BY DEF NewCase, Case

\* What the UPDATE of a first approval changes, and what it leaves alone.
LEMMA FirstUpdated ==
  ASSUME NEW row \in Case, NEW r \in Reviewer, NEW new, new = [row EXCEPT !.first = r]
  PROVE  /\ new \in Case /\ new.first = r
         /\ new.status = row.status /\ new.dual = row.dual /\ new.decider = row.decider
BY DEF Case

\* An audited event is added to those there are, and nothing else is.
LEMMA EventsAdd ==
  ASSUME TypeOK, NEW action \in AuditAction, NEW c \in Call, audit' = audit \cup {<<action, c>>}
  PROVE  /\ audit' \subseteq AuditAction \X Call /\ audit \subseteq audit' /\ <<action, c>> \in audit'
         /\ \A b, d : <<b, d>> \in audit' /\ <<b, d>> \notin audit => b = action /\ d = c
<1>1. audit' = audit \cup {<<action, c>>}
  OBVIOUS
<1>2. \A b, d : <<b, d>> = <<action, c>> => b = action /\ d = c
  OBVIOUS
<1>3. <<action, c>> \in AuditAction \X Call
  OBVIOUS
<1>4. audit' \subseteq AuditAction \X Call
  BY <1>1, <1>3 DEF TypeOK
<1>5. audit \subseteq audit' /\ <<action, c>> \in audit'
  BY <1>1
<1>6. \A b, d : <<b, d>> \in audit' /\ <<b, d>> \notin audit => <<b, d>> = <<action, c>>
  BY <1>1, Zenon
<1> QED
  BY <1>2, <1>4, <1>5, <1>6

-----------------------------------------------------------------------------
\* A step that touches no case, and moves one decision to where it knows what it must, keeps
\* the invariant.
LEMMA DecisionMoves ==
  ASSUME ReviewInv, NEW c \in Decision, NEW from, NEW to \in Pc, Moves(c, from, to),
         UNCHANGED <<cases, exception, intents, barred>>,
         seen' \in [Decision -> Case], audit' \subseteq AuditAction \X Call, webhooks' \subseteq Decision,
         audit \subseteq audit', webhooks \subseteq webhooks',
         to = "deciding" => Status(c) # "none", to = "decided" => Status(c) \in Verdict,
         to = "audited" => <<"review.decided", c>> \in audit',
         \A d \in Decision : <<"review.decided", d>> \in audit' /\ <<"review.decided", d>> \notin audit => Status(d) \in Verdict,
         \A d \in webhooks' \ webhooks : <<"review.decided", d>> \in audit'
  PROVE  ReviewInv'
<1>1. TypeOK'
  BY CallsTyped DEF ReviewInv, TypeOK, Moves
<1>2. \A d \in Call : pc'[d] = IF d = c THEN to ELSE pc[d]
  BY CallsTyped DEF ReviewInv, TypeOK, Moves
<1>3. \A d \in Call : Status(d)' = Status(d)
  BY DEF Status
<1>4. CallsKnow'
  BY <1>2, <1>3, CallsTyped DEF ReviewInv, CallsKnow
<1>5. FirstsAreRecorded' /\ StandardIsSingle'
  BY DEF ReviewInv, FirstsAreRecorded, StandardIsSingle
<1>6. LivenessStaysFinal'
  BY <1>2, CallsTyped DEF ReviewInv, LivenessStaysFinal, TypeOK
<1>7. DecisionsAreBacked'
  BY DEF ReviewInv, DecisionsAreBacked, Status
<1> QED
  BY <1>1, <1>4, <1>5, <1>6, <1>7 DEF ReviewInv

\* The same of an escalation that does not open a case.
LEMMA EscalationMoves ==
  ASSUME ReviewInv, NEW x \in Escalation, NEW from, NEW to \in Pc \ {"opened"}, Moves(x, from, to),
         UNCHANGED <<cases, exception, intents, seen, webhooks>>,
         audit' \subseteq AuditAction \X Call, audit \subseteq audit',
         \A d \in Decision : <<"review.decided", d>> \in audit' => <<"review.decided", d>> \in audit,
         to \in {"eligible", "free"} => TargetOf[x] \in Liveness, to = "done" => from = "opened",
         barred' \subseteq barred \cup {x},
         x \in barred' => to \in {"disallowed", "failed"}
  PROVE  ReviewInv'
<1>1. TypeOK'
  BY CallsTyped DEF ReviewInv, TypeOK, Moves
<1>2. \A d \in Call : pc'[d] = IF d = x THEN to ELSE pc[d]
  BY CallsTyped DEF ReviewInv, TypeOK, Moves
<1>3. \A d \in Call : Status(d)' = Status(d)
  BY DEF Status
<1>4. CallsKnow'
  BY <1>2, <1>3, CallsTyped DEF ReviewInv, CallsKnow, Moves
<1>5. FirstsAreRecorded' /\ StandardIsSingle'
  BY DEF ReviewInv, FirstsAreRecorded, StandardIsSingle
<1>6. LivenessStaysFinal'
  <2>1. \A a \in Liveness : cases'[a].status # "none" => cases'[a].dual
    BY DEF ReviewInv, LivenessStaysFinal
  <2>2. \A y \in barred' : pc'[y] \in {"disallowed", "failed"}
    BY <1>1, <1>2, CallsTyped DEF ReviewInv, LivenessStaysFinal, TypeOK
  <2>3. \A y \in Escalation : pc'[y] \in {"opened", "done"} => pc[y] \in {"opened", "done"}
    BY <1>2, CallsTyped DEF Moves
  <2> QED
    BY <2>1, <2>2, <2>3 DEF ReviewInv, LivenessStaysFinal
<1>7. DecisionsAreBacked'
  BY DEF ReviewInv, DecisionsAreBacked
<1> QED
  BY <1>1, <1>4, <1>5, <1>6, <1>7 DEF ReviewInv

-----------------------------------------------------------------------------
\* Every statement of a decision keeps the invariant.
LEMMA ReviewKeeps ==
  ASSUME ReviewInv, NEW c \in Decision, Review(c)
  PROVE  ReviewInv'
<1>0. TypeOK /\ CallsKnow /\ c \in Call /\ TargetOf[c] \in Attempt
  BY CallsTyped DEF ReviewInv
<1>1. CASE ReadCase(c)
  <2>1. PICK row : row = cases[TargetOf[c]]
    OBVIOUS
  <2>2. row \in Case /\ seen' \in [Decision -> Case]
    BY <1>0, <1>1, <2>1 DEF TypeOK, ReadCase
  <2>3. Route(c, row) \in {"failed", "intending", "refusing", "deciding"}
          /\ (Route(c, row) = "deciding" => row.status = "open")
    BY DEF Route
  <2>4. Route(c, row) \in Pc
    BY <2>3 DEF Pc
  <2>5. Moves(c, "idle", Route(c, row)) /\ UNCHANGED <<cases, exception, audit, webhooks, intents, barred>>
    BY <1>1, <2>1 DEF ReadCase
  <2> QED
    BY <1>0, <2>1, <2>2, <2>3, <2>4, <2>5, DecisionMoves DEF TypeOK, Status
<1>2. CASE RecordIntent(c)
  <2>1. PICK row, a : row = cases[TargetOf[c]] /\ a = TargetOf[c]
    OBVIOUS
  <2>2. row \in Case /\ a \in Attempt /\ ReviewerOf[c] \in Reviewer
    BY <1>0, <2>1, CallsTyped DEF TypeOK
  <2>3a. PICK new : new = [row EXCEPT !.first = ReviewerOf[c]]
    OBVIOUS
  <2>3. new \in Case /\ new.status = row.status /\ new.dual = row.dual /\ new.first = ReviewerOf[c]
    BY <2>2, <2>3a, FirstUpdated
  <2>4. cases' = [cases EXCEPT ![a] = new]
    BY <1>2, <2>1, <2>3a DEF RecordIntent
  <2>5. \A b \in Attempt : /\ cases'[b] = IF b = a THEN new ELSE cases[b]
                           /\ cases'[b].status = cases[b].status /\ cases'[b].dual = cases[b].dual
    BY <1>0, <2>1, <2>2, <2>3, <2>4 DEF TypeOK
  <2>6. \A d \in Call : pc'[d] = IF d = c THEN "intended" ELSE pc[d]
    BY <1>0, <1>2 DEF TypeOK, RecordIntent, Moves
  <2>7. \A d \in Call : Status(d)' = Status(d)
    BY <2>5, ReviewArguments DEF Status
  <2>8. intents' = intents \cup {<<a, ReviewerOf[c]>>}
    BY <1>2, <2>1 DEF RecordIntent
  <2>9. TypeOK'
    <3>1. cases' \in [Attempt -> Case] /\ pc' \in [Call -> Pc]
      BY <1>0, <1>2, <2>2, <2>3, <2>4 DEF TypeOK, RecordIntent, Moves, Pc
    <3>2. intents' \subseteq Attempt \X Reviewer
      BY <1>0, <2>2, <2>8 DEF TypeOK
    <3> QED
      BY <1>0, <1>2, <3>1, <3>2 DEF TypeOK, RecordIntent
  <2>10. CallsKnow'
    BY <1>0, <1>2, <2>6, <2>7, CallsTyped DEF CallsKnow, RecordIntent
  <2>11. FirstsAreRecorded'
    BY <2>3, <2>5, <2>8 DEF ReviewInv, FirstsAreRecorded
  <2>12. StandardIsSingle'
    BY <2>5, CallsTyped DEF ReviewInv, StandardIsSingle
  <2>13. LivenessStaysFinal'
    BY <1>0, <1>2, <2>5, <2>6, CallsTyped DEF ReviewInv, LivenessStaysFinal, RecordIntent, TypeOK
  <2>14. DecisionsAreBacked'
    BY <1>2, <2>7, CallsTyped DEF ReviewInv, DecisionsAreBacked, RecordIntent, Status
  <2> QED
    BY <2>9, <2>10, <2>11, <2>12, <2>13, <2>14 DEF ReviewInv
<1>3. CASE AuditIntent(c)
  <2>1. audit' = audit \cup {<<"review.first_approval", c>>} /\ "review.first_approval" # "review.decided"
    BY <1>3 DEF AuditIntent, Audited
  <2>a. "review.first_approval" \in AuditAction
    BY DEF AuditAction
  <2>b. /\ audit' \subseteq AuditAction \X Call /\ audit \subseteq audit' /\ <<"review.first_approval", c>> \in audit'
        /\ \A b, d : <<b, d>> \in audit' /\ <<b, d>> \notin audit => b = "review.first_approval" /\ d = c
    BY <1>0, <2>1, <2>a, EventsAdd, Zenon
  <2>2. /\ audit' \subseteq AuditAction \X Call /\ audit \subseteq audit'
        /\ \A d \in Decision : <<"review.decided", d>> \in audit' => <<"review.decided", d>> \in audit
    BY <2>1, <2>b
  <2>3. seen' \in [Decision -> Case] /\ webhooks' \subseteq Decision /\ "done" \in Pc
    BY <1>0, <1>3 DEF TypeOK, AuditIntent, Pc
  <2>4. Moves(c, "intended", "done") /\ UNCHANGED <<cases, exception, seen, webhooks, intents, barred>>
    BY <1>3 DEF AuditIntent
  <2> QED
    BY <2>2, <2>3, <2>4, DecisionMoves
<1>4. CASE RefuseSelf(c)
  <2>1. audit' = audit \cup {<<"review.self_confirmation_refused", c>>} /\ "review.self_confirmation_refused" # "review.decided"
    BY <1>4 DEF RefuseSelf, Audited
  <2>a. "review.self_confirmation_refused" \in AuditAction
    BY DEF AuditAction
  <2>b. /\ audit' \subseteq AuditAction \X Call /\ audit \subseteq audit' /\ <<"review.self_confirmation_refused", c>> \in audit'
        /\ \A b, d : <<b, d>> \in audit' /\ <<b, d>> \notin audit => b = "review.self_confirmation_refused" /\ d = c
    BY <1>0, <2>1, <2>a, EventsAdd, Zenon
  <2>2. /\ audit' \subseteq AuditAction \X Call /\ audit \subseteq audit'
        /\ \A d \in Decision : <<"review.decided", d>> \in audit' => <<"review.decided", d>> \in audit
    BY <2>1, <2>b
  <2>3. seen' \in [Decision -> Case] /\ webhooks' \subseteq Decision /\ "failed" \in Pc
    BY <1>0, <1>4 DEF TypeOK, RefuseSelf, Pc
  <2>4. Moves(c, "refusing", "failed") /\ UNCHANGED <<cases, exception, seen, webhooks, intents, barred>>
    BY <1>4 DEF RefuseSelf
  <2> QED
    BY <2>2, <2>3, <2>4, DecisionMoves
<1>5. CASE Decide(c)
  <2>1. PICK row, a : row = cases[TargetOf[c]] /\ a = TargetOf[c]
    OBVIOUS
  <2>2. row \in Case /\ a \in Attempt /\ ReviewerOf[c] \in Reviewer /\ VerdictOf[c] \in Verdict
    BY <1>0, <2>1, CallsTyped DEF TypeOK
  <2>3. row.status # "none"
    BY <1>0, <1>5, <2>1 DEF CallsKnow, Status, Decide, Moves
  <2>4a. PICK new : new = [row EXCEPT !.status = VerdictOf[c], !.decider = ReviewerOf[c]]
    OBVIOUS
  <2>4. /\ new \in Case /\ new.status = VerdictOf[c] /\ new.decider = ReviewerOf[c]
        /\ new.dual = row.dual /\ new.first = row.first
    BY <2>2, <2>4a DEF Case, Verdict
  <2>5. cases' = [cases EXCEPT ![a] = new]
    BY <1>0, <1>5, <2>1, <2>4a DEF Decide, TypeOK
  <2>6. \A b \in Attempt : /\ cases'[b] = IF b = a THEN new ELSE cases[b]
                           /\ cases'[b].dual = cases[b].dual /\ cases'[b].first = cases[b].first
                           /\ cases[b].status # "none" => cases'[b].status # "none"
                           /\ cases[b].status \in Verdict => cases'[b].status \in Verdict
                           /\ cases'[b].status # "none" => cases[b].status # "none"
    BY <1>0, <2>1, <2>2, <2>3, <2>4, <2>5, CallsTyped DEF TypeOK
  <2>7. \A d \in Call : pc'[d] = IF d = c THEN "decided" ELSE pc[d]
    BY <1>0, <1>5 DEF TypeOK, Decide, Moves
  <2>8. /\ \A d \in Call : Status(d) # "none" => Status(d)' # "none"
        /\ \A d \in Call : Status(d) \in Verdict => Status(d)' \in Verdict
        /\ Status(c)' \in Verdict
    BY <2>1, <2>2, <2>4, <2>6, ReviewArguments DEF Status
  <2>9. TypeOK'
    <3>1. cases' \in [Attempt -> Case] /\ pc' \in [Call -> Pc]
      BY <1>0, <1>5, <2>2, <2>4, <2>5 DEF TypeOK, Decide, Moves, Pc
    <3> QED
      BY <1>0, <1>5, <3>1 DEF TypeOK, Decide
  <2>10. CallsKnow'
    BY <1>0, <1>5, <2>7, <2>8, CallsTyped DEF CallsKnow, Decide
  <2>11. FirstsAreRecorded'
    BY <1>5, <2>6 DEF ReviewInv, FirstsAreRecorded, Decide
  <2>12. StandardIsSingle'
    BY <2>6, CallsTyped DEF ReviewInv, StandardIsSingle
  <2>13. LivenessStaysFinal'
    BY <1>0, <1>5, <2>6, <2>7, CallsTyped DEF ReviewInv, LivenessStaysFinal, Decide, TypeOK
  <2>14. DecisionsAreBacked'
    BY <1>5, <2>8, CallsTyped DEF ReviewInv, DecisionsAreBacked, Decide, Status
  <2> QED
    BY <2>9, <2>10, <2>11, <2>12, <2>13, <2>14 DEF ReviewInv
<1>6. CASE AuditDecision(c)
  <2>1. audit' = audit \cup {<<"review.decided", c>>}
    BY <1>6 DEF AuditDecision, Audited
  <2>a. "review.decided" \in AuditAction
    BY DEF AuditAction
  <2>b. /\ audit' \subseteq AuditAction \X Call /\ audit \subseteq audit' /\ <<"review.decided", c>> \in audit'
        /\ \A b, d : <<b, d>> \in audit' /\ <<b, d>> \notin audit => b = "review.decided" /\ d = c
    BY <1>0, <2>1, <2>a, EventsAdd, Zenon
  <2>2. Status(c) \in Verdict
    BY <1>0, <1>6 DEF CallsKnow, AuditDecision, Moves
  <2>3. /\ audit' \subseteq AuditAction \X Call /\ audit \subseteq audit' /\ <<"review.decided", c>> \in audit'
        /\ \A d \in Decision : <<"review.decided", d>> \in audit' /\ <<"review.decided", d>> \notin audit => Status(d) \in Verdict
    BY <2>2, <2>b
  <2>4. seen' \in [Decision -> Case] /\ webhooks' \subseteq Decision /\ "audited" \in Pc
    BY <1>0, <1>6 DEF TypeOK, AuditDecision, Pc
  <2> QED
    BY <1>6, <2>3, <2>4, DecisionMoves DEF AuditDecision
<1>7. CASE NotifyDecision(c)
  <2>1. <<"review.decided", c>> \in audit
    BY <1>0, <1>7 DEF CallsKnow, NotifyDecision, Moves
  <2>2. /\ webhooks' \subseteq Decision /\ webhooks \subseteq webhooks'
        /\ \A d \in webhooks' \ webhooks : <<"review.decided", d>> \in audit'
    BY <1>0, <1>7, <2>1 DEF TypeOK, NotifyDecision
  <2>3. seen' \in [Decision -> Case] /\ audit' \subseteq AuditAction \X Call /\ "done" \in Pc
    BY <1>0, <1>7 DEF TypeOK, NotifyDecision, Pc
  <2>4. Moves(c, "audited", "done") /\ UNCHANGED <<cases, exception, seen, audit, intents, barred>>
    BY <1>7 DEF NotifyDecision
  <2> QED
    BY <2>2, <2>3, <2>4, DecisionMoves
<1> QED
  BY <1>1, <1>2, <1>3, <1>4, <1>5, <1>6, <1>7 DEF Review

\* Every statement of an escalation keeps the invariant.
LEMMA EscalateKeeps ==
  ASSUME ReviewInv, NEW x \in Escalation, Escalate(x)
  PROVE  ReviewInv'
<1>0. TypeOK /\ CallsKnow /\ LivenessStaysFinal /\ x \in Call /\ TargetOf[x] \in Attempt
  BY CallsTyped DEF ReviewInv
<1>a. {"permitted", "eligible", "free", "disallowed", "done", "failed"} \subseteq Pc \ {"opened"}
  BY DEF Pc
<1>1. CASE ReadSetting(x)
  <2>1. PICK to \in {"permitted", "disallowed"} : /\ Moves(x, "idle", to)
                                                  /\ to = "disallowed" \/ barred' = barred
                                                  /\ barred' \subseteq barred \cup {x}
    BY <1>1 DEF ReadSetting
  <2>2. x \in barred' => to = "disallowed"
    BY <1>0, <2>1 DEF LivenessStaysFinal, Moves
  <2>3. UNCHANGED <<cases, exception, intents, seen, webhooks, audit>>
    BY <1>1 DEF ReadSetting
  <2> QED
    BY <1>0, <1>a, <2>1, <2>2, <2>3, EscalationMoves DEF TypeOK
<1>2. CASE AuditRefusal(x)
  <2>1. audit' = audit \cup {<<"review.liveness_exception_refused", x>>}
    BY <1>2 DEF AuditRefusal, Audited
  <2>2. "review.liveness_exception_refused" \in AuditAction
    BY DEF AuditAction
  <2>3. /\ audit' \subseteq AuditAction \X Call /\ audit \subseteq audit'
        /\ \A b, d : <<b, d>> \in audit' /\ <<b, d>> \notin audit => b = "review.liveness_exception_refused"
    BY <1>0, <2>1, <2>2, EventsAdd, Zenon
  <2>4. Moves(x, "disallowed", "failed") /\ UNCHANGED <<cases, exception, seen, webhooks, intents, barred>>
    BY <1>2 DEF AuditRefusal
  <2> QED
    BY <1>a, <2>3, <2>4, EscalationMoves
<1>3. CASE ReadAttempt(x)
  <2>1. PICK to \in {"eligible", "failed"} : /\ Moves(x, "permitted", to)
                                             /\ to = "eligible" => TargetOf[x] \in Liveness
    BY <1>3 DEF ReadAttempt
  <2>2. x \notin barred
    BY <1>0, <2>1 DEF LivenessStaysFinal, Moves
  <2>3. UNCHANGED <<cases, exception, seen, audit, webhooks, intents, barred>>
    BY <1>3 DEF ReadAttempt
  <2> QED
    BY <1>0, <1>a, <2>1, <2>2, <2>3, EscalationMoves DEF TypeOK
<1>4. CASE ReadExisting(x)
  <2>1. PICK to \in {"free", "failed"} : Moves(x, "eligible", to)
    BY <1>4 DEF ReadExisting
  <2>2. x \notin barred /\ TargetOf[x] \in Liveness
    BY <1>0, <2>1 DEF LivenessStaysFinal, CallsKnow, Moves
  <2>3. UNCHANGED <<cases, exception, seen, audit, webhooks, intents, barred>>
    BY <1>4 DEF ReadExisting
  <2> QED
    BY <1>0, <1>a, <2>1, <2>2, <2>3, EscalationMoves DEF TypeOK
<1>5. CASE OpenException(x)
  <2>0. UNCHANGED <<exception, seen, audit, webhooks, intents, barred>>
    BY <1>5 DEF OpenException
  <2>1. pc[x] = "free" /\ x \notin barred /\ TargetOf[x] \in Liveness
    BY <1>0, <1>5 DEF LivenessStaysFinal, CallsKnow, OpenException, Moves
  <2>2. ASSUME Moves(x, "free", "failed"), UNCHANGED cases
        PROVE  ReviewInv'
    BY <1>0, <1>a, <2>0, <2>1, <2>2, EscalationMoves DEF TypeOK
  <2>3. ASSUME Status(x) = "none", Moves(x, "free", "opened"),
               cases' = [cases EXCEPT ![TargetOf[x]] = NewCase("open", TRUE)]
        PROVE  ReviewInv'
    <3>1. PICK a, new : a = TargetOf[x] /\ new = NewCase("open", TRUE)
      OBVIOUS
    <3>2. /\ a \in Liveness /\ a \in Attempt /\ cases[a].status = "none"
          /\ new \in Case /\ new.status = "open" /\ new.dual = TRUE /\ new.first = None
      BY <1>0, <2>1, <2>3, <3>1, NewCases DEF Status
    <3>3. \A b \in Attempt : /\ cases'[b] = IF b = a THEN new ELSE cases[b]
                             /\ b # a => cases'[b] = cases[b]
                             /\ cases[b].status # "none" => cases'[b] = cases[b]
      BY <1>0, <2>3, <3>1, <3>2 DEF TypeOK
    <3>4. \A d \in Call : pc'[d] = IF d = x THEN "opened" ELSE pc[d]
      BY <1>0, <2>3 DEF TypeOK, Moves
    <3>5. cases'[a].status = "open"
      BY <3>2, <3>3
    <3>6. /\ \A d \in Call : Status(d) # "none" => Status(d)' = Status(d)
          /\ Status(x)' # "none"
      BY <3>1, <3>2, <3>3, <3>5, ReviewArguments DEF Status
    <3>7. TypeOK'
      <4>1. cases' \in [Attempt -> Case]
        BY <1>0, <2>3, <3>1, <3>2 DEF TypeOK
      <4>2. pc' \in [Call -> Pc]
        BY <1>0, <2>3 DEF TypeOK, Moves, Pc
      <4> QED
        BY <1>0, <2>0, <4>1, <4>2 DEF TypeOK
    <3>8. CallsKnow'
      BY <1>0, <2>0, <3>4, <3>6, CallsTyped DEF CallsKnow
    <3>9. FirstsAreRecorded'
      BY <2>0, <3>2, <3>3 DEF ReviewInv, FirstsAreRecorded
    <3>10. StandardIsSingle'
      BY <3>2, <3>3, CallsTyped DEF ReviewInv, StandardIsSingle
    <3>11. LivenessStaysFinal'
      <4>1. \A b \in Liveness : cases'[b].status # "none" => cases'[b].dual
        BY <1>0, <3>2, <3>3, CallsTyped DEF LivenessStaysFinal
      <4>2. \A y \in barred' : pc'[y] \in {"disallowed", "failed"}
        BY <1>0, <2>0, <2>1, <3>4, CallsTyped DEF LivenessStaysFinal, TypeOK
      <4>3. \A y \in Escalation : TargetOf[y] = TargetOf[x] => pc[y] \notin {"opened", "done"}
        BY <1>0, <2>3 DEF CallsKnow, Status
      <4> QED
        BY <1>0, <3>4, <4>1, <4>2, <4>3, CallsTyped DEF LivenessStaysFinal
    <3>12. DecisionsAreBacked'
      <4>1. \A c \in Decision : <<"review.decided", c>> \in audit => cases'[TargetOf[c]].status \in Verdict
        BY <3>2, <3>3, CallsTyped DEF ReviewInv, DecisionsAreBacked, Verdict
      <4> QED
        BY <2>0, <4>1 DEF ReviewInv, DecisionsAreBacked
    <3> QED
      BY <3>7, <3>8, <3>9, <3>10, <3>11, <3>12 DEF ReviewInv
  <2> QED
    BY <1>5, <2>2, <2>3 DEF OpenException, Status
<1>6. CASE AuditException(x)
  <2>1. audit' = audit \cup {<<"review.liveness_exception_opened", x>>}
    BY <1>6 DEF AuditException, Audited
  <2>2. "review.liveness_exception_opened" \in AuditAction
    BY DEF AuditAction
  <2>3. /\ audit' \subseteq AuditAction \X Call /\ audit \subseteq audit'
        /\ \A b, d : <<b, d>> \in audit' /\ <<b, d>> \notin audit => b = "review.liveness_exception_opened"
    BY <1>0, <2>1, <2>2, EventsAdd, Zenon
  <2>4. Moves(x, "opened", "done") /\ UNCHANGED <<cases, exception, seen, webhooks, intents, barred>>
    BY <1>6 DEF AuditException
  <2>5. x \notin barred
    BY <1>0, <2>4 DEF LivenessStaysFinal, Moves
  <2> QED
    BY <1>a, <2>3, <2>4, <2>5, EscalationMoves
<1> QED
  BY <1>1, <1>2, <1>3, <1>4, <1>5, <1>6 DEF Escalate

-----------------------------------------------------------------------------
\* The initial states satisfy the invariant: standard cases ask for one reviewer.
LEMMA ReviewStarts == Init => ReviewInv
<1> SUFFICES ASSUME Init PROVE ReviewInv
  OBVIOUS
<1>1. \A a \in Attempt : /\ cases[a] = IF a \in Liveness THEN NoCase ELSE NewCase("open", a \in HighRisk)
                         /\ cases[a] \in Case /\ cases[a].first = None
                         /\ a \in Liveness => cases[a].status = "none"
                         /\ a \notin HighRisk \cup Liveness => ~cases[a].dual
  <2> SUFFICES ASSUME NEW a \in Attempt
               PROVE  /\ cases[a] = IF a \in Liveness THEN NoCase ELSE NewCase("open", a \in HighRisk)
                      /\ cases[a] \in Case /\ cases[a].first = None
                      /\ a \in Liveness => cases[a].status = "none"
                      /\ a \notin HighRisk \cup Liveness => ~cases[a].dual
    OBVIOUS
  <2>1. cases[a] = IF a \in Liveness THEN NoCase ELSE NewCase("open", a \in HighRisk)
    BY DEF Init
  <2>2. PICK dual \in BOOLEAN : dual <=> (a \in HighRisk)
    OBVIOUS
  <2>3. cases[a] = NewCase("none", FALSE) \/ (a \notin Liveness /\ cases[a] = NewCase("open", dual))
    BY <2>1, <2>2 DEF NoCase
  <2>4. a \in Liveness => cases[a] = NewCase("none", FALSE)
    BY <2>1 DEF NoCase
  <2> QED
    BY <2>1, <2>2, <2>3, <2>4, NewCases
<1>2. NoCase \in Case
  BY NewCases DEF NoCase
<1>3. TypeOK
  <2>1. cases \in [Attempt -> Case]
    BY <1>1 DEF Init
  <2>2. pc \in [Call -> Pc] /\ seen \in [Decision -> Case]
    BY <1>2 DEF Init, Pc
  <2> QED
    BY <2>1, <2>2 DEF Init, TypeOK
<1>4. \A c \in Call : pc[c] = "idle"
  BY DEF Init
<1>5. CallsKnow
  BY <1>4, CallsTyped DEF CallsKnow
<1>6. FirstsAreRecorded
  BY <1>1 DEF FirstsAreRecorded
<1>7. StandardIsSingle
  BY <1>1, CallsTyped, KindsAreDistinct DEF StandardIsSingle
<1>8. LivenessStaysFinal
  BY <1>1, <1>4, CallsTyped DEF LivenessStaysFinal, Init
<1>9. DecisionsAreBacked
  BY DEF DecisionsAreBacked, Init
<1> QED
  BY <1>3, <1>5, <1>6, <1>7, <1>8, <1>9 DEF ReviewInv

\* ReviewInv is inductive.
LEMMA ReviewSteps == ReviewInv /\ [Next]_vars => ReviewInv'
<1> SUFFICES ASSUME ReviewInv, [Next]_vars PROVE ReviewInv'
  OBVIOUS
<1>1. ASSUME NEW c \in Decision, Review(c) PROVE ReviewInv'
  BY <1>1, ReviewKeeps
<1>2. ASSUME NEW x \in Escalation, Escalate(x) PROVE ReviewInv'
  BY <1>2, EscalateKeeps
<1>3. CASE SwitchException
  <2>1. TypeOK'
    BY <1>3 DEF ReviewInv, TypeOK, SwitchException
  <2>2. CallsKnow' /\ FirstsAreRecorded' /\ StandardIsSingle' /\ DecisionsAreBacked'
    BY <1>3 DEF ReviewInv, CallsKnow, Status, FirstsAreRecorded, StandardIsSingle, DecisionsAreBacked, SwitchException
  <2>3. LivenessStaysFinal'
    BY <1>3 DEF ReviewInv, LivenessStaysFinal, SwitchException
  <2> QED
    BY <2>1, <2>2, <2>3 DEF ReviewInv
<1>4. CASE UNCHANGED vars
  BY <1>4 DEF ReviewInv, TypeOK, CallsKnow, Status, FirstsAreRecorded, StandardIsSingle, LivenessStaysFinal,
              DecisionsAreBacked, vars
<1> QED
  BY <1>1, <1>2, <1>3, <1>4 DEF Next

\* The invariant of human review holds in every reachable state.
THEOREM ReviewInvariant == Spec => []ReviewInv
BY ReviewStarts, ReviewSteps, PTL DEF Spec

\* The rows, the calls and the logs of human review have their types (review_cases,
\* review_decisions and the callers' locals).
THEOREM ReviewsAreTyped == Spec => []TypeOK
<1>1. ReviewInv => TypeOK
  BY DEF ReviewInv
<1> QED
  BY <1>1, ReviewInvariant, PTL

\* A liveness rejection comes up for review only under dual control, only when the tenant has
\* the exception on, and once, however many escalations of it race.
THEOREM LivenessAlwaysStaysFinal == Spec => []LivenessStaysFinal
<1>1. ReviewInv => LivenessStaysFinal
  BY DEF ReviewInv
<1> QED
  BY <1>1, ReviewInvariant, PTL

\* What is audited of a decision is decided, and what is notified of one is audited.
THEOREM DecisionsAreAlwaysBacked == Spec => []DecisionsAreBacked
<1>1. ReviewInv => DecisionsAreBacked
  BY DEF ReviewInv
<1> QED
  BY <1>1, ReviewInvariant, PTL

-----------------------------------------------------------------------------
\* While decideReviewCase is called for standard cases only, a decided dual-control case has
\* the recorded approval of a reviewer other than its decider, whoever overwrites whom.
THEOREM TwoReviewersDecide ==
  ASSUME SingleIsStandard
  PROVE  Spec => []HighRiskNeedsTwoReviewers
<1> DEFINE Inv == ReviewInv /\ SecondsAreBacked /\ HighRiskNeedsTwoReviewers
<1>1. Init => Inv
  <2>1. ASSUME Init PROVE SecondsAreBacked
    BY <2>1, CallsTyped DEF Init, SecondsAreBacked
  <2>2. ASSUME Init PROVE HighRiskNeedsTwoReviewers
    <3> SUFFICES ASSUME NEW a \in Attempt PROVE cases[a].status \notin Verdict
      BY DEF HighRiskNeedsTwoReviewers
    <3>1. PICK dual \in BOOLEAN : dual <=> (a \in HighRisk)
      OBVIOUS
    <3>2. cases[a] = NewCase("none", FALSE) \/ cases[a] = NewCase("open", dual)
      BY <2>2, <3>1 DEF Init, NoCase
    <3> QED
      BY <3>1, <3>2, NewCases, CallsTyped
  <2> QED
    BY <2>1, <2>2, ReviewStarts
<1>2. Inv /\ [Next]_vars => Inv'
  <2> SUFFICES ASSUME Inv, [Next]_vars PROVE SecondsAreBacked' /\ HighRiskNeedsTwoReviewers'
    BY ReviewSteps
  <2>0. TypeOK /\ CallsKnow /\ FirstsAreRecorded /\ StandardIsSingle
    BY DEF ReviewInv
  <2>a. ASSUME \A b \in Attempt : cases'[b].dual = cases[b].dual, intents \subseteq intents',
               NEW c \in Decision,
               \A d \in Decision : pc'[d] = "deciding" => pc[d] = "deciding" \/ d = c,
               pc'[c] = "deciding" /\ cases[TargetOf[c]].dual =>
                 \E r \in Reviewer \ {ReviewerOf[c]} : <<TargetOf[c], r>> \in intents
        PROVE  SecondsAreBacked'
    BY <2>a, CallsTyped DEF SecondsAreBacked
  <2>b. ASSUME UNCHANGED <<cases, intents>> PROVE HighRiskNeedsTwoReviewers'
    BY <2>b DEF HighRiskNeedsTwoReviewers
  <2>1. ASSUME NEW c \in Decision, ReadCase(c) PROVE SecondsAreBacked' /\ HighRiskNeedsTwoReviewers'
    <3>1. PICK row, a : row = cases[TargetOf[c]] /\ a = TargetOf[c]
      OBVIOUS
    <3>2. a \in Attempt /\ (row.first # None => <<a, row.first>> \in intents /\ row.first \in Reviewer)
      BY <2>0, <3>1, CallsTyped DEF FirstsAreRecorded, TypeOK, Case
    <3>3. c \in Single => ~row.dual
      BY <2>0, <3>1 DEF SingleIsStandard, StandardIsSingle
    <3>4. \A d \in Call : pc'[d] = IF d = c THEN Route(c, row) ELSE pc[d]
      BY <2>0, <2>1, <3>1, CallsTyped DEF TypeOK, ReadCase, Moves
    <3>5. Route(c, row) = "deciding" /\ row.dual => row.first # None /\ row.first # ReviewerOf[c]
      BY <3>3 DEF Route
    <3>6. pc'[c] = "deciding" /\ row.dual => \E r \in Reviewer \ {ReviewerOf[c]} : <<a, r>> \in intents
      BY <3>2, <3>4, <3>5, CallsTyped
    <3>7. UNCHANGED <<cases, intents>>
      BY <2>1 DEF ReadCase
    <3> QED
      BY <2>a, <2>b, <3>1, <3>4, <3>6, <3>7, CallsTyped
  <2>2. ASSUME NEW c \in Decision, NEW to \in Pc \ {"deciding"}, \E from : Moves(c, from, to),
               UNCHANGED <<cases, intents>>
        PROVE  SecondsAreBacked' /\ HighRiskNeedsTwoReviewers'
    <3>1. \A d \in Decision : pc'[d] = "deciding" => pc[d] = "deciding"
      BY <2>0, <2>2, CallsTyped DEF TypeOK, Moves
    <3>2. pc'[c] # "deciding"
      BY <2>0, <2>2, CallsTyped DEF TypeOK, Moves
    <3> QED
      BY <2>2, <2>a, <2>b, <3>1, <3>2
  <2>3. ASSUME NEW c \in Decision, RecordIntent(c) PROVE SecondsAreBacked' /\ HighRiskNeedsTwoReviewers'
    <3>1. PICK row, a : row = cases[TargetOf[c]] /\ a = TargetOf[c]
      OBVIOUS
    <3>2. PICK new : new = [row EXCEPT !.first = ReviewerOf[c]]
      OBVIOUS
    <3>3. row \in Case /\ a \in Attempt /\ ReviewerOf[c] \in Reviewer
      BY <2>0, <3>1, CallsTyped DEF TypeOK
    <3>4. new.status = row.status /\ new.dual = row.dual /\ new.decider = row.decider
      BY <3>2, <3>3, FirstUpdated
    <3>5. cases' = [cases EXCEPT ![a] = new]
      BY <2>3, <3>1, <3>2 DEF RecordIntent
    <3>6. \A b \in Attempt : /\ cases'[b].dual = cases[b].dual /\ cases'[b].status = cases[b].status
                             /\ cases'[b].decider = cases[b].decider
      BY <2>0, <3>1, <3>3, <3>4, <3>5 DEF TypeOK
    <3>7. intents \subseteq intents'
      BY <2>3 DEF RecordIntent
    <3>8. \A d \in Decision : pc'[d] = "deciding" => pc[d] = "deciding"
      BY <2>0, <2>3, CallsTyped DEF TypeOK, RecordIntent, Moves
    <3>9. pc'[c] # "deciding"
      BY <2>0, <2>3, CallsTyped DEF TypeOK, RecordIntent, Moves
    <3>10. SecondsAreBacked'
      BY <2>a, <3>6, <3>7, <3>8, <3>9
    <3> QED
      BY <3>6, <3>7, <3>10 DEF HighRiskNeedsTwoReviewers
  <2>4. ASSUME NEW c \in Decision, Decide(c) PROVE SecondsAreBacked' /\ HighRiskNeedsTwoReviewers'
    <3>1. PICK row, a : row = cases[TargetOf[c]] /\ a = TargetOf[c]
      OBVIOUS
    <3>2. PICK new : new = [row EXCEPT !.status = VerdictOf[c], !.decider = ReviewerOf[c]]
      OBVIOUS
    <3>3. row \in Case /\ a \in Attempt
      BY <2>0, <3>1, CallsTyped DEF TypeOK
    <3>4. new.dual = row.dual /\ new.decider = ReviewerOf[c]
      BY <3>2, <3>3 DEF Case
    <3>5. cases' = [cases EXCEPT ![a] = new]
      BY <2>0, <2>4, <3>1, <3>2 DEF Decide, TypeOK
    <3>6. \A b \in Attempt : /\ cases'[b] = IF b = a THEN new ELSE cases[b]
                             /\ cases'[b].dual = cases[b].dual
      BY <2>0, <3>1, <3>3, <3>4, <3>5 DEF TypeOK
    <3>7. UNCHANGED intents
      BY <2>4 DEF Decide
    <3>8. \A d \in Decision : pc'[d] = "deciding" => pc[d] = "deciding"
      BY <2>0, <2>4, CallsTyped DEF TypeOK, Decide, Moves
    <3>9. pc'[c] # "deciding" /\ pc[c] = "deciding"
      BY <2>0, <2>4, CallsTyped DEF TypeOK, Decide, Moves
    <3>10. SecondsAreBacked'
      BY <2>a, <3>6, <3>7, <3>8, <3>9
    <3>11. row.dual => \E r \in Reviewer \ {ReviewerOf[c]} : <<a, r>> \in intents
      BY <3>1, <3>9 DEF SecondsAreBacked
    <3> QED
      BY <3>1, <3>3, <3>4, <3>6, <3>7, <3>10, <3>11 DEF HighRiskNeedsTwoReviewers
  <2>5. ASSUME NEW c \in Decision, Review(c) PROVE SecondsAreBacked' /\ HighRiskNeedsTwoReviewers'
    <3>1. {"done", "failed", "audited"} \subseteq Pc \ {"deciding"}
      BY DEF Pc
    <3>2. CASE AuditIntent(c) \/ RefuseSelf(c) \/ AuditDecision(c) \/ NotifyDecision(c)
      BY <2>2, <3>1, <3>2 DEF AuditIntent, RefuseSelf, AuditDecision, NotifyDecision
    <3> QED
      BY <2>1, <2>3, <2>4, <2>5, <3>2 DEF Review
  <2>6. ASSUME NEW x \in Escalation, Escalate(x) PROVE SecondsAreBacked' /\ HighRiskNeedsTwoReviewers'
    <3>1. intents' = intents /\ \A d \in Decision : pc'[d] = pc[d]
      BY <2>0, <2>6, CallsTyped DEF TypeOK, Moves, Escalate, ReadSetting, AuditRefusal, ReadAttempt, ReadExisting,
                                    OpenException, AuditException
    <3>2. \A b \in Attempt : cases[b].status # "none" \/ cases'[b].status # "open" => cases'[b] = cases[b]
      <4>1. CASE UNCHANGED cases
        BY <4>1
      <4>2. CASE /\ cases[TargetOf[x]].status = "none"
                 /\ cases' = [cases EXCEPT ![TargetOf[x]] = NewCase("open", TRUE)]
        <5>1. PICK a, new : a = TargetOf[x] /\ new = NewCase("open", TRUE)
          OBVIOUS
        <5>2. new.status = "open" /\ a \in Attempt
          BY <5>1, NewCases, CallsTyped
        <5>3. \A b \in Attempt : cases'[b] = IF b = a THEN new ELSE cases[b]
          BY <2>0, <4>2, <5>1, <5>2 DEF TypeOK
        <5> QED
          BY <4>2, <5>1, <5>2, <5>3
      <4> QED
        BY <2>6, <4>1, <4>2 DEF Escalate, ReadSetting, AuditRefusal, ReadAttempt, ReadExisting,
                                OpenException, AuditException
    <3>3. \A d \in Decision : pc[d] = "deciding" => cases'[TargetOf[d]] = cases[TargetOf[d]]
      BY <2>0, <3>2, CallsTyped DEF CallsKnow, Status
    <3>4. SecondsAreBacked'
      BY <3>1, <3>3 DEF SecondsAreBacked
    <3> QED
      BY <3>1, <3>2, <3>4, CallsTyped DEF HighRiskNeedsTwoReviewers
  <2>7. CASE SwitchException \/ UNCHANGED vars
    BY <2>7 DEF SwitchException, vars, SecondsAreBacked, HighRiskNeedsTwoReviewers
  <2> QED
    BY <2>5, <2>6, <2>7 DEF Next
<1>3. Inv => HighRiskNeedsTwoReviewers
  OBVIOUS
<1> QED
  BY <1>1, <1>2, <1>3, PTL DEF Spec
=============================================================================
