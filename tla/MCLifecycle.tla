----------------------------- MODULE MCLifecycle -----------------------------
(***************************************************************************)
(* One subject, in several small scenes: each behaviour plays one, and the *)
(* calls, sessions, models and holds outside it stay as they start.  Of    *)
(* the two deletions the second starts after the first.                    *)
(***************************************************************************)
EXTENDS Lifecycle

CONSTANT Scenes   \* the scenes of the run

VARIABLE scene    \* the one this behaviour plays

MCSubjectOf == [c \in Capture \cup Retention \cup Deletion |-> "alice"]
MCConsentOf == [w \in Withdrawal |-> "e1"]
MCModalityOf == [c \in Capture |-> "face"]
MCSessionPurpose == [s \in Session |-> IF s = "toEnrol" THEN "enrolment" ELSE "verification"]
MCSessionModality == [s \in Session |-> "face"]

\* A face enrolment and a verification race a withdrawal and a deletion, while models are revoked.
Rights == [calls |-> {"e1", "v1", "w1", "d1"}, sessions |-> {"toEnrol", "toVerify"},
           models |-> {"x1", "q1"}, holds |-> {}]

\* Evidence is retained, held, swept by deletions and purged; the enrolment that creates the
\* subject has no session to spend.
Evidence(calls) ==
  [calls |-> calls \cup {"e1"}, sessions |-> {}, models |-> {}, holds |-> {"alice"}]

\* With one, it races a deletion that also finds evidence.
Erasure == [Evidence({"r1", "d1"}) EXCEPT !.sessions = {"toEnrol"}]

MCScenes ==
  {Rights, Erasure, Evidence({"r1", "r2", "d1", "p1"}), Evidence({"r1", "d1", "d2", "p1"}),
   [Evidence({"r1", "r2", "d1", "d2"}) EXCEPT !.holds = {}]}

\* An enrolment, its withdrawal and a deletion.
MCWithdrawn == {[Rights EXCEPT !.calls = {"e1", "w1", "d1"}, !.models = {}]}

-----------------------------------------------------------------------------
SceneInit == Init /\ scene \in Scenes

\* What moves is in the scene.
SceneNext ==
  /\ \/ \E e \in Enrolment \cap scene.calls : Enrol(e)
     \/ \E v \in Verification \cap scene.calls : Verify(v)
     \/ \E w \in Withdrawal \cap scene.calls : Withdraw(w)
     \/ \E d \in Deletion \cap scene.calls : Delete(d)
     \/ \E x \in Retention \cap scene.calls : Retain(x) \/ EvidenceLapses(x)
     \/ \E p \in Purge \cap scene.calls : PurgeExpired(p)
     \/ \E c \in Mortal \cap scene.calls : Crash(c)
     \/ \E s \in scene.sessions : CreateSession(s) \/ SessionLapses(s)
     \/ \E m \in scene.models : ApproveModel(m) \/ RevokeModel(m)
     \/ \E s \in scene.holds : PlaceHold(s) \/ ReleaseHold(s)
  /\ UNCHANGED scene
  /\ {"d1", "d2"} \subseteq scene.calls /\ pc["d1"] = "idle" => pc'["d2"] = "idle"

SceneSpec == SceneInit /\ [][SceneNext]_<<vars, scene>>
=============================================================================
