------------------------------ MODULE Decisions ------------------------------
(***************************************************************************)
(* From a policy and two provider replies to a decision: the policy in     *)
(* force (server/verification/service.ts), the replies as the providers    *)
(* read them (providers.ts) and the rules (decision.ts).  The policy may   *)
(* be switched while the provider works.  A number the sidecar left out or *)
(* sent as text becomes NaN, and every comparison with NaN is false.       *)
(***************************************************************************)
EXTENDS Integers, NoValue
CONSTANTS
  Attempt,       \* calls of enrol* and verify*
  Policy,        \* rows of verification_policies the tenant may activate
  PolicyOf,      \* their thresholds
  NaN

Flag == {"true", "false", "text"}      \* "text" is any string; a missing flag counts as false
Number == 0..2 \cup {NaN}
Angle == {-2, 0, NaN}
ASSUME NaNIsNoNumber == NaN \notin -3..3
Default == "platform-default"
Threshold == [quality : 0..2, pose : 0..2, occlusion : 0..2, liveness : 0..2, approve : 0..2, review : 0..2]

ASSUME PolicyAssumption == PolicyOf \in [Policy -> Threshold] /\ Default \notin Policy

PLATFORM_DEFAULT_POLICY ==
  [quality |-> 1, pose |-> 1, occlusion |-> 1, liveness |-> 1, approve |-> 2, review |-> 1]
PLATFORM_DEFAULT_FP_POLICY == [quality |-> 1, minutiae |-> 1, approve |-> 2, review |-> 1]

VARIABLES
  activePolicy,  \* environments.active_policy_id
  attempt        \* where each call is, and what it was told

decisionVars == <<activePolicy, attempt>>

FaceReply == [detected : Flag, quality : Number, pose : Angle, occlusion : Number, live : Flag, liveness : Number]
FingerReply == [detected : Flag, quality : Number, minutiae : Number, pad : {"none", "live", "spoof"}]
\* A score of 3 stands for one above 1.
FingerMatch == [score : 0..3 \cup {NaN}, present : Flag, live : Flag]
\* A fixture of FakeProvider; what it leaves out is filled in.
Fixture == [person : {"same", "other"}, detected : Flag, quality : {0, NaN}, live : Flag, pad : {"out", "none"}]

Source == {"face", "finger", "fake face", "fake finger"}
Reply(source) == CASE source = "face" -> FaceReply [] source = "finger" -> FingerReply [] OTHER -> Fixture
Match(source) == CASE source = "face" -> Number [] source = "finger" -> FingerMatch [] OTHER -> {None}
IsFace(source) == source \in {"face", "fake face"}

Resting == [at |-> "idle"]
Verifying == [at : {"analyse"}, does : {"verify"}, source : Source, policy : Policy \cup {Default}]
Enrolling == [at : {"analyse"}, does : {"enrol"}, source : Source]
Reading(s) == [at : {"read policy"}, does : {"enrol"}, source : {s}, said : Reply(s)]
Comparing(s) ==
  [at : {"compare"}, does : {"verify"}, source : {s}, policy : Policy \cup {Default}, said : Reply(s)]
Working == Verifying \cup Enrolling \cup UNION {Reading(s) \cup Comparing(s) : s \in Source}
Finished(a) == attempt[a] # Resting /\ attempt[a].at = "done"

DecisionsTypeOK ==
  /\ activePolicy \in Policy \cup {None}
  /\ \A a \in Attempt : attempt[a] \in Working \cup {Resting} \/ Finished(a)

DecisionsInit == activePolicy = None /\ attempt = [a \in Attempt |-> Resting]

-----------------------------------------------------------------------------
\* JavaScript's Boolean(x), x < y, x > y, x >= y and Math.abs(x).
Truthy(flag) == flag # "false"
Less(x, y) == x # NaN /\ x < y
Greater(x, y) == x # NaN /\ x > y
AtLeast(x, y) == x # NaN /\ x >= y
Abs(x) == IF Less(x, 0) THEN -x ELSE x

\* analyseCapture and analyseFingerprint of VerifyCoreProvider: no field is checked but for presence.
ReadFace(r) == [r EXCEPT !.detected = Truthy(@), !.live = Truthy(@)]
ReadFinger(r) == [r EXCEPT !.detected = Truthy(@)]

\* Those of FakeProvider; "text" stands for a flag left out.
FakeFace(f) ==
  [detected |-> Truthy(f.detected), quality |-> IF f.quality = NaN THEN 2 ELSE f.quality, pose |-> 0,
   occlusion |-> 0, live |-> Truthy(f.live), liveness |-> IF f.live = "false" THEN 0 ELSE 2]
FakePad(f) == IF f.pad = "none" THEN "none" ELSE IF Truthy(f.live) THEN "live" ELSE "spoof"
FakeFinger(f) ==
  [detected |-> Truthy(f.detected), quality |-> IF f.quality = NaN THEN 2 ELSE f.quality, minutiae |-> 2,
   pad |-> FakePad(f)]

Analysis(source, said) ==
  CASE source = "face" -> ReadFace(said)
    [] source = "finger" -> ReadFinger(said)
    [] source = "fake face" -> FakeFace(said)
    [] source = "fake finger" -> FakeFinger(said)

\* compareTemplates and compareFingerprintTemplates; None is ProviderUnavailableError.
FakeScore(f) == IF f.person = "same" THEN 2 ELSE 0
FaceComparison(similarity) == IF similarity = NaN THEN None ELSE [score |-> similarity]
FingerComparison(match) ==
  IF match.score = NaN \/ Greater(match.score, 2) THEN None
  ELSE [score |-> match.score, present |-> Truthy(match.present), live |-> Truthy(match.live)]
FakeFingerComparison(f) == [score |-> FakeScore(f), present |-> FakePad(f) # "none", live |-> FakePad(f) = "live"]

Comparison(source, said, match) ==
  CASE source = "face" -> FaceComparison(match)
    [] source = "finger" -> FingerComparison(match)
    [] source = "fake face" -> [score |-> FakeScore(said)]
    [] source = "fake finger" -> FakeFingerComparison(said)

-----------------------------------------------------------------------------
Thresholds(p) == IF p = Default THEN PLATFORM_DEFAULT_POLICY ELSE PolicyOf[p]
Out(decision, reason) == [decision |-> decision, reason |-> reason]

PoorFace(p, a) == Less(a.quality, p.quality) \/ Greater(Abs(a.pose), p.pose) \/ Greater(a.occlusion, p.occlusion)
Lifeless(p, a) == ~a.live \/ Less(a.liveness, p.liveness)
ByScore(p, score) ==
  IF AtLeast(score, p.approve) THEN Out("approved", "MATCH_CONFIRMED")
  ELSE IF AtLeast(score, p.review) THEN Out("review", "MATCH_REQUIRES_HUMAN_REVIEW")
  ELSE Out("rejected", "MATCH_NOT_CONFIRMED")

\* Mutant: the score is looked at before liveness.
DecideByScore(p, a, c) ==
  IF ~a.detected THEN Out("rejected", "FACE_NOT_DETECTED")
  ELSE IF PoorFace(p, a) THEN Out("review", "CAPTURE_QUALITY_INSUFFICIENT")
  ELSE IF ByScore(p, c.score).decision # "review" THEN ByScore(p, c.score)
  ELSE IF Lifeless(p, a) THEN Out("rejected", "LIVENESS_FAILED")
  ELSE ByScore(p, c.score)

Decide(p, a, c) ==
  IF ~a.detected THEN Out("rejected", "FACE_NOT_DETECTED")
  ELSE IF PoorFace(p, a) THEN Out("review", "CAPTURE_QUALITY_INSUFFICIENT")
  ELSE IF Lifeless(p, a) THEN Out("rejected", "LIVENESS_FAILED")
  ELSE ByScore(p, c.score)

PoorFinger(p, a) == Less(a.quality, p.quality) \/ Less(a.minutiae, p.minutiae)

\* The default policy, which no code replaces, requires PAD for an approval.
DecideFingerprint(p, a, c) ==
  IF ~a.detected THEN Out("rejected", "FINGER_NOT_DETECTED")
  ELSE IF PoorFinger(p, a) THEN Out("review", "CAPTURE_QUALITY_INSUFFICIENT")
  ELSE IF c.present /\ ~c.live THEN Out("rejected", "PAD_FAILED")
  ELSE IF AtLeast(c.score, p.approve) /\ ~c.present THEN Out("review", "PAD_UNAVAILABLE_REVIEW_REQUIRED")
  ELSE ByScore(p, c.score)

\* The gates of enrolSubject and enrolFingerprint.
EnrolGate(source, p, a) ==
  LET poor == IF IsFace(source) THEN Less(a.quality, p.quality) ELSE PoorFinger(p, a)
      spoof == IF IsFace(source) THEN Lifeless(p, a) ELSE a.pad = "spoof"
  IN IF ~a.detected \/ poor THEN Out("none", "CAPTURE_QUALITY_INSUFFICIENT")
     ELSE IF spoof THEN Out("none", IF IsFace(source) THEN "LIVENESS_FAILED" ELSE "PAD_FAILED")
     ELSE Out("enrolled", "none")

-----------------------------------------------------------------------------
\* getActivePolicy: the environment's, or else the platform's, inserted when it is missing (two
\* first calls may both insert it; the rows are equal).
InForce == IF activePolicy = None THEN Default ELSE activePolicy
PolicyFor(source) == IF IsFace(source) THEN Thresholds(InForce) ELSE PLATFORM_DEFAULT_FP_POLICY

\* A verification reads its policy before anything else, an enrolment after the analysis.
BeginAttempt(a, source) ==
  /\ attempt[a] = Resting
  /\ \/ attempt' = [attempt EXCEPT ![a] = [at |-> "analyse", does |-> "verify", source |-> source, policy |-> InForce]]
     \/ attempt' = [attempt EXCEPT ![a] = [at |-> "analyse", does |-> "enrol", source |-> source]]
  /\ UNCHANGED activePolicy

Analyse(a) ==
  LET call == attempt[a] IN
  /\ call.at = "analyse"
  /\ \E said \in Reply(call.source) :
       attempt' = [attempt EXCEPT ![a] =
         IF call.does = "verify"
         THEN [at |-> "compare", does |-> "verify", source |-> call.source, policy |-> call.policy, said |-> said]
         ELSE [at |-> "read policy", does |-> "enrol", source |-> call.source, said |-> said]]
  /\ UNCHANGED activePolicy

Concludes(a, out, policy, match) ==
  attempt' = [attempt EXCEPT ![a] =
    [at |-> "done", does |-> attempt[a].does, source |-> attempt[a].source, policy |-> policy,
     said |-> attempt[a].said, match |-> match, out |-> out]]

Compare(a) ==
  LET call == attempt[a] IN
  /\ call.at = "compare"
  /\ \E match \in Match(call.source) :
       LET c == Comparison(call.source, call.said, match)
           seen == Analysis(call.source, call.said)
           out == IF c = None THEN Out("review", "SERVICE_UNAVAILABLE")
                  ELSE IF IsFace(call.source) THEN Decide(Thresholds(call.policy), seen, c)
                  ELSE DecideFingerprint(PLATFORM_DEFAULT_FP_POLICY, seen, c)
       IN Concludes(a, out, call.policy, match)
  /\ UNCHANGED activePolicy

\* createTemplate: a template, or an error when its reply lacks a field or does not come.
TemplateAnswers == {Out("enrolled", "none"), Out("none", "error")}

Enrol(a) ==
  LET call == attempt[a]
      gate == EnrolGate(call.source, PolicyFor(call.source), Analysis(call.source, call.said))
  IN /\ call.at = "read policy"
     /\ \E out \in (IF gate.decision = "enrolled" THEN TemplateAnswers ELSE {gate}) : Concludes(a, out, InForce, None)
     /\ UNCHANGED activePolicy

\* post: no answer in time, an error status or a reply without its fields becomes a review of a
\* verification and the error of an enrolment; an image of no or too many bytes, or an expired
\* captureRef, is an error for both.
ProviderLetsDown(a) ==
  /\ attempt[a].at \in {"analyse", "compare"}
  /\ \E out \in {Out("none", "error")} \cup
                (IF attempt[a].does = "verify" THEN {Out("review", "SERVICE_UNAVAILABLE")} ELSE {}) :
       attempt' = [attempt EXCEPT ![a] = [at |-> "done", does |-> attempt[a].does, source |-> "unavailable",
                                          out |-> out]]
  /\ UNCHANGED activePolicy

\* actionSetPolicy of the console.
SetPolicy(p) ==
  /\ activePolicy' = p
  /\ UNCHANGED attempt

DecisionsNext ==
  \/ \E a \in Attempt : Analyse(a) \/ Compare(a) \/ Enrol(a) \/ ProviderLetsDown(a)
  \/ \E a \in Attempt, source \in Source : BeginAttempt(a, source)
  \/ \E p \in Policy : SetPolicy(p)

DecisionsSpec == DecisionsInit /\ [][DecisionsNext]_decisionVars

-----------------------------------------------------------------------------
\* What the reply of the sidecar holds against an approval, and against the person.
Unusable(r, p) ==
  \/ r.detected = "false" \/ Less(r.quality, p.quality)
  \/ \E f \in DOMAIN r : \/ f = "pose" /\ r.pose # NaN /\ r.pose \notin -p.pose..p.pose
                         \/ f = "occlusion" /\ Greater(r.occlusion, p.occlusion)
                         \/ f = "minutiae" /\ Less(r.minutiae, PLATFORM_DEFAULT_FP_POLICY.minutiae)

Spoofed(r, p) == r.live = "false" \/ Less(r.liveness, p.liveness)

\* What a finished call has for its outcome.  A fixture of another person is a poor match: it
\* passes a policy that asks for no similarity at all.
Evident(call) ==
  LET d == call.out.decision
      p == Thresholds(call.policy)
  IN /\ call.source = "unavailable" => d \notin {"approved", "rejected", "enrolled"}
     /\ call.source = "face" =>
          /\ d \in {"approved", "enrolled"} => call.said.detected # "false" /\ ~Spoofed(call.said, p)
          /\ d = "approved" => ~Unusable(call.said, p) /\ AtLeast(call.match, p.approve)
          /\ d = "rejected" => \/ call.said.detected = "false" \/ Spoofed(call.said, p)
                               \/ Less(call.match, p.review)
     /\ call.source = "finger" =>
          /\ d = "approved" => /\ ~Unusable(call.said, PLATFORM_DEFAULT_FP_POLICY)
                               /\ call.match.score = 2 /\ call.match.present # "false" /\ call.match.live # "false"
          /\ d = "enrolled" => ~Unusable(call.said, PLATFORM_DEFAULT_FP_POLICY) /\ call.said.pad # "spoof"
          /\ d = "rejected" => call.match.score # NaN
     /\ call.source \in {"fake face", "fake finger"} /\ d = "approved" =>
          /\ call.said.live # "false"
          /\ call.said.person = "same" \/ (IsFace(call.source) /\ p.approve = 0)

\* An approval has all the evidence there is on its side, under the policy that was in force
\* when the call read it: a usable live capture and a score at the approval threshold, for a
\* fingerprint a live PAD result.  Nobody is rejected for an outage, a score that is no number
\* or a capture that is merely poor.  A template is never made of a spoof.
OutcomesAreEvidenced == \A a \in Attempt : Finished(a) => Evident(attempt[a])

\* "Any ... malformed response raises ProviderUnavailableError - callers route to REVIEW, never
\* approve": a reply with a number missing or a flag sent as text approves nobody.
MalformedNeverApproves ==
  \A a \in Attempt : Finished(a) /\ attempt[a].source = "face" /\ attempt[a].out.decision = "approved" =>
    LET r == attempt[a].said IN
    /\ NaN \notin {r.quality, r.pose, r.occlusion, r.liveness}
    /\ "text" \notin {r.detected, r.live}
=============================================================================
