------------------------------- MODULE MCVerify -------------------------------
(***************************************************************************)
(* One subject's fingerprint enrolment, verifications and a withdrawal,    *)
(* with one session for enrolment and one for verification that the calls  *)
(* race for; v2 is a face verification, which those sessions do not suit.  *)
(***************************************************************************)
EXTENDS Lifecycle

CONSTANTS alice, s1, e1, v2

MCSubjectOf == [c \in Capture \cup Retention \cup Deletion |-> alice]
MCConsentOf == [w \in Withdrawal |-> e1]
MCModalityOf == [c \in Capture |-> IF c = v2 THEN "face" ELSE "fingerprint"]
MCSessionPurpose == [s \in Session |-> IF s = s1 THEN "enrolment" ELSE "verification"]
MCSessionModality == [s \in Session |-> "fingerprint"]
=============================================================================
