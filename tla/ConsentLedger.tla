---------------------------- MODULE ConsentLedger ----------------------------
(***************************************************************************)
(* What the platform promises a data subject about consent.  A receipt is  *)
(* given once and withdrawn for good.  A check is matched at most once, in *)
(* one instant, and only against a receipt of the same subject and         *)
(* modality that stands in that instant; its result is final, and an       *)
(* approval has a match.  An erasure is complete only when every receipt   *)
(* that the subject had given before it began is withdrawn.                *)
(***************************************************************************)
CONSTANTS Receipt, Check, Erasure, SubjectOf, ModalityOf, None

VARIABLES
  consent,   \* "none", "given" or "withdrawn"
  matched,   \* the receipt a check was matched against
  result,    \* what a check came to
  erasure,   \* "none", "begun" or "completed"
  found      \* the receipts an erasure has to withdraw

Init ==
  /\ consent = [e \in Receipt |-> "none"]
  /\ matched = [v \in Check |-> None] /\ result = [v \in Check |-> None]
  /\ erasure = [d \in Erasure |-> "none"] /\ found = [d \in Erasure |-> {}]

Give(e) ==
  /\ consent[e] = "none"
  /\ consent' = [consent EXCEPT ![e] = "given"]
  /\ UNCHANGED <<matched, result, erasure, found>>

\* One receipt, or all that a subject has given.
Withdraw(gone) ==
  /\ \A e, f \in gone : consent[e] = "given" /\ SubjectOf[e] = SubjectOf[f]
  /\ consent' = [e \in Receipt |-> IF e \in gone THEN "withdrawn" ELSE consent[e]]
  /\ UNCHANGED <<matched, result, erasure, found>>

Match(v, e) ==
  /\ matched[v] = None /\ result[v] = None
  /\ consent[e] = "given" /\ SubjectOf[e] = SubjectOf[v] /\ ModalityOf[e] = ModalityOf[v]
  /\ matched' = [matched EXCEPT ![v] = e]
  /\ UNCHANGED <<consent, result, erasure, found>>

Conclude(v, decision) ==
  /\ result[v] = None
  /\ decision = "approved" => matched[v] # None
  /\ result' = [result EXCEPT ![v] = decision]
  /\ UNCHANGED <<consent, matched, erasure, found>>

Begin(d) ==
  /\ erasure[d] = "none"
  /\ erasure' = [erasure EXCEPT ![d] = "begun"]
  /\ found' = [found EXCEPT ![d] =
                 {e \in Receipt : consent[e] # "none" /\ SubjectOf[e] = SubjectOf[d]}]
  /\ UNCHANGED <<consent, matched, result>>

Complete(d) ==
  /\ erasure[d] = "begun"
  /\ \A e \in found[d] : consent[e] = "withdrawn"
  /\ erasure' = [erasure EXCEPT ![d] = "completed"]
  /\ UNCHANGED <<consent, matched, result, found>>

Next ==
  \/ \E e \in Receipt : Give(e)
  \/ \E gone \in SUBSET Receipt : Withdraw(gone)
  \/ \E v \in Check : \/ \E e \in Receipt : Match(v, e)
                      \/ \E decision \in {"approved", "review", "rejected"} : Conclude(v, decision)
  \/ \E d \in Erasure : Begin(d) \/ Complete(d)

vars == <<consent, matched, result, erasure, found>>

Spec == Init /\ [][Next]_vars

=============================================================================
