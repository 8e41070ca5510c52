------------------------------- MODULE Retries -------------------------------
(***************************************************************************)
(* What the job queue and the webhook deliveries promise: work is tried    *)
(* again until a try succeeds or Max of them have ended.  It is done at    *)
(* least once, not once: a late failure may reopen what had succeeded.     *)
(***************************************************************************)
EXTENDS Naturals

CONSTANTS Item, Max

VARIABLES
  status,  \* "none", "open", "succeeded" or "dead"
  tries,   \* how many tries have ended, counted to Max
  won,     \* items of which some try has succeeded
  lost     \* items whose worker died

Init ==
  /\ status = [i \in Item |-> "none"] /\ tries = [i \in Item |-> 0]
  /\ won = {} /\ lost = {}

Sets(i, from, to) ==
  /\ status[i] \in from
  /\ status' = [status EXCEPT ![i] = to]
  /\ UNCHANGED <<tries, won, lost>>

Submit(i) == Sets(i, {"none"}, "open")

\* A try of anything that was submitted ends, well or not; the last ones go uncounted.
Try(i, ok) ==
  /\ status[i] # "none"
  /\ tries' = [tries EXCEPT ![i] = IF @ < Max THEN @ + 1 ELSE @]
  /\ won' = IF ok THEN won \cup {i} ELSE won
  /\ UNCHANGED <<status, lost>>

Succeed(i) == i \in won /\ Sets(i, {"open", "dead"}, "succeeded")

Die(i) == tries[i] = Max /\ Sets(i, {"open", "succeeded"}, "dead")

\* Late failures, claims of what was settled meanwhile, or somebody's wish.
Reopen(some) ==
  /\ \A i \in some : status[i] \in {"succeeded", "dead"}
  /\ status' = [i \in Item |-> IF i \in some THEN "open" ELSE status[i]]
  /\ UNCHANGED <<tries, won, lost>>

\* A worker dies with what it had in its hands.
Lose(gone) ==
  /\ \A i \in gone : status[i] # "none"
  /\ lost' = lost \cup gone
  /\ UNCHANGED <<status, tries, won>>

\* Work that is settled or lost, and only that, makes room for other work of its name.
Replace(i) ==
  /\ status[i] # "open" \/ i \in lost
  /\ status' = [status EXCEPT ![i] = "none"] /\ tries' = [tries EXCEPT ![i] = 0]
  /\ won' = won \ {i} /\ lost' = lost \ {i}

Next ==
  \/ \E i \in Item : \/ Submit(i) \/ Succeed(i) \/ Die(i) \/ Replace(i)
                     \/ \E ok \in BOOLEAN : Try(i, ok)
  \/ \E some \in SUBSET Item : Reopen(some) \/ Lose(some)

vars == <<status, tries, won, lost>>

Spec == Init /\ [][Next]_vars

=============================================================================
