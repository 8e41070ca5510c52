------------------------------ MODULE AuditLog ------------------------------
(***************************************************************************)
(* What the audit trail promises: a chain that only grows, at its end.     *)
(* Every event is linked to the one that was the newest when it was added. *)
(***************************************************************************)
CONSTANTS Event, None

VARIABLES
  chain,  \* links: an event and the one before it
  head    \* the newest event

Init == chain = {} /\ head = None

Append(e) ==
  /\ \A link \in chain : link.event # e
  /\ chain' = chain \cup {[event |-> e, prev |-> head]}
  /\ head' = e

Next == \E e \in Event : Append(e)

Spec == Init /\ [][Next]_<<chain, head>>

=============================================================================
