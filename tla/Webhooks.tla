------------------------------ MODULE Webhooks ------------------------------
(***************************************************************************)
(* Webhook deliveries, sent by the handler of the webhooks.deliver job.    *)
(* The rows are read without being claimed and updated by id alone, so     *)
(* overlapping jobs may send the same delivery: delivery is at least once. *)
(* An endpoint is active and answers 2xx or not (a timeout counts as not). *)
(***************************************************************************)
EXTENDS Jobs

CONSTANTS
  Delivery,   \* rows of webhook_deliveries
  MaxPosts    \* MAX_ATTEMPTS

ASSUME WebhookArguments == MaxPosts \in Nat \ {0} /\ None \notin Delivery

VARIABLES
  deliveries,  \* status ("none" before the insert) and attempts
  ripe,        \* rows whose next_attempt_at has passed
  rows,        \* rows each worker has read and not yet sent, with their attempts
  sending,     \* the row it sends
  accepted,    \* whether the endpoint answered it with 2xx
  posts,       \* history: how often a delivery was sent, counted to MaxPosts
  acked        \* history: deliveries some endpoint has accepted

webhookVars == <<deliveries, ripe, rows, sending, accepted, posts, acked>>

DeliveryStatus == {"none", "pending", "failed", "delivered", "dead"}

DeliveryRow == [delivery : Delivery, attempts : 0 .. MaxPosts]

ASSUME NoneIsNoDeliveryRow == None \notin DeliveryRow

\* The types of the deliveries' state, and which locals a worker has where.
WebhookTypeOK ==
  /\ deliveries \in [Delivery -> [status : DeliveryStatus, attempts : 0 .. MaxPosts]]
  /\ ripe \subseteq Delivery
  /\ rows \in [Worker -> SUBSET DeliveryRow]
  /\ sending \in [Worker -> DeliveryRow \cup {None}]
  /\ accepted \in [Worker -> BOOLEAN]
  /\ posts \in [Delivery -> 0 .. MaxPosts]
  /\ acked \subseteq Delivery
  /\ \A w \in Worker :
       /\ sending[w] # None <=> pc[w] = "answered"
       /\ pc[w] \notin {"delivering", "answered"} => rows[w] = {}

WebhookInit ==
  /\ deliveries = [d \in Delivery |-> [status |-> "none", attempts |-> 0]]
  /\ ripe = {}
  /\ rows = [w \in Worker |-> {}]
  /\ sending = [w \in Worker |-> None]
  /\ accepted = [w \in Worker |-> FALSE]
  /\ posts = [d \in Delivery |-> 0]
  /\ acked = {}

\* The INSERT of enqueueWebhook.
Enqueue(d) ==
  /\ deliveries[d].status = "none"
  /\ deliveries' = [deliveries EXCEPT ![d].status = "pending"]
  /\ ripe' = ripe \cup {d}
  /\ UNCHANGED <<queueVars, rows, sending, accepted, posts, acked>>

\* Mutant: only rows that have never been sent are read.
UnsentDue == {d \in ripe : deliveries[d].status = "pending"}

DueDeliveries == {d \in ripe : deliveries[d].status \in {"pending", "failed"}}

ListDue(w) ==
  /\ Moves(w, "running", "delivering")
  /\ rows' = [rows EXCEPT ![w] =
       {[delivery |-> d, attempts |-> deliveries[d].attempts] : d \in DueDeliveries}]
  /\ UNCHANGED <<jobs, due, slot, chosen, batch, current, runs, wins, lost, faults,
                 deliveries, ripe, sending, accepted, posts, acked>>

\* One POST and its answer.
Post(w, ok) ==
  \E r \in rows[w] :
    /\ Moves(w, "delivering", "answered")
    /\ rows' = [rows EXCEPT ![w] = @ \ {r}]
    /\ sending' = [sending EXCEPT ![w] = r]
    /\ accepted' = [accepted EXCEPT ![w] = ok]
    /\ posts' = [posts EXCEPT ![r.delivery] = IF @ < MaxPosts THEN @ + 1 ELSE @]
    /\ acked' = IF ok THEN acked \cup {r.delivery} ELSE acked
    /\ UNCHANGED <<jobs, due, slot, chosen, batch, current, runs, wins, lost, faults,
                   deliveries, ripe>>

\* Mutant: the attempts are compared with the maximum one too early.
StatusAfterEarly(r, ok) ==
  IF ok THEN "delivered" ELSE IF r.attempts + 2 >= MaxPosts THEN "dead" ELSE "failed"

StatusAfter(r, ok) ==
  IF ok THEN "delivered" ELSE IF r.attempts + 1 >= MaxPosts THEN "dead" ELSE "failed"

\* The UPDATE by id, with the attempts read by the SELECT plus one.
Record(w) ==
  LET r == sending[w] IN
  /\ Moves(w, "answered", "delivering")
  /\ deliveries' = [deliveries EXCEPT ![r.delivery] =
       [status |-> StatusAfter(r, accepted[w]), attempts |-> r.attempts + 1]]
  /\ ripe' = IF accepted[w] THEN ripe ELSE ripe \ {r.delivery}
  /\ sending' = [sending EXCEPT ![w] = None]
  /\ accepted' = [accepted EXCEPT ![w] = FALSE]
  /\ UNCHANGED <<jobs, due, slot, chosen, batch, current, runs, wins, lost, faults,
                 rows, posts, acked>>

\* The loop ends and the handler returns.
DeliverEnds(w) ==
  /\ rows[w] = {}
  /\ Returns(w, "delivering")
  /\ UNCHANGED webhookVars

\* decryptSecret (or a statement) throws out of the loop: the rest of the batch is left.
DeliverThrows(w) ==
  /\ Throws(w, "delivering")
  /\ rows' = [rows EXCEPT ![w] = {}]
  /\ UNCHANGED <<deliveries, ripe, sending, accepted, posts, acked>>

\* next_attempt_at passes.
RetryDue(d) ==
  /\ deliveries[d].status = "failed" /\ d \notin ripe
  /\ ripe' = ripe \cup {d}
  /\ UNCHANGED <<queueVars, deliveries, rows, sending, accepted, posts, acked>>

\* What a process that dies forgets.
Forgets(w) ==
  /\ rows' = [rows EXCEPT ![w] = {}]
  /\ sending' = [sending EXCEPT ![w] = None]
  /\ accepted' = [accepted EXCEPT ![w] = FALSE]
  /\ UNCHANGED <<deliveries, ripe, posts, acked>>

=============================================================================
