------------------------------- MODULE Worker -------------------------------
(***************************************************************************)
(* Worker processes (jobs/worker.ts): each tick schedules the recurring    *)
(* job, claims what is due and runs it.  The job is webhooks.deliver.      *)
(***************************************************************************)
EXTENDS Webhooks

vars == <<queueVars, webhookVars>>

\* The queue and the deliveries stay within their types.
TypeOK == QueueTypeOK /\ WebhookTypeOK

Init == QueueInit /\ WebhookInit

Tick(w) ==
  \/ /\ \/ EnsureRecurring(w) \/ ChooseDue(w) \/ ClaimChosen(w)
        \/ StartHandler(w) \/ SettleSuccess(w) \/ SettleFailure(w) \/ EndTick(w)
     /\ UNCHANGED webhookVars
  \/ ListDue(w) \/ (\E ok \in BOOLEAN : Post(w, ok)) \/ Record(w) \/ DeliverEnds(w)

Fault(w) ==
  \/ DeliverThrows(w)
  \/ SettleSuccessFails(w) /\ UNCHANGED webhookVars
  \/ TickDies(w) /\ Forgets(w)

Clock ==
  \/ (\E j \in Job : NextSlot(j) \/ BackoffEnds(j)) /\ UNCHANGED webhookVars
  \/ \E d \in Delivery : RetryDue(d)

Operator == (\E j \in Job : RetryDead(j)) /\ UNCHANGED webhookVars

Next ==
  \/ \E w \in Worker : Tick(w) \/ Fault(w)
  \/ Clock
  \/ Operator
  \/ \E d \in Delivery : Enqueue(d)

\* The worker's loop never stops, the transport times out after ten seconds, and time passes
\* for every row.  Nothing is assumed of the endpoints, the faults and the operator.
Fairness ==
  /\ \A w \in Worker : WF_vars(Tick(w))
  /\ WF_vars((\E j \in Job : NextSlot(j)) /\ UNCHANGED webhookVars)
  /\ \A j \in Job : WF_vars(BackoffEnds(j) /\ UNCHANGED webhookVars)
  /\ \A d \in Delivery : WF_vars(RetryDue(d))

Spec == Init /\ [][Next]_vars /\ Fairness

-----------------------------------------------------------------------------
\* A row is dead only after max_attempts runs of its handler ended, and has succeeded only if
\* one of them returned, whichever workers ran it and overwrote each other's settlement.
JobOutcomesAreHonest ==
  \A j \in Job :
    /\ jobs[j].status = "dead" => runs[j] = MaxAttempts
    /\ jobs[j].status = "succeeded" => j \in wins

\* A delivery is "delivered" only if an endpoint accepted it and dead only after MAX_ATTEMPTS
\* POSTs, although overlapping jobs update the row from stale reads.
DeliveriesAreHonest ==
  \A d \in Delivery :
    /\ deliveries[d].status = "delivered" => d \in acked
    /\ deliveries[d].status = "dead" => posts[d] = MaxPosts

\* Every scheduled row is run to an end, unless a worker that had claimed it died.
JobsFinish ==
  \A j \in Job :
    jobs[j].status \in {"pending", "failed"} ~>
      jobs[j].status \in {"none", "succeeded", "dead"} \/ j \in lost

\* Every delivery is settled for good in the end: a late failure may reopen one that was
\* delivered or dead, but only finitely often, and lost jobs are followed by the next slot's.
DeliveriesSettle ==
  \A d \in Delivery :
    deliveries[d].status = "pending" ~> [](deliveries[d].status \in {"delivered", "dead"})

\* framework.ts: "Safe to call concurrently: rows are claimed atomically."  No two workers
\* hold the same row.
ClaimsAreExclusive ==
  \A w1, w2 \in Worker : w1 # w2 => Holding(w1) \cap Holding(w2) = {}

\* Both tables as their readers see them: waiting, running and failed rows are open.
Seen(row) == CASE row.status \in {"pending", "running", "failed"} -> "open"
               [] row.status = "delivered" -> "succeeded"
               [] OTHER -> row.status

JobStates == [j \in Job |-> Seen(jobs[j])]

DeliveryStates == [d \in Delivery |-> Seen(deliveries[d])]

Queue == INSTANCE Retries WITH
  Item <- Job, Max <- MaxAttempts, status <- JobStates, tries <- runs, won <- wins, lost <- lost

Deliveries == INSTANCE Retries WITH
  Item <- Delivery, Max <- MaxPosts, status <- DeliveryStates, tries <- posts, won <- acked,
  lost <- {}

\* The queue and the deliveries are each retried as Retries promises, although every
\* settlement overwrites the row from what its worker read long before.
ImplementsRetries == Queue!Spec /\ Deliveries!Spec

=============================================================================
