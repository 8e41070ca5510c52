-------------------------------- MODULE Jobs --------------------------------
(***************************************************************************)
(* The background job queue: ensureRecurringJobs, scheduleJob, runDueJobs  *)
(* and retryDeadJob, run by any number of worker processes.  A row stands  *)
(* for one slot of a recurring job; a row nobody will look at again is     *)
(* used for a later slot (NextSlot), which bounds an endless table.  What  *)
(* a handler does is left to the modules that extend this one: it returns  *)
(* or it throws.                                                           *)
(***************************************************************************)
EXTENDS Naturals, FiniteSets

CONSTANTS
  Worker,       \* worker processes
  Job,          \* rows of the jobs table
  Limit,        \* rows one runDueJobs claims
  MaxAttempts,  \* jobs.max_attempts
  MaxFaults,    \* crashes and thrown handlers in a behaviour (a bound)
  None          \* no row

ASSUME QueueArguments ==
  /\ Limit \in Nat \ {0} /\ MaxAttempts \in Nat \ {0}
  /\ MaxFaults \in Nat /\ None \notin Job

VARIABLES
  jobs,      \* status ("none" before the insert) and attempts, counted to MaxAttempts
  due,       \* rows whose next_run_at has passed
  slot,      \* the row of the current time slot
  pc,        \* where each worker is
  chosen,    \* rows a worker's claiming UPDATE has found due
  batch,     \* rows RETURNed to it and not started, with the attempts they had
  current,   \* the row it runs
  runs,      \* history: handler runs of a row that ended, counted to MaxAttempts
  wins,      \* history: rows of which some handler run returned
  lost,      \* history: rows that a worker claimed and will not finish
  faults     \* history: crashes and thrown handlers so far

queueVars == <<jobs, due, slot, pc, chosen, batch, current, runs, wins, lost, faults>>

JobStatus == {"none", "pending", "running", "failed", "succeeded", "dead"}

Row == [status : JobStatus, attempts : 0 .. MaxAttempts]

Claim == [job : Job, attempts : 0 .. MaxAttempts]

ASSUME NoneIsNoClaim == None \notin Claim

WorkerPc == {"idle", "choosing", "claiming", "looping", "running", "returned", "thrown",
             "delivering", "answered"}

\* The types of the queue's state, and which locals a worker has where.
QueueTypeOK ==
  /\ jobs \in [Job -> Row]
  /\ due \subseteq Job
  /\ slot \in Job
  /\ pc \in [Worker -> WorkerPc]
  /\ chosen \in [Worker -> SUBSET Job]
  /\ batch \in [Worker -> SUBSET Claim]
  /\ current \in [Worker -> Claim \cup {None}]
  /\ runs \in [Job -> 0 .. MaxAttempts]
  /\ wins \subseteq Job /\ lost \subseteq Job
  /\ faults \in 0 .. MaxFaults
  /\ \A w \in Worker :
       /\ current[w] = None <=>
            pc[w] \notin {"running", "returned", "thrown", "delivering", "answered"}
       /\ pc[w] \in {"idle", "choosing", "claiming"} => batch[w] = {}
       /\ pc[w] # "claiming" => chosen[w] = {}

NoRow == [status |-> "none", attempts |-> 0]

QueueInit ==
  /\ jobs = [j \in Job |-> NoRow]
  /\ due = {} /\ slot \in Job
  /\ pc = [w \in Worker |-> "idle"]
  /\ chosen = [w \in Worker |-> {}]
  /\ batch = [w \in Worker |-> {}]
  /\ current = [w \in Worker |-> None]
  /\ runs = [j \in Job |-> 0]
  /\ wins = {} /\ lost = {} /\ faults = 0

Moves(w, from, to) ==
  /\ pc[w] = from
  /\ pc' = [pc EXCEPT ![w] = to]

\* Rows worker w has claimed and not settled.
Holding(w) == {c.job : c \in batch[w]}
              \cup (IF current[w] = None THEN {} ELSE {current[w].job})

-----------------------------------------------------------------------------
\* ensureRecurringJobs: scheduleJob inserts the row of the current slot unless
\* dedupe_key shows it has been inserted already.
EnsureRecurring(w) ==
  /\ Moves(w, "idle", "choosing")
  /\ IF jobs[slot].status = "none"
     THEN /\ jobs' = [jobs EXCEPT ![slot].status = "pending"]
          /\ due' = due \cup {slot}
     ELSE UNCHANGED <<jobs, due>>
  /\ UNCHANGED <<slot, chosen, batch, current, runs, wins, lost, faults>>

\* The clock enters the next slot, which takes a row of its own.
NextSlot(j) ==
  /\ jobs[j].status \in {"none", "succeeded", "dead"} \/ j \in lost
  /\ \A w \in Worker : j \notin chosen[w] \cup Holding(w)
  /\ slot' = j
  /\ jobs' = [jobs EXCEPT ![j] = NoRow]
  /\ due' = due \ {j}
  /\ runs' = [runs EXCEPT ![j] = 0]
  /\ wins' = wins \ {j} /\ lost' = lost \ {j}
  /\ UNCHANGED <<pc, chosen, batch, current, faults>>

\* Mutant: rows that failed are not looked at again.
ClaimableOnce == {j \in due : jobs[j].status = "pending"}

Claimable == {j \in due : jobs[j].status \in {"pending", "failed"}}

\* runDueJobs, the sub-SELECT of the claiming UPDATE.
ChooseDue(w) ==
  \E chunk \in SUBSET Claimable :
    /\ Cardinality(chunk) = IF Cardinality(Claimable) < Limit THEN Cardinality(Claimable)
                            ELSE Limit
    /\ Moves(w, "choosing", "claiming")
    /\ chosen' = [chosen EXCEPT ![w] = chunk]
    /\ UNCHANGED <<jobs, due, slot, batch, current, runs, wins, lost, faults>>

\* Its outer UPDATE.  It waits for the row locks of another worker's claim and then checks
\* its condition again on the new row, id IN (the ids chosen above), which still holds:
\* the status is only looked at by the sub-SELECT, and nothing says FOR UPDATE.
ClaimChosen(w) ==
  /\ Moves(w, "claiming", "looping")
  /\ jobs' = [j \in Job |-> IF j \in chosen[w] THEN [jobs[j] EXCEPT !.status = "running"]
                            ELSE jobs[j]]
  /\ batch' = [batch EXCEPT ![w] = {[job |-> j, attempts |-> jobs[j].attempts] : j \in chosen[w]}]
  /\ chosen' = [chosen EXCEPT ![w] = {}]
  /\ UNCHANGED <<due, slot, current, runs, wins, lost, faults>>

\* The loop takes the next row and calls its handler ...
StartHandler(w) ==
  \E c \in batch[w] :
    /\ Moves(w, "looping", "running")
    /\ batch' = [batch EXCEPT ![w] = @ \ {c}]
    /\ current' = [current EXCEPT ![w] = c]
    /\ UNCHANGED <<jobs, due, slot, chosen, runs, wins, lost, faults>>

OneMore(n) == IF n < MaxAttempts THEN n + 1 ELSE n

Counted(j) == runs' = [runs EXCEPT ![j] = OneMore(@)]

\* ... which returns ...
Returns(w, from) ==
  /\ Moves(w, from, "returned")
  /\ Counted(current[w].job)
  /\ wins' = wins \cup {current[w].job}
  /\ UNCHANGED <<jobs, due, slot, chosen, batch, current, lost, faults>>

\* ... or throws.
Throws(w, from) ==
  /\ faults < MaxFaults
  /\ Moves(w, from, "thrown")
  /\ Counted(current[w].job)
  /\ faults' = faults + 1
  /\ UNCHANGED <<jobs, due, slot, chosen, batch, current, wins, lost>>

\* The row is settled by its id alone, with the attempts it had when claimed plus one.
Settle(w, status) ==
  LET c == current[w] IN
  /\ jobs' = [jobs EXCEPT ![c.job] = [status |-> status, attempts |-> OneMore(c.attempts)]]
  /\ current' = [current EXCEPT ![w] = None]
  /\ UNCHANGED <<slot, chosen, batch, runs, wins, lost, faults>>

SettleSuccess(w) ==
  /\ Moves(w, "returned", "looping")
  /\ Settle(w, "succeeded")
  /\ UNCHANGED due

\* The UPDATE above stands inside the try: when it fails, the run is settled as a failure.
SettleSuccessFails(w) ==
  /\ faults < MaxFaults
  /\ Moves(w, "returned", "thrown")
  /\ faults' = faults + 1
  /\ UNCHANGED <<jobs, due, slot, chosen, batch, current, runs, wins, lost>>

\* Mutant: the last attempt is taken to be the one after the maximum.
SettleFailureEarly(w) ==
  /\ Moves(w, "thrown", "looping")
  /\ Settle(w, IF current[w].attempts + 2 >= MaxAttempts THEN "dead" ELSE "failed")
  /\ due' = due \ {current[w].job}

\* A failed row waits for its backoff, or is dead after its last attempt.
SettleFailure(w) ==
  /\ Moves(w, "thrown", "looping")
  /\ Settle(w, IF current[w].attempts + 1 >= MaxAttempts THEN "dead" ELSE "failed")
  /\ due' = due \ {current[w].job}

\* Mutant: the tick ends with the first row.
EndTickEarly(w) ==
  /\ Moves(w, "looping", "idle")
  /\ UNCHANGED <<jobs, due, slot, chosen, batch, current, runs, wins, lost, faults>>

\* The batch is done and the worker sleeps until its next tick.
EndTick(w) ==
  /\ batch[w] = {}
  /\ Moves(w, "looping", "idle")
  /\ UNCHANGED <<jobs, due, slot, chosen, batch, current, runs, wins, lost, faults>>

\* The process dies and is started again, or a statement of runDueJobs throws out of the
\* tick: what it had claimed stays "running", and nothing selects such a row again.
TickDies(w) ==
  /\ pc[w] # "idle" /\ faults < MaxFaults
  /\ pc' = [pc EXCEPT ![w] = "idle"]
  /\ chosen' = [chosen EXCEPT ![w] = {}]
  /\ batch' = [batch EXCEPT ![w] = {}]
  /\ current' = [current EXCEPT ![w] = None]
  /\ lost' = lost \cup Holding(w)
  /\ faults' = faults + 1
  /\ UNCHANGED <<jobs, due, slot, runs, wins>>

\* next_run_at passes.
BackoffEnds(j) ==
  /\ jobs[j].status = "failed" /\ j \notin due
  /\ due' = due \cup {j}
  /\ UNCHANGED <<jobs, slot, pc, chosen, batch, current, runs, wins, lost, faults>>

\* retryDeadJob leaves attempts as they are.
RetryDead(j) ==
  /\ jobs[j].status = "dead"
  /\ jobs' = [jobs EXCEPT ![j].status = "pending"]
  /\ due' = due \cup {j}
  /\ UNCHANGED <<slot, pc, chosen, batch, current, runs, wins, lost, faults>>

=============================================================================
