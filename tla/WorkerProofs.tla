---------------------------- MODULE WorkerProofs ----------------------------
(***************************************************************************)
(* The outcomes of jobs and of webhook deliveries are honest whatever the  *)
(* workers do to each other's rows (JobOutcomesAreHonest,                  *)
(* DeliveriesAreHonest), for any number of workers, jobs and deliveries    *)
(* and any limits; and their types.                                        *)
(*                                                                         *)
(* A settlement writes a row by its id with the attempts its worker copied *)
(* when it claimed it, so the row alone says too little: the induction     *)
(* (JobsInv, DeliveriesInv) bounds every copy of attempts, in the table,   *)
(* in a batch and in a worker's hands, by the runs or POSTs that have      *)
(* really ended.  TypeOK needs the same bound, or attempts could pass      *)
(* MAX_ATTEMPTS.                                                           *)
(*                                                                         *)
(* From the same invariant, and from the rows still being there when they  *)
(* are settled (CarriedInv), both tables implement Retries.                *)
(***************************************************************************)
EXTENDS Worker, TLAPS

\* What worker w has in its hands has been run as often as its copy says, once more when
\* its handler has ended, and has succeeded when it returned.
HandsBacked(w) ==
  /\ \A c \in batch[w] : c.attempts <= runs[c.job]
  /\ pc[w] \in {"running", "delivering", "answered"} => current[w].attempts <= runs[current[w].job]
  /\ pc[w] \in {"returned", "thrown"} => OneMore(current[w].attempts) <= runs[current[w].job]
  /\ pc[w] = "returned" => current[w].job \in wins

JobsInv ==
  /\ \A j \in Job : jobs[j].attempts <= runs[j]
  /\ \A w \in Worker : HandsBacked(w)
  /\ JobOutcomesAreHonest

\* What worker w is to send may be sent once more, and what it has sent has been counted.
PostsBacked(w) ==
  /\ \A r \in rows[w] : r.attempts < MaxPosts /\ r.attempts <= posts[r.delivery]
  /\ sending[w] # None =>
       /\ sending[w].attempts < MaxPosts
       /\ sending[w].attempts + 1 <= posts[sending[w].delivery]
       /\ accepted[w] => sending[w].delivery \in acked

DeliveriesInv ==
  /\ \A d \in Delivery :
       /\ deliveries[d].attempts <= posts[d]
       /\ deliveries[d].status \in {"none", "pending", "failed"} => deliveries[d].attempts < MaxPosts
  /\ \A w \in Worker : PostsBacked(w)
  /\ DeliveriesAreHonest

-----------------------------------------------------------------------------
(***************************************************************************)
(* Types.                                                                  *)
(***************************************************************************)
USE DEF Moves

\* The workers with a row in their hands, and those that list deliveries.
Handling == {"running", "returned", "thrown", "delivering", "answered"}

\* Raising a count that stops at n.
LEMMA CountsStop ==
  ASSUME NEW n \in Nat, NEW k \in 0 .. n
  PROVE  /\ (IF k < n THEN k + 1 ELSE k) \in 0 .. n
         /\ k <= (IF k < n THEN k + 1 ELSE k)
         /\ \A i \in 0 .. n : i <= k => (IF i < n THEN i + 1 ELSE i) <= (IF k < n THEN k + 1 ELSE k)
         /\ \A i \in 0 .. n : i < n /\ i <= k => i + 1 <= (IF k < n THEN k + 1 ELSE k)
  OBVIOUS

\* OneMore counts one further, up to MAX_ATTEMPTS, and loses no order.
LEMMA OneMoreCounts ==
  ASSUME NEW k \in 0 .. MaxAttempts
  PROVE  /\ OneMore(k) \in 0 .. MaxAttempts
         /\ k <= OneMore(k)
         /\ k + 1 >= MaxAttempts => OneMore(k) = MaxAttempts
         /\ \A i \in 0 .. MaxAttempts : i <= k => OneMore(i) <= OneMore(k)
  BY QueueArguments DEF OneMore

\* The locals of a worker agree with where it is.
Located(w) ==
  /\ current[w] = None <=> pc[w] \notin Handling
  /\ pc[w] \in {"idle", "choosing", "claiming"} => batch[w] = {}
  /\ pc[w] # "claiming" => chosen[w] = {}
  /\ sending[w] # None <=> pc[w] = "answered"
  /\ pc[w] \notin {"delivering", "answered"} => rows[w] = {}

\* A worker's step disturbs no other worker's locals.
LEMMA OnlyOneMoves ==
  ASSUME TypeOK, NEW w \in Worker, NEW to \in WorkerPc, pc' = [pc EXCEPT ![w] = to],
         \A v \in Worker \ {w} : /\ current'[v] = current[v] /\ batch'[v] = batch[v]
                                 /\ chosen'[v] = chosen[v] /\ sending'[v] = sending[v]
                                 /\ rows'[v] = rows[v],
         Located(w)'
  PROVE  /\ pc' \in [Worker -> WorkerPc]
         /\ \A v \in Worker : Located(v)'
<1>1. pc \in [Worker -> WorkerPc]
  BY DEF TypeOK, QueueTypeOK
<1>2. ASSUME NEW v \in Worker, v # w
      PROVE  Located(v)'
  <2>1. pc'[v] = pc[v]
    BY <1>1, <1>2
  <2>2. Located(v)
    BY DEF TypeOK, QueueTypeOK, WebhookTypeOK, Located, Handling
  <2> QED
    BY <1>2, <2>1, <2>2 DEF Located
<1> QED
  BY <1>1, <1>2

\* The tables and what the workers carry, where they are left aside.
QueueTyped ==
  /\ jobs \in [Job -> Row] /\ due \subseteq Job /\ slot \in Job
  /\ chosen \in [Worker -> SUBSET Job]
  /\ batch \in [Worker -> SUBSET Claim]
  /\ current \in [Worker -> Claim \cup {None}]
  /\ runs \in [Job -> 0 .. MaxAttempts]
  /\ wins \subseteq Job /\ lost \subseteq Job
  /\ faults \in 0 .. MaxFaults

DeliveriesTyped ==
  /\ deliveries \in [Delivery -> [status : DeliveryStatus, attempts : 0 .. MaxPosts]]
  /\ ripe \subseteq Delivery
  /\ rows \in [Worker -> SUBSET DeliveryRow]
  /\ sending \in [Worker -> DeliveryRow \cup {None}]
  /\ accepted \in [Worker -> BOOLEAN]
  /\ posts \in [Delivery -> 0 .. MaxPosts]
  /\ acked \subseteq Delivery

\* TypeOK by what it says of the queue, the deliveries and each worker.
LEMMA TypeParts ==
  /\ TypeOK <=> /\ QueueTyped /\ DeliveriesTyped
                /\ pc \in [Worker -> WorkerPc]
                /\ \A w \in Worker : Located(w)
  /\ TypeOK' <=> /\ QueueTyped' /\ DeliveriesTyped'
                 /\ pc' \in [Worker -> WorkerPc]
                 /\ \A w \in Worker : Located(w)'
  BY DEF TypeOK, QueueTypeOK, WebhookTypeOK, QueueTyped, DeliveriesTyped, Located, Handling

\* A row of the queue that is written by its columns.
LEMMA RowTyped ==
  ASSUME NEW row \in Row, NEW status \in JobStatus
  PROVE  /\ [row EXCEPT !.status = status] \in Row
         /\ [row EXCEPT !.status = status].attempts = row.attempts
         /\ [row EXCEPT !.status = status].status = status
         /\ \A n \in 0 .. MaxAttempts : [status |-> status, attempts |-> n] \in Row
  BY DEF Row

\* A step of runDueJobs that starts, runs or ends a tick keeps the types.
LEMMA TickTypes ==
  ASSUME TypeOK, NEW w \in Worker, UNCHANGED webhookVars,
         EnsureRecurring(w) \/ ChooseDue(w) \/ ClaimChosen(w) \/ StartHandler(w) \/ EndTick(w)
  PROVE  TypeOK'
<1>0. QueueTyped /\ DeliveriesTyped /\ pc \in [Worker -> WorkerPc] /\ Located(w)
  BY TypeParts
<1>1. DeliveriesTyped'
  BY <1>0 DEF DeliveriesTyped, webhookVars
<1>2. CASE EnsureRecurring(w)
  <2>1. QueueTyped'
    <3>1. [jobs[slot] EXCEPT !.status = "pending"] \in Row
      BY <1>0, RowTyped DEF QueueTyped, JobStatus
    <3> QED
      BY <1>0, <1>2, <3>1 DEF EnsureRecurring, QueueTyped
  <2>2. Located(w)'
    BY <1>0, <1>2 DEF EnsureRecurring, Located, Handling, webhookVars
  <2>3. PICK to \in {"choosing"} : pc' = [pc EXCEPT ![w] = to]
    BY <1>2 DEF EnsureRecurring
  <2>4. pc' \in [Worker -> WorkerPc] /\ \A v \in Worker : Located(v)'
    BY <1>2, <2>2, <2>3, OnlyOneMoves DEF EnsureRecurring, WorkerPc, webhookVars
  <2> QED
    BY <1>1, <2>1, <2>4, TypeParts
<1>3. CASE ChooseDue(w)
  <2>0. PICK chunk \in SUBSET Claimable : chosen' = [chosen EXCEPT ![w] = chunk]
    BY <1>3 DEF ChooseDue
  <2>1. QueueTyped'
    BY <1>0, <1>3, <2>0 DEF ChooseDue, QueueTyped, Claimable
  <2>2. Located(w)'
    BY <1>0, <1>3 DEF ChooseDue, Located, Handling, webhookVars
  <2>3. PICK to \in {"claiming"} : pc' = [pc EXCEPT ![w] = to]
    BY <1>3 DEF ChooseDue
  <2>4. pc' \in [Worker -> WorkerPc] /\ \A v \in Worker : Located(v)'
    BY <1>0, <1>3, <2>0, <2>2, <2>3, OnlyOneMoves DEF ChooseDue, WorkerPc, webhookVars, QueueTyped
  <2> QED
    BY <1>1, <2>1, <2>4, TypeParts
<1>4. CASE ClaimChosen(w)
  <2> DEFINE taken == {[job |-> j, attempts |-> jobs[j].attempts] : j \in chosen[w]}
  <2>1. QueueTyped'
    <3>1. \A j \in Job : jobs[j] \in Row /\ [jobs[j] EXCEPT !.status = "running"] \in Row
      BY <1>0, RowTyped DEF QueueTyped, JobStatus
    <3>2. taken \subseteq Claim
      BY <1>0, <3>1 DEF QueueTyped, Claim, Row
    <3>3. jobs' \in [Job -> Row]
      BY <1>4, <3>1 DEF ClaimChosen
    <3> QED
      BY <1>0, <1>4, <3>2, <3>3 DEF ClaimChosen, QueueTyped
  <2>2. Located(w)'
    BY <1>0, <1>4 DEF ClaimChosen, Located, Handling, webhookVars, QueueTyped
  <2>3. PICK to \in {"looping"} : pc' = [pc EXCEPT ![w] = to]
    BY <1>4 DEF ClaimChosen
  <2>4. pc' \in [Worker -> WorkerPc] /\ \A v \in Worker : Located(v)'
    BY <1>0, <1>4, <2>2, <2>3, OnlyOneMoves DEF ClaimChosen, WorkerPc, webhookVars, QueueTyped
  <2> QED
    BY <1>1, <2>1, <2>4, TypeParts
<1>5. CASE StartHandler(w)
  <2>0. PICK c \in batch[w] : /\ batch' = [batch EXCEPT ![w] = @ \ {c}]
                              /\ current' = [current EXCEPT ![w] = c]
    BY <1>5 DEF StartHandler
  <2>1. QueueTyped'
    BY <1>0, <1>5, <2>0 DEF StartHandler, QueueTyped
  <2>2. Located(w)'
    <3>1. c \in Claim /\ c # None
      BY <1>0, <2>0, NoneIsNoClaim DEF QueueTyped
    <3> QED
      BY <1>0, <1>5, <2>0, <3>1 DEF StartHandler, Located, Handling, webhookVars, QueueTyped
  <2>3. PICK to \in {"running"} : pc' = [pc EXCEPT ![w] = to]
    BY <1>5 DEF StartHandler
  <2>4. pc' \in [Worker -> WorkerPc] /\ \A v \in Worker : Located(v)'
    BY <1>0, <1>5, <2>0, <2>2, <2>3, OnlyOneMoves DEF StartHandler, WorkerPc, webhookVars, QueueTyped
  <2> QED
    BY <1>1, <2>1, <2>4, TypeParts
<1>6. CASE EndTick(w)
  <2>1. QueueTyped'
    BY <1>0, <1>6 DEF EndTick, QueueTyped
  <2>2. Located(w)'
    BY <1>0, <1>6 DEF EndTick, Located, Handling, webhookVars
  <2>3. PICK to \in {"idle"} : pc' = [pc EXCEPT ![w] = to]
    BY <1>6 DEF EndTick
  <2>4. pc' \in [Worker -> WorkerPc] /\ \A v \in Worker : Located(v)'
    BY <1>6, <2>2, <2>3, OnlyOneMoves DEF EndTick, WorkerPc, webhookVars
  <2> QED
    BY <1>1, <2>1, <2>4, TypeParts
<1> QED
  BY <1>2, <1>3, <1>4, <1>5, <1>6

\* The end of a run, or of the process, keeps the types.
LEMMA SettleTypes ==
  ASSUME TypeOK, NEW w \in Worker,
         \/ (SettleSuccess(w) \/ SettleFailure(w) \/ SettleSuccessFails(w)) /\ UNCHANGED webhookVars
         \/ TickDies(w) /\ Forgets(w)
  PROVE  TypeOK'
<1>0. /\ QueueTyped /\ DeliveriesTyped /\ pc \in [Worker -> WorkerPc] /\ Located(w)
      /\ None \notin Claim /\ None \notin DeliveryRow
  BY TypeParts, NoneIsNoClaim, NoneIsNoDeliveryRow
<1>1. ASSUME NEW status \in JobStatus, Settle(w, status), due' \subseteq Job,
             Moves(w, "returned", "looping") \/ Moves(w, "thrown", "looping"), UNCHANGED webhookVars
      PROVE  TypeOK'
  <2>1. current[w] \in Claim
    BY <1>0, <1>1 DEF Located, Handling, QueueTyped
  <2>2. [status |-> status, attempts |-> OneMore(current[w].attempts)] \in Row
    BY <2>1, OneMoreCounts DEF Row, Claim
  <2>3. QueueTyped'
    BY <1>0, <1>1, <2>2 DEF Settle, QueueTyped
  <2>4. DeliveriesTyped'
    BY <1>0, <1>1 DEF DeliveriesTyped, webhookVars
  <2>5. Located(w)'
    BY <1>0, <1>1 DEF Settle, Located, Handling, webhookVars, QueueTyped
  <2>6. PICK to \in {"looping"} : pc' = [pc EXCEPT ![w] = to]
    BY <1>1
  <2>7. pc' \in [Worker -> WorkerPc] /\ \A v \in Worker : Located(v)'
    BY <1>0, <1>1, <2>5, <2>6, OnlyOneMoves DEF Settle, WorkerPc, webhookVars, QueueTyped
  <2> QED
    BY <2>3, <2>4, <2>7, TypeParts
<1>2. CASE SettleSuccess(w) /\ UNCHANGED webhookVars
  <2>1. PICK status \in {"succeeded"} : Settle(w, status)
    BY <1>2 DEF SettleSuccess
  <2> QED
    BY <1>0, <1>1, <1>2, <2>1 DEF SettleSuccess, JobStatus, QueueTyped
<1>3. CASE SettleFailure(w) /\ UNCHANGED webhookVars
  <2>1. PICK status \in {"dead", "failed"} : Settle(w, status)
    BY <1>3 DEF SettleFailure
  <2>2. due' \subseteq Job
    BY <1>0, <1>3 DEF SettleFailure, QueueTyped
  <2>3. Moves(w, "thrown", "looping")
    BY <1>3 DEF SettleFailure
  <2> QED
    BY <1>1, <1>3, <2>1, <2>2, <2>3 DEF JobStatus
<1>4. CASE SettleSuccessFails(w) /\ UNCHANGED webhookVars
  <2>1. QueueTyped' /\ DeliveriesTyped'
    BY <1>0, <1>4, QueueArguments DEF SettleSuccessFails, QueueTyped, DeliveriesTyped, webhookVars
  <2>2. Located(w)'
    BY <1>0, <1>4 DEF SettleSuccessFails, Located, Handling, webhookVars
  <2>3. PICK to \in {"thrown"} : pc' = [pc EXCEPT ![w] = to]
    BY <1>4 DEF SettleSuccessFails
  <2>4. pc' \in [Worker -> WorkerPc] /\ \A v \in Worker : Located(v)'
    BY <1>4, <2>2, <2>3, OnlyOneMoves DEF SettleSuccessFails, WorkerPc, webhookVars
  <2> QED
    BY <2>1, <2>4, TypeParts
<1>5. CASE TickDies(w) /\ Forgets(w)
  <2>0. Holding(w) \subseteq Job
    BY <1>0 DEF Holding, QueueTyped, Claim
  <2>1. QueueTyped'
    BY <1>0, <1>5, <2>0, QueueArguments DEF TickDies, QueueTyped
  <2>2. DeliveriesTyped'
    BY <1>0, <1>5 DEF Forgets, DeliveriesTyped
  <2>3. Located(w)'
    BY <1>0, <1>5 DEF TickDies, Forgets, Located, Handling, QueueTyped, DeliveriesTyped
  <2>4. PICK to \in {"idle"} : pc' = [pc EXCEPT ![w] = to]
    BY <1>5 DEF TickDies
  <2>5. pc' \in [Worker -> WorkerPc] /\ \A v \in Worker : Located(v)'
    <3>1. \A v \in Worker \ {w} : /\ current'[v] = current[v] /\ batch'[v] = batch[v]
                                  /\ chosen'[v] = chosen[v] /\ sending'[v] = sending[v]
                                  /\ rows'[v] = rows[v]
      BY <1>0, <1>5 DEF TickDies, Forgets, QueueTyped, DeliveriesTyped
    <3> QED
      BY <2>3, <2>4, <3>1, OnlyOneMoves DEF WorkerPc
  <2> QED
    BY <2>1, <2>2, <2>5, TypeParts
<1> QED
  BY <1>2, <1>3, <1>4, <1>5

\* A step of the handler of webhooks.deliver keeps the types.
LEMMA DeliverTypes ==
  ASSUME TypeOK, DeliveriesInv, NEW w \in Worker,
         \/ ListDue(w) \/ \E ok \in BOOLEAN : Post(w, ok)
         \/ Record(w) \/ DeliverEnds(w) \/ DeliverThrows(w)
  PROVE  TypeOK'
<1>0. /\ QueueTyped /\ DeliveriesTyped /\ pc \in [Worker -> WorkerPc] /\ Located(w)
      /\ None \notin Claim /\ None \notin DeliveryRow /\ MaxPosts \in Nat \ {0}
  BY TypeParts, NoneIsNoClaim, NoneIsNoDeliveryRow, WebhookArguments
<1>1. CASE ListDue(w)
  <2> DEFINE listed == {[delivery |-> d, attempts |-> deliveries[d].attempts] : d \in DueDeliveries}
  <2>1. listed \subseteq DeliveryRow
    BY <1>0 DEF DeliveriesTyped, DueDeliveries, DeliveryRow
  <2>2. QueueTyped' /\ DeliveriesTyped'
    BY <1>0, <1>1, <2>1 DEF ListDue, QueueTyped, DeliveriesTyped
  <2>3. Located(w)'
    BY <1>0, <1>1 DEF ListDue, Located, Handling
  <2>4. PICK to \in {"delivering"} : pc' = [pc EXCEPT ![w] = to]
    BY <1>1 DEF ListDue
  <2>5. pc' \in [Worker -> WorkerPc] /\ \A v \in Worker : Located(v)'
    <3>1. \A v \in Worker \ {w} : rows'[v] = rows[v]
      BY <1>0, <1>1 DEF ListDue, DeliveriesTyped
    <3> QED
      BY <1>1, <2>3, <2>4, <3>1, OnlyOneMoves DEF ListDue, WorkerPc
  <2> QED
    BY <2>2, <2>5, TypeParts
<1>2. ASSUME NEW ok \in BOOLEAN, Post(w, ok)
      PROVE  TypeOK'
  <2>0. PICK r \in rows[w] :
          /\ rows' = [rows EXCEPT ![w] = @ \ {r}]
          /\ sending' = [sending EXCEPT ![w] = r]
          /\ posts' = [posts EXCEPT ![r.delivery] = IF @ < MaxPosts THEN @ + 1 ELSE @]
          /\ acked' = IF ok THEN acked \cup {r.delivery} ELSE acked
    BY <1>2 DEF Post
  <2>1. r \in DeliveryRow /\ r # None /\ r.delivery \in Delivery
    BY <1>0, <2>0 DEF DeliveriesTyped, DeliveryRow
  <2>2. QueueTyped'
    BY <1>0, <1>2 DEF Post, QueueTyped
  <2>3. DeliveriesTyped'
    <3>1. accepted' = [accepted EXCEPT ![w] = ok] /\ UNCHANGED <<deliveries, ripe>>
      BY <1>2 DEF Post
    <3>2. posts' \in [Delivery -> 0 .. MaxPosts]
      BY <1>0, <2>0, <2>1 DEF DeliveriesTyped
    <3> QED
      BY <1>0, <2>0, <2>1, <3>1, <3>2 DEF DeliveriesTyped
  <2>4. Located(w)'
    BY <1>0, <1>2, <2>0, <2>1 DEF Post, Located, Handling, DeliveriesTyped
  <2>5. PICK to \in {"answered"} : pc' = [pc EXCEPT ![w] = to]
    BY <1>2 DEF Post
  <2>6. pc' \in [Worker -> WorkerPc] /\ \A v \in Worker : Located(v)'
    <3>1. \A v \in Worker \ {w} : rows'[v] = rows[v] /\ sending'[v] = sending[v]
      BY <1>0, <2>0 DEF DeliveriesTyped
    <3> QED
      BY <1>2, <2>4, <2>5, <3>1, OnlyOneMoves DEF Post, WorkerPc
  <2> QED
    BY <2>2, <2>3, <2>6, TypeParts
<1>3. CASE Record(w)
  <2>0. /\ sending[w] # None /\ sending[w] \in DeliveryRow /\ accepted[w] \in BOOLEAN
        /\ sending[w].attempts < MaxPosts
    BY <1>0, <1>3 DEF Record, Located, DeliveriesTyped, DeliveriesInv, PostsBacked
  <2>1. [status |-> StatusAfter(sending[w], accepted[w]), attempts |-> sending[w].attempts + 1]
          \in [status : DeliveryStatus, attempts : 0 .. MaxPosts]
    BY <1>0, <2>0 DEF StatusAfter, DeliveryStatus, DeliveryRow
  <2>2. QueueTyped'
    BY <1>0, <1>3 DEF Record, QueueTyped
  <2>3. DeliveriesTyped'
    BY <1>0, <1>3, <2>1 DEF Record, DeliveriesTyped
  <2>4. Located(w)'
    BY <1>0, <1>3 DEF Record, Located, Handling, DeliveriesTyped
  <2>5. PICK to \in {"delivering"} : pc' = [pc EXCEPT ![w] = to]
    BY <1>3 DEF Record
  <2>6. pc' \in [Worker -> WorkerPc] /\ \A v \in Worker : Located(v)'
    <3>1. \A v \in Worker \ {w} : sending'[v] = sending[v]
      BY <1>0, <1>3 DEF Record, DeliveriesTyped
    <3> QED
      BY <1>3, <2>4, <2>5, <3>1, OnlyOneMoves DEF Record, WorkerPc
  <2> QED
    BY <2>2, <2>3, <2>6, TypeParts
<1>4. CASE DeliverEnds(w) \/ DeliverThrows(w)
  <2>1. current[w] \in Claim
    BY <1>0, <1>4 DEF DeliverEnds, DeliverThrows, Returns, Throws, Located, Handling, QueueTyped
  <2>2. runs' = [runs EXCEPT ![current[w].job] = OneMore(@)]
    BY <1>4 DEF DeliverEnds, DeliverThrows, Returns, Throws, Counted
  <2>3. runs' \in [Job -> 0 .. MaxAttempts]
    BY <1>0, <2>1, <2>2, OneMoreCounts DEF QueueTyped, Claim
  <2>4. QueueTyped'
    BY <1>0, <1>4, <2>1, <2>3, QueueArguments
       DEF DeliverEnds, DeliverThrows, Returns, Throws, QueueTyped, Claim
  <2>5. DeliveriesTyped'
    BY <1>0, <1>4 DEF DeliverEnds, DeliverThrows, DeliveriesTyped, webhookVars
  <2>6. Located(w)'
    BY <1>0, <1>4 DEF DeliverEnds, DeliverThrows, Returns, Throws, Located, Handling,
                      webhookVars, DeliveriesTyped
  <2>7. PICK to \in {"returned", "thrown"} : pc' = [pc EXCEPT ![w] = to]
    BY <1>4 DEF DeliverEnds, DeliverThrows, Returns, Throws
  <2>8. pc' \in [Worker -> WorkerPc] /\ \A v \in Worker : Located(v)'
    <3>1. \A v \in Worker \ {w} : rows'[v] = rows[v]
      BY <1>0, <1>4 DEF DeliverEnds, DeliverThrows, webhookVars, DeliveriesTyped
    <3> QED
      BY <1>4, <2>6, <2>7, <3>1, OnlyOneMoves
         DEF DeliverEnds, DeliverThrows, Returns, Throws, webhookVars, WorkerPc
  <2> QED
    BY <2>4, <2>5, <2>8, TypeParts
<1> QED
  BY <1>1, <1>2, <1>3, <1>4

\* What happens around the workers keeps the types.
LEMMA AroundTypes ==
  ASSUME TypeOK, Clock \/ Operator \/ \E d \in Delivery : Enqueue(d)
  PROVE  TypeOK'
<1>0. /\ QueueTyped /\ DeliveriesTyped /\ pc \in [Worker -> WorkerPc]
      /\ \A w \in Worker : Located(w)
  BY TypeParts
<1>1. UNCHANGED <<pc, chosen, batch, current, rows, sending, accepted, posts, acked>>
  BY DEF Clock, Operator, NextSlot, BackoffEnds, RetryDead, RetryDue, Enqueue, webhookVars, queueVars
<1>2. /\ NoRow \in Row
      /\ \A j \in Job : [jobs[j] EXCEPT !.status = "pending"] \in Row
  <2>1. NoRow \in Row
    BY QueueArguments DEF JobStatus, NoRow, Row
  <2>2. "pending" \in JobStatus
    BY DEF JobStatus
  <2> QED
    BY <1>0, <2>1, <2>2, RowTyped DEF QueueTyped
<1>3. QueueTyped'
  BY <1>0, <1>1, <1>2, QueueArguments
     DEF QueueTyped, Clock, Operator, NextSlot, BackoffEnds, RetryDead, RetryDue, Enqueue,
         webhookVars, queueVars
<1>4. DeliveriesTyped'
  <2>1. \A d \in Delivery : [deliveries[d] EXCEPT !.status = "pending"]
                              \in [status : DeliveryStatus, attempts : 0 .. MaxPosts]
    BY <1>0 DEF DeliveriesTyped, DeliveryStatus
  <2> QED
    BY <1>0, <1>1, <2>1 DEF DeliveriesTyped, Clock, Operator, RetryDue, Enqueue, webhookVars
<1>5. pc' \in [Worker -> WorkerPc] /\ \A w \in Worker : Located(w)'
  BY <1>0, <1>1 DEF Located
<1> QED
  BY <1>3, <1>4, <1>5, TypeParts

-----------------------------------------------------------------------------
(***************************************************************************)
(* Jobs.                                                                   *)
(***************************************************************************)

\* Counts only rise and wins stay, but for the row of a new slot.
RunsStand(J) == \A j \in J : runs[j] <= runs'[j] /\ (j \in wins => j \in wins')

\* A worker that does not move keeps what backs it, if the rows it holds are not renewed.
LEMMA HandsKept ==
  ASSUME TypeOK, TypeOK', NEW w \in Worker, HandsBacked(w), RunsStand(Holding(w)),
         pc'[w] = pc[w], batch'[w] = batch[w], current'[w] = current[w]
  PROVE  HandsBacked(w)'
<1>0. QueueTyped /\ QueueTyped' /\ Located(w)
  BY TypeParts
<1>1. \A c \in batch[w] : c.job \in Holding(w) /\ c \in Claim
  BY <1>0 DEF Holding, QueueTyped
<1>2. \A c \in batch[w] : c.attempts <= runs'[c.job]
  BY <1>0, <1>1 DEF RunsStand, HandsBacked, QueueTyped, Claim
<1>3. CASE current[w] = None
  BY <1>0, <1>2, <1>3 DEF HandsBacked, Located, Handling
<1>4. CASE current[w] # None
  <2>1. current[w] \in Claim /\ current[w].job \in Holding(w)
    BY <1>0, <1>4 DEF Holding, QueueTyped
  <2>2. OneMore(current[w].attempts) \in 0 .. MaxAttempts
    BY <2>1, OneMoreCounts DEF Claim
  <2>3. /\ current[w].job \in Job /\ current[w].attempts \in Nat
        /\ runs[current[w].job] \in Nat /\ runs'[current[w].job] \in Nat
        /\ runs[current[w].job] <= runs'[current[w].job]
        /\ current[w].job \in wins => current[w].job \in wins'
    BY <1>0, <2>1, QueueArguments DEF RunsStand, QueueTyped, Claim
  <2> QED
    BY <1>2, <2>2, <2>3, QueueArguments DEF HandsBacked
<1> QED
  BY <1>3, <1>4

\* A step of one worker that settles nothing keeps JobsInv if it keeps its own hands backed.
LEMMA OneWorkerKeepsJobs ==
  ASSUME TypeOK, TypeOK', JobsInv, NEW w \in Worker, RunsStand(Job), HandsBacked(w)',
         \A v \in Worker \ {w} : /\ pc'[v] = pc[v] /\ batch'[v] = batch[v]
                                 /\ current'[v] = current[v],
         \A j \in Job : /\ jobs'[j].attempts <= runs'[j]
                        /\ jobs'[j].status = "dead" => runs'[j] = MaxAttempts
                        /\ jobs'[j].status = "succeeded" => j \in wins'
  PROVE  JobsInv'
<1>1. ASSUME NEW v \in Worker, v # w
      PROVE  HandsBacked(v)'
  <2>1. Holding(v) \subseteq Job
    BY TypeParts DEF Holding, QueueTyped, Claim
  <2>2. RunsStand(Holding(v))
    BY <2>1 DEF RunsStand
  <2> QED
    BY <1>1, <2>2, HandsKept DEF JobsInv
<1> QED
  BY <1>1 DEF JobsInv, JobOutcomesAreHonest

\* A row reopened or claimed keeps its attempts and has no outcome.
LEMMA Reopened ==
  ASSUME NEW row \in Row, NEW status \in {"pending", "running"}
  PROVE  /\ [row EXCEPT !.status = status].attempts = row.attempts
         /\ [row EXCEPT !.status = status].status \notin {"dead", "succeeded"}
  BY DEF Row, JobStatus

\* Every step keeps JobsInv.
LEMMA JobsKept ==
  ASSUME TypeOK, TypeOK', JobsInv, [Next]_vars
  PROVE  JobsInv'
<1>0. /\ QueueTyped /\ QueueTyped' /\ pc \in [Worker -> WorkerPc]
      /\ \A w \in Worker : Located(w) /\ HandsBacked(w)
      /\ MaxAttempts \in Nat \ {0}
  BY TypeParts, QueueArguments DEF JobsInv
<1>1. ASSUME NEW j \in Job
      PROVE  /\ jobs[j] \in Row /\ runs[j] \in 0 .. MaxAttempts
             /\ jobs[j].attempts \in 0 .. MaxAttempts /\ jobs[j].attempts <= runs[j]
             /\ jobs[j].status = "dead" => runs[j] = MaxAttempts
             /\ jobs[j].status = "succeeded" => j \in wins
  BY <1>0 DEF QueueTyped, Row, JobsInv, JobOutcomesAreHonest
<1>2. ASSUME UNCHANGED <<pc, batch, current, runs, wins>>,
             \A j \in Job : \/ jobs'[j] = jobs[j]
                            \/ jobs'[j] = [jobs[j] EXCEPT !.status = "pending"]
      PROVE  JobsInv'
  <2>1. ASSUME NEW j \in Job
        PROVE  /\ jobs'[j].attempts <= runs[j]
               /\ jobs'[j].status = "dead" => runs[j] = MaxAttempts
               /\ jobs'[j].status = "succeeded" => j \in wins
    <3>1. PICK status \in {"pending"} : jobs'[j] \in {jobs[j], [jobs[j] EXCEPT !.status = status]}
      BY <1>2
    <3>2. CASE jobs'[j] = [jobs[j] EXCEPT !.status = status]
      <4>1. /\ jobs'[j].attempts = jobs[j].attempts
            /\ jobs'[j].status \notin {"dead", "succeeded"}
        BY <1>1, <3>2, Reopened
      <4> QED
        BY <1>1, <4>1
    <3> QED
      BY <1>1, <3>1, <3>2
  <2>2. RunsStand(Job)
    BY <1>0, <1>2 DEF RunsStand, QueueTyped
  <2>3. \A w \in Worker : HandsBacked(w)'
    BY <1>0, <1>2 DEF HandsBacked
  <2> QED
    BY <1>2, <2>1, <2>3 DEF JobsInv, JobOutcomesAreHonest
<1>3. ASSUME NEW w \in Worker, EnsureRecurring(w)
      PROVE  JobsInv'
  <2>1. ASSUME NEW j \in Job
        PROVE  /\ jobs'[j].attempts <= runs[j]
               /\ jobs'[j].status = "dead" => runs[j] = MaxAttempts
               /\ jobs'[j].status = "succeeded" => j \in wins
    <3>1. PICK status \in {"pending"} : jobs'[j] \in {jobs[j], [jobs[j] EXCEPT !.status = status]}
      BY <1>0, <1>3 DEF EnsureRecurring, QueueTyped
    <3>2. CASE jobs'[j] = [jobs[j] EXCEPT !.status = status]
      <4>1. /\ jobs'[j].attempts = jobs[j].attempts
            /\ jobs'[j].status \notin {"dead", "succeeded"}
        BY <1>1, <3>2, Reopened
      <4> QED
        BY <1>1, <4>1
    <3> QED
      BY <1>1, <3>1, <3>2
  <2>2. RunsStand(Job) /\ UNCHANGED <<batch, current, runs, wins>>
    BY <1>0, <1>3 DEF RunsStand, QueueTyped, EnsureRecurring
  <2>3. HandsBacked(w)'
    BY <1>0, <1>3, <2>2 DEF EnsureRecurring, HandsBacked
  <2>4. \A v \in Worker \ {w} : pc'[v] = pc[v]
    BY <1>0, <1>3 DEF EnsureRecurring
  <2> QED
    BY <2>1, <2>2, <2>3, <2>4, OneWorkerKeepsJobs
<1>4. ASSUME NEW w \in Worker, NEW to \in WorkerPc \ {"returned", "thrown"},
             pc' = [pc EXCEPT ![w] = to], UNCHANGED <<jobs, runs, wins>>,
             \A v \in Worker \ {w} : batch'[v] = batch[v] /\ current'[v] = current[v],
             batch'[w] \subseteq batch[w], current'[w] \in batch[w] \cup {current[w], None},
             to \in {"delivering", "answered"} =>
               pc[w] \in {"running", "delivering", "answered"} /\ current'[w] = current[w],
             to = "running" => current'[w] \in batch[w]
      PROVE  JobsInv'
  <2>1. RunsStand(Job)
    BY <1>0, <1>4 DEF RunsStand, QueueTyped
  <2>2. HandsBacked(w)'
    BY <1>0, <1>4 DEF HandsBacked
  <2>3. \A v \in Worker \ {w} : pc'[v] = pc[v]
    BY <1>0, <1>4
  <2> QED
    BY <1>1, <1>4, <2>1, <2>2, <2>3, OneWorkerKeepsJobs
<1>5. ASSUME NEW w \in Worker, ClaimChosen(w)
      PROVE  JobsInv'
  <2>1. ASSUME NEW j \in Job
        PROVE  /\ jobs'[j].attempts <= runs[j]
               /\ jobs'[j].status = "dead" => runs[j] = MaxAttempts
               /\ jobs'[j].status = "succeeded" => j \in wins
    <3>1. PICK status \in {"running"} : jobs'[j] \in {jobs[j], [jobs[j] EXCEPT !.status = status]}
      BY <1>0, <1>5 DEF ClaimChosen, QueueTyped
    <3>2. CASE jobs'[j] = [jobs[j] EXCEPT !.status = status]
      <4>1. /\ jobs'[j].attempts = jobs[j].attempts
            /\ jobs'[j].status \notin {"dead", "succeeded"}
        BY <1>1, <3>2, Reopened
      <4> QED
        BY <1>1, <4>1
    <3> QED
      BY <1>1, <3>1, <3>2
  <2>2. RunsStand(Job) /\ UNCHANGED <<current, runs, wins>>
    BY <1>0, <1>5 DEF RunsStand, QueueTyped, ClaimChosen
  <2>3. HandsBacked(w)'
    <3>1. batch'[w] = {[job |-> j, attempts |-> jobs[j].attempts] : j \in chosen[w]}
      BY <1>0, <1>5 DEF ClaimChosen, QueueTyped
    <3>2. \A c \in batch'[w] : c.attempts <= runs[c.job]
      BY <1>0, <1>1, <3>1 DEF QueueTyped
    <3> QED
      BY <1>0, <1>5, <2>2, <3>2 DEF ClaimChosen, HandsBacked
  <2>4. \A v \in Worker \ {w} : pc'[v] = pc[v] /\ batch'[v] = batch[v]
    BY <1>0, <1>5 DEF ClaimChosen, QueueTyped
  <2> QED
    BY <2>1, <2>2, <2>3, <2>4, OneWorkerKeepsJobs
<1>6. ASSUME NEW w \in Worker, NEW from \in {"delivering"}, Returns(w, from) \/ Throws(w, from)
      PROVE  JobsInv'
  <2> DEFINE mine == current[w]
  <2>1. mine \in Claim /\ mine.job \in Job /\ mine.attempts \in 0 .. MaxAttempts
        /\ mine.attempts <= runs[mine.job]
    BY <1>0, <1>6 DEF Returns, Throws, Located, Handling, QueueTyped, Claim, HandsBacked
  <2>2. runs' = [runs EXCEPT ![mine.job] = OneMore(runs[mine.job])]
    BY <1>6 DEF Returns, Throws, Counted
  <2>3. /\ runs'[mine.job] = OneMore(runs[mine.job])
        /\ \A j \in Job : runs'[j] \in 0 .. MaxAttempts /\ runs[j] <= runs'[j]
    BY <1>0, <2>1, <2>2, OneMoreCounts DEF QueueTyped
  <2>4. UNCHANGED <<jobs, batch, current>> /\ wins \subseteq wins'
    BY <1>6 DEF Returns, Throws
  <2>5. RunsStand(Job)
    BY <2>3, <2>4 DEF RunsStand
  <2>6. HandsBacked(w)'
    <3>1. \A c \in batch[w] : c.attempts <= runs'[c.job]
      BY <1>0, <2>3 DEF HandsBacked, QueueTyped, Claim
    <3>2. OneMore(mine.attempts) <= runs'[mine.job]
      BY <1>0, <2>1, <2>3, OneMoreCounts DEF QueueTyped
    <3>3. pc'[w] \in {"returned", "thrown"} /\ (pc'[w] = "returned" => mine.job \in wins')
      BY <1>0, <1>6 DEF Returns, Throws
    <3> QED
      BY <2>4, <3>1, <3>2, <3>3 DEF HandsBacked
  <2>7. ASSUME NEW j \in Job
        PROVE  /\ jobs'[j].attempts <= runs'[j]
               /\ jobs'[j].status = "dead" => runs'[j] = MaxAttempts
               /\ jobs'[j].status = "succeeded" => j \in wins'
    BY <1>0, <1>1, <2>3, <2>4
  <2>8. \A v \in Worker \ {w} : pc'[v] = pc[v]
    BY <1>0, <1>6 DEF Returns, Throws
  <2> QED
    BY <2>4, <2>5, <2>6, <2>7, <2>8, OneWorkerKeepsJobs
<1>7. ASSUME NEW w \in Worker, SettleSuccessFails(w)
      PROVE  JobsInv'
  <2>1. RunsStand(Job) /\ UNCHANGED <<jobs, batch, current, runs, wins>>
    BY <1>0, <1>7 DEF RunsStand, QueueTyped, SettleSuccessFails
  <2>2. HandsBacked(w)'
    BY <1>0, <1>7, <2>1 DEF SettleSuccessFails, HandsBacked
  <2>3. \A v \in Worker \ {w} : pc'[v] = pc[v]
    BY <1>0, <1>7 DEF SettleSuccessFails
  <2> QED
    BY <1>1, <2>1, <2>2, <2>3, OneWorkerKeepsJobs
<1>8. ASSUME NEW w \in Worker, SettleSuccess(w) \/ SettleFailure(w)
      PROVE  JobsInv'
  <2> DEFINE mine == current[w]
  <2>1. /\ mine \in Claim /\ mine.job \in Job /\ mine.attempts \in 0 .. MaxAttempts
        /\ OneMore(mine.attempts) \in 0 .. MaxAttempts
        /\ OneMore(mine.attempts) <= runs[mine.job] /\ runs[mine.job] \in 0 .. MaxAttempts
        /\ mine.attempts + 1 >= MaxAttempts => OneMore(mine.attempts) = MaxAttempts
    <3>1. mine \in Claim /\ OneMore(mine.attempts) <= runs[mine.job]
      BY <1>0, <1>8 DEF SettleSuccess, SettleFailure, Located, Handling, QueueTyped, HandsBacked
    <3>2. mine.job \in Job /\ mine.attempts \in 0 .. MaxAttempts
      BY <3>1 DEF Claim
    <3> QED
      BY <1>0, <3>1, <3>2, OneMoreCounts DEF QueueTyped
  <2>2. PICK status \in {"succeeded", "dead", "failed"} :
          /\ Settle(w, status)
          /\ status = "succeeded" => mine.job \in wins
          /\ status = "dead" => mine.attempts + 1 >= MaxAttempts
    <3>1. CASE SettleSuccess(w)
      <4>1. mine.job \in wins
        BY <1>0, <3>1 DEF SettleSuccess, HandsBacked
      <4> QED
        BY <3>1, <4>1 DEF SettleSuccess
    <3>2. CASE SettleFailure(w)
      BY <3>2 DEF SettleFailure
    <3> QED
      BY <1>8, <3>1, <3>2
  <2>3. /\ jobs' = [jobs EXCEPT ![mine.job] = [status |-> status, attempts |-> OneMore(mine.attempts)]]
        /\ UNCHANGED <<batch, runs, wins>> /\ current' = [current EXCEPT ![w] = None]
    BY <2>2 DEF Settle
  <2>4. ASSUME NEW j \in Job
        PROVE  /\ jobs'[j].attempts <= runs[j]
               /\ jobs'[j].status = "dead" => runs[j] = MaxAttempts
               /\ jobs'[j].status = "succeeded" => j \in wins
    <3>1. CASE j = mine.job
      <4>1. jobs'[j] = [status |-> status, attempts |-> OneMore(mine.attempts)]
        BY <1>0, <2>3, <3>1 DEF QueueTyped
      <4> QED
        BY <1>0, <2>1, <2>2, <3>1, <4>1
    <3>2. CASE j # mine.job
      <4>1. jobs'[j] = jobs[j]
        BY <1>0, <2>3, <3>2 DEF QueueTyped
      <4> QED
        BY <1>1, <4>1
    <3> QED
      BY <3>1, <3>2
  <2>5. HandsBacked(w)'
    <3>1. pc'[w] = "looping"
      BY <1>0, <1>8 DEF SettleSuccess, SettleFailure
    <3> QED
      BY <1>0, <2>3, <3>1 DEF HandsBacked
  <2>6. /\ RunsStand(Job)
        /\ \A v \in Worker \ {w} : pc'[v] = pc[v] /\ current'[v] = current[v]
    BY <1>0, <1>8, <2>3 DEF RunsStand, QueueTyped, SettleSuccess, SettleFailure
  <2> QED
    BY <2>3, <2>4, <2>5, <2>6, OneWorkerKeepsJobs
<1>9. ASSUME NEW i \in Job, NextSlot(i)
      PROVE  JobsInv'
  <2>1. /\ jobs' = [jobs EXCEPT ![i] = NoRow] /\ runs' = [runs EXCEPT ![i] = 0]
        /\ wins' = wins \ {i} /\ UNCHANGED <<pc, batch, current>>
        /\ \A w \in Worker : i \notin Holding(w)
    BY <1>9 DEF NextSlot
  <2>2. \A w \in Worker : HandsBacked(w)'
    <3>1. ASSUME NEW w \in Worker PROVE RunsStand(Holding(w))
      <4>1. Holding(w) \subseteq Job \ {i}
        BY <1>0, <2>1 DEF Holding, QueueTyped, Claim
      <4> QED
        BY <1>0, <2>1, <4>1 DEF RunsStand, QueueTyped
    <3> QED
      BY <1>0, <2>1, <3>1, HandsKept
  <2>3. ASSUME NEW j \in Job
        PROVE  /\ jobs'[j].attempts <= runs'[j]
               /\ jobs'[j].status = "dead" => runs'[j] = MaxAttempts
               /\ jobs'[j].status = "succeeded" => j \in wins'
    <3>1. CASE j = i
      BY <1>0, <2>1, <3>1 DEF QueueTyped, NoRow
    <3>2. CASE j # i
      <4>1. jobs'[j] = jobs[j] /\ runs'[j] = runs[j] /\ (j \in wins => j \in wins')
        BY <1>0, <2>1, <3>2 DEF QueueTyped
      <4> QED
        BY <1>1, <4>1
    <3> QED
      BY <3>1, <3>2
  <2> QED
    BY <2>2, <2>3 DEF JobsInv, JobOutcomesAreHonest
<1>10. ASSUME NEW w \in Worker, Tick(w)
       PROVE  JobsInv'
  <2>1. CASE ChooseDue(w)
    <3>1. PICK to \in {"claiming"} : pc' = [pc EXCEPT ![w] = to]
      BY <2>1 DEF ChooseDue
    <3> QED
      BY <1>4, <2>1, <3>1 DEF ChooseDue, WorkerPc
  <2>2. CASE StartHandler(w)
    <3>1. PICK to \in {"running"} : pc' = [pc EXCEPT ![w] = to]
      BY <2>2 DEF StartHandler
    <3>2. PICK c \in batch[w] : /\ batch' = [batch EXCEPT ![w] = @ \ {c}]
                                /\ current' = [current EXCEPT ![w] = c]
      BY <2>2 DEF StartHandler
    <3>3. /\ batch'[w] \subseteq batch[w] /\ current'[w] \in batch[w]
          /\ \A v \in Worker \ {w} : batch'[v] = batch[v] /\ current'[v] = current[v]
      BY <1>0, <3>2 DEF QueueTyped
    <3> QED
      BY <1>4, <2>2, <3>1, <3>3 DEF StartHandler, WorkerPc
  <2>3. CASE EndTick(w)
    <3>1. PICK to \in {"idle"} : pc' = [pc EXCEPT ![w] = to]
      BY <2>3 DEF EndTick
    <3> QED
      BY <1>4, <2>3, <3>1 DEF EndTick, WorkerPc
  <2>4. CASE ListDue(w)
    <3>1. PICK to \in {"delivering"} : pc' = [pc EXCEPT ![w] = to]
      BY <2>4 DEF ListDue
    <3> QED
      BY <1>0, <1>4, <2>4, <3>1 DEF ListDue, WorkerPc
  <2>5. CASE \E ok \in BOOLEAN : Post(w, ok)
    <3>1. PICK to \in {"answered"} : pc' = [pc EXCEPT ![w] = to]
      BY <2>5 DEF Post
    <3> QED
      BY <1>0, <1>4, <2>5, <3>1 DEF Post, WorkerPc
  <2>6. CASE Record(w)
    <3>1. PICK to \in {"delivering"} : pc' = [pc EXCEPT ![w] = to]
      BY <2>6 DEF Record
    <3> QED
      BY <1>0, <1>4, <2>6, <3>1 DEF Record, WorkerPc
  <2>7. CASE DeliverEnds(w)
    <3>1. PICK from \in {"delivering"} : Returns(w, from)
      BY <2>7 DEF DeliverEnds
    <3> QED
      BY <1>6, <3>1
  <2> QED
    BY <1>3, <1>5, <1>8, <1>10, <2>1, <2>2, <2>3, <2>4, <2>5, <2>6, <2>7 DEF Tick
<1>11. ASSUME NEW w \in Worker, Fault(w)
       PROVE  JobsInv'
  <2>1. CASE DeliverThrows(w)
    <3>1. PICK from \in {"delivering"} : Throws(w, from)
      BY <2>1 DEF DeliverThrows
    <3> QED
      BY <1>6, <3>1
  <2>2. CASE TickDies(w)
    <3>1. PICK to \in {"idle"} : pc' = [pc EXCEPT ![w] = to]
      BY <2>2 DEF TickDies
    <3>2. /\ batch'[w] = {} /\ current'[w] = None
          /\ \A v \in Worker \ {w} : batch'[v] = batch[v] /\ current'[v] = current[v]
      BY <1>0, <2>2 DEF TickDies, QueueTyped
    <3> QED
      BY <1>4, <2>2, <3>1, <3>2 DEF TickDies, WorkerPc
  <2> QED
    BY <1>7, <1>11, <2>1, <2>2 DEF Fault
<1>12. CASE Clock
  <2>1. CASE \E j \in Job : NextSlot(j)
    BY <1>9, <2>1
  <2>2. CASE (\E j \in Job : BackoffEnds(j)) \/ (\E d \in Delivery : RetryDue(d))
    BY <1>2, <2>2 DEF BackoffEnds, RetryDue, queueVars
  <2> QED
    BY <1>12, <2>1, <2>2 DEF Clock
<1>13. CASE Operator
  <2>1. PICK i \in Job : RetryDead(i)
    BY <1>13 DEF Operator
  <2>2. \A j \in Job : jobs'[j] \in {jobs[j], [jobs[j] EXCEPT !.status = "pending"]}
    BY <1>0, <2>1 DEF RetryDead, QueueTyped
  <2> QED
    BY <1>2, <2>1, <2>2 DEF RetryDead
<1>14. CASE (\E d \in Delivery : Enqueue(d)) \/ UNCHANGED vars
  BY <1>2, <1>14 DEF Enqueue, vars, queueVars
<1> QED
  BY <1>10, <1>11, <1>12, <1>13, <1>14 DEF Next

-----------------------------------------------------------------------------
(***************************************************************************)
(* Deliveries.                                                             *)
(***************************************************************************)

\* POSTs are only added, and what an endpoint has accepted stays accepted.
PostsStand == acked \subseteq acked' /\ \A d \in Delivery : posts[d] <= posts'[d]

\* What worker w has read is untouched, or forgotten.
ReadsLess(w) ==
  /\ rows'[w] \subseteq rows[w]
  /\ \/ sending'[w] = None
     \/ sending'[w] = sending[w] /\ accepted'[w] = accepted[w]

\* Such a worker keeps what backs its reads.
LEMMA PostsKept ==
  ASSUME TypeOK, TypeOK', PostsStand, NEW w \in Worker, PostsBacked(w), ReadsLess(w)
  PROVE  PostsBacked(w)'
<1>0. DeliveriesTyped /\ DeliveriesTyped'
  BY TypeParts
<1>1. ASSUME NEW r \in rows'[w]
      PROVE  r.attempts < MaxPosts /\ r.attempts <= posts'[r.delivery]
  <2>1. r \in DeliveryRow /\ r.delivery \in Delivery /\ r.attempts \in 0 .. MaxPosts
    BY <1>0 DEF DeliveriesTyped, DeliveryRow
  <2>2. posts[r.delivery] \in Nat /\ posts'[r.delivery] \in Nat
    BY <1>0, <2>1, WebhookArguments DEF DeliveriesTyped
  <2> QED
    BY <2>1, <2>2 DEF PostsBacked, PostsStand, ReadsLess
<1>2. ASSUME sending'[w] # None
      PROVE  /\ sending'[w].attempts < MaxPosts
             /\ sending'[w].attempts + 1 <= posts'[sending'[w].delivery]
             /\ accepted'[w] => sending'[w].delivery \in acked'
  <2> DEFINE r == sending[w]
  <2>1. r \in DeliveryRow /\ r.delivery \in Delivery /\ r.attempts \in 0 .. MaxPosts
    BY <1>0, <1>2 DEF DeliveriesTyped, DeliveryRow, ReadsLess
  <2>2. posts[r.delivery] \in Nat /\ posts'[r.delivery] \in Nat
    BY <1>0, <2>1, WebhookArguments DEF DeliveriesTyped
  <2> QED
    BY <1>2, <2>1, <2>2 DEF PostsBacked, PostsStand, ReadsLess
<1> QED
  BY <1>1, <1>2 DEF PostsBacked

\* A row of the table says no more than what was sent and accepted.
Backed(d) ==
  /\ deliveries[d].attempts <= posts[d]
  /\ deliveries[d].status \in {"none", "pending", "failed"} => deliveries[d].attempts < MaxPosts
  /\ deliveries[d].status = "delivered" => d \in acked
  /\ deliveries[d].status = "dead" => posts[d] = MaxPosts

\* An untouched row keeps what backs it.
LEMMA RowKept ==
  ASSUME TypeOK, TypeOK', PostsStand, NEW d \in Delivery, Backed(d), deliveries'[d] = deliveries[d]
  PROVE  Backed(d)'
<1>1. /\ posts[d] \in 0 .. MaxPosts /\ posts'[d] \in 0 .. MaxPosts
      /\ deliveries[d].attempts \in 0 .. MaxPosts /\ MaxPosts \in Nat
  BY TypeParts, WebhookArguments DEF DeliveriesTyped
<1> QED
  BY <1>1 DEF Backed, PostsStand

\* DeliveriesInv by delivery and by worker.
LEMMA DeliveriesParts ==
  /\ DeliveriesInv <=> (\A d \in Delivery : Backed(d)) /\ (\A w \in Worker : PostsBacked(w))
  /\ DeliveriesInv' <=> (\A d \in Delivery : Backed(d)') /\ (\A w \in Worker : PostsBacked(w)')
  BY DEF DeliveriesInv, Backed, DeliveriesAreHonest

\* Every step keeps DeliveriesInv.
LEMMA DeliveriesKept ==
  ASSUME TypeOK, TypeOK', DeliveriesInv, [Next]_vars
  PROVE  DeliveriesInv'
<1>0. /\ DeliveriesTyped /\ DeliveriesTyped' /\ MaxPosts \in Nat \ {0}
      /\ \A d \in Delivery : Backed(d)
      /\ \A w \in Worker : Located(w) /\ PostsBacked(w)
  BY TypeParts, DeliveriesParts, WebhookArguments
<1>1. ASSUME PostsStand,
             \A d \in Delivery : deliveries'[d] = deliveries[d] \/ Backed(d)',
             \A w \in Worker : ReadsLess(w) \/ PostsBacked(w)'
      PROVE  DeliveriesInv'
  <2>1. \A d \in Delivery : Backed(d)'
    BY <1>0, <1>1, RowKept
  <2>2. \A w \in Worker : PostsBacked(w)'
    BY <1>0, <1>1, PostsKept
  <2> QED
    BY <2>1, <2>2, DeliveriesParts
<1>2. ASSUME UNCHANGED <<posts, acked>> PROVE PostsStand
  BY <1>0, <1>2 DEF PostsStand, DeliveriesTyped
<1>3. CASE UNCHANGED webhookVars
  BY <1>1, <1>2, <1>3 DEF webhookVars, ReadsLess
<1>4. ASSUME NEW d \in Delivery, Enqueue(d)
      PROVE  DeliveriesInv'
  <2>1. /\ deliveries' = [deliveries EXCEPT ![d].status = "pending"]
        /\ UNCHANGED <<rows, sending, accepted, posts, acked>> /\ deliveries[d].status = "none"
    BY <1>4 DEF Enqueue
  <2>2. Backed(d)'
    <3>1. deliveries'[d].status = "pending" /\ deliveries'[d].attempts = deliveries[d].attempts
      BY <1>0, <2>1 DEF DeliveriesTyped
    <3> QED
      BY <1>0, <2>1, <3>1 DEF Backed
  <2>3. \A e \in Delivery \ {d} : deliveries'[e] = deliveries[e]
    BY <1>0, <2>1 DEF DeliveriesTyped
  <2> QED
    BY <1>1, <1>2, <2>1, <2>2, <2>3 DEF ReadsLess
<1>5. ASSUME NEW d \in Delivery, RetryDue(d)
      PROVE  DeliveriesInv'
  BY <1>1, <1>2, <1>5 DEF RetryDue, ReadsLess
<1>6. ASSUME NEW w \in Worker, ListDue(w)
      PROVE  DeliveriesInv'
  <2>1. /\ rows' = [rows EXCEPT ![w] =
             {[delivery |-> d, attempts |-> deliveries[d].attempts] : d \in DueDeliveries}]
        /\ UNCHANGED <<deliveries, sending, accepted, posts, acked>>
    BY <1>6 DEF ListDue
  <2>2. \A r \in rows'[w] : r.attempts < MaxPosts /\ r.attempts <= posts[r.delivery]
    <3>1. \A d \in DueDeliveries : /\ deliveries[d].attempts < MaxPosts
                                   /\ deliveries[d].attempts <= posts[d]
      BY <1>0 DEF DueDeliveries, Backed, DeliveriesTyped
    <3>2. rows'[w] = {[delivery |-> d, attempts |-> deliveries[d].attempts] : d \in DueDeliveries}
      BY <1>0, <2>1 DEF DeliveriesTyped
    <3> QED
      BY <3>1, <3>2
  <2>3. PostsBacked(w)'
    <3>1. sending[w] = None
      BY <1>0, <1>6 DEF ListDue, Located
    <3> QED
      BY <2>1, <2>2, <3>1 DEF PostsBacked
  <2>4. \A v \in Worker \ {w} : ReadsLess(v)
    BY <1>0, <2>1 DEF DeliveriesTyped, ReadsLess
  <2> QED
    BY <1>1, <1>2, <2>1, <2>3, <2>4
<1>7. ASSUME NEW w \in Worker, NEW ok \in BOOLEAN, Post(w, ok)
      PROVE  DeliveriesInv'
  <2>1. PICK r \in rows[w] :
          /\ rows' = [rows EXCEPT ![w] = @ \ {r}]
          /\ sending' = [sending EXCEPT ![w] = r]
          /\ posts' = [posts EXCEPT ![r.delivery] = IF @ < MaxPosts THEN @ + 1 ELSE @]
          /\ acked' = IF ok THEN acked \cup {r.delivery} ELSE acked
    BY <1>7 DEF Post
  <2>2. accepted' = [accepted EXCEPT ![w] = ok] /\ UNCHANGED deliveries
    BY <1>7 DEF Post
  <2>3. /\ r \in DeliveryRow /\ r.delivery \in Delivery /\ r.attempts \in 0 .. MaxPosts
        /\ r.attempts < MaxPosts /\ r.attempts <= posts[r.delivery]
        /\ posts[r.delivery] \in 0 .. MaxPosts
    BY <1>0, <2>1 DEF DeliveriesTyped, DeliveryRow, PostsBacked
  <2>4. posts'[r.delivery] = IF posts[r.delivery] < MaxPosts THEN posts[r.delivery] + 1
                             ELSE posts[r.delivery]
    BY <1>0, <2>1, <2>3 DEF DeliveriesTyped
  <2>5. r.attempts + 1 <= posts'[r.delivery] /\ posts[r.delivery] <= posts'[r.delivery]
    BY <1>0, <2>3, <2>4
  <2>6. \A d \in Delivery : posts[d] <= posts'[d]
    <3>1. \A d \in Delivery \ {r.delivery} : posts'[d] = posts[d] /\ posts[d] \in Nat
      BY <1>0, <2>1 DEF DeliveriesTyped
    <3> QED
      BY <2>5, <3>1
  <2>7. PostsStand
    BY <2>1, <2>6 DEF PostsStand
  <2>8. PostsBacked(w)'
    <3>1. \A q \in rows[w] : q.attempts < MaxPosts /\ q.attempts <= posts'[q.delivery]
      <4>1. ASSUME NEW q \in rows[w]
            PROVE  q.attempts < MaxPosts /\ q.attempts <= posts'[q.delivery]
        <5>1. q \in DeliveryRow /\ q.delivery \in Delivery /\ q.attempts \in 0 .. MaxPosts
          BY <1>0 DEF DeliveriesTyped, DeliveryRow
        <5>2. /\ posts[q.delivery] \in Nat /\ posts'[q.delivery] \in Nat
              /\ q.attempts < MaxPosts /\ q.attempts <= posts[q.delivery]
          BY <1>0, <5>1 DEF DeliveriesTyped, PostsBacked
        <5> QED
          BY <2>6, <5>1, <5>2
      <4> QED
        BY <4>1
    <3>2. rows'[w] \subseteq rows[w] /\ sending'[w] = r /\ accepted'[w] = ok
      BY <1>0, <2>1, <2>2 DEF DeliveriesTyped
    <3>3. ok => r.delivery \in acked'
      BY <2>1
    <3> QED
      BY <2>3, <2>5, <3>1, <3>2, <3>3 DEF PostsBacked
  <2>9. \A v \in Worker \ {w} : ReadsLess(v)
    BY <1>0, <2>1, <2>2 DEF DeliveriesTyped, ReadsLess
  <2> QED
    BY <1>1, <2>2, <2>7, <2>8, <2>9
<1>8. ASSUME NEW w \in Worker, Record(w)
      PROVE  DeliveriesInv'
  <2>0. PICK r \in DeliveryRow, ok \in BOOLEAN : r = sending[w] /\ ok = accepted[w] /\ r # None
    BY <1>0, <1>8 DEF Record, Located, DeliveriesTyped
  <2> DEFINE new == [status |-> StatusAfter(r, ok), attempts |-> r.attempts + 1]
  <2>1. /\ deliveries' = [deliveries EXCEPT ![r.delivery] = new]
        /\ sending' = [sending EXCEPT ![w] = None]
        /\ accepted' = [accepted EXCEPT ![w] = FALSE]
        /\ UNCHANGED <<rows, posts, acked>>
    BY <1>8, <2>0 DEF Record
  <2>2. /\ r.delivery \in Delivery /\ r.attempts \in 0 .. MaxPosts
        /\ r.attempts < MaxPosts /\ r.attempts + 1 <= posts[r.delivery]
        /\ posts[r.delivery] \in 0 .. MaxPosts
        /\ ok => r.delivery \in acked
    BY <1>0, <2>0 DEF DeliveriesTyped, DeliveryRow, PostsBacked
  <2>3. Backed(r.delivery)'
    <3>1. /\ deliveries'[r.delivery].status = StatusAfter(r, ok)
          /\ deliveries'[r.delivery].attempts = r.attempts + 1
      BY <1>0, <2>1, <2>2 DEF DeliveriesTyped
    <3>2. /\ r.attempts + 1 <= posts[r.delivery]
          /\ StatusAfter(r, ok) = "delivered" => r.delivery \in acked
          /\ StatusAfter(r, ok) = "dead" => posts[r.delivery] = MaxPosts
          /\ StatusAfter(r, ok) \in {"none", "pending", "failed"} => r.attempts + 1 < MaxPosts
      <4>1. CASE ok
        BY <2>2, <4>1 DEF StatusAfter
      <4>2. CASE ~ok /\ r.attempts + 1 >= MaxPosts
        BY <1>0, <2>2, <4>2 DEF StatusAfter
      <4>3. CASE ~ok /\ r.attempts + 1 < MaxPosts
        BY <1>0, <2>2, <4>3 DEF StatusAfter
      <4> QED
        BY <1>0, <2>2, <4>1, <4>2, <4>3
    <3> QED
      BY <2>1, <3>1, <3>2 DEF Backed
  <2>4. /\ \A d \in Delivery \ {r.delivery} : deliveries'[d] = deliveries[d]
        /\ \A v \in Worker : ReadsLess(v)
    BY <1>0, <2>1 DEF DeliveriesTyped, ReadsLess
  <2> QED
    BY <1>1, <1>2, <2>1, <2>3, <2>4
<1>9. ASSUME NEW w \in Worker, DeliverThrows(w) \/ (TickDies(w) /\ Forgets(w))
      PROVE  DeliveriesInv'
  <2>1. /\ UNCHANGED <<deliveries, posts, acked>>
        /\ rows' = [rows EXCEPT ![w] = {}]
        /\ \/ UNCHANGED <<sending, accepted>>
           \/ /\ sending' = [sending EXCEPT ![w] = None]
              /\ accepted' = [accepted EXCEPT ![w] = FALSE]
    BY <1>9 DEF DeliverThrows, Forgets
  <2>2. \A v \in Worker : ReadsLess(v)
    BY <1>0, <2>1 DEF DeliveriesTyped, ReadsLess
  <2> QED
    BY <1>1, <1>2, <2>1, <2>2
<1>10. ASSUME NEW w \in Worker, Tick(w) \/ Fault(w)
       PROVE  DeliveriesInv'
  <2>1. CASE Tick(w)
    BY <1>3, <1>6, <1>7, <1>8, <2>1 DEF Tick, DeliverEnds
  <2>2. CASE Fault(w)
    BY <1>3, <1>9, <2>2 DEF Fault
  <2> QED
    BY <1>10, <2>1, <2>2
<1> QED
  BY <1>3, <1>4, <1>5, <1>10 DEF Next, Clock, Operator, Enqueue, RetryDue, vars

-----------------------------------------------------------------------------
(***************************************************************************)
(* The theorems.                                                           *)
(***************************************************************************)
WorkerInv == TypeOK /\ JobsInv /\ DeliveriesInv

\* Every step of the workers, the clock and the operator keeps the invariant.
LEMMA WorkerKept == WorkerInv /\ [Next]_vars => WorkerInv'
<1> SUFFICES ASSUME WorkerInv, [Next]_vars
             PROVE  WorkerInv'
  OBVIOUS
<1>1. TypeOK /\ JobsInv /\ DeliveriesInv
  BY DEF WorkerInv
<1>2. TypeOK'
  <2>1. ASSUME NEW w \in Worker, Tick(w) \/ Fault(w)
        PROVE  TypeOK'
    BY <1>1, <2>1, TickTypes, SettleTypes, DeliverTypes DEF Tick, Fault
  <2>2. CASE UNCHANGED vars
    BY <1>1, <2>2 DEF vars, queueVars, webhookVars, TypeOK, QueueTypeOK, WebhookTypeOK
  <2> QED
    BY <1>1, <2>1, <2>2, AroundTypes DEF Next
<1> QED
  BY <1>1, <1>2, JobsKept, DeliveriesKept DEF WorkerInv

\* The empty tables satisfy the invariant.
LEMMA WorkerInitially == Init => WorkerInv
<1> SUFFICES ASSUME Init
             PROVE  WorkerInv
  OBVIOUS
<1>1. TypeOK
  BY QueueArguments, WebhookArguments
     DEF Init, QueueInit, WebhookInit, TypeOK, QueueTypeOK, WebhookTypeOK, NoRow, Row, JobStatus,
         DeliveryStatus, WorkerPc
<1>2. JobsInv
  BY QueueArguments DEF Init, QueueInit, NoRow, JobsInv, HandsBacked, JobOutcomesAreHonest
<1>3. DeliveriesInv
  BY WebhookArguments DEF Init, WebhookInit, DeliveriesInv, PostsBacked, DeliveriesAreHonest
<1> QED
  BY <1>1, <1>2, <1>3 DEF WorkerInv

\* The invariant the theorems rest on.
THEOREM WorkerInvariant == Spec => []WorkerInv
  BY WorkerInitially, WorkerKept, PTL DEF Spec

\* The queue, the deliveries and what the workers carry stay within their types: in
\* particular no row's attempts pass its maximum.
THEOREM WorkersAreTyped == Spec => []TypeOK
<1>1. WorkerInv => TypeOK
  BY DEF WorkerInv
<1> QED
  BY <1>1, WorkerInvariant, PTL

\* A job is dead only after max_attempts runs of its handler, and has succeeded only if one
\* returned, whichever workers ran it and wrote over each other.
THEOREM JobOutcomesAreAlwaysHonest == Spec => []JobOutcomesAreHonest
<1>1. WorkerInv => JobOutcomesAreHonest
  BY DEF WorkerInv, JobsInv
<1> QED
  BY <1>1, WorkerInvariant, PTL

\* A delivery is delivered only if an endpoint accepted it, and dead only after MAX_ATTEMPTS
\* POSTs, however many jobs send it at once.
THEOREM DeliveriesAreAlwaysHonest == Spec => []DeliveriesAreHonest
<1>1. WorkerInv => DeliveriesAreHonest
  BY DEF WorkerInv, DeliveriesInv
<1> QED
  BY <1>1, WorkerInvariant, PTL

-----------------------------------------------------------------------------
(***************************************************************************)
(* Retries.  A worker settles what it carries by its id, long after it has *)
(* read it; that this is a step of Retries rests on the row still being    *)
(* there (CarriedInv): only NextSlot takes a row away, and it waits for    *)
(* the row's last carrier.                                                 *)
(***************************************************************************)

\* The jobs a worker has chosen, claimed or runs.
Carried(w) == chosen[w] \cup Holding(w)

\* What workers carry is in its table.
CarriedInv ==
  \A w \in Worker :
    /\ \A j \in Carried(w) : jobs[j].status # "none"
    /\ \A r \in rows[w] : deliveries[r.delivery].status # "none"
    /\ sending[w] # None => deliveries[sending[w].delivery].status # "none"

\* Only the claiming SELECT gives a worker jobs to carry.
LEMMA OnlyChoosingTakes ==
  ASSUME TypeOK, [Next]_vars, NEW w \in Worker
  PROVE  Carried(w)' \subseteq Carried(w) \/ ChooseDue(w)
<1>0. QueueTyped /\ Located(w)
  BY TypeParts
<1>1. ASSUME chosen'[w] \subseteq chosen[w], batch'[w] \subseteq batch[w],
             current'[w] \in batch[w] \cup {current[w], None}
      PROVE  Carried(w)' \subseteq Carried(w)
  BY <1>0, <1>1, NoneIsNoClaim DEF Carried, Holding, QueueTyped
<1>2. CASE UNCHANGED <<chosen, batch, current>>
  BY <1>1, <1>2
<1>3. ASSUME NEW v \in Worker, Tick(v) \/ Fault(v)
      PROVE  Carried(w)' \subseteq Carried(w) \/ ChooseDue(w)
  <2>1. CASE v # w
    <3>1. chosen'[w] = chosen[w] /\ batch'[w] = batch[w] /\ current'[w] = current[w]
      BY <1>0, <1>3, <2>1
      DEF Tick, Fault, EnsureRecurring, ChooseDue, ClaimChosen, StartHandler, SettleSuccess,
          SettleFailure, SettleSuccessFails, Settle, EndTick, ListDue, Post, Record, DeliverEnds,
          DeliverThrows, Returns, Throws, TickDies, QueueTyped
    <3> QED
      BY <1>1, <3>1
  <2>2. CASE v = w /\ ClaimChosen(w)
    <3>1. /\ batch'[w] = {[job |-> j, attempts |-> jobs[j].attempts] : j \in chosen[w]}
          /\ chosen'[w] = {} /\ current'[w] = None
      BY <1>0, <2>2 DEF ClaimChosen, QueueTyped, Located, Handling
    <3> QED
      BY <3>1 DEF Carried, Holding
  <2>3. CASE v = w /\ StartHandler(w)
    <3>1. PICK c \in batch[w] : /\ batch' = [batch EXCEPT ![w] = @ \ {c}]
                                /\ current' = [current EXCEPT ![w] = c]
      BY <2>3 DEF StartHandler
    <3>2. UNCHANGED chosen
      BY <2>3 DEF StartHandler
    <3> QED
      BY <1>0, <1>1, <3>1, <3>2 DEF QueueTyped
  <2>4. CASE v = w /\ (SettleSuccess(w) \/ SettleFailure(w) \/ TickDies(w))
    <3>1. /\ chosen'[w] \subseteq chosen[w] /\ batch'[w] \subseteq batch[w]
          /\ current'[w] = None
      BY <1>0, <2>4 DEF SettleSuccess, SettleFailure, Settle, TickDies, QueueTyped
    <3> QED
      BY <1>1, <3>1
  <2>5. CASE v = w /\ ~ChooseDue(w) /\ ~ClaimChosen(w) /\ ~StartHandler(w) /\ ~SettleSuccess(w)
             /\ ~SettleFailure(w) /\ ~TickDies(w)
    BY <1>2, <1>3, <2>5
    DEF Tick, Fault, EnsureRecurring, EndTick, ListDue, Post, Record, DeliverEnds, DeliverThrows,
        Returns, Throws, SettleSuccessFails
  <2> QED
    BY <2>1, <2>2, <2>3, <2>4, <2>5
<1>4. CASE Clock \/ Operator \/ (\E d \in Delivery : Enqueue(d)) \/ UNCHANGED vars
  BY <1>2, <1>4 DEF Clock, Operator, NextSlot, BackoffEnds, RetryDue, RetryDead, Enqueue, vars,
                    queueVars
<1> QED
  BY <1>3, <1>4 DEF Next

\* A job's row stays until another slot takes it.
LEMMA OnlyNextSlotForgets ==
  ASSUME TypeOK, [Next]_vars, NEW j \in Job, jobs[j].status # "none"
  PROVE  jobs'[j].status # "none" \/ NextSlot(j)
<1>0. QueueTyped
  BY TypeParts
<1>1. ASSUME NEW i \in Job, NEW row \in [status : JobStatus \ {"none"}, attempts : Nat],
             jobs' = [jobs EXCEPT ![i] = row]
      PROVE  jobs'[j].status # "none"
  BY <1>0, <1>1 DEF QueueTyped
<1>2. ASSUME NEW i \in Job, jobs' = [jobs EXCEPT ![i].status = "pending"]
      PROVE  jobs'[j].status # "none"
  BY <1>0, <1>2 DEF QueueTyped, Row
<1>3. ASSUME NEW w \in Worker, Tick(w)
      PROVE  jobs'[j].status # "none"
  <2>1. CASE EnsureRecurring(w)
    BY <1>0, <1>2, <2>1 DEF EnsureRecurring, QueueTyped
  <2>2. CASE ClaimChosen(w)
    <3>1. jobs'[j] \in {jobs[j], [jobs[j] EXCEPT !.status = "running"]}
      BY <2>2 DEF ClaimChosen
    <3> QED
      BY <1>0, <3>1 DEF QueueTyped, Row
  <2>3. CASE SettleSuccess(w) \/ SettleFailure(w)
    <3>1. PICK status \in {"succeeded", "failed", "dead"} : Settle(w, status)
      BY <2>3 DEF SettleSuccess, SettleFailure
    <3>2. /\ current[w].job \in Job
          /\ OneMore(current[w].attempts) \in Nat
      <4>1. Located(w)
        BY TypeParts
      <4>2. current[w] \in Claim
        BY <1>0, <2>3, <4>1 DEF SettleSuccess, SettleFailure, Located, Handling, QueueTyped
      <4> QED
        BY <4>2, OneMoreCounts, QueueArguments DEF Claim
    <3> QED
      BY <1>1, <3>1, <3>2 DEF Settle, JobStatus
  <2>4. CASE UNCHANGED jobs
    BY <2>4
  <2> QED
    BY <1>3, <2>1, <2>2, <2>3, <2>4
    DEF Tick, ChooseDue, StartHandler, EndTick, ListDue, Post, Record, DeliverEnds, Returns
<1>4. ASSUME NEW w \in Worker, Fault(w)
      PROVE  UNCHANGED jobs
  BY <1>4 DEF Fault, DeliverThrows, Throws, SettleSuccessFails, TickDies
<1>5. ASSUME NEW i \in Job, NextSlot(i)
      PROVE  jobs'[j].status # "none" \/ NextSlot(j)
  BY <1>0, <1>5 DEF NextSlot, QueueTyped
<1>6. ASSUME NEW i \in Job, RetryDead(i)
      PROVE  jobs'[j].status # "none"
  BY <1>2, <1>6 DEF RetryDead
<1>7. CASE (\E i \in Job : BackoffEnds(i)) \/ (\E d \in Delivery : RetryDue(d) \/ Enqueue(d))
           \/ UNCHANGED vars
  BY <1>7 DEF BackoffEnds, RetryDue, Enqueue, vars, queueVars
<1> QED
  BY <1>3, <1>4, <1>5, <1>6, <1>7 DEF Next, Clock, Operator

\* A delivery's row stays for good.
LEMMA DeliveriesStay ==
  ASSUME TypeOK, [Next]_vars, NEW d \in Delivery, deliveries[d].status # "none"
  PROVE  deliveries'[d].status # "none"
<1>0. DeliveriesTyped /\ \A w \in Worker : Located(w)
  BY TypeParts
<1>1. CASE UNCHANGED deliveries
  BY <1>1
<1>2. ASSUME NEW w \in Worker, Record(w)
      PROVE  deliveries'[d].status # "none"
  <2>1. PICK r \in DeliveryRow : r = sending[w] /\ r.delivery \in Delivery
    BY <1>0, <1>2 DEF Record, Located, DeliveriesTyped, DeliveryRow
  <2>2. PICK status \in {"delivered", "dead", "failed"} :
          deliveries' = [deliveries EXCEPT ![r.delivery] =
                           [status |-> status, attempts |-> r.attempts + 1]]
    BY <1>2, <2>1 DEF Record, StatusAfter
  <2> QED
    BY <1>0, <2>1, <2>2 DEF DeliveriesTyped
<1>3. ASSUME NEW e \in Delivery, Enqueue(e)
      PROVE  deliveries'[d].status # "none"
  BY <1>0, <1>3 DEF Enqueue, DeliveriesTyped
<1>4. ASSUME NEW w \in Worker, Tick(w) \/ Fault(w), ~Record(w)
      PROVE  UNCHANGED deliveries
  BY <1>4 DEF Tick, Fault, ListDue, Post, DeliverEnds, DeliverThrows, Forgets, webhookVars
<1>5. CASE Clock \/ Operator \/ UNCHANGED vars
  BY <1>5 DEF Clock, Operator, RetryDue, vars, webhookVars
<1> QED
  BY <1>1, <1>2, <1>3, <1>4, <1>5 DEF Next

\* Only the SELECT of due deliveries gives a worker deliveries to send.
LEMMA OnlyListingReads ==
  ASSUME TypeOK, [Next]_vars, NEW w \in Worker
  PROVE  \/ ListDue(w)
         \/ /\ rows'[w] \subseteq rows[w]
            /\ sending'[w] \in {sending[w], None} \cup rows[w]
<1>0. DeliveriesTyped
  BY TypeParts
<1>1. CASE UNCHANGED <<rows, sending>>
  BY <1>1
<1>2. ASSUME NEW v \in Worker, ListDue(v)
      PROVE  ListDue(w) \/ (rows'[w] = rows[w] /\ sending'[w] = sending[w])
  BY <1>0, <1>2 DEF ListDue, DeliveriesTyped
<1>3. ASSUME NEW v \in Worker, NEW ok \in BOOLEAN, Post(v, ok)
      PROVE  rows'[w] \subseteq rows[w] /\ sending'[w] \in {sending[w]} \cup rows[w]
  BY <1>0, <1>3 DEF Post, DeliveriesTyped
<1>4. ASSUME NEW v \in Worker, Record(v) \/ DeliverThrows(v) \/ Forgets(v)
      PROVE  rows'[w] \subseteq rows[w] /\ sending'[w] \in {sending[w], None}
  BY <1>0, <1>4 DEF Record, DeliverThrows, Forgets, DeliveriesTyped
<1>5. ASSUME NEW v \in Worker, Tick(v) \/ Fault(v)
      PROVE  \/ UNCHANGED <<rows, sending>> \/ ListDue(v)
             \/ (\E ok \in BOOLEAN : Post(v, ok)) \/ Record(v) \/ DeliverThrows(v) \/ Forgets(v)
  BY <1>5 DEF Tick, Fault, DeliverEnds, webhookVars
<1>6. CASE Clock \/ Operator \/ (\E d \in Delivery : Enqueue(d)) \/ UNCHANGED vars
  BY <1>1, <1>6 DEF Clock, Operator, RetryDue, Enqueue, vars, webhookVars
<1> QED
  BY <1>1, <1>2, <1>3, <1>4, <1>5, <1>6 DEF Next

\* Every step keeps CarriedInv.
LEMMA CarriedKept ==
  ASSUME TypeOK, TypeOK', CarriedInv, [Next]_vars
  PROVE  CarriedInv'
<1>0. QueueTyped /\ DeliveriesTyped
  BY TypeParts
<1>1. ASSUME NEW w \in Worker, NEW j \in Carried(w)'
      PROVE  jobs'[j].status # "none"
  <2>1. CASE Carried(w)' \subseteq Carried(w)
    <3>1. j \in Job /\ jobs[j].status # "none" /\ ~NextSlot(j)
      <4>1. j \in Carried(w)
        BY <1>1, <2>1
      <4> QED
        BY <1>0, <4>1 DEF CarriedInv, Carried, Holding, QueueTyped, Claim, NextSlot
    <3> QED
      BY <3>1, OnlyNextSlotForgets
  <2>2. CASE ChooseDue(w)
    <3>1. PICK chunk \in SUBSET Claimable : chosen' = [chosen EXCEPT ![w] = chunk]
      BY <2>2 DEF ChooseDue
    <3>2. UNCHANGED <<jobs, batch, current>>
      BY <2>2 DEF ChooseDue
    <3>3. j \in Claimable \cup Carried(w)
      BY <1>0, <1>1, <3>1, <3>2 DEF Carried, Holding, QueueTyped
    <3> QED
      BY <3>2, <3>3 DEF Claimable, CarriedInv
  <2> QED
    BY <2>1, <2>2, OnlyChoosingTakes
<1>2. ASSUME NEW w \in Worker
      PROVE  /\ \A r \in rows'[w] : deliveries'[r.delivery].status # "none"
             /\ sending'[w] # None => deliveries'[sending'[w].delivery].status # "none"
  <2>1. \A r \in DeliveryRow : deliveries[r.delivery].status # "none"
                                 => deliveries'[r.delivery].status # "none"
    BY DeliveriesStay DEF DeliveryRow
  <2>2. CASE ListDue(w)
    <3>1. /\ rows'[w] = {[delivery |-> d, attempts |-> deliveries[d].attempts] : d \in DueDeliveries}
          /\ UNCHANGED <<deliveries, sending>>
      BY <1>0, <2>2 DEF ListDue, DeliveriesTyped
    <3>2. \A r \in rows'[w] : deliveries[r.delivery].status # "none"
      BY <3>1 DEF DueDeliveries
    <3> QED
      BY <3>1, <3>2 DEF CarriedInv
  <2>3. CASE /\ rows'[w] \subseteq rows[w]
             /\ sending'[w] \in {sending[w], None} \cup rows[w]
    <3>1. \A r \in rows[w] : r \in DeliveryRow /\ deliveries[r.delivery].status # "none"
      BY <1>0 DEF CarriedInv, DeliveriesTyped
    <3>2. sending[w] # None => /\ sending[w] \in DeliveryRow
                               /\ deliveries[sending[w].delivery].status # "none"
      BY <1>0 DEF CarriedInv, DeliveriesTyped
    <3> QED
      BY <2>1, <2>3, <3>1, <3>2
  <2> QED
    BY <2>2, <2>3, OnlyListingReads
<1> QED
  BY <1>1, <1>2 DEF CarriedInv

\* Wherever a worker is interrupted or overtaken, the rows it will settle exist.
THEOREM CarriedInvariant == Spec => []CarriedInv
<1>1. Init => CarriedInv
  BY DEF Init, QueueInit, WebhookInit, CarriedInv, Carried, Holding
<1>2. WorkerInv /\ WorkerInv' /\ CarriedInv /\ [Next]_vars => CarriedInv'
  BY CarriedKept DEF WorkerInv
<1> QED
  BY <1>1, <1>2, WorkerInvariant, PTL DEF Spec

\* One row that is written shows as one that changed.
LEMMA OneRowShows ==
  ASSUME TypeOK
  PROVE  /\ \A j \in Job : \A row \in Row :
              jobs' = [jobs EXCEPT ![j] = row] => JobStates' = [JobStates EXCEPT ![j] = Seen(row)]
         /\ \A d \in Delivery : \A row :
              deliveries' = [deliveries EXCEPT ![d] = row]
                => DeliveryStates' = [DeliveryStates EXCEPT ![d] = Seen(row)]
  BY TypeParts DEF QueueTyped, DeliveriesTyped, JobStates, DeliveryStates, Seen

\* What a table's reader sees of a row.
LEMMA SeenStates ==
  ASSUME TypeOK
  PROVE  /\ \A j \in Job : /\ JobStates[j] \in {"none", "open", "succeeded", "dead"}
                           /\ JobStates[j] = "none" <=> jobs[j].status = "none"
                           /\ JobStates[j] = "dead" <=> jobs[j].status = "dead"
                           /\ JobStates[j] = "succeeded" <=> jobs[j].status = "succeeded"
         /\ \A d \in Delivery :
              /\ DeliveryStates[d] \in {"none", "open", "succeeded", "dead"}
              /\ DeliveryStates[d] = "none" <=> deliveries[d].status = "none"
  BY TypeParts
  DEF QueueTyped, DeliveriesTyped, JobStates, DeliveryStates, Seen, Row, JobStatus, DeliveryStatus

\* Settling a row, or reopening it, is a step of Retries.
LEMMA QueueSettles ==
  ASSUME TypeOK, NEW j \in Job, NEW to \in {"open", "succeeded", "dead"},
         JobStates' = [JobStates EXCEPT ![j] = to], UNCHANGED <<runs, wins, lost>>,
         jobs[j].status = "none" => to = "open",
         to = "succeeded" => j \in wins,
         to = "dead" => runs[j] = MaxAttempts
  PROVE  [Queue!Next]_Queue!vars
<1>0. /\ JobStates[j] \in {"none", "open", "succeeded", "dead"}
      /\ JobStates[j] = "none" <=> jobs[j].status = "none"
      /\ JobStates = [i \in Job |-> JobStates[i]]
  BY SeenStates DEF JobStates
<1>1. CASE JobStates[j] = to
  <2>1. UNCHANGED JobStates
    BY <1>0, <1>1
  <2> QED
    BY <2>1 DEF Queue!vars
<1>2. CASE JobStates[j] = "none"
  <2>1. Queue!Submit(j)
    BY <1>0, <1>2 DEF Queue!Submit, Queue!Sets
  <2> QED
    BY <2>1 DEF Queue!Next
<1>3. CASE JobStates[j] \in {"succeeded", "dead"} /\ to = "open"
  <2>1. JobStates' = [i \in Job |-> IF i \in {j} THEN "open" ELSE JobStates[i]]
    BY <1>0, <1>3
  <2>2. Queue!Reopen({j})
    BY <1>3, <2>1 DEF Queue!Reopen
  <2> QED
    BY <2>2 DEF Queue!Next
<1>4. CASE JobStates[j] \in {"open", "dead"} /\ to = "succeeded"
  <2>1. Queue!Succeed(j)
    BY <1>4 DEF Queue!Succeed, Queue!Sets
  <2> QED
    BY <2>1 DEF Queue!Next
<1>5. CASE JobStates[j] \in {"open", "succeeded"} /\ to = "dead"
  <2>1. Queue!Die(j)
    BY <1>5 DEF Queue!Die, Queue!Sets
  <2> QED
    BY <2>1 DEF Queue!Next
<1> QED
  BY <1>0, <1>1, <1>2, <1>3, <1>4, <1>5

\* Every step is a step of the queue's retries, or invisible in the queue.
LEMMA QueueStep ==
  ASSUME TypeOK, JobsInv, CarriedInv, [Next]_vars
  PROVE  [Queue!Next]_Queue!vars
<1>0. /\ QueueTyped /\ MaxAttempts \in Nat \ {0} /\ pc \in [Worker -> WorkerPc]
      /\ \A w \in Worker : Located(w) /\ HandsBacked(w)
  BY TypeParts, QueueArguments DEF JobsInv
<1>1. CASE UNCHANGED <<jobs, runs, wins, lost>>
  BY <1>1 DEF JobStates, Queue!vars
<1>2. ASSUME NEW j \in Job, UNCHANGED <<runs, wins, lost>>,
             jobs' = [jobs EXCEPT ![j].status = "pending"]
      PROVE  [Queue!Next]_Queue!vars
  <2>1. PICK row \in Row : row = [jobs[j] EXCEPT !.status = "pending"] /\ row.status = "pending"
    <3>1. jobs[j] \in Row /\ "pending" \in JobStatus
      BY <1>0 DEF QueueTyped, JobStatus
    <3> QED
      BY <3>1, RowTyped
  <2>2. jobs' = [jobs EXCEPT ![j] = row]
    BY <1>2, <2>1
  <2>3. JobStates' = [JobStates EXCEPT ![j] = "open"]
    <3>1. Seen(row) = "open"
      BY <2>1 DEF Seen
    <3> QED
      BY <2>2, <3>1, OneRowShows
  <2> QED
    BY <1>2, <2>3, QueueSettles
<1>3. ASSUME NEW w \in Worker, EnsureRecurring(w)
      PROVE  [Queue!Next]_Queue!vars
  BY <1>0, <1>1, <1>2, <1>3 DEF EnsureRecurring, QueueTyped
<1>4. ASSUME NEW w \in Worker, ClaimChosen(w)
      PROVE  [Queue!Next]_Queue!vars
  <2>1. PICK some \in SUBSET Job :
          some = {j \in chosen[w] : JobStates[j] \in {"succeeded", "dead"}}
    BY <1>0 DEF QueueTyped
  <2>2. JobStates' = [j \in Job |-> IF j \in some THEN "open" ELSE JobStates[j]]
    <3>1. ASSUME NEW j \in Job
          PROVE  JobStates'[j] = IF j \in some THEN "open" ELSE JobStates[j]
      <4>1. CASE j \in chosen[w]
        <5>1. jobs'[j].status = "running"
          BY <1>0, <1>4, <4>1 DEF ClaimChosen, QueueTyped, Row
        <5>2. JobStates'[j] = "open"
          BY <5>1 DEF JobStates, Seen
        <5>3. jobs[j].status # "none"
          BY <4>1 DEF CarriedInv, Carried
        <5> QED
          BY <2>1, <4>1, <5>2, <5>3, SeenStates
      <4>2. CASE j \notin chosen[w]
        BY <1>4, <2>1, <4>2 DEF ClaimChosen, JobStates, Seen
      <4> QED
        BY <4>1, <4>2
    <3> QED
      BY <3>1 DEF JobStates
  <2>3. Queue!Reopen(some)
    BY <1>4, <2>1, <2>2 DEF ClaimChosen, Queue!Reopen
  <2> QED
    BY <2>3 DEF Queue!Next
<1>5. ASSUME NEW w \in Worker, NEW from \in {"delivering"}, Returns(w, from) \/ Throws(w, from)
      PROVE  [Queue!Next]_Queue!vars
  <2>1. PICK j \in Job : j = current[w].job /\ jobs[j].status # "none"
    <3>1. current[w] \in Claim /\ current[w] # None
      BY <1>0, <1>5, NoneIsNoClaim DEF Returns, Throws, Located, Handling, QueueTyped
    <3> QED
      BY <3>1 DEF Claim, CarriedInv, Carried, Holding
  <2>2. PICK ok \in BOOLEAN : wins' = IF ok THEN wins \cup {j} ELSE wins
    <3>1. wins' = wins \cup {j} \/ wins' = wins
      BY <1>5, <2>1 DEF Returns, Throws
    <3> QED
      BY <3>1
  <2>3. /\ runs' = [runs EXCEPT ![j] = IF @ < MaxAttempts THEN @ + 1 ELSE @]
        /\ UNCHANGED <<jobs, lost>>
    BY <1>5, <2>1 DEF Returns, Throws, Counted, OneMore
  <2>4. UNCHANGED JobStates /\ JobStates[j] # "none"
    BY <2>1, <2>3, SeenStates DEF JobStates
  <2>5. Queue!Try(j, ok)
    BY <2>2, <2>3, <2>4 DEF Queue!Try
  <2> QED
    BY <2>5 DEF Queue!Next
<1>6. ASSUME NEW w \in Worker, SettleSuccess(w) \/ SettleFailure(w)
      PROVE  [Queue!Next]_Queue!vars
  <2>1. PICK j \in Job, n \in 0 .. MaxAttempts :
          current[w].job = j /\ current[w].attempts = n /\ jobs[j].status # "none"
    <3>1. current[w] \in Claim /\ current[w] # None
      BY <1>0, <1>6, NoneIsNoClaim DEF SettleSuccess, SettleFailure, Located, Handling, QueueTyped
    <3> QED
      BY <3>1 DEF Claim, CarriedInv, Carried, Holding
  <2>2. OneMore(n) <= runs[j]
    BY <1>0, <1>6, <2>1 DEF SettleSuccess, SettleFailure, HandsBacked
  <2>3. PICK status \in {"succeeded", "dead", "failed"} :
          /\ Settle(w, status)
          /\ status = "succeeded" => j \in wins
          /\ status = "dead" => n + 1 >= MaxAttempts
    <3>1. CASE SettleSuccess(w)
      BY <1>0, <2>1, <3>1 DEF SettleSuccess, HandsBacked
    <3>2. CASE SettleFailure(w)
      BY <2>1, <3>2 DEF SettleFailure
    <3> QED
      BY <1>6, <3>1, <3>2
  <2>4. PICK row \in Row : row = [status |-> status, attempts |-> OneMore(n)]
    BY OneMoreCounts DEF Row, JobStatus
  <2>5. jobs' = [jobs EXCEPT ![j] = row] /\ UNCHANGED <<runs, wins, lost>>
    BY <2>1, <2>3, <2>4 DEF Settle
  <2>6. PICK to \in {"open", "succeeded", "dead"} :
          /\ to = Seen(row) /\ (to = "succeeded" => status = "succeeded")
          /\ to = "dead" => status = "dead"
    BY <2>4 DEF Seen
  <2>7. JobStates' = [JobStates EXCEPT ![j] = to]
    BY <2>5, <2>6, OneRowShows
  <2>8. to = "dead" => runs[j] = MaxAttempts
    <3>1. runs[j] \in 0 .. MaxAttempts
      BY <1>0 DEF QueueTyped
    <3> QED
      BY <1>0, <2>2, <2>3, <2>6, <3>1, OneMoreCounts
  <2> QED
    BY <2>1, <2>3, <2>5, <2>6, <2>7, <2>8, QueueSettles
<1>7. ASSUME NEW w \in Worker, TickDies(w)
      PROVE  [Queue!Next]_Queue!vars
  <2>1. PICK gone \in SUBSET Job : gone = Holding(w)
    <3>1. Holding(w) \subseteq Job
      BY <1>0 DEF Holding, QueueTyped, Claim
    <3> QED
      BY <3>1
  <2>2. \A j \in gone : JobStates[j] # "none"
    BY <2>1, SeenStates DEF CarriedInv, Carried
  <2>3. lost' = lost \cup gone /\ UNCHANGED <<JobStates, runs, wins>>
    BY <1>7, <2>1 DEF TickDies, JobStates
  <2>4. Queue!Lose(gone)
    BY <2>2, <2>3 DEF Queue!Lose
  <2> QED
    BY <2>4 DEF Queue!Next
<1>8. ASSUME NEW j \in Job, NextSlot(j)
      PROVE  [Queue!Next]_Queue!vars
  <2>1. NoRow \in Row /\ Seen(NoRow) = "none"
    BY <1>0 DEF NoRow, Row, JobStatus, Seen
  <2>2. jobs' = [jobs EXCEPT ![j] = NoRow] /\ (jobs[j].status \in {"none", "succeeded", "dead"} \/ j \in lost)
    BY <1>8 DEF NextSlot
  <2>3. JobStates' = [JobStates EXCEPT ![j] = "none"]
    BY <2>1, <2>2, OneRowShows
  <2>4. JobStates[j] # "open" \/ j \in lost
    BY <2>2, SeenStates
  <2>5. Queue!Replace(j)
    BY <1>8, <2>3, <2>4 DEF NextSlot, Queue!Replace
  <2> QED
    BY <2>5 DEF Queue!Next
<1>9. ASSUME NEW j \in Job, RetryDead(j)
      PROVE  [Queue!Next]_Queue!vars
  BY <1>2, <1>9 DEF RetryDead
<1>10. ASSUME NEW w \in Worker, Tick(w)
       PROVE  [Queue!Next]_Queue!vars
  <2>1. CASE DeliverEnds(w)
    <3>1. PICK from \in {"delivering"} : Returns(w, from)
      BY <2>1 DEF DeliverEnds
    <3> QED
      BY <1>5, <3>1
  <2>2. CASE \/ ChooseDue(w) \/ StartHandler(w) \/ EndTick(w) \/ ListDue(w)
             \/ (\E ok \in BOOLEAN : Post(w, ok)) \/ Record(w)
    BY <1>1, <2>2 DEF ChooseDue, StartHandler, EndTick, ListDue, Post, Record
  <2> QED
    BY <1>3, <1>4, <1>6, <1>10, <2>1, <2>2 DEF Tick
<1>11. ASSUME NEW w \in Worker, Fault(w)
       PROVE  [Queue!Next]_Queue!vars
  <2>1. CASE DeliverThrows(w)
    <3>1. PICK from \in {"delivering"} : Throws(w, from)
      BY <2>1 DEF DeliverThrows
    <3> QED
      BY <1>5, <3>1
  <2>2. CASE SettleSuccessFails(w)
    BY <1>1, <2>2 DEF SettleSuccessFails
  <2> QED
    BY <1>7, <1>11, <2>1, <2>2 DEF Fault
<1>12. CASE \/ \E j \in Job : BackoffEnds(j)
            \/ \E d \in Delivery : RetryDue(d) \/ Enqueue(d)
            \/ UNCHANGED vars
  BY <1>1, <1>12 DEF BackoffEnds, RetryDue, Enqueue, vars, queueVars
<1> QED
  BY <1>8, <1>9, <1>10, <1>11, <1>12 DEF Next, Clock, Operator

\* Every step is a step of the deliveries' retries, or invisible in them.
LEMMA DeliveriesStep ==
  ASSUME TypeOK, DeliveriesInv, CarriedInv, [Next]_vars
  PROVE  [Deliveries!Next]_Deliveries!vars
<1>0. /\ DeliveriesTyped /\ MaxPosts \in Nat \ {0}
      /\ \A w \in Worker : Located(w) /\ PostsBacked(w)
  BY TypeParts, DeliveriesParts, WebhookArguments
<1>1. CASE UNCHANGED <<deliveries, posts, acked>>
  BY <1>1 DEF DeliveryStates, Deliveries!vars
<1>2. ASSUME NEW d \in Delivery, Enqueue(d)
      PROVE  [Deliveries!Next]_Deliveries!vars
  <2>1. DeliveryStates' = [DeliveryStates EXCEPT ![d] = "open"]
    <3>1. PICK row : /\ row = [deliveries[d] EXCEPT !.status = "pending"]
                     /\ row.status = "pending"
      <4>1. deliveries[d] \in [status : DeliveryStatus, attempts : 0 .. MaxPosts]
        BY <1>0 DEF DeliveriesTyped
      <4>2. [deliveries[d] EXCEPT !.status = "pending"].status = "pending"
        BY <4>1
      <4> QED
        BY <4>2
    <3>2. deliveries' = [deliveries EXCEPT ![d] = row]
      BY <1>2, <3>1 DEF Enqueue
    <3>3. Seen(row) = "open"
      BY <3>1 DEF Seen
    <3> QED
      BY <3>2, <3>3, OneRowShows
  <2>2. DeliveryStates[d] = "none"
    BY <1>2, SeenStates DEF Enqueue
  <2>3. Deliveries!Submit(d)
    BY <1>2, <2>1, <2>2 DEF Enqueue, Deliveries!Submit, Deliveries!Sets
  <2> QED
    BY <2>3 DEF Deliveries!Next
<1>3. ASSUME NEW w \in Worker, NEW ok \in BOOLEAN, Post(w, ok)
      PROVE  [Deliveries!Next]_Deliveries!vars
  <2>1. PICK r \in rows[w] :
          /\ posts' = [posts EXCEPT ![r.delivery] = IF @ < MaxPosts THEN @ + 1 ELSE @]
          /\ acked' = IF ok THEN acked \cup {r.delivery} ELSE acked
    BY <1>3 DEF Post
  <2>2. PICK d \in Delivery : d = r.delivery /\ deliveries[d].status # "none"
    BY <1>0, <2>1 DEF DeliveriesTyped, DeliveryRow, CarriedInv
  <2>3. UNCHANGED DeliveryStates /\ DeliveryStates[d] # "none"
    BY <1>3, <2>2, SeenStates DEF Post, DeliveryStates
  <2>4. Deliveries!Try(d, ok)
    BY <2>1, <2>2, <2>3 DEF Deliveries!Try
  <2> QED
    BY <2>4 DEF Deliveries!Next
<1>4. ASSUME NEW w \in Worker, Record(w)
      PROVE  [Deliveries!Next]_Deliveries!vars
  <2>1. PICK r \in DeliveryRow, ok \in BOOLEAN : r = sending[w] /\ ok = accepted[w] /\ r # None
    BY <1>0, <1>4 DEF Record, Located, DeliveriesTyped
  <2>2. PICK d \in Delivery : d = r.delivery /\ deliveries[d].status # "none"
    BY <2>1 DEF DeliveryRow, CarriedInv
  <2>3. /\ r.attempts \in 0 .. MaxPosts /\ r.attempts + 1 <= posts[d]
        /\ posts[d] \in 0 .. MaxPosts /\ (ok => d \in acked)
    BY <1>0, <2>1, <2>2 DEF DeliveriesTyped, DeliveryRow, PostsBacked
  <2>4. PICK row : row = [status |-> StatusAfter(r, ok), attempts |-> r.attempts + 1]
    OBVIOUS
  <2>5. deliveries' = [deliveries EXCEPT ![d] = row] /\ UNCHANGED <<posts, acked>>
    BY <1>4, <2>1, <2>2, <2>4 DEF Record
  <2>6. PICK to \in {"open", "succeeded", "dead"} :
          /\ to = Seen(row)
          /\ to = "succeeded" => d \in acked
          /\ to = "dead" => posts[d] = MaxPosts
    <3>1. CASE ok
      <4>1. Seen(row) = "succeeded"
        BY <2>4, <3>1 DEF StatusAfter, Seen
      <4> QED
        BY <2>3, <3>1, <4>1
    <3>2. CASE ~ok /\ r.attempts + 1 >= MaxPosts
      <4>1. Seen(row) = "dead"
        BY <2>4, <3>2 DEF StatusAfter, Seen
      <4> QED
        BY <1>0, <2>3, <3>2, <4>1
    <3>3. CASE ~ok /\ ~(r.attempts + 1 >= MaxPosts)
      <4>1. Seen(row) = "open"
        BY <2>4, <3>3 DEF StatusAfter, Seen
      <4> QED
        BY <4>1
    <3> QED
      BY <3>1, <3>2, <3>3
  <2>7. /\ DeliveryStates' = [DeliveryStates EXCEPT ![d] = to]
        /\ DeliveryStates[d] \in {"open", "succeeded", "dead"}
        /\ DeliveryStates = [e \in Delivery |-> DeliveryStates[e]]
    BY <2>2, <2>5, <2>6, OneRowShows, SeenStates DEF DeliveryStates
  <2>8. CASE DeliveryStates[d] = to
    <3>1. UNCHANGED DeliveryStates
      BY <2>7, <2>8
    <3> QED
      BY <2>5, <3>1 DEF Deliveries!vars
  <2>9. CASE DeliveryStates[d] # to /\ to = "open"
    <3>1. DeliveryStates' = [e \in Delivery |-> IF e \in {d} THEN "open" ELSE DeliveryStates[e]]
      BY <2>7, <2>9
    <3>2. Deliveries!Reopen({d})
      BY <2>5, <2>7, <2>9, <3>1 DEF Deliveries!Reopen
    <3> QED
      BY <3>2 DEF Deliveries!Next
  <2>10. CASE DeliveryStates[d] # to /\ to = "succeeded"
    <3>1. Deliveries!Succeed(d)
      BY <2>5, <2>6, <2>7, <2>10 DEF Deliveries!Succeed, Deliveries!Sets
    <3> QED
      BY <3>1 DEF Deliveries!Next
  <2>11. CASE DeliveryStates[d] # to /\ to = "dead"
    <3>1. Deliveries!Die(d)
      BY <2>5, <2>6, <2>7, <2>11 DEF Deliveries!Die, Deliveries!Sets
    <3> QED
      BY <3>1 DEF Deliveries!Next
  <2> QED
    BY <2>8, <2>9, <2>10, <2>11
<1>5. ASSUME NEW w \in Worker, Tick(w) \/ Fault(w), ~Record(w), ~\E ok \in BOOLEAN : Post(w, ok)
      PROVE  UNCHANGED <<deliveries, posts, acked>>
  BY <1>5 DEF Tick, Fault, ListDue, DeliverEnds, DeliverThrows, Forgets, webhookVars
<1>6. CASE Clock \/ Operator \/ UNCHANGED vars
  BY <1>1, <1>6 DEF Clock, Operator, RetryDue, vars, webhookVars
<1> QED
  BY <1>1, <1>2, <1>3, <1>4, <1>5, <1>6 DEF Next

\* The empty tables are retries not yet begun.
LEMMA RetriesInitially == Init => Queue!Init /\ Deliveries!Init
  BY DEF Init, QueueInit, WebhookInit, NoRow, JobStates, DeliveryStates, Seen, Queue!Init,
         Deliveries!Init

\* Though claims are not exclusive and every settlement overwrites its row from what was read
\* long before, both tables are retried as Retries promises: an item fails for good only after
\* its last try and succeeds only after one that did, it may be reopened by a late failure,
\* and nothing that is open makes room for other work unless its worker died.
THEOREM ImplementsTheRetries == Spec => ImplementsRetries
<1>1. WorkerInv /\ CarriedInv /\ [Next]_vars
        => [Queue!Next]_Queue!vars /\ [Deliveries!Next]_Deliveries!vars
  BY QueueStep, DeliveriesStep DEF WorkerInv
<1> QED
  BY <1>1, RetriesInitially, WorkerInvariant, CarriedInvariant, PTL
  DEF Spec, ImplementsRetries, Queue!Spec, Deliveries!Spec


\* A step that keeps the work that nobody has finished.
WorkKept ==
  /\ \A j \in Job :
       JobStates[j] = "open" /\ j \notin lost
         => JobStates'[j] # "none" /\ runs[j] <= runs'[j] /\ (j \in wins => j \in wins')
  /\ \A d \in Delivery :
       DeliveryStates[d] = "open"
         => DeliveryStates'[d] # "none" /\ posts[d] <= posts'[d] /\ (d \in acked => d \in acked')

outcomes == <<JobStates, runs, wins, DeliveryStates, posts, acked>>

\* What nobody has finished is never thrown away: a scheduled row is neither deleted nor reset for
\* the next slot unless it is settled or its worker died, until then no run and no success of its
\* handler is forgotten, and deliveries with what their endpoints accepted are kept for good.
THEOREM WorkIsKept == Spec => [][WorkKept]_outcomes
<1>1. ASSUME TypeOK, [Queue!Next]_Queue!vars, NEW j \in Job, JobStates[j] = "open", j \notin lost
      PROVE  JobStates'[j] # "none" /\ runs[j] <= runs'[j] /\ (j \in wins => j \in wins')
  <2>1. runs \in [Job -> Nat] /\ DOMAIN JobStates = Job
    BY <1>1 DEF TypeOK, QueueTypeOK, JobStates
  <2>2. CASE UNCHANGED Queue!vars
    BY <1>1, <2>1, <2>2 DEF Queue!vars
  <2>3. CASE Queue!Next
    BY <1>1, <2>1, <2>3
    DEF Queue!Next, Queue!Submit, Queue!Succeed, Queue!Die, Queue!Replace, Queue!Try, Queue!Reopen,
        Queue!Lose, Queue!Sets
  <2> QED
    BY <1>1, <2>2, <2>3
<1>2. ASSUME TypeOK, [Deliveries!Next]_Deliveries!vars, NEW d \in Delivery,
             DeliveryStates[d] = "open"
      PROVE  DeliveryStates'[d] # "none" /\ posts[d] <= posts'[d] /\ (d \in acked => d \in acked')
  <2>1. posts \in [Delivery -> Nat] /\ DOMAIN DeliveryStates = Delivery
    BY <1>2 DEF TypeOK, WebhookTypeOK, DeliveryStates
  <2>2. CASE UNCHANGED Deliveries!vars
    BY <1>2, <2>1, <2>2 DEF Deliveries!vars
  <2>3. CASE Deliveries!Next
    BY <1>2, <2>1, <2>3
    DEF Deliveries!Next, Deliveries!Submit, Deliveries!Succeed, Deliveries!Die,
        Deliveries!Replace, Deliveries!Try, Deliveries!Reopen, Deliveries!Lose, Deliveries!Sets
  <2> QED
    BY <1>2, <2>2, <2>3
<1>3. TypeOK /\ [Queue!Next]_Queue!vars /\ [Deliveries!Next]_Deliveries!vars => [WorkKept]_outcomes
  BY <1>1, <1>2 DEF WorkKept
<1> QED
  BY <1>3, ImplementsTheRetries, WorkersAreTyped, PTL
  DEF ImplementsRetries, Queue!Spec, Deliveries!Spec

=============================================================================
