----------------------------- MODULE AuditChain -----------------------------
(***************************************************************************)
(* appendAudit: one transaction that takes the advisory lock, reads the    *)
(* newest event_hash and inserts the next event.  An event stands for one  *)
(* call and for its event_hash.  Any number of calls run at once, each on  *)
(* its own connection, under READ COMMITTED; any of them may fail and be   *)
(* rolled back, which leaves a gap in seq.                                 *)
(***************************************************************************)
EXTENDS Naturals, NoValue

CONSTANTS
  Event   \* calls of appendAudit

ASSUME NoneIsNoEvent == None \notin Event

VARIABLES
  events,    \* audit_events: the committed rows
  nextSeq,   \* the identity sequence of audit_events.seq
  lock,      \* the call that holds pg_advisory_xact_lock
  at,        \* where each call is
  previous,  \* the head it has read
  inserted   \* the row it has inserted and not committed

chainVars == <<events, nextSeq, lock, at, previous, inserted>>

EventRow == [event : Event, prev : Event \cup {None}, seq : Nat \ {0}]

\* The types of the table and of the calls' locals.
ChainTypeOK ==
  /\ events \subseteq EventRow
  /\ nextSeq \in Nat \ {0}
  /\ lock \in Event \cup {None}
  /\ at \in [Event -> {"start", "locked", "read", "inserted", "done", "failed"}]
  /\ previous \in [Event -> Event \cup {None}]
  /\ inserted \in [Event -> EventRow \cup {None}]

ChainInit ==
  /\ events = {} /\ nextSeq = 1 /\ lock = None
  /\ at = [e \in Event |-> "start"]
  /\ previous = [e \in Event |-> None]
  /\ inserted = [e \in Event |-> None]

\* ORDER BY seq DESC LIMIT 1.
NewestOf(rows) ==
  IF rows = {} THEN None
  ELSE (CHOOSE r \in rows : \A q \in rows : q.seq <= r.seq).event

-----------------------------------------------------------------------------
\* Mutant: the lock is the caller's own, per organisation.
LockOwn(e) ==
  /\ at[e] = "start"
  /\ lock' = e
  /\ at' = [at EXCEPT ![e] = "locked"]
  /\ UNCHANGED <<events, nextSeq, previous, inserted>>

\* The statement waits until no other transaction holds the lock.
Lock(e) ==
  /\ at[e] = "start" /\ lock = None
  /\ lock' = e
  /\ at' = [at EXCEPT ![e] = "locked"]
  /\ UNCHANGED <<events, nextSeq, previous, inserted>>

ReadHead(e) ==
  /\ at[e] = "locked"
  /\ previous' = [previous EXCEPT ![e] = NewestOf(events)]
  /\ at' = [at EXCEPT ![e] = "read"]
  /\ UNCHANGED <<events, nextSeq, lock, inserted>>

\* The row is in the table and not visible to others.
Insert(e) ==
  /\ at[e] = "read"
  /\ inserted' = [inserted EXCEPT ![e] = [event |-> e, prev |-> previous[e], seq |-> nextSeq]]
  /\ nextSeq' = nextSeq + 1
  /\ at' = [at EXCEPT ![e] = "inserted"]
  /\ UNCHANGED <<events, lock, previous>>

\* Mutant: the lock is given back after the INSERT, before the COMMIT.
UnlockEarly(e) ==
  /\ at[e] = "inserted"
  /\ IF lock = e THEN lock' = None /\ UNCHANGED <<events, at, inserted>>
     ELSE /\ events' = events \cup {inserted[e]}
          /\ inserted' = [inserted EXCEPT ![e] = None]
          /\ at' = [at EXCEPT ![e] = "done"]
          /\ UNCHANGED lock
  /\ UNCHANGED <<nextSeq, previous>>

\* COMMIT, which gives the lock back.
Commit(e) ==
  /\ at[e] = "inserted"
  /\ events' = events \cup {inserted[e]}
  /\ inserted' = [inserted EXCEPT ![e] = None]
  /\ lock' = None
  /\ at' = [at EXCEPT ![e] = "done"]
  /\ UNCHANGED <<nextSeq, previous>>

\* A statement throws, or the process or its connection dies: ROLLBACK.
Rollback(e) ==
  /\ at[e] \in {"locked", "read", "inserted"}
  /\ inserted' = [inserted EXCEPT ![e] = None]
  /\ lock' = None
  /\ at' = [at EXCEPT ![e] = "failed"]
  /\ UNCHANGED <<events, nextSeq, previous>>

AppendAudit ==
  \E e \in Event : Lock(e) \/ ReadHead(e) \/ Insert(e) \/ Commit(e) \/ Rollback(e)

-----------------------------------------------------------------------------
Before(rows, r) == {q \in rows : q.seq < r.seq}

\* verifyAuditChain: walking the rows by seq, every previous_hash is the hash before it.
ChainVerifies(rows) == \A r \in rows : r.prev = NewestOf(Before(rows, r))

\* verifyAuditChain holds whenever it is run, however many calls append at once: no two
\* events claim the same parent.
ChainVerified == ChainVerifies(events)

=============================================================================
