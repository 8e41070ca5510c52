----------------------------- MODULE AuditProofs -----------------------------
(***************************************************************************)
(* The audit chain never forks, and concurrent calls of appendAudit        *)
(* implement the append-only log of AuditLog, for any number of calls and  *)
(* of export jobs.  The export jobs leave no committed row out.            *)
(***************************************************************************)
EXTENDS AuditExport, FiniteSetTheorems, TLAPS

\* Only the call that holds the lock is past it.
Exclusive == \A e \in Event : at[e] \in {"locked", "read", "inserted"} => lock = e

\* What that call has read is still the newest event, and what it has inserted is newer than
\* every committed row.
Current ==
  /\ \A e \in Event : at[e] \in {"read", "inserted"} => previous[e] = NewestOf(events)
  /\ \A e \in Event : at[e] = "inserted" =>
       /\ inserted[e] \in EventRow
       /\ inserted[e].event = e
       /\ inserted[e].prev = previous[e]
       /\ inserted[e].seq < nextSeq
       /\ \A r \in events : r.seq < inserted[e].seq

\* Rows are numbered below nextSeq, one per call that has returned.
Settled == \A r \in events : r.seq < nextSeq /\ at[r.event] = "done"

\* A newest row exists unless there is none at all.
HasNewest(rows) == rows = {} \/ \E r \in rows : \A q \in rows : q.seq <= r.seq

ChainInv ==
  ChainTypeOK /\ Exclusive /\ Current /\ Settled /\ HasNewest(events) /\ ChainVerified

-----------------------------------------------------------------------------
\* A row newer than all others is the head once it is added.
LEMMA NewestIsHead ==
  ASSUME NEW S \in SUBSET EventRow, NEW n \in EventRow, \A r \in S : r.seq < n.seq
  PROVE  NewestOf(S \cup {n}) = n.event
<1> DEFINE T == S \cup {n}
           Newest(r) == \A q \in T : q.seq <= r.seq
<1>1. n \in T /\ Newest(n)
  BY DEF EventRow
<1>2. ASSUME NEW r \in T, Newest(r)
      PROVE  r = n
  BY <1>2 DEF EventRow
<1>3. (CHOOSE r \in T : Newest(r)) = n
  BY <1>1, <1>2
<1>4. T # {}
  OBVIOUS
<1>5. NewestOf(T) = (CHOOSE r \in T : Newest(r)).event
  BY <1>4 DEF NewestOf
<1> QED
  BY <1>3, <1>5

\* Adding a row linked to the head, newer than all others, keeps the chain verifiable.
LEMMA AppendVerifies ==
  ASSUME NEW S \in SUBSET EventRow, NEW n \in EventRow, \A r \in S : r.seq < n.seq,
         n.prev = NewestOf(S), ChainVerifies(S)
  PROVE  ChainVerifies(S \cup {n})
<1> SUFFICES ASSUME NEW r \in S \cup {n}
             PROVE  r.prev = NewestOf(Before(S \cup {n}, r))
  BY DEF ChainVerifies
<1>1. CASE r = n
  <2>1. Before(S \cup {n}, n) = S
    BY DEF Before, EventRow
  <2> QED
    BY <1>1, <2>1
<1>2. CASE r # n
  <2>1. r \in S
    BY <1>2
  <2>2. Before(S \cup {n}, r) = Before(S, r)
    BY <2>1 DEF Before, EventRow
  <2> QED
    BY <2>1, <2>2 DEF ChainVerifies
<1> QED
  BY <1>1, <1>2

\* The newest of typed rows is an event, or none.
LEMMA HeadIsTyped ==
  ASSUME NEW S \in SUBSET EventRow, HasNewest(S)
  PROVE  NewestOf(S) \in Event \cup {None}
  BY DEF NewestOf, HasNewest, EventRow

-----------------------------------------------------------------------------
\* The empty table satisfies the invariant.
LEMMA ChainInitially == Init => ChainInv
  BY DEF Init, ChainInit, ChainInv, ChainTypeOK, Exclusive, Current, Settled, HasNewest,
         ChainVerified, ChainVerifies

\* Every statement of a call of appendAudit keeps the invariant; exports do not touch it.
LEMMA ChainStep == ChainInv /\ [Next]_vars => ChainInv'
<1> SUFFICES ASSUME ChainInv, [Next]_vars
             PROVE  ChainInv'
  OBVIOUS
<1> USE NoneIsNoEvent DEF ChainInv
<1>1. ASSUME NEW e \in Event, Lock(e)
      PROVE  ChainInv'
  BY <1>1 DEF Lock, ChainTypeOK, Exclusive, Current, Settled, ChainVerified
<1>2. ASSUME NEW e \in Event, ReadHead(e)
      PROVE  ChainInv'
  <2>1. NewestOf(events) \in Event \cup {None}
    BY HeadIsTyped DEF ChainTypeOK
  <2>2. ChainTypeOK' /\ Exclusive'
    BY <1>2, <2>1 DEF ReadHead, ChainTypeOK, Exclusive
  <2>3. Current'
    BY <1>2 DEF ReadHead, ChainTypeOK, Current
  <2>4. Settled' /\ HasNewest(events)' /\ ChainVerified'
    BY <1>2 DEF ReadHead, ChainTypeOK, Settled, ChainVerified
  <2> QED
    BY <2>2, <2>3, <2>4
<1>3. ASSUME NEW e \in Event, Insert(e)
      PROVE  ChainInv'
  <2> DEFINE n == [event |-> e, prev |-> previous[e], seq |-> nextSeq]
  <2>1. n \in EventRow /\ inserted' = [inserted EXCEPT ![e] = n] /\ nextSeq' = nextSeq + 1
    BY <1>3 DEF Insert, ChainTypeOK, EventRow
  <2>2. ChainTypeOK' /\ Exclusive'
    BY <1>3, <2>1 DEF Insert, ChainTypeOK, Exclusive
  <2>3. \A r \in events : r.seq < nextSeq /\ r.seq < nextSeq'
    BY <2>1 DEF Settled, ChainTypeOK, EventRow
  <2>4. Current'
    <3>1. \A f \in Event \ {e} : at'[f] # "inserted" /\ at'[f] # "read"
      BY <1>3 DEF Insert, ChainTypeOK, Exclusive
    <3>2. at'[e] = "inserted" /\ inserted'[e] = n /\ previous' = previous /\ events' = events
      BY <1>3, <2>1 DEF Insert, ChainTypeOK
    <3>3. previous[e] = NewestOf(events)
      BY <1>3 DEF Insert, Current
    <3>4. n.seq < nextSeq' /\ \A r \in events : r.seq < n.seq
      BY <2>1, <2>3 DEF ChainTypeOK
    <3> QED
      BY <3>1, <3>2, <3>3, <3>4, <2>1 DEF Current
  <2>5. Settled' /\ HasNewest(events)' /\ ChainVerified'
    <3>1. events' = events /\ \A f \in Event : at[f] = "done" => at'[f] = "done"
      BY <1>3 DEF Insert, ChainTypeOK
    <3> QED
      BY <3>1, <2>3 DEF Settled, ChainVerified, ChainTypeOK, EventRow
  <2> QED
    BY <2>2, <2>4, <2>5
<1>4. ASSUME NEW e \in Event, Commit(e)
      PROVE  ChainInv'
  <2> DEFINE n == inserted[e]
  <2>1. /\ n \in EventRow /\ n.event = e /\ n.prev = NewestOf(events) /\ n.seq < nextSeq
        /\ \A r \in events : r.seq < n.seq
    BY <1>4 DEF Commit, Current
  <2>2. events' = events \cup {n} /\ events' \in SUBSET EventRow
    BY <1>4, <2>1 DEF Commit, ChainTypeOK
  <2>3. ChainTypeOK' /\ Exclusive'
    BY <1>4, <2>2 DEF Commit, ChainTypeOK, Exclusive
  <2>4. Current'
    <3>1. \A f \in Event : at'[f] \notin {"read", "inserted"}
      BY <1>4 DEF Commit, ChainTypeOK, Exclusive
    <3> QED
      BY <3>1 DEF Current
  <2>5. Settled'
    BY <1>4, <2>1, <2>2 DEF Commit, Settled, ChainTypeOK, EventRow
  <2>6. HasNewest(events)'
    BY <2>1, <2>2 DEF HasNewest, EventRow, ChainTypeOK
  <2>7. ChainVerified'
    BY <2>1, <2>2, AppendVerifies DEF ChainVerified, ChainTypeOK
  <2> QED
    BY <2>3, <2>4, <2>5, <2>6, <2>7
<1>5. ASSUME NEW e \in Event, Rollback(e)
      PROVE  ChainInv'
  <2>1. ChainTypeOK' /\ Exclusive'
    BY <1>5 DEF Rollback, ChainTypeOK, Exclusive
  <2>2. Current'
    <3>1. \A f \in Event : at'[f] \notin {"read", "inserted"}
      BY <1>5 DEF Rollback, ChainTypeOK, Exclusive
    <3> QED
      BY <3>1 DEF Current
  <2>3. Settled' /\ HasNewest(events)' /\ ChainVerified'
    BY <1>5 DEF Rollback, ChainTypeOK, EventRow, Settled, ChainVerified
  <2> QED
    BY <2>1, <2>2, <2>3
<1>6. ASSUME UNCHANGED chainVars
      PROVE  ChainInv'
  BY <1>6 DEF chainVars, ChainTypeOK, Exclusive, Current, Settled, ChainVerified
<1>7. ASSUME NEW x \in Export, ExportStep(x)
      PROVE  UNCHANGED chainVars
  BY <1>7 DEF ExportStep, ReadMark, ListHashes, ReadFull, PutSegment, RecordExport, ExportFails
<1>8. ASSUME NEW w \in Exporter, WorkerRestarts(w)
      PROVE  UNCHANGED chainVars
  BY <1>8 DEF WorkerRestarts
<1> QED
  BY <1>1, <1>2, <1>3, <1>4, <1>5, <1>6, <1>7, <1>8 DEF Next, AppendAudit, vars

\* The invariant the theorems rest on.
THEOREM ChainInvariant == Spec => []ChainInv
  BY ChainInitially, ChainStep, PTL DEF Spec

\* verifyAuditChain never reports a fork: every event's previous_hash is the hash of the
\* committed event before it.
THEOREM ChainIsAlwaysVerified == Spec => []ChainVerified
  BY ChainInvariant, PTL DEF ChainInv

-----------------------------------------------------------------------------
\* A commit is one Append of the log; nothing else changes the committed rows.
LEMMA LogStep == ChainInv /\ [Next]_vars => [Log!Next]_<<Links, NewestOf(events)>>
<1> SUFFICES ASSUME ChainInv, [Next]_vars, events' # events
             PROVE  Log!Next
  BY DEF Links
<1>1. PICK e \in Event : Commit(e)
  BY DEF Next, AppendAudit, ExportStep, Lock, ReadHead, Insert, Rollback, ReadMark, ListHashes,
         ReadFull, PutSegment, RecordExport, ExportFails, WorkerRestarts, vars, chainVars
<1> DEFINE n == inserted[e]
<1>2. /\ events \in SUBSET EventRow /\ n \in EventRow
      /\ n.event = e /\ n.prev = NewestOf(events) /\ \A r \in events : r.seq < n.seq
  BY <1>1 DEF Commit, ChainInv, ChainTypeOK, Current
<1>3. events' = events \cup {n}
  BY <1>1 DEF Commit
<1>4. \A link \in Links : link.event # e
  BY <1>1 DEF Links, Commit, ChainInv, Settled, ChainTypeOK, EventRow
<1>5. Links' = Links \cup {[event |-> e, prev |-> NewestOf(events)]}
  BY <1>2, <1>3 DEF Links
<1>6. NewestOf(events)' = e
  BY <1>2, <1>3, NewestIsHead
<1> QED
  BY <1>4, <1>5, <1>6 DEF Log!Next, Log!Append

\* The empty table is the empty log.
LEMMA LogInitially == Init => Log!Init
  BY DEF Init, ChainInit, Log!Init, Links, NewestOf

\* However many calls race, fail and roll back, the committed rows grow as the append-only
\* log does: one event at a time, linked to the newest.
THEOREM ImplementsTheLog == Spec => ImplementsAuditLog
  BY ChainInvariant, LogInitially, LogStep, PTL DEF Spec, ImplementsAuditLog, Log!Spec

-----------------------------------------------------------------------------
(***************************************************************************)
(* Exports.                                                                *)
(***************************************************************************)

\* Rows S hold every committed row from seq a to seq b.
Covers(S, a, b) == \A r \in events : a <= r.seq /\ r.seq <= b => r \in S

\* Committed rows that the SELECT from seq a returns before it comes to seq b.
RowsBefore(a, b) == {q \in events : q.seq >= a /\ q.seq < b}

\* The process that stored this range has it in full, or has restarted since.
Stands(w, a, b) ==
  \/ <<w, a, b>> \in forgotten
  \/ <<w, a, b>> \in DOMAIN segments /\ Covers(segments[<<w, a, b>>], a, b)

\* How far export x has come.  Its range ends at a committed row, so what commits later is
\* newer than the range; it starts no later than the high-water mark ends.
ExportBacked(x) ==
  /\ Running(x) => from[x] # 0 /\ from[x] <= HighWater + 1
  /\ step[x] \in {"listed", "read", "stored"} =>
       /\ headHash[x] # None
       /\ \E r \in events : r.seq = to[x]
       /\ Cardinality(RowsBefore(from[x], to[x])) < Chunk
  /\ step[x] \in {"read", "stored"} => Covers(lines[x], from[x], to[x])
  /\ step[x] = "stored" => Stands(worker[x], from[x], to[x])

\* A recorded export ends at a committed row, and some process stored its range.
Recorded(x) ==
  /\ \E r \in events : r.seq = x.to
  /\ \E w \in Exporter : Stands(w, x.from, x.to)

\* Every committed row up to the mark is in the range of a recorded export.
RangesMeet ==
  \A r \in events : r.seq <= HighWater => \E x \in exports : x.from <= r.seq /\ r.seq <= x.to

\* The table is finite, and any part of it has a newest row.
Ranked == IsFiniteSet(events) /\ \A rows \in SUBSET events : HasNewest(rows)

HasHighest == exports = {} \/ \E x \in exports : \A y \in exports : y.to <= x.to

ExportInv ==
  /\ TypeOK /\ Ranked /\ HasHighest /\ RangesMeet
  /\ \A x \in Export : ExportBacked(x)
  /\ \A x \in exports : Recorded(x)

\* The mark is the largest to_seq of a recorded export, or 0.
LEMMA MarkIsHighest ==
  ASSUME exports \subseteq ExportRow, HasHighest
  PROVE  /\ HighWater \in Nat
         /\ \A x \in exports : x.to <= HighWater
         /\ IF exports = {} THEN HighWater = 0 ELSE \E x \in exports : x.to = HighWater
<1>1. CASE exports = {}
  BY <1>1 DEF HighWater
<1>2. CASE exports # {}
  <2> DEFINE Highest(x) == \A y \in exports : y.to <= x.to
             top == CHOOSE x \in exports : Highest(x)
  <2>1. top \in exports /\ Highest(top)
    BY <1>2 DEF HasHighest
  <2>2. HighWater = top.to
    BY <1>2 DEF HighWater
  <2> QED
    BY <1>2, <2>1, <2>2 DEF ExportRow
<1> QED
  BY <1>1, <1>2

MarkIs ==
  /\ HighWater \in Nat
  /\ \A x \in exports : x.to <= HighWater
  /\ IF exports = {} THEN HighWater = 0 ELSE \E x \in exports : x.to = HighWater

\* As a state predicate.
LEMMA MarkNow == exports \subseteq ExportRow /\ HasHighest => MarkIs
  BY MarkIsHighest DEF MarkIs

\* After a step.
LEMMA MarkNext == (exports \subseteq ExportRow /\ HasHighest => MarkIs)'
  BY MarkNow, PTL

\* A row newer than all others extends the table and nothing before it.
LEMMA CommitKeepsRanks ==
  ASSUME events \subseteq EventRow, Ranked, NEW n \in EventRow, \A r \in events : r.seq < n.seq,
         events' = events \cup {n}
  PROVE  Ranked'
<1>1. IsFiniteSet(events')
  BY FS_AddElement DEF Ranked
<1>2. ASSUME NEW rows \in SUBSET events'
      PROVE  HasNewest(rows)
  <2>1. CASE n \in rows
    BY <1>2, <2>1 DEF HasNewest, EventRow
  <2>2. CASE n \notin rows
    BY <1>2, <2>2 DEF Ranked
  <2> QED
    BY <2>1, <2>2
<1> QED
  BY <1>1, <1>2 DEF Ranked

\* A call of appendAudit touches no export, and commits at most one row, the newest.
LEMMA ChainAppends ==
  ASSUME ChainInv, AppendAudit
  PROVE  \/ UNCHANGED events
         \/ \E n \in EventRow : events' = events \cup {n} /\ \A r \in events : r.seq < n.seq
<1>1. CASE \E e \in Event : Commit(e)
  BY <1>1 DEF Commit, ChainInv, Current
<1> QED
  BY <1>1 DEF AppendAudit, Lock, ReadHead, Insert, Rollback

\* What an export has seen of the table stands when a newer row commits.
LEMMA CommitKeepsExports ==
  ASSUME ExportInv, UNCHANGED exportVars, NEW n \in EventRow, events' = events \cup {n},
         \A r \in events : r.seq < n.seq
  PROVE  /\ RangesMeet'
         /\ \A x \in Export : ExportBacked(x)'
         /\ \A x \in exports : Recorded(x)'
<1>0. events \subseteq EventRow /\ exports \subseteq ExportRow /\ n.seq \in Nat \ {0}
  BY DEF ExportInv, TypeOK, ChainTypeOK, EventRow
<1>1. ASSUME NEW S, NEW a \in Nat, NEW b \in Nat, \E r \in events : r.seq = b
      PROVE  /\ Covers(S, a, b) => Covers(S, a, b)'
             /\ RowsBefore(a, b)' = RowsBefore(a, b)
             /\ \E r \in events' : r.seq = b
  <2>1. b < n.seq
    BY <1>1
  <2> QED
    BY <1>0, <1>1, <2>1 DEF Covers, RowsBefore
<1>2. HighWater' = HighWater
  BY DEF exportVars, HighWater
<1>3. HighWater < n.seq
  <2>1. CASE exports = {}
    BY <1>0, <2>1 DEF HighWater
  <2>2. CASE exports # {}
    <3>1. PICK x \in exports : x.to = HighWater
      BY <1>0, <2>2, MarkIsHighest DEF ExportInv
    <3>2. \E r \in events : r.seq = HighWater
      BY <3>1 DEF ExportInv, Recorded
    <3> QED
      BY <3>2
  <2> QED
    BY <2>1, <2>2
<1>4. RangesMeet'
  <2>1. HighWater \in Nat
    BY <1>0, MarkIsHighest DEF ExportInv
  <2>2. \A r \in events' : r.seq <= HighWater => r \in events
    BY <1>0, <1>3, <2>1
  <2> QED
    BY <1>2, <2>2 DEF RangesMeet, ExportInv, exportVars
<1>7. ASSUME NEW w, NEW a \in Nat, NEW b \in Nat, \E r \in events : r.seq = b, Stands(w, a, b)
      PROVE  Stands(w, a, b)'
  <2>1. PICK S : S = segments[<<w, a, b>>]
    OBVIOUS
  <2>2. Covers(S, a, b) => Covers(S, a, b)'
    BY <1>1, <1>7
  <2>3. UNCHANGED <<segments, forgotten>>
    BY DEF exportVars
  <2>4. Covers(segments[<<w, a, b>>], a, b)' = Covers(S, a, b)'
    BY <2>1, <2>3 DEF Covers
  <2> QED
    BY <1>7, <2>1, <2>2, <2>3, <2>4 DEF Stands
<1>5. ASSUME NEW x \in Export
      PROVE  ExportBacked(x)'
  <2>0. ExportBacked(x) /\ UNCHANGED <<step, worker, from, to, headHash, lines>>
    BY DEF ExportInv, exportVars
  <2>1. PICK a, b, S, w : /\ a \in Nat /\ b \in Nat /\ a = from[x] /\ b = to[x]
                          /\ S = lines[x] /\ w = worker[x]
    BY DEF ExportInv, TypeOK
  <2>2. a = from'[x] /\ b = to'[x] /\ S = lines'[x] /\ w = worker'[x]
    BY <2>0, <2>1
  <2>3. Running(x)' => a # 0 /\ a <= HighWater' + 1
    BY <1>2, <2>0, <2>1 DEF ExportBacked, Running
  <2>4. step'[x] \in {"listed", "read", "stored"} =>
          /\ headHash'[x] # None
          /\ \E r \in events' : r.seq = b
          /\ Cardinality(RowsBefore(a, b)') < Chunk
    BY <1>1, <2>0, <2>1 DEF ExportBacked
  <2>5. step'[x] \in {"read", "stored"} => Covers(S, a, b)'
    BY <1>1, <2>0, <2>1 DEF ExportBacked
  <2>6. step'[x] = "stored" => Stands(w, a, b)'
    BY <1>7, <2>0, <2>1 DEF ExportBacked
  <2>7. /\ RowsBefore(a, b)' = RowsBefore(from[x], to[x])'
        /\ Covers(S, a, b)' = Covers(lines[x], from[x], to[x])'
        /\ Stands(w, a, b)' = Stands(worker[x], from[x], to[x])'
    BY <2>2 DEF RowsBefore, Covers, Stands
  <2> QED
    BY <2>2, <2>3, <2>4, <2>5, <2>6, <2>7 DEF ExportBacked
<1>6. ASSUME NEW x \in exports
      PROVE  Recorded(x)'
  <2>1. x.from \in Nat /\ x.to \in Nat
    BY <1>0 DEF ExportRow
  <2>2. Recorded(x)
    BY DEF ExportInv
  <2>3. PICK w \in Exporter : Stands(w, x.from, x.to)
    BY <2>2 DEF Recorded
  <2>4. Stands(w, x.from, x.to)'
    BY <1>7, <2>1, <2>2, <2>3 DEF Recorded
  <2>5. \E r \in events' : r.seq = x.to
    BY <1>1, <2>1, <2>2 DEF Recorded
  <2> QED
    BY <2>4, <2>5 DEF Recorded
<1> QED
  BY <1>4, <1>5, <1>6

\* The first SELECT of an export returns a range that ends at a committed row, all of whose
\* rows come within the limit.
LEMMA ListedRange ==
  ASSUME ExportInv, NEW a \in Nat, FirstFrom(a) # {}
  PROVE  LET last == CHOOSE r \in FirstFrom(a) : \A q \in FirstFrom(a) : q.seq <= r.seq IN
         last \in events /\ Cardinality(RowsBefore(a, last.seq)) < Chunk
<1> DEFINE all == FirstFrom(a)
           Newest(r) == \A q \in all : q.seq <= r.seq
           last == CHOOSE r \in all : Newest(r)
<1>1. all \in SUBSET events
  BY DEF FirstFrom
<1>2. last \in all
  BY <1>1 DEF ExportInv, Ranked, HasNewest
<1> QED
  BY <1>2 DEF FirstFrom, RowsBefore

\* The second SELECT returns that whole range again, whatever has committed since.
LEMMA ReadRange ==
  ASSUME ExportInv, NEW a \in Nat, NEW b \in Nat, Cardinality(RowsBefore(a, b)) < Chunk
  PROVE  Covers(FirstFrom(a), a, b)
<1> SUFFICES ASSUME NEW r \in events, a <= r.seq, r.seq <= b
             PROVE  Cardinality(RowsBefore(a, r.seq)) < Chunk
  BY DEF Covers, FirstFrom, RowsBefore
<1>1. RowsBefore(a, r.seq) \subseteq RowsBefore(a, b)
  BY DEF RowsBefore, ExportInv, TypeOK, ChainTypeOK, EventRow
<1>2. IsFiniteSet(RowsBefore(a, b))
  BY FS_Subset DEF ExportInv, Ranked, RowsBefore
<1>3. /\ Cardinality(RowsBefore(a, r.seq)) \in Nat /\ Cardinality(RowsBefore(a, b)) \in Nat
      /\ Cardinality(RowsBefore(a, r.seq)) <= Cardinality(RowsBefore(a, b))
  BY <1>1, <1>2, FS_Subset, FS_CardinalityType
<1> QED
  BY <1>3, ChunkIsPositive

\* What stands in storage stands after the step: it stays, is replaced by rows that hold the
\* range too, or goes with its process.
StillStands(w, a, b) ==
  \/ <<w, a, b>> \in forgotten'
  \/ <<w, a, b>> \in DOMAIN segments' /\ Covers(segments'[<<w, a, b>>], a, b)

StorageStands == \A w \in Exporter, a, b \in Nat : Stands(w, a, b) => StillStands(w, a, b)

\* An export that does not move, or ends.
StaysOrEnds(x) ==
  /\ step'[x] = step[x] \/ ~Running(x)'
  /\ worker'[x] = worker[x] /\ from'[x] = from[x] /\ to'[x] = to[x]
  /\ headHash'[x] = headHash[x] /\ lines'[x] = lines[x]

\* Such an export keeps what backs it: the table stands and the mark only rises.
LEMMA OthersKeepBacked ==
  ASSUME ExportInv, UNCHANGED events, NEW x \in Export, HighWater \in Nat, HighWater' \in Nat,
         HighWater <= HighWater', StaysOrEnds(x), StorageStands
  PROVE  ExportBacked(x)'
<1>1. /\ ExportBacked(x) /\ from[x] \in Nat /\ to[x] \in Nat
      /\ step[x] = "stored" => worker[x] \in Exporter
  BY DEF ExportInv, TypeOK, Running
<1>2. /\ RowsBefore(from[x], to[x])' = RowsBefore(from[x], to[x])
      /\ Covers(lines[x], from[x], to[x])' = Covers(lines[x], from[x], to[x])
      /\ Stands(worker[x], from[x], to[x])' = StillStands(worker[x], from[x], to[x])
  BY DEF RowsBefore, Covers, Stands, StillStands, StaysOrEnds
<1>3. CASE ~Running(x)'
  BY <1>3 DEF ExportBacked, Running
<1>4. CASE step'[x] = step[x]
  <2>1. step[x] = "stored" => StillStands(worker[x], from[x], to[x])
    BY <1>1 DEF ExportBacked, StorageStands
  <2> QED
    BY <1>1, <1>2, <1>4, <2>1 DEF ExportBacked, Running, StaysOrEnds
<1> QED
  BY <1>3, <1>4 DEF StaysOrEnds

\* A recorded export stays so.
LEMMA RecordedKept ==
  ASSUME UNCHANGED events, NEW x \in ExportRow, Recorded(x), StorageStands
  PROVE  Recorded(x)'
<1>1. PICK w \in Exporter : Stands(w, x.from, x.to)
  BY DEF Recorded
<1>2. StillStands(w, x.from, x.to)
  BY <1>1 DEF StorageStands, ExportRow
<1>3. Stands(w, x.from, x.to)'
  BY <1>2 DEF Stands, StillStands, Covers
<1> QED
  BY <1>3 DEF Recorded

\* A step that records nothing keeps ExportInv if it keeps what backs each export that moves.
LEMMA QuietExport ==
  ASSUME ExportInv, TypeOK', UNCHANGED <<events, exports>>,
         \A y \in Export : ExportBacked(y)' \/ StaysOrEnds(y), StorageStands
  PROVE  ExportInv'
<1>0. exports \subseteq ExportRow
  BY DEF ExportInv, TypeOK
<1>1. HighWater' = HighWater /\ HighWater \in Nat
  BY <1>0, MarkIsHighest DEF HighWater, ExportInv
<1>2. ASSUME NEW y \in Export PROVE ExportBacked(y)'
  BY <1>1, OthersKeepBacked
<1>3. ASSUME NEW y \in exports PROVE Recorded(y)'
  BY <1>0, RecordedKept DEF ExportInv
<1>4. Ranked' /\ HasHighest' /\ RangesMeet'
  BY <1>1 DEF ExportInv, Ranked, HasNewest, HasHighest, RangesMeet
<1> QED
  BY <1>2, <1>3, <1>4 DEF ExportInv

\* A step that stores and forgets nothing.
LEMMA Untouched ==
  ASSUME UNCHANGED <<segments, forgotten>>
  PROVE  StorageStands
  BY DEF StorageStands, Stands, StillStands

\* A step of an export keeps the types.
LEMMA ExportTypes ==
  ASSUME ExportInv, NEW x \in Export, ExportStep(x)
  PROVE  TypeOK' /\ UNCHANGED chainVars
<1>0. TypeOK /\ ExportBacked(x)
  BY DEF ExportInv
<1>1. UNCHANGED chainVars
  BY DEF ExportStep, ReadMark, ListHashes, ReadFull, PutSegment, RecordExport, ExportFails
<1>2. ChainTypeOK'
  BY <1>0, <1>1 DEF TypeOK, chainVars, ChainTypeOK
<1>3. ASSUME NEW w \in Exporter, ReadMark(x, w) PROVE TypeOK'
  <2>1. HighWater + 1 \in Nat
    BY <1>0, MarkIsHighest DEF ExportInv, TypeOK
  <2> QED
    BY <1>0, <1>2, <1>3, <2>1 DEF TypeOK, ReadMark, Goes, Running
<1>4. CASE ListHashes(x)
  <2>1. CASE FirstFrom(from[x]) = {}
    BY <1>0, <1>2, <1>4, <2>1 DEF TypeOK, ListHashes, Goes, Running
  <2>2. CASE FirstFrom(from[x]) # {}
    <3> DEFINE last == CHOOSE r \in FirstFrom(from[x]) : \A q \in FirstFrom(from[x]) : q.seq <= r.seq
    <3>1. last \in EventRow
      BY <1>0, <2>2, ListedRange DEF TypeOK, ChainTypeOK
    <3> HIDE DEF last
    <3>2. /\ Goes(x, "marked", "listed")
          /\ to' = [to EXCEPT ![x] = last.seq]
          /\ headHash' = [headHash EXCEPT ![x] = last.event]
          /\ UNCHANGED <<chainVars, exports, segments, worker, from, lines, forgotten>>
      BY <1>4, <2>2 DEF ListHashes, last
    <3> QED
      BY <1>0, <1>2, <3>1, <3>2 DEF TypeOK, Goes, EventRow, Running
  <2> QED
    BY <2>1, <2>2
<1>5. CASE ReadFull(x)
  <2>1. FirstFrom(from[x]) \subseteq EventRow
    BY <1>0 DEF TypeOK, ChainTypeOK, FirstFrom
  <2> QED
    BY <1>0, <1>2, <1>5, <2>1 DEF TypeOK, ReadFull, Goes, Running
<1>6. CASE PutSegment(x)
  <2>1. step[x] = "read" /\ <<worker[x], from[x], to[x]>> \in Stored
    BY <1>0, <1>6 DEF TypeOK, PutSegment, Goes, Running, Stored
  <2>2. DOMAIN segments' \subseteq Stored /\ forgotten' \subseteq Stored
    BY <1>0, <1>6, <2>1 DEF TypeOK, PutSegment
  <2> QED
    BY <1>0, <1>2, <1>6, <2>2 DEF TypeOK, PutSegment, Goes, Running
<1>7. CASE RecordExport(x)
  <2> DEFINE new == [from |-> from[x], to |-> to[x], head |-> headHash[x]]
  <2>1. new \in ExportRow
    BY <1>0, <1>7 DEF TypeOK, RecordExport, Goes, ExportBacked, Running, ExportRow
  <2>2. exports' = exports \cup {new}
    BY <1>7 DEF RecordExport
  <2> QED
    BY <1>0, <1>2, <1>7, <2>1, <2>2 DEF TypeOK, RecordExport, Goes, Running
<1>8. CASE ExportFails(x)
  BY <1>0, <1>2, <1>8 DEF TypeOK, ExportFails, Running
<1> QED
  BY <1>1, <1>3, <1>4, <1>5, <1>6, <1>7, <1>8 DEF ExportStep

\* A step of an export keeps ExportInv.
LEMMA ExportKept ==
  ASSUME ExportInv, NEW x \in Export, ExportStep(x)
  PROVE  ExportInv'
<1>0. /\ TypeOK /\ TypeOK' /\ ExportBacked(x) /\ UNCHANGED events
      /\ HighWater \in Nat /\ from[x] \in Nat /\ to[x] \in Nat
  BY ExportTypes, MarkIsHighest DEF ExportInv, TypeOK, chainVars
<1>1. ASSUME UNCHANGED exports PROVE HighWater' = HighWater
  BY <1>1 DEF HighWater
<1>2. \A S, a, b : Covers(S, a, b)' = Covers(S, a, b)
  BY <1>0 DEF Covers
<1>3. ASSUME NEW w \in Exporter, ReadMark(x, w) PROVE ExportInv'
  <2>1. ExportBacked(x)'
    BY <1>0, <1>1, <1>3 DEF ReadMark, Goes, ExportBacked, Running, TypeOK
  <2> QED
    BY <1>0, <1>3, <2>1, QuietExport, Untouched DEF ReadMark, Goes, TypeOK, StaysOrEnds
<1>4. CASE ListHashes(x)
  <2>1. CASE FirstFrom(from[x]) = {}
    <3>1. ExportBacked(x)'
      BY <1>0, <1>4, <2>1 DEF ListHashes, Goes, ExportBacked, Running, TypeOK
    <3> QED
      BY <1>0, <1>4, <2>1, <3>1, QuietExport, Untouched DEF ListHashes, Goes, TypeOK, StaysOrEnds
  <2>2. CASE FirstFrom(from[x]) # {}
    <3> DEFINE last == CHOOSE r \in FirstFrom(from[x]) : \A q \in FirstFrom(from[x]) : q.seq <= r.seq
    <3>1. last \in events /\ Cardinality(RowsBefore(from[x], last.seq)) < Chunk /\ last \in EventRow
      BY <1>0, <2>2, ListedRange DEF TypeOK, ChainTypeOK
    <3> HIDE DEF last
    <3>2. /\ Goes(x, "marked", "listed")
          /\ to' = [to EXCEPT ![x] = last.seq]
          /\ headHash' = [headHash EXCEPT ![x] = last.event]
          /\ UNCHANGED <<exports, segments, worker, from, lines, forgotten>>
      BY <1>4, <2>2 DEF ListHashes, last
    <3>3. /\ step[x] = "marked" /\ step'[x] = "listed" /\ from'[x] = from[x]
          /\ to'[x] = last.seq /\ headHash'[x] = last.event
      BY <1>0, <3>2 DEF Goes, TypeOK
    <3>4. RowsBefore(from[x], to[x])' = RowsBefore(from[x], last.seq)
      BY <1>0, <3>3 DEF RowsBefore
    <3>5. ExportBacked(x)'
      BY <1>0, <1>1, <3>1, <3>2, <3>3, <3>4, NoneIsNoEvent DEF ExportBacked, Running, EventRow
    <3> QED
      BY <1>0, <3>2, <3>5, QuietExport, Untouched DEF Goes, TypeOK, StaysOrEnds
  <2> QED
    BY <2>1, <2>2
<1>5. CASE ReadFull(x)
  <2>1. /\ step[x] = "listed" /\ step'[x] = "read" /\ lines'[x] = FirstFrom(from[x])
        /\ UNCHANGED <<exports, segments, from, to, headHash>>
    BY <1>0, <1>5 DEF ReadFull, Goes, TypeOK
  <2>2. Covers(FirstFrom(from[x]), from[x], to[x])
    BY <1>0, <2>1, ReadRange DEF ExportBacked
  <2>3. Covers(lines[x], from[x], to[x])' /\ RowsBefore(from[x], to[x])' = RowsBefore(from[x], to[x])
    BY <1>0, <2>1, <2>2 DEF Covers, RowsBefore
  <2>4. ExportBacked(x)'
    BY <1>0, <1>1, <2>1, <2>3 DEF ExportBacked, Running
  <2> QED
    BY <1>0, <1>5, <2>4, QuietExport, Untouched DEF ReadFull, Goes, TypeOK, StaysOrEnds
<1>6. CASE PutSegment(x)
  <2>1. PICK ref : ref = <<worker[x], from[x], to[x]>>
    OBVIOUS
  <2>2. /\ step[x] = "read" /\ step'[x] = "stored"
        /\ segments' = [s \in DOMAIN segments \cup {ref} |-> IF s = ref THEN lines[x] ELSE segments[s]]
        /\ forgotten' = forgotten \ {ref}
        /\ UNCHANGED <<exports, worker, from, to, headHash, lines>>
    BY <1>0, <1>6, <2>1 DEF PutSegment, Goes, TypeOK
  <2>3. Covers(lines[x], from[x], to[x])
    BY <1>0, <2>2 DEF ExportBacked
  <2>4. ref \in DOMAIN segments' /\ segments'[ref] = lines[x]
    BY <2>2
  <2>5. StillStands(worker[x], from[x], to[x])
    BY <2>1, <2>3, <2>4 DEF StillStands
  <2>6. /\ Stands(worker[x], from[x], to[x])' /\ Covers(lines[x], from[x], to[x])'
        /\ RowsBefore(from[x], to[x])' = RowsBefore(from[x], to[x])
    BY <1>0, <2>2, <2>3, <2>5 DEF Stands, StillStands, Covers, RowsBefore
  <2>7. ExportBacked(x)'
    BY <1>0, <1>1, <2>2, <2>6 DEF ExportBacked, Running
  <2>8. StorageStands
    <3> SUFFICES ASSUME NEW w \in Exporter, NEW a \in Nat, NEW b \in Nat, Stands(w, a, b)
                 PROVE  StillStands(w, a, b)
      BY DEF StorageStands
    <3>1. CASE <<w, a, b>> = ref
      BY <2>1, <2>5, <3>1
    <3>2. CASE <<w, a, b>> # ref
      BY <2>2, <3>2 DEF Stands, StillStands
    <3> QED
      BY <3>1, <3>2
  <2> QED
    BY <1>0, <1>6, <2>2, <2>7, <2>8, QuietExport DEF PutSegment, Goes, TypeOK, StaysOrEnds
<1>7. CASE RecordExport(x)
  <2>1. PICK new \in ExportRow : /\ new = [from |-> from[x], to |-> to[x], head |-> headHash[x]]
                                /\ new.from = from[x] /\ new.to = to[x]
    BY <1>0, <1>7 DEF RecordExport, Goes, ExportBacked, Running, ExportRow, TypeOK
  <2>2. /\ exports' = exports \cup {new} /\ step[x] = "stored" /\ step'[x] = "done"
        /\ UNCHANGED <<segments, forgotten, worker, from, to, headHash, lines>>
        /\ \A y \in Export \ {x} : step'[y] = step[y]
    BY <1>0, <1>7, <2>1 DEF RecordExport, Goes, TypeOK
  <2>3. exports \subseteq ExportRow /\ HasHighest
    BY DEF ExportInv, TypeOK
  <2>4. HasHighest'
    <3>1. CASE exports = {}
      BY <2>1, <2>2, <3>1 DEF HasHighest, ExportRow
    <3>2. ASSUME NEW top \in exports, \A y \in exports : y.to <= top.to
          PROVE  HasHighest'
      <4>1. top.to \in Nat /\ new.to \in Nat /\ \A y \in exports : y.to \in Nat
        BY <2>1, <2>3 DEF ExportRow
      <4>2. CASE new.to <= top.to
        BY <2>2, <3>2, <4>1, <4>2 DEF HasHighest
      <4>3. CASE top.to <= new.to
        BY <2>2, <3>2, <4>1, <4>3 DEF HasHighest
      <4> QED
        BY <4>1, <4>2, <4>3
    <3> QED
      BY <2>3, <3>1, <3>2 DEF HasHighest
  <2>5. /\ HighWater' \in Nat /\ HighWater <= HighWater'
        /\ HighWater' = HighWater \/ HighWater' = to[x]
    <3>1. /\ HighWater' \in Nat /\ \A y \in exports' : y.to <= HighWater'
          /\ \E y \in exports' : y.to = HighWater'
      BY <1>0, <2>2, <2>4, MarkNext DEF TypeOK, MarkIs
    <3>2. /\ \A y \in exports : y.to <= HighWater
          /\ IF exports = {} THEN HighWater = 0 ELSE \E y \in exports : y.to = HighWater
      BY <2>3, MarkIsHighest
    <3>3. HighWater <= HighWater'
      BY <1>0, <2>2, <3>1, <3>2
    <3>4. PICK y \in exports' : y.to = HighWater'
      BY <3>1
    <3>5. CASE y = new
      BY <2>1, <3>1, <3>3, <3>4, <3>5
    <3>6. CASE y # new
      <4>1. y \in exports /\ y.to <= HighWater
        BY <2>2, <3>2, <3>6
      <4> QED
        BY <1>0, <3>1, <3>3, <3>4, <4>1
    <3> QED
      BY <3>1, <3>3, <3>5, <3>6
  <2>6. RangesMeet'
    <3> SUFFICES ASSUME NEW r \in events, r.seq <= HighWater'
                 PROVE  \E y \in exports' : y.from <= r.seq /\ r.seq <= y.to
      BY <1>0 DEF RangesMeet
    <3>1. r.seq \in Nat
      BY <1>0 DEF TypeOK, ChainTypeOK, EventRow
    <3>2. CASE r.seq <= HighWater
      BY <2>2, <3>2 DEF ExportInv, RangesMeet
    <3>3. CASE ~(r.seq <= HighWater)
      <4>1. from[x] <= HighWater + 1
        BY <1>0, <2>2 DEF ExportBacked, Running
      <4>2. new.from <= r.seq /\ r.seq <= new.to
        BY <1>0, <2>1, <2>5, <3>1, <3>3, <4>1
      <4> QED
        BY <2>2, <4>2
    <3> QED
      BY <3>2, <3>3
  <2>7. StorageStands
    BY <2>2, Untouched
  <2>8. ASSUME NEW y \in Export PROVE ExportBacked(y)'
    <3>1. StaysOrEnds(y)
      BY <2>2 DEF StaysOrEnds, Running
    <3> QED
      BY <1>0, <2>5, <2>7, <3>1, OthersKeepBacked
  <2>9. ASSUME NEW y \in exports' PROVE Recorded(y)'
    <3>1. Recorded(new)
      BY <1>0, <2>1, <2>2 DEF ExportBacked, Recorded, TypeOK, Running
    <3>2. y \in ExportRow /\ Recorded(y)
      BY <2>1, <2>2, <2>3, <3>1 DEF ExportInv
    <3> QED
      BY <1>0, <2>7, <3>2, RecordedKept
  <2>10. Ranked'
    BY <1>0 DEF ExportInv, Ranked, HasNewest
  <2> QED
    BY <1>0, <2>4, <2>6, <2>8, <2>9, <2>10 DEF ExportInv
<1>8. CASE ExportFails(x)
  <2>1. ~Running(x)' /\ step'[x] = "done"
    BY <1>0, <1>8 DEF ExportFails, Running, TypeOK
  <2>2. ExportBacked(x)'
    BY <2>1 DEF ExportBacked
  <2> QED
    BY <1>0, <1>8, <2>2, QuietExport, Untouched DEF ExportFails, TypeOK, StaysOrEnds
<1> QED
  BY <1>3, <1>4, <1>5, <1>6, <1>7, <1>8 DEF ExportStep

\* The end of a process takes what it ran and what it stored, which is on record as forgotten.
LEMMA RestartKept ==
  ASSUME ExportInv, NEW w \in Exporter, WorkerRestarts(w)
  PROVE  ExportInv'
<1> DEFINE own == {ref \in DOMAIN segments : ref[1] = w}
<1>1. /\ TypeOK /\ UNCHANGED <<chainVars, exports, worker, from, to, headHash, lines>>
      /\ segments' = [ref \in DOMAIN segments \ own |-> segments[ref]]
      /\ forgotten' = forgotten \cup own
  BY DEF ExportInv, WorkerRestarts
<1>2. \A x \in Export : step'[x] = step[x] \/ step'[x] = "done"
  BY <1>1 DEF WorkerRestarts, TypeOK
<1>3. step' \in [Export -> {"start", "marked", "listed", "read", "stored", "done"}]
  BY <1>1 DEF WorkerRestarts, TypeOK
<1>4. TypeOK'
  BY <1>1, <1>2, <1>3 DEF TypeOK, chainVars, ChainTypeOK, Running
<1>5. StorageStands
  <2> SUFFICES ASSUME NEW v \in Exporter, NEW a \in Nat, NEW b \in Nat, Stands(v, a, b)
               PROVE  StillStands(v, a, b)
    BY DEF StorageStands
  <2>1. CASE <<v, a, b>> \in own
    BY <1>1, <2>1 DEF StillStands
  <2>2. CASE <<v, a, b>> \notin own
    BY <1>1, <2>2 DEF Stands, StillStands
  <2> QED
    BY <2>1, <2>2
<1>6. \A x \in Export : StaysOrEnds(x)
  BY <1>1, <1>2 DEF StaysOrEnds, Running
<1> QED
  BY <1>1, <1>4, <1>5, <1>6, QuietExport DEF chainVars

\* The empty tables satisfy the invariant.
LEMMA ExportsInitially == Init => ExportInv
<1> SUFFICES ASSUME Init
             PROVE  ExportInv
  OBVIOUS
<1>1. TypeOK
  BY DEF Init, ChainInit, TypeOK, ChainTypeOK, Running
<1>2. Ranked
  BY FS_EmptySet DEF Init, ChainInit, Ranked, HasNewest
<1>3. HasHighest /\ RangesMeet /\ \A x \in exports : Recorded(x)
  BY DEF Init, ChainInit, HasHighest, RangesMeet
<1>4. \A x \in Export : ExportBacked(x)
  BY DEF Init, ExportBacked, Running
<1> QED
  BY <1>1, <1>2, <1>3, <1>4 DEF ExportInv

\* Every step of the calls and of the exports keeps the invariant.
LEMMA ExportsKept == ChainInv /\ ChainInv' /\ ExportInv /\ [Next]_vars => ExportInv'
<1> SUFFICES ASSUME ChainInv, ChainInv', ExportInv, [Next]_vars
             PROVE  ExportInv'
  OBVIOUS
<1>1. ASSUME UNCHANGED events, UNCHANGED exportVars
      PROVE  ExportInv'
  <2>1. TypeOK'
    BY <1>1 DEF ExportInv, TypeOK, ChainInv, exportVars, Running
  <2>2. HighWater' = HighWater
    BY <1>1 DEF exportVars, HighWater
  <2>3. Ranked' /\ HasHighest' /\ RangesMeet'
    BY <1>1, <2>2 DEF ExportInv, Ranked, HasNewest, HasHighest, RangesMeet, exportVars
  <2>4. \A x \in Export : ExportBacked(x)'
    BY <1>1, <2>2 DEF ExportInv, ExportBacked, Running, Stands, Covers, RowsBefore, exportVars
  <2>5. \A x \in exports' : Recorded(x)'
    BY <1>1 DEF ExportInv, Recorded, Stands, Covers, exportVars
  <2> QED
    BY <2>1, <2>3, <2>4, <2>5 DEF ExportInv
<1>2. ASSUME UNCHANGED exportVars, NEW n \in EventRow, events' = events \cup {n},
             \A r \in events : r.seq < n.seq
      PROVE  ExportInv'
  <2>1. TypeOK'
    BY <1>2 DEF ExportInv, TypeOK, ChainInv, exportVars, Running
  <2>2. Ranked'
    BY <1>2, CommitKeepsRanks DEF ExportInv, TypeOK, ChainTypeOK
  <2>3. HasHighest' /\ exports' = exports
    BY <1>2 DEF ExportInv, HasHighest, exportVars
  <2> QED
    BY <1>2, <2>1, <2>2, <2>3, CommitKeepsExports DEF ExportInv
<1>3. CASE AppendAudit /\ UNCHANGED exportVars
  BY <1>1, <1>2, <1>3, ChainAppends
<1>4. CASE UNCHANGED vars
  BY <1>1, <1>4 DEF vars, chainVars
<1> QED
  BY <1>3, <1>4, ExportKept, RestartKept DEF Next

\* The invariant of the exports.
THEOREM ExportsInvariant == Spec => []ExportInv
  BY ChainInvariant, ExportsInitially, ExportsKept, PTL DEF Spec

\* Every event up to the high-water mark is in the range of a recorded export, and a process has
\* stored that range in full and holds it until it restarts, however many exports and calls of
\* appendAudit overlap and fail, for every LIMIT.
THEOREM ExportsAlwaysCoverTheChain == Spec => []ExportsCoverTheChain
<1>1. ExportInv => ExportsCoverTheChain
  <2> SUFFICES ASSUME ExportInv, NEW r \in events, r.seq <= HighWater
               PROVE  \E x \in exports : Exported(r, x)
    BY DEF ExportsCoverTheChain
  <2>1. PICK x \in exports : x.from <= r.seq /\ r.seq <= x.to
    BY DEF ExportInv, RangesMeet
  <2>2. PICK w \in Exporter : Stands(w, x.from, x.to)
    BY DEF ExportInv, Recorded
  <2>3. \/ <<w, x.from, x.to>> \in forgotten
        \/ /\ <<w, x.from, x.to>> \in DOMAIN segments
           /\ r \in segments[<<w, x.from, x.to>>]
    BY <2>1, <2>2 DEF Stands, Covers
  <2> QED
    BY <2>1, <2>3 DEF Exported
<1> QED
  BY <1>1, ExportsInvariant, PTL

=============================================================================
