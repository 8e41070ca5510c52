----------------------------- MODULE AuditExport -----------------------------
(***************************************************************************)
(* The audit.export job next to the calls of appendAudit.  A worker runs   *)
(* its jobs one after another, so exports overlap in different processes   *)
(* only.  Each process stores its segments in a MemoryStorageAdapter of    *)
(* its own: they go when it restarts, and the rows that name them stay.    *)
(***************************************************************************)
EXTENDS AuditChain, FiniteSets

CONSTANTS
  Export,    \* runs of the audit.export handler
  Exporter,  \* processes of the worker
  Chunk      \* LIMIT of its SELECTs

ASSUME ChunkIsPositive == Chunk \in Nat \ {0}

VARIABLES
  exports,   \* audit_exports
  segments,  \* the rows stored, by process and reference (from and to)
  step,      \* where each export is
  worker,    \* the process it runs in
  from,      \* its first seq
  to,        \* the last seq it will record
  headHash,  \* the event_hash of that row
  lines,     \* the rows it will store
  forgotten  \* history: what was stored in a process that has restarted since

exportVars == <<exports, segments, step, worker, from, to, headHash, lines, forgotten>>
vars == <<chainVars, exportVars>>

ExportRow == [from : Nat \ {0}, to : Nat, head : Event]
Stored == Exporter \X Nat \X Nat
Running(x) == step[x] \notin {"start", "done"}

\* The chain's types, and those of the export job.
TypeOK ==
  /\ ChainTypeOK
  /\ exports \subseteq ExportRow
  /\ DOMAIN segments \subseteq Stored /\ forgotten \subseteq Stored
  /\ step \in [Export -> {"start", "marked", "listed", "read", "stored", "done"}]
  /\ worker \in [Export -> Exporter \cup {None}]
  /\ \A x \in Export : Running(x) => worker[x] \in Exporter
  /\ from \in [Export -> Nat] /\ to \in [Export -> Nat]
  /\ headHash \in [Export -> Event \cup {None}]
  /\ lines \in [Export -> SUBSET EventRow]

Init ==
  /\ ChainInit
  /\ exports = {} /\ segments = [ref \in {} |-> {}] /\ forgotten = {}
  /\ step = [x \in Export |-> "start"] /\ worker = [x \in Export |-> None]
  /\ from = [x \in Export |-> 0] /\ to = [x \in Export |-> 0]
  /\ headHash = [x \in Export |-> None]
  /\ lines = [x \in Export |-> {}]

Goes(x, a, b) ==
  /\ step[x] = a
  /\ step' = [step EXCEPT ![x] = b]

\* ORDER BY to_seq DESC LIMIT 1, or 0.
HighWater ==
  IF exports = {} THEN 0
  ELSE (CHOOSE x \in exports : \A y \in exports : y.to <= x.to).to

\* WHERE seq >= n ORDER BY seq LIMIT Chunk.
FirstFrom(n) ==
  {r \in events : r.seq >= n /\ Cardinality({q \in events : q.seq >= n /\ q.seq < r.seq}) < Chunk}

-----------------------------------------------------------------------------
\* runDueJobs awaits each handler before it takes the next job.
ReadMark(x, w) ==
  /\ \A y \in Export : Running(y) => worker[y] # w
  /\ Goes(x, "start", "marked")
  /\ worker' = [worker EXCEPT ![x] = w]
  /\ from' = [from EXCEPT ![x] = HighWater + 1]
  /\ UNCHANGED <<chainVars, exports, segments, to, headHash, lines, forgotten>>

\* The first SELECT fixes the range and its head; without rows the job returns.
ListHashes(x) ==
  LET rows == FirstFrom(from[x]) IN
  IF rows = {}
  THEN /\ Goes(x, "marked", "done")
       /\ UNCHANGED <<chainVars, exports, segments, worker, from, to, headHash, lines, forgotten>>
  ELSE LET last == CHOOSE r \in rows : \A q \in rows : q.seq <= r.seq IN
       /\ Goes(x, "marked", "listed")
       /\ to' = [to EXCEPT ![x] = last.seq]
       /\ headHash' = [headHash EXCEPT ![x] = last.event]
       /\ UNCHANGED <<chainVars, exports, segments, worker, from, lines, forgotten>>

\* Mutant: the range is taken to start after from.
ReadFullAfter(x) ==
  /\ Goes(x, "listed", "read")
  /\ lines' = [lines EXCEPT ![x] = FirstFrom(from[x] + 1)]
  /\ UNCHANGED <<chainVars, exports, segments, worker, from, to, headHash, forgotten>>

\* The second SELECT reads the rows to store.
ReadFull(x) ==
  /\ Goes(x, "listed", "read")
  /\ lines' = [lines EXCEPT ![x] = FirstFrom(from[x])]
  /\ UNCHANGED <<chainVars, exports, segments, worker, from, to, headHash, forgotten>>

\* storage.put replaces what the process has stored under the same range.
PutSegment(x) ==
  LET ref == <<worker[x], from[x], to[x]>> IN
  /\ Goes(x, "read", "stored")
  /\ segments' = [s \in DOMAIN segments \cup {ref} |-> IF s = ref THEN lines[x] ELSE segments[s]]
  /\ forgotten' = forgotten \ {ref}
  /\ UNCHANGED <<chainVars, exports, worker, from, to, headHash, lines>>

RecordExport(x) ==
  /\ Goes(x, "stored", "done")
  /\ exports' = exports \cup {[from |-> from[x], to |-> to[x], head |-> headHash[x]]}
  /\ UNCHANGED <<chainVars, segments, worker, from, to, headHash, lines, forgotten>>

\* A statement throws; the job is tried again, or its next slot starts anew.
ExportFails(x) ==
  /\ Running(x)
  /\ step' = [step EXCEPT ![x] = "done"]
  /\ UNCHANGED <<chainVars, exports, segments, worker, from, to, headHash, lines, forgotten>>

\* The process dies, or is deployed anew: what it ran ends, and what it stored is gone.
WorkerRestarts(w) ==
  LET own == {ref \in DOMAIN segments : ref[1] = w} IN
  /\ own # {} \/ \E x \in Export : Running(x) /\ worker[x] = w
  /\ step' = [x \in Export |-> IF Running(x) /\ worker[x] = w THEN "done" ELSE step[x]]
  /\ segments' = [ref \in DOMAIN segments \ own |-> segments[ref]]
  /\ forgotten' = forgotten \cup own
  /\ UNCHANGED <<chainVars, exports, worker, from, to, headHash, lines>>

ExportStep(x) ==
  \/ \E w \in Exporter : ReadMark(x, w)
  \/ ListHashes(x) \/ ReadFull(x) \/ PutSegment(x) \/ RecordExport(x) \/ ExportFails(x)

Next ==
  \/ AppendAudit /\ UNCHANGED exportVars
  \/ \E x \in Export : ExportStep(x)
  \/ \E w \in Exporter : WorkerRestarts(w)

Spec == Init /\ [][Next]_vars

-----------------------------------------------------------------------------
\* Row r is in the range of recorded export x and in the segment a process stored for it, which
\* it keeps as long as it lives.
Exported(r, x) ==
  /\ x.from <= r.seq /\ r.seq <= x.to
  /\ \E w \in Exporter : LET ref == <<w, x.from, x.to>> IN
       ref \in forgotten \/ (ref \in DOMAIN segments /\ r \in segments[ref])

\* Every event up to the high-water mark has been exported: one that commits late never slips
\* below the mark, and exports that overlap, fail or end with their process leave no gap; what
\* a process has stored it holds in full until it restarts.
ExportsCoverTheChain ==
  \A r \in events : r.seq <= HighWater => \E x \in exports : Exported(r, x)

\* The segment that a row of audit_exports names is in storage: "JSONL segments to object storage
\* with chain-head hash + high-water mark".  The worker's storage is the memory of its process.
SegmentsAreStored ==
  \A x \in exports : \E w \in Exporter : <<w, x.from, x.to>> \in DOMAIN segments

\* The promise of AuditLog, read off the committed rows.
Links == {[event |-> r.event, prev |-> r.prev] : r \in events}

Log == INSTANCE AuditLog WITH chain <- Links, head <- NewestOf(events)

\* Concurrent appends are appends at the end of one chain.
ImplementsAuditLog == Log!Spec

=============================================================================
