# BioCheck: specifications, model checking and proofs

TLA+ modules of the BioCheck platform (`src/`), the TLC configurations that
check them and TLAPS proofs about them. The source is the reference: each
definition that models code is listed in `PROJECT.json` under `map` with the
lines it stands for.

## The system

BioCheck verifies a person's face or fingerprint against an enrolled
reference (1:1), for tenants who call a versioned HTTP API with API keys.

- **platform** (`src/platform`, TypeScript, Next.js on PostgreSQL): the API,
  the consoles, and a worker process that runs background jobs. Every request
  is a sequence of SQL statements on a shared pool. There are no transactions
  around a request: only the audit append opens one.
- **verify-core** (`src/biocheck_engine`, Python): captures, templates,
  decisions, documents, step-up, and a hash-chained audit log of its own.
- **fingerprint sidecar** (`src/sidecar-fingerprint-py`): minutiae matching.

| Component | State | Operations | What must hold | Hard part |
|---|---|---|---|---|
| Capture sessions | `capture_sessions` | create, consume | one use, only as issued | racing uses of one token |
| Enrolment | `subjects`, `consent_receipts`, `reference_templates` | `enrolSubject`, `enrolFingerprint` | a template has consent | consent withdrawn or subject deleted half-way |
| Verification | `verification_attempts`, `review_cases` | `verifySubject`, `verifyFingerprint` | no approval against withdrawn consent, revoked models or standing risk | reads before, use after two provider calls |
| Withdrawal, deletion | receipts, templates, `subject_requests`, `legal_holds` | `withdrawConsent`, `deleteSubjectData` | what was deleted stays deleted, holds stop deletion | four statements, retries, crashes |
| Evidence | `evidence_objects`, object storage | `retain`, `deleteObject`, `purgeExpired` | rows and objects in step | two stores, no transaction |
| Model registry | `model_registry` | approve, revoke, expire | revoked models approve nothing | read between provider calls |
| Risk signals | `risk_signals` | record, route to review | an approval is downgraded | time window |
| Human review | `review_cases`, `org_settings` | decide, decide with dual control, escalate | two reviewers for high risk | read, then update by id |
| Audit chain | `audit_events`, `audit_exports` | append, verify, export | one chain, exported without holes | concurrent appends, segments in a process's memory |
| Jobs | `jobs` | schedule, claim, run, retry | each slot runs, failures back off | two workers, crashes |
| Webhooks | `webhook_deliveries` | enqueue, deliver | at least once, then dead | two deliverers, late answers |
| Idempotency keys | `idempotency_keys` | replay or run, purge | same key, same answer | two requests at once |
| Keys and secrets | `tenant_keys` | fetch, rotate | what was sealed can be opened | first uses and rotations at once, crash between two statements |
| Accounts | `users`, `sessions`, `recovery_codes` | register, log in, rotate, revoke, TOTP | lock-out, used codes worth nothing later, second factor for administrators of the platform and of organisations | read, then write |
| Tenancy, API keys, authorisation | organisations, memberships, invitations, projects, keys | found, invite, accept, remove, issue, revoke, `authorize` | no role without a grant, no cross-tenant row | permission read first, write later |
| New secrets | `_flash` rows of `idempotency_keys` | create, show, delete | shown once, to the right team | pages opened at once |
| Request controls | in-memory counters | rate limits | limits | refused hits, restarts, several processes |
| Policy decisions | `verification_policies` | `decide`, `decideFingerprint`, `actionSetPolicy` | every outcome has its evidence | missing numbers, boundaries, policy switched half-way |
| Verify lab | React state, cookie, pending prompts and uploads | select, start, capture, submit | a result belongs to the session on the screen; nothing is sent before consent | late answers |
| Leads | form state, `demo_requests` | submit, limit, store | "sent" means stored, with consent | lost answers |
| Configuration, start-up | per-process caches, `_migrations` | `getDb`, `migrate`, `getKms`, `getProvider` | ready means migrated | two migrators, crash half-way |
| Context verification | in-memory devices | `context/client.ts`, `orchestration.py`, `device_trust.py`, `location.py` | checks only lower a decision | |
| Step-up, capture store | in-memory | OTP and PIN challenges, capture references | attempts bounded, one use | counters, TTLs |
| Documents | `document_checks` | check, MRZ | check digits | |
| Marketing pages, CI, docs | | pages | | |

Interactions: every handler appends to the audit chain and most enqueue
webhooks; verification reads what enrolment, withdrawal, deletion, the registry
and the risk signals write; the worker runs `purgeExpired`, model expiry,
webhook delivery, audit export and key rotation as jobs; enrolment and
verification call the providers, which call verify-core and the sidecar.

## Modules

| Module | Models | Extends |
|---|---|---|
| `Tables` | the tables of the biometric lifecycle, the handlers' program counters, subject look-up, audit and webhook appends | |
| `Enrolments` | capture sessions, consent, enrolment | `Tables` |
| `Verifications` | verification up to its recorded attempt, case and notices | `Enrolments` |
| `SubjectRights` | withdrawal, deletion, evidence | `Enrolments` |
| `ConsentLedger` | abstract: receipts given once and withdrawn for good, checks matched in one instant, erasures | |
| `Lifecycle` | their interleaving with the registry, signals and holds; the properties; refinement of `ConsentLedger` | `Verifications`, `SubjectRights` |
| `Reviews` | review cases and liveness exceptions | |
| `Jobs` | the job queue: schedule, claim, run, settle, crash, retry | |
| `Webhooks` | deliveries, as the handler a job runs | `Jobs` |
| `Retries` | abstract: work tried until a try succeeds or the last has ended | |
| `Worker` | worker processes running `webhooks.deliver`; fairness and properties; refinement of `Retries`, twice | `Webhooks` |
| `AuditLog` | abstract: a log that grows at its end, each event linked to the newest | |
| `AuditChain` | `appendAudit` as a transaction, `verifyAuditChain` | `NoValue` |
| `AuditExport` | the `audit.export` job next to the appends; refinement of `AuditLog` | `AuditChain` |
| `NoValue` | the missing value, shared by the modules composed below | |
| `Roles` | abstract: a membership once given keeps its role and, once removed, is not given again | `NoValue` |
| `Tenancy` | organisations, workspaces, projects, invitations, members behind `authorize`; refinement of `Roles` | `Roles` |
| `Accounts` | users, logins, recovery codes, sessions, over the memberships `Roles` allows | `Roles` |
| `ApiAccess` | API keys, webhook endpoints, the flash rows of their secrets, `/v1` requests with idempotency | `NoValue` |
| `Keys` | tenant keys: first use, rotation job, sealed values | `NoValue` |
| `Startup` | configuration, `getDb` with migrations, `getKms`, `getProvider` in several processes | `NoValue` |
| `Decisions` | replies of the sidecar and the fake provider, their conversion, policies, `decide`, `decideFingerprint` | `NoValue` |
| `Clients` | the verify lab, `CaptureFlow`, `FingerprintFlow` and the submit route | `NoValue` |
| `Leads` | the demo-request form, route and rate limiter | `NoValue` |
| `MCPlatform` | `AuditExport` and the eight modules from `Tenancy` on, side by side, for TLC | all of these |
| `MC*` (others) | instances for TLC | |
| `ApprovalProofs` | theorems about the types of `Lifecycle`, capture sessions and approvals | `Lifecycle`, `TLAPS` |
| `RightsProofs` | theorems about deletion, holds, evidence, the trail, the registry, the ledger | `ApprovalProofs` |
| `ReviewProofs` | theorems about `Reviews` | `Reviews`, `TLAPS` |
| `WorkerProofs` | theorems about `Worker` | `Worker`, `TLAPS` |
| `AuditProofs` | theorems about `AuditExport` | `AuditExport`, `TLAPS` |
| `AccessProofs` | theorems about `Tenancy` and `Accounts` | both, `TLAPS` |
| `PlatformProofs` | theorems about `ApiAccess`, `Keys`, `Startup`, `Decisions`, `Clients`, `Leads` | these, `TLAPS` |
| `CompositionProofs` | theorems about `MCPlatform`: it runs its parts, and its types | `MCPlatform`, `AccessProofs`, `PlatformProofs`, `AuditProofs` |

How state and actions correspond to the code:

- A table is a function from the call that inserts the row to the row: every
  handler draws `randomUUID()` for its rows, so a call is a primary key.
  `templates[e]` is the reference template that enrolment `e` inserted (or
  has not inserted yet).
- One action is one SQL statement, or one provider or storage call, with the
  local computation up to the next one. `pc` is where each handler is. Nothing
  makes two statements of a handler atomic, so they interleave freely.
- `appendAudit` opens its own transaction; in `Lifecycle` and `Reviews` it is
  one step that adds an event, and `enqueueWebhook` one step that adds a
  notice.
- A handler can stop anywhere: its process dies, or a statement throws and
  nothing catches it. Nothing is rolled back, so the model needs no action for
  that: a dead handler is one that takes no more steps, which the safety
  properties cover. `Crash` is there where a property has to tell a dead
  handler from a slow one, for the calls in `Mortal`.
- A retry is another call with its own id.
- In `Jobs` a row stands for one time slot of a recurring job, and is used again
  for a later slot once nobody will look at it (`NextSlot`), so time can go on
  without end. `lost` marks rows a dead worker had claimed: they stay "running"
  in the code, which no query selects.
- In `AuditChain` an event stands for one call and for its `event_hash`, which the
  code computes from the content and the previous hash; the identity column is
  drawn at the INSERT and not given back by a rollback.
- `known` is a history variable: what the tables said when a verification or a
  deletion began. The properties compare it with what the call recorded.
- In `Lifecycle` thresholds, similarity scores and images are abstracted: a
  comparison may come out any way `decide` can. `Decisions` models `decide` itself
  on small numbers and `NaN`, with the three-valued flags a reply can hold
  (`"true"`, `"false"`, and `"text"`, which `Boolean` makes true).
- In `AuditExport` a segment belongs to the worker process that stored it. `WorkerRestarts`
  ends what the process runs and takes its segments; `forgotten` is a history variable that
  remembers which they were.
- In `Tenancy`, `Accounts`, `ApiAccess`, `Keys`, `Startup` and `Leads` a call carries what
  it has read or been allowed until its next statement; `CallDies`, `ProcStops` and
  `Restart` end it anywhere, without rolling anything back.
- In `Clients` a `Prompt` is a pending promise of a browser API (camera, scanner), an
  `Upload` a pending request. `Sets` is what reaches the state of a component
  that may have been unmounted meanwhile.
- `guesses` in `Accounts`, `views` in `ApiAccess`, `agreed` in `Clients` are history
  variables.

## Runs

| Run | Instance | Checks | Result |
|---|---|---|---|
| `verify` | a fingerprint enrolment, two verifications, a withdrawal, two sessions, registry and signals changing | `TypeOK`, `SessionSpentOnceAsIssued`, `ApprovalRespectsRegistry`, `ApprovalRespectsRisk`, `AttemptIsAudited`, `NotificationsBacked` | hold |
| `rights` | five scenes of one subject, below | `ApprovalRespectsWithdrawal`, `ApprovalRespectsRegistry`, `DeletionBlocksMatching`, `DeletionSticks`, `HoldBlocksDeletion`, `ErasureAuditIsHonest`, `LiveEvidenceHasObject`, `ImplementsConsent` (refinement) | hold |
| `reviews` | four dual-control decisions, a single-reviewer one, two escalations | `TypeOK`, `HighRiskNeedsTwoReviewers`, `LivenessStaysFinal`, `DecisionsAreBacked` | hold |
| `worker` | two workers, one job row reused for slot after slot, one delivery, two faults | `TypeOK`, `JobOutcomesAreHonest`, `DeliveriesAreHonest`, `ImplementsRetries` (refinement), and the liveness properties `JobsFinish`, `DeliveriesSettle` | hold |
| `platform` | the parts below, one moving in each behaviour | `PlatformTypeOK` and the properties below | hold |
| `ciphertext` | enrol, withdraw, delete | `DeletionDestroysCiphertext` | violated |
| `dual_control` | a high-risk case and the exposed route | `HighRiskNeedsTwoReviewers` | violated |
| `jobs_claim` | two workers, one job | `ClaimsAreExclusive` | violated |
| `key_rotation` | two rotations of a tenant's key | `TenantKeepsActiveKey` | violated |
| `malformed` | replies with missing numbers and text flags | `MalformedNeverApproves` | violated |
| `capture_camera` | the face flow | `CameraIsShown` | violated |
| `audit_segments` | one append, one export, a worker that restarts | `SegmentsAreStored` | violated |

The instance of `rights` has more calls than one interleaving can hold, so each behaviour of
`MCLifecycle` plays one of five scenes and leaves the rest at rest; all properties are checked
in all of them:

| Scene | What moves |
|---|---|
| `Rights` | a face enrolment, a verification, a withdrawal, a deletion, two sessions, revocations of the extractor and the PAD model |
| `Erasure` | an enrolment that gives its consent, a deletion, evidence being retained by a process that may die, a legal hold |
| `Evidence` (three) | the enrolment that creates the subject, then two retentions, a deletion and a purge; one retention, two deletions and a purge; two retentions and two deletions (without the hold) |

In the first two an enrolment is caught by the deletion between its consent and its template:
`DeletionSticks` asks that the consent is withdrawn all the same, and its mutant, a deletion
that withdraws only the consents whose templates it has wiped, fails there.

The components around the biometric core share no table that a property relates,
except that logins read memberships (so `Accounts` moves them). `MCPlatform` therefore
starts all of them and lets each behaviour move the one its `focus` names; a
product of their steps would only multiply states. Each `focus` is a full
interleaving of that component:

| Focus | What moves | Property |
|---|---|---|
| `members` | two overlapping calls on one organisation: invite, accept, remove, by two users | `ImplementsRoles` (refinement), `RowsAreGranted` |
| `tenants` | calls one after another on two organisations | `RowsAreGranted`, `ImplementsRoles` |
| `logins` | two overlapping logins of an owner of an organisation, who may be removed, or of a user with a platform role, with TOTP, a recovery code and the lock-out | `GuessesAreBounded`, `SessionsAreEarned` |
| `rotations` | two overlapping rotations, logins and revocations | `RotationReplaces`, `SessionsAreEarned` |
| `requests` | three overlapping `/v1` requests, one Idempotency-Key, two bodies, two keys, purge | `RetriesAreReplayed` |
| `secrets` | two keys and a webhook endpoint of two teams, pages opened | `SecretsShownOnce` |
| `keys` | two sealers, two rotators, three versions | `SealedValuesOpen` |
| `migrations`, `adapters` | two web processes and a worker, two migrations (the second can be executed again), four deployments | `ReadyMeansMigrated` |
| `decisions` | an attempt of every source, the policy switched meanwhile | `OutcomesAreEvidenced` |
| `clients` | two sessions, two prompts, two uploads | `FlowsAreHonest` |
| `leads` | three posts (the last filled in completely), one process, the limit of one | `LeadsAreHonest` |
| `audit` | three appends, three exports in two worker processes, one of which restarts, chunks of two | `ChainVerified`, `ExportsCoverTheChain`, `ImplementsAuditLog` (refinement) |

What the properties say is in the comment above each. The `reviews` run offers
single-reviewer decisions for the standard case only (`Single` in `MCReviews.cfg`);
`dual_control` offers them for the high-risk one. Every property of a passing
run has a mutant in `PROJECT.json`: a form of one mapped definition, with a
plausible bug, under which the run fails.

### Bounds

- Calls, sessions, models, reviewers and rows are small sets. Two calls of a kind
  suffice for every race between two of the kind; no handler waits for a third.
- The registry changes only for `Revocable` models, signals stand only for
  `Flaggable` subjects, holds only for `Holdable` ones, only `Mortal` calls crash.
  `verify` lets registry and signals vary, `rights` holds and crashes.
- `MaxAttempts = 2` and `MaxPosts = 2` (the code: 5 and 6): one retry, then
  dead. Above the maximum `attempts` is only compared with it, so it is counted
  to it and no further. Backoff lengths do not matter, only that they end.
- `MaxFaults` bounds crashes and thrown handlers, which no fairness could
  otherwise keep from happening forever.
- `Chunk = 2` (the code: 5000), so that an export meets its LIMIT.
- `Limit = 1` and one row in `worker`, whose liveness costs most; two workers still
  claim the row together, and one that dies holds it while its next slot comes.
  With more rows than LIMIT the order of claims would matter for liveness
  (`ORDER BY next_run_at` is not modelled), which the run does not show.
- `MaxFailed = 2` (the code: 5), two logins in flight: two wrong passwords are answered
  before the one that locks the account, where one login at a time gets one. `RateLimit = 1` (5), `MaxVersion = 3`,
  `LastMigration = 2`: the second of a kind, and one after it. `Repeatable = {2}`: the last file, like
  `0008_function_hardening.sql`, only alters functions and can be executed twice.
- `Offered`, `Founder`, `RouteUsed`, `Grant`, `Choice`, `Deployment` and `PolicyOf` pick what
  an instance can tell apart from the roles, routes, scopes, environments and
  policies there are. Numbers in replies are 0, 1, 2 (below, between and at
  the thresholds) and `NaN`.
- In `MCPlatform` the members of a set of alike calls, tokens or uploads start in
  a fixed order (`InOrder`), a symmetry reduction by hand that is sound for
  refinement and action properties, where TLC's `SYMMETRY` would have to be
  justified separately. Some foci leave a cause aside (`LoginsMove` has no
  rotations or revocations, `RotationsMove` no second factor) that has a focus of its own.
- `SYMMETRY` is used in safety runs for sets whose members are interchangeable.
- `CHECK_DEADLOCK FALSE` where every call ends: `Lifecycle`, `Reviews`,
  `MCPlatform`. Workers loop forever and are checked for deadlock.

### Fairness

Every module but `Worker` states safety only and assumes no fairness: a
request may stop anywhere. `Worker` assumes that each worker's loop goes on
(`WF_vars(Tick(w))`: `worker.ts` loops until SIGTERM, statements end, and the
webhook transport times out after ten seconds), that new slots begin, and that
each row's backoff ends. It assumes nothing of endpoints (every POST may be
refused), of operators, or of faults.

## Disagreements between code and documentation

Seven runs show that the code does other than it says; `PROJECT.json` quotes both
sides.

1. `ciphertext`: the deletion overwrites the ciphertext of active templates only.
2. `dual_control`: the decision function behind the API ignores `requires_dual_control`.
3. `jobs_claim`: on PostgreSQL two claiming statements can return one row. What
   the handlers do is idempotent or at least once, so the `worker` properties hold
   in spite of it.
4. `key_rotation`: a rotation retires the active key before it inserts the next; if
   it dies in between, the tenant has no active key and no later first use,
   rotation or reminder finds a way to one. Values already sealed still open
   (`SealedValuesOpen`).
5. `malformed`: a reply with a missing number or a text flag is not refused, and can
   be approved.
6. `capture_camera`: the `<video>` element is mounted after the stream was to be
   attached to it, so the face flow never shows or captures a picture.
7. `audit_segments`: the worker always stores audit segments in a `MemoryStorageAdapter`,
   a map of its own process. A restart loses them all, while `audit_exports` and the
   high-water mark stay, so the events are not exported again. The job's comment, the
   runbook ("versioned with delete protection") and the threat model ("WORM export") speak
   of object storage; `OBJECT_STORE_URL` is parsed and read by nothing.

Seen while modelling, without a run:

- A retry of a withdrawal that died after marking the receipt does nothing: the
  template stays active (and is never matched: `ApprovalRespectsWithdrawal`).
- An export reads its range and its lines in two statements: a segment may hold
  lines beyond its recorded head, which the next one holds again
  (`ExportsCoverTheChain` asks only that none is missing).
- The evidence service has the same in-memory adapter in the worker (`worker.ts:22`), so
  the worker's purge would mark rows whose objects it cannot see. `SubjectRights` models the
  adapter the comments intend, one durable store shared by all processes:
  `LiveEvidenceHasObject` and `ErasureAuditIsHonest` hold on that assumption.
- A sweep that dies between marking an evidence row and deleting its object leaves
  the object for good, since later sweeps skip the row; a job claimed by a
  worker that dies stays "running", and the next slot's row does its work.
- `migrate` executes a file and records it in two steps: a crash in between makes
  every later start fail on that file, unless it can be executed again (the last one can).
  Of two migrators at once one fails: on a file that the other has executed, or on the primary
  key of `_migrations`. `getDb` keeps a rejected promise for the life of the process.
- `getKms` stores the adapter before it asserts that production may use it: a second
  call in the same web process returns the local adapter. `DEPLOYMENT.md:12` says that
  `validateConfig()` "runs at startup in the app and the worker" and that production refuses the
  dev KMS adapter; only the worker runs it, and the site keeps that adapter.
  `ReadyMeansMigrated` therefore claims it of workers only.
- Recovery codes are "single-use" in `SECURITY_BASELINE.md:16`, but `consumeRecoveryCode`
  (`auth/service.ts:203-211`) selects the unused code and marks it in a second statement without
  asking again: two logins under way at once both get a session from one code.
  `SessionsAreEarned` claims what the code gives: a code that has been used admits no login
  that begins later.
- `FingerprintFlow` sends what the scanner delivers even when the user has gone
  back and taken the tick away meanwhile, against "You can stop at any time before
  submitting"; "Nothing was stored" is also shown when only the answer was lost. A
  session created for an older selection is used with the newer one, refused and
  spent. Two openings of the camera leave one stream open.
- "clientToken is shown once", but a replay by
  Idempotency-Key shows it again while the record lives.
- A webhook secret is lost when its organisation has no API key to hang the flash
  row on, and flash rows nobody looks at are never purged. Both INSERTs of flash rows
  (`console/projects/page.tsx:75-79`, `94-98`) use `$1` as a UUID and as text, which PostgreSQL
  probably refuses; the model lets them succeed, and so covers more than may happen.
- `rotateSession` revokes "atomically" in a second statement; `revokeAllSessions` does
  not stop a login or rotation in flight. The failure counter is not reset
  when a lock expires. The rule `auth.login` of the rate limiter is used nowhere,
  and limits are per process.
- The documents and fraud services are called from tests only.

## Proofs

`ApprovalProofs` proves `TypesAreInvariant` and from it `TypeCorrect`
(`Spec => []TypeOK`, checked by TLC in `verify`). `TypeOK` is not inductive: that `ref[v]` is an enrolment
when `Compare` uses it, or `outcome[v]` a decision when it is inserted, depends
on the program counter. `TypeInv` adds those facts.

It proves `SessionSpentOnceAsIssued`. Its invariant `SessionInv` says
that a call past its consumption holds a session, that every held session is used,
that a call still on its way holds one issued for its purpose and modality, and
that two calls never hold the same one. The last part needs the second: `Consume`
only takes a pending session, so nobody holds it.

It also proves `ApprovalRespectsWithdrawal` and `ApprovalRespectsRisk`.
`ConsentInv` says a receipt once withdrawn stays
withdrawn, hence so do the ones in `known[v].withdrawn`; only `RecordConsent`
writes "given", and a receipt it writes was "none". `MatchInv` carries the
template from `ReadTemplate`, which refuses a withdrawn receipt, through the
provider calls to the attempt. `RiskInv` says that a call on its way to record
an approval has passed `CheckRisk`, which saw no signal, so `known[v].risky`
has been false at that point and nothing sets it again.

`RightsProofs` continues with the rest of the lifecycle:

| Theorem of | Inductive invariant | Why the property is not inductive |
|---|---|---|
| `ErasureAuditIsHonest`, `LiveEvidenceHasObject` | `EvidenceInv`: a row being erased is marked deleted and, once the object is gone, stays without it | several sweeps hold the same row |
| `DeletionSticks` | `DeletionInv`: what the deletion found is withdrawn, listed and erased statement by statement | "completed" is written at the end |
| `DeletionBlocksMatching` | `BlockInv`: what a completed deletion found was withdrawn when the verification began; with `MatchInv` | it relates two calls and two histories |
| `HoldBlocksDeletion` | `HoldInv`: the hold still stands | the hold is read after the deletion began |
| `AttemptIsAudited` | `TrailInv`: what each statement of `record()` has left behind | four statements |
| `NotificationsBacked` | `TrailInv` and `WithdrawalInv` | the notice is the last statement |
| `ApprovalRespectsRegistry` | `RegistryInv` with `TemplatesInv`: what a verification relies on was not revoked when it began, and why its template's row cannot change under it | the registry is read between provider calls |

`ImplementsTheLedger` proves that `Lifecycle` implements `ConsentLedger` (`ImplementsConsent`).
The ledger knows no statements: a receipt is given, one or all of a subject are
withdrawn, a check is matched, and each is one step. Which statement is that step is
the content of the refinement. A verification is matched at `ReadTemplate`, whose
SELECT joins template and receipt, and not when its approval is recorded two
provider calls later; a deletion begins when it looks the subject up, not when its request
row is written; the receipt exists before its template does. The invariants above supply the
guards of the ledger's steps; what they lack is `StandingInv`: a template, and an enrolment on
its way to one, stand on a receipt, and a verification is matched to nothing before it
reads. All other statements (sessions, evidence, audit, notices, registry, holds,
crashes) leave the ledger alone. `NothingIsTakenBack` is read off the ledger: withdrawals,
results, what they were matched against and completed deletions are final.

They hold for any number of subjects, sessions, calls and models, under the
named assumptions of `Tables`: the kinds of call and of model are disjoint, enrolments
are finite (their order of creation is a counter), the argument functions have their
types, `None` is no row.

`ReviewProofs` proves `TypeOK`, `LivenessStaysFinal` and `DecisionsAreBacked` from
`ReviewInv`. A call acts on a case it has read a while ago; the invariant keeps what
stays true of it meanwhile: a case does not disappear, a decided one stays
decided, a first approver named in a row has left an approval on record. On
top, `TwoReviewersDecide` proves `HighRiskNeedsTwoReviewers`, under the hypothesis
`SingleIsStandard` that the single-reviewer function is called for standard cases
only. The `reviews` run satisfies it; the `dual_control` run does not, and there the
property is violated.

`WorkerProofs` proves `TypeOK`, `JobOutcomesAreHonest` and `DeliveriesAreHonest`. Two
workers may hold one row, and each settles it with the attempts it copied when it
claimed it. `JobsInv` bounds every copy of attempts, in the table, in a batch and in
a worker's hands, by the runs that have ended, and knows of a handler that has
returned that it did; `DeliveriesInv` does the same for copies of a delivery and POSTs.

`ImplementsTheRetries` proves that the queue and the deliveries each implement `Retries`
(`ImplementsRetries`): with waiting, running and failed rows seen as open, every
settlement, however old the row it was computed from, is a success after a try that
succeeded, a death after the last try, a reopening of what was settled, or nothing. A settlement is
written by the row's id, so its row must still be there when it comes: `CarriedInv` says that
whatever a worker has chosen, claimed or is sending is in its table. It is
inductive because only `NextSlot` takes a row away and waits for its last carrier, and
only the claiming and the listing SELECT put rows into a worker's hands.
`WorkIsKept` follows: no open job whose worker lives, and no open delivery, loses its row,
its count of tries or its success.

`AuditProofs` proves `ChainVerified` and `ImplementsAuditLog` for any
number of appends and exports. The invariant says that a call past `Lock` holds
the lock (`Exclusive`), so that the head it has read is still the newest row and its
own row is newer than every committed one (`Current`), and that a newest row
exists (`HasNewest`, needed because the table is not assumed finite). A
committed row then extends the chain at its end (`NewestIsHead`,
`AppendVerifies`). `ExportsCoverTheChain` rests on `ExportInv`: recorded ranges meet
without a hole up to the high-water mark (`RangesMeet`); an export starts at or below
the mark plus one, and ends at a committed row whose range was not cut by the
LIMIT, so that whatever commits later is newer; and the process that has stored a range has
it in full or has restarted since (`Stands`). So the theorem says that every event up to the
mark has been exported, by a process that holds it as long as it lives; it does not say that the
segments survive their process, and `audit_segments` shows that they do not. That every set of
rows has a newest one (`Ranked`) is part of the invariant. Assumed: `None` is no event,
chunks are not empty.

`AccessProofs` proves `ImplementsRoles` and `RowsAreGranted` from `TenancyInv`: what a call
goes on to write was granted when it was authorised (`CallsAreGranted`), and a
grant is never taken back, because a removed member's row stays with its role. For `Accounts`
it proves `RotationReplaces` and `SessionsAreEarned` from `AccountsInv`, which keeps for
a login on its way what it rests on: also that one without a second factor found no role
that demands one, neither the platform's (`AdminOfPlatform`, which never changes) nor, when it
looked, of an organisation. That a recovery code is used once is not claimed, as overlapping
logins refute it.

`LockoutBoundsGuesses` proves `GuessesAreBounded`, whose bound depends on the
number `n` of logins in flight and on MAX_FAILED_ATTEMPTS `k`. A login writes the
counter from the row it read, so it may set it back. For each `i` below
the last before the lock, `Low` collects the logins that would count at most `i`
failures, and a `Tally` lists how many they are. A wrong password that is answered without
locking lowers the tally in lexicographic order (`FailureLowers`), no other step
changes it unless it resets the guesses (`TallyStands`), and so no tally occurs
twice (`Spent`): the guesses are fewer than there are tallies, `GuessBudget`. That is
C(n + k - 1, n): 5 for one login at a time, 15 for two, 35 for three, under the code's
k = 5. The bound is exact: in instances apart from the runs TLC finds one guess less reached with
two logins and `MaxFailed = 3`, and with three and 2. Assumed: the logins in flight are finitely
many.

`PlatformProofs` proves, each from an invariant of its own:

- `SealedValuesOpen` (`KeysInv`: a key row is neither replaced nor dropped, and what is
  about to be sealed will open);
- `ReadyMeansMigrated` (`StartupInv`: a migrating process has left only files that are
  recorded, and records only what has been executed), for any set of files that can be executed
  again;
- `SecretsShownOnce` (`SecretInv`: a secret not burnt has not been shown, and its flash row
  hangs on a key of the right organisation) and `RetriesAreReplayed` (`RequestInv`: a request
  that is to look up finds the record it came in to, one that runs the handler came in to none);
- `LeadsAreHonest` (`LeadsInv`: the visits let in, whose INSERT is still to come, are within the
  limit; by induction on finite sets of hits, not only on the stored rows);
- `FlowsAreHonest` (`ClientsInv`: prompts and uploads belong to sessions that were agreed to);
- `OutcomesAreEvidenced` (`DecisionsInv`: where each call is and what it has read, with the
  case analysis of `decide` and `decideFingerprint` over every source of replies).

Their assumptions are named in the modules: `None` is no row (`NoneIsNo...`), limits are positive,
the chosen subsets (`Offered`, `RouteUsed`, `Grant`, `Choice`, `Deployment`) are subsets of what there
is, the policies are typed. TLC evaluates each on the runs.

`CompositionProofs` proves that the run `platform` asks what these theorems answer.
`PlatformRunsItsParts`: every behaviour of `MCPlatform`, whatever it moves and in whatever
order, is one of `ApiSpec`, `KeysSpec`, `StartupSpec`, `DecisionsSpec`, `ClientsSpec`, `LeadsSpec` and the
audit chain's `Spec`. Tenancy and accounts share the memberships, so neither is a
specification of its own there; `SharedInvariant` shows that each keeps its invariant while it is
what moves. `PlatformIsTyped` concludes `PlatformTypeOK`.

What the proofs changed in the models and properties, each time because an induction
failed for a good reason:

- the probe for a scanner answers only while the flow waits for it (`ProbeEnds`); the model
  let it answer into a flow that was back at its notice;
- the fake provider's score passes an approval threshold of zero, so `OutcomesAreEvidenced`
  says so;
- a deletion under a hold may also have crashed (`HoldBlocksDeletion`);
- the bound of `GuessesAreBounded` was a constant that had to fit the instance, and is now
  computed from the number of logins and the limit;
- a login begins whether or not a session token is left to draw (`LoginStep`);
- that `None` is no row, no outcome and no choice was taken for granted.

Only model-checked: `JobsFinish` and `DeliveriesSettle`, which need fairness and ENABLED.
Every other property of a passing run is a theorem. That `GuessBudget` is the binomial
coefficient named above is calculated, not proved.

## Plan

What has been planned is there, with the abstract specifications (`AuditLog`, `Roles`,
`ConsentLedger`, `Retries`) and proofs that the code's statements implement them. Left:

1. `StepUp`: OTP and PIN challenges, lock-out, capture references of verify-core.
2. Hazards without a property (`hazards` with a `note` in `PROJECT.json`).

## Not modelled

`components` in `PROJECT.json` gives the status of every part.

- Cryptography, image processing, biometric matching and the providers: the models
  use their possible answers.
- verify-core beyond its replies: its vault, audit log, service and step-up are
  in-memory prototypes, single-threaded, of what the platform keeps in tables; its
  `policy.py` is a twin of `decision.ts` that the platform does not run.
- Context verification and documents: called from tests only, one pass and one insert.
- Read-only operations: exports of a subject, queues, dashboards, listings.
- Marketing pages, metrics, CI and scripts.
- Redaction, formatting and HTTP details.
- The lengths of timeouts and retention periods: a period ends at any time.
