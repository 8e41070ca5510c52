------------------------------ MODULE Startup ------------------------------
(***************************************************************************)
(* How a process comes up: configuration (server/config.ts), the database  *)
(* and its migrations (server/runtime.ts, db/migrate.ts), the KMS adapter  *)
(* (security/kms.ts) and the biometric provider (api/http.ts), all found   *)
(* lazily and kept for the life of the process.  Web processes and the     *)
(* worker start, overlap, die and come back over one database.             *)
(***************************************************************************)
EXTENDS Naturals, NoValue
CONSTANTS
  Web, Worker,   \* processes of the site, and processes of the worker
  LastMigration, \* migrations are numbered 1..LastMigration
  Repeatable,    \* those that may be executed again: 0008 alters functions, the others create
  Deployment     \* the environments deployed in this instance (a bound)

Process == Web \cup Worker
Migration == 1..LastMigration

\* What the environment variables say, as far as anything below tells them apart.
Environment ==
  [app : {"production", "staging", "development", "test"}, node : {"production", "development"},
   url : BOOLEAN, driver : {"postgres", "pglite", "unset"}, core : {"https", "http", "none"},
   kms : {"aws", "local"}, keyId : BOOLEAN, master : BOOLEAN, rest : BOOLEAN]

ASSUME DeploymentAssumption == Deployment \subseteq Environment /\ LastMigration \in Nat \ {0}
ASSUME RepeatableAssumption == Repeatable \subseteq Migration
ASSUME NoneIsNoChoice == None \notin {"postgres", "pglite", "aws", "local", "verify-core", "fake"}

VARIABLES
  env,           \* the environment, or None before the deployment
  executed,      \* migrations whose statements stand in the database
  recorded,      \* rows of _migrations
  db,            \* getDb's promise in each process: [is, todo]
  adapter,       \* getKms's adapter in each process, or None
  provider       \* getProvider's provider in each process, or None

startVars == <<env, executed, recorded, db, adapter, provider>>

NoDb == [is |-> "none", todo |-> {}]
StartupTypeOK ==
  /\ env \in Environment \cup {None}
  /\ executed \subseteq Migration /\ recorded \subseteq Migration
  /\ db \in [Process -> [is : {"none", "listing", "running", "recording", "open", "pglite", "failed"},
                         todo : SUBSET Migration]]
  /\ adapter \in [Process -> {"local", "aws", None}]
  /\ provider \in [Process -> {"verify-core", "fake", None}]

StartupInit ==
  /\ env = None
  /\ executed = {} /\ recorded = {}
  /\ db = [p \in Process |-> NoDb]
  /\ adapter = [p \in Process |-> None]
  /\ provider = [p \in Process |-> None]

Deploy(e) ==
  /\ env = None /\ env' = e
  /\ UNCHANGED <<executed, recorded, db, adapter, provider>>

-----------------------------------------------------------------------------
\* validateConfig, which the worker alone runs.
Hardened(e) == e.app \in {"production", "staging"}
Valid(e) ==
  /\ Hardened(e) => e.url /\ e.driver # "pglite" /\ e.core = "https" /\ e.rest
  /\ e.app = "production" => ~e.master /\ e.kms = "aws" /\ e.keyId
  /\ ~Hardened(e) => e.url \/ e.driver = "pglite"

\* Which database a process turns to; None is the error for having no choice.
WebDriver(e) ==
  LET driver == IF e.driver = "unset" /\ e.url THEN "postgres" ELSE e.driver IN
  IF driver = "postgres" THEN "postgres"
  ELSE IF driver = "pglite" /\ e.node # "production" THEN "pglite" ELSE None
WorkerDriver(e) == IF ~Valid(e) THEN None ELSE IF e.url THEN "postgres" ELSE "pglite"
DriverOf(p) == IF p \in Web THEN WebDriver(env) ELSE WorkerDriver(env)

\* The first getDb of a process keeps its promise, a rejected one too.  A PGlite database lives
\* in its process, where nothing disturbs its migrations.
GetDb(p) ==
  /\ env # None /\ db[p].is = "none"
  /\ db' = [db EXCEPT ![p].is = CASE DriverOf(p) = "postgres" -> "listing"
                                  [] DriverOf(p) = "pglite" -> "pglite"
                                  [] DriverOf(p) = None -> "failed"]
  /\ UNCHANGED <<env, executed, recorded, adapter, provider>>

\* The database does not answer.
DbFails(p) ==
  /\ db[p].is \in {"listing", "running", "recording"}
  /\ db' = [db EXCEPT ![p].is = "failed"]
  /\ UNCHANGED <<env, executed, recorded, adapter, provider>>

-----------------------------------------------------------------------------
\* migrate: read what is recorded, then execute and record the rest, file by file.
Proceeds(p, todo) == [is |-> IF todo = {} THEN "open" ELSE "running", todo |-> todo]
Next1(p) == CHOOSE m \in db[p].todo : \A n \in db[p].todo : m <= n

ListApplied(p) ==
  /\ db[p].is = "listing"
  /\ db' = [db EXCEPT ![p] = Proceeds(p, Migration \ recorded)]
  /\ UNCHANGED <<env, executed, recorded, adapter, provider>>

\* Mutant: an error of the statements is passed over.
ExecFileAnyway(p) ==
  /\ db[p].is = "running"
  /\ executed' \in {executed, executed \cup {Next1(p)}}
  /\ db' = [db EXCEPT ![p].is = "recording"]
  /\ UNCHANGED <<env, recorded, adapter, provider>>

\* The statements are one transaction; what creates a table or a column fails the second time.
ExecFile(p) ==
  /\ db[p].is = "running"
  /\ \/ /\ Next1(p) \notin executed \/ Next1(p) \in Repeatable
        /\ executed' = executed \cup {Next1(p)}
        /\ db' = [db EXCEPT ![p].is = "recording"]
     \/ /\ Next1(p) \in executed \ Repeatable
        /\ db' = [db EXCEPT ![p].is = "failed"]
        /\ UNCHANGED executed
  /\ UNCHANGED <<env, recorded, adapter, provider>>

\* name is the primary key of _migrations: a second INSERT of a file is an error.
RecordFile(p) ==
  /\ db[p].is = "recording"
  /\ \/ /\ Next1(p) \notin recorded
        /\ recorded' = recorded \cup {Next1(p)}
        /\ db' = [db EXCEPT ![p] = Proceeds(p, @.todo \ {Next1(p)})]
     \/ /\ Next1(p) \in recorded
        /\ db' = [db EXCEPT ![p].is = "failed"]
        /\ UNCHANGED recorded
  /\ UNCHANGED <<env, executed, adapter, provider>>

-----------------------------------------------------------------------------
\* buildAdapterFromEnv; None is its error.
BuiltAdapter(e) ==
  CASE e.kms = "aws" /\ e.keyId -> "aws"
    [] e.kms = "local" /\ e.master -> "local"
    [] OTHER -> None

\* assertProductionKeyConfig
Refused(kms) == env.node = "production" /\ kms = "local"

\* getKms keeps the adapter it built before it asserts, and asserts only then.  The worker takes
\* its adapter once its database is open and exits when that is refused; in the site a request
\* fails.
GetKms(p) ==
  /\ env # None
  /\ p \in Worker => db[p].is \in {"open", "pglite"}
  /\ LET kms == IF adapter[p] = None THEN BuiltAdapter(env) ELSE adapter[p] IN
       /\ kms # None
       /\ adapter' = [adapter EXCEPT ![p] = IF p \in Worker /\ Refused(kms) THEN None ELSE kms]
  /\ UNCHANGED <<env, executed, recorded, db, provider>>

\* VerifyCoreProvider takes a plain connection to its own host, and not in production.
Usable(e) == e.core = "https" \/ (e.core = "http" /\ e.node # "production")

\* getProvider of the /v1 routes: explicit configuration, never a silent fallback.
GetProvider(p) ==
  /\ env # None /\ p \in Web /\ provider[p] = None
  /\ \/ Usable(env) /\ env.rest /\ provider' = [provider EXCEPT ![p] = "verify-core"]
     \/ /\ env.core = "none" \/ ~env.rest
        /\ env.node # "production" /\ env.driver = "pglite"
        /\ provider' = [provider EXCEPT ![p] = "fake"]
  /\ UNCHANGED <<env, executed, recorded, db, adapter>>

\* A deployment, a crash, or the exit of a worker whose start failed.
Restart(p) ==
  /\ db[p].is # "none" \/ adapter[p] # None \/ provider[p] # None
  /\ db' = [db EXCEPT ![p] = NoDb]
  /\ adapter' = [adapter EXCEPT ![p] = None]
  /\ provider' = [provider EXCEPT ![p] = None]
  /\ UNCHANGED <<env, executed, recorded>>

StartupNext ==
  \/ \E e \in Deployment : Deploy(e)
  \/ \E p \in Process : \/ GetDb(p) \/ DbFails(p) \/ ListApplied(p) \/ ExecFile(p) \/ RecordFile(p)
                        \/ GetKms(p) \/ GetProvider(p) \/ Restart(p)

StartupSpec == StartupInit /\ [][StartupNext]_startVars

-----------------------------------------------------------------------------
\* "Readiness: database reachable and migrations applied."  However many processes migrate the
\* database at once, execute a file twice, and wherever they die, one whose database has opened
\* finds every migration executed and recorded.  In production the site never opens PGlite or
\* the fake provider, and a worker that runs has not kept the KMS adapter for local keys.  (The
\* site may keep that adapter: it never runs validateConfig, and getKms asserts after it has
\* stored what it built.)
ReadyMeansMigrated ==
  /\ recorded \subseteq executed
  /\ \A p \in Process : db[p].is = "open" => recorded = Migration
  /\ \A p \in Web : env # None /\ env.node = "production" =>
       db[p].is # "pglite" /\ provider[p] # "fake"
  /\ \A p \in Worker : env # None /\ env.node = "production" => adapter[p] # "local"
=============================================================================
