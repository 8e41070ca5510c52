-------------------------------- MODULE Keys --------------------------------
(***************************************************************************)
(* Tenant data keys (server/security/kms.ts, secrets.ts) and the daily job *)
(* that rotates them (server/jobs/maintenance.ts).  A sealer gets the      *)
(* active key of a tenant, inserting version 1 when it finds none, and     *)
(* seals a value under it; a rotation retires what is active and then      *)
(* inserts the next version.  Each statement is a step; any process may    *)
(* stop between two (a refused INSERT, a KMS error, a crash).  A random    *)
(* key is named after the process that drew it.                            *)
(***************************************************************************)
EXTENDS Naturals, NoValue
CONSTANTS
  Tenant,        \* organisations, and the platform itself (organisation_id IS NULL)
  Sealer,        \* calls of encryptSecret or of an evidence store
  Rotator,       \* executions of keys.rotation_execute
  MaxVersion     \* key versions in this instance (a bound)

ASSUME VersionAssumption == MaxVersion \in Nat \ {0, 1}

Version == 1..MaxVersion
Dek == Sealer \cup (Rotator \X Version)
Proc == Sealer \cup Rotator

VARIABLES
  tenantKeys,    \* rows of tenant_keys, or None
  sealed,        \* values at rest: under which tenant, version and key
  working        \* where each process is

keyVars == <<tenantKeys, sealed, working>>

KeyRecord == [dek : Dek, status : {"active", "retired"}, due : BOOLEAN]
ASSUME NoneIsNoKey == None \notin KeyRecord
AtEase == [at |-> "idle"]
KeyWork ==
  [at : {"insert_first"}, tenant : Tenant, todo : SUBSET Tenant]
    \cup [at : {"seal"}, tenant : Tenant, version : Version, dek : Dek]
    \cup [at : {"next"}, todo : SUBSET Tenant]
    \cup [at : {"retire", "insert_next"}, tenant : Tenant, version : Version, todo : SUBSET Tenant]

KeysTypeOK ==
  /\ tenantKeys \in [Tenant \X Version -> KeyRecord \cup {None}]
  /\ sealed \subseteq [tenant : Tenant, version : Version, dek : Dek]
  /\ working \in [Proc -> KeyWork \cup {AtEase}]

KeysInit ==
  /\ tenantKeys = [tv \in Tenant \X Version |-> None]
  /\ sealed = {}
  /\ working = [p \in Proc |-> AtEase]

-----------------------------------------------------------------------------
Active(t) == {v \in Version : tenantKeys[<<t, v>>] # None /\ tenantKeys[<<t, v>>].status = "active"}
Overdue == {t \in Tenant : \E v \in Active(t) : tenantKeys[<<t, v>>].due}
Newest(versions) == CHOOSE v \in versions : \A w \in versions : w <= v

MovesOn(p, work) == working' = [working EXCEPT ![p] = work]
Fresh(dek) == [dek |-> dek, status |-> "active", due |-> FALSE]

\* getTenantDek: the newest active key, or else a new key for an INSERT of version 1.
SealUnderActive(p, t) ==
  /\ Active(t) # {}
  /\ LET v == Newest(Active(t)) IN
       MovesOn(p, [at |-> "seal", tenant |-> t, version |-> v, dek |-> tenantKeys[<<t, v>>].dek])

GetTenantDek(p, t) ==
  /\ working[p] = AtEase
  /\ \/ SealUnderActive(p, t)
     \/ Active(t) = {} /\ MovesOn(p, [at |-> "insert_first", tenant |-> t, todo |-> {}])
  /\ UNCHANGED <<tenantKeys, sealed>>

\* Mutant: ON CONFLICT DO UPDATE.
InsertFirstAgain(p) ==
  LET t == working[p].tenant
      dek == IF p \in Sealer THEN p ELSE <<p, 1>>
  IN /\ working[p].at = "insert_first"
     /\ tenantKeys' = [tenantKeys EXCEPT ![<<t, 1>>] = Fresh(dek)]
     /\ MovesOn(p, IF p \in Sealer THEN [at |-> "seal", tenant |-> t, version |-> 1, dek |-> dek]
                   ELSE [at |-> "retire", tenant |-> t, version |-> 1, todo |-> working[p].todo])
     /\ UNCHANGED sealed

\* The unique index on tenant and version refuses a second version 1: the caller gets an error.
InsertFirst(p) ==
  LET t == working[p].tenant
      dek == IF p \in Sealer THEN p ELSE <<p, 1>>
  IN /\ working[p].at = "insert_first"
     /\ tenantKeys[<<t, 1>>] = None
     /\ tenantKeys' = [tenantKeys EXCEPT ![<<t, 1>>] = Fresh(dek)]
     /\ MovesOn(p, IF p \in Sealer THEN [at |-> "seal", tenant |-> t, version |-> 1, dek |-> dek]
                   ELSE [at |-> "retire", tenant |-> t, version |-> 1, todo |-> working[p].todo])
     /\ UNCHANGED sealed

\* encryptWithDek, and the INSERT of the value with its key version.
Seal(p) ==
  /\ working[p].at = "seal"
  /\ sealed' = sealed \cup {[tenant |-> working[p].tenant, version |-> working[p].version, dek |-> working[p].dek]}
  /\ MovesOn(p, AtEase)
  /\ UNCHANGED tenantKeys

-----------------------------------------------------------------------------
\* The job lists the tenants whose active key is overdue and rotates them one after another.
ListOverdue(r) ==
  /\ working[r] = AtEase
  /\ Overdue # {}
  /\ MovesOn(r, [at |-> "next", todo |-> Overdue])
  /\ UNCHANGED <<tenantKeys, sealed>>

\* rotateTenantDek begins with getTenantDek.
ReadCurrent(r, t) ==
  /\ working[r].at = "next" /\ t \in working[r].todo
  /\ LET rest == working[r].todo \ {t} IN
       \/ /\ Active(t) # {}
          /\ MovesOn(r, [at |-> "retire", tenant |-> t, version |-> Newest(Active(t)), todo |-> rest])
       \/ /\ Active(t) = {}
          /\ MovesOn(r, [at |-> "insert_first", tenant |-> t, todo |-> rest])
  /\ UNCHANGED <<tenantKeys, sealed>>

RetireActive(r) ==
  LET t == working[r].tenant IN
  /\ working[r].at = "retire"
  /\ tenantKeys' = [tv \in Tenant \X Version |->
       IF tv[1] = t /\ tv[2] \in Active(t) THEN [tenantKeys[tv] EXCEPT !.status = "retired"]
       ELSE tenantKeys[tv]]
  /\ MovesOn(r, [working[r] EXCEPT !.at = "insert_next"])
  /\ UNCHANGED sealed

\* The next version of the one read; refused when another rotation has inserted it.
InsertNext(r) ==
  LET t == working[r].tenant
      next == working[r].version + 1
  IN /\ working[r].at = "insert_next"
     /\ next \in Version /\ tenantKeys[<<t, next>>] = None
     /\ tenantKeys' = [tenantKeys EXCEPT ![<<t, next>>] = Fresh(<<r, next>>)]
     /\ MovesOn(r, IF working[r].todo = {} THEN AtEase ELSE [at |-> "next", todo |-> working[r].todo])
     /\ UNCHANGED sealed

\* A refused INSERT, an error of the KMS or a crash; what was written stays.
ProcStops(p) ==
  /\ working[p] # AtEase
  /\ MovesOn(p, AtEase)
  /\ UNCHANGED <<tenantKeys, sealed>>

FallsDue(t, v) ==
  /\ v \in Active(t) /\ v < MaxVersion /\ ~tenantKeys[<<t, v>>].due
  /\ tenantKeys' = [tenantKeys EXCEPT ![<<t, v>>].due = TRUE]
  /\ UNCHANGED <<sealed, working>>

RotatorStep(r) ==
  \/ ListOverdue(r) \/ RetireActive(r) \/ InsertNext(r) \/ \E t \in Tenant : ReadCurrent(r, t)

KeysNext ==
  \/ \E p \in Proc : InsertFirst(p) \/ ProcStops(p)
  \/ \E p \in Sealer : Seal(p) \/ \E t \in Tenant : GetTenantDek(p, t)
  \/ \E r \in Rotator : RotatorStep(r)
  \/ \E t \in Tenant, v \in Version : FallsDue(t, v)

KeysSpec == KeysInit /\ [][KeysNext]_keyVars

-----------------------------------------------------------------------------
\* getTenantDekVersion and decryptSecret: a value opens with the key its version is recorded for.
Opens(value) ==
  /\ tenantKeys[<<value.tenant, value.version>>] # None
  /\ tenantKeys[<<value.tenant, value.version>>].dek = value.dek

\* Whatever first uses and rotations overlap or die, a value at rest can be opened: the key it
\* was sealed under stands, unreplaced, at the tenant and version recorded with it.
SealedValuesOpen == \A value \in sealed : Opens(value)

\* "All idempotent - re-running any of them is harmless": once the rotations have ended, a
\* tenant that ever had a key has an active one.
TenantKeepsActiveKey ==
  (\A r \in Rotator : working[r] = AtEase) =>
    \A t \in Tenant : (\E v \in Version : tenantKeys[<<t, v>>] # None) => Active(t) # {}
=============================================================================
