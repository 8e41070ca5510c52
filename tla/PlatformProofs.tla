--------------------------- MODULE PlatformProofs ---------------------------
(***************************************************************************)
(* API keys and idempotency, tenant data keys, start-up, decisions, the    *)
(* capture flows and the leads, for any number of requests, processes and  *)
(* visitors.                                                               *)
(***************************************************************************)
EXTENDS ApiAccess, Keys, Startup, Decisions, Clients, Leads, WellFoundedInduction,
        FiniteSetTheorems, TLAPS

-----------------------------------------------------------------------------
(* Tenant data keys (Keys).                                                 *)

\* Among versions there is a newest.
LEMMA NewestExists ==
  ASSUME NEW S \in SUBSET Version, S # {}
  PROVE  Newest(S) \in S
<1> DEFINE T == {MaxVersion - v : v \in S}
           R == OpToRel(<, Nat)
<1>0. MaxVersion \in Nat
  BY VersionAssumption
<1>1. T \subseteq Nat /\ T # {}
  <2>1. \A v \in S : v \in Nat /\ v <= MaxVersion
    BY <1>0 DEF Version
  <2>2. \A v \in S : MaxVersion - v \in Nat
    BY <1>0, <2>1
  <2> QED
    BY <2>2
<1>2. IsWellFoundedOn(R, Nat)
  BY NatLessThanWellFounded
<1>3. \A x, y \in Nat : <<y, x>> \in R <=> y < x
  BY DEF OpToRel
<1> HIDE DEF R
<1>4. PICK x \in T : \A y \in T : ~ <<y, x>> \in R
  BY <1>1, <1>2, WFMin
<1>5. \A y \in T : ~(y < x)
  BY <1>1, <1>3, <1>4
<1>6. PICK v \in S : x = MaxVersion - v
  OBVIOUS
<1>7. \A w \in S : w <= v
  <2> SUFFICES ASSUME NEW w \in S
               PROVE  w <= v
    OBVIOUS
  <2>1. ~(MaxVersion - w < MaxVersion - v)
    BY <1>5, <1>6
  <2>2. w \in Int /\ v \in Int
    BY <1>0 DEF Version
  <2> QED
    BY <1>0, <2>1, <2>2
<1>8. \E n \in S : \A w \in S : w <= n
  BY <1>7
<1>9. (CHOOSE n \in S : \A w \in S : w <= n) \in S
  BY <1>8, Zenon
<1> QED
  BY <1>9 DEF Newest

\* What a process holds, by where it is.
LEMMA KeyFields ==
  ASSUME KeysTypeOK, NEW p \in Proc
  PROVE  /\ working[p].at = "idle" <=> working[p] = AtEase
         /\ working[p].at = "insert_first" => working[p].tenant \in Tenant /\ working[p].todo \in SUBSET Tenant
         /\ working[p].at = "seal" => working[p] \in [at : {"seal"}, tenant : Tenant, version : Version, dek : Dek]
         /\ working[p].at = "next" => working[p].todo \in SUBSET Tenant
         /\ working[p].at \in {"retire", "insert_next"} =>
              working[p] \in [at : {"retire", "insert_next"}, tenant : Tenant, version : Version,
                              todo : SUBSET Tenant]
<1>1. working[p] \in KeyWork \cup {AtEase}
  BY DEF KeysTypeOK
<1> QED
  BY <1>1 DEF KeyWork, AtEase

\* What is at rest opens, and so will what is about to be.
KeysInv ==
  /\ KeysTypeOK
  /\ SealedValuesOpen
  /\ \A p \in Proc : working[p].at = "seal" => Opens(working[p])

\* The key of a version, once inserted, is neither replaced nor dropped.
KeysStand == \A tv \in Tenant \X Version : tenantKeys[tv] # None =>
  tenantKeys'[tv] # None /\ tenantKeys'[tv].dek = tenantKeys[tv].dek

\* A step of the key manager deletes no tenant key and changes none's wrapped DEK.
LEMMA RowsStand ==
  ASSUME KeysTypeOK, KeysNext
  PROVE  KeysStand /\ tenantKeys' \in [Tenant \X Version -> KeyRecord \cup {None}]
<1> DEFINE Table == [Tenant \X Version -> KeyRecord \cup {None}]
<1> USE DEF KeysTypeOK, KeysStand
<1>1. 1 \in Version
  BY VersionAssumption DEF Version
<1>2. \A row \in KeyRecord :
        /\ \A status \in {"active", "retired"} :
             [row EXCEPT !.status = status] \in KeyRecord /\ [row EXCEPT !.status = status].dek = row.dek
        /\ [row EXCEPT !.due = TRUE] \in KeyRecord /\ [row EXCEPT !.due = TRUE].dek = row.dek
  BY DEF KeyRecord
<1>3. \A dek \in Dek : Fresh(dek) \in KeyRecord
  BY DEF Fresh, KeyRecord
<1>4. ASSUME NEW p \in Proc, InsertFirst(p)
      PROVE  KeysStand /\ tenantKeys' \in Table
  <2> DEFINE t == working[p].tenant
             dek == IF p \in Sealer THEN p ELSE <<p, 1>>
  <2>1. t \in Tenant /\ dek \in Dek
    BY <1>1, <1>4, KeyFields DEF InsertFirst, Dek, Proc
  <2>2. tenantKeys[<<t, 1>>] = None /\ tenantKeys' = [tenantKeys EXCEPT ![<<t, 1>>] = Fresh(dek)]
    BY <1>4 DEF InsertFirst
  <2> HIDE DEF t, dek
  <2> QED
    BY <1>1, <1>3, <2>1, <2>2
<1>5. ASSUME NEW r \in Rotator, InsertNext(r)
      PROVE  KeysStand /\ tenantKeys' \in Table
  <2> DEFINE t == working[r].tenant
             next == working[r].version + 1
  <2>1. t \in Tenant
    BY <1>5, KeyFields DEF InsertNext, Proc
  <2>2. /\ next \in Version /\ tenantKeys[<<t, next>>] = None
        /\ tenantKeys' = [tenantKeys EXCEPT ![<<t, next>>] = Fresh(<<r, next>>)]
    BY <1>5 DEF InsertNext
  <2> HIDE DEF t, next
  <2>3. Fresh(<<r, next>>) \in KeyRecord
    BY <1>3, <2>2 DEF Dek
  <2> QED
    BY <2>1, <2>2, <2>3
<1>6. ASSUME NEW r \in Rotator, RetireActive(r)
      PROVE  KeysStand /\ tenantKeys' \in Table
  <2> DEFINE t == working[r].tenant
             row(tv) == IF tv[1] = t /\ tv[2] \in Active(t) THEN [tenantKeys[tv] EXCEPT !.status = "retired"]
                        ELSE tenantKeys[tv]
  <2>1. tenantKeys' = [tv \in Tenant \X Version |-> row(tv)]
    BY <1>6 DEF RetireActive
  <2>2. ASSUME NEW tv \in Tenant \X Version
        PROVE  /\ row(tv) \in KeyRecord \cup {None}
               /\ tenantKeys[tv] # None => row(tv) # None /\ row(tv).dek = tenantKeys[tv].dek
    <3>1. CASE tv[1] = t /\ tv[2] \in Active(t)
      <4>1. tenantKeys[tv] \in KeyRecord
        BY <3>1 DEF Active
      <4> QED
        BY <1>2, <3>1, <4>1, NoneIsNoKey
    <3>2. CASE ~(tv[1] = t /\ tv[2] \in Active(t))
      BY <3>2
    <3> QED
      BY <3>1, <3>2
  <2> HIDE DEF row
  <2> QED
    BY <2>1, <2>2
<1>7. ASSUME NEW t \in Tenant, NEW v \in Version, FallsDue(t, v)
      PROVE  KeysStand /\ tenantKeys' \in Table
  <2>1. tenantKeys[<<t, v>>] \in KeyRecord
    BY <1>7 DEF FallsDue, Active
  <2>2. tenantKeys' = [tenantKeys EXCEPT ![<<t, v>>] = [tenantKeys[<<t, v>>] EXCEPT !.due = TRUE]]
    BY <1>7 DEF FallsDue
  <2> QED
    BY <1>2, <2>1, <2>2, NoneIsNoKey
<1>8. CASE UNCHANGED tenantKeys
  BY <1>8
<1> QED
  BY <1>4, <1>5, <1>6, <1>7, <1>8
     DEF KeysNext, ProcStops, Seal, GetTenantDek, RotatorStep, ListOverdue, ReadCurrent

\* A process that moves on holds work it may hold.
LEMMA WorkTyped ==
  ASSUME KeysTypeOK, KeysNext
  PROVE  working' \in [Proc -> KeyWork \cup {AtEase}]
<1> DEFINE Works == [Proc -> KeyWork \cup {AtEase}]
<1> USE DEF KeysTypeOK, Proc
<1>0. ASSUME NEW p \in Proc, NEW work \in KeyWork \cup {AtEase}, MovesOn(p, work)
      PROVE  working' \in Works
  BY <1>0 DEF MovesOn
<1>1. ASSUME NEW t \in Tenant, Active(t) # {}
      PROVE  Newest(Active(t)) \in Version /\ tenantKeys[<<t, Newest(Active(t))>>] \in KeyRecord
  <2>1. Active(t) \in SUBSET Version
    BY DEF Active
  <2>2. Newest(Active(t)) \in Active(t)
    BY <1>1, <2>1, NewestExists
  <2>3. \A v \in Active(t) : v \in Version /\ tenantKeys[<<t, v>>] \in KeyRecord
    BY DEF Active
  <2> QED
    BY <2>2, <2>3
<1>2. ASSUME NEW p \in Proc, InsertFirst(p)
      PROVE  working' \in Works
  <2> DEFINE t == working[p].tenant
             dek == IF p \in Sealer THEN p ELSE <<p, 1>>
  <2>1. 1 \in Version
    BY VersionAssumption DEF Version
  <2>2. t \in Tenant /\ dek \in Dek /\ working[p].todo \in SUBSET Tenant
    BY <1>2, <2>1, KeyFields DEF InsertFirst, Dek
  <2>3. /\ [at |-> "seal", tenant |-> t, version |-> 1, dek |-> dek] \in KeyWork
        /\ [at |-> "retire", tenant |-> t, version |-> 1, todo |-> working[p].todo] \in KeyWork
    BY <2>1, <2>2 DEF KeyWork
  <2>4. PICK work \in KeyWork : MovesOn(p, work)
    BY <1>2, <2>3 DEF InsertFirst
  <2> QED
    BY <1>0, <2>4
<1>3. ASSUME NEW p \in Sealer, NEW t \in Tenant, GetTenantDek(p, t)
      PROVE  working' \in Works
  <2>1. ASSUME SealUnderActive(p, t)
        PROVE  \E work \in KeyWork : MovesOn(p, work)
    <3> DEFINE v == Newest(Active(t))
    <3>1. v \in Version /\ tenantKeys[<<t, v>>].dek \in Dek
      BY <1>1, <2>1 DEF SealUnderActive, KeyRecord
    <3>2. MovesOn(p, [at |-> "seal", tenant |-> t, version |-> v, dek |-> tenantKeys[<<t, v>>].dek])
      BY <2>1 DEF SealUnderActive
    <3> HIDE DEF v
    <3> QED
      BY <3>1, <3>2 DEF KeyWork
  <2>2. [at |-> "insert_first", tenant |-> t, todo |-> {}] \in KeyWork
    BY DEF KeyWork
  <2> QED
    BY <1>0, <1>3, <2>1, <2>2 DEF GetTenantDek
<1>4. ASSUME NEW r \in Rotator, ListOverdue(r)
      PROVE  working' \in Works
  <2>1. [at |-> "next", todo |-> Overdue] \in KeyWork
    BY DEF Overdue, KeyWork
  <2> QED
    BY <1>0, <1>4, <2>1 DEF ListOverdue
<1>5. ASSUME NEW r \in Rotator, NEW t \in Tenant, ReadCurrent(r, t)
      PROVE  working' \in Works
  <2> DEFINE v == Newest(Active(t))
             rest == working[r].todo \ {t}
  <2>1. rest \in SUBSET Tenant
    BY <1>5, KeyFields DEF ReadCurrent
  <2>2. Active(t) # {} => v \in Version
    BY <1>1
  <2>3. \/ Active(t) # {} /\ MovesOn(r, [at |-> "retire", tenant |-> t, version |-> v, todo |-> rest])
        \/ MovesOn(r, [at |-> "insert_first", tenant |-> t, todo |-> rest])
    BY <1>5 DEF ReadCurrent
  <2> HIDE DEF v, rest
  <2>4. PICK work \in KeyWork : MovesOn(r, work)
    BY <2>1, <2>2, <2>3 DEF KeyWork
  <2> QED
    BY <1>0, <2>4
<1>6. ASSUME NEW r \in Rotator, RetireActive(r)
      PROVE  working' \in Works
  <2>1. working[r] \in [at : {"retire", "insert_next"}, tenant : Tenant, version : Version, todo : SUBSET Tenant]
    BY <1>6, KeyFields DEF RetireActive
  <2>2. [working[r] EXCEPT !.at = "insert_next"] \in KeyWork
    BY <2>1 DEF KeyWork
  <2> QED
    BY <1>0, <1>6, <2>2 DEF RetireActive
<1>7. ASSUME NEW r \in Rotator, InsertNext(r)
      PROVE  working' \in Works
  <2>1. working[r].todo \in SUBSET Tenant
    BY <1>7, KeyFields DEF InsertNext
  <2>2. (IF working[r].todo = {} THEN AtEase ELSE [at |-> "next", todo |-> working[r].todo]) \in KeyWork \cup {AtEase}
    BY <2>1 DEF KeyWork
  <2> QED
    BY <1>0, <1>7, <2>2 DEF InsertNext
<1>8. ASSUME NEW p \in Proc, ProcStops(p) \/ Seal(p)
      PROVE  working' \in Works
  BY <1>0, <1>8 DEF ProcStops, Seal
<1>9. ASSUME NEW t \in Tenant, NEW v \in Version, FallsDue(t, v)
      PROVE  working' \in Works
  BY <1>9 DEF FallsDue
<1> QED
  BY <1>2, <1>3, <1>4, <1>5, <1>6, <1>7, <1>8, <1>9 DEF KeysNext, RotatorStep

\* What opens goes on to open.
LEMMA OpensStays ==
  ASSUME KeysStand, NEW t \in Tenant, NEW v \in Version, NEW value, value.tenant = t, value.version = v,
         Opens(value)
  PROVE  Opens(value)'
  BY DEF Opens, KeysStand

\* A process about to seal holds a key that stands.
LEMMA SealsUnderStandingKey ==
  ASSUME KeysInv, KeysNext, NEW p \in Proc, working'[p].at = "seal"
  PROVE  Opens(working[p])'
<1> USE DEF KeysInv, Proc
<1>1. KeysStand
  BY RowsStand
<1>2. CASE working'[p] = working[p]
  <2>1. PICK value : value = working[p]
    OBVIOUS
  <2>2. Opens(value) /\ value.tenant \in Tenant /\ value.version \in Version
    BY <1>2, <2>1, KeyFields
  <2>3. Opens(value)'
    BY <1>1, <2>2, OpensStays
  <2> QED
    BY <1>2, <2>1, <2>3
<1>3. ASSUME NEW q \in Proc, NEW work, MovesOn(q, work), working'[p] # working[p]
      PROVE  p = q /\ working'[p] = work
  BY <1>3 DEF MovesOn, KeysTypeOK
<1>4. ASSUME NEW q \in Proc, InsertFirst(q), working'[p] # working[p]
      PROVE  Opens(working[p])'
  <2> DEFINE t == working[p].tenant
             dek == IF p \in Sealer THEN p ELSE <<p, 1>>
             sealing == [at |-> "seal", tenant |-> t, version |-> 1, dek |-> dek]
             retiring == [at |-> "retire", tenant |-> t, version |-> 1, todo |-> working[p].todo]
  <2>1. InsertFirst(p) /\ working'[p] \in {sealing, retiring}
    BY <1>3, <1>4 DEF InsertFirst
  <2>2. retiring.at = "retire"
    OBVIOUS
  <2>3. working'[p] = sealing
    BY <2>1, <2>2
  <2>4. PICK tn, dk : tn = t /\ dk = dek
    OBVIOUS
  <2>5. tn \in Tenant /\ 1 \in Version
    BY <2>1, <2>4, KeyFields, VersionAssumption DEF InsertFirst, Version
  <2>6. tenantKeys' = [tenantKeys EXCEPT ![<<tn, 1>>] = Fresh(dk)]
    BY <2>1, <2>4 DEF InsertFirst
  <2>7. tenantKeys'[<<tn, 1>>] = Fresh(dk)
    BY <2>5, <2>6 DEF KeysTypeOK
  <2>8. working'[p].tenant = tn /\ working'[p].version = 1 /\ working'[p].dek = dk
    BY <2>3, <2>4
  <2>9. Fresh(dk).dek = dk
    BY DEF Fresh
  <2>10. tenantKeys'[<<tn, 1>>] # None
    <3>1. dk \in Dek
      BY <2>4, <2>5 DEF Dek
    <3>2. Fresh(dk) \in KeyRecord
      BY <3>1 DEF Fresh, KeyRecord
    <3> QED
      BY <2>7, <3>2, NoneIsNoKey
  <2> QED
    BY <2>7, <2>8, <2>9, <2>10 DEF Opens
<1>5. ASSUME NEW q \in Sealer, NEW t \in Tenant, GetTenantDek(q, t), working'[p] # working[p]
      PROVE  Opens(working[p])'
  <2>1. PICK v : v = Newest(Active(t))
    OBVIOUS
  <2>2. PICK dk : dk = tenantKeys[<<t, v>>].dek
    OBVIOUS
  <2> DEFINE sealing == [at |-> "seal", tenant |-> t, version |-> v, dek |-> dk]
             first == [at |-> "insert_first", tenant |-> t, todo |-> {}]
  <2>3. first.at = "insert_first"
    OBVIOUS
  <2>4. working'[p] = sealing /\ Active(t) # {} /\ UNCHANGED tenantKeys
    BY <1>3, <1>5, <2>1, <2>2, <2>3 DEF GetTenantDek, SealUnderActive
  <2>5. v \in Active(t)
    BY <2>1, <2>4, NewestExists DEF Active
  <2>6. tenantKeys'[<<t, v>>] # None /\ tenantKeys'[<<t, v>>].dek = dk
    BY <2>2, <2>4, <2>5 DEF Active
  <2>7. working'[p].tenant = t /\ working'[p].version = v /\ working'[p].dek = dk
    BY <2>4
  <2> QED
    BY <2>6, <2>7 DEF Opens
<1>6. ASSUME NEW q \in Proc, ProcStops(q) \/ Seal(q), working'[p] # working[p]
      PROVE  FALSE
  BY <1>3, <1>6 DEF ProcStops, Seal, AtEase
<1>7. ASSUME NEW r \in Rotator, RotatorStep(r), working'[p] # working[p]
      PROVE  FALSE
  <2>1. ASSUME NEW work, MovesOn(r, work), work.at # "seal"
        PROVE  FALSE
    BY <1>3, <1>7, <2>1
  <2>2. CASE RetireActive(r)
    <3>1. working[r] \in [at : {"retire", "insert_next"}, tenant : Tenant, version : Version, todo : SUBSET Tenant]
      BY <2>2, KeyFields DEF RetireActive
    <3>2. [working[r] EXCEPT !.at = "insert_next"].at = "insert_next"
      BY <3>1
    <3> QED
      BY <2>1, <2>2, <3>2 DEF RetireActive
  <2>3. CASE ListOverdue(r)
    BY <2>1, <2>3 DEF ListOverdue
  <2>4. CASE InsertNext(r)
    BY <2>1, <2>4 DEF InsertNext, AtEase
  <2>5. ASSUME NEW t \in Tenant, ReadCurrent(r, t)
        PROVE  FALSE
    BY <2>1, <2>5 DEF ReadCurrent
  <2> QED
    BY <1>7, <2>2, <2>3, <2>4, <2>5 DEF RotatorStep
<1> QED
  BY <1>2, <1>4, <1>5, <1>6, <1>7 DEF KeysNext, FallsDue

\* Always, every sealed value opens, and so will what a call is about to store.
THEOREM KeysInvariant == KeysSpec => []KeysInv
<1>1. KeysInit => KeysInv
  BY DEF KeysInit, KeysInv, KeysTypeOK, SealedValuesOpen, AtEase
<1>2. KeysInv /\ [KeysNext]_keyVars => KeysInv'
  <2>1. ASSUME KeysInv, KeysNext
        PROVE  KeysInv'
    <3> USE <2>1 DEF KeysInv
    <3>1. KeysStand
      BY RowsStand
    <3>2. ASSUME NEW value \in sealed'
          PROVE  /\ value \in [tenant : Tenant, version : Version, dek : Dek]
                 /\ Opens(value)'
      <4>1. CASE value \in sealed
        <5>1. value.tenant \in Tenant /\ value.version \in Version
          BY <4>1 DEF KeysTypeOK
        <5>2. Opens(value)
          BY <4>1 DEF SealedValuesOpen
        <5>3. value \in [tenant : Tenant, version : Version, dek : Dek]
          BY <4>1 DEF KeysTypeOK
        <5> QED
          BY <3>1, <5>1, <5>2, <5>3, OpensStays
      <4>2. CASE value \notin sealed
        <5>1. PICK p \in Sealer : Seal(p)
          BY <3>2, <4>2 DEF KeysNext, InsertFirst, ProcStops, GetTenantDek, RotatorStep, ListOverdue,
               RetireActive, InsertNext, ReadCurrent, FallsDue
        <5>2. working[p] \in [at : {"seal"}, tenant : Tenant, version : Version, dek : Dek] /\ Opens(working[p])
          BY <5>1, KeyFields DEF Seal, Proc
        <5>3. value = [tenant |-> working[p].tenant, version |-> working[p].version, dek |-> working[p].dek]
          BY <3>2, <4>2, <5>1 DEF Seal
        <5>4. value.tenant = working[p].tenant /\ value.version = working[p].version
                /\ value.dek = working[p].dek
          BY <5>3
        <5>5. value \in [tenant : Tenant, version : Version, dek : Dek]
          BY <5>2, <5>3
        <5>6. Opens(value)
          BY <5>2, <5>4 DEF Opens
        <5> QED
          BY <3>1, <5>2, <5>4, <5>5, <5>6, OpensStays
      <4> QED
        BY <4>1, <4>2
    <3>3. KeysTypeOK'
      BY <3>2, RowsStand, WorkTyped DEF KeysTypeOK
    <3>4. SealedValuesOpen'
      BY <3>2 DEF SealedValuesOpen
    <3> QED
      BY <3>3, <3>4, SealsUnderStandingKey
  <2>2. ASSUME KeysInv, UNCHANGED keyVars
        PROVE  KeysInv'
    BY <2>2 DEF keyVars, KeysInv, KeysTypeOK, SealedValuesOpen, Opens
  <2> QED
    BY <2>1, <2>2
<1> QED
  BY <1>1, <1>2, PTL DEF KeysSpec

\* Whatever is at rest opens: first uses of a tenant's key and rotations (server/security/kms.ts,
\* server/jobs/maintenance.ts) may overlap, die and be run again.
THEOREM SealedValuesAlwaysOpen == KeysSpec => []SealedValuesOpen
<1>1. KeysInv => SealedValuesOpen
  BY DEF KeysInv
<1> QED
  BY <1>1, KeysInvariant, PTL

-----------------------------------------------------------------------------
(* Start-up (Startup).                                                      *)

\* Among migrations there is a first.
LEMMA FirstExists ==
  ASSUME NEW S \in SUBSET Migration, S # {}
  PROVE  (CHOOSE m \in S : \A n \in S : m <= n) \in S
<1> DEFINE R == OpToRel(<, Nat)
<1>0. LastMigration \in Nat
  BY DeploymentAssumption
<1>1. S \subseteq Nat
  BY <1>0 DEF Migration
<1>2. IsWellFoundedOn(R, Nat)
  BY NatLessThanWellFounded
<1>3. \A x, y \in Nat : <<y, x>> \in R <=> y < x
  BY DEF OpToRel
<1> HIDE DEF R
<1>4. PICK m \in S : \A n \in S : ~ <<n, m>> \in R
  BY <1>1, <1>2, WFMin
<1>5. \A n \in S : m <= n
  <2> SUFFICES ASSUME NEW n \in S
               PROVE  m <= n
    OBVIOUS
  <2>1. m \in Nat /\ n \in Nat
    BY <1>1
  <2>2. ~(n < m)
    BY <1>3, <1>4, <2>1
  <2> QED
    BY <2>1, <2>2
<1>6. \E f \in S : \A n \in S : f <= n
  BY <1>5
<1> QED
  BY <1>6, Zenon

\* A process that migrates has left only files that are recorded, and records only what stands
\* in the database.
Migrating(p) ==
  /\ db[p].is \in {"running", "recording"} => db[p].todo # {} /\ Migration \ db[p].todo \subseteq recorded
  /\ db[p].is = "recording" => Next1(p) \in executed

\* Nothing has started before the deployment.
NothingStarted == env = None => \A p \in Process : db[p] = NoDb /\ adapter[p] = None /\ provider[p] = None

StartupInv == StartupTypeOK /\ ReadyMeansMigrated /\ (\A p \in Process : Migrating(p)) /\ NothingStarted

DbRow == [is : {"none", "listing", "running", "recording", "open", "pglite", "failed"}, todo : SUBSET Migration]

\* A process's own step on its database, and what the others see of it.
LEMMA DbSteps ==
  ASSUME StartupInv, NEW p \in Process,
         GetDb(p) \/ DbFails(p) \/ ListApplied(p) \/ ExecFile(p) \/ RecordFile(p)
  PROVE  /\ db' \in [Process -> DbRow]
         /\ env' = env /\ adapter' = adapter /\ provider' = provider
         /\ executed \subseteq executed' /\ executed' \subseteq Migration
         /\ recorded \subseteq recorded' /\ recorded' \subseteq executed'
         /\ \A q \in Process : q # p => db'[q] = db[q]
         /\ db'[p].is = "open" => recorded' = Migration
         /\ db'[p].is = "pglite" => DriverOf(p) = "pglite"
         /\ env # None
         /\ Migrating(p)'
<1> USE DEF StartupInv, StartupTypeOK, Migrating
<1>0. /\ db[p] \in DbRow
      /\ db[p].is \in {"running", "recording"} => Next1(p) \in db[p].todo /\ Next1(p) \in Migration
  <2>1. db[p] \in DbRow
    BY DEF DbRow
  <2>2. db[p].todo \in SUBSET Migration
    BY <2>1 DEF DbRow
  <2> QED
    BY <2>1, <2>2, FirstExists DEF Next1
<1>7. env # None
  <2>1. env = None => db[p].is = "none"
    BY DEF NothingStarted, NoDb
  <2> QED
    BY <2>1 DEF GetDb, DbFails, ListApplied, ExecFile, RecordFile
<1>1. CASE GetDb(p)
  <2>1. DriverOf(p) \in {"postgres", "pglite", None}
    BY DEF DriverOf, WebDriver, WorkerDriver
  <2>2. PICK is \in {"listing", "pglite", "failed"} :
          db' = [db EXCEPT ![p] = [db[p] EXCEPT !.is = is]] /\ (is = "pglite" => DriverOf(p) = "pglite")
    BY <1>1, <2>1, NoneIsNoChoice DEF GetDb
  <2>3. [db[p] EXCEPT !.is = is] \in DbRow /\ [db[p] EXCEPT !.is = is].is = is
    BY <1>0 DEF DbRow
  <2>4. db'[p].is = is
    BY <2>2, <2>3
  <2>5. db' \in [Process -> DbRow]
    BY <2>2, <2>3 DEF DbRow
  <2> QED
    BY <1>7, <1>1, <2>2, <2>4, <2>5 DEF GetDb, ReadyMeansMigrated
<1>2. CASE DbFails(p)
  <2>1. db' = [db EXCEPT ![p] = [db[p] EXCEPT !.is = "failed"]]
    BY <1>2 DEF DbFails
  <2>2. [db[p] EXCEPT !.is = "failed"] \in DbRow /\ [db[p] EXCEPT !.is = "failed"].is = "failed"
    BY <1>0 DEF DbRow
  <2>3. db'[p].is = "failed"
    BY <2>1, <2>2
  <2>4. db' \in [Process -> DbRow]
    BY <2>1, <2>2 DEF DbRow
  <2> QED
    BY <1>7, <1>2, <2>1, <2>3, <2>4 DEF DbFails, ReadyMeansMigrated
<1> DEFINE After(todo) == [is |-> IF todo = {} THEN "open" ELSE "running", todo |-> todo]
<1>3. \A todo \in SUBSET Migration :
        /\ After(todo) \in DbRow /\ After(todo).todo = todo
        /\ After(todo).is = IF todo = {} THEN "open" ELSE "running"
  BY DEF DbRow
<1>4. CASE ListApplied(p)
  <2> DEFINE todo == Migration \ recorded
  <2>1. db' = [db EXCEPT ![p] = After(todo)]
    BY <1>4 DEF ListApplied, Proceeds
  <2>2. todo \in SUBSET Migration /\ Migration \ todo \subseteq recorded
    OBVIOUS
  <2> HIDE DEF After, todo
  <2>3. db'[p] = After(todo)
    BY <2>1
  <2>4. db' \in [Process -> DbRow]
    BY <1>3, <2>1, <2>2 DEF DbRow
  <2>5. recorded' = recorded /\ executed' = executed
    BY <1>4 DEF ListApplied
  <2>6. /\ recorded' \subseteq executed' /\ executed' \subseteq Migration
        /\ \A q \in Process : q # p => db'[q] = db[q]
    BY <2>1, <2>5 DEF ReadyMeansMigrated
  <2>7. db'[p].is = "open" => recorded' = Migration
    BY <1>3, <2>2, <2>3, <2>5, <2>6
  <2>8. db'[p].is \in {"open", "running"} /\ (db'[p].is = "running" => db'[p].todo = todo /\ todo # {})
    BY <1>3, <2>2, <2>3
  <2> QED
    BY <1>7, <1>4, <2>2, <2>4, <2>5, <2>6, <2>7, <2>8 DEF ListApplied
<1>5. CASE ExecFile(p)
  <2>1. PICK is \in {"recording", "failed"} :
          /\ db' = [db EXCEPT ![p] = [db[p] EXCEPT !.is = is]]
          /\ executed' = IF is = "recording" THEN executed \cup {Next1(p)} ELSE executed
    BY <1>5 DEF ExecFile
  <2>2. /\ [db[p] EXCEPT !.is = is] \in DbRow /\ [db[p] EXCEPT !.is = is].is = is
        /\ [db[p] EXCEPT !.is = is].todo = db[p].todo
    BY <1>0 DEF DbRow
  <2>3. db'[p].is = is /\ db'[p].todo = db[p].todo
    BY <2>1, <2>2
  <2>4. (Next1(p))' = Next1(p)
    BY <2>3 DEF Next1
  <2>5. db' \in [Process -> DbRow]
    BY <2>1, <2>2 DEF DbRow
  <2> QED
    BY <1>7, <1>0, <1>5, <2>1, <2>3, <2>4, <2>5 DEF ExecFile, ReadyMeansMigrated
<1>6. ASSUME RecordFile(p), Next1(p) \notin recorded
      PROVE  /\ db' \in [Process -> DbRow]
             /\ env' = env /\ adapter' = adapter /\ provider' = provider
             /\ executed \subseteq executed' /\ executed' \subseteq Migration
             /\ recorded \subseteq recorded' /\ recorded' \subseteq executed'
             /\ \A q \in Process : q # p => db'[q] = db[q]
             /\ db'[p].is = "open" => recorded' = Migration
             /\ db'[p].is = "pglite" => DriverOf(p) = "pglite"
             /\ Migrating(p)'
  <2> DEFINE todo == db[p].todo \ {Next1(p)}
  <2>1. db' = [db EXCEPT ![p] = After(todo)]
    BY <1>6 DEF RecordFile, Proceeds
  <2>2. todo \in SUBSET Migration /\ Migration \ todo \subseteq recorded' /\ Next1(p) \in executed
    BY <1>0, <1>6 DEF RecordFile, DbRow
  <2> HIDE DEF After, todo
  <2>3. db'[p] = After(todo)
    BY <2>1
  <2>4. db' \in [Process -> DbRow]
    BY <1>3, <2>1, <2>2 DEF DbRow
  <2>5. recorded' = recorded \cup {Next1(p)} /\ executed' = executed /\ recorded' \subseteq Migration
    BY <1>0, <1>6 DEF RecordFile
  <2>6. /\ recorded' \subseteq executed'
        /\ \A q \in Process : q # p => db'[q] = db[q]
    BY <2>1, <2>2, <2>5 DEF ReadyMeansMigrated
  <2>7. db'[p].is = "open" => recorded' = Migration
    BY <1>3, <2>2, <2>3, <2>5
  <2>8. db'[p].is \in {"open", "running"} /\ (db'[p].is = "running" => db'[p].todo = todo /\ todo # {})
    BY <1>3, <2>2, <2>3
  <2> QED
    BY <1>7, <1>6, <2>2, <2>4, <2>5, <2>6, <2>7, <2>8 DEF RecordFile
<1>8. ASSUME RecordFile(p), Next1(p) \in recorded
      PROVE  /\ db' = [db EXCEPT ![p] = [db[p] EXCEPT !.is = "failed"]]
             /\ UNCHANGED <<env, executed, recorded, adapter, provider>>
  BY <1>8 DEF RecordFile
<1>9. CASE RecordFile(p) /\ Next1(p) \in recorded
  <2>1. [db[p] EXCEPT !.is = "failed"] \in DbRow /\ [db[p] EXCEPT !.is = "failed"].is = "failed"
    BY <1>0 DEF DbRow
  <2>2. db'[p].is = "failed"
    BY <1>8, <1>9, <2>1
  <2>3. db' \in [Process -> DbRow]
    BY <1>8, <1>9, <2>1 DEF DbRow
  <2> QED
    BY <1>7, <1>8, <1>9, <2>2, <2>3 DEF ReadyMeansMigrated
<1> QED
  BY <1>1, <1>2, <1>4, <1>5, <1>6, <1>7, <1>9

\* Next1 depends on what its process has left, and on nothing else.
LEMMA MigratesOn ==
  ASSUME StartupInv, NEW q \in Process, db'[q] = db[q], executed \subseteq executed', recorded \subseteq recorded'
  PROVE  Migrating(q)'
<1>1. (Next1(q))' = Next1(q)
  BY DEF Next1
<1>2. Migrating(q)
  BY DEF StartupInv
<1> QED
  BY <1>1, <1>2 DEF Migrating

\* A process's own step on its database keeps the invariant.
LEMMA DbStepsKeep ==
  ASSUME StartupInv, NEW p \in Process,
         GetDb(p) \/ DbFails(p) \/ ListApplied(p) \/ ExecFile(p) \/ RecordFile(p)
  PROVE  StartupInv'
<1>1. /\ db' \in [Process -> DbRow]
      /\ env' = env /\ adapter' = adapter /\ provider' = provider
      /\ executed \subseteq executed' /\ executed' \subseteq Migration
      /\ recorded \subseteq recorded' /\ recorded' \subseteq executed'
      /\ \A q \in Process : q # p => db'[q] = db[q]
      /\ db'[p].is = "open" => recorded' = Migration
      /\ db'[p].is = "pglite" => DriverOf(p) = "pglite"
      /\ env # None
      /\ Migrating(p)'
  BY DbSteps
<1>2. StartupTypeOK'
  BY <1>1 DEF StartupInv, StartupTypeOK, DbRow
<1>3. \A q \in Process : Migrating(q)'
  <2> SUFFICES ASSUME NEW q \in Process
               PROVE  Migrating(q)'
    OBVIOUS
  <2>1. CASE q = p
    BY <1>1, <2>1
  <2>2. CASE q # p
    BY <1>1, <2>2, MigratesOn
  <2> QED
    BY <2>1, <2>2
<1>4. NothingStarted'
  BY <1>1 DEF NothingStarted
<1>5. \A q \in Process : db'[q].is = "open" => recorded' = Migration
  BY <1>1 DEF StartupInv, ReadyMeansMigrated
<1>6. \A q \in Web : env' # None /\ env'.node = "production" => db'[q].is # "pglite" /\ provider'[q] # "fake"
  <2> SUFFICES ASSUME NEW q \in Web, env.node = "production"
               PROVE  db'[q].is # "pglite" /\ provider[q] # "fake"
    BY <1>1
  <2>1. db[q].is # "pglite" /\ provider[q] # "fake" /\ q \in Process
    BY <1>1 DEF StartupInv, ReadyMeansMigrated, Process
  <2>2. DriverOf(q) # "pglite"
    BY NoneIsNoChoice DEF DriverOf, WebDriver
  <2> QED
    BY <1>1, <2>1, <2>2
<1>7. ReadyMeansMigrated'
  BY <1>1, <1>5, <1>6 DEF StartupInv, ReadyMeansMigrated
<1> QED
  BY <1>2, <1>3, <1>4, <1>7 DEF StartupInv

\* Whatever leaves every migrating process alone or takes its database away keeps the migrations.
LEMMA OthersKeepMigrating ==
  ASSUME StartupInv, db' \in [Process -> DbRow], executed' = executed, recorded' = recorded,
         \A q \in Process : db'[q] = db[q] \/ db'[q] = NoDb
  PROVE  /\ \A q \in Process : Migrating(q)'
         /\ \A q \in Process : db'[q].is = "open" => recorded' = Migration
         /\ recorded' \subseteq executed'
<1>1. ASSUME NEW q \in Process
      PROVE  Migrating(q)'
  <2>1. CASE db'[q] = db[q]
    BY <2>1, MigratesOn
  <2>2. CASE db'[q] = NoDb
    BY <2>2 DEF Migrating, NoDb
  <2> QED
    BY <2>1, <2>2
<1> QED
  BY <1>1 DEF StartupInv, ReadyMeansMigrated, NoDb

\* The invariant of start-up: in every environment, over any number of processes and migrations.
THEOREM StartupInvariant == StartupSpec => []StartupInv
<1>1. StartupInit => StartupInv
  <2> SUFFICES ASSUME StartupInit
               PROVE  StartupInv
    OBVIOUS
  <2>1. /\ env = None /\ executed = {} /\ recorded = {}
        /\ \A p \in Process : db[p] = NoDb /\ adapter[p] = None /\ provider[p] = None
    BY DEF StartupInit
  <2>2. StartupTypeOK
    BY DEF StartupInit, StartupTypeOK, NoDb
  <2>3. NoDb.is = "none"
    BY DEF NoDb
  <2>4. \A p \in Process : Migrating(p)
    BY <2>1, <2>3 DEF Migrating
  <2>5. ReadyMeansMigrated
    BY <2>1, <2>3 DEF ReadyMeansMigrated
  <2> QED
    BY <2>1, <2>2, <2>4, <2>5 DEF StartupInv, NothingStarted
<1>2. StartupInv /\ [StartupNext]_startVars => StartupInv'
  <2> SUFFICES ASSUME StartupInv, [StartupNext]_startVars
               PROVE  StartupInv'
    OBVIOUS
  <2> USE DEF StartupInv, StartupTypeOK
  <2>0. db \in [Process -> DbRow]
    BY DEF DbRow
  <2>1. ASSUME NEW e \in Deployment, Deploy(e)
        PROVE  StartupInv'
    <3>1. env' \in Environment /\ env = None /\ \A p \in Process : db'[p] = db[p]
      BY <2>1, DeploymentAssumption DEF Deploy
    <3>2. /\ \A q \in Process : Migrating(q)'
          /\ \A q \in Process : db'[q].is = "open" => recorded' = Migration
          /\ recorded' \subseteq executed'
      BY <2>0, <2>1, <3>1, OthersKeepMigrating DEF Deploy
    <3>3. \A p \in Process : db'[p].is = "none" /\ adapter'[p] = None /\ provider'[p] = None
      BY <2>1, <3>1 DEF Deploy, NothingStarted, NoDb
    <3>4. ReadyMeansMigrated'
      BY <3>2, <3>3, NoneIsNoChoice DEF ReadyMeansMigrated, Process
    <3>5. NothingStarted'
      BY <2>1, <3>3 DEF Deploy, NothingStarted
    <3> QED
      BY <2>1, <3>1, <3>2, <3>4, <3>5 DEF Deploy
  <2>2. ASSUME NEW p \in Process, GetDb(p) \/ DbFails(p) \/ ListApplied(p) \/ ExecFile(p) \/ RecordFile(p)
        PROVE  StartupInv'
    BY <2>2, DbStepsKeep
  <2>3. ASSUME NEW p \in Process, GetKms(p)
        PROVE  StartupInv'
    <3>1. PICK kms \in {"local", "aws"} :
            /\ adapter' = [adapter EXCEPT ![p] = IF p \in Worker /\ Refused(kms) THEN None ELSE kms]
      BY <2>3 DEF GetKms, BuiltAdapter
    <3>2. env # None /\ env' = env /\ db' = db /\ provider' = provider /\ executed' = executed
            /\ recorded' = recorded
      BY <2>3 DEF GetKms
    <3>3. adapter' \in [Process -> {"local", "aws", None}]
      BY <3>1
    <3>4. \A q \in Worker : env.node = "production" => adapter'[q] # "local"
      BY <3>1, <3>2, NoneIsNoChoice DEF Refused, ReadyMeansMigrated, Process
    <3>5. \A q \in Process : Migrating(q)'
      BY <2>0, <3>2, OthersKeepMigrating
    <3>6. ReadyMeansMigrated'
      BY <3>2, <3>4 DEF ReadyMeansMigrated
    <3> QED
      BY <3>2, <3>3, <3>5, <3>6 DEF NothingStarted
  <2>4. ASSUME NEW p \in Process, GetProvider(p)
        PROVE  StartupInv'
    <3>1. PICK kind \in {"verify-core", "fake"} :
            provider' = [provider EXCEPT ![p] = kind] /\ (kind = "fake" => env.node # "production")
      BY <2>4 DEF GetProvider
    <3>2. env # None /\ env' = env /\ db' = db /\ adapter' = adapter /\ executed' = executed
            /\ recorded' = recorded
      BY <2>4 DEF GetProvider
    <3>3. provider' \in [Process -> {"verify-core", "fake", None}]
      BY <3>1
    <3>4. \A q \in Web : env.node = "production" => provider'[q] # "fake"
      BY <3>1, <3>2 DEF ReadyMeansMigrated, Process
    <3>5. \A q \in Process : Migrating(q)'
      BY <2>0, <3>2, OthersKeepMigrating
    <3>6. ReadyMeansMigrated'
      BY <3>2, <3>4 DEF ReadyMeansMigrated
    <3> QED
      BY <3>2, <3>3, <3>5, <3>6 DEF NothingStarted
  <2>5. ASSUME NEW p \in Process, Restart(p)
        PROVE  StartupInv'
    <3>1. NoDb \in DbRow /\ NoDb.is = "none"
      BY DEF NoDb, DbRow
    <3>2. /\ db' \in [Process -> DbRow]
          /\ adapter' \in [Process -> {"local", "aws", None}]
          /\ provider' \in [Process -> {"verify-core", "fake", None}]
      BY <2>0, <2>5, <3>1 DEF Restart
    <3>3. \A q \in Process : /\ db'[q] \in {db[q], NoDb}
                             /\ adapter'[q] \in {adapter[q], None}
                             /\ provider'[q] \in {provider[q], None}
      BY <2>5 DEF Restart
    <3>4. /\ \A q \in Process : Migrating(q)'
          /\ \A q \in Process : db'[q].is = "open" => recorded' = Migration
          /\ recorded' \subseteq executed'
      BY <2>0, <2>5, <3>2, <3>3, OthersKeepMigrating DEF Restart
    <3>5. env' = env /\ executed' = executed /\ recorded' = recorded
      BY <2>5 DEF Restart
    <3>6. ReadyMeansMigrated'
      BY <3>1, <3>3, <3>4, <3>5, NoneIsNoChoice DEF ReadyMeansMigrated, Process
    <3>7. NothingStarted'
      BY <3>3, <3>5 DEF NothingStarted
    <3>8. StartupTypeOK'
      BY <3>2, <3>5 DEF DbRow
    <3> QED
      BY <3>4, <3>6, <3>7, <3>8
  <2>6. CASE UNCHANGED startVars
    <3>1. /\ env' = env /\ executed' = executed /\ recorded' = recorded /\ db' = db
          /\ adapter' = adapter /\ provider' = provider
      BY <2>6 DEF startVars
    <3>2. \A q \in Process : Migrating(q)'
      BY <2>0, <3>1, OthersKeepMigrating
    <3> QED
      BY <3>1, <3>2 DEF ReadyMeansMigrated, NothingStarted
  <2> QED
    BY <2>1, <2>2, <2>3, <2>4, <2>5, <2>6 DEF StartupNext
<1> QED
  BY <1>1, <1>2, PTL DEF StartupSpec

\* A process whose database has opened finds every migration executed and recorded, whichever
\* files can be executed again; in production the site opens neither PGlite nor the fake
\* provider, and no worker keeps the KMS adapter for local keys (server/runtime.ts,
\* db/migrate.ts, api/http.ts, security/kms.ts).
THEOREM OpenedMeansMigrated == StartupSpec => []ReadyMeansMigrated
<1>1. StartupInv => ReadyMeansMigrated
  BY DEF StartupInv
<1> QED
  BY <1>1, StartupInvariant, PTL

-----------------------------------------------------------------------------
(* New secrets and idempotent requests (ApiAccess).                         *)

\* The organisation a secret was made for, None before it is made.
Maker(s) == IF s \in Key THEN IF apiKeys[s] = None THEN None ELSE apiKeys[s].team ELSE hooks[s]

\* A secret no page has burnt is one no page has shown; its row, once it has one, hangs on a key
\* of the organisation it was made for.
Unburnt(s) ==
  /\ flash[s] # "gone" => \A team \in Team : views[<<s, team>>] = 0
  /\ Maker(s) = None <=> flash[s] = "unknown"
  /\ flash[s] \in Key => apiKeys[flash[s]] # None /\ apiKeys[flash[s]].team = Maker(s)

Shown(s) == \A team \in Team : views[<<s, team>>] # 0 => views[<<s, team>>] = 1 /\ team = Maker(s)

SecretTypes ==
  /\ apiKeys \in [Key -> KeyRow \cup {None}]
  /\ hooks \in [Hook -> Team \cup {None}]
  /\ flash \in [Secret -> {"unknown", "minted", "gone"} \cup Key]
  /\ views \in [Secret \X Team -> Nat]

SecretInv == SecretTypes /\ \A s \in Secret : Unburnt(s) /\ Shown(s)

\* A key keeps its organisation for good, revoked or not.
KeysKeepTheirTeam ==
  \A k \in Key : apiKeys[k] # None => apiKeys'[k] # None /\ apiKeys'[k].team = apiKeys[k].team

\* A secret nobody touches stays what it is while other keys are made and revoked.
LEMMA UntouchedStays ==
  ASSUME KeysKeepTheirTeam, NEW s \in Secret, Unburnt(s), Shown(s),
         flash'[s] = flash[s], \A team \in Team : views'[<<s, team>>] = views[<<s, team>>],
         Maker(s)' = Maker(s)
  PROVE  Unburnt(s)' /\ Shown(s)'
  BY DEF Unburnt, Shown, KeysKeepTheirTeam

\* Making, revoking, flashing and showing secrets keeps them shown once.
LEMMA SecretsStay ==
  ASSUME SecretInv, ApiNext
  PROVE  SecretInv'
<1> USE DEF SecretInv, SecretTypes
<1>0. /\ \A k \in Key : k \in Secret /\ k \notin Hook /\ k \notin {"unknown", "minted", "gone"}
      /\ \A w \in Hook : w \in Secret /\ w \notin Key /\ w \notin {"unknown", "minted", "gone"}
      /\ None \notin KeyRow /\ None \notin Team
  BY SecretAssumption, NoneIsNoApiRow DEF Secret
<1>a. \A k \in Key : apiKeys[k] # None => apiKeys[k] \in KeyRow /\ apiKeys[k].team \in Team
  BY DEF KeyRow
<1>1. ASSUME NEW k \in Key, NEW team \in Team, NEW scopes \in Grant, CreateApiKey(k, team, scopes)
      PROVE  SecretInv'
  <2> DEFINE row == [team |-> team, scopes |-> scopes, live |-> TRUE]
  <2>0. scopes \in SUBSET API_SCOPES
    BY RouteAssumption
  <2>1. row \in KeyRow /\ row.team = team
    BY <2>0 DEF KeyRow
  <2> HIDE DEF row
  <2>2. /\ row # None /\ apiKeys[k] = None /\ apiKeys' = [apiKeys EXCEPT ![k] = row]
        /\ flash' = [flash EXCEPT ![k] = "minted"] /\ hooks' = hooks /\ views' = views
    BY <1>0, <1>1, <2>1 DEF CreateApiKey, row
  <2>3. SecretTypes'
    BY <1>0, <2>1, <2>2
  <2>4. KeysKeepTheirTeam
    BY <2>2 DEF KeysKeepTheirTeam
  <2>5. Unburnt(k)' /\ Shown(k)'
    <3>1. Maker(k) = None /\ Maker(k)' = team /\ flash'[k] = "minted"
      BY <1>0, <2>1, <2>2 DEF Maker
    <3>2. \A t \in Team : views'[<<k, t>>] = 0
      BY <1>0, <2>2, <3>1 DEF Unburnt
    <3> QED
      BY <1>0, <3>1, <3>2 DEF Unburnt, Shown
  <2>6. ASSUME NEW s \in Secret, s # k
        PROVE  Unburnt(s)' /\ Shown(s)'
    BY <2>2, <2>4, <2>6, UntouchedStays DEF Maker
  <2> QED
    BY <2>3, <2>5, <2>6
<1>2. ASSUME NEW k \in Key, RevokeApiKey(k)
      PROVE  SecretInv'
  <2> DEFINE row == [apiKeys[k] EXCEPT !.live = FALSE]
  <2>1. apiKeys[k] \in KeyRow /\ apiKeys[k] # None
    BY <1>2 DEF RevokeApiKey
  <2>2. row \in KeyRow /\ row.team = apiKeys[k].team /\ row # None
    BY <1>0, <2>1 DEF KeyRow
  <2> HIDE DEF row
  <2>3. apiKeys' = [apiKeys EXCEPT ![k] = row] /\ flash' = flash /\ hooks' = hooks /\ views' = views
    BY <1>2 DEF RevokeApiKey, row
  <2>4. SecretTypes'
    BY <1>0, <2>2, <2>3
  <2>5. KeysKeepTheirTeam
    BY <2>2, <2>3 DEF KeysKeepTheirTeam
  <2>6. ASSUME NEW s \in Secret
        PROVE  Unburnt(s)' /\ Shown(s)'
    <3>1. Maker(s)' = Maker(s)
      BY <2>1, <2>2, <2>3 DEF Maker
    <3> QED
      BY <2>3, <2>5, <3>1, UntouchedStays
  <2> QED
    BY <2>4, <2>6
<1>3. ASSUME NEW x \in Secret, NEW new \in {"gone"} \cup Key, flash[x] = "minted",
             flash' = [flash EXCEPT ![x] = new], apiKeys' = apiKeys, hooks' = hooks, views' = views,
             new \in Key => apiKeys[new] # None /\ apiKeys[new].team = Maker(x)
      PROVE  SecretInv'
  <2>1. SecretTypes'
    BY <1>3
  <2>2. KeysKeepTheirTeam /\ \A s \in Secret : Maker(s)' = Maker(s)
    BY <1>3 DEF KeysKeepTheirTeam, Maker
  <2>3. Unburnt(x)' /\ Shown(x)'
    <3>1. (\A t \in Team : views[<<x, t>>] = 0) /\ Maker(x) # None
      BY <1>3 DEF Unburnt
    <3> QED
      BY <1>0, <1>3, <2>2, <3>1 DEF Unburnt, Shown
  <2>4. ASSUME NEW s \in Secret, s # x
        PROVE  Unburnt(s)' /\ Shown(s)'
    BY <1>3, <2>2, <2>4, UntouchedStays
  <2> QED
    BY <2>1, <2>3, <2>4
<1>4. ASSUME NEW k \in Key, FlashKey(k)
      PROVE  SecretInv'
  <2>1. Maker(k) # None
    BY <1>0, <1>4 DEF FlashKey, Unburnt
  <2>2. apiKeys[k] # None /\ apiKeys[k].team = Maker(k)
    BY <2>1 DEF Maker
  <2> QED
    BY <1>0, <1>3, <1>4, <2>2 DEF FlashKey
<1>5. ASSUME NEW w \in Hook, FlashHook(w)
      PROVE  SecretInv'
  <2>1. Maker(w) = hooks[w]
    BY <1>0 DEF Maker
  <2>2. PICK new \in {"gone"} \cup Key :
          flash' = [flash EXCEPT ![w] = new] /\ (new \in Key => new \in KeysOf(hooks[w]))
    BY <1>0, <1>5 DEF FlashHook, KeysOf
  <2>3. new \in Key => apiKeys[new] # None /\ apiKeys[new].team = Maker(w)
    BY <2>1, <2>2 DEF KeysOf
  <2> QED
    BY <1>0, <1>3, <1>5, <2>2, <2>3 DEF FlashHook
<1>6. ASSUME NEW w \in Hook, NEW team \in Team, CreateWebhookEndpoint(w, team)
      PROVE  SecretInv'
  <2>1. /\ hooks[w] = None /\ hooks' = [hooks EXCEPT ![w] = team]
        /\ flash' = [flash EXCEPT ![w] = "minted"] /\ apiKeys' = apiKeys /\ views' = views
    BY <1>6 DEF CreateWebhookEndpoint
  <2>2. SecretTypes'
    BY <1>0, <2>1
  <2>3. KeysKeepTheirTeam
    BY <2>1 DEF KeysKeepTheirTeam
  <2>4. Unburnt(w)' /\ Shown(w)'
    <3>1. Maker(w) = None /\ Maker(w)' = team /\ flash'[w] = "minted"
      BY <1>0, <2>1 DEF Maker
    <3>2. \A t \in Team : views'[<<w, t>>] = 0
      BY <1>0, <2>1, <3>1 DEF Unburnt
    <3> QED
      BY <1>0, <3>1, <3>2 DEF Unburnt, Shown
  <2>5. ASSUME NEW s \in Secret, s # w
        PROVE  Unburnt(s)' /\ Shown(s)'
    <3>1. Maker(s)' = Maker(s)
      BY <2>1, <2>5 DEF Maker, Secret
    <3> QED
      BY <2>1, <2>3, <2>5, <3>1, UntouchedStays
  <2> QED
    BY <2>2, <2>4, <2>5
<1>7. ASSUME NEW team \in Team, ShowProjects(team)
      PROVE  SecretInv'
  <2>1. apiKeys' = apiKeys /\ hooks' = hooks
    BY <1>7 DEF ShowProjects
  <2>2. KeysKeepTheirTeam /\ \A s \in Secret : Maker(s)' = Maker(s)
    BY <2>1 DEF KeysKeepTheirTeam, Maker
  <2>3. \A s \in Secret : flash'[s] = IF s \in Waiting(team) THEN "gone" ELSE flash[s]
    BY <1>7 DEF ShowProjects
  <2>4. \A s \in Secret, t \in Team :
          views'[<<s, t>>] = IF s \in Waiting(team) /\ t = team THEN views[<<s, t>>] + 1 ELSE views[<<s, t>>]
    BY <1>7 DEF ShowProjects
  <2>5. SecretTypes'
    BY <1>7, <2>1 DEF ShowProjects
  <2>6. ASSUME NEW s \in Secret, s \notin Waiting(team)
        PROVE  Unburnt(s)' /\ Shown(s)'
    BY <2>2, <2>3, <2>4, <2>6, UntouchedStays
  <2>7. ASSUME NEW s \in Secret, s \in Waiting(team)
        PROVE  Unburnt(s)' /\ Shown(s)'
    <3>1. flash[s] \in Key /\ apiKeys[flash[s]] # None /\ apiKeys[flash[s]].team = team
      BY <2>7 DEF Waiting, KeysOf
    <3>2. Maker(s) = team /\ Maker(s) # None /\ \A t \in Team : views[<<s, t>>] = 0
      BY <1>0, <3>1 DEF Unburnt
    <3>3. flash'[s] = "gone"
      BY <2>3, <2>7
    <3>4. \A t \in Team : views'[<<s, t>>] = IF t = team THEN 1 ELSE 0
      BY <2>4, <2>7, <3>2
    <3> QED
      BY <1>0, <2>2, <3>2, <3>3, <3>4 DEF Unburnt, Shown
  <2> QED
    BY <2>5, <2>6, <2>7
<1>8. ASSUME UNCHANGED <<apiKeys, hooks, flash, views>>
      PROVE  SecretInv'
  BY <1>8 DEF Unburnt, Shown, Maker
<1>9. ASSUME NEW q \in Request, RequestStep(q)
      PROVE  UNCHANGED <<apiKeys, hooks, flash, views>>
  BY <1>9 DEF RequestStep, Lookup, RunHandler, StoreResponse, Receive
<1>10. ASSUME NEW k \in Key, NEW r \in RouteUsed, NEW i \in IdemKey, PurgeRecords(k, r, i)
       PROVE  UNCHANGED <<apiKeys, hooks, flash, views>>
  BY <1>10 DEF PurgeRecords
<1> QED
  BY <1>1, <1>2, <1>4, <1>5, <1>6, <1>7, <1>8, <1>9, <1>10 DEF ApiNext, KeyStep

RequestTypes ==
  /\ records \in [Key \X RouteUsed \X IdemKey -> Record \cup {None}]
  /\ tokens \subseteq Body
  /\ requests \in [Request -> InFlight \cup {NotSent}]

\* A request that has not looked its key up yet still finds the record it came in to; one that
\* runs the handler came in to none; one that is done replayed what it came in to.
LooksUp(q) ==
  /\ requests[q].pc \in {"lookup", "store"} => requests[q].idem # None
  /\ requests[q].pc = "lookup" /\ requests[q].found # None => RecordOf(q) = requests[q].found
  /\ requests[q].pc \in {"run", "store"} => requests[q].found = None
  /\ requests[q].pc = "done" /\ requests[q].found # None =>
       requests[q].answer = IF requests[q].found.body = requests[q].body
                            THEN requests[q].found.response ELSE "conflict"

\* A record is the answer one request with its key, route and body was given.
Answered(k, r, i) ==
  records[<<k, r, i>>] # None =>
    LET first == requests[records[<<k, r, i>>].response] IN
    /\ first.pc = "done" /\ first.answer = records[<<k, r, i>>].response
    /\ first.key = k /\ first.route = r /\ first.idem = i
    /\ first.body = records[<<k, r, i>>].body

RequestInv ==
  /\ RequestTypes
  /\ \A q \in Request : LooksUp(q)
  /\ \A k \in Key, r \in RouteUsed, i \in IdemKey : Answered(k, r, i)

\* The fields of a request in flight, and of a record.
LEMMA RequestFields ==
  /\ \A x \in InFlight : /\ x.key \in Key /\ x.route \in RouteUsed /\ x.idem \in IdemKey \cup {None}
                         /\ x.body \in Body /\ x.found \in Record \cup {None}
                         /\ x.pc \in {"lookup", "run", "store", "done"}
  /\ \A x \in Record : x.body \in Body /\ x.response \in Request
  /\ \A x \in InFlight \cup {NotSent} : x.pc \in {"lookup", "run", "store", "done"} => x \in InFlight
  /\ NotSent.pc # "done"
<1>1. NotSent.pc = "idle"
  BY DEF NotSent
<1>2. \A x \in Record : x.body \in Body /\ x.response \in Request
  BY DEF Record
<1>3. \A x \in InFlight : /\ x.key \in Key /\ x.route \in RouteUsed /\ x.idem \in IdemKey \cup {None}
                         /\ x.body \in Body /\ x.found \in Record \cup {None}
                         /\ x.pc \in {"lookup", "run", "store", "done"}
  BY DEF InFlight
<1> QED
  BY <1>1, <1>2, <1>3

\* Answers are final: a step that takes no answer back and keeps the records leaves both alone.
LEMMA RequestsStay ==
  ASSUME RequestInv, NEW q \in Request, requests' \in [Request -> InFlight \cup {NotSent}],
         requests[q].pc # "done", \A p \in Request : p # q => requests'[p] = requests[p],
         \A k \in Key, r \in RouteUsed, i \in IdemKey : records[<<k, r, i>>] # None =>
           records'[<<k, r, i>>] = records[<<k, r, i>>]
  PROVE  /\ \A p \in Request : p # q => LooksUp(p)'
         /\ \A k \in Key, r \in RouteUsed, i \in IdemKey :
              records[<<k, r, i>>] # None => Answered(k, r, i)'
<1> USE DEF RequestInv, RequestTypes
<1>1. ASSUME NEW p \in Request, p # q
      PROVE  LooksUp(p)'
  <2>1. requests'[p] = requests[p] /\ LooksUp(p)
    BY <1>1
  <2>2. ASSUME requests[p].pc = "lookup", requests[p].found # None
        PROVE  RecordOf(p)' = requests[p].found
    <3>1. requests[p] \in InFlight /\ requests[p].idem # None /\ RecordOf(p) = requests[p].found
      BY <2>1, <2>2, RequestFields DEF LooksUp
    <3>2. requests[p].key \in Key /\ requests[p].route \in RouteUsed /\ requests[p].idem \in IdemKey
      BY <3>1, RequestFields
    <3> QED
      BY <2>1, <2>2, <3>1, <3>2 DEF RecordOf
  <2> QED
    BY <2>1, <2>2 DEF LooksUp
<1>2. ASSUME NEW k \in Key, NEW r \in RouteUsed, NEW i \in IdemKey, records[<<k, r, i>>] # None
      PROVE  Answered(k, r, i)'
  <2>1. records[<<k, r, i>>] \in Record /\ Answered(k, r, i)
    BY <1>2
  <2>2. PICK first \in Request : first = records[<<k, r, i>>].response
    BY <2>1, RequestFields
  <2>3. requests[first].pc = "done" /\ requests'[first] = requests[first]
    BY <1>2, <2>1, <2>2 DEF Answered
  <2> QED
    BY <1>2, <2>1, <2>2, <2>3 DEF Answered
<1> QED
  BY <1>1, <1>2

\* Coming in, looking up, running, storing and purging keep the records' promise.
LEMMA RequestsReplay ==
  ASSUME RequestInv, ApiNext
  PROVE  RequestInv'
<1> USE DEF RequestInv, RequestTypes
<1>1. ASSUME NEW q \in Request, NEW x \in InFlight, requests[q].pc # "done",
             requests' = [requests EXCEPT ![q] = x], records' = records, tokens' \subseteq Body,
             LooksUp(q)'
      PROVE  RequestInv'
  <2>1. requests' \in [Request -> InFlight \cup {NotSent}] /\ \A p \in Request : p # q => requests'[p] = requests[p]
    BY <1>1
  <2>2. /\ \A p \in Request : p # q => LooksUp(p)'
        /\ \A k \in Key, r \in RouteUsed, i \in IdemKey :
             records[<<k, r, i>>] # None => Answered(k, r, i)'
    BY <1>1, <2>1, RequestsStay
  <2>3. \A k \in Key, r \in RouteUsed, i \in IdemKey : Answered(k, r, i)'
    BY <1>1, <2>2 DEF Answered
  <2> QED
    BY <1>1, <2>1, <2>2, <2>3
<1>2. ASSUME NEW q \in Request, NEW k \in Key, NEW r \in RouteUsed, NEW i \in IdemKey \cup {None},
             NEW b \in Body, Receive(q, k, r, i, b)
      PROVE  RequestInv'
  <2> DEFINE pc == IF i = None THEN "run" ELSE "lookup"
             found == IF i = None THEN None ELSE records[<<k, r, i>>]
             x == [pc |-> pc, key |-> k, route |-> r, idem |-> i, body |-> b, found |-> found,
                   answer |-> None]
  <2>1. pc \in {"lookup", "run"} /\ found \in Record \cup {None}
    OBVIOUS
  <2>2. requests' = [requests EXCEPT ![q] = x] /\ records' = records /\ tokens' = tokens
    BY <1>2 DEF Receive
  <2>3. (pc = "run" => i = None /\ found = None) /\ (pc = "lookup" => i # None /\ found = records[<<k, r, i>>])
    OBVIOUS
  <2> HIDE DEF pc, found
  <2>4. x \in InFlight
    BY <2>1 DEF InFlight
  <2>5. x.pc = pc /\ x.found = found /\ x.key = k /\ x.route = r /\ x.idem = i
    OBVIOUS
  <2> HIDE DEF x
  <2>6. requests'[q] = x
    BY <2>2
  <2>7. LooksUp(q)'
    BY <2>1, <2>2, <2>3, <2>5, <2>6 DEF LooksUp, RecordOf
  <2>8. requests[q].pc # "done"
    BY <1>2, RequestFields DEF Receive
  <2> QED
    BY <1>1, <2>2, <2>4, <2>7, <2>8
<1>3. ASSUME NEW q \in Request, NEW answer \in Response, requests[q].pc \in {"lookup", "run"},
             Answers(q, answer), records' = records, tokens' \subseteq Body,
             requests[q].found # None => answer = IF requests[q].found.body = requests[q].body
                                                  THEN requests[q].found.response ELSE "conflict"
      PROVE  RequestInv'
  <2> DEFINE x == [requests[q] EXCEPT !.pc = "done", !.answer = answer]
  <2>1. requests' = [requests EXCEPT ![q] = x]
    BY <1>3 DEF Answers
  <2>2. requests[q] \in InFlight
    BY <1>3, RequestFields
  <2>3. x \in InFlight /\ x.pc = "done" /\ x.answer = answer /\ x.body = requests[q].body /\ x.found = requests[q].found
    BY <2>2 DEF InFlight
  <2> HIDE DEF x
  <2>4. LooksUp(q)'
    BY <1>3, <2>1, <2>3 DEF LooksUp
  <2> QED
    BY <1>1, <1>3, <2>1, <2>3, <2>4
<1>4. ASSUME NEW q \in Request, NEW pc \in {"run", "store"}, requests[q].pc \in {"lookup", "run"},
             requests' = [requests EXCEPT ![q].pc = pc], records' = records, tokens' \subseteq Body,
             requests[q].found = None, pc = "store" => requests[q].idem # None
      PROVE  RequestInv'
  <2> DEFINE x == [requests[q] EXCEPT !.pc = pc]
  <2>1. requests' = [requests EXCEPT ![q] = x]
    BY <1>4
  <2>2. requests[q] \in InFlight
    BY <1>4, RequestFields
  <2>3. x \in InFlight /\ x.pc = pc /\ x.idem = requests[q].idem /\ x.found = requests[q].found
    BY <2>2 DEF InFlight
  <2> HIDE DEF x
  <2>4. LooksUp(q)'
    BY <1>4, <2>1, <2>3 DEF LooksUp
  <2> QED
    BY <1>1, <1>4, <2>1, <2>3, <2>4
<1>5. ASSUME NEW q \in Request, Lookup(q)
      PROVE  RequestInv'
  <2>1. requests[q] \in InFlight /\ requests[q].idem # None /\ records' = records /\ tokens' = tokens
    BY <1>5, RequestFields DEF Lookup, LooksUp
  <2>2. RecordOf(q) \in Record \cup {None}
    BY <2>1, RequestFields DEF RecordOf
  <2>3. requests[q].found # None => RecordOf(q) = requests[q].found
    BY <1>5 DEF Lookup, LooksUp
  <2>4. CASE RecordOf(q) = None
    BY <1>4, <1>5, <2>1, <2>3, <2>4 DEF Lookup
  <2>5. CASE RecordOf(q) # None /\ RecordOf(q).body = requests[q].body
    <3>1. Answers(q, RecordOf(q).response)
      BY <1>5, <2>5 DEF Lookup
    <3>2. RecordOf(q).response \in Response
      BY <2>2, <2>5, RequestFields DEF Response
    <3> QED
      BY <1>3, <1>5, <2>1, <2>3, <2>5, <3>1, <3>2 DEF Lookup
  <2>6. CASE RecordOf(q) # None /\ RecordOf(q).body # requests[q].body
    <3>1. Answers(q, "conflict") /\ "conflict" \in Response
      BY <1>5, <2>6 DEF Lookup, Response
    <3> QED
      BY <1>3, <1>5, <2>1, <2>3, <2>6, <3>1 DEF Lookup
  <2> QED
    BY <2>4, <2>5, <2>6
<1>6. ASSUME NEW q \in Request, RunHandler(q)
      PROVE  RequestInv'
  <2>1. requests[q] \in InFlight /\ requests[q].found = None /\ requests[q].body \in Body /\ records' = records
    BY <1>6, RequestFields DEF RunHandler, LooksUp
  <2>2. tokens' \subseteq Body
    BY <1>6, <2>1 DEF RunHandler
  <2>3. q \in Response /\ "error" \in Response
    BY DEF Response
  <2>4. \/ Answers(q, q) \/ Answers(q, "error")
        \/ requests[q].idem # None /\ requests' = [requests EXCEPT ![q].pc = "store"]
    BY <1>6 DEF RunHandler
  <2>5. requests[q].pc = "run"
    BY <1>6 DEF RunHandler
  <2> QED
    BY <1>3, <1>4, <2>1, <2>2, <2>3, <2>4, <2>5
<1>7. ASSUME NEW q \in Request, StoreResponse(q)
      PROVE  RequestInv'
  <2> DEFINE x == [requests[q] EXCEPT !.pc = "done", !.answer = q]
             slot == <<requests[q].key, requests[q].route, requests[q].idem>>
             row == [body |-> requests[q].body, response |-> q]
  <2>1. /\ requests[q] \in InFlight /\ requests[q].idem # None /\ requests[q].found = None
        /\ requests[q].pc = "store" /\ q \in Response
    BY <1>7, RequestFields DEF StoreResponse, LooksUp, Response
  <2>2. requests[q].key \in Key /\ requests[q].route \in RouteUsed /\ requests[q].idem \in IdemKey
          /\ requests[q].body \in Body
    BY <2>1, RequestFields
  <2>3. requests' = [requests EXCEPT ![q] = x] /\ tokens' = tokens
          /\ records' = [records EXCEPT ![slot] = IF records[slot] = None THEN row ELSE records[slot]]
    BY <1>7 DEF StoreResponse, Answers
  <2>4. /\ x \in InFlight /\ x.pc = "done" /\ x.answer = q /\ x.body = requests[q].body
        /\ x.found = None /\ x.key = requests[q].key /\ x.route = requests[q].route
        /\ x.idem = requests[q].idem
    BY <2>1 DEF InFlight
  <2>5. row \in Record /\ row.body = requests[q].body /\ row.response = q
    BY <2>2 DEF Record
  <2>6. slot \in Key \X RouteUsed \X IdemKey
    BY <2>2
  <2> HIDE DEF x, row
  <2>7. /\ requests' \in [Request -> InFlight \cup {NotSent}] /\ requests'[q] = x
        /\ \A p \in Request : p # q => requests'[p] = requests[p]
    BY <2>3, <2>4
  <2>8. /\ records' \in [Key \X RouteUsed \X IdemKey -> Record \cup {None}]
        /\ \A k \in Key, r \in RouteUsed, i \in IdemKey :
             records'[<<k, r, i>>] = IF <<k, r, i>> = slot /\ records[slot] = None THEN row ELSE records[<<k, r, i>>]
    <3> HIDE DEF slot
    <3> QED
      BY <2>3, <2>5, <2>6
  <2>9. /\ \A p \in Request : p # q => LooksUp(p)'
        /\ \A k \in Key, r \in RouteUsed, i \in IdemKey :
             records[<<k, r, i>>] # None => Answered(k, r, i)'
    <3>1. \A k \in Key, r \in RouteUsed, i \in IdemKey : records[<<k, r, i>>] # None =>
            records'[<<k, r, i>>] = records[<<k, r, i>>]
      BY <2>8
    <3> QED
      BY <2>1, <2>7, <3>1, RequestsStay
  <2>10. LooksUp(q)'
    BY <2>4, <2>7 DEF LooksUp
  <2>11. ASSUME NEW k \in Key, NEW r \in RouteUsed, NEW i \in IdemKey, records[<<k, r, i>>] = None
         PROVE  Answered(k, r, i)'
    <3>1. CASE <<k, r, i>> = slot
      <4>1. records'[<<k, r, i>>] = row /\ k = requests[q].key /\ r = requests[q].route /\ i = requests[q].idem
        BY <2>8, <2>11, <3>1
      <4> QED
        BY <2>4, <2>5, <2>7, <4>1 DEF Answered
    <3>2. CASE <<k, r, i>> # slot
      BY <2>8, <2>11, <3>2 DEF Answered
    <3> QED
      BY <3>1, <3>2
  <2> QED
    BY <2>3, <2>7, <2>8, <2>9, <2>10, <2>11
<1>8. ASSUME NEW k \in Key, NEW r \in RouteUsed, NEW i \in IdemKey, PurgeRecords(k, r, i)
      PROVE  RequestInv'
  <2> DEFINE At(q) == requests[q].pc \in {"lookup", "run", "store"}
                        /\ <<requests[q].key, requests[q].route, requests[q].idem>> = <<k, r, i>>
  <2>1. /\ tokens' = tokens /\ records' = [records EXCEPT ![<<k, r, i>>] = None]
        /\ requests' = [q \in Request |-> IF At(q) THEN [requests[q] EXCEPT !.found = None] ELSE requests[q]]
    BY <1>8 DEF PurgeRecords
  <2>2. /\ records' \in [Key \X RouteUsed \X IdemKey -> Record \cup {None}]
        /\ \A k2 \in Key, r2 \in RouteUsed, i2 \in IdemKey :
             records'[<<k2, r2, i2>>] = IF <<k2, r2, i2>> = <<k, r, i>> THEN None ELSE records[<<k2, r2, i2>>]
    BY <2>1
  <2>3. ASSUME NEW q \in Request, At(q)
        PROVE  /\ requests[q] \in InFlight /\ requests'[q] \in InFlight /\ requests'[q].found = None
               /\ requests'[q].pc = requests[q].pc /\ requests'[q].idem = requests[q].idem
    <3>1. requests[q] \in InFlight
      BY <2>3, RequestFields
    <3>2. requests'[q] = [requests[q] EXCEPT !.found = None]
      BY <2>1, <2>3
    <3>3. [requests[q] EXCEPT !.found = None] \in InFlight
      BY <3>1 DEF InFlight
    <3> QED
      BY <3>1, <3>2, <3>3 DEF InFlight
  <2>4. \A q \in Request : ~At(q) => requests'[q] = requests[q]
    BY <2>1
  <2>5. requests' \in [Request -> InFlight \cup {NotSent}]
    BY <2>1, <2>3, <2>4
  <2>6. ASSUME NEW q \in Request
        PROVE  LooksUp(q)'
    <3>1. CASE At(q)
      BY <2>3, <3>1 DEF LooksUp
    <3>2. CASE ~At(q)
      <4>1. requests'[q] = requests[q] /\ LooksUp(q)
        BY <2>4, <3>2
      <4>2. ASSUME requests[q].pc = "lookup", requests[q].found # None
            PROVE  RecordOf(q)' = requests[q].found
        <5>1. requests[q] \in InFlight /\ requests[q].idem # None /\ RecordOf(q) = requests[q].found
          BY <4>1, <4>2, RequestFields DEF LooksUp
        <5>2. requests[q].key \in Key /\ requests[q].route \in RouteUsed /\ requests[q].idem \in IdemKey
          BY <5>1, RequestFields
        <5>3. <<requests[q].key, requests[q].route, requests[q].idem>> # <<k, r, i>>
          BY <3>2, <4>2
        <5> QED
          BY <2>2, <4>1, <5>1, <5>2, <5>3 DEF RecordOf
      <4> QED
        BY <4>1, <4>2 DEF LooksUp
    <3> QED
      BY <3>1, <3>2
  <2>7. ASSUME NEW k2 \in Key, NEW r2 \in RouteUsed, NEW i2 \in IdemKey, records'[<<k2, r2, i2>>] # None
        PROVE  Answered(k2, r2, i2)'
    <3>1. /\ records'[<<k2, r2, i2>>] = records[<<k2, r2, i2>>] /\ records[<<k2, r2, i2>>] \in Record
          /\ Answered(k2, r2, i2)
      BY <2>2, <2>7
    <3>2. PICK first \in Request : first = records[<<k2, r2, i2>>].response
      BY <3>1, RequestFields
    <3>3. requests[first].pc = "done"
      BY <2>7, <3>1, <3>2 DEF Answered
    <3>4. requests'[first] = requests[first]
      BY <2>4, <3>3
    <3> QED
      BY <2>7, <3>1, <3>2, <3>3, <3>4 DEF Answered
  <2>8. \A k2 \in Key, r2 \in RouteUsed, i2 \in IdemKey : Answered(k2, r2, i2)'
    BY <2>7 DEF Answered
  <2> QED
    BY <2>1, <2>2, <2>5, <2>6, <2>8
<1>9. ASSUME UNCHANGED <<records, tokens, requests>>
      PROVE  RequestInv'
  BY <1>9 DEF LooksUp, RecordOf, Answered
<1>10. ASSUME NEW k \in Key, KeyStep(k)
       PROVE  UNCHANGED <<records, tokens, requests>>
  BY <1>10 DEF KeyStep, FlashKey, RevokeApiKey, CreateApiKey
<1>11. ASSUME NEW w \in Hook, FlashHook(w) \/ \E team \in Team : CreateWebhookEndpoint(w, team)
       PROVE  UNCHANGED <<records, tokens, requests>>
  BY <1>11 DEF FlashHook, CreateWebhookEndpoint
<1>12. ASSUME NEW team \in Team, ShowProjects(team)
       PROVE  UNCHANGED <<records, tokens, requests>>
  BY <1>12 DEF ShowProjects
<1> QED
  BY <1>2, <1>5, <1>6, <1>7, <1>8, <1>9, <1>10, <1>11, <1>12 DEF ApiNext, RequestStep

\* The invariant of keys, secrets and requests, for any number of each that overlap.
THEOREM ApiInvariant == ApiSpec => [](SecretInv /\ RequestInv)
<1>1. ApiInit => SecretInv /\ RequestInv
  <2> SUFFICES ASSUME ApiInit
               PROVE  SecretInv /\ RequestInv
    OBVIOUS
  <2>1. SecretTypes
    BY DEF ApiInit, SecretTypes
  <2>2. ASSUME NEW s \in Secret
        PROVE  Unburnt(s) /\ Shown(s)
    <3>1. flash[s] = "unknown" /\ (\A team \in Team : views[<<s, team>>] = 0) /\ Maker(s) = None
      BY DEF ApiInit, Maker, Secret
    <3>2. "unknown" \notin Key
      BY SecretAssumption DEF Secret
    <3> QED
      BY <3>1, <3>2 DEF Unburnt, Shown
  <2>3. RequestTypes
    BY DEF ApiInit, RequestTypes
  <2>4. ASSUME NEW q \in Request
        PROVE  LooksUp(q)
    BY DEF ApiInit, LooksUp, NotSent
  <2>5. \A k \in Key, r \in RouteUsed, i \in IdemKey : Answered(k, r, i)
    BY DEF ApiInit, Answered
  <2> QED
    BY <2>1, <2>2, <2>3, <2>4, <2>5 DEF SecretInv, RequestInv
<1>2. SecretInv /\ RequestInv /\ [ApiNext]_apiVars => SecretInv' /\ RequestInv'
  <2>1. ASSUME SecretInv, RequestInv, UNCHANGED apiVars
        PROVE  SecretInv' /\ RequestInv'
    BY <2>1 DEF apiVars, SecretInv, SecretTypes, RequestInv, RequestTypes, Unburnt, Shown, Maker,
         LooksUp, RecordOf, Answered
  <2> QED
    BY <2>1, SecretsStay, RequestsReplay
<1> QED
  BY <1>1, <1>2, PTL DEF ApiSpec

\* A retry is answered from the record it came in to, whatever overlaps it (server/idempotency.ts,
\* server/api/http.ts).
THEOREM RetriesAreAlwaysReplayed == ApiSpec => []RetriesAreReplayed
<1>1. RequestInv => RetriesAreReplayed
  <2> SUFFICES ASSUME RequestInv
               PROVE  RetriesAreReplayed
    OBVIOUS
  <2>1. \A q \in Request : requests[q].pc = "done" /\ requests[q].found # None =>
          requests[q].answer = IF requests[q].found.body = requests[q].body
                               THEN requests[q].found.response ELSE "conflict"
    BY DEF RequestInv, LooksUp
  <2>2. ASSUME NEW k \in Key, NEW r \in RouteUsed, NEW i \in IdemKey, records[<<k, r, i>>] # None
        PROVE  LET first == requests[records[<<k, r, i>>].response] IN
               /\ first.pc = "done" /\ first.answer = records[<<k, r, i>>].response
               /\ <<first.key, first.route, first.idem, first.body>> = <<k, r, i, records[<<k, r, i>>].body>>
    BY <2>2 DEF RequestInv, Answered
  <2> QED
    BY <2>1, <2>2 DEF RetriesAreReplayed
<1> QED
  BY <1>1, ApiInvariant, PTL

\* No secret is ever on two pages, or on a page of another organisation
\* (app/console/projects/page.tsx, server/apikeys/service.ts).
THEOREM SecretsAreShownOnce == ApiSpec => []SecretsShownOnce
<1>1. SecretInv => SecretsShownOnce
  <2> SUFFICES ASSUME SecretInv, NEW s \in Secret, NEW team \in Team, views[<<s, team>>] # 0
               PROVE  views[<<s, team>>] = 1 /\ team = IF s \in Key THEN apiKeys[s].team ELSE hooks[s]
    BY DEF SecretsShownOnce
  <2>1. views[<<s, team>>] = 1 /\ team = Maker(s)
    BY DEF SecretInv, Shown
  <2>2. team # None
    BY NoneIsNoApiRow
  <2> QED
    BY <2>1, <2>2 DEF Maker
<1> QED
  BY <1>1, ApiInvariant, PTL

-----------------------------------------------------------------------------
(* Demo requests (Leads).                                                   *)

\* What a visit has left behind at each of its stages.
Kept(v) ==
  /\ forms[v] = "sent" => posts[v] # None /\ (v \in leads \/ posts[v].filled = "honeypot")
  /\ v \in leads => posts[v] # None /\ posts[v].filled = "complete" /\ posts[v].at \in {"stored", "failed"}
  /\ posts[v] # None => /\ posts[v].at = "stored" => v \in leads
                        /\ posts[v].at = "pretended" => posts[v].filled = "honeypot"

\* A hit is of a visit that was counted there, on its own server and under its own address.
Counted(sb, v) == posts[v] # None /\ posts[v].at # "sent" /\ <<posts[v].server, posts[v].bucket>> = sb

Admitted == {v \in Visit : posts[v] # None /\ posts[v].at \in {"admitted", "stored", "failed"}}

\* A window has let in no more than its limit, the ones whose INSERT is still to come included.
Limited(sb) ==
  /\ IsFiniteSet(window[sb])
  /\ \A v \in window[sb] : Counted(sb, v)
  /\ Cardinality(window[sb] \cap Admitted) <= RateLimit

LeadsInv ==
  /\ LeadsTypeOK
  /\ \A v \in Visit : Kept(v)
  /\ \A sb \in Server \X Bucket : Limited(sb)

\* A part of a finite set of at most RateLimit members has at most that many.
LEMMA PartsAreLimited ==
  ASSUME NEW S, NEW T, IsFiniteSet(S), T \subseteq S, Cardinality(S) <= RateLimit
  PROVE  IsFiniteSet(T) /\ Cardinality(T) <= RateLimit
<1>1. IsFiniteSet(T) /\ Cardinality(T) <= Cardinality(S)
  BY FS_Subset
<1>2. Cardinality(S) \in Nat /\ Cardinality(T) \in Nat
  BY <1>1, FS_CardinalityType
<1>3. RateLimit \in Nat
  BY RateAssumption
<1> QED
  BY <1>1, <1>2, <1>3

\* The fields of a request and its next stages.
LEMMA PostFields ==
  ASSUME LeadsTypeOK, NEW v \in Visit, posts[v] # None
  PROVE  /\ posts[v] \in Post
         /\ posts[v].server \in Server /\ posts[v].bucket \in Bucket /\ posts[v].filled \in Filled
  BY DEF LeadsTypeOK, Post

\* A stage changes the stage alone.
LEMMA StageMoves ==
  ASSUME LeadsTypeOK, NEW v \in Visit, posts[v] # None, Becomes(v, "refused") \/ Becomes(v, "pretended")
           \/ Becomes(v, "admitted") \/ Becomes(v, "stored") \/ Becomes(v, "failed")
  PROVE  /\ posts' \in [Visit -> Post \cup {None}]
         /\ \A u \in Visit : u # v => posts'[u] = posts[u]
         /\ posts'[v] # None /\ posts'[v].filled = posts[v].filled /\ posts'[v].server = posts[v].server
         /\ posts'[v].bucket = posts[v].bucket
         /\ \A stage \in {"refused", "pretended", "admitted", "stored", "failed"} :
              Becomes(v, stage) => posts'[v].at = stage
<1> DEFINE row(stage) == [posts[v] EXCEPT !.at = stage]
<1>1. posts[v] \in Post
  BY PostFields
<1>2. \A stage \in {"refused", "pretended", "admitted", "stored", "failed"} :
        /\ row(stage) \in Post /\ row(stage).at = stage /\ row(stage).filled = posts[v].filled
        /\ row(stage).server = posts[v].server /\ row(stage).bucket = posts[v].bucket
  BY <1>1 DEF Post
<1>3. \A stage \in {"refused", "pretended", "admitted", "stored", "failed"} :
        Becomes(v, stage) => posts' = [posts EXCEPT ![v] = row(stage)]
  BY DEF Becomes
<1> HIDE DEF row
<1>4. PICK stage \in {"refused", "pretended", "admitted", "stored", "failed"} :
        posts' = [posts EXCEPT ![v] = row(stage)]
  BY <1>3
<1>5. posts' \in [Visit -> Post \cup {None}] /\ \A u \in Visit : u # v => posts'[u] = posts[u]
  BY <1>2, <1>4 DEF LeadsTypeOK
<1>6. \A s \in {"refused", "pretended", "admitted", "stored", "failed"} :
        Becomes(v, s) => posts'[v] = row(s)
  BY <1>3 DEF LeadsTypeOK
<1>7. posts'[v] = row(stage)
  BY <1>4 DEF LeadsTypeOK
<1> QED
  BY <1>2, <1>5, <1>6, <1>7, NoneIsNoPost

\* A window nothing is counted in, and into which nothing more is let, stays within its limit.
LEMMA WindowsStay ==
  ASSUME LeadsInv, NEW sb \in Server \X Bucket, window'[sb] \subseteq window[sb],
         \A u \in window'[sb] : Counted(sb, u)' /\ (u \in Admitted' => u \in Admitted)
  PROVE  Limited(sb)'
<1>1. Limited(sb)
  BY DEF LeadsInv
<1>2. (window[sb] \cap Admitted)' \subseteq window[sb] \cap Admitted
  OBVIOUS
<1>3. IsFiniteSet(window'[sb])
  BY <1>1, FS_Subset DEF Limited
<1>4. IsFiniteSet(window[sb] \cap Admitted)
  BY <1>1, FS_Subset DEF Limited
<1>5. Cardinality((window[sb] \cap Admitted)') <= RateLimit
  BY <1>1, <1>2, <1>4, PartsAreLimited DEF Limited
<1> QED
  BY <1>3, <1>5 DEF Limited

\* The stage of a visit moves on behind the rate limit: nothing is counted, nobody else is let in.
LEMMA StagesKeepWindows ==
  ASSUME LeadsInv, window' = window, NEW v \in Visit,
         \A u \in Visit : u # v => posts'[u] = posts[u],
         posts[v] # None => /\ posts'[v] # None /\ posts'[v].at # "sent"
                            /\ posts'[v].server = posts[v].server /\ posts'[v].bucket = posts[v].bucket,
         v \in Admitted' => v \in Admitted
  PROVE  \A sb \in Server \X Bucket : Limited(sb)'
<1> SUFFICES ASSUME NEW sb \in Server \X Bucket
             PROVE  Limited(sb)'
  OBVIOUS
<1>1. ASSUME NEW u \in window'[sb]
      PROVE  Counted(sb, u)' /\ (u \in Admitted' => u \in Admitted)
  <2>1. u \in Visit /\ Counted(sb, u)
    BY <1>1 DEF LeadsInv, LeadsTypeOK, Limited
  <2> QED
    BY <2>1 DEF Counted, Admitted
<1> QED
  BY <1>1, WindowsStay

\* What other visits have left behind stays.
LEMMA OthersStayKept ==
  ASSUME LeadsInv, NEW v \in Visit, \A u \in Visit : u # v => posts'[u] = posts[u] /\ forms'[u] = forms[u],
         leads' \in {leads, leads \cup {v}}
  PROVE  \A u \in Visit : u # v => Kept(u)'
  BY DEF LeadsInv, Kept

\* The steps of a visit: its form, its request and its answer.
LEMMA VisitsKeep ==
  ASSUME LeadsInv, NEW v \in Visit,
         \/ ParseBody(v) \/ EnforceRateLimit(v) \/ CreateDemoRequest(v) \/ ShowAnswer(v)
         \/ \E filled \in Filled, b \in Bucket, s \in Server : SubmitForm(v, filled, b, s)
  PROVE  LeadsInv'
<1>0. LeadsTypeOK /\ Kept(v)
  BY DEF LeadsInv
<1>1. CASE ParseBody(v)
  <2>1. posts[v] # None /\ posts[v].at = "sent" /\ forms' = forms /\ window' = window /\ leads' = leads
    BY <1>1 DEF ParseBody
  <2>2. PICK stage \in {"refused", "pretended"} :
          Becomes(v, stage) /\ (stage = "pretended" => posts[v].filled = "honeypot")
    BY <1>1 DEF ParseBody
  <2>3. /\ posts' \in [Visit -> Post \cup {None}] /\ \A u \in Visit : u # v => posts'[u] = posts[u]
        /\ posts'[v] # None /\ posts'[v].filled = posts[v].filled /\ posts'[v].server = posts[v].server
        /\ posts'[v].bucket = posts[v].bucket /\ posts'[v].at = stage
    BY <1>0, <2>1, <2>2, StageMoves
  <2>4. Kept(v)'
    BY <1>0, <2>1, <2>2, <2>3 DEF Kept
  <2>5. \A sb \in Server \X Bucket : Limited(sb)'
    BY <2>1, <2>3, StagesKeepWindows DEF Admitted
  <2>6. LeadsTypeOK'
    BY <1>0, <2>1, <2>3 DEF LeadsTypeOK
  <2> QED
    BY <2>1, <2>3, <2>4, <2>5, <2>6, OthersStayKept DEF LeadsInv
<1>2. CASE EnforceRateLimit(v)
  <2> DEFINE own == <<posts[v].server, posts[v].bucket>>
             counted == window[own] \cup {v}
             stage == IF Cardinality(counted) > RateLimit THEN "refused" ELSE "admitted"
  <2>1. posts[v] # None /\ posts[v].at = "sent" /\ forms' = forms /\ leads' = leads
    BY <1>2 DEF EnforceRateLimit
  <2>2. Becomes(v, stage) /\ window' = [window EXCEPT ![own] = counted]
    BY <1>2 DEF EnforceRateLimit
  <2>3. own \in Server \X Bucket /\ stage \in {"refused", "admitted"}
    BY <1>0, <2>1, PostFields
  <2>4. stage = "admitted" => ~(Cardinality(counted) > RateLimit)
    OBVIOUS
  <2> HIDE DEF stage
  <2>5. /\ posts' \in [Visit -> Post \cup {None}] /\ \A u \in Visit : u # v => posts'[u] = posts[u]
        /\ posts'[v] # None /\ posts'[v].filled = posts[v].filled /\ posts'[v].server = posts[v].server
        /\ posts'[v].bucket = posts[v].bucket /\ posts'[v].at = stage
    BY <1>0, <2>1, <2>2, <2>3, StageMoves
  <2>6. Kept(v)'
    BY <1>0, <2>1, <2>3, <2>5 DEF Kept
  <2>7. /\ window' \in [Server \X Bucket -> SUBSET Visit] /\ window'[own] = counted
        /\ \A sb \in Server \X Bucket : sb # own => window'[sb] = window[sb]
    <3> HIDE DEF own
    <3> QED
      BY <1>0, <2>2, <2>3 DEF LeadsTypeOK
  <2>8. LeadsTypeOK'
    BY <1>0, <2>1, <2>5, <2>7 DEF LeadsTypeOK
  <2>9. ASSUME NEW sb \in Server \X Bucket, sb # own
        PROVE  Limited(sb)'
    <3>1. window'[sb] = window[sb]
      BY <2>7, <2>9
    <3>2. ASSUME NEW u \in window'[sb]
          PROVE  Counted(sb, u)' /\ (u \in Admitted' => u \in Admitted)
      <4>1. u \in Visit /\ Counted(sb, u)
        BY <1>0, <3>1, <3>2 DEF LeadsInv, LeadsTypeOK, Limited
      <4>2. u # v
        BY <2>1, <4>1 DEF Counted
      <4> QED
        BY <2>5, <4>1, <4>2 DEF Counted, Admitted
    <3> QED
      BY <3>1, <3>2, WindowsStay
  <2>10. Limited(own)'
    <3>1. Limited(own)
      BY <2>3 DEF LeadsInv
    <3>2. IsFiniteSet(counted)
      BY <3>1, FS_AddElement DEF Limited
    <3>3. ASSUME NEW u \in counted
          PROVE  Counted(own, u)' /\ own' = own
      <4>1. own' = own
        BY <2>5
      <4>2. CASE u = v
        BY <2>3, <2>5, <4>2 DEF Counted
      <4>3. CASE u # v
        <5>1. u \in Visit /\ Counted(own, u)
          BY <1>0, <2>3, <3>1, <3>3, <4>3 DEF LeadsTypeOK, Limited
        <5> QED
          BY <2>5, <4>1, <4>3, <5>1 DEF Counted
      <4> QED
        BY <4>1, <4>2, <4>3
    <3>5. Cardinality(counted \cap Admitted') <= RateLimit
      <4>1. CASE stage = "admitted"
        <5>1. Cardinality(counted) \in Nat /\ RateLimit \in Nat
          BY <3>2, FS_CardinalityType, RateAssumption
        <5>2. Cardinality(counted) <= RateLimit
          BY <2>4, <4>1, <5>1
        <5> HIDE DEF counted
        <5> QED
          BY <3>2, <5>2, PartsAreLimited
      <4>2. CASE stage = "refused"
        <5>1. counted \cap Admitted' \subseteq window[own] \cap Admitted
          BY <2>5, <4>2 DEF Admitted
        <5>2. IsFiniteSet(window[own] \cap Admitted)
          BY <3>1, FS_Subset DEF Limited
        <5> QED
          BY <3>1, <5>1, <5>2, PartsAreLimited DEF Limited
      <4> QED
        BY <2>3, <4>1, <4>2
    <3>6. own' = own
      BY <2>5
    <3> HIDE DEF own, counted
    <3> QED
      BY <2>7, <3>2, <3>3, <3>5, <3>6 DEF Limited
  <2> HIDE DEF own
  <2>11. PICK mine \in Server \X Bucket : mine = own /\ mine = own'
    BY <2>3, <2>5 DEF own
  <2>12. \A sb \in Server \X Bucket : Limited(sb)'
    <3> SUFFICES ASSUME NEW sb \in Server \X Bucket
                 PROVE  Limited(sb)'
      OBVIOUS
    <3>1. CASE sb = own
      <4>1. sb = own'
        BY <2>11, <3>1
      <4> QED
        BY <2>10, <4>1 DEF Limited, Counted
    <3> QED
      BY <2>9, <3>1
  <2> QED
    BY <2>1, <2>5, <2>6, <2>8, <2>12, OthersStayKept DEF LeadsInv
<1>3. CASE CreateDemoRequest(v)
  <2>1. posts[v] # None /\ posts[v].at = "admitted" /\ forms' = forms /\ window' = window
    BY <1>3 DEF CreateDemoRequest
  <2>2. PICK stage \in {"refused", "stored", "failed"} :
          /\ Becomes(v, stage) /\ leads' \in {leads, leads \cup {v}}
          /\ stage = "refused" => leads' = leads
          /\ stage \in {"stored", "failed"} => posts[v].filled = "complete"
          /\ stage = "stored" => leads' = leads \cup {v}
    BY <1>3 DEF CreateDemoRequest
  <2>3. /\ posts' \in [Visit -> Post \cup {None}] /\ \A u \in Visit : u # v => posts'[u] = posts[u]
        /\ posts'[v] # None /\ posts'[v].filled = posts[v].filled /\ posts'[v].server = posts[v].server
        /\ posts'[v].bucket = posts[v].bucket /\ posts'[v].at = stage
    BY <1>0, <2>1, <2>2, StageMoves
  <2>4. Kept(v)'
    BY <1>0, <2>1, <2>2, <2>3 DEF Kept
  <2>5. \A sb \in Server \X Bucket : Limited(sb)'
    BY <2>1, <2>3, StagesKeepWindows DEF Admitted
  <2>6. LeadsTypeOK'
    BY <1>0, <2>1, <2>2, <2>3 DEF LeadsTypeOK
  <2> QED
    BY <2>1, <2>2, <2>3, <2>4, <2>5, <2>6, OthersStayKept DEF LeadsInv
<1>4. CASE ShowAnswer(v)
  <2>1. posts[v] # None /\ posts' = posts /\ window' = window /\ leads' = leads
    BY <1>4 DEF ShowAnswer
  <2>2. PICK shows \in {"sent", "error"} :
          /\ forms' = [forms EXCEPT ![v] = shows]
          /\ shows = "sent" => posts[v].at \in {"stored", "pretended"}
    BY <1>4 DEF ShowAnswer
  <2>3. LeadsTypeOK' /\ forms'[v] = shows /\ \A u \in Visit : u # v => forms'[u] = forms[u]
    BY <1>0, <2>1, <2>2 DEF LeadsTypeOK
  <2>4. Kept(v)'
    BY <1>0, <2>1, <2>2, <2>3 DEF Kept
  <2>5. \A sb \in Server \X Bucket : Limited(sb)'
    BY <2>1 DEF LeadsInv, Limited, Counted, Admitted
  <2> QED
    BY <2>1, <2>3, <2>4, <2>5, OthersStayKept DEF LeadsInv
<1>5. ASSUME NEW filled \in Filled, NEW b \in Bucket, NEW s \in Server, SubmitForm(v, filled, b, s)
      PROVE  LeadsInv'
  <2> DEFINE row == [filled |-> filled, bucket |-> b, server |-> s, at |-> "sent"]
  <2>1. row \in Post /\ row.at = "sent"
    BY DEF Post
  <2> HIDE DEF row
  <2>2. /\ posts[v] = None /\ posts' = [posts EXCEPT ![v] = row] /\ forms' = [forms EXCEPT ![v] = "sending"]
        /\ window' = window /\ leads' = leads
    BY <1>5 DEF SubmitForm, row
  <2>3. LeadsTypeOK' /\ posts'[v] = row /\ forms'[v] = "sending"
          /\ \A u \in Visit : u # v => posts'[u] = posts[u] /\ forms'[u] = forms[u]
    BY <1>0, <2>1, <2>2 DEF LeadsTypeOK
  <2>4. Kept(v)'
    BY <1>0, <2>1, <2>2, <2>3 DEF Kept
  <2>5. \A sb \in Server \X Bucket : Limited(sb)'
    BY <2>1, <2>2, <2>3, StagesKeepWindows DEF Admitted
  <2> QED
    BY <2>2, <2>3, <2>4, <2>5, OthersStayKept DEF LeadsInv
<1> QED
  BY <1>1, <1>2, <1>3, <1>4, <1>5

\* The invariant of demo requests, for every number of visits, processes and addresses.
THEOREM LeadsInvariant == LeadsSpec => []LeadsInv
<1>1. LeadsInit => LeadsInv
  <2> SUFFICES ASSUME LeadsInit
               PROVE  LeadsInv
    OBVIOUS
  <2>1. LeadsTypeOK
    BY DEF LeadsInit, LeadsTypeOK
  <2>2. \A v \in Visit : Kept(v)
    BY DEF LeadsInit, Kept
  <2>3. ASSUME NEW sb \in Server \X Bucket
        PROVE  Limited(sb)
    <3>1. window[sb] = {} /\ {} \cap Admitted = {}
      BY <2>3 DEF LeadsInit
    <3>2. IsFiniteSet({}) /\ Cardinality({}) = 0 /\ 0 <= RateLimit
      BY FS_EmptySet, RateAssumption
    <3> QED
      BY <3>1, <3>2 DEF Limited
  <2> QED
    BY <2>1, <2>2, <2>3 DEF LeadsInv
<1>2. LeadsInv /\ [LeadsNext]_leadVars => LeadsInv'
  <2> SUFFICES ASSUME LeadsInv, [LeadsNext]_leadVars
               PROVE  LeadsInv'
    OBVIOUS
  <2>1. ASSUME forms' = forms, posts' = posts, leads' = leads,
               window' \in [Server \X Bucket -> SUBSET Visit],
               \A sb \in Server \X Bucket : window'[sb] \subseteq window[sb]
        PROVE  LeadsInv'
    <3>1. LeadsTypeOK' /\ \A v \in Visit : Kept(v)'
      BY <2>1 DEF LeadsInv, LeadsTypeOK, Kept
    <3>2. ASSUME NEW sb \in Server \X Bucket
          PROVE  Limited(sb)'
      <4>1. ASSUME NEW u \in window'[sb]
            PROVE  Counted(sb, u)' /\ (u \in Admitted' => u \in Admitted)
        BY <2>1, <4>1 DEF LeadsInv, Limited, Counted, Admitted
      <4> QED
        BY <2>1, <4>1, WindowsStay
    <3> QED
      BY <3>1, <3>2 DEF LeadsInv
  <2>2. window \in [Server \X Bucket -> SUBSET Visit]
    BY DEF LeadsInv, LeadsTypeOK
  <2>3. ASSUME NEW sb \in Server \X Bucket, NEW v \in Visit, HitAges(sb, v)
        PROVE  LeadsInv'
    BY <2>1, <2>2, <2>3 DEF HitAges
  <2>4. ASSUME NEW s \in Server, ServerRestarts(s)
        PROVE  LeadsInv'
    <3>1. \A sb \in Server \X Bucket : window'[sb] \in {{}, window[sb]}
      BY <2>4 DEF ServerRestarts
    <3>2. window' \in [Server \X Bucket -> SUBSET Visit]
      BY <2>2, <2>4 DEF ServerRestarts
    <3> QED
      BY <2>1, <2>4, <3>1, <3>2 DEF ServerRestarts
  <2>5. CASE UNCHANGED leadVars
    BY <2>1, <2>2, <2>5 DEF leadVars
  <2> QED
    BY <2>3, <2>4, <2>5, VisitsKeep DEF LeadsNext
<1> QED
  BY <1>1, <1>2, PTL DEF LeadsSpec

\* What a form says is so, nothing without consent is stored, and no address gets more rows than
\* its limit from one process (app/api/demo-requests/route.ts, server/security/controls.ts).
THEOREM LeadsAreAlwaysHonest == LeadsSpec => []LeadsAreHonest
<1>1. LeadsInv => LeadsAreHonest
  <2> SUFFICES ASSUME LeadsInv
               PROVE  LeadsAreHonest
    OBVIOUS
  <2>1. \A v \in Visit : forms[v] = "sent" => v \in leads \/ posts[v].filled = "honeypot"
    BY DEF LeadsInv, Kept
  <2>2. \A v \in leads : posts[v].filled = "complete"
    BY DEF LeadsInv, LeadsTypeOK, Kept
  <2>3. ASSUME NEW sb \in Server \X Bucket
        PROVE  Cardinality(window[sb] \cap leads) <= RateLimit
    <3>1. window[sb] \cap leads \subseteq window[sb] \cap Admitted
      BY DEF LeadsInv, LeadsTypeOK, Kept, Admitted
    <3>2. IsFiniteSet(window[sb] \cap Admitted) /\ Cardinality(window[sb] \cap Admitted) <= RateLimit
      BY FS_Subset DEF LeadsInv, Limited
    <3> QED
      BY <3>1, <3>2, PartsAreLimited
  <2> QED
    BY <2>1, <2>2, <2>3 DEF LeadsAreHonest
<1> QED
  BY <1>1, LeadsInvariant, PTL

-----------------------------------------------------------------------------
(* The Verify Lab and its capture flows (Clients).                          *)

\* A session the page shows exists; past its notice, or with the notice ticked, it was agreed to.
Consented ==
  lab.session # None =>
    /\ tickets[lab.session] # None
    /\ flow.consented \/ flow.step # "notice" => lab.session \in agreed

\* Whoever waits behind a prompt waits for a session that was agreed to.
Prompted(p) == prompts[p] # None => prompts[p].ticket \in agreed

\* A decided submission has spent its session and was sent for what the session is for.
Backed(u) ==
  uploads[u] # None =>
    /\ uploads[u].ticket \in agreed
    /\ uploads[u].is = "decided" =>
         /\ tickets[uploads[u].ticket].used
         /\ tickets[uploads[u].ticket].wish = uploads[u].wish

DecidedOnce ==
  \A u, v \in Upload : u # v /\ uploads[u] # None /\ uploads[v] # None /\ uploads[u].ticket = uploads[v].ticket =>
    ~(uploads[u].is = "decided" /\ uploads[v].is = "decided")

\* The result on the screen is of a decided submission of the session on the page.
Answering ==
  flow.decision # None =>
    /\ uploads[flow.decision] # None /\ uploads[flow.decision].is = "decided"
    /\ lab.session \in {uploads[flow.decision].ticket, None}

ClientsInv ==
  /\ ClientsTypeOK
  /\ \A t \in agreed : tickets[t] # None
  /\ Consented /\ DecidedOnce /\ Answering
  /\ \A p \in Prompt : Prompted(p)
  /\ \A u \in Upload : Backed(u)

\* What a flow shows may change as long as its result stays and its session was agreed to.
FlowMoves ==
  /\ flow' \in Flow /\ flow'.decision = flow.decision
  /\ flow' = flow \/ lab.session \in agreed'

\* The rows of the clients are told apart from their absence.
LEMMA ClientRows ==
  /\ None \notin Ticket /\ None \notin Upload /\ None \notin Wish /\ None \notin Session
  /\ None \notin Asked /\ None \notin Sent
  /\ \A x \in Asked : x.ticket \in Ticket /\ x.wish \in Wish
  /\ \A x \in Session : x.wish \in Wish /\ x.used \in BOOLEAN
  /\ \A x \in Sent : x.ticket \in Ticket /\ x.wish \in Wish /\ x.is \in {"sent", "decided", "refused"}
  /\ \A x \in Flow : x.decision \in Upload \cup {None}
<1>1. /\ None \notin Ticket /\ None \notin Upload /\ None \notin Wish /\ None \notin Session
      /\ None \notin Asked /\ None \notin Sent
  BY NoneIsNoClientRow
<1>2. \A x \in Asked : x.ticket \in Ticket /\ x.wish \in Wish
  BY DEF Asked
<1>3. \A x \in Session : x.wish \in Wish /\ x.used \in BOOLEAN
  BY DEF Session
<1>4. \A x \in Sent : x.ticket \in Ticket /\ x.wish \in Wish /\ x.is \in {"sent", "decided", "refused"}
  BY DEF Sent
<1>5. \A x \in Flow : x.decision \in Upload \cup {None}
  BY DEF Flow
<1> QED
  BY <1>1, <1>2, <1>3, <1>4, <1>5

\* Steps on the screens of a flow, and prompts that open or close around them.
LEMMA FlowsKeep ==
  ASSUME ClientsInv, FlowMoves, lab' = lab, cookie' = cookie, tickets' = tickets, uploads' = uploads,
         prompts' \in [Prompt -> Asked \cup {None}],
         \A p \in Prompt : prompts'[p] # None => prompts'[p].ticket \in agreed',
         agreed' = agreed \/ (lab.session # None /\ agreed' = agreed \cup {lab.session})
  PROVE  ClientsInv'
<1>1. /\ lab.session \in Ticket \cup {None}
      /\ agreed' \subseteq Ticket /\ agreed \subseteq agreed' /\ \A t \in agreed' : tickets'[t] # None
  BY DEF ClientsInv, ClientsTypeOK, Consented
<1>2. ClientsTypeOK'
  BY <1>1 DEF ClientsInv, ClientsTypeOK, FlowMoves
<1>3. Consented' /\ DecidedOnce' /\ Answering'
  BY <1>1 DEF ClientsInv, FlowMoves, Consented, DecidedOnce, Answering
<1>4. \A p \in Prompt : Prompted(p)'
  BY DEF Prompted
<1>5. \A u \in Upload : Backed(u)'
  BY <1>1 DEF ClientsInv, Backed
<1> QED
  BY <1>1, <1>2, <1>3, <1>4, <1>5 DEF ClientsInv

\* A flow's own steps: ticking and passing the notice, probing, asking and cancelling.
LEMMA ScreensKeep ==
  ASSUME ClientsInv,
         Tick \/ Continue \/ Back \/ ProbeEnds \/ CheckAgain \/ CancelCamera \/ \E p \in Prompt : Ask(p)
  PROVE  ClientsInv'
<1>0. /\ flow \in Flow /\ lab.session \in Ticket \cup {None} /\ lab.wish \in Wish
      /\ prompts \in [Prompt -> Asked \cup {None}]
      /\ \A p \in Prompt : prompts[p] # None => prompts[p].ticket \in agreed
  BY DEF ClientsInv, ClientsTypeOK, Prompted
<1>1. lab.session # None /\ (flow.consented \/ flow.step # "notice") => lab.session \in agreed
  BY DEF ClientsInv, Consented
<1>2. CASE Tick
  <2>1. flow' = [flow EXCEPT !.consented = ~flow.consented]
    BY <1>2 DEF Tick
  <2>2. flow' \in Flow /\ flow'.decision = flow.decision
    BY <1>0, <2>1 DEF Flow
  <2>3. lab.session \in agreed'
    BY <1>1, <1>2 DEF Tick
  <2> QED
    BY <1>0, <1>2, <2>2, <2>3, FlowsKeep DEF Tick, FlowMoves
<1>3. CASE Continue \/ Back \/ ProbeEnds \/ CheckAgain \/ CancelCamera
  <2>1. flow' \in Flow /\ flow'.decision = flow.decision
    <3>1. CASE Continue \/ Back
      BY <1>0, <3>1 DEF Continue, Back, Steps, Flow, Step
    <3>2. CASE ProbeEnds \/ CheckAgain
      BY <1>0, <3>2 DEF ProbeEnds, CheckAgain, Flow
    <3>3. CASE CancelCamera
      BY <1>0, <3>3 DEF CancelCamera, Flow, Step
    <3> QED
      BY <1>3, <3>1, <3>2, <3>3
  <2>2. OnPage /\ lab.session # None
    BY <1>3 DEF Continue, Back, ProbeEnds, CheckAgain, CancelCamera, Shows
  <2>3. lab.session \in agreed \/ flow' = flow
    BY <1>0, <1>1, <1>3, <2>2 DEF Continue, Back, Steps, ProbeEnds, CheckAgain, CancelCamera
  <2> QED
    BY <1>0, <2>1, <2>2, <2>3, FlowsKeep DEF OnPage, FlowMoves
<1>4. ASSUME NEW p \in Prompt, Ask(p)
      PROVE  ClientsInv'
  <2> DEFINE row == [ticket |-> lab.session, wish |-> lab.wish]
  <2>1. lab.session \in agreed
    BY <1>0, <1>1, <1>4 DEF Ask, Shows
  <2>2. row \in Asked /\ row.ticket = lab.session
    BY <1>0, <1>4 DEF Ask, Shows, Asked
  <2> HIDE DEF row
  <2>3. /\ prompts' = [prompts EXCEPT ![p] = row] /\ flow' = flow /\ lab' = lab /\ cookie' = cookie
        /\ tickets' = tickets /\ uploads' = uploads /\ agreed' = agreed
    BY <1>4 DEF Ask, row
  <2>4. prompts' \in [Prompt -> Asked \cup {None}] /\ \A q \in Prompt : prompts'[q] = IF q = p THEN row ELSE prompts[q]
    BY <1>0, <2>2, <2>3
  <2> QED
    BY <1>0, <2>1, <2>2, <2>3, <2>4, FlowsKeep DEF FlowMoves
<1> QED
  BY <1>2, <1>3, <1>4

\* What a flow that may be gone is told: its step, its stream and its video, never its result.
LEMMA ToldFlows ==
  ASSUME ClientsInv, NEW ticket \in agreed, NEW state \in Flow, state.decision = flow.decision,
         Sets(ticket, state), agreed' = agreed
  PROVE  FlowMoves
<1>1. flow' = flow \/ (lab.session = ticket /\ flow' = state)
  BY DEF Sets, IsMounted
<1> QED
  BY <1>1 DEF FlowMoves, ClientsInv, ClientsTypeOK

\* Prompts that open a camera or fail.
LEMMA PromptsKeep ==
  ASSUME ClientsInv, NEW p \in Prompt, CameraOpens(p) \/ PromptFails(p)
  PROVE  ClientsInv'
<1>0. /\ flow \in Flow /\ prompts \in [Prompt -> Asked \cup {None}]
      /\ \A q \in Prompt : prompts[q] # None => prompts[q].ticket \in agreed
  BY DEF ClientsInv, ClientsTypeOK, Prompted
<1>1. prompts[p] # None /\ Closes(p) /\ agreed' = agreed /\ lab' = lab /\ cookie' = cookie
        /\ tickets' = tickets /\ uploads' = uploads
  BY DEF CameraOpens, PromptFails, IsFor
<1>2. prompts' \in [Prompt -> Asked \cup {None}] /\ \A q \in Prompt : prompts'[q] \in {prompts[q], None}
  BY <1>0, <1>1 DEF Closes
<1>3. FlowMoves
  <2>1. CASE CameraOpens(p)
    <3> DEFINE state == [flow EXCEPT !.stream = TRUE, !.step = "challenge", !.shown = HasVideo]
    <3>1. HasVideo \in BOOLEAN
      BY DEF HasVideo
    <3>2. state \in Flow /\ state.decision = flow.decision
      BY <1>0, <3>1 DEF Flow, Step
    <3>3. Sets(prompts[p].ticket, state)
      BY <2>1 DEF CameraOpens
    <3> HIDE DEF state
    <3> QED
      BY <1>0, <1>1, <3>2, <3>3, ToldFlows
  <2>2. CASE PromptFails(p)
    <3> DEFINE state == [flow EXCEPT !.step = "error", !.shown = FALSE]
    <3>1. state \in Flow /\ state.decision = flow.decision
      BY <1>0 DEF Flow, Step
    <3>2. Sets(prompts[p].ticket, state)
      BY <2>2 DEF PromptFails
    <3> HIDE DEF state
    <3> QED
      BY <1>0, <1>1, <3>1, <3>2, ToldFlows
  <2> QED
    BY <2>1, <2>2
<1> QED
  BY <1>0, <1>1, <1>2, <1>3, FlowsKeep

\* The page's own steps keep its session or drop it.
LEMMA PagesKeep ==
  ASSUME ClientsInv, LabStep
  PROVE  ClientsInv'
<1>0. lab \in [configured : BOOLEAN, wish : Wish, asked : Wish \cup {None}, session : Ticket \cup {None}]
  BY DEF ClientsInv, ClientsTypeOK
<1>1. ASSUME lab' \in [configured : BOOLEAN, wish : Wish, asked : Wish \cup {None}, session : Ticket \cup {None}],
             lab'.session \in {lab.session, None}, cookie' \in {"none", "good", "dead"},
             UNCHANGED <<tickets, flow, prompts, uploads, agreed>>
      PROVE  ClientsInv'
  <2>1. ClientsTypeOK'
    BY <1>1 DEF ClientsInv, ClientsTypeOK
  <2>2. Consented' /\ DecidedOnce' /\ Answering'
    BY <1>1 DEF ClientsInv, Consented, DecidedOnce, Answering
  <2>3. (\A p \in Prompt : Prompted(p)') /\ \A u \in Upload : Backed(u)'
    BY <1>1 DEF ClientsInv, Prompted, Backed
  <2> QED
    BY <1>1, <2>1, <2>2, <2>3 DEF ClientsInv
<1>2. cookie \in {"none", "good", "dead"}
  BY DEF ClientsInv, ClientsTypeOK
<1>3. CASE Configure
  BY <1>0, <1>1, <1>3 DEF Configure
<1>4. CASE ForgetKey
  BY <1>0, <1>1, <1>2, <1>4 DEF ForgetKey
<1>5. CASE KeyDies
  BY <1>0, <1>1, <1>5 DEF KeyDies
<1>6. CASE StartSession
  BY <1>0, <1>1, <1>2, <1>6 DEF StartSession
<1>7. CASE SessionRefused
  BY <1>0, <1>1, <1>2, <1>7 DEF SessionRefused
<1>8. ASSUME NEW wish \in Choice, Select(wish)
      PROVE  ClientsInv'
  BY <1>0, <1>1, <1>2, <1>8, ChoiceAssumption DEF Select
<1>9. ASSUME NEW t \in Ticket, SessionCreated(t)
      PROVE  ClientsInv'
  <2> DEFINE row == [wish |-> lab.asked, used |-> FALSE]
  <2>1. row \in Session
    BY <1>0, <1>9 DEF SessionCreated, Session
  <2> HIDE DEF row
  <2>2. /\ tickets[t] = None /\ tickets' = [tickets EXCEPT ![t] = row] /\ flow' = Mounted
        /\ lab' = [lab EXCEPT !.asked = None, !.session = t] /\ cookie' = cookie /\ prompts' = prompts
        /\ uploads' = uploads /\ agreed' = agreed
    BY <1>9 DEF SessionCreated, row
  <2>3. /\ lab' \in [configured : BOOLEAN, wish : Wish, asked : Wish \cup {None}, session : Ticket \cup {None}]
        /\ lab'.session = t
    BY <1>0, <2>2
  <2>4. Mounted \in Flow /\ ~Mounted.consented /\ Mounted.step = "notice" /\ Mounted.decision = None
    BY DEF Mounted, Flow, Step
  <2>5. /\ tickets' \in [Ticket -> Session \cup {None}] /\ tickets'[t] # None
        /\ \A s \in Ticket : s # t => tickets'[s] = tickets[s]
    BY <2>1, <2>2, ClientRows DEF ClientsInv, ClientsTypeOK
  <2>6. t \notin agreed /\ agreed \subseteq Ticket /\ \A s \in agreed : tickets'[s] = tickets[s]
    BY <2>2, <2>5 DEF ClientsInv, ClientsTypeOK
  <2>7. ClientsTypeOK'
    BY <2>2, <2>3, <2>4, <2>5 DEF ClientsInv, ClientsTypeOK
  <2>8. Consented' /\ DecidedOnce' /\ Answering'
    BY <2>2, <2>3, <2>4, <2>5 DEF ClientsInv, Consented, DecidedOnce, Answering
  <2>9. (\A p \in Prompt : Prompted(p)') /\ \A u \in Upload : Backed(u)'
    BY <2>2, <2>6 DEF ClientsInv, Prompted, Backed
  <2>10. \A s \in agreed' : tickets'[s] # None
    BY <2>2, <2>6 DEF ClientsInv
  <2> QED
    BY <2>7, <2>8, <2>9, <2>10 DEF ClientsInv
<1> QED
  BY <1>3, <1>4, <1>5, <1>6, <1>7, <1>8, <1>9 DEF LabStep

\* Submissions that leave, from a camera or a scanner.
LEMMA SendsKeep ==
  ASSUME ClientsInv, NEW u \in Upload, NEW ticket \in agreed, NEW wish \in Wish, Sends(u, ticket, wish),
         FlowMoves, lab' = lab, cookie' = cookie, tickets' = tickets, agreed' = agreed,
         prompts' \in [Prompt -> Asked \cup {None}],
         \A p \in Prompt : prompts'[p] \in {prompts[p], None}
  PROVE  ClientsInv'
<1> DEFINE row == [ticket |-> ticket, wish |-> wish, is |-> "sent", waiting |-> TRUE]
<1>0. ticket \in Ticket
  BY DEF ClientsInv, ClientsTypeOK
<1>1. row \in Sent /\ row.ticket = ticket /\ row.is = "sent"
  BY <1>0 DEF Sent
<1>2. uploads[u] = None /\ uploads' = [uploads EXCEPT ![u] = row]
  BY DEF Sends
<1> HIDE DEF row
<1>3. /\ uploads' \in [Upload -> Sent \cup {None}] /\ uploads'[u] = row
      /\ \A v \in Upload : v # u => uploads'[v] = uploads[v]
  BY <1>1, <1>2 DEF ClientsInv, ClientsTypeOK
<1>4. ClientsTypeOK'
  BY <1>3 DEF ClientsInv, ClientsTypeOK, FlowMoves
<1>5. Consented' /\ DecidedOnce'
  BY <1>1, <1>3 DEF ClientsInv, FlowMoves, Consented, DecidedOnce
<1>6. Answering'
  <2>1. flow.decision \in Upload \cup {None}
    BY ClientRows DEF ClientsInv, ClientsTypeOK
  <2> QED
    BY <1>2, <1>3, <2>1 DEF ClientsInv, FlowMoves, Answering
<1>7. (\A p \in Prompt : Prompted(p)') /\ \A v \in Upload : Backed(v)'
  <2>1. \A p \in Prompt : Prompted(p)'
    BY DEF ClientsInv, Prompted
  <2>2. \A v \in Upload : Backed(v)'
    BY <1>1, <1>3 DEF ClientsInv, Backed
  <2> QED
    BY <2>1, <2>2
<1> QED
  BY <1>4, <1>5, <1>6, <1>7 DEF ClientsInv

\* Captures and scans leave for the session their closure was made for.
LEMMA CapturesKeep ==
  ASSUME ClientsInv, NEW u \in Upload, Capture(u) \/ \E p \in Prompt : ScannerAnswers(p, u)
  PROVE  ClientsInv'
<1>0. /\ flow \in Flow /\ prompts \in [Prompt -> Asked \cup {None}] /\ lab.wish \in Wish
      /\ \A q \in Prompt : prompts[q] # None => prompts[q].ticket \in agreed
  BY DEF ClientsInv, ClientsTypeOK, Prompted
<1>1. CASE Capture(u)
  <2>1. lab.session # None /\ flow.step = "challenge" /\ lab.session \in agreed
    BY <1>1 DEF Capture, Shows, ClientsInv, Consented
  <2>2. flow' \in Flow /\ flow'.decision = flow.decision
    BY <1>0, <1>1 DEF Capture, Flow, Step
  <2>3. FlowMoves
    BY <1>1, <2>1, <2>2 DEF Capture, FlowMoves
  <2>4. CASE Sends(u, lab.session, lab.wish)
    BY <1>0, <1>1, <2>1, <2>3, <2>4, SendsKeep DEF Capture
  <2>5. CASE uploads' = uploads
    BY <1>0, <1>1, <2>3, <2>5, FlowsKeep DEF Capture
  <2> QED
    BY <1>1, <2>4, <2>5 DEF Capture
<1>2. ASSUME NEW p \in Prompt, ScannerAnswers(p, u)
      PROVE  ClientsInv'
  <2> DEFINE state == [flow EXCEPT !.step = "uploading"]
  <2>1. /\ prompts[p] # None /\ Closes(p) /\ agreed' = agreed /\ lab' = lab /\ cookie' = cookie
        /\ tickets' = tickets /\ Sends(u, prompts[p].ticket, prompts[p].wish)
        /\ Sets(prompts[p].ticket, state)
    BY <1>2 DEF ScannerAnswers, IsFor
  <2>2. prompts' \in [Prompt -> Asked \cup {None}] /\ \A q \in Prompt : prompts'[q] \in {prompts[q], None}
    BY <1>0, <2>1 DEF Closes
  <2>3. prompts[p].ticket \in agreed /\ prompts[p].wish \in Wish
    BY <1>0, <2>1, ClientRows
  <2>4. state \in Flow /\ state.decision = flow.decision
    BY <1>0 DEF Flow, Step
  <2> HIDE DEF state
  <2>5. FlowMoves
    BY <2>1, <2>3, <2>4, ToldFlows
  <2> QED
    BY <2>1, <2>2, <2>3, <2>5, SendsKeep
<1> QED
  BY <1>1, <1>2

\* The server spends the session before it decides.
LEMMA SubmitKeeps ==
  ASSUME ClientsInv, NEW u \in Upload, Submit(u)
  PROVE  ClientsInv'
<1> DEFINE t == uploads[u].ticket
<1>1. /\ uploads[u] # None /\ uploads[u].is = "sent" /\ lab' = lab /\ cookie' = cookie
      /\ flow' = flow /\ prompts' = prompts /\ agreed' = agreed
  BY DEF Submit
<1>2. /\ uploads[u] \in Sent /\ t \in agreed /\ t \in Ticket /\ tickets[t] # None /\ tickets[t] \in Session
  BY <1>1 DEF ClientsInv, ClientsTypeOK, Backed
<1>3. PICK is \in {"decided", "refused"} :
        /\ uploads' = [uploads EXCEPT ![u].is = is]
        /\ \/ ~tickets[t].used /\ tickets' = [tickets EXCEPT ![t].used = TRUE]
              /\ (is = "decided" => uploads[u].wish = tickets[t].wish)
           \/ is = "refused" /\ tickets' = tickets
  BY DEF Submit
<1> DEFINE row == [uploads[u] EXCEPT !.is = is]
<1>4. /\ row \in Sent /\ row.ticket = t /\ row.wish = uploads[u].wish /\ row.is = is
  BY <1>2 DEF Sent
<1>5. uploads' = [uploads EXCEPT ![u] = row]
  BY <1>3
<1> HIDE DEF row
<1>6. /\ uploads' \in [Upload -> Sent \cup {None}] /\ uploads'[u] = row
      /\ \A v \in Upload : v # u => uploads'[v] = uploads[v]
  BY <1>4, <1>5 DEF ClientsInv, ClientsTypeOK
<1>7. /\ tickets' \in [Ticket -> Session \cup {None}]
      /\ \A s \in Ticket : tickets[s] # None => tickets'[s] # None /\ tickets'[s].wish = tickets[s].wish
                                               /\ (tickets[s].used => tickets'[s].used)
      /\ is = "decided" => tickets'[t].used /\ ~tickets[t].used /\ uploads[u].wish = tickets'[t].wish
  <2> DEFINE spent == [tickets[t] EXCEPT !.used = TRUE]
  <2>1. spent \in Session /\ spent.wish = tickets[t].wish /\ spent.used
    BY <1>2 DEF Session
  <2>2. \/ ~tickets[t].used /\ tickets' = [tickets EXCEPT ![t] = spent]
           /\ (is = "decided" => uploads[u].wish = tickets[t].wish)
        \/ is = "refused" /\ tickets' = tickets
    BY <1>3
  <2>3. spent # None
    BY <2>1, ClientRows
  <2> HIDE DEF spent, t
  <2>4. CASE is = "refused" /\ tickets' = tickets
    BY <2>4 DEF ClientsInv, ClientsTypeOK
  <2>5. CASE ~tickets[t].used /\ tickets' = [tickets EXCEPT ![t] = spent]
             /\ (is = "decided" => uploads[u].wish = tickets[t].wish)
    BY <1>2, <2>1, <2>3, <2>5 DEF ClientsInv, ClientsTypeOK
  <2> QED
    BY <2>2, <2>4, <2>5
<1> HIDE DEF t
<1>8. \A v \in Upload : uploads[v] # None => uploads[v].ticket \in agreed /\ uploads[v].ticket \in Ticket
        /\ tickets[uploads[v].ticket] # None
  BY DEF ClientsInv, ClientsTypeOK, Backed
<1>9. ASSUME NEW v \in Upload
      PROVE  Backed(v)'
  <2>1. CASE v = u
    BY <1>1, <1>2, <1>4, <1>6, <1>7, <2>1 DEF Backed
  <2>2. CASE v # u
    BY <1>1, <1>6, <1>7, <1>8, <2>2 DEF ClientsInv, Backed
  <2> QED
    BY <2>1, <2>2
<1>10. DecidedOnce'
  <2> SUFFICES ASSUME NEW v \in Upload, NEW w \in Upload, v # w, uploads'[v] # None, uploads'[w] # None,
                      uploads'[v].ticket = uploads'[w].ticket, uploads'[v].is = "decided", uploads'[w].is = "decided"
               PROVE  FALSE
    BY DEF DecidedOnce
  <2>1. CASE v # u /\ w # u
    BY <1>6, <2>1 DEF ClientsInv, DecidedOnce
  <2>2. CASE v = u
    BY <1>4, <1>6, <1>7, <2>2 DEF ClientsInv, Backed
  <2>3. CASE w = u
    BY <1>4, <1>6, <1>7, <2>3 DEF ClientsInv, Backed
  <2> QED
    BY <2>1, <2>2, <2>3
<1>11. Answering'
  <2>1. flow.decision \in Upload \cup {None} /\ flow.decision # u
    BY <1>1, ClientRows DEF ClientsInv, ClientsTypeOK, Answering
  <2> QED
    BY <1>1, <1>6, <2>1 DEF ClientsInv, Answering
<1>12. Consented' /\ \A s \in agreed' : tickets'[s] # None
  BY <1>1, <1>7 DEF ClientsInv, ClientsTypeOK, Consented
<1>13. ClientsTypeOK' /\ \A p \in Prompt : Prompted(p)'
  BY <1>1, <1>6, <1>7 DEF ClientsInv, ClientsTypeOK, Prompted
<1> QED
  BY <1>9, <1>10, <1>11, <1>12, <1>13 DEF ClientsInv

\* An answer, or its loss, reaches the page if the flow it is for is still there.
LEMMA AnswersKeep ==
  ASSUME ClientsInv, NEW u \in Upload, AnswerArrives(u) \/ ConnectionBreaks(u)
  PROVE  ClientsInv'
<1> DEFINE row == [uploads[u] EXCEPT !.waiting = FALSE]
<1>1. /\ uploads[u] # None /\ uploads' = [uploads EXCEPT ![u] = row] /\ lab' = lab /\ cookie' = cookie
      /\ tickets' = tickets /\ prompts' = prompts /\ agreed' = agreed
  BY DEF AnswerArrives, ConnectionBreaks
<1>2. uploads[u] \in Sent /\ uploads[u].ticket \in agreed /\ flow \in Flow /\ lab.session \in Ticket \cup {None}
  BY <1>1 DEF ClientsInv, ClientsTypeOK, Backed
<1>3. row \in Sent /\ row.ticket = uploads[u].ticket /\ row.wish = uploads[u].wish /\ row.is = uploads[u].is
  BY <1>2 DEF Sent
<1> HIDE DEF row
<1>4. /\ uploads' \in [Upload -> Sent \cup {None}] /\ uploads'[u] = row /\ row # None
      /\ \A v \in Upload : v # u => uploads'[v] = uploads[v]
  BY <1>1, <1>3, ClientRows DEF ClientsInv, ClientsTypeOK
<1>5. /\ flow' \in Flow
      /\ flow' = flow \/ lab.session = uploads[u].ticket
      /\ \/ flow'.decision = flow.decision
         \/ flow'.decision = u /\ uploads[u].is = "decided" /\ lab.session = uploads[u].ticket
  <2> DEFINE result == [flow EXCEPT !.step = "result", !.decision = u, !.shown = FALSE]
             broken == [flow EXCEPT !.step = "error", !.shown = FALSE]
  <2>1. result \in Flow /\ result.decision = u /\ broken \in Flow /\ broken.decision = flow.decision
    BY <1>2 DEF Flow, Step
  <2>2. \/ uploads[u].is = "decided" /\ Sets(uploads[u].ticket, result)
        \/ Sets(uploads[u].ticket, broken)
    BY DEF AnswerArrives, ConnectionBreaks
  <2> HIDE DEF result, broken
  <2> QED
    BY <1>2, <2>1, <2>2 DEF Sets, IsMounted
<1>6. ClientsTypeOK' /\ (\A p \in Prompt : Prompted(p)') /\ (\A t \in agreed' : tickets'[t] # None)
  BY <1>1, <1>4, <1>5 DEF ClientsInv, ClientsTypeOK, Prompted
<1>7. Consented'
  BY <1>1, <1>2, <1>5 DEF ClientsInv, Consented
<1>8. DecidedOnce' /\ \A v \in Upload : Backed(v)'
  BY <1>1, <1>3, <1>4 DEF ClientsInv, DecidedOnce, Backed
<1>9. Answering'
  <2>1. CASE flow'.decision = flow.decision
    <3>1. flow.decision \in Upload \cup {None}
      BY <1>2, ClientRows
    <3> QED
      BY <1>1, <1>3, <1>4, <2>1, <3>1 DEF ClientsInv, Answering
  <2>2. CASE flow'.decision = u /\ uploads[u].is = "decided" /\ lab.session = uploads[u].ticket
    BY <1>1, <1>3, <1>4, <2>2 DEF Answering
  <2> QED
    BY <1>5, <2>1, <2>2
<1> QED
  BY <1>6, <1>7, <1>8, <1>9 DEF ClientsInv

\* The invariant of the Verify Lab, for any number of sessions, prompts and submissions under way.
THEOREM ClientsInvariant == ClientsSpec => []ClientsInv
<1>1. ClientsInit => ClientsInv
  <2> SUFFICES ASSUME ClientsInit
               PROVE  ClientsInv
    OBVIOUS
  <2>1. AtFirst \in Wish
    BY DEF AtFirst, Wish, Modality, Purpose
  <2>2. Mounted \in Flow /\ Mounted.decision = None
    BY DEF Mounted, Flow, Step
  <2>3. ClientsTypeOK
    BY <2>1, <2>2 DEF ClientsInit, ClientsTypeOK
  <2>4. Consented /\ DecidedOnce /\ Answering
    BY <2>2 DEF ClientsInit, Consented, DecidedOnce, Answering
  <2>5. (\A p \in Prompt : Prompted(p)) /\ (\A u \in Upload : Backed(u)) /\ \A t \in agreed : tickets[t] # None
    BY DEF ClientsInit, Prompted, Backed
  <2> QED
    BY <2>3, <2>4, <2>5 DEF ClientsInv
<1>2. ClientsInv /\ [ClientsNext]_clientVars => ClientsInv'
  <2>1. ASSUME ClientsInv, UNCHANGED clientVars
        PROVE  ClientsInv'
    BY <2>1 DEF clientVars, ClientsInv, ClientsTypeOK, Consented, DecidedOnce, Answering, Prompted, Backed
  <2>2. ASSUME ClientsInv, ClientsNext
        PROVE  ClientsInv'
    BY <2>2, PagesKeep, ScreensKeep, PromptsKeep, CapturesKeep, SubmitKeeps, AnswersKeep
       DEF ClientsNext, FlowStep
  <2> QED
    BY <2>1, <2>2
<1> QED
  BY <1>1, <1>2, PTL DEF ClientsSpec

\* Nothing is sent before its notice was agreed to, a session is decided at most once, and a
\* result answers the session it is shown for (app/verify/CaptureFlow.tsx, FingerprintFlow.tsx,
\* app/api/console/verify-lab).
THEOREM FlowsAreAlwaysHonest == ClientsSpec => []FlowsAreHonest
<1>1. ClientsInv => FlowsAreHonest
  <2> SUFFICES ASSUME ClientsInv
               PROVE  FlowsAreHonest
    OBVIOUS
  <2>1. \A u \in Upload : uploads[u] # None => uploads[u].ticket \in agreed
    BY DEF ClientsInv, Backed
  <2>2. ASSUME NEW u \in Upload, NEW v \in Upload, u # v, uploads[u] # None, uploads[v] # None,
               uploads[u].ticket = uploads[v].ticket
        PROVE  "decided" \notin {uploads[u].is} \cap {uploads[v].is}
    BY <2>2 DEF ClientsInv, DecidedOnce
  <2>3. flow.decision # None =>
          /\ uploads[flow.decision].is = "decided"
          /\ lab.session \in {uploads[flow.decision].ticket, None}
          /\ tickets[uploads[flow.decision].ticket].wish = uploads[flow.decision].wish
    <3>1. flow.decision \in Upload \cup {None}
      BY ClientRows DEF ClientsInv, ClientsTypeOK
    <3> QED
      BY <3>1 DEF ClientsInv, Answering, Backed
  <2> QED
    BY <2>1, <2>2, <2>3 DEF FlowsAreHonest
<1> QED
  BY <1>1, ClientsInvariant, PTL

-----------------------------------------------------------------------------
(* Policy decisions (Decisions).                                            *)

Typed(x) == x \in Working \cup {Resting}

\* The calls under way, each where it is; what is done has the evidence for its outcome.
DecisionsInv ==
  /\ activePolicy \in Policy \cup {None}
  /\ attempt = [a \in Attempt |-> attempt[a]]
  /\ \A a \in Attempt : Typed(attempt[a]) \/ (Finished(a) /\ Evident(attempt[a]))

\* What a call under way knows, by where it is.
LEMMA CallFields ==
  ASSUME NEW x, Typed(x)
  PROVE  /\ x.at # "done"
         /\ x.at = "analyse" => /\ x.source \in Source /\ x.does \in {"verify", "enrol"}
                                /\ x.does = "verify" => x.policy \in Policy \cup {Default}
         /\ x.at = "compare" => /\ x.source \in Source /\ x.said \in Reply(x.source)
                                /\ x.does = "verify" /\ x.policy \in Policy \cup {Default}
         /\ x.at = "read policy" => x.source \in Source /\ x.said \in Reply(x.source) /\ x.does = "enrol"
<1>1. CASE x = Resting
  BY <1>1 DEF Resting
<1>2. CASE x \in Verifying
  BY <1>2 DEF Verifying
<1>3. CASE x \in Enrolling
  BY <1>3 DEF Enrolling
<1>4. ASSUME NEW s \in Source, x \in Reading(s)
      PROVE  x.at = "read policy" /\ x.source \in Source /\ x.said \in Reply(x.source) /\ x.does = "enrol"
  BY <1>4 DEF Reading
<1>5. ASSUME NEW s \in Source, x \in Comparing(s)
      PROVE  /\ x.at = "compare" /\ x.source \in Source /\ x.said \in Reply(x.source)
             /\ x.does = "verify" /\ x.policy \in Policy \cup {Default}
  BY <1>5 DEF Comparing
<1>6. \/ x = Resting \/ x \in Verifying \/ x \in Enrolling
      \/ \E s \in Source : x \in Reading(s) \/ x \in Comparing(s)
  BY DEF Typed, Working
<1>7. CASE \E s \in Source : x \in Reading(s) \/ x \in Comparing(s)
  <2>1. PICK s \in Source : x \in Reading(s) \/ x \in Comparing(s)
    BY <1>7
  <2>2. CASE x \in Reading(s)
    BY <1>4, <2>2
  <2>3. CASE x \in Comparing(s)
    BY <1>5, <2>3
  <2> QED
    BY <2>1, <2>2, <2>3
<1> QED
  BY <1>1, <1>2, <1>3, <1>6, <1>7

\* Every policy in force has thresholds.
LEMMA PoliciesHaveThresholds ==
  ASSUME NEW p \in Policy \cup {Default}
  PROVE  /\ Thresholds(p) \in Threshold
         /\ Thresholds(p).quality \in 0..2 /\ Thresholds(p).pose \in 0..2 /\ Thresholds(p).occlusion \in 0..2
         /\ Thresholds(p).liveness \in 0..2 /\ Thresholds(p).approve \in 0..2 /\ Thresholds(p).review \in 0..2
<1>1. PLATFORM_DEFAULT_POLICY \in Threshold
  BY DEF PLATFORM_DEFAULT_POLICY, Threshold
<1>2. Thresholds(p) \in Threshold
  BY <1>1, PolicyAssumption DEF Thresholds
<1> QED
  BY <1>2 DEF Threshold

\* The face rules on the sidecar's reply: what approves, rejects and enrols it.
LEMMA FacesAreEvidenced ==
  ASSUME NEW said \in FaceReply, NEW p \in Threshold, NEW match \in Number, match # NaN, NEW c, c.score = match
  PROVE  LET out == Decide(p, ReadFace(said), c) IN
         /\ out.decision \in {"approved", "review", "rejected"}
         /\ out.decision = "approved" => /\ said.detected # "false" /\ ~Spoofed(said, p)
                                         /\ ~Unusable(said, p) /\ AtLeast(match, p.approve)
         /\ out.decision = "rejected" => \/ said.detected = "false" \/ Spoofed(said, p)
                                         \/ Less(match, p.review)
<1> DEFINE seen == ReadFace(said)
           out == Decide(p, seen, c)
<1>1. /\ said.detected \in Flag /\ said.quality \in Number /\ said.pose \in Angle /\ said.occlusion \in Number
      /\ said.live \in Flag /\ said.liveness \in Number
      /\ DOMAIN said = {"detected", "quality", "pose", "occlusion", "live", "liveness"}
  BY DEF FaceReply
<1>2. /\ seen.detected = (said.detected # "false") /\ seen.quality = said.quality /\ seen.pose = said.pose
      /\ seen.occlusion = said.occlusion /\ seen.live = (said.live # "false") /\ seen.liveness = said.liveness
  BY DEF FaceReply, ReadFace, Truthy
<1>3. /\ p.quality \in 0..2 /\ p.pose \in 0..2 /\ p.occlusion \in 0..2 /\ p.liveness \in 0..2
      /\ p.approve \in 0..2 /\ p.review \in 0..2
  BY DEF Threshold
<1> HIDE DEF seen
<1>4. Lifeless(p, seen) <=> Spoofed(said, p)
  BY <1>2 DEF Lifeless, Spoofed, Less
<1>5. said.pose # NaN /\ said.pose \notin -p.pose..p.pose => Greater(Abs(said.pose), p.pose)
  BY <1>1, <1>3, NaNIsNoNumber DEF Angle, Greater, Abs, Less
<1>6. Unusable(said, p) => said.detected = "false" \/ PoorFace(p, seen)
  BY <1>1, <1>2, <1>5 DEF Unusable, PoorFace
<1>7. ByScore(p, c.score).decision = "approved" => AtLeast(match, p.approve)
  BY DEF ByScore, Out
<1>8. ByScore(p, c.score).decision = "rejected" => Less(match, p.review)
  BY <1>3 DEF ByScore, Out, AtLeast, Less, Number
<1>9. ByScore(p, c.score).decision \in {"approved", "review", "rejected"}
  BY DEF ByScore, Out
<1>10. \/ said.detected = "false" /\ out = Out("rejected", "FACE_NOT_DETECTED")
       \/ said.detected # "false" /\ PoorFace(p, seen) /\ out = Out("review", "CAPTURE_QUALITY_INSUFFICIENT")
       \/ said.detected # "false" /\ ~PoorFace(p, seen) /\ Lifeless(p, seen) /\ out = Out("rejected", "LIVENESS_FAILED")
       \/ said.detected # "false" /\ ~PoorFace(p, seen) /\ ~Lifeless(p, seen) /\ out = ByScore(p, c.score)
  BY <1>2 DEF Decide
<1>11. \A d, r : Out(d, r).decision = d
  BY DEF Out
<1> HIDE DEF out
<1>12. /\ out.decision \in {"approved", "review", "rejected"}
       /\ out.decision = "approved" => /\ said.detected # "false" /\ ~Spoofed(said, p)
                                       /\ ~Unusable(said, p) /\ AtLeast(match, p.approve)
       /\ out.decision = "rejected" => \/ said.detected = "false" \/ Spoofed(said, p)
                                       \/ Less(match, p.review)
  BY <1>4, <1>6, <1>7, <1>8, <1>9, <1>10, <1>11
<1> QED
  BY <1>12 DEF out, seen

\* The fingerprint rules on the sidecar's reply.
LEMMA FingersAreEvidenced ==
  ASSUME NEW said \in FingerReply, NEW match \in FingerMatch, match.score # NaN, ~Greater(match.score, 2),
         NEW c, c.score = match.score, c.present = Truthy(match.present), c.live = Truthy(match.live)
  PROVE  LET out == DecideFingerprint(PLATFORM_DEFAULT_FP_POLICY, ReadFinger(said), c) IN
         /\ out.decision \in {"approved", "review", "rejected"}
         /\ out.decision = "approved" => /\ ~Unusable(said, PLATFORM_DEFAULT_FP_POLICY)
                                         /\ match.score = 2 /\ match.present # "false" /\ match.live # "false"
<1> DEFINE p == PLATFORM_DEFAULT_FP_POLICY
           seen == ReadFinger(said)
           out == DecideFingerprint(p, seen, c)
<1>1. /\ said.detected \in Flag /\ said.quality \in Number /\ said.minutiae \in Number
      /\ DOMAIN said = {"detected", "quality", "minutiae", "pad"}
  BY DEF FingerReply
<1>2. /\ seen.detected = (said.detected # "false") /\ seen.quality = said.quality /\ seen.minutiae = said.minutiae
  BY DEF FingerReply, ReadFinger, Truthy
<1>3. p.quality = 1 /\ p.minutiae = 1 /\ p.approve = 2 /\ p.review = 1
  BY DEF PLATFORM_DEFAULT_FP_POLICY
<1>4. match.score \in 0..3
  BY DEF FingerMatch
<1> HIDE DEF seen, p
<1>5. Unusable(said, p) => said.detected = "false" \/ PoorFinger(p, seen)
  BY <1>1, <1>2 DEF Unusable, PoorFinger, p
<1>6. \A d, r : Out(d, r).decision = d
  BY DEF Out
<1>7. ByScore(p, c.score).decision \in {"approved", "review", "rejected"}
  BY DEF ByScore, Out
<1>8. AtLeast(match.score, 2) => match.score = 2
  BY <1>4 DEF AtLeast, Greater
<1>9. \/ said.detected = "false" /\ out = Out("rejected", "FINGER_NOT_DETECTED")
      \/ said.detected # "false" /\ PoorFinger(p, seen) /\ out = Out("review", "CAPTURE_QUALITY_INSUFFICIENT")
      \/ said.detected # "false" /\ ~PoorFinger(p, seen) /\ c.present /\ ~c.live /\ out = Out("rejected", "PAD_FAILED")
      \/ AtLeast(c.score, p.approve) /\ ~c.present /\ out = Out("review", "PAD_UNAVAILABLE_REVIEW_REQUIRED")
      \/ /\ said.detected # "false" /\ ~PoorFinger(p, seen) /\ ~(c.present /\ ~c.live)
         /\ ~(AtLeast(c.score, p.approve) /\ ~c.present) /\ out = ByScore(p, c.score)
  BY <1>2 DEF DecideFingerprint
<1>10. ByScore(p, c.score).decision = "approved" => AtLeast(c.score, p.approve)
  BY DEF ByScore, Out
<1> HIDE DEF out
<1>11. out.decision = "approved" =>
         /\ said.detected # "false" /\ ~PoorFinger(p, seen) /\ AtLeast(match.score, 2) /\ c.present /\ c.live
  BY <1>3, <1>6, <1>9, <1>10
<1>12. out.decision \in {"approved", "review", "rejected"}
  BY <1>6, <1>7, <1>9
<1>13. c.present => match.present # "false"
  BY Zenon DEF Truthy
<1>14. c.live => match.live # "false"
  BY Zenon DEF Truthy
<1>15. out.decision = "approved" => /\ ~Unusable(said, p)
                                    /\ match.score = 2 /\ match.present # "false" /\ match.live # "false"
  BY <1>5, <1>8, <1>11, <1>13, <1>14
<1> QED
  BY <1>12, <1>15 DEF out, seen, p

\* The rules on a fixture of the development provider.
LEMMA FixturesAreEvidenced ==
  ASSUME NEW f \in Fixture, NEW p \in Threshold
  PROVE  /\ \A c : c.score = FakeScore(f) /\ Decide(p, FakeFace(f), c).decision = "approved" =>
              f.live # "false" /\ (f.person = "same" \/ p.approve = 0)
         /\ DecideFingerprint(PLATFORM_DEFAULT_FP_POLICY, FakeFinger(f), FakeFingerComparison(f)).decision = "approved" =>
              f.live # "false" /\ f.person = "same"
<1>1. p.approve \in 0..2
  BY DEF Threshold
<1>2. FakeScore(f) = IF f.person = "same" THEN 2 ELSE 0
  BY DEF FakeScore
<1>3. ASSUME NEW c, c.score = FakeScore(f), Decide(p, FakeFace(f), c).decision = "approved"
      PROVE  f.live # "false" /\ (f.person = "same" \/ p.approve = 0)
  <2> DEFINE seen == FakeFace(f)
  <2>1. seen.live = (f.live # "false")
    BY DEF FakeFace, Truthy
  <2> HIDE DEF seen
  <2>2. ~Lifeless(p, seen) /\ AtLeast(c.score, p.approve)
    BY <1>3 DEF Decide, ByScore, Out, seen
  <2>3. seen.live
    BY <2>2 DEF Lifeless
  <2>4. f.live # "false"
    BY <2>1, <2>3
  <2>5. f.person # "same" => FakeScore(f) = 0 /\ AtLeast(0, p.approve)
    BY <1>2, <1>3, <2>2
  <2>6. AtLeast(0, p.approve) => p.approve = 0
    BY <1>1 DEF AtLeast
  <2> QED
    BY <2>4, <2>5, <2>6
<1>4. ASSUME DecideFingerprint(PLATFORM_DEFAULT_FP_POLICY, FakeFinger(f), FakeFingerComparison(f)).decision = "approved"
      PROVE  f.live # "false" /\ f.person = "same"
  <2> DEFINE c == FakeFingerComparison(f)
             seen == FakeFinger(f)
             q == PLATFORM_DEFAULT_FP_POLICY
  <2>1. c.score = FakeScore(f) /\ c.present = (FakePad(f) # "none") /\ c.live = (FakePad(f) = "live") /\ q.approve = 2
    BY DEF FakeFingerComparison, PLATFORM_DEFAULT_FP_POLICY
  <2> HIDE DEF c, seen, q
  <2>2. DecideFingerprint(q, seen, c).decision = "approved"
    BY <1>4 DEF c, seen, q
  <2>3. AtLeast(c.score, q.approve) /\ c.present /\ c.live
    BY <2>2 DEF DecideFingerprint, ByScore, Out
  <2>4. FakePad(f) = "live"
    BY <2>1, <2>3
  <2> QED
    BY <1>2, <2>1, <2>3, <2>4 DEF FakePad, Truthy, AtLeast
<1> QED
  BY <1>3, <1>4

\* The gates of an enrolment, for the sidecar's replies.
LEMMA TemplatesAreEvidenced ==
  ASSUME NEW p \in Threshold
  PROVE  /\ \A said \in FaceReply : EnrolGate("face", p, ReadFace(said)).decision = "enrolled" =>
              said.detected # "false" /\ ~Spoofed(said, p)
         /\ \A said \in FingerReply :
              EnrolGate("finger", PLATFORM_DEFAULT_FP_POLICY, ReadFinger(said)).decision = "enrolled" =>
                ~Unusable(said, PLATFORM_DEFAULT_FP_POLICY) /\ said.pad # "spoof"
         /\ \A source \in Source : \A q, seen : EnrolGate(source, q, seen).decision \in {"none", "enrolled"}
<1>1. ASSUME NEW said \in FaceReply, EnrolGate("face", p, ReadFace(said)).decision = "enrolled"
      PROVE  said.detected # "false" /\ ~Spoofed(said, p)
  <2> DEFINE seen == ReadFace(said)
  <2>1. /\ seen.detected = (said.detected # "false") /\ seen.live = (said.live # "false")
        /\ seen.liveness = said.liveness
    BY DEF FaceReply, ReadFace, Truthy
  <2> HIDE DEF seen
  <2>2. EnrolGate("face", p, seen).decision = "enrolled"
    BY <1>1 DEF seen
  <2>3. seen.detected /\ ~Lifeless(p, seen)
    BY <2>2 DEF EnrolGate, IsFace, Out
  <2> QED
    BY <2>1, <2>3 DEF Lifeless, Spoofed
<1>2. ASSUME NEW said \in FingerReply,
             EnrolGate("finger", PLATFORM_DEFAULT_FP_POLICY, ReadFinger(said)).decision = "enrolled"
      PROVE  ~Unusable(said, PLATFORM_DEFAULT_FP_POLICY) /\ said.pad # "spoof"
  <2> DEFINE seen == ReadFinger(said)
             q == PLATFORM_DEFAULT_FP_POLICY
  <2>1. /\ seen.detected = (said.detected # "false") /\ seen.quality = said.quality
        /\ seen.minutiae = said.minutiae /\ seen.pad = said.pad
        /\ DOMAIN said = {"detected", "quality", "minutiae", "pad"}
    BY DEF FingerReply, ReadFinger, Truthy
  <2> HIDE DEF seen, q
  <2>2. EnrolGate("finger", q, seen).decision = "enrolled"
    BY <1>2 DEF seen, q
  <2>3. seen.detected /\ ~PoorFinger(q, seen) /\ seen.pad # "spoof"
    BY <2>2 DEF EnrolGate, IsFace, Out
  <2>4. ~Unusable(said, q)
    BY <2>1, <2>3 DEF Unusable, PoorFinger, q
  <2> QED
    BY <2>1, <2>3, <2>4 DEF q
<1>3. ASSUME NEW source \in Source, NEW q, NEW seen
      PROVE  EnrolGate(source, q, seen).decision \in {"none", "enrolled"}
  BY DEF EnrolGate, Out
<1> QED
  BY <1>1, <1>2, <1>3

\* What a finished call looks like.
DoneCall(does, source, policy, said, match, out) ==
  [at |-> "done", does |-> does, source |-> source, policy |-> policy, said |-> said,
   match |-> match, out |-> out]

\* The outcome of a comparison.
Outcome(call, match) ==
  LET c == Comparison(call.source, call.said, match)
      seen == Analysis(call.source, call.said)
  IN IF c = None THEN Out("review", "SERVICE_UNAVAILABLE")
     ELSE IF IsFace(call.source) THEN Decide(Thresholds(call.policy), seen, c)
     ELSE DecideFingerprint(PLATFORM_DEFAULT_FP_POLICY, seen, c)

\* A comparison decides on the evidence, whichever provider gave it.
LEMMA ComparisonsAreEvident ==
  ASSUME NEW call, Typed(call), call.at = "compare", NEW match \in Match(call.source)
  PROVE  Evident(DoneCall(call.does, call.source, call.policy, call.said, match, Outcome(call, match)))
<1> DEFINE out == Outcome(call, match)
           row == DoneCall(call.does, call.source, call.policy, call.said, match, out)
           p == Thresholds(call.policy)
           c == Comparison(call.source, call.said, match)
<1>1. /\ row.source = call.source /\ row.policy = call.policy /\ row.said = call.said /\ row.match = match
      /\ row.out = out
  BY DEF DoneCall
<1>2. call.source \in Source /\ call.said \in Reply(call.source) /\ p \in Threshold
  BY CallFields, PoliciesHaveThresholds
<1>3. Out("review", "SERVICE_UNAVAILABLE").decision = "review"
  BY DEF Out
<1>4. c = None => out.decision = "review"
  BY <1>3 DEF Outcome
<1> HIDE DEF row
<1>5. ASSUME call.source = "face"
      PROVE  Evident(row)
  <2>1. call.said \in FaceReply /\ match \in Number /\ c = FaceComparison(match)
    BY <1>2, <1>5 DEF Reply, Match, Comparison
  <2>2. CASE match = NaN
    <3>1. out.decision = "review"
      BY <1>4, <2>1, <2>2 DEF FaceComparison
    <3> HIDE DEF out
    <3> QED
      BY <1>1, <1>5, <3>1 DEF Evident
  <2>3. CASE match # NaN
    <3>1. c.score = match
      BY <2>1, <2>3 DEF FaceComparison
    <3>2. out = Decide(p, ReadFace(call.said), c) \/ out.decision = "review"
      BY <1>4, <1>5 DEF Outcome, IsFace, Analysis
    <3> HIDE DEF out, p, c
    <3>3. CASE out = Decide(p, ReadFace(call.said), c)
      <4>1. /\ out.decision \in {"approved", "review", "rejected"}
            /\ out.decision = "approved" => /\ call.said.detected # "false" /\ ~Spoofed(call.said, p)
                                            /\ ~Unusable(call.said, p) /\ AtLeast(match, p.approve)
            /\ out.decision = "rejected" => \/ call.said.detected = "false" \/ Spoofed(call.said, p)
                                            \/ Less(match, p.review)
        BY <1>2, <2>1, <2>3, <3>1, <3>3, FacesAreEvidenced
      <4> QED
        BY <1>1, <1>5, <4>1 DEF Evident, p
    <3>4. CASE out.decision = "review"
      BY <1>1, <1>5, <3>4 DEF Evident
    <3> QED
      BY <3>2, <3>3, <3>4
  <2> QED
    BY <2>2, <2>3
<1>6. ASSUME call.source = "finger"
      PROVE  Evident(row)
  <2>1. call.said \in FingerReply /\ match \in FingerMatch /\ c = FingerComparison(match)
    BY <1>2, <1>6 DEF Reply, Match, Comparison
  <2>2. CASE match.score = NaN \/ Greater(match.score, 2)
    <3>1. out.decision = "review"
      BY <1>4, <2>1, <2>2 DEF FingerComparison
    <3> HIDE DEF out
    <3> QED
      BY <1>1, <1>6, <3>1 DEF Evident
  <2>3. CASE ~(match.score = NaN \/ Greater(match.score, 2))
    <3>1. c.score = match.score /\ c.present = Truthy(match.present) /\ c.live = Truthy(match.live)
      BY <2>1, <2>3 DEF FingerComparison
    <3>2. out = DecideFingerprint(PLATFORM_DEFAULT_FP_POLICY, ReadFinger(call.said), c) \/ out.decision = "review"
      BY <1>4, <1>6 DEF Outcome, IsFace, Analysis
    <3> HIDE DEF out, p, c
    <3>3. CASE out = DecideFingerprint(PLATFORM_DEFAULT_FP_POLICY, ReadFinger(call.said), c)
      <4>1. /\ out.decision \in {"approved", "review", "rejected"}
            /\ out.decision = "approved" => /\ ~Unusable(call.said, PLATFORM_DEFAULT_FP_POLICY)
                                            /\ match.score = 2 /\ match.present # "false" /\ match.live # "false"
        BY <2>1, <2>3, <3>1, <3>3, FingersAreEvidenced
      <4> QED
        BY <1>1, <1>6, <2>3, <4>1 DEF Evident
    <3>4. CASE out.decision = "review"
      BY <1>1, <1>6, <3>4 DEF Evident
    <3> QED
      BY <3>2, <3>3, <3>4
  <2> QED
    BY <2>2, <2>3
<1>7. ASSUME call.source \in {"fake face", "fake finger"}
      PROVE  Evident(row)
  <2>1. call.said \in Fixture
    BY <1>2, <1>7 DEF Reply
  <2>2. out.decision = "approved" =>
          call.said.live # "false" /\ (call.said.person = "same" \/ (IsFace(call.source) /\ p.approve = 0))
    <3>1. CASE call.source = "fake face"
      <4>1. c.score = FakeScore(call.said)
        BY <3>1 DEF Comparison
      <4>2. out = Decide(p, FakeFace(call.said), c) \/ out.decision = "review"
        BY <1>4, <3>1 DEF Outcome, IsFace, Analysis
      <4> HIDE DEF out, p, c
      <4> QED
        BY <1>2, <2>1, <3>1, <4>1, <4>2, FixturesAreEvidenced DEF IsFace
    <3>2. CASE call.source = "fake finger"
      <4>1. c = FakeFingerComparison(call.said)
        BY <3>2 DEF Comparison
      <4>2. \/ out = DecideFingerprint(PLATFORM_DEFAULT_FP_POLICY, FakeFinger(call.said), c)
            \/ out.decision = "review"
        BY <1>4, <3>2 DEF Outcome, IsFace, Analysis
      <4> HIDE DEF out, p, c
      <4> QED
        BY <1>2, <2>1, <4>1, <4>2, FixturesAreEvidenced
    <3> QED
      BY <1>7, <3>1, <3>2
  <2> HIDE DEF out
  <2> QED
    BY <1>1, <1>7, <2>2 DEF Evident
<1> QED
  BY <1>2, <1>5, <1>6, <1>7 DEF Source, row

\* createTemplate answers with a template or fails: it decides nothing else.
LEMMA TemplateDecisions ==
  ASSUME NEW x \in TemplateAnswers
  PROVE  x.decision \in {"enrolled", "none"}
<1>1. \A d, r : Out(d, r).decision = d
  BY DEF Out
<1>2. x = Out("enrolled", "none") \/ x = Out("none", "error")
  BY DEF TemplateAnswers
<1> QED
  BY <1>1, <1>2

\* An enrolment never approves or rejects, and makes no template of a spoof.
LEMMA EnrolmentsAreEvident ==
  ASSUME NEW call, Typed(call), call.at = "read policy", NEW policy \in Policy \cup {Default}, NEW out,
         LET q == IF IsFace(call.source) THEN Thresholds(policy) ELSE PLATFORM_DEFAULT_FP_POLICY
             gate == EnrolGate(call.source, q, Analysis(call.source, call.said))
         IN out \in IF gate.decision = "enrolled" THEN TemplateAnswers ELSE {gate}
  PROVE  Evident(DoneCall(call.does, call.source, policy, call.said, None, out))
<1> DEFINE row == DoneCall(call.does, call.source, policy, call.said, None, out)
           q == IF IsFace(call.source) THEN Thresholds(policy) ELSE PLATFORM_DEFAULT_FP_POLICY
           seen == Analysis(call.source, call.said)
           gate == EnrolGate(call.source, q, seen)
<1>1. /\ row.source = call.source /\ row.policy = policy /\ row.said = call.said /\ row.match = None
      /\ row.out = out
  BY DEF DoneCall
<1>2. call.source \in Source /\ call.said \in Reply(call.source) /\ Thresholds(policy) \in Threshold
  BY CallFields, PoliciesHaveThresholds
<1>3. out \in IF gate.decision = "enrolled" THEN TemplateAnswers ELSE {gate}
  OBVIOUS
<1> HIDE DEF row
<1>4. gate.decision \in {"none", "enrolled"}
  <2> HIDE DEF q, seen
  <2> QED
    BY <1>2, TemplatesAreEvidenced
<1>5. \A x \in TemplateAnswers : x.decision \in {"enrolled", "none"}
  BY TemplateDecisions
<1> HIDE DEF gate
<1>6. out.decision \in {"none", "enrolled"} /\ (out.decision = "enrolled" => gate.decision = "enrolled")
  BY <1>3, <1>4, <1>5
<1>7. CASE call.source = "face"
  <2>1. call.said \in FaceReply /\ gate = EnrolGate("face", Thresholds(policy), ReadFace(call.said))
    BY <1>2, <1>7 DEF Reply, gate, IsFace, Analysis
  <2>2. out.decision = "enrolled" => call.said.detected # "false" /\ ~Spoofed(call.said, Thresholds(policy))
    BY <1>2, <1>6, <2>1, TemplatesAreEvidenced
  <2>3. Evident(row)
    BY <1>1, <1>6, <1>7, <2>2 DEF Evident
  <2> QED
    BY <2>3 DEF row
<1>8. CASE call.source = "finger"
  <2>1. call.said \in FingerReply
          /\ gate = EnrolGate("finger", PLATFORM_DEFAULT_FP_POLICY, ReadFinger(call.said))
    BY <1>2, <1>8 DEF Reply, gate, IsFace, Analysis
  <2>2. out.decision = "enrolled" => ~Unusable(call.said, PLATFORM_DEFAULT_FP_POLICY) /\ call.said.pad # "spoof"
    BY <1>2, <1>6, <2>1, TemplatesAreEvidenced
  <2>3. Evident(row)
    BY <1>1, <1>6, <1>8, <2>2 DEF Evident
  <2> QED
    BY <2>3 DEF row
<1>9. CASE call.source \in {"fake face", "fake finger"}
  <2>1. Evident(row)
    BY <1>1, <1>6, <1>9 DEF Evident
  <2> QED
    BY <2>1 DEF row
<1> QED
  BY <1>2, <1>7, <1>8, <1>9 DEF Source

\* One call moves, typed or done with its evidence; the others stay.
LEMMA CallMoves ==
  ASSUME DecisionsInv, NEW a \in Attempt, NEW row, attempt' = [attempt EXCEPT ![a] = row],
         activePolicy' = activePolicy, Typed(row) \/ (row # Resting /\ row.at = "done" /\ Evident(row))
  PROVE  DecisionsInv'
<1>1. DOMAIN attempt = Attempt
  BY DEF DecisionsInv
<1>2. attempt'[a] = row /\ \A b \in Attempt : b # a => attempt'[b] = attempt[b]
  BY <1>1
<1>3. attempt' = [b \in Attempt |-> attempt'[b]]
  BY <1>1
<1>4. ASSUME NEW b \in Attempt
      PROVE  Typed(attempt'[b]) \/ (Finished(b)' /\ Evident(attempt'[b]))
  BY <1>2 DEF DecisionsInv, Finished
<1> QED
  BY <1>3, <1>4 DEF DecisionsInv

\* The invariant of decisions, for every set of calls and policies.
THEOREM DecisionsInvariant == DecisionsSpec => []DecisionsInv
<1>1. DecisionsInit => DecisionsInv
  BY DEF DecisionsInit, DecisionsInv, Typed
<1>2. DecisionsInv /\ [DecisionsNext]_decisionVars => DecisionsInv'
  <2> SUFFICES ASSUME DecisionsInv, [DecisionsNext]_decisionVars
               PROVE  DecisionsInv'
    OBVIOUS
  <2>0. /\ InForce \in Policy \cup {Default} /\ DOMAIN attempt = Attempt
        /\ \A a \in Attempt : attempt[a].at # "done" => Typed(attempt[a])
    BY DEF DecisionsInv, InForce, Finished
  <2>1. ASSUME NEW a \in Attempt, NEW source \in Source, BeginAttempt(a, source)
        PROVE  DecisionsInv'
    <3>1. PICK row \in {[at |-> "analyse", does |-> "verify", source |-> source, policy |-> InForce],
                        [at |-> "analyse", does |-> "enrol", source |-> source]} :
            attempt' = [attempt EXCEPT ![a] = row]
      BY <2>1 DEF BeginAttempt
    <3>2. row \in Verifying \/ row \in Enrolling
      BY <2>0, <3>1 DEF Verifying, Enrolling
    <3>3. Typed(row)
      BY <3>2 DEF Typed, Working
    <3> QED
      BY <2>1, <3>1, <3>3, CallMoves DEF BeginAttempt
  <2>2. ASSUME NEW a \in Attempt, Analyse(a)
        PROVE  DecisionsInv'
    <3> DEFINE call == attempt[a]
    <3>1. /\ call.source \in Source /\ call.does \in {"verify", "enrol"}
          /\ call.does = "verify" => call.policy \in Policy \cup {Default}
      BY <2>0, <2>2, CallFields DEF Analyse
    <3>2. PICK said \in Reply(call.source) :
            attempt' = [attempt EXCEPT ![a] =
              IF call.does = "verify"
              THEN [at |-> "compare", does |-> "verify", source |-> call.source, policy |-> call.policy, said |-> said]
              ELSE [at |-> "read policy", does |-> "enrol", source |-> call.source, said |-> said]]
      BY <2>2 DEF Analyse
    <3>3. PICK source, policy : source \in Source /\ source = call.source /\ policy = call.policy
      BY <3>1
    <3> DEFINE compares == [at |-> "compare", does |-> "verify", source |-> source, policy |-> policy, said |-> said]
               reads == [at |-> "read policy", does |-> "enrol", source |-> source, said |-> said]
    <3>4. call.does = "verify" => compares \in Comparing(source)
      BY <3>1, <3>2, <3>3 DEF Comparing
    <3>5. reads \in Reading(source)
      BY <3>1, <3>2, <3>3 DEF Reading
    <3>6. PICK row : /\ attempt' = [attempt EXCEPT ![a] = row]
                     /\ (call.does = "verify" /\ row = compares) \/ row = reads
      BY <3>2, <3>3
    <3> HIDE DEF compares, reads, call
    <3>7. Typed(row)
      BY <3>3, <3>4, <3>5, <3>6 DEF Typed, Working
    <3> QED
      BY <2>2, <3>6, <3>7, CallMoves DEF Analyse
  <2>3. ASSUME NEW a \in Attempt, Compare(a)
        PROVE  DecisionsInv'
    <3>1. PICK call : call = attempt[a]
      OBVIOUS
    <3>2. Typed(call) /\ call.at = "compare"
      BY <2>0, <2>3, <3>1 DEF Compare
    <3>3. PICK match \in Match(call.source) : Concludes(a, Outcome(call, match), call.policy, match)
      BY <2>3, <3>1 DEF Compare, Outcome
    <3> DEFINE row == DoneCall(call.does, call.source, call.policy, call.said, match, Outcome(call, match))
    <3>4. attempt' = [attempt EXCEPT ![a] = row]
      BY <3>1, <3>3 DEF Concludes, DoneCall
    <3>5. row.at = "done" /\ row # Resting
      BY DEF DoneCall, Resting
    <3>6. Evident(row)
      BY <3>2, ComparisonsAreEvident
    <3> HIDE DEF row
    <3> QED
      BY <2>3, <3>4, <3>5, <3>6, CallMoves DEF Compare
  <2>4. ASSUME NEW a \in Attempt, Enrol(a)
        PROVE  DecisionsInv'
    <3>1. PICK call, policy : call = attempt[a] /\ policy = InForce
      OBVIOUS
    <3>2. Typed(call) /\ call.at = "read policy" /\ policy \in Policy \cup {Default}
      BY <2>0, <2>4, <3>1 DEF Enrol
    <3> DEFINE q == IF IsFace(call.source) THEN Thresholds(policy) ELSE PLATFORM_DEFAULT_FP_POLICY
               gate == EnrolGate(call.source, q, Analysis(call.source, call.said))
    <3>3. PICK out \in (IF gate.decision = "enrolled" THEN TemplateAnswers ELSE {gate}) :
            Concludes(a, out, policy, None)
      BY <2>4, <3>1 DEF Enrol, PolicyFor
    <3> DEFINE row == DoneCall(call.does, call.source, policy, call.said, None, out)
    <3>4. attempt' = [attempt EXCEPT ![a] = row]
      BY <3>1, <3>3 DEF Concludes, DoneCall
    <3>5. row.at = "done" /\ row # Resting
      BY DEF DoneCall, Resting
    <3>6. Evident(row)
      BY <3>2, <3>3, EnrolmentsAreEvident
    <3> HIDE DEF row
    <3> QED
      BY <2>4, <3>4, <3>5, <3>6, CallMoves DEF Enrol
  <2>5. ASSUME NEW a \in Attempt, ProviderLetsDown(a)
        PROVE  DecisionsInv'
    <3>1. PICK out \in {Out("none", "error"), Out("review", "SERVICE_UNAVAILABLE")} :
            attempt' = [attempt EXCEPT ![a] = [at |-> "done", does |-> attempt[a].does,
                                               source |-> "unavailable", out |-> out]]
      BY <2>5 DEF ProviderLetsDown
    <3>2. PICK row : /\ row = [at |-> "done", does |-> attempt[a].does, source |-> "unavailable", out |-> out]
                     /\ attempt' = [attempt EXCEPT ![a] = row]
      BY <3>1
    <3>3. row.at = "done" /\ row # Resting /\ row.source = "unavailable" /\ row.out = out
      BY <3>2 DEF Resting
    <3>4. out.decision \in {"none", "review"}
      BY <3>1 DEF Out
    <3>5. Evident(row)
      BY <3>3, <3>4 DEF Evident
    <3> QED
      BY <2>5, <3>2, <3>3, <3>5, CallMoves DEF ProviderLetsDown
  <2>6. ASSUME NEW p \in Policy, SetPolicy(p)
        PROVE  DecisionsInv'
    BY <2>6 DEF SetPolicy, DecisionsInv, Finished
  <2>7. CASE UNCHANGED decisionVars
    BY <2>7 DEF decisionVars, DecisionsInv, Finished
  <2> QED
    BY <2>1, <2>2, <2>3, <2>4, <2>5, <2>6, <2>7 DEF DecisionsNext
<1> QED
  BY <1>1, <1>2, PTL DEF DecisionsSpec

\* Every outcome has its evidence, under the policy its call read (server/verification/decision.ts,
\* service.ts, providers.ts), whatever policy is switched to meanwhile.
THEOREM OutcomesAreAlwaysEvidenced == DecisionsSpec => []OutcomesAreEvidenced
<1>1. DecisionsInv => OutcomesAreEvidenced
  BY CallFields DEF DecisionsInv, OutcomesAreEvidenced, Finished
<1> QED
  BY <1>1, DecisionsInvariant, PTL
=============================================================================
