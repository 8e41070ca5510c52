------------------------- MODULE CompositionProofs -------------------------
(***************************************************************************)
(* What TLC checks on MCPlatform is what the theorems about its parts say: *)
(* whatever a behaviour of MCPlatform moves, it is a behaviour of every    *)
(* part that shares nothing with the others, and the parts that share the  *)
(* memberships keep their invariants while they are the ones that move.    *)
(***************************************************************************)
EXTENDS MCPlatform, AccessProofs, PlatformProofs, AuditProofs

\* A step of the whole is a step of each part or leaves it alone.
LEMMA StepsOfParts ==
  ASSUME [PlatformNext]_platformVars
  PROVE  /\ [ApiNext]_apiVars /\ [KeysNext]_keyVars /\ [StartupNext]_startVars
         /\ [DecisionsNext]_decisionVars /\ [ClientsNext]_clientVars /\ [LeadsNext]_leadVars
         /\ [Next]_vars
<1>1. CASE UNCHANGED platformVars
  BY <1>1 DEF platformVars
<1>2. CASE PlatformNext
  <2>1. CASE \/ Unmoved("members") \/ Unmoved("tenants") \/ Unmoved("logins") \/ Unmoved("rotations")
    BY <2>1 DEF Unmoved
  <2>2. CASE (Unmoved("requests") /\ RequestsMove) \/ (Unmoved("secrets") /\ SecretsMove)
    BY <2>2 DEF Unmoved, RequestsMove, SecretsMove
  <2>3. CASE Unmoved("keys") /\ KeysNext
    BY <2>3 DEF Unmoved
  <2>4. CASE (Unmoved("migrations") /\ MigrationsMove) \/ (Unmoved("adapters") /\ AdaptersMove)
    BY <2>4 DEF Unmoved, MigrationsMove, AdaptersMove
  <2>5. CASE Unmoved("decisions") /\ DecisionsNext
    BY <2>5 DEF Unmoved
  <2>6. CASE Unmoved("clients") /\ ClientsMove
    BY <2>6 DEF Unmoved, ClientsMove
  <2>7. CASE Unmoved("leads") /\ LeadsMove
    BY <2>7 DEF Unmoved, LeadsMove
  <2>8. CASE Unmoved("audit") /\ AuditMoves
    BY <2>8 DEF Unmoved, AuditMoves
  <2> QED
    BY <1>2, <2>1, <2>2, <2>3, <2>4, <2>5, <2>6, <2>7, <2>8 DEF PlatformNext
<1> QED
  BY <1>1, <1>2

\* Every behaviour TLC explores is one of each of these parts, so that their theorems say of
\* every instance what the run checks on one.
THEOREM PlatformRunsItsParts ==
  PlatformSpec => /\ ApiSpec /\ KeysSpec /\ StartupSpec /\ DecisionsSpec /\ ClientsSpec
                  /\ LeadsSpec /\ Spec
<1>1. PlatformInit => /\ ApiInit /\ KeysInit /\ StartupInit /\ DecisionsInit /\ ClientsInit
                      /\ LeadsInit /\ Init
  BY DEF PlatformInit
<1>2. [PlatformNext]_platformVars =>
         /\ [ApiNext]_apiVars /\ [KeysNext]_keyVars /\ [StartupNext]_startVars
         /\ [DecisionsNext]_decisionVars /\ [ClientsNext]_clientVars /\ [LeadsNext]_leadVars
         /\ [Next]_vars
  BY StepsOfParts
<1> QED
  BY <1>1, <1>2, PTL
  DEF PlatformSpec, ApiSpec, KeysSpec, StartupSpec, DecisionsSpec, ClientsSpec, LeadsSpec, Spec

\* The invariants of the parts that share the memberships, where they are what moves.
SharedInv ==
  /\ focus \in {"members", "tenants"} => TenancyInv
  /\ focus \in {"logins", "rotations"} => AccountsInv

\* Every step keeps them.
LEMMA SharedKept == SharedInv /\ [PlatformNext]_platformVars => SharedInv'
<1> SUFFICES ASSUME SharedInv, [PlatformNext]_platformVars
             PROVE  SharedInv'
  OBVIOUS
<1>1. UNCHANGED focus
  BY DEF PlatformNext, Unmoved, platformVars
<1>2. CASE focus \in {"members", "tenants"}
  <2>1. [TenancyNext]_tenancyVars
    <3>1. CASE UNCHANGED platformVars
      BY <3>1 DEF platformVars
    <3>2. CASE PlatformNext
      BY <1>2, <3>2 DEF PlatformNext, Unmoved, CallsOverlap, TenantsMove
    <3> QED
      BY <3>1, <3>2
  <2>2. TenancyInv'
    BY <1>2, <2>1, TenancyKept DEF SharedInv
  <2> QED
    BY <1>1, <1>2, <2>2 DEF SharedInv
<1>3. CASE focus \in {"logins", "rotations"}
  <2>1. [AccountsNext]_<<members, accountVars>>
    <3>1. CASE UNCHANGED platformVars
      BY <3>1 DEF platformVars, tenancyVars
    <3>2. CASE LoginsMove
      BY <3>2 DEF LoginsMove, AccountsMove, CreateOrganisation
    <3>3. CASE RotationsMove
      BY <3>3 DEF RotationsMove, AccountsMove
    <3>4. PlatformNext => LoginsMove \/ RotationsMove
      BY <1>3 DEF PlatformNext, Unmoved
    <3> QED
      BY <3>1, <3>2, <3>3, <3>4
  <2>2. AccountsInv'
    BY <1>3, <2>1, AccountsKept DEF SharedInv
  <2> QED
    BY <1>1, <1>3, <2>2 DEF SharedInv
<1>4. CASE focus \notin {"members", "tenants", "logins", "rotations"}
  BY <1>1, <1>4 DEF SharedInv
<1> QED
  BY <1>2, <1>3, <1>4

\* Memberships, logins and sessions keep the invariants their theorems rest on.
THEOREM SharedInvariant == PlatformSpec => []SharedInv
<1>1. PlatformInit => SharedInv
  BY TenancyInitially, AccountsInitially DEF PlatformInit, SharedInv, TenancyInit
<1> QED
  BY <1>1, SharedKept, PTL DEF PlatformSpec

\* Every table and every handler's locals have the types the code gives them, in every instance.
THEOREM PlatformIsTyped == PlatformSpec => []PlatformTypeOK
<1>1. SharedInv /\ SecretInv /\ RequestInv /\ KeysInv /\ StartupInv /\ DecisionsInv /\ ClientsInv
        /\ LeadsInv /\ ExportInv => PlatformTypeOK
  <2>1. SecretInv /\ RequestInv => ApiTypeOK
    BY DEF SecretInv, RequestInv, SecretTypes, RequestTypes, ApiTypeOK
  <2>2. DecisionsInv => DecisionsTypeOK
    BY DEF DecisionsInv, DecisionsTypeOK, Typed
  <2>3. (KeysInv => KeysTypeOK) /\ (StartupInv => StartupTypeOK) /\ (ClientsInv => ClientsTypeOK)
    BY DEF KeysInv, StartupInv, ClientsInv
  <2>4. (LeadsInv => LeadsTypeOK) /\ (ExportInv => TypeOK)
    BY DEF LeadsInv, ExportInv
  <2>5. (TenancyInv => TenancyTypeOK) /\ (AccountsInv => RolesTypeOK /\ AccountsTypeOK)
    BY DEF TenancyInv, AccountsInv
  <2> QED
    BY <2>1, <2>2, <2>3, <2>4, <2>5 DEF SharedInv, PlatformTypeOK
<1> QED
  BY <1>1, PlatformRunsItsParts, SharedInvariant, ApiInvariant, KeysInvariant, StartupInvariant,
     DecisionsInvariant, ClientsInvariant, LeadsInvariant, ExportsInvariant, PTL

=============================================================================
