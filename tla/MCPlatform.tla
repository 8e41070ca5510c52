----------------------------- MODULE MCPlatform -----------------------------
(***************************************************************************)
(* The components around the biometric core, side by side.  They share no  *)
(* table that a property relates, so every behaviour moves the component   *)
(* it has chosen and leaves the others as they start.  (Accounts brings    *)
(* its own moves of memberships.)  What is alike is taken in one order:    *)
(* the second request, token or process starts after the first.            *)
(***************************************************************************)
EXTENDS Tenancy, Accounts, ApiAccess, Keys, Startup, Decisions, Clients, Leads, AuditExport

LOCAL INSTANCE SequencesExt

CONSTANT Focus    \* the components moved in this run

VARIABLE focus    \* the one moved in this behaviour

platformVars == <<tenancyVars, accountVars, apiVars, keyVars, startVars, decisionVars, clientVars,
                  leadVars, vars, focus>>

-----------------------------------------------------------------------------
\* Users u1 (who founds o1) and u2 (who founds o2, and looks after the platform's security);
\* u1 has the recovery codes.
MCFounder == [o \in Org |-> IF o = "o1" THEN {"u1"} ELSE {"u2"}]
MCPlatformRole == [u \in User |-> IF u = "u2" THEN "platform_security_admin" ELSE None]
MCOwnerOf == [k \in Code |-> "u1"]
MCGrant == {{"verification:create"}}
MCChoice == {[AtFirst EXCEPT !.modality = "face"]}

\* A policy stricter than the platform's.
MCPolicyOf == [p \in Policy |->
  [quality |-> 2, pose |-> 0, occlusion |-> 1, liveness |-> 2, approve |-> 2, review |-> 2]]

\* Production and staging as documented, a development build on a server, a laptop.
Deployed(app, node, url, driver, core, kms) ==
  [app |-> app, node |-> node, url |-> url, driver |-> driver, core |-> core, kms |-> kms,
   keyId |-> kms = "aws", master |-> kms = "local", rest |-> core # "none"]
MCDeployment ==
  {Deployed("production", "production", TRUE, "unset", "https", "aws"),
   Deployed("staging", "production", TRUE, "unset", "https", "local"),
   Deployed("development", "production", TRUE, "unset", "none", "local"),
   Deployed("development", "development", FALSE, "pglite", "none", "local")}

-----------------------------------------------------------------------------
CallOrder == SetToSeq(Call)
LoginOrder == SetToSeq(Login)
RotationOrder == SetToSeq(Rotation)
TokenOrder == SetToSeq(Token)
RequestOrder == SetToSeq(Request)
BodyOrder == SetToSeq(Body)
TeamOrder == SetToSeq(Team)
TicketOrder == SetToSeq(Ticket)
UploadOrder == SetToSeq(Upload)
PromptOrder == SetToSeq(Prompt)
VisitOrder == SetToSeq(Visit)
EventOrder == SetToSeq(Event)
ExportOrder == SetToSeq(Export)
ExporterOrder == SetToSeq(Exporter)
Taken == {worker[x] : x \in Export}

\* What leaves its resting state is the first there.
InOrder(order, rest, old, new) ==
  \A i, j \in DOMAIN order :
    j < i /\ old[order[i]] = rest /\ new[order[i]] # rest => old[order[j]] # rest

\* Overlapping calls on one organisation; and calls on two organisations, one after another.
CallsOverlap ==
  /\ TenancyNext
  /\ InOrder(CallOrder, Idle, calls, calls')
  /\ organisations'["o2"] = None

TenantsMove == TenancyNext /\ \A c \in Call : c # CallOrder[1] => calls'[c] = Idle

\* u1 founds o1, joins it as its owner and is removed, while logins of u1 are under way (one of
\* which may end in a session, which then stands); or u2 signs in.
AccountsMove ==
  /\ AccountsNext
  /\ InOrder(LoginOrder, AtRest, logins, logins')
  /\ InOrder(RotationOrder, AtRest, rotations, rotations')
  /\ InOrder(TokenOrder, None, sessions, sessions')
  /\ UNCHANGED <<organisations, calls>>

IsRegistered(u) == users[u].email # "none"
Owns(u, o) == organisations[o] = u /\ members'[<<u, o>>].role = "organisation_owner"
LoginsMove ==
  \/ CreateOrganisation(CallOrder[1], "u1", "o1") /\ ~IsRegistered("u2") /\ UNCHANGED accountVars
  \/ /\ AccountsMove /\ UNCHANGED rotations
     /\ \A t \in Token \ {TokenOrder[1]} : sessions'[t] = None
     /\ sessions[TokenOrder[1]] # None => UNCHANGED sessions
     /\ \A u \in User, o \in Org : members'[<<u, o>>] # None => Owns(u, o)
     /\ IsRegistered("u2")' => ~IsRegistered("u1")' /\ organisations["o1"] = None

\* Sessions are rotated only by users who sign in with a password alone.
RotationsMove ==
  /\ AccountsMove /\ UNCHANGED <<members, codes>>
  /\ \A u \in Account : users'[u].failed = 0 /\ ~users'[u].mfa
  /\ ~IsRegistered("u2")'

\* Keys of one team without endpoints and pages, the first request with the first body; and
\* requests left aside.
RequestsMove ==
  /\ ApiNext
  /\ InOrder(RequestOrder, NotSent, requests, requests')
  /\ LET first == requests'[RequestOrder[1]] IN first # NotSent => first.body = BodyOrder[1]
  /\ \A k \in Key : apiKeys'[k] # None => apiKeys'[k].team = TeamOrder[1]
  /\ UNCHANGED <<hooks, views>> /\ \A k \in Key : flash'[k] \in {"unknown", "minted"}
SecretsMove == ApiNext /\ UNCHANGED requests

\* The database; and what else a process finds on its way.
MigrationsMove == StartupNext /\ UNCHANGED <<adapter, provider>>
AdaptersMove == StartupNext /\ \A p \in Web : db'[p].is \in {"none", "pglite", "failed"}

ClientsMove ==
  /\ ClientsNext
  /\ InOrder(TicketOrder, None, tickets, tickets')
  /\ InOrder(UploadOrder, None, uploads, uploads')
  /\ InOrder(PromptOrder, None, prompts, prompts')

\* The last visitor fills the form in.
LeadsMove ==
  /\ LeadsNext
  /\ InOrder(VisitOrder, None, posts, posts')
  /\ LET last == posts'[VisitOrder[Len(VisitOrder)]] IN last = None \/ last.filled = "complete"

\* The processes take exports in order; one that has stored a segment restarts.
AuditMoves ==
  /\ Next
  /\ InOrder(EventOrder, "start", at, at') /\ InOrder(ExportOrder, "start", step, step')
  /\ InOrder(ExporterOrder, FALSE, [w \in Exporter |-> w \in Taken], [w \in Exporter |-> w \in Taken'])
  /\ \/ forgotten' = forgotten
     \/ forgotten = {}

-----------------------------------------------------------------------------
PlatformInit ==
  /\ TenancyInit /\ AccountsInit /\ ApiInit /\ KeysInit /\ StartupInit /\ DecisionsInit
  /\ ClientsInit /\ LeadsInit /\ Init
  /\ focus \in Focus

Unmoved(name) ==
  /\ focus = name /\ UNCHANGED focus
  /\ name \notin {"members", "tenants"} => UNCHANGED <<invites, workspaces, projects>>
  /\ name \notin {"members", "tenants", "logins", "rotations"} => UNCHANGED <<organisations, calls>>
  /\ name \notin {"members", "tenants", "logins", "rotations"} => UNCHANGED members
  /\ name \notin {"logins", "rotations"} => UNCHANGED accountVars
  /\ name \notin {"requests", "secrets"} => UNCHANGED apiVars
  /\ name # "keys" => UNCHANGED keyVars
  /\ name \notin {"migrations", "adapters"} => UNCHANGED startVars
  /\ name # "decisions" => UNCHANGED decisionVars
  /\ name # "clients" => UNCHANGED clientVars
  /\ name # "leads" => UNCHANGED leadVars
  /\ name # "audit" => UNCHANGED vars

PlatformNext ==
  \/ Unmoved("members") /\ CallsOverlap
  \/ Unmoved("tenants") /\ TenantsMove
  \/ Unmoved("logins") /\ LoginsMove
  \/ Unmoved("rotations") /\ RotationsMove
  \/ Unmoved("requests") /\ RequestsMove
  \/ Unmoved("secrets") /\ SecretsMove
  \/ Unmoved("keys") /\ KeysNext
  \/ Unmoved("migrations") /\ MigrationsMove
  \/ Unmoved("adapters") /\ AdaptersMove
  \/ Unmoved("decisions") /\ DecisionsNext
  \/ Unmoved("clients") /\ ClientsMove
  \/ Unmoved("leads") /\ LeadsMove
  \/ Unmoved("audit") /\ AuditMoves

PlatformSpec == PlatformInit /\ [][PlatformNext]_platformVars

-----------------------------------------------------------------------------
\* The rows and the locals of the component that moves have the types its code gives them (the
\* others are at their start).
PlatformTypeOK ==
  /\ focus \in {"members", "tenants"} => TenancyTypeOK
  /\ focus \in {"logins", "rotations"} => RolesTypeOK /\ AccountsTypeOK
  /\ focus \in {"requests", "secrets"} => ApiTypeOK
  /\ focus = "keys" => KeysTypeOK
  /\ focus \in {"migrations", "adapters"} => StartupTypeOK
  /\ focus = "decisions" => DecisionsTypeOK
  /\ focus = "clients" => ClientsTypeOK
  /\ focus = "leads" => LeadsTypeOK
  /\ focus = "audit" => TypeOK
=============================================================================
