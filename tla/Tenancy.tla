------------------------------ MODULE Tenancy ------------------------------
(***************************************************************************)
(* Organisations, invitations and projects (server/tenancy/service.ts)     *)
(* behind the one permission check (server/authz/policy.ts).  Every        *)
(* handler is a call that reads its permission first and writes later, so  *)
(* calls interleave between the two, and may die there.                    *)
(***************************************************************************)
EXTENDS Roles

CONSTANTS
  Founder,        \* who may create each organisation (a bound): [Org -> SUBSET User]
  Invite,         \* ids of invitations
  Call            \* handler executions in flight

VARIABLES
  organisations,  \* who created each organisation, or None
  invites,        \* invitations, or None
  workspaces,     \* who created the workspace of each organisation (at most one), or None
  projects,       \* each organisation's project (at most one): [workspace, by], or None
  calls           \* what each call was allowed to do and has not done yet

tenancyVars == <<members, organisations, invites, workspaces, projects, calls>>

Idle == [op |-> "idle"]
Status == {"open", "accepted", "expired"}
InviteRow == [org : Org, email : User, role : Role, by : User, status : Status]
Project == [workspace : Org, by : User]
ASSUME NoneIsNoTenancyRow == None \notin User \cup InviteRow \cup Project

Pending ==
  [op : {"found", "workspace"}, by : User, org : Org]
    \cup [op : {"project"}, by : User, org : Org, workspace : Org]
    \cup [op : {"invite"}, by : User, org : Org, email : User, role : Role]
    \cup [op : {"remove"}, by : User, org : Org, target : User]
    \cup [op : {"join", "close"}, by : User, invite : Invite]

TenancyTypeOK ==
  /\ RolesTypeOK
  /\ organisations \in [Org -> User \cup {None}]
  /\ invites \in [Invite -> InviteRow \cup {None}]
  /\ workspaces \in [Org -> User \cup {None}]
  /\ projects \in [Org -> Project \cup {None}]
  /\ calls \in [Call -> Pending \cup {Idle}]

TenancyInit ==
  /\ RolesInit
  /\ organisations = [o \in Org |-> None]
  /\ invites = [i \in Invite |-> None]
  /\ workspaces = [o \in Org |-> None]
  /\ projects = [o \in Org |-> None]
  /\ calls = [c \in Call |-> Idle]

-----------------------------------------------------------------------------
ORG_ROLE_PERMISSIONS ==
  [organisation_owner |-> {"org:manage", "org:read", "members:invite", "members:manage",
     "projects:create", "projects:read", "apikeys:create", "apikeys:read", "apikeys:revoke",
     "audit:read", "audit:export", "policies:approve", "sso:configure"},
   organisation_admin |-> {"org:read", "members:invite", "members:manage", "projects:create",
     "projects:read", "apikeys:create", "apikeys:read", "apikeys:revoke", "audit:read",
     "audit:export"},
   compliance_officer |-> {"org:read", "projects:read", "audit:read", "audit:export",
     "policies:approve"},
   integration_developer |-> {"org:read", "projects:read", "apikeys:create", "apikeys:read"},
   reviewer |-> {"org:read", "projects:read", "reviews:decide"},
   analyst |-> {"org:read", "projects:read", "audit:read"},
   read_only |-> {"org:read", "projects:read"}]

Oversight == {"audit:read", "audit:export", "org:read", "projects:read"}

\* authorize: a platform role first, then the caller's active row in that organisation.
Authorised(u, o, permission) ==
  \/ PlatformRole[u] = "platform_super_admin"
  \/ PlatformRole[u] = "platform_security_admin" /\ permission \in Oversight
  \/ IsActive(u, o) /\ permission \in ORG_ROLE_PERMISSIONS[members[<<u, o>>].role]

-----------------------------------------------------------------------------
\* A call that has passed its checks and goes on to its writes.
Starts(c, pending) == calls[c] = Idle /\ calls' = [calls EXCEPT ![c] = pending]
Ends(c) == calls' = [calls EXCEPT ![c] = Idle]

\* Any signed-in user may create an organisation: its row first, then the founder's membership.
CreateOrganisation(c, u, o) ==
  /\ organisations[o] = None /\ u \in Founder[o]
  /\ organisations' = [organisations EXCEPT ![o] = u]
  /\ Starts(c, [op |-> "found", by |-> u, org |-> o])
  /\ UNCHANGED <<members, invites, workspaces, projects>>

AddFounder(c) ==
  /\ calls[c].op = "found"
  /\ Joins(calls[c].by, calls[c].org, "organisation_owner")
  /\ Ends(c)
  /\ UNCHANGED <<organisations, invites, workspaces, projects>>

AllowWorkspace(u, o) == workspaces[o] = None /\ Authorised(u, o, "org:manage")
\* Mutant: any workspace will do.
AllowProjectAnywhere(u, o, w) == projects[o] = None /\ Authorised(u, o, "projects:create") /\ workspaces[w] # None

AllowProject(u, o, w) == projects[o] = None /\ Authorised(u, o, "projects:create") /\ w = o /\ workspaces[w] # None

\* To offer ownership takes the owner's own permission as well.
AllowInvite(u, o, role) ==
  /\ Authorised(u, o, "members:invite")
  /\ role = "organisation_owner" => Authorised(u, o, "org:manage")

AllowRemove(u, o) == Authorised(u, o, "members:manage")

\* The checks of createWorkspace, createProject, inviteMember and removeMember.
Authorise(c) ==
  /\ \E u \in User, o \in {o \in Org : organisations[o] # None} :
       \/ AllowWorkspace(u, o) /\ Starts(c, [op |-> "workspace", by |-> u, org |-> o])
       \/ \E w \in Org : AllowProject(u, o, w)
            /\ Starts(c, [op |-> "project", by |-> u, org |-> o, workspace |-> w])
       \/ \E email \in User, role \in Offered : AllowInvite(u, o, role)
            /\ Starts(c, [op |-> "invite", by |-> u, org |-> o, email |-> email, role |-> role])
       \/ \E target \in User : AllowRemove(u, o)
            /\ Starts(c, [op |-> "remove", by |-> u, org |-> o, target |-> target])
  /\ UNCHANGED <<members, organisations, invites, workspaces, projects>>

CreateWorkspace(c) ==
  /\ calls[c].op = "workspace"
  /\ workspaces[calls[c].org] = None
  /\ workspaces' = [workspaces EXCEPT ![calls[c].org] = calls[c].by]
  /\ Ends(c)
  /\ UNCHANGED <<members, organisations, invites, projects>>

\* The project and its sandbox and production environments, which nobody reads in between.
CreateProject(c) ==
  /\ calls[c].op = "project"
  /\ projects[calls[c].org] = None
  /\ projects' = [projects EXCEPT ![calls[c].org] = [workspace |-> calls[c].workspace, by |-> calls[c].by]]
  /\ Ends(c)
  /\ UNCHANGED <<members, organisations, invites, workspaces>>

InviteMember(c, i) ==
  LET call == calls[c] IN
  /\ call.op = "invite"
  /\ invites[i] = None
  /\ invites' = [invites EXCEPT ![i] = [org |-> call.org, email |-> call.email, role |-> call.role,
                                        by |-> call.by, status |-> "open"]]
  /\ Ends(c)
  /\ UNCHANGED <<members, organisations, workspaces, projects>>

RemoveMember(c) ==
  /\ calls[c].op = "remove"
  /\ Leaves(calls[c].target, calls[c].org)
  /\ Ends(c)
  /\ UNCHANGED <<organisations, invites, workspaces, projects>>

\* acceptInvitation reads an open invitation addressed to the caller, inserts the membership
\* (which fails when the caller has a row already) and only then closes the invitation.
FindInvitation(c, u, i) ==
  /\ invites[i] # None /\ invites[i].status = "open" /\ invites[i].email = u
  /\ Starts(c, [op |-> "join", by |-> u, invite |-> i])
  /\ UNCHANGED <<members, organisations, invites, workspaces, projects>>

\* Mutant: ON CONFLICT DO UPDATE.
JoinAgain(c) ==
  LET row == invites[calls[c].invite] IN
  /\ calls[c].op = "join"
  /\ members' = [members EXCEPT ![<<calls[c].by, row.org>>] = [role |-> row.role, status |-> "active"]]
  /\ calls' = [calls EXCEPT ![c].op = "close"]
  /\ UNCHANGED <<organisations, invites, workspaces, projects>>

Join(c) ==
  /\ calls[c].op = "join"
  /\ Joins(calls[c].by, invites[calls[c].invite].org, invites[calls[c].invite].role)
  /\ calls' = [calls EXCEPT ![c].op = "close"]
  /\ UNCHANGED <<organisations, invites, workspaces, projects>>

CloseInvitation(c) ==
  /\ calls[c].op = "close"
  /\ invites' = [invites EXCEPT ![calls[c].invite].status = "accepted"]
  /\ Ends(c)
  /\ UNCHANGED <<members, organisations, workspaces, projects>>

\* A refused INSERT, a lost connection or a dead process: what was written stays.
CallDies(c) ==
  /\ calls[c] # Idle
  /\ Ends(c)
  /\ UNCHANGED <<members, organisations, invites, workspaces, projects>>

InvitationExpires(i) ==
  /\ invites[i] # None /\ invites[i].status = "open"
  /\ invites' = [invites EXCEPT ![i].status = "expired"]
  /\ UNCHANGED <<members, organisations, workspaces, projects, calls>>

Serve(c) ==
  \/ AddFounder(c) \/ Authorise(c) \/ CreateWorkspace(c) \/ CreateProject(c)
  \/ RemoveMember(c) \/ Join(c) \/ CloseInvitation(c) \/ CallDies(c)
  \/ \E u \in User, o \in Org : CreateOrganisation(c, u, o)
  \/ \E i \in Invite : InviteMember(c, i) \/ \E u \in User : FindInvitation(c, u, i)

TenancyNext == (\E c \in Call : Serve(c)) \/ \E i \in Invite : InvitationExpires(i)
TenancySpec == TenancyInit /\ [][TenancyNext]_tenancyVars

-----------------------------------------------------------------------------
\* Whatever calls overlap, die or are retried, nobody gains a role twice or another role: a
\* removed member stays out although invitations to them are still open, and the slower of two
\* acceptances changes nothing.  (Tenancy implements the abstract Roles.)
ImplementsRoles == RolesSpec

\* The permission a row of the organisation needed is, or was until a removal, its author's.
Granted(u, o, permission) ==
  \/ PlatformRole[u] = "platform_super_admin"
  \/ members[<<u, o>>] # None /\ permission \in ORG_ROLE_PERMISSIONS[members[<<u, o>>].role]

\* Every row of an organisation goes back to somebody the organisation itself gave the right:
\* members were invited with that very role (or founded it), ownership was only handed on by an
\* owner or a super administrator, and projects sit in the organisation's own workspaces.
RowsAreGranted ==
  /\ \A i \in Invite : invites[i] # None =>
       /\ Granted(invites[i].by, invites[i].org, "members:invite")
       /\ invites[i].role = "organisation_owner" => Granted(invites[i].by, invites[i].org, "org:manage")
  /\ \A u \in User, o \in Org : members[<<u, o>>] # None =>
       \/ organisations[o] = u /\ members[<<u, o>>].role = "organisation_owner"
       \/ \E i \in Invite : invites[i] # None /\ invites[i].org = o /\ invites[i].email = u
                              /\ invites[i].role = members[<<u, o>>].role
  /\ \A o \in Org : workspaces[o] # None => Granted(workspaces[o], o, "org:manage")
  /\ \A o \in Org : projects[o] # None =>
       projects[o].workspace = o /\ Granted(projects[o].by, o, "projects:create")
=============================================================================
