------------------------------- MODULE Roles -------------------------------
(***************************************************************************)
(* What a membership row promises to the rest of the platform: a user's    *)
(* role in an organisation never changes, and a member once removed stays  *)
(* out.  Tenancy implements this; Accounts relies on it.  The platform's   *)
(* own administrators are users whose platform_role is set by hand (no     *)
(* code in the repository writes it).                                      *)
(***************************************************************************)
EXTENDS NoValue
CONSTANTS
  User,          \* people with an account
  Org,           \* organisations
  Offered,       \* the roles handed out in this instance (a bound)
  PlatformRole   \* users.platform_role: [User -> None or a platform role]

Role == {"organisation_owner", "organisation_admin", "compliance_officer",
         "integration_developer", "reviewer", "analyst", "read_only"}

ASSUME PlatformRoleAssumption == DOMAIN PlatformRole = User
ASSUME OfferedAssumption == Offered \subseteq Role /\ "organisation_owner" \in Offered

VARIABLE members   \* memberships: the row of a user in an organisation, or None

Membership == [role : Role, status : {"active", "removed"}]
ASSUME NoneIsNoMembership == None \notin Membership

RolesTypeOK == members \in [User \X Org -> Membership \cup {None}]

IsActive(u, o) == members[<<u, o>>] # None /\ members[<<u, o>>].status = "active"

\* UNIQUE (organisation_id, user_id): the INSERT fails when there is a row, removed or not.
Joins(u, o, role) ==
  /\ members[<<u, o>>] = None
  /\ members' = [members EXCEPT ![<<u, o>>] = [role |-> role, status |-> "active"]]

\* The UPDATE sets the status of whatever row there is, and nothing else of it.
Leaves(u, o) ==
  members' = [members EXCEPT ![<<u, o>>] =
                IF @ = None THEN None ELSE [@ EXCEPT !.status = "removed"]]

RolesInit == members = [uo \in User \X Org |-> None]
RolesNext == \E u \in User, o \in Org : Leaves(u, o) \/ \E role \in Offered : Joins(u, o, role)
RolesSpec == RolesInit /\ [][RolesNext]_members
=============================================================================
