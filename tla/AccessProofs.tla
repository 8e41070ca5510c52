---------------------------- MODULE AccessProofs ----------------------------
(***************************************************************************)
(* Who may do what: memberships and the rows of organisations (Tenancy),   *)
(* for any number of users, organisations, invitations and calls; and who  *)
(* is let in: sessions, their rotations and the lockout (Accounts), for    *)
(* any number of overlapping logins and rotations.                         *)
(***************************************************************************)
EXTENDS Tenancy, Accounts, FiniteSetTheorems, TLAPS

USE DEF Idle, AtRest

-----------------------------------------------------------------------------
(* What a call in flight holds.  Its arguments are typed, and what it was   *)
(* allowed to do was granted by the organisation it does it to.             *)

\* What a call goes on to write was granted by the organisation, and stays granted; whoever
\* accepts an invitation has found it.
Entitled(call) ==
  /\ call.op = "found" => organisations[call.org] = call.by
  /\ call.op = "workspace" => Granted(call.by, call.org, "org:manage")
  /\ call.op = "project" => call.workspace = call.org /\ Granted(call.by, call.org, "projects:create")
  /\ call.op = "invite" => /\ call.role \in Offered
                           /\ Granted(call.by, call.org, "members:invite")
                           /\ call.role = "organisation_owner" => Granted(call.by, call.org, "org:manage")
  /\ call.op \in {"join", "close"} => invites[call.invite] # None
  /\ call.op = "join" => invites[call.invite].email = call.by

CallsAreGranted == \A c \in Call : Entitled(calls[c])

\* The fields of a call's pending operation, by operation.
LEMMA PendingFields ==
  ASSUME TenancyTypeOK, NEW c \in Call
  PROVE  /\ calls[c].op \in {"idle", "found", "workspace", "project", "invite", "remove", "join", "close"}
         /\ calls[c].op = "idle" <=> calls[c] = Idle
         /\ calls[c].op # "idle" => calls[c].by \in User
         /\ calls[c].op \in {"found", "workspace", "project", "invite", "remove"} => calls[c].org \in Org
         /\ calls[c].op = "project" => calls[c].workspace \in Org
         /\ calls[c].op = "invite" => calls[c].email \in User /\ calls[c].role \in Role
         /\ calls[c].op = "remove" => calls[c].target \in User
         /\ calls[c].op \in {"join", "close"} =>
              calls[c] \in [op : {"join", "close"}, by : User, invite : Invite]
<1>1. calls[c] \in Pending \cup {Idle}
  BY DEF TenancyTypeOK
<1> QED
  BY <1>1 DEF Pending

-----------------------------------------------------------------------------
(* Every step keeps the types.                                              *)

\* What joining and leaving do to the rows keeps them rows.
LEMMA RolesStep ==
  ASSUME RolesTypeOK, NEW u \in User, NEW o \in Org,
         Leaves(u, o) \/ \E role \in Role : Joins(u, o, role)
  PROVE  RolesTypeOK'
<1>1. CASE Leaves(u, o)
  <2>1. (IF members[<<u, o>>] = None THEN None ELSE [members[<<u, o>>] EXCEPT !.status = "removed"]) \in Membership \cup {None}
    BY NoneIsNoMembership DEF RolesTypeOK, Membership
  <2> QED
    BY <1>1, <2>1 DEF RolesTypeOK, Leaves
<1>2. ASSUME NEW role \in Role, Joins(u, o, role)
      PROVE  RolesTypeOK'
  BY <1>2 DEF RolesTypeOK, Joins, Membership
<1> QED
  BY <1>1, <1>2

\* A call may only wait for an operation it was given arguments of.
LEMMA StartsTyped ==
  ASSUME TenancyTypeOK, NEW c \in Call, NEW p \in Pending, Starts(c, p)
  PROVE  calls' \in [Call -> Pending \cup {Idle}]
  BY DEF TenancyTypeOK, Starts

\* A call that ends leaves every call typed.
LEMMA EndsTyped ==
  ASSUME TenancyTypeOK, NEW c \in Call, Ends(c)
  PROVE  calls' \in [Call -> Pending \cup {Idle}]
  BY DEF TenancyTypeOK, Ends

\* One step of one call keeps every table and every call typed.
LEMMA ServeTyped ==
  ASSUME TenancyTypeOK, CallsAreGranted, NEW c \in Call, Serve(c)
  PROVE  TenancyTypeOK'
<1> USE DEF Role
<1>1. CASE AddFounder(c)
  <2>1. RolesTypeOK'
    BY <1>1, PendingFields, RolesStep DEF AddFounder, TenancyTypeOK
  <2> QED
    BY <1>1, <2>1, EndsTyped DEF AddFounder, TenancyTypeOK
<1>2. CASE Authorise(c)
  <2>1. PICK p \in Pending : Starts(c, p)
    BY <1>2, OfferedAssumption DEF Authorise, Pending
  <2> QED
    BY <1>2, <2>1, StartsTyped DEF Authorise, TenancyTypeOK, RolesTypeOK
<1>3. CASE CreateWorkspace(c)
  BY <1>3, PendingFields, EndsTyped DEF CreateWorkspace, TenancyTypeOK, RolesTypeOK
<1>4. CASE CreateProject(c)
  BY <1>4, PendingFields, EndsTyped DEF CreateProject, TenancyTypeOK, RolesTypeOK, Project
<1>5. CASE RemoveMember(c)
  <2>1. RolesTypeOK'
    BY <1>5, PendingFields, RolesStep DEF RemoveMember, TenancyTypeOK
  <2> QED
    BY <1>5, <2>1, EndsTyped DEF RemoveMember, TenancyTypeOK
<1>6. CASE Join(c)
  <2> DEFINE row == invites[calls[c].invite]
  <2>1. row \in InviteRow
    BY <1>6, PendingFields DEF Join, CallsAreGranted, Entitled, TenancyTypeOK
  <2>2. RolesTypeOK'
    BY <1>6, <2>1, PendingFields, RolesStep DEF Join, TenancyTypeOK, InviteRow
  <2>3. [calls[c] EXCEPT !.op = "close"] \in Pending
    BY <1>6, PendingFields DEF Join, Pending
  <2> QED
    BY <1>6, <2>2, <2>3 DEF Join, TenancyTypeOK
<1>7. CASE CloseInvitation(c)
  <2> DEFINE row == invites[calls[c].invite]
  <2>1. row \in InviteRow /\ calls[c].invite \in Invite
    BY <1>7, PendingFields DEF CloseInvitation, CallsAreGranted, Entitled, TenancyTypeOK
  <2>2. [row EXCEPT !.status = "accepted"] \in InviteRow
    BY <2>1 DEF InviteRow, Status
  <2>3. invites' \in [Invite -> InviteRow \cup {None}]
    BY <1>7, <2>1, <2>2 DEF CloseInvitation, TenancyTypeOK
  <2> QED
    BY <1>7, <2>3, EndsTyped DEF CloseInvitation, TenancyTypeOK, RolesTypeOK
<1>8. CASE CallDies(c)
  BY <1>8, EndsTyped DEF CallDies, TenancyTypeOK, RolesTypeOK
<1>9. ASSUME NEW u \in User, NEW o \in Org, CreateOrganisation(c, u, o)
      PROVE  TenancyTypeOK'
  BY <1>9, StartsTyped DEF CreateOrganisation, TenancyTypeOK, RolesTypeOK, Pending
<1>10. ASSUME NEW i \in Invite, InviteMember(c, i)
       PROVE  TenancyTypeOK'
  BY <1>10, PendingFields, EndsTyped DEF InviteMember, TenancyTypeOK, RolesTypeOK, InviteRow, Status
<1>11. ASSUME NEW i \in Invite, NEW u \in User, FindInvitation(c, u, i)
       PROVE  TenancyTypeOK'
  BY <1>11, StartsTyped DEF FindInvitation, TenancyTypeOK, RolesTypeOK, Pending
<1> QED
  BY <1>1, <1>2, <1>3, <1>4, <1>5, <1>6, <1>7, <1>8, <1>9, <1>10, <1>11 DEF Serve

\* So does an invitation that expires.
LEMMA ExpiryTyped ==
  ASSUME TenancyTypeOK, NEW i \in Invite, InvitationExpires(i)
  PROVE  TenancyTypeOK'
<1>1. [invites[i] EXCEPT !.status = "expired"] \in InviteRow
  BY DEF InvitationExpires, TenancyTypeOK, InviteRow, Status
<1> QED
  BY <1>1 DEF InvitationExpires, TenancyTypeOK, RolesTypeOK

-----------------------------------------------------------------------------
(* Nobody gains a role that was not offered to them, twice, or after a      *)
(* removal: every step is a step of Roles.                                  *)

\* The roles in invitations are ones that are handed out.
RolesAreOffered == \A i \in Invite : invites[i] # None => invites[i].role \in Offered

TenancyInv ==
  TenancyTypeOK /\ CallsAreGranted /\ RolesAreOffered /\ RowsAreGranted

\* What no step takes back: a row of members with its role, who created an organisation, and
\* an invitation with all but its status.
Keeps ==
  /\ \A u \in User, o \in Org : members[<<u, o>>] # None =>
       members'[<<u, o>>] # None /\ members'[<<u, o>>].role = members[<<u, o>>].role
  /\ \A o \in Org : organisations[o] # None => organisations'[o] = organisations[o]
  /\ \A i \in Invite : invites[i] # None =>
       /\ invites'[i] # None
       /\ invites'[i].org = invites[i].org /\ invites'[i].email = invites[i].email
       /\ invites'[i].role = invites[i].role /\ invites'[i].by = invites[i].by

\* The rows of members change as Roles lets them.
LEMMA StepsOfRoles ==
  ASSUME TenancyInv, TenancyNext
  PROVE  [RolesNext]_members
<1> USE DEF TenancyInv, RolesNext
<1>1. ASSUME NEW c \in Call, AddFounder(c)
      PROVE  RolesNext
  BY <1>1, PendingFields, OfferedAssumption DEF AddFounder
<1>2. ASSUME NEW c \in Call, RemoveMember(c)
      PROVE  RolesNext
  BY <1>2, PendingFields DEF RemoveMember
<1>3. ASSUME NEW c \in Call, Join(c)
      PROVE  RolesNext
  <2> DEFINE row == invites[calls[c].invite]
  <2>1. calls[c].by \in User /\ calls[c].invite \in Invite
    BY <1>3, PendingFields DEF Join
  <2>2. row.org \in Org /\ row.role \in Offered
    BY <1>3, <2>1 DEF Join, CallsAreGranted, Entitled, TenancyTypeOK, InviteRow, RolesAreOffered
  <2> QED
    BY <1>3, <2>1, <2>2 DEF Join
<1>4. ASSUME NEW c \in Call, Serve(c)
      PROVE  AddFounder(c) \/ RemoveMember(c) \/ Join(c) \/ members' = members
  BY <1>4 DEF Serve, Authorise, CreateWorkspace, CreateProject, CloseInvitation, CallDies,
              CreateOrganisation, InviteMember, FindInvitation
<1> QED
  BY <1>1, <1>2, <1>3, <1>4 DEF TenancyNext, InvitationExpires

\* No step takes back what Keeps lists.
LEMMA StepsKeep ==
  ASSUME TenancyInv, TenancyNext
  PROVE  Keeps
<1> USE DEF TenancyInv
<1>1. \A u \in User, o \in Org : members[<<u, o>>] # None =>
        members'[<<u, o>>] # None /\ members'[<<u, o>>].role = members[<<u, o>>].role
  <2> SUFFICES ASSUME NEW u \in User, NEW o \in Org, members[<<u, o>>] # None
               PROVE  members'[<<u, o>>] # None /\ members'[<<u, o>>].role = members[<<u, o>>].role
    OBVIOUS
  <2>1. members[<<u, o>>] \in Membership
    BY DEF TenancyTypeOK, RolesTypeOK
  <2>2. ASSUME NEW v \in User, NEW p \in Org, Leaves(v, p)
        PROVE  members'[<<u, o>>] # None /\ members'[<<u, o>>].role = members[<<u, o>>].role
    <3>1. CASE v = u /\ p = o
      <4>1. members'[<<u, o>>] = [members[<<u, o>>] EXCEPT !.status = "removed"]
        BY <2>2, <3>1 DEF Leaves, TenancyTypeOK, RolesTypeOK
      <4>2. members'[<<u, o>>] \in Membership
        BY <4>1, <2>1 DEF Membership
      <4> QED
        BY <4>1, <4>2, <2>1, NoneIsNoMembership DEF Membership
    <3>2. CASE ~(v = u /\ p = o)
      BY <2>2, <3>2 DEF Leaves, TenancyTypeOK, RolesTypeOK
    <3> QED
      BY <3>1, <3>2
  <2>3. ASSUME NEW v \in User, NEW p \in Org, NEW role \in Offered, Joins(v, p, role)
        PROVE  members'[<<u, o>>] = members[<<u, o>>]
    BY <2>3 DEF Joins, TenancyTypeOK, RolesTypeOK
  <2> QED
    BY <2>2, <2>3, StepsOfRoles DEF RolesNext
<1>2. \A o \in Org : organisations[o] # None => organisations'[o] = organisations[o]
  <2>1. ASSUME NEW c \in Call, Serve(c)
        PROVE  \/ organisations' = organisations
               \/ \E u \in User, o \in Org : CreateOrganisation(c, u, o)
    BY <2>1 DEF Serve, AddFounder, Authorise, CreateWorkspace, CreateProject, RemoveMember, Join,
                CloseInvitation, CallDies, InviteMember, FindInvitation
  <2> QED
    BY <2>1 DEF TenancyNext, InvitationExpires, CreateOrganisation, TenancyTypeOK
<1>3. ASSUME NEW i \in Invite, invites[i] # None
      PROVE  /\ invites'[i] # None
             /\ invites'[i].org = invites[i].org /\ invites'[i].email = invites[i].email
             /\ invites'[i].role = invites[i].role /\ invites'[i].by = invites[i].by
  <2>1. invites[i] \in InviteRow
    BY <1>3 DEF TenancyTypeOK
  <2> DEFINE Closed(status) == [invites[i] EXCEPT !.status = status]
  <2>2. \A status \in Status :
          /\ Closed(status) \in InviteRow
          /\ Closed(status).org = invites[i].org /\ Closed(status).email = invites[i].email
          /\ Closed(status).role = invites[i].role /\ Closed(status).by = invites[i].by
    BY <2>1 DEF InviteRow
  <2>3. ASSUME NEW c \in Call, Serve(c)
        PROVE  invites'[i] = invites[i] \/ invites'[i] = Closed("accepted")
    <3>1. CASE CloseInvitation(c)
      BY <3>1, PendingFields DEF CloseInvitation, TenancyTypeOK
    <3>2. ASSUME NEW j \in Invite, InviteMember(c, j)
          PROVE  invites'[i] = invites[i]
      BY <3>2, <1>3 DEF InviteMember, TenancyTypeOK
    <3>3. CASE UNCHANGED invites
      BY <3>3
    <3> QED
      BY <2>3, <3>1, <3>2, <3>3 DEF Serve, AddFounder, Authorise, CreateWorkspace, CreateProject,
           RemoveMember, Join, CallDies, CreateOrganisation, FindInvitation
  <2>4. ASSUME NEW j \in Invite, InvitationExpires(j)
        PROVE  invites'[i] = invites[i] \/ invites'[i] = Closed("expired")
    BY <2>4 DEF InvitationExpires, TenancyTypeOK
  <2>5. invites'[i] = invites[i] \/ \E status \in Status : invites'[i] = Closed(status)
    BY <2>3, <2>4 DEF TenancyNext, Status
  <2> QED
    BY <2>1, <2>2, <2>5, NoneIsNoTenancyRow, <1>3
<1> QED
  BY <1>1, <1>2, <1>3 DEF Keeps

-----------------------------------------------------------------------------
(* Every row goes back to somebody the organisation gave the right to.      *)

\* What was granted stays granted: roles never change, and rows never go.
LEMMA GrantedStays ==
  ASSUME Keeps, NEW u \in User, NEW o \in Org, NEW permission, Granted(u, o, permission)
  PROVE  Granted(u, o, permission)'
  BY DEF Keeps, Granted

\* A permission that oversight does not carry is the organisation's to grant.
LEMMA AuthorisedIsGranted ==
  ASSUME NEW u, NEW o, NEW permission, permission \notin Oversight, Authorised(u, o, permission)
  PROVE  Granted(u, o, permission)
  BY DEF Authorised, Granted, IsActive

\* What a call is allowed to do, it was granted.
LEMMA AuthoriseIsGranted ==
  ASSUME TenancyInv, NEW c \in Call, Authorise(c)
  PROVE  \E p \in Pending :
           /\ Starts(c, p) /\ Entitled(p)
<1> USE DEF Oversight, Entitled
<1> DEFINE Sound(p) == /\ p \in Pending /\ Starts(c, p) /\ Entitled(p)
<1>1. PICK u \in User, o \in Org :
       \/ AllowWorkspace(u, o) /\ Starts(c, [op |-> "workspace", by |-> u, org |-> o])
       \/ \E w \in Org : AllowProject(u, o, w)
            /\ Starts(c, [op |-> "project", by |-> u, org |-> o, workspace |-> w])
       \/ \E email \in User, role \in Offered : AllowInvite(u, o, role)
            /\ Starts(c, [op |-> "invite", by |-> u, org |-> o, email |-> email, role |-> role])
       \/ \E target \in User : AllowRemove(u, o)
            /\ Starts(c, [op |-> "remove", by |-> u, org |-> o, target |-> target])
  BY DEF Authorise
<1>2. CASE AllowWorkspace(u, o) /\ Starts(c, [op |-> "workspace", by |-> u, org |-> o])
  <2>1. Granted(u, o, "org:manage")
    BY <1>2, AuthorisedIsGranted DEF AllowWorkspace
  <2>2. Sound([op |-> "workspace", by |-> u, org |-> o])
    BY <1>2, <2>1 DEF Pending
  <2> QED
    BY <2>2
<1>3. ASSUME NEW w \in Org, AllowProject(u, o, w),
             Starts(c, [op |-> "project", by |-> u, org |-> o, workspace |-> w])
      PROVE  \E p \in Pending : Sound(p)
  <2>1. w = o /\ Granted(u, o, "projects:create")
    BY <1>3, AuthorisedIsGranted DEF AllowProject
  <2>2. Sound([op |-> "project", by |-> u, org |-> o, workspace |-> w])
    BY <1>3, <2>1 DEF Pending
  <2> QED
    BY <2>2
<1>4. ASSUME NEW email \in User, NEW role \in Offered, AllowInvite(u, o, role),
             Starts(c, [op |-> "invite", by |-> u, org |-> o, email |-> email, role |-> role])
      PROVE  \E p \in Pending : Sound(p)
  <2>1. /\ Granted(u, o, "members:invite")
        /\ role = "organisation_owner" => Granted(u, o, "org:manage")
    BY <1>4, AuthorisedIsGranted DEF AllowInvite
  <2>2. Sound([op |-> "invite", by |-> u, org |-> o, email |-> email, role |-> role])
    BY <1>4, <2>1, OfferedAssumption DEF Pending
  <2> QED
    BY <2>2
<1>5. ASSUME NEW target \in User,
             Starts(c, [op |-> "remove", by |-> u, org |-> o, target |-> target])
      PROVE  \E p \in Pending : Sound(p)
  <2>1. Sound([op |-> "remove", by |-> u, org |-> o, target |-> target])
    BY <1>5 DEF Pending
  <2> QED
    BY <2>1
<1>6. \E p \in Pending : Sound(p)
  BY <1>1, <1>2, <1>3, <1>4, <1>5
<1> QED
  BY <1>6

\* A call keeps what it was going to write, gives it up, has it granted, or has joined and
\* goes on to close the invitation it found.
LEMMA CallsChange ==
  ASSUME TenancyInv, TenancyNext, NEW d \in Call
  PROVE  \/ calls'[d] \in {calls[d], Idle}
         \/ calls[d].op = "join" /\ calls'[d] = [calls[d] EXCEPT !.op = "close"]
         \/ Entitled(calls[d])'
<1> USE DEF TenancyInv, TenancyTypeOK
<1>1. ASSUME NEW c \in Call, Ends(c)
      PROVE  calls'[d] \in {calls[d], Idle}
  BY <1>1 DEF Ends
<1>2. ASSUME NEW c \in Call, Authorise(c)
      PROVE  calls'[d] = calls[d] \/ Entitled(calls[d])'
  <2>1. PICK p \in Pending : Starts(c, p) /\ Entitled(p)
    BY <1>2, AuthoriseIsGranted
  <2>2. p.op = "found" => organisations'[p.org] = organisations[p.org]
    BY <1>2 DEF Authorise
  <2>3. Entitled(p)'
    BY <1>2, <2>1 DEF Authorise, Entitled, Granted
  <2> QED
    BY <2>1, <2>3 DEF Starts
<1>3. ASSUME NEW c \in Call, Join(c)
      PROVE  \/ calls'[d] = calls[d]
             \/ calls[d].op = "join" /\ calls'[d] = [calls[d] EXCEPT !.op = "close"]
  BY <1>3 DEF Join
<1>4. ASSUME NEW c \in Call, NEW u \in User, NEW o \in Org, CreateOrganisation(c, u, o)
      PROVE  calls'[d] = calls[d] \/ Entitled(calls[d])'
  BY <1>4 DEF CreateOrganisation, Starts, Entitled
<1>5. ASSUME NEW c \in Call, NEW u \in User, NEW i \in Invite, FindInvitation(c, u, i)
      PROVE  calls'[d] = calls[d] \/ Entitled(calls[d])'
  BY <1>5 DEF FindInvitation, Starts, Entitled
<1>6. ASSUME NEW c \in Call, Serve(c)
      PROVE  \/ Ends(c) \/ Authorise(c) \/ Join(c)
             \/ \E u \in User, o \in Org : CreateOrganisation(c, u, o)
             \/ \E u \in User, i \in Invite : FindInvitation(c, u, i)
  BY <1>6 DEF Serve, AddFounder, CreateWorkspace, CreateProject, RemoveMember, CloseInvitation,
              CallDies, InviteMember
<1> QED
  BY <1>1, <1>2, <1>3, <1>4, <1>5, <1>6 DEF TenancyNext, InvitationExpires

\* Calls in flight stay entitled to what they go on to write.
LEMMA CallsStayGranted ==
  ASSUME TenancyInv, TenancyNext
  PROVE  CallsAreGranted'
<1> SUFFICES ASSUME NEW d \in Call
             PROVE  Entitled(calls[d])'
  BY DEF CallsAreGranted
<1> USE DEF TenancyInv
<1>1. Keeps
  BY StepsKeep
<1>2. Entitled(calls[d])
  BY DEF CallsAreGranted
<1>3. CASE calls'[d] = calls[d]
  <2> DEFINE call == calls[d]
  <2>1. ASSUME NEW permission, call.by \in User, call.org \in Org, Granted(call.by, call.org, permission)
        PROVE  Granted(call.by, call.org, permission)'
    BY <1>1, <1>3, <2>1, GrantedStays
  <2>2. call.op = "found" => organisations'[call.org] = call.by
    BY <1>1, <1>2, PendingFields, NoneIsNoTenancyRow DEF Entitled, Keeps
  <2>3. /\ call.op = "workspace" => Granted(call.by, call.org, "org:manage")'
        /\ call.op = "project" => Granted(call.by, call.org, "projects:create")'
    BY <1>2, <2>1, PendingFields DEF Entitled
  <2>4. call.op = "invite" => /\ Granted(call.by, call.org, "members:invite")'
                              /\ call.role = "organisation_owner" => Granted(call.by, call.org, "org:manage")'
    BY <1>2, <2>1, PendingFields DEF Entitled
  <2>5. /\ call.op \in {"join", "close"} => invites'[call.invite] # None
        /\ call.op = "join" => invites'[call.invite].email = call.by
    BY <1>1, <1>2, PendingFields DEF Entitled, Keeps
  <2> QED
    BY <1>2, <1>3, <2>2, <2>3, <2>4, <2>5 DEF Entitled
<1>4. CASE calls'[d] = Idle
  BY <1>4 DEF Entitled
<1>5. CASE calls[d].op = "join" /\ calls'[d] = [calls[d] EXCEPT !.op = "close"]
  <2>1. calls'[d].op = "close" /\ calls'[d].invite = calls[d].invite
    BY <1>5, PendingFields
  <2>2. calls[d].invite \in Invite /\ invites[calls[d].invite] # None
    BY <1>2, <1>5, PendingFields DEF Entitled
  <2>3. invites'[calls[d].invite] # None
    BY <1>1, <2>2 DEF Keeps
  <2> QED
    BY <2>1, <2>3 DEF Entitled
<1> QED
  BY <1>3, <1>4, <1>5, CallsChange

\* An invitation is either kept or written by a call that was entitled to write it.
LEMMA InvitesStayGranted ==
  ASSUME TenancyInv, TenancyNext, NEW i \in Invite, invites'[i] # None
  PROVE  /\ invites'[i].role \in Offered
         /\ Granted(invites[i].by, invites[i].org, "members:invite")'
         /\ (invites[i].role = "organisation_owner" => Granted(invites[i].by, invites[i].org, "org:manage"))'
<1> USE DEF TenancyInv
<1>1. Keeps
  BY StepsKeep
<1>2. CASE invites[i] # None
  <2>1. PICK by \in User, org \in Org : by = invites[i].by /\ org = invites[i].org
    BY <1>2 DEF TenancyTypeOK, InviteRow
  <2>2. invites'[i].by = by /\ invites'[i].org = org /\ invites'[i].role = invites[i].role
    BY <1>1, <1>2, <2>1 DEF Keeps
  <2>3. \A permission : Granted(by, org, permission) => Granted(by, org, permission)'
    BY <1>1, GrantedStays
  <2>4. invites'[i].role \in Offered
    BY <1>2, <2>2 DEF RolesAreOffered
  <2> QED
    BY <1>2, <2>1, <2>2, <2>3, <2>4 DEF RowsAreGranted
<1>3. CASE invites[i] = None
  <2>1. ASSUME NEW c \in Call, Serve(c)
        PROVE  \E j \in Invite : InviteMember(c, j)
    BY <1>3, <2>1, PendingFields
       DEF Serve, AddFounder, Authorise, CreateWorkspace, CreateProject, RemoveMember, Join,
           CloseInvitation, CallDies, CreateOrganisation, FindInvitation, CallsAreGranted, Entitled,
           TenancyTypeOK
  <2>2. PICK c \in Call, j \in Invite : InviteMember(c, j)
    BY <1>3, <2>1 DEF TenancyNext, InvitationExpires, TenancyTypeOK
  <2> DEFINE call == calls[c]
             row == [org |-> call.org, email |-> call.email, role |-> call.role,
                     by |-> call.by, status |-> "open"]
  <2>3. invites'[i] = row /\ members' = members
    BY <1>3, <2>2 DEF InviteMember, TenancyTypeOK
  <2>4. Entitled(call) /\ call.op = "invite"
    BY <2>2 DEF InviteMember, CallsAreGranted
  <2>5. row.by = call.by /\ row.org = call.org /\ row.role = call.role
    OBVIOUS
  <2> QED
    BY <2>3, <2>4, <2>5 DEF Entitled, Granted
<1> QED
  BY <1>2, <1>3

\* A member was invited with that very role or founded the organisation.
Sponsored(u, o) ==
  \/ organisations[o] = u /\ members[<<u, o>>].role = "organisation_owner"
  \/ \E i \in Invite : invites[i] # None /\ invites[i].org = o /\ invites[i].email = u
                         /\ invites[i].role = members[<<u, o>>].role

\* Whoever becomes a member did so through an invitation or as the founder.
LEMMA MembersStaySponsored ==
  ASSUME TenancyInv, TenancyNext, NEW u \in User, NEW o \in Org, members'[<<u, o>>] # None
  PROVE  Sponsored(u, o)'
<1> USE DEF TenancyInv
<1>1. Keeps
  BY StepsKeep
<1>2. CASE members[<<u, o>>] # None
  <2>1. members'[<<u, o>>].role = members[<<u, o>>].role
    BY <1>1, <1>2 DEF Keeps
  <2>2. Sponsored(u, o)
    BY <1>2 DEF RowsAreGranted, Sponsored
  <2>3. CASE organisations[o] = u /\ members[<<u, o>>].role = "organisation_owner"
    BY <1>1, <2>1, <2>3, NoneIsNoTenancyRow DEF Keeps, Sponsored
  <2>4. ASSUME NEW i \in Invite, invites[i] # None, invites[i].org = o, invites[i].email = u,
               invites[i].role = members[<<u, o>>].role
        PROVE  Sponsored(u, o)'
    BY <1>1, <2>1, <2>4 DEF Keeps, Sponsored
  <2> QED
    BY <2>2, <2>3, <2>4 DEF Sponsored
<1>3. CASE members[<<u, o>>] = None
  <2>1. ASSUME NEW c \in Call, Serve(c)
        PROVE  AddFounder(c) \/ Join(c)
    <3>1. CASE RemoveMember(c)
      BY <1>3, <3>1, PendingFields DEF RemoveMember, Leaves, TenancyTypeOK, RolesTypeOK
    <3> QED
      BY <1>3, <2>1, <3>1
         DEF Serve, Authorise, CreateWorkspace, CreateProject, CloseInvitation, CallDies,
             CreateOrganisation, InviteMember, FindInvitation
  <2>2. PICK c \in Call : AddFounder(c) \/ Join(c)
    BY <1>3, <2>1 DEF TenancyNext, InvitationExpires
  <2>3. Entitled(calls[c])
    BY DEF CallsAreGranted
  <2>4. CASE AddFounder(c)
    <3>1. /\ u = calls[c].by /\ o = calls[c].org
          /\ members'[<<u, o>>] = [role |-> "organisation_owner", status |-> "active"]
      BY <1>3, <2>4, PendingFields DEF AddFounder, Joins, TenancyTypeOK, RolesTypeOK
    <3>2. organisations'[o] = u
      BY <2>3, <2>4, <3>1 DEF AddFounder, Entitled
    <3>3. members'[<<u, o>>].role = "organisation_owner"
      BY <3>1
    <3>4. organisations'[o] = u /\ members'[<<u, o>>].role = "organisation_owner"
      BY <3>2, <3>3
    <3> QED
      BY <3>4 DEF Sponsored
  <2>5. CASE Join(c)
    <3> DEFINE i == calls[c].invite
    <3>1. i \in Invite /\ calls[c].by \in User
      BY <2>5, PendingFields DEF Join
    <3>2. invites[i] # None /\ invites[i].email = calls[c].by
      BY <2>3, <2>5 DEF Join, Entitled
    <3>3. invites[i].org \in Org
      BY <3>1, <3>2 DEF TenancyTypeOK, InviteRow
    <3>4. /\ u = calls[c].by /\ o = invites[i].org
          /\ members'[<<u, o>>] = [role |-> invites[i].role, status |-> "active"]
      BY <1>3, <2>5, <3>1, <3>3 DEF Join, Joins, TenancyTypeOK, RolesTypeOK
    <3>5. invites' = invites
      BY <2>5 DEF Join
    <3>6. members'[<<u, o>>].role = invites[i].role
      BY <3>4
    <3> HIDE DEF i
    <3> QED
      BY <3>1, <3>2, <3>4, <3>5, <3>6 DEF Sponsored
  <2> QED
    BY <2>2, <2>4, <2>5
<1> QED
  BY <1>2, <1>3

\* A workspace is the work of somebody who may manage the organisation.
LEMMA WorkspacesStayGranted ==
  ASSUME TenancyInv, TenancyNext, NEW o \in Org, workspaces'[o] # None
  PROVE  Granted(workspaces[o], o, "org:manage")'
<1> USE DEF TenancyInv
<1>1. Keeps
  BY StepsKeep
<1>2. PICK by \in User : by = workspaces'[o] /\ Granted(by, o, "org:manage")
  <2>1. CASE workspaces'[o] = workspaces[o]
    BY <2>1 DEF RowsAreGranted, TenancyTypeOK
  <2>2. ASSUME workspaces'[o] # workspaces[o]
        PROVE  \E c \in Call : CreateWorkspace(c)
    BY <2>2 DEF TenancyNext, Serve, AddFounder, Authorise, CreateProject, RemoveMember, Join,
         CloseInvitation, CallDies, CreateOrganisation, InviteMember, FindInvitation, InvitationExpires
  <2>3. ASSUME NEW c \in Call, CreateWorkspace(c), workspaces'[o] # workspaces[o]
        PROVE  workspaces'[o] \in User /\ Granted(workspaces'[o], o, "org:manage")
    <3>1. o = calls[c].org /\ workspaces'[o] = calls[c].by
      BY <2>3, PendingFields DEF CreateWorkspace, TenancyTypeOK
    <3> QED
      BY <2>3, <3>1, PendingFields DEF CreateWorkspace, CallsAreGranted, Entitled
  <2> QED
    BY <2>1, <2>2, <2>3
<1> QED
  BY <1>1, <1>2, GrantedStays

\* A project sits in its organisation's workspace, and its creator could create it there.
LEMMA ProjectsStayGranted ==
  ASSUME TenancyInv, TenancyNext, NEW o \in Org, projects'[o] # None
  PROVE  /\ projects'[o].workspace = o
         /\ Granted(projects[o].by, o, "projects:create")'
<1> USE DEF TenancyInv
<1>1. Keeps
  BY StepsKeep
<1>2. PICK by \in User : /\ by = projects'[o].by /\ projects'[o].workspace = o
                         /\ Granted(by, o, "projects:create")
  <2>1. CASE projects'[o] = projects[o]
    BY <2>1 DEF RowsAreGranted, TenancyTypeOK, Project
  <2>2. ASSUME projects'[o] # projects[o]
        PROVE  \E c \in Call : CreateProject(c)
    BY <2>2 DEF TenancyNext, Serve, AddFounder, Authorise, CreateWorkspace, RemoveMember, Join,
         CloseInvitation, CallDies, CreateOrganisation, InviteMember, FindInvitation, InvitationExpires
  <2>3. ASSUME NEW c \in Call, CreateProject(c), projects'[o] # projects[o]
        PROVE  /\ projects'[o].by \in User /\ projects'[o].workspace = o
               /\ Granted(projects'[o].by, o, "projects:create")
    <3>1. o = calls[c].org /\ projects'[o] = [workspace |-> calls[c].workspace, by |-> calls[c].by]
      BY <2>3, PendingFields DEF CreateProject, TenancyTypeOK
    <3>2. projects'[o].workspace = calls[c].workspace /\ projects'[o].by = calls[c].by
      BY <3>1
    <3> QED
      BY <2>3, <3>1, <3>2, PendingFields DEF CreateProject, CallsAreGranted, Entitled
  <2> QED
    BY <2>1, <2>2, <2>3
<1> QED
  BY <1>1, <1>2, GrantedStays

\* Every step of tenancy keeps the invariant.
LEMMA TenancyKept == TenancyInv /\ [TenancyNext]_tenancyVars => TenancyInv'
<1>1. ASSUME TenancyInv, TenancyNext
      PROVE  TenancyInv'
  <2>1. TenancyTypeOK'
    BY <1>1, ServeTyped, ExpiryTyped DEF TenancyInv, TenancyNext
  <2>2. CallsAreGranted'
    BY <1>1, CallsStayGranted
  <2>3. RolesAreOffered'
    BY <1>1, InvitesStayGranted DEF RolesAreOffered
  <2>4. RowsAreGranted'
    BY <1>1, InvitesStayGranted, MembersStaySponsored, WorkspacesStayGranted, ProjectsStayGranted
       DEF RowsAreGranted, Sponsored
  <2> QED
    BY <2>1, <2>2, <2>3, <2>4 DEF TenancyInv
<1>2. ASSUME TenancyInv, UNCHANGED tenancyVars
      PROVE  TenancyInv'
  BY <1>2 DEF tenancyVars, TenancyInv, TenancyTypeOK, RolesTypeOK, CallsAreGranted, Entitled,
              RolesAreOffered, RowsAreGranted, Granted
<1> QED
  BY <1>1, <1>2

\* The empty tables satisfy it.
LEMMA TenancyInitially == TenancyInit => TenancyInv
<1> SUFFICES ASSUME TenancyInit
             PROVE  TenancyInv
  OBVIOUS
<1>1. TenancyTypeOK
  BY DEF TenancyInit, RolesInit, TenancyTypeOK, RolesTypeOK
<1> QED
  BY <1>1 DEF TenancyInit, RolesInit, TenancyInv, CallsAreGranted, Entitled, RolesAreOffered,
              RowsAreGranted

\* The strengthened invariant holds at first and is kept by every step.
THEOREM TenancyInvariant == TenancySpec => []TenancyInv
<1> QED
  BY TenancyInitially, TenancyKept, PTL DEF TenancySpec

\* Every row of an organisation goes back to somebody the organisation itself gave the right,
\* whatever calls of createWorkspace, createProject, inviteMember, removeMember and
\* acceptInvitation overlap or die (server/tenancy/service.ts).
THEOREM RowsAreAlwaysGranted == TenancySpec => []RowsAreGranted
<1>1. TenancyInv => RowsAreGranted
  BY DEF TenancyInv
<1> QED
  BY <1>1, TenancyInvariant, PTL

\* Nobody gains a role twice, another role, or one after a removal: the handlers of
\* server/tenancy/service.ts implement Roles.
THEOREM TenancyImplementsRoles == TenancySpec => ImplementsRoles
<1>1. TenancyInit => RolesInit
  BY DEF TenancyInit
<1>2. TenancyInv /\ [TenancyNext]_tenancyVars => [RolesNext]_members
  BY StepsOfRoles DEF tenancyVars
<1> QED
  BY <1>1, <1>2, TenancyInvariant, PTL DEF TenancySpec, ImplementsRoles, RolesSpec

-----------------------------------------------------------------------------
(* Accounts: the rows, the logins and the rotations are typed.              *)

Proving == {"matched", "ordinary", "privileged", "consume", "reset", "issue"}
WrongLogin == [pc : {"wrong"}, user : Account, failed : 0..MaxFailed + 1]
ProvenLogin == [pc : Proving, user : Account, proof : Proof]
OpenRotation == [pc : {"insert", "revoke"}, old : Token]

\* What a login carries, by where it is.
LEMMA LoginFields ==
  ASSUME AccountsTypeOK, NEW l \in Login
  PROVE  /\ logins[l].pc \in {"idle", "wrong"} \cup Proving
         /\ logins[l].pc = "idle" <=> logins[l] = AtRest
         /\ logins[l].pc = "wrong" => logins[l] \in WrongLogin
         /\ logins[l].pc \in Proving => logins[l] \in ProvenLogin
<1>1. logins[l] \in {AtRest} \cup WrongLogin \cup ProvenLogin
  BY DEF AccountsTypeOK, WrongLogin, ProvenLogin, Proving
<1> QED
  BY <1>1 DEF WrongLogin, ProvenLogin, Proving

\* A rotation that is not at rest holds the token it replaces.
LEMMA RotationFields ==
  ASSUME AccountsTypeOK, NEW r \in Rotation
  PROVE  /\ rotations[r].pc \in {"idle", "insert", "revoke"}
         /\ rotations[r].pc = "idle" <=> rotations[r] = AtRest
         /\ rotations[r] # AtRest => rotations[r] \in OpenRotation
<1>1. rotations[r] \in {AtRest} \cup OpenRotation
  BY DEF AccountsTypeOK, OpenRotation
<1> QED
  BY <1>1 DEF OpenRotation

LoginsTypeOK == logins \in [Login -> {AtRest} \cup WrongLogin \cup ProvenLogin]

\* A login that moves on carries what it carried.
LEMMA MovesTyped ==
  ASSUME AccountsTypeOK, NEW l \in Login, NEW pc \in Proving, logins[l].pc \in Proving, Moves(l, pc)
  PROVE  /\ LoginsTypeOK'
         /\ logins'[l] \in ProvenLogin /\ logins'[l].pc = pc
         /\ logins'[l].user = logins[l].user /\ logins'[l].proof = logins[l].proof
         /\ \A m \in Login : m # l => logins'[m] = logins[m]
<1>1. logins[l] \in ProvenLogin
  BY LoginFields
<1>2. LoginsTypeOK
  BY DEF AccountsTypeOK, LoginsTypeOK, WrongLogin, ProvenLogin, Proving
<1>3. logins' = [logins EXCEPT ![l] = [logins[l] EXCEPT !.pc = pc]]
  BY <1>2 DEF Moves, LoginsTypeOK
<1>4. [logins[l] EXCEPT !.pc = pc] \in ProvenLogin
  BY <1>1 DEF ProvenLogin
<1> QED
  BY <1>1, <1>2, <1>3, <1>4 DEF LoginsTypeOK, ProvenLogin

\* A login that ends leaves the others alone.
LEMMA LeavesTyped ==
  ASSUME AccountsTypeOK, NEW l \in Login, LeavesLogin(l)
  PROVE  /\ LoginsTypeOK' /\ logins'[l] = AtRest
         /\ \A m \in Login : m # l => logins'[m] = logins[m]
<1>1. LoginsTypeOK
  BY DEF AccountsTypeOK, LoginsTypeOK, WrongLogin, ProvenLogin, Proving
<1> QED
  BY <1>1 DEF LoginsTypeOK, LeavesLogin

OthersTypeOK ==
  /\ users \in [Account -> UserRow]
  /\ codes \in [Code -> {"none", "unused", "used"}]
  /\ sessions \in [Token -> SessionRow \cup {None}]
  /\ rotations \in [Rotation -> {AtRest} \cup OpenRotation]
  /\ guesses \in [Account -> Nat]

\* The types of the accounts, those of the logins apart.
LEMMA TypesSplit ==
  /\ AccountsTypeOK <=> OthersTypeOK /\ LoginsTypeOK
  /\ AccountsTypeOK' <=> OthersTypeOK' /\ LoginsTypeOK'
  BY DEF AccountsTypeOK, OthersTypeOK, LoginsTypeOK, WrongLogin, ProvenLogin, Proving, OpenRotation

\* The two columns a login writes of its user's row.
LEMMA UserRowTyped ==
  ASSUME NEW row \in UserRow, NEW failed \in 0..MaxFailed + 1, NEW locked \in {"no", "yes", "past"}
  PROVE  LET new == [row EXCEPT !.failed = failed, !.locked = locked] IN
         new \in UserRow /\ new.email = row.email /\ new.mfa = row.mfa
  BY DEF UserRow

\* One step of one login keeps the types.
LEMMA LoginTyped ==
  ASSUME AccountsTypeOK, NEW l \in Login, LoginStep(l)
  PROVE  AccountsTypeOK'
<1>0. OthersTypeOK /\ LoginsTypeOK
  BY TypesSplit
<1> SUFFICES OthersTypeOK' /\ LoginsTypeOK'
  BY TypesSplit
<1> USE DEF OthersTypeOK
<1>1. CASE RecordFailure(l)
  <2>1. logins[l] \in WrongLogin
    BY <1>1, LoginFields DEF RecordFailure
  <2> DEFINE u == logins[l].user
             attempts == logins[l].failed + 1
  <2>2. u \in Account /\ attempts \in Nat
    BY <2>1, LockoutAssumption DEF WrongLogin
  <2>3. users' = [users EXCEPT ![u] = [users[u] EXCEPT
                    !.failed = IF attempts > MaxFailed THEN MaxFailed + 1 ELSE attempts,
                    !.locked = IF attempts >= MaxFailed THEN "yes" ELSE users[u].locked]]
    BY <1>0, <1>1, <2>2 DEF RecordFailure
  <2> DEFINE failed == IF attempts > MaxFailed THEN MaxFailed + 1 ELSE attempts
             locked == IF attempts >= MaxFailed THEN "yes" ELSE users[u].locked
  <2>4. users[u] \in UserRow /\ failed \in 0..MaxFailed + 1 /\ locked \in {"no", "yes", "past"}
    BY <1>0, <2>2, LockoutAssumption DEF UserRow
  <2>5. users' \in [Account -> UserRow]
    BY <1>0, <2>2, <2>3, <2>4, UserRowTyped
  <2>6. guesses' \in [Account -> Nat]
    BY <1>0, <1>1, <2>2 DEF RecordFailure
  <2> QED
    BY <1>0, <1>1, <2>5, <2>6, LeavesTyped DEF RecordFailure
<1>2. CASE IsPrivileged(l)
  BY <1>0, <1>2, MovesTyped DEF IsPrivileged, Proving
<1>3. CASE CheckFactor(l)
  BY <1>0, <1>3, MovesTyped, LeavesTyped DEF CheckFactor, Proving
<1>4. CASE ConsumeRecoveryCode(l)
  <2>1. codes' \in [Code -> {"none", "unused", "used"}]
    BY <1>0, <1>4 DEF ConsumeRecoveryCode
  <2> QED
    BY <1>0, <1>4, <2>1, MovesTyped DEF ConsumeRecoveryCode, Proving
<1>5. CASE ResetFailures(l)
  <2> DEFINE u == logins[l].user
  <2>1. u \in Account
    BY <1>5, LoginFields DEF ResetFailures, Proving, ProvenLogin
  <2>2. users' = [users EXCEPT ![u] = [users[u] EXCEPT !.failed = 0, !.locked = "no"]]
    BY <1>0, <1>5, <2>1 DEF ResetFailures
  <2>3. users[u] \in UserRow /\ 0 \in 0..MaxFailed + 1 /\ "no" \in {"no", "yes", "past"}
    BY <1>0, <2>1, LockoutAssumption
  <2>4. [users[u] EXCEPT !.failed = 0, !.locked = "no"] \in UserRow
    BY <2>3, UserRowTyped
  <2>5. users' \in [Account -> UserRow]
    BY <1>0, <2>1, <2>2, <2>4
  <2>6. guesses' \in [Account -> Nat]
    BY <1>0, <1>5 DEF ResetFailures
  <2> QED
    BY <1>0, <1>5, <2>5, <2>6, MovesTyped DEF ResetFailures, Proving
<1>6. ASSUME NEW t \in Token, IssueSession(l, t)
      PROVE  OthersTypeOK' /\ LoginsTypeOK'
  <2>1. logins[l].user \in Account
    BY <1>6, LoginFields DEF IssueSession, Proving, ProvenLogin
  <2> QED
    BY <1>0, <1>6, <2>1, LeavesTyped DEF IssueSession, SessionRow
<1>7. ASSUME NEW u \in Account, BeginLogin(l, u)
      PROVE  OthersTypeOK' /\ LoginsTypeOK'
  <2>1. CASE MissesPassword(l, u)
    BY <1>0, <1>7, <2>1 DEF BeginLogin, MissesPassword, LoginsTypeOK, WrongLogin, UserRow
  <2>2. CASE MatchesPassword(l, u)
    <3>1. PICK factor \in Factor : logins' = [logins EXCEPT ![l] =
            [pc |-> "matched", user |-> u,
             proof |-> [mfa |-> users[u].mfa, factor |-> factor, admin |-> AdminOf(u),
                        spent |-> factor \in Code /\ codes[factor] = "used"]]]
      BY <2>2 DEF MatchesPassword, Factor
    <3>2. users[u].mfa \in BOOLEAN /\ AdminOf(u) \in SUBSET Org
      BY <1>0 DEF UserRow, AdminOf
    <3>3. [mfa |-> users[u].mfa, factor |-> factor, admin |-> AdminOf(u),
           spent |-> factor \in Code /\ codes[factor] = "used"] \in Proof
      BY <3>2 DEF Proof
    <3>4. logins' \in [Login -> {AtRest} \cup WrongLogin \cup ProvenLogin]
      BY <1>0, <3>1, <3>3 DEF LoginsTypeOK, ProvenLogin, Proving
    <3> QED
      BY <1>0, <1>7, <3>4 DEF BeginLogin, LoginsTypeOK
  <2> QED
    BY <1>7, <2>1, <2>2 DEF BeginLogin
<1> QED
  BY <1>1, <1>2, <1>3, <1>4, <1>5, <1>6, <1>7 DEF LoginStep

\* A session row that is revoked, or copied to replace another, is a session row.
LEMMA SessionRowTyped ==
  ASSUME NEW row \in SessionRow, NEW from \in Token \cup {None}, NEW live \in BOOLEAN
  PROVE  /\ LET new == [row EXCEPT !.live = live] IN
            new \in SessionRow /\ new.from = row.from /\ new.live = live
         /\ LET new == [row EXCEPT !.from = from, !.live = live] IN
            new \in SessionRow /\ new.from = from
  BY DEF SessionRow

\* What is replaced exists, and so does what is being replaced.
ReplacedExists ==
  /\ \A t \in Token : sessions[t] # None /\ sessions[t].from # None => sessions[sessions[t].from] # None
  /\ \A r \in Rotation : rotations[r] # AtRest => sessions[rotations[r].old] # None

\* One step of one rotation keeps the types.
LEMMA RotationTyped ==
  ASSUME AccountsTypeOK, ReplacedExists, NEW r \in Rotation, RotationStep(r)
  PROVE  AccountsTypeOK'
<1>0. OthersTypeOK /\ LoginsTypeOK
  BY TypesSplit
<1> SUFFICES OthersTypeOK' /\ LoginsTypeOK'
  BY TypesSplit
<1> USE DEF OthersTypeOK, LoginsTypeOK
<1>1. CASE RevokeOld(r)
  <2>1. rotations[r].old \in Token /\ sessions[rotations[r].old] \in SessionRow
    BY <1>0, <1>1, RotationFields DEF RevokeOld, OpenRotation, ReplacedExists
  <2>2. [sessions[rotations[r].old] EXCEPT !.live = FALSE] \in SessionRow
    BY <2>1 DEF SessionRow
  <2>3. sessions' \in [Token -> SessionRow \cup {None}]
    BY <1>0, <1>1, <2>1, <2>2 DEF RevokeOld
  <2> QED
    BY <1>0, <1>1, <2>3 DEF RevokeOld
<1>2. ASSUME NEW t \in Token, ResolveSession(r, t)
      PROVE  OthersTypeOK' /\ LoginsTypeOK'
  BY <1>0, <1>2 DEF ResolveSession, OpenRotation
<1>3. ASSUME NEW t \in Token, InsertReplacement(r, t)
      PROVE  OthersTypeOK' /\ LoginsTypeOK'
  <2> DEFINE old == rotations[r].old
  <2>1. rotations[r] \in OpenRotation /\ old \in Token /\ sessions[old] \in SessionRow
    BY <1>0, <1>3, RotationFields DEF InsertReplacement, OpenRotation, ReplacedExists
  <2>2. [sessions[old] EXCEPT !.from = old, !.live = TRUE] \in SessionRow
    BY <2>1 DEF SessionRow
  <2>3. [rotations[r] EXCEPT !.pc = "revoke"] \in OpenRotation
    BY <2>1 DEF OpenRotation
  <2> QED
    BY <1>0, <1>3, <2>2, <2>3 DEF InsertReplacement
<1> QED
  BY <1>1, <1>2, <1>3 DEF RotationStep

\* So does what a user does outside a login, and what time does.
LEMMA UserTyped ==
  ASSUME AccountsTypeOK, NEW u \in Account,
         \/ RegisterUser(u) \/ VerifyEmail(u) \/ EnrolTotp(u) \/ RevokeAllSessions(u) \/ LockExpires(u)
  PROVE  AccountsTypeOK'
<1>0. OthersTypeOK /\ LoginsTypeOK
  BY TypesSplit
<1> SUFFICES OthersTypeOK' /\ LoginsTypeOK'
  BY TypesSplit
<1> USE DEF OthersTypeOK, LoginsTypeOK
<1>1. users[u] \in UserRow
  BY <1>0
<1>2. /\ \A email \in {"mailed", "lapsed", "verified"} : [users[u] EXCEPT !.email = email] \in UserRow
      /\ [users[u] EXCEPT !.mfa = TRUE] \in UserRow
      /\ [users[u] EXCEPT !.locked = "past"] \in UserRow
  BY <1>1 DEF UserRow
<1>3. CASE RegisterUser(u)
  BY <1>0, <1>2, <1>3 DEF RegisterUser
<1>4. CASE VerifyEmail(u)
  BY <1>0, <1>2, <1>4 DEF VerifyEmail
<1>5. CASE EnrolTotp(u)
  BY <1>0, <1>2, <1>5 DEF EnrolTotp
<1>6. CASE RevokeAllSessions(u)
  <2>1. ASSUME NEW t \in Token, sessions[t] # None
        PROVE  [sessions[t] EXCEPT !.live = FALSE] \in SessionRow
    <3>1. sessions[t] \in SessionRow
      BY <1>0, <2>1
    <3> QED
      BY <3>1 DEF SessionRow
  <2>2. sessions' \in [Token -> SessionRow \cup {None}]
    BY <1>0, <1>6, <2>1 DEF RevokeAllSessions
  <2>3. [users[u] EXCEPT !.email = IF users[u].email = "mailed" THEN "lapsed" ELSE users[u].email] \in UserRow
    BY <1>1 DEF UserRow
  <2>4. users' \in [Account -> UserRow]
    BY <1>0, <1>6, <2>3 DEF RevokeAllSessions
  <2> QED
    BY <1>0, <1>6, <2>2, <2>4 DEF RevokeAllSessions
<1>7. CASE LockExpires(u)
  BY <1>0, <1>2, <1>7 DEF LockExpires
<1> QED
  BY <1>3, <1>4, <1>5, <1>6, <1>7

\* A session that runs out keeps its row.
LEMMA ExpiryOfSessionTyped ==
  ASSUME AccountsTypeOK, NEW t \in Token, SessionExpires(t)
  PROVE  AccountsTypeOK'
<1>1. sessions[t] \in SessionRow
  BY DEF SessionExpires, AccountsTypeOK
<1>2. [sessions[t] EXCEPT !.live = FALSE] \in SessionRow
  BY <1>1 DEF SessionRow
<1>3. sessions' \in [Token -> SessionRow \cup {None}]
  BY <1>2 DEF SessionExpires, AccountsTypeOK
<1> QED
  BY <1>3, TypesSplit DEF SessionExpires, OthersTypeOK, LoginsTypeOK

-----------------------------------------------------------------------------
(* A token that was replaced is dead once its rotations have ended.         *)

\* Sessions are kept, apart from those that are revoked; new ones are a login's, with nothing
\* they replace, or a rotation's.
LEMMA SessionsKept ==
  ASSUME AccountsTypeOK, ReplacedExists, AccountsNext, NEW t \in Token
  PROVE  /\ sessions[t] # None => /\ sessions'[t] # None /\ sessions'[t].from = sessions[t].from
                                  /\ sessions'[t].live => sessions[t].live
         /\ sessions[t] = None /\ sessions'[t] # None =>
              \/ \E l \in Login : IssueSession(l, t) /\ sessions'[t].from = None
              \/ \E r \in Rotation : InsertReplacement(r, t)
<1> DEFINE Revoked == sessions[t] # None /\ sessions'[t] = [sessions[t] EXCEPT !.live = FALSE]
           Same == sessions'[t] = sessions[t]
           Fresh == sessions[t] = None
<1>1. CASE Same
  BY <1>1
<1>2. CASE Revoked
  <2>1. sessions[t] \in SessionRow
    BY <1>2 DEF AccountsTypeOK
  <2>2. /\ [sessions[t] EXCEPT !.live = FALSE] \in SessionRow
        /\ [sessions[t] EXCEPT !.live = FALSE].from = sessions[t].from
        /\ [sessions[t] EXCEPT !.live = FALSE].live = FALSE
    BY <2>1 DEF SessionRow
  <2> QED
    BY <1>2, <2>2, NoneIsNoSession
<1>3. ASSUME NEW l \in Login, NEW s \in Token, IssueSession(l, s), ~Same
      PROVE  Fresh /\ IssueSession(l, t) /\ sessions'[t].from = None
  <2>1. s = t /\ sessions'[t] = [user |-> logins[l].user, from |-> None, live |-> TRUE]
    BY <1>3 DEF IssueSession, AccountsTypeOK
  <2>2. sessions'[t].from = None
    BY <2>1
  <2> QED
    BY <1>3, <2>1, <2>2 DEF IssueSession
<1>4. ASSUME NEW r \in Rotation, NEW s \in Token, InsertReplacement(r, s), ~Same
      PROVE  Fresh /\ InsertReplacement(r, t)
  <2>1. s = t
    BY <1>4 DEF InsertReplacement, AccountsTypeOK
  <2> QED
    BY <1>4, <2>1 DEF InsertReplacement
<1>5. ASSUME NEW r \in Rotation, RevokeOld(r)
      PROVE  Same \/ Revoked
  BY <1>5, RotationFields DEF RevokeOld, ReplacedExists, AccountsTypeOK
<1>6. ASSUME NEW u \in Account, RevokeAllSessions(u)
      PROVE  Same \/ Revoked
  BY <1>6 DEF RevokeAllSessions, AccountsTypeOK
<1>7. ASSUME NEW s \in Token, SessionExpires(s)
      PROVE  Same \/ Revoked
  BY <1>7 DEF SessionExpires, AccountsTypeOK
<1>8. ASSUME NEW l \in Login, LoginStep(l), ~Same
      PROVE  \E s \in Token : IssueSession(l, s)
  BY <1>8 DEF LoginStep, RecordFailure, IsPrivileged, CheckFactor, ConsumeRecoveryCode, ResetFailures,
       BeginLogin
<1>9. ASSUME NEW u \in Account, RegisterUser(u) \/ VerifyEmail(u) \/ EnrolTotp(u) \/ LockExpires(u)
      PROVE  Same
  BY <1>9 DEF RegisterUser, VerifyEmail, EnrolTotp, LockExpires
<1>10. ASSUME NEW r \in Rotation, NEW s \in Token, ResolveSession(r, s)
       PROVE  Same
  BY <1>10 DEF ResolveSession
<1>11. \/ Same \/ Revoked
       \/ \E l \in Login : Fresh /\ IssueSession(l, t) /\ sessions'[t].from = None
       \/ \E r \in Rotation : Fresh /\ InsertReplacement(r, t)
  <2>1. CASE MembersMove
    BY <2>1 DEF MembersMove, accountVars
  <2>2. CASE \E l \in Login : LoginStep(l)
    BY <2>2, <1>3, <1>8
  <2>3. CASE \E r \in Rotation : RotationStep(r)
    BY <2>3, <1>4, <1>5, <1>10 DEF RotationStep
  <2>4. CASE \E u \in Account : RegisterUser(u) \/ VerifyEmail(u) \/ EnrolTotp(u)
               \/ RevokeAllSessions(u) \/ LockExpires(u)
    BY <2>4, <1>6, <1>9
  <2>5. CASE \E s \in Token : SessionExpires(s)
    BY <2>5, <1>7
  <2> QED
    BY <2>1, <2>2, <2>3, <2>4, <2>5 DEF AccountsNext
<1>12. CASE \E l \in Login : Fresh /\ IssueSession(l, t) /\ sessions'[t].from = None
  BY <1>12
<1>13. CASE \E r \in Rotation : Fresh /\ InsertReplacement(r, t)
  BY <1>13
<1> QED
  BY <1>1, <1>2, <1>11, <1>12, <1>13

\* A rotation under way goes on with the same token, or ends with that token dead.
LEMMA RotationsKept ==
  ASSUME AccountsTypeOK, ReplacedExists, AccountsNext, NEW r \in Rotation
  PROVE  /\ rotations[r] # AtRest =>
              \/ rotations'[r] # AtRest /\ rotations'[r].old = rotations[r].old
              \/ rotations'[r] = AtRest /\ ~sessions'[rotations[r].old].live
         /\ rotations[r] = AtRest /\ rotations'[r] # AtRest =>
              /\ rotations'[r].old \in Token /\ sessions[rotations'[r].old] # None
<1> DEFINE Same == rotations'[r] = rotations[r]
<1>1. ASSUME NEW q \in Rotation, RotationStep(q), ~Same
      PROVE  q = r
  BY <1>1 DEF RotationStep, RevokeOld, ResolveSession, InsertReplacement, AccountsTypeOK
<1>2. CASE RevokeOld(r)
  <2>1. rotations[r] # AtRest /\ rotations[r].old \in Token
    BY <1>2, RotationFields DEF RevokeOld, OpenRotation
  <2>2. sessions[rotations[r].old] \in SessionRow
    BY <2>1 DEF ReplacedExists, AccountsTypeOK
  <2>3. sessions'[rotations[r].old] = [sessions[rotations[r].old] EXCEPT !.live = FALSE]
    BY <1>2, <2>1 DEF RevokeOld, AccountsTypeOK
  <2>4. ~sessions'[rotations[r].old].live
    BY <2>2, <2>3 DEF SessionRow
  <2>5. rotations'[r] = AtRest
    BY <1>2 DEF RevokeOld, AccountsTypeOK
  <2> QED
    BY <2>1, <2>4, <2>5
<1>3. ASSUME NEW t \in Token, ResolveSession(r, t)
      PROVE  rotations[r] = AtRest /\ rotations'[r].old = t /\ sessions[t] # None
  <2>1. rotations'[r] = [pc |-> "insert", old |-> t]
    BY <1>3 DEF ResolveSession, AccountsTypeOK
  <2> QED
    BY <1>3, <2>1 DEF ResolveSession
<1>4. ASSUME NEW t \in Token, InsertReplacement(r, t)
      PROVE  /\ rotations[r] # AtRest /\ rotations'[r] # AtRest
             /\ rotations'[r].old = rotations[r].old
  <2>1. rotations[r] # AtRest /\ rotations[r] \in OpenRotation
    BY <1>4, RotationFields DEF InsertReplacement
  <2>2. rotations'[r] = [rotations[r] EXCEPT !.pc = "revoke"]
    BY <1>4 DEF InsertReplacement, AccountsTypeOK
  <2>3. rotations'[r].pc = "revoke" /\ rotations'[r].old = rotations[r].old
    BY <2>1, <2>2 DEF OpenRotation
  <2> QED
    BY <2>1, <2>3
<1>5. CASE Same
  BY <1>5
<1>6. CASE ~Same
  <2>1. PICK q \in Rotation : RotationStep(q)
    BY <1>6 DEF AccountsNext, MembersMove, accountVars, LoginStep, RecordFailure, IsPrivileged,
         CheckFactor, ConsumeRecoveryCode, ResetFailures, BeginLogin, IssueSession, RegisterUser,
         VerifyEmail, EnrolTotp, RevokeAllSessions, LockExpires, SessionExpires
  <2>2. RotationStep(r)
    BY <1>1, <1>6, <2>1
  <2> QED
    BY <1>2, <1>3, <1>4, <2>2 DEF RotationStep
<1> QED
  BY <1>5, <1>6

\* A step of the accounts keeps every replaced token dead or its rotation open.
LEMMA ReplacedStaysDead ==
  ASSUME AccountsTypeOK, ReplacedExists, RotationReplaces, AccountsNext
  PROVE  ReplacedExists' /\ RotationReplaces'
<1>1. ASSUME NEW t \in Token, sessions'[t] # None, sessions'[t].from # None
      PROVE  /\ sessions'[sessions'[t].from] # None
             /\ \/ ~sessions'[sessions'[t].from].live
                \/ \E r \in Rotation : rotations'[r] # AtRest /\ rotations'[r].old = sessions'[t].from
  <2>1. CASE sessions[t] # None
    <3> DEFINE old == sessions[t].from
    <3>1. sessions'[t].from = old
      BY <2>1, SessionsKept
    <3>2. old \in Token /\ sessions[old] # None
      BY <1>1, <2>1, <3>1 DEF AccountsTypeOK, SessionRow, ReplacedExists
    <3>3. sessions'[old] # None /\ (sessions'[old].live => sessions[old].live)
      BY <3>2, SessionsKept
    <3>4. CASE ~sessions[old].live
      BY <3>1, <3>3, <3>4
    <3>5. ASSUME NEW r \in Rotation, rotations[r] # AtRest, rotations[r].old = old
          PROVE  \/ ~sessions'[old].live
                 \/ rotations'[r] # AtRest /\ rotations'[r].old = old
      BY <3>5, RotationsKept
    <3> QED
      BY <1>1, <2>1, <3>1, <3>3, <3>4, <3>5 DEF RotationReplaces
  <2>2. CASE sessions[t] = None
    <3>1. PICK r \in Rotation : InsertReplacement(r, t)
      BY <1>1, <2>2, SessionsKept
    <3> DEFINE old == rotations[r].old
    <3>2. rotations[r] # AtRest /\ rotations[r] \in OpenRotation /\ old \in Token
      BY <3>1, RotationFields DEF InsertReplacement, OpenRotation
    <3>3. sessions[old] \in SessionRow
      BY <3>2 DEF ReplacedExists, AccountsTypeOK
    <3>4. sessions'[t] = [sessions[old] EXCEPT !.from = old, !.live = TRUE]
      BY <3>1 DEF InsertReplacement, AccountsTypeOK
    <3>5. sessions'[t].from = old
      BY <3>3, <3>4 DEF SessionRow
    <3>6. sessions'[old] # None
      BY <3>2, <3>3, NoneIsNoSession, SessionsKept
    <3>7. rotations'[r] = [rotations[r] EXCEPT !.pc = "revoke"]
      BY <3>1 DEF InsertReplacement, AccountsTypeOK
    <3>8. rotations'[r] # AtRest /\ rotations'[r].old = old
      BY <3>2, <3>7 DEF OpenRotation
    <3> QED
      BY <3>5, <3>6, <3>8
  <2> QED
    BY <2>1, <2>2
<1>2. ASSUME NEW r \in Rotation, rotations'[r] # AtRest
      PROVE  sessions'[rotations'[r].old] # None
  <2>1. CASE rotations[r] = AtRest
    BY <1>2, <2>1, RotationsKept, SessionsKept
  <2>2. CASE rotations[r] # AtRest
    <3>1. rotations'[r].old = rotations[r].old
      BY <1>2, <2>2, RotationsKept
    <3>2. rotations[r].old \in Token /\ sessions[rotations[r].old] # None
      BY <2>2, RotationFields DEF OpenRotation, ReplacedExists
    <3> QED
      BY <3>1, <3>2, SessionsKept
  <2> QED
    BY <2>1, <2>2
<1>3. RotationReplaces'
  BY <1>1 DEF RotationReplaces
<1>4. ReplacedExists'
  BY <1>1, <1>2 DEF ReplacedExists
<1> QED
  BY <1>3, <1>4

-----------------------------------------------------------------------------
(* A session comes from a login that has earned it.                         *)

\* What a login in flight rests on, from the moment its password matched.
Basis(u, p) ==
  /\ users[u].email = "verified"
  /\ p.factor = "none" <=> ~p.mfa
  /\ p.spent => p.factor \in Code /\ codes[p.factor] = "used"
  /\ \A o \in p.admin : members[<<u, o>>] # None

\* What it has established by the time it is where it is.
Passed(pc, u, p) ==
  /\ pc = "consume" => p.factor \in Code /\ ~p.spent
  /\ pc \in {"reset", "issue"} =>
       p.factor # "wrong" /\ ~p.spent /\ (p.factor \in Code => codes[p.factor] = "used")
  /\ pc \in {"ordinary", "reset", "issue"} /\ p.factor = "none" =>
       ~AdminOfPlatform(u) /\ p.admin \cap AdminOf(u) = {}

Earning(l) == logins[l].pc \in Proving =>
  Basis(logins[l].user, logins[l].proof) /\ Passed(logins[l].pc, logins[l].user, logins[l].proof)

\* What no step takes back underneath a login: a verified address, a used code, a row of
\* members; and whoever has a row becomes no administrator by it.
Solid ==
  /\ \A u \in Account : users[u].email = "verified" => users'[u].email = "verified"
  /\ \A k \in Code : codes[k] = "used" => codes'[k] = "used"
  /\ \A u \in User, o \in Org : members[<<u, o>>] # None =>
       members'[<<u, o>>] # None /\ (o \in AdminOf(u)' => o \in AdminOf(u))

\* Joining or leaving an organisation deletes no membership row and makes nobody
\* an admin again of an organisation whose row he already has.
LEMMA MembersAreSolid ==
  ASSUME RolesTypeOK, NEW v \in User, NEW p \in Org,
         Leaves(v, p) \/ \E role \in Offered : Joins(v, p, role),
         NEW u \in User, NEW o \in Org, members[<<u, o>>] # None
  PROVE  members'[<<u, o>>] # None /\ (o \in AdminOf(u)' => o \in AdminOf(u))
<1>1. members[<<u, o>>] \in Membership
  BY DEF RolesTypeOK
<1>2. CASE members'[<<u, o>>] = members[<<u, o>>]
  BY <1>2 DEF AdminOf, IsActive
<1>3. CASE members'[<<u, o>>] = [members[<<u, o>>] EXCEPT !.status = "removed"]
  <2>1. members'[<<u, o>>] \in Membership /\ members'[<<u, o>>].status = "removed"
    BY <1>1, <1>3 DEF Membership
  <2> QED
    BY <2>1, NoneIsNoMembership DEF AdminOf, IsActive
<1>4. members'[<<u, o>>] \in {members[<<u, o>>], [members[<<u, o>>] EXCEPT !.status = "removed"]}
  BY DEF RolesTypeOK, Leaves, Joins
<1> QED
  BY <1>2, <1>3, <1>4

\* What a login has proved cannot be undone by a step of the accounts.
LEMMA StepsAreSolid ==
  ASSUME RolesTypeOK, AccountsTypeOK, AccountsNext
  PROVE  Solid
<1>1. ASSUME NEW u \in Account, users[u].email = "verified"
      PROVE  users'[u].email = "verified"
  <2> DEFINE Same == users'[u] = users[u]
             Email(row) == row.email = "verified"
  <2>1. users[u] \in UserRow
    BY DEF AccountsTypeOK
  <2>2. ASSUME NEW v \in Account, RegisterUser(v) \/ VerifyEmail(v)
        PROVE  Same
    BY <1>1, <2>2 DEF RegisterUser, VerifyEmail, AccountsTypeOK
  <2>3. ASSUME NEW v \in Account, EnrolTotp(v)
        PROVE  Same \/ users'[u] = [users[u] EXCEPT !.mfa = TRUE]
    BY <2>3 DEF EnrolTotp, AccountsTypeOK
  <2>4. ASSUME NEW v \in Account, RevokeAllSessions(v)
        PROVE  Same \/ users'[u] = [users[u] EXCEPT !.email = users[u].email]
    BY <1>1, <2>4 DEF RevokeAllSessions, AccountsTypeOK
  <2>5. ASSUME NEW v \in Account, LockExpires(v)
        PROVE  Same \/ users'[u] = [users[u] EXCEPT !.locked = "past"]
    BY <2>5 DEF LockExpires, AccountsTypeOK
  <2>6. ASSUME NEW l \in Login, LoginStep(l), ~Same
        PROVE  \E failed, locked : users'[u] = [users[u] EXCEPT !.failed = failed, !.locked = locked]
    <3>1. CASE RecordFailure(l)
      BY <2>6, <3>1 DEF RecordFailure, AccountsTypeOK
    <3>2. CASE ResetFailures(l)
      BY <2>6, <3>2 DEF ResetFailures, AccountsTypeOK
    <3> QED
      BY <2>6, <3>1, <3>2 DEF LoginStep, IsPrivileged, CheckFactor, ConsumeRecoveryCode, IssueSession,
           BeginLogin
  <2>7. CASE Same
    BY <1>1, <2>7
  <2>8. /\ [users[u] EXCEPT !.mfa = TRUE].email = users[u].email
        /\ [users[u] EXCEPT !.email = users[u].email].email = users[u].email
        /\ [users[u] EXCEPT !.locked = "past"].email = users[u].email
        /\ \A failed, locked : [users[u] EXCEPT !.failed = failed, !.locked = locked].email = users[u].email
    BY <2>1 DEF UserRow
  <2>9. CASE \E l \in Login : LoginStep(l)
    <3>1. CASE ~Same
      <4>1. PICK failed, locked : users'[u] = [users[u] EXCEPT !.failed = failed, !.locked = locked]
        BY <2>6, <2>9, <3>1
      <4>2. users'[u].email = users[u].email
        BY <2>8, <4>1
      <4> QED
        BY <1>1, <4>2
    <3> QED
      BY <2>7, <3>1
  <2>10. CASE \E v \in Account : RegisterUser(v) \/ VerifyEmail(v) \/ EnrolTotp(v)
                \/ RevokeAllSessions(v) \/ LockExpires(v)
    BY <1>1, <2>2, <2>3, <2>4, <2>5, <2>7, <2>8, <2>10
  <2>11. CASE UNCHANGED users
    BY <1>1, <2>11
  <2> QED
    BY <2>9, <2>10, <2>11
       DEF AccountsNext, MembersMove, accountVars, RotationStep, RevokeOld, ResolveSession,
           InsertReplacement, SessionExpires
<1>2. ASSUME NEW k \in Code, codes[k] = "used"
      PROVE  codes'[k] = "used"
  BY <1>2 DEF AccountsNext, MembersMove, accountVars, LoginStep, RecordFailure, IsPrivileged,
       CheckFactor, ConsumeRecoveryCode, ResetFailures, IssueSession, BeginLogin, RotationStep,
       RevokeOld, ResolveSession, InsertReplacement, RegisterUser, VerifyEmail, EnrolTotp,
       RevokeAllSessions, LockExpires, SessionExpires, AccountsTypeOK
<1>3. ASSUME NEW u \in User, NEW o \in Org, members[<<u, o>>] # None
      PROVE  members'[<<u, o>>] # None /\ (o \in AdminOf(u)' => o \in AdminOf(u))
  <2>1. CASE UNCHANGED members
    BY <1>3, <2>1 DEF AdminOf, IsActive
  <2>2. CASE MembersMove
    BY <1>3, <2>2, AccountAssumption, MembersAreSolid DEF MembersMove
  <2> QED
    BY <2>1, <2>2 DEF AccountsNext
<1> QED
  BY <1>1, <1>2, <1>3 DEF Solid

\* What a login has proved, and the checks it has passed, stay true.
LEMMA BasisStays ==
  ASSUME Solid, NEW u \in Account, NEW p \in Proof, Basis(u, p)
  PROVE  /\ Basis(u, p)'
         /\ \A pc : Passed(pc, u, p) => Passed(pc, u, p)'
<1>1. \A o \in p.admin : o \in Org /\ members[<<u, o>>] # None
  BY DEF Basis, Proof
<1>2. \A o \in p.admin : members'[<<u, o>>] # None /\ (o \in AdminOf(u)' => o \in AdminOf(u))
  BY <1>1, AccountAssumption DEF Solid
<1>3. Basis(u, p)'
  BY <1>2 DEF Solid, Basis
<1>4. p.admin \cap AdminOf(u) = {} => p.admin \cap AdminOf(u)' = {}
  BY <1>2
<1>5. p.factor \in Code /\ codes[p.factor] = "used" => codes'[p.factor] = "used"
  BY DEF Solid
<1>6. AdminOfPlatform(u)' = AdminOfPlatform(u)
  BY DEF AdminOfPlatform
<1>7. \A pc : Passed(pc, u, p) => Passed(pc, u, p)'
  BY <1>4, <1>5, <1>6 DEF Passed
<1> QED
  BY <1>3, <1>7

\* A login that moves on keeps its basis and must pass what it moves to.
LEMMA MovedEarns ==
  ASSUME AccountsTypeOK, Solid, NEW l \in Login, Earning(l), NEW pc \in Proving,
         logins[l].pc \in Proving, Moves(l, pc),
         Passed(pc, logins[l].user, logins[l].proof)
  PROVE  Earning(l)'
<1>1. PICK u \in Account, p \in Proof : u = logins[l].user /\ p = logins[l].proof
  BY LoginFields DEF ProvenLogin
<1>2. logins'[l].pc = pc /\ logins'[l].user = u /\ logins'[l].proof = p
  BY <1>1, MovesTyped
<1>3. Basis(u, p) /\ Passed(pc, u, p)
  BY <1>1 DEF Earning
<1>4. Basis(u, p)' /\ Passed(pc, u, p)'
  BY <1>3, BasisStays
<1> QED
  BY <1>2, <1>4 DEF Earning

\* A login that does not move keeps what it has earned.
LEMMA UnmovedEarns ==
  ASSUME AccountsTypeOK, Solid, NEW l \in Login, Earning(l), logins'[l] = logins[l]
  PROVE  Earning(l)'
<1>1. CASE logins[l].pc \in Proving
  <2>1. PICK u \in Account, p \in Proof : u = logins[l].user /\ p = logins[l].proof
    BY <1>1, LoginFields DEF ProvenLogin
  <2>2. PICK pc \in Proving : pc = logins[l].pc
    BY <1>1
  <2>3. Basis(u, p) /\ Passed(pc, u, p)
    BY <1>1, <2>1, <2>2 DEF Earning
  <2>4. Basis(u, p)' /\ Passed(pc, u, p)'
    BY <2>3, BasisStays
  <2> QED
    BY <2>1, <2>2, <2>4 DEF Earning
<1>2. CASE logins[l].pc \notin Proving
  BY <1>2 DEF Earning
<1> QED
  BY <1>1, <1>2

\* A login's own step earns what the next program point requires.
LEMMA LoginEarns ==
  ASSUME RolesTypeOK, AccountsTypeOK, Solid, NEW l \in Login, Earning(l), LoginStep(l)
  PROVE  Earning(l)'
<1> DEFINE u == logins[l].user
           p == logins[l].proof
<1> USE DEF Proving
<1>0. logins[l].pc \in Proving => Basis(u, p) /\ Passed(logins[l].pc, u, p)
  BY DEF Earning
<1>1. ASSUME LeavesLogin(l)
      PROVE  Earning(l)'
  BY <1>1, LeavesTyped DEF Earning
<1>2. CASE IsPrivileged(l)
  <2>1. PICK pc \in {"privileged", "ordinary"} :
          Moves(l, pc) /\ (pc = "ordinary" => ~AdminOfPlatform(u) /\ AdminOf(u) = {})
    BY <1>2 DEF IsPrivileged
  <2>2. Passed(pc, u, p)
    BY <2>1 DEF Passed
  <2> QED
    BY <1>2, <2>1, <2>2, MovedEarns DEF IsPrivileged
<1>3. CASE CheckFactor(l)
  <2>1. logins[l].pc \in {"ordinary", "privileged"} /\ Basis(u, p) /\ Passed(logins[l].pc, u, p)
    BY <1>0, <1>3 DEF CheckFactor
  <2>2. CASE (NeedsNone(l) \/ HasTotp(l)) /\ Moves(l, "reset")
    <3>1. Passed("reset", u, p)
      BY <2>1, <2>2, AccountAssumption DEF Passed, Basis, NeedsNone, HasTotp
    <3> QED
      BY <2>1, <2>2, <3>1, MovedEarns
  <2>3. CASE HasCode(l) /\ Moves(l, "consume")
    <3>1. Passed("consume", u, p)
      BY <2>1, <2>3 DEF Passed, Basis, HasCode
    <3> QED
      BY <2>1, <2>3, <3>1, MovedEarns
  <2> QED
    BY <1>1, <1>3, <2>2, <2>3 DEF CheckFactor
<1>4. CASE ConsumeRecoveryCode(l)
  <2>1. PICK v \in Account, q \in Proof : v = u /\ q = p
    BY <1>4, LoginFields DEF ConsumeRecoveryCode, ProvenLogin
  <2>2. Basis(v, q) /\ Passed("consume", v, q)
    BY <1>0, <1>4, <2>1 DEF ConsumeRecoveryCode
  <2>3. logins'[l].pc = "reset" /\ logins'[l].user = v /\ logins'[l].proof = q
    BY <1>4, <2>1, MovesTyped DEF ConsumeRecoveryCode
  <2>4. codes'[q.factor] = "used" /\ q.factor \notin {"none", "wrong"} /\ ~q.spent
    BY <1>4, <2>1, <2>2, AccountAssumption DEF ConsumeRecoveryCode, Passed, AccountsTypeOK
  <2>5. Basis(v, q)'
    BY <2>2, BasisStays
  <2>6. Passed("reset", v, q)'
    BY <2>4 DEF Passed
  <2> QED
    BY <2>3, <2>5, <2>6 DEF Earning
<1>5. CASE ResetFailures(l)
  <2>1. Passed("issue", u, p)
    BY <1>0, <1>5 DEF ResetFailures, Passed
  <2> QED
    BY <1>5, <2>1, MovedEarns DEF ResetFailures
<1>6. ASSUME NEW v \in Account, BeginLogin(l, v)
      PROVE  Earning(l)'
  <2>1. CASE MissesPassword(l, v)
    BY <2>1 DEF MissesPassword, AccountsTypeOK, Earning
  <2>2. CASE MatchesPassword(l, v)
    <3>1. PICK factor \in (IF users[v].mfa THEN {"totp", "wrong"} \cup Code ELSE {"none"}) :
            logins' = [logins EXCEPT ![l] =
              [pc |-> "matched", user |-> v,
               proof |-> [mfa |-> users[v].mfa, factor |-> factor, admin |-> AdminOf(v),
                          spent |-> factor \in Code /\ codes[factor] = "used"]]]
      BY <2>2 DEF MatchesPassword
    <3>2. PICK q : q = [mfa |-> users[v].mfa, factor |-> factor, admin |-> AdminOf(v),
                        spent |-> factor \in Code /\ codes[factor] = "used"]
      OBVIOUS
    <3>3. users[v].email = "verified" /\ (factor = "none" <=> ~users[v].mfa)
      BY <2>2, <3>1, AccountAssumption DEF MatchesPassword
    <3>4. q \in Proof
      BY <3>1, <3>2 DEF AdminOf, Proof, AccountsTypeOK, UserRow, Factor
    <3>5. q.mfa = users[v].mfa /\ q.factor = factor /\ q.admin = AdminOf(v)
          /\ q.spent = (factor \in Code /\ codes[factor] = "used")
      BY <3>2
    <3>6. Basis(v, q)
      BY <3>3, <3>5 DEF Basis, AdminOf, IsActive
    <3>7. logins'[l].pc = "matched" /\ logins'[l].user = v /\ logins'[l].proof = q
      BY <3>1, <3>2 DEF AccountsTypeOK
    <3>8. Basis(v, q)'
      BY <3>4, <3>6, BasisStays
    <3> QED
      BY <3>7, <3>8 DEF Earning, Passed
  <2> QED
    BY <1>6, <2>1, <2>2 DEF BeginLogin
<1> QED
  BY <1>1, <1>2, <1>3, <1>4, <1>5, <1>6 DEF LoginStep, RecordFailure, IssueSession

AccountsInv ==
  /\ RolesTypeOK /\ AccountsTypeOK
  /\ ReplacedExists /\ RotationReplaces
  /\ \A l \in Login : Earning(l)

\* Every step of logins, rotations and sessions keeps the invariant.
LEMMA AccountsKept == AccountsInv /\ [AccountsNext]_<<members, accountVars>> => AccountsInv'
<1>1. ASSUME AccountsInv, AccountsNext
      PROVE  AccountsInv'
  <2> USE <1>1 DEF AccountsInv
  <2>1. RolesTypeOK'
    <3>1. CASE UNCHANGED members
      BY <3>1 DEF RolesTypeOK
    <3>2. CASE MembersMove
      BY <3>2, AccountAssumption, OfferedAssumption, RolesStep DEF MembersMove
    <3> QED
      BY <3>1, <3>2 DEF AccountsNext
  <2>2. AccountsTypeOK'
    <3>1. CASE MembersMove
      BY <3>1 DEF MembersMove, accountVars, AccountsTypeOK
    <3> QED
      BY <3>1, LoginTyped, RotationTyped, UserTyped, ExpiryOfSessionTyped DEF AccountsNext
  <2>3. ReplacedExists' /\ RotationReplaces'
    BY ReplacedStaysDead
  <2>4. ASSUME NEW l \in Login
        PROVE  Earning(l)'
    <3>1. Solid
      BY StepsAreSolid
    <3>2. CASE logins'[l] = logins[l]
      BY <3>1, <3>2, UnmovedEarns
    <3>3. CASE LoginStep(l)
      BY <3>1, <3>3, LoginEarns
    <3>4. ASSUME NEW m \in Login, m # l, LoginStep(m)
          PROVE  logins'[l] = logins[l]
      BY <3>4 DEF LoginStep, RecordFailure, IsPrivileged, CheckFactor, ConsumeRecoveryCode,
           ResetFailures, IssueSession, BeginLogin, MissesPassword, MatchesPassword, Moves,
           LeavesLogin, AccountsTypeOK
    <3>5. CASE UNCHANGED logins
      BY <3>2, <3>5
    <3> QED
      BY <3>2, <3>3, <3>4, <3>5
         DEF AccountsNext, MembersMove, accountVars, RotationStep, RevokeOld, ResolveSession,
             InsertReplacement, RegisterUser, VerifyEmail, EnrolTotp, RevokeAllSessions,
             LockExpires, SessionExpires
  <2> QED
    BY <2>1, <2>2, <2>3, <2>4
<1>2. ASSUME AccountsInv, UNCHANGED <<members, accountVars>>
      PROVE  AccountsInv'
  BY <1>2 DEF accountVars, AccountsInv, RolesTypeOK, AccountsTypeOK, ReplacedExists,
       RotationReplaces, Earning, Basis, Passed, AdminOf, IsActive
<1> QED
  BY <1>1, <1>2

\* The empty tables satisfy it.
LEMMA AccountsInitially == RolesInit /\ AccountsInit => AccountsInv
  BY LockoutAssumption
     DEF RolesInit, AccountsInit, AccountsInv, RolesTypeOK, AccountsTypeOK, UserRow, ReplacedExists,
         RotationReplaces, Earning, Proving

\* The strengthened invariant of logins and rotations, whatever memberships do underneath.
THEOREM AccountsInvariant == AccountsSpec => []AccountsInv
<1> QED
  BY AccountsInitially, AccountsKept, PTL DEF AccountsSpec

\* A session token that rotateSession (server/auth/service.ts) has replaced is dead once every
\* rotation of it has ended, however many overlap or die.
THEOREM ReplacedTokensDie == AccountsSpec => []RotationReplaces
<1>1. AccountsInv => RotationReplaces
  BY DEF AccountsInv
<1> QED
  BY <1>1, AccountsInvariant, PTL

\* login (server/auth/service.ts) hands out a session only to who has earned it: a verified
\* address, the second factor that an administrator of the platform or of an organisation needs,
\* a recovery code unused when the login began and used from then on.  It does not say that a
\* code is used once: logins that overlap may share one.
THEOREM SessionsAreAlwaysEarned == AccountsSpec => SessionsAreEarned
<1>1. AccountsInv /\ [AccountsNext]_<<members, accountVars>> =>
        [\A t \in Token : sessions[t] = None /\ sessions'[t] # None =>
           \/ sessions'[t].from # None
           \/ \E l \in Login : logins[l].pc = "issue" /\ logins'[l] = AtRest /\ Earned(l)]_accountVars
  <2> SUFFICES ASSUME AccountsInv, AccountsNext, NEW t \in Token, sessions[t] = None, sessions'[t] # None
               PROVE  \/ sessions'[t].from # None
                      \/ \E l \in Login : logins[l].pc = "issue" /\ logins'[l] = AtRest /\ Earned(l)
    BY DEF accountVars
  <2> USE DEF AccountsInv
  <2>1. ASSUME NEW l \in Login, IssueSession(l, t)
        PROVE  logins[l].pc = "issue" /\ logins'[l] = AtRest /\ Earned(l)
    <3>1. logins[l].pc = "issue" /\ logins'[l] = AtRest
      BY <2>1, LeavesTyped DEF IssueSession
    <3> QED
      BY <3>1 DEF Earning, Basis, Passed, Earned, Proving
  <2>2. ASSUME NEW r \in Rotation, InsertReplacement(r, t)
        PROVE  sessions'[t].from # None
    <3> DEFINE old == rotations[r].old
    <3>1. rotations[r] # AtRest /\ rotations[r] \in OpenRotation
      BY <2>2, RotationFields DEF InsertReplacement
    <3>2. old \in Token /\ sessions[old] \in SessionRow
      BY <3>1 DEF OpenRotation, ReplacedExists, AccountsTypeOK
    <3>3. sessions'[t] = [sessions[old] EXCEPT !.from = old, !.live = TRUE]
      BY <2>2 DEF InsertReplacement, AccountsTypeOK
    <3>4. sessions'[t].from = old
      BY <3>2, <3>3 DEF SessionRow
    <3> QED
      BY <3>2, <3>4, NoneIsNoSession
  <2> QED
    BY <2>1, <2>2, SessionsKept
<1> QED
  BY <1>1, AccountsInvariant, PTL DEF AccountsSpec, SessionsAreEarned


-----------------------------------------------------------------------------
(***************************************************************************)
(* The lockout.  Each wrong password lowers the tally of the failures that *)
(* the logins of an account count: the login that has it answered counts   *)
(* one more than it has read, and the others no fewer than that login, or  *)
(* than they did.  Tallies are never the same twice, and there are         *)
(* GuessBudget of them.                                                    *)
(***************************************************************************)

Level == 0..MaxFailed - 2

\* Login l is about to write the counter of account u from the row it has read.
Counting(u, l) == logins[l].pc = "wrong" /\ logins[l].user = u

\* The logins that count at most i failures of account u, or would if they began or ended now.
Low(u, i) == {l \in Login : users[u].failed <= i \/ (Counting(u, l) /\ logins[l].failed <= i)}

TallyOf(u) == [i \in Level |-> Cardinality(Low(u, i))]

\* Tally s comes after tally t: fewer logins count i failures at most, and no more count less.
Below(s, t) == \E i \in Level : s[i] < t[i] /\ \A j \in Level : j < i => s[j] <= t[j]

\* Each wrong password answered has left a tally behind.
Spent(u) ==
  \E past \in SUBSET Tally :
    /\ IsFiniteSet(past) /\ Cardinality(past) = guesses[u]
    /\ \A t \in past : Below(TallyOf(u), t)

\* There are finitely many functions between finite sets: one for every graph at most.
LEMMA FunctionsAreFinite ==
  ASSUME NEW S, NEW T, IsFiniteSet(S), IsFiniteSet(T)
  PROVE  IsFiniteSet([S -> T])
<1> DEFINE Graph(f) == {<<x, f[x]>> : x \in S}
           G == [f \in [S -> T] |-> Graph(f)]
<1>1. IsFiniteSet(SUBSET (S \X T))
  BY FS_Product, FS_SUBSET
<1>2. ASSUME NEW f \in [S -> T], NEW g \in [S -> T], Graph(f) = Graph(g)
      PROVE  f = g
  <2>1. ASSUME NEW x \in S
        PROVE  f[x] = g[x]
    <3>1. <<x, f[x]>> \in Graph(g)
      BY <1>2
    <3> QED
      BY <3>1
  <2> QED
    BY <2>1
<1>3. G \in [[S -> T] -> SUBSET (S \X T)]
  OBVIOUS
<1>4. \A f, g \in [S -> T] : G[f] = G[g] => f = g
  BY <1>2
<1>5. G \in Injection([S -> T], SUBSET (S \X T))
  BY <1>3, <1>4 DEF Injection, IsInjective
<1> QED
  BY <1>1, <1>5, FS_Injection

\* Tallies are finitely many.
LEMMA TalliesAreFinite == IsFiniteSet(Tally) /\ GuessBudget \in Nat
<1>1. Cardinality(Login) \in Nat
  BY LoginsAreFinite, FS_CardinalityType
<1>2. IsFiniteSet([0..MaxFailed - 2 -> 0..Cardinality(Login)])
  <2>1. IsFiniteSet(0..MaxFailed - 2) /\ IsFiniteSet(0..Cardinality(Login))
    BY <1>1, LockoutAssumption, FS_Interval
  <2> QED
    BY <2>1, FunctionsAreFinite
<1>3. Tally \subseteq [0..MaxFailed - 2 -> 0..Cardinality(Login)]
  BY DEF Tally
<1>4. IsFiniteSet(Tally)
  BY <1>2, <1>3, FS_Subset
<1> QED
  BY <1>4, FS_CardinalityType DEF GuessBudget

\* No tally comes after itself.
LEMMA BelowIsStrict ==
  ASSUME NEW s \in Tally
  PROVE  ~Below(s, s)
<1>1. \A i \in Level : s[i] \in Nat
  BY LoginsAreFinite, FS_CardinalityType DEF Tally, Level
<1> QED
  BY <1>1 DEF Below

\* And what comes after a later tally comes after an earlier one.
LEMMA BelowIsTransitive ==
  ASSUME NEW r \in Tally, NEW s \in Tally, NEW t \in Tally, Below(r, s), Below(s, t)
  PROVE  Below(r, t)
<1>1. \A i \in Level : r[i] \in Nat /\ s[i] \in Nat /\ t[i] \in Nat
  BY LoginsAreFinite, FS_CardinalityType DEF Tally, Level
<1>2. PICK i \in Level : r[i] < s[i] /\ \A j \in Level : j < i => r[j] <= s[j]
  BY DEF Below
<1>3. PICK k \in Level : s[k] < t[k] /\ \A j \in Level : j < k => s[j] <= t[j]
  BY DEF Below
<1>4. i \in Int /\ k \in Int /\ \A j \in Level : j \in Int
  BY DEF Level
<1>5. CASE i < k
  <2>1. r[i] < t[i] /\ \A j \in Level : j < i => r[j] <= t[j]
    BY <1>1, <1>2, <1>3, <1>4, <1>5
  <2> QED
    BY <2>1 DEF Below
<1>6. CASE ~(i < k)
  <2>1. r[k] < t[k]
    <3>1. r[k] <= s[k]
      BY <1>1, <1>2, <1>4, <1>6
    <3> QED
      BY <1>1, <1>3, <3>1
  <2>2. ASSUME NEW j \in Level, j < k
        PROVE  r[j] <= t[j]
    <3>1. r[j] <= s[j] /\ s[j] <= t[j]
      BY <1>2, <1>3, <1>4, <1>6, <2>2
    <3> QED
      BY <1>1, <3>1
  <2> QED
    BY <2>1, <2>2 DEF Below
<1> QED
  BY <1>5, <1>6

\* The logins of an account always make a tally.
LEMMA TallyTyped ==
  ASSUME AccountsTypeOK, NEW u \in Account
  PROVE  TallyOf(u) \in Tally
<1>1. users[u].failed \in Nat /\ \A i \in Level : i \in Int
  BY LockoutAssumption DEF AccountsTypeOK, UserRow, Level
<1>2. \A l \in Login : Counting(u, l) => logins[l].failed \in Nat
  BY LoginFields, LockoutAssumption DEF Counting, WrongLogin, Proving
<1>3. ASSUME NEW i \in Level
      PROVE  IsFiniteSet(Low(u, i)) /\ Cardinality(Low(u, i)) \in 0..Cardinality(Login)
  <2>1. Low(u, i) \in SUBSET Login
    BY DEF Low
  <2>2. IsFiniteSet(Low(u, i)) /\ Cardinality(Low(u, i)) <= Cardinality(Login)
    BY <2>1, LoginsAreFinite, FS_Subset
  <2>3. Cardinality(Low(u, i)) \in Nat /\ Cardinality(Login) \in Nat
    BY <2>2, LoginsAreFinite, FS_CardinalityType
  <2> QED
    BY <2>2, <2>3
<1>4. ASSUME NEW i \in Level, NEW j \in Level, i <= j
      PROVE  Cardinality(Low(u, i)) <= Cardinality(Low(u, j))
  <2>1. Low(u, i) \in SUBSET Low(u, j)
    BY <1>1, <1>2, <1>4 DEF Low
  <2> QED
    BY <1>3, <2>1, FS_Subset
<1> QED
  BY <1>3, <1>4 DEF TallyOf, Tally, Level


\* A step that leaves the counter of an account and, but for logins that begin, what its logins
\* have read, leaves its tally; so does a login that is not of it.
LEMMA TallyStands ==
  ASSUME AccountsTypeOK, NEW u \in Account,
         users'[u].failed = users[u].failed,
         \A l \in Login :
           IF Counting(u, l) THEN logins'[l] = logins[l]
                             ELSE Counting(u, l)' => logins'[l].failed = users[u].failed
  PROVE  TallyOf(u)' = TallyOf(u)
<1>1. \A i \in Level : Low(u, i)' = Low(u, i)
  BY DEF Low, Counting
<1>2. TallyOf(u)' = [i \in Level |-> Cardinality(Low(u, i)')]
  BY DEF TallyOf
<1> QED
  BY <1>1, <1>2 DEF TallyOf

\* A wrong password that does not lock the account makes its tally a later one.
LEMMA FailureLowers ==
  ASSUME AccountsTypeOK, AccountsTypeOK', NEW u \in Account, NEW l \in Login,
         RecordFailure(l), u = logins[l].user, users'[u].locked # "yes"
  PROVE  Below(TallyOf(u)', TallyOf(u))
<1>0. PICK f : f = logins[l].failed
  OBVIOUS
<1>1. Counting(u, l) /\ f \in Nat
  BY <1>0, LoginFields, LockoutAssumption DEF RecordFailure, Counting, WrongLogin
<1>2. /\ f + 1 < MaxFailed
      /\ users'[u].failed = f + 1
  <2>1. users'[u] = [users[u] EXCEPT
                       !.failed = IF f + 1 > MaxFailed THEN MaxFailed + 1 ELSE f + 1,
                       !.locked = IF f + 1 >= MaxFailed THEN "yes" ELSE users[u].locked]
    BY <1>0 DEF RecordFailure, AccountsTypeOK
  <2>2. users[u] \in UserRow
    BY DEF AccountsTypeOK
  <2>3. /\ users'[u].failed = IF f + 1 > MaxFailed THEN MaxFailed + 1 ELSE f + 1
        /\ users'[u].locked = IF f + 1 >= MaxFailed THEN "yes" ELSE users[u].locked
    BY <2>1, <2>2 DEF UserRow
  <2> QED
    BY <1>1, <2>3, LockoutAssumption
<1>3. f \in Level /\ \A i \in Level : i \in Nat
  BY <1>1, <1>2, LockoutAssumption DEF Level
<1>4. ~Counting(u, l)' /\ \A m \in Login : m # l => logins'[m] = logins[m]
  BY LeavesTyped DEF RecordFailure, Counting, AtRest
<1>5. ASSUME NEW i \in Level, i <= f
      PROVE  Low(u, i)' \subseteq Low(u, i) \ {l}
  <2>1. ~(users'[u].failed <= i)
    BY <1>1, <1>2, <1>3, <1>5
  <2>2. \A m \in Low(u, i)' : m \in Login /\ Counting(u, m)' /\ logins'[m].failed <= i
    BY <2>1 DEF Low
  <2> QED
    BY <1>4, <2>2 DEF Low, Counting
<1>6. l \in Low(u, f)
  BY <1>0, <1>1 DEF Low
<1>7. \A i \in Level : IsFiniteSet(Low(u, i)) /\ IsFiniteSet(Low(u, i)')
  <2>1. \A i \in Level : Low(u, i) \in SUBSET Login /\ Low(u, i)' \in SUBSET Login
    BY DEF Low
  <2> QED
    BY <2>1, LoginsAreFinite, FS_Subset
<1>8. ASSUME NEW i \in Level, i <= f
      PROVE  Cardinality(Low(u, i)') <= Cardinality(Low(u, i))
  <2>1. Low(u, i)' \in SUBSET Low(u, i)
    BY <1>5, <1>8
  <2> QED
    BY <1>7, <2>1, FS_Subset
<1>9. Cardinality(Low(u, f)') < Cardinality(Low(u, f))
  <2>1. Low(u, f)' \in SUBSET Low(u, f) /\ Low(u, f)' # Low(u, f)
    BY <1>1, <1>3, <1>5, <1>6
  <2>2. /\ Cardinality(Low(u, f)') <= Cardinality(Low(u, f))
        /\ Cardinality(Low(u, f)') # Cardinality(Low(u, f))
    BY <1>3, <1>7, <2>1, FS_Subset
  <2>3. Cardinality(Low(u, f)') \in Nat /\ Cardinality(Low(u, f)) \in Nat
    BY <1>3, <1>7, FS_CardinalityType
  <2> QED
    BY <2>2, <2>3
<1>10. \A i \in Level : TallyOf(u)[i] = Cardinality(Low(u, i)) /\ (TallyOf(u)')[i] = Cardinality(Low(u, i)')
  BY DEF TallyOf
<1> QED
  BY <1>1, <1>3, <1>8, <1>9, <1>10 DEF Below


Tallied == \A u \in Account : TallyOf(u) \in Tally

\* Every step keeps an account's wrong passwords fewer than its tallies.
LEMMA SpentStays ==
  ASSUME AccountsTypeOK, AccountsTypeOK', Tallied, Tallied', AccountsNext,
         NEW u \in Account, Spent(u)
  PROVE  Spent(u)'
<1>1. CASE guesses'[u] = 0
  <2>1. {} \in SUBSET Tally /\ IsFiniteSet({}) /\ Cardinality({}) = 0
    BY FS_EmptySet
  <2> QED
    BY <1>1, <2>1 DEF Spent
<1>2. ASSUME guesses'[u] = guesses[u], TallyOf(u)' = TallyOf(u)
      PROVE  Spent(u)'
  BY <1>2 DEF Spent
<1>3. ASSUME guesses'[u] = guesses[u] + 1, Below(TallyOf(u)', TallyOf(u))
      PROVE  Spent(u)'
  <2>1. PICK past \in SUBSET Tally :
          /\ IsFiniteSet(past) /\ Cardinality(past) = guesses[u]
          /\ \A t \in past : Below(TallyOf(u), t)
    BY DEF Spent
  <2>2. TallyOf(u) \in Tally /\ TallyOf(u)' \in Tally
    BY DEF Tallied
  <2>3. TallyOf(u) \notin past
    BY <2>1, <2>2, BelowIsStrict
  <2>4. /\ IsFiniteSet(past \cup {TallyOf(u)})
        /\ Cardinality(past \cup {TallyOf(u)}) = guesses'[u]
    BY <1>3, <2>1, <2>3, FS_AddElement
  <2>5. \A t \in past \cup {TallyOf(u)} : Below(TallyOf(u)', t)
    BY <1>3, <2>1, <2>2, BelowIsTransitive
  <2>6. past \cup {TallyOf(u)} \in SUBSET Tally
    BY <2>1, <2>2
  <2> QED
    BY <2>4, <2>5, <2>6 DEF Spent
<1>4. ASSUME NEW l \in Login, RecordFailure(l)
      PROVE  Spent(u)'
  <2>1. logins[l] \in WrongLogin
    BY <1>4, LoginFields DEF RecordFailure
  <2>2. CASE logins[l].user = u /\ users'[u].locked = "yes"
    BY <1>1, <1>4, <2>2 DEF RecordFailure, AccountsTypeOK
  <2>3. CASE logins[l].user = u /\ users'[u].locked # "yes"
    BY <1>3, <1>4, <2>3, FailureLowers DEF RecordFailure, AccountsTypeOK
  <2>4. CASE logins[l].user # u
    <3>1. users'[u] = users[u] /\ guesses'[u] = guesses[u]
      BY <1>4, <2>1, <2>4 DEF RecordFailure, AccountsTypeOK, WrongLogin
    <3>2. logins'[l] = AtRest /\ \A m \in Login : m # l => logins'[m] = logins[m]
      BY <1>4, LeavesTyped DEF RecordFailure
    <3>3. TallyOf(u)' = TallyOf(u)
      BY <2>4, <3>1, <3>2, TallyStands DEF Counting, AtRest
    <3> QED
      BY <1>2, <3>1, <3>3
  <2> QED
    BY <2>2, <2>3, <2>4
<1>5. ASSUME NEW l \in Login, ResetFailures(l)
      PROVE  Spent(u)'
  <2>1. logins[l] \in ProvenLogin
    BY <1>5, LoginFields DEF ResetFailures, Proving
  <2>2. CASE logins[l].user = u
    BY <1>1, <1>5, <2>2 DEF ResetFailures, AccountsTypeOK
  <2>3. CASE logins[l].user # u
    <3>1. users'[u] = users[u] /\ guesses'[u] = guesses[u]
      BY <1>5, <2>1, <2>3 DEF ResetFailures, AccountsTypeOK, ProvenLogin
    <3>2. logins'[l].user = logins[l].user /\ \A m \in Login : m # l => logins'[m] = logins[m]
      BY <1>5, MovesTyped DEF ResetFailures, Proving
    <3>3. TallyOf(u)' = TallyOf(u)
      BY <2>3, <3>1, <3>2, TallyStands DEF Counting
    <3> QED
      BY <1>2, <3>1, <3>3
  <2> QED
    BY <2>2, <2>3
<1>6. ASSUME NEW l \in Login, NEW v \in Account, BeginLogin(l, v)
      PROVE  Spent(u)'
  <2>1. UNCHANGED <<users, guesses>> /\ ~Counting(u, l)
    BY <1>6 DEF BeginLogin, Counting, AtRest
  <2>2. \A m \in Login : m # l => logins'[m] = logins[m]
    BY <1>6 DEF BeginLogin, MissesPassword, MatchesPassword, AccountsTypeOK
  <2>3. Counting(u, l)' => logins'[l].failed = users[u].failed
    BY <1>6 DEF BeginLogin, MissesPassword, MatchesPassword, AccountsTypeOK, Counting
  <2>4. \A m \in Login : IF Counting(u, m) THEN logins'[m] = logins[m]
                          ELSE Counting(u, m)' => logins'[m].failed = users[u].failed
    BY <2>1, <2>2, <2>3 DEF Counting
  <2>5. TallyOf(u)' = TallyOf(u)
    BY <2>1, <2>4, TallyStands
  <2> QED
    BY <1>2, <2>1, <2>5
<1>7. ASSUME NEW l \in Login, users' = users, guesses' = guesses, logins[l].pc \in Proving,
             (\E pc \in Proving : Moves(l, pc)) \/ LeavesLogin(l)
      PROVE  Spent(u)'
  <2>1. ~Counting(u, l) /\ ~Counting(u, l)'
    BY <1>7, MovesTyped, LeavesTyped DEF Counting, Proving, AtRest
  <2>2. \A m \in Login : m # l => logins'[m] = logins[m]
    BY <1>7, MovesTyped, LeavesTyped
  <2>3. \A m \in Login : IF Counting(u, m) THEN logins'[m] = logins[m] ELSE ~Counting(u, m)'
    BY <2>1, <2>2 DEF Counting
  <2>4. TallyOf(u)' = TallyOf(u)
    BY <1>7, <2>3, TallyStands
  <2> QED
    BY <1>2, <1>7, <2>4
<1>8. ASSUME NEW l \in Login, LoginStep(l)
      PROVE  Spent(u)'
  <2>1. CASE IsPrivileged(l)
    BY <1>7, <2>1 DEF IsPrivileged, Proving
  <2>2. CASE CheckFactor(l)
    BY <1>7, <2>2 DEF CheckFactor, Proving
  <2>3. CASE ConsumeRecoveryCode(l)
    BY <1>7, <2>3 DEF ConsumeRecoveryCode, Proving
  <2>4. ASSUME NEW t \in Token, IssueSession(l, t)
        PROVE  Spent(u)'
    BY <1>7, <2>4 DEF IssueSession, Proving
  <2> QED
    BY <1>4, <1>5, <1>6, <1>8, <2>1, <2>2, <2>3, <2>4 DEF LoginStep
<1>9. ASSUME UNCHANGED <<logins, guesses>>, users'[u].failed = users[u].failed
      PROVE  Spent(u)'
  <2>1. TallyOf(u)' = TallyOf(u)
    BY <1>9, TallyStands DEF Counting
  <2> QED
    BY <1>2, <1>9, <2>1
<1>10. ASSUME UNCHANGED <<logins, guesses, users>>
       PROVE  Spent(u)'
  BY <1>9, <1>10
<1>11. ASSUME NEW v \in Account, RegisterUser(v) \/ VerifyEmail(v) \/ EnrolTotp(v)
                                 \/ RevokeAllSessions(v) \/ LockExpires(v)
       PROVE  Spent(u)'
  <2>1. UNCHANGED <<logins, guesses>>
    BY <1>11 DEF RegisterUser, VerifyEmail, EnrolTotp, RevokeAllSessions, LockExpires
  <2>2. users'[u].failed = users[u].failed
    BY <1>11
       DEF RegisterUser, VerifyEmail, EnrolTotp, RevokeAllSessions, LockExpires, AccountsTypeOK, UserRow
  <2> QED
    BY <1>9, <2>1, <2>2
<1>12. ASSUME NEW r \in Rotation, RotationStep(r)
       PROVE  Spent(u)'
  BY <1>10, <1>12 DEF RotationStep, RevokeOld, ResolveSession, InsertReplacement
<1>13. ASSUME NEW t \in Token, SessionExpires(t)
       PROVE  Spent(u)'
  BY <1>10, <1>13 DEF SessionExpires
<1>14. CASE MembersMove
  BY <1>10, <1>14 DEF MembersMove, accountVars
<1> QED
  BY <1>8, <1>11, <1>12, <1>13, <1>14 DEF AccountsNext

\* The lockout of login (server/auth/service.ts) for any number of overlapping logins and any
\* MAX_FAILED_ATTEMPTS: the wrong passwords answered before the account is locked or signed in
\* to are fewer than the tallies of the logins.
THEOREM LockoutBoundsGuesses == AccountsSpec => []GuessesAreBounded
<1> DEFINE Counted == \A u \in Account : Spent(u)
<1>1. RolesInit /\ AccountsInit => Counted
  <2> SUFFICES ASSUME AccountsInit, NEW u \in Account
               PROVE  Spent(u)
    OBVIOUS
  <2>1. guesses[u] = 0
    BY DEF AccountsInit
  <2>2. {} \in SUBSET Tally /\ IsFiniteSet({}) /\ Cardinality({}) = 0
    BY FS_EmptySet
  <2> QED
    BY <2>1, <2>2 DEF Spent
<1>2. AccountsInv => AccountsTypeOK /\ Tallied
  BY TallyTyped DEF AccountsInv, Tallied
<1>3. ASSUME AccountsTypeOK, AccountsTypeOK', Tallied, Tallied', Counted,
             [AccountsNext]_<<members, accountVars>>
      PROVE  Counted'
  <2>1. CASE AccountsNext
    BY <1>3, <2>1, SpentStays
  <2>2. CASE UNCHANGED <<members, accountVars>>
    <3>1. ASSUME NEW u \in Account
          PROVE  Spent(u)'
      <4>1. TallyOf(u)' = TallyOf(u)
        BY <1>3, <2>2, TallyStands DEF accountVars, Counting
      <4> QED
        BY <1>3, <2>2, <4>1 DEF accountVars, Spent
    <3> QED
      BY <3>1
  <2> QED
    BY <1>3, <2>1, <2>2
<1>4. ASSUME AccountsTypeOK, Tallied, Counted
      PROVE  GuessesAreBounded
  <2> SUFFICES ASSUME NEW u \in Account
               PROVE  guesses[u] < GuessBudget
    BY DEF GuessesAreBounded
  <2>1. PICK past \in SUBSET Tally :
          /\ IsFiniteSet(past) /\ Cardinality(past) = guesses[u]
          /\ \A t \in past : Below(TallyOf(u), t)
    BY <1>4 DEF Spent
  <2>2. TallyOf(u) \in Tally /\ TallyOf(u) \notin past
    BY <1>4, <2>1, BelowIsStrict DEF Tallied
  <2>3. past # Tally
    BY <2>2
  <2>4. Cardinality(past) <= Cardinality(Tally) /\ Cardinality(past) # Cardinality(Tally)
    BY <2>1, <2>3, TalliesAreFinite, FS_Subset
  <2>5. Cardinality(past) \in Nat /\ Cardinality(Tally) \in Nat
    BY <2>1, TalliesAreFinite, FS_CardinalityType
  <2> QED
    BY <2>1, <2>4, <2>5 DEF GuessBudget
<1> QED
  BY <1>1, <1>2, <1>3, <1>4, AccountsInvariant, PTL DEF AccountsSpec

=============================================================================
