------------------------------ MODULE Accounts ------------------------------
(***************************************************************************)
(* Accounts and sessions (server/auth/service.ts): registration, login     *)
(* with lockout and second factor, recovery codes, rotation and revocation *)
(* of sessions.  A login is a row read once at the start, then statements  *)
(* that other logins of the same account run between.  Memberships change  *)
(* underneath, as Roles allows.  A session's token is its name here.       *)
(***************************************************************************)
EXTENDS Roles, Naturals, FiniteSets

CONSTANTS
  Account,      \* the users that register and sign in (a bound)
  Login,        \* logins in flight
  Rotation,     \* session rotations in flight
  Token,        \* session tokens drawn (a bound)
  Code,         \* recovery codes, each issued to OwnerOf[code]
  OwnerOf,
  MaxFailed     \* MAX_FAILED_ATTEMPTS

ASSUME LockoutAssumption == MaxFailed \in Nat \ {0}
ASSUME LoginsAreFinite == IsFiniteSet(Login)

VARIABLES
  users,        \* rows of users
  codes,        \* rows of recovery_codes: "none", "unused" or "used"
  sessions,     \* rows of sessions, or None
  logins,       \* where each login is, and what it carries
  rotations,    \* where each rotation is; one that never ends has died there
  guesses       \* history: wrong passwords answered since the last success or lock

accountVars == <<users, codes, sessions, logins, rotations, guesses>>

\* email: the verification mail is out, ran out, or its token came back.
UserRow == [email : {"none", "mailed", "lapsed", "verified"}, failed : 0..MaxFailed + 1,
            locked : {"no", "yes", "past"}, mfa : BOOLEAN]
Factor == {"none", "totp", "wrong"} \cup Code
\* What a login rests on: whether its row had a factor enrolled, the factor sent, the
\* organisations administered and whether that code was used when the login began.
Proof == [mfa : BOOLEAN, factor : Factor, admin : SUBSET Org, spent : BOOLEAN]
SessionRow == [user : Account, from : Token \cup {None}, live : BOOLEAN]
AtRest == [pc |-> "idle"]

ASSUME AccountAssumption == Account \subseteq User /\ Code \cap {"none", "totp", "wrong"} = {}
ASSUME NoneIsNoSession == None \notin Token \cup SessionRow

AccountsTypeOK ==
  /\ users \in [Account -> UserRow]
  /\ codes \in [Code -> {"none", "unused", "used"}]
  /\ sessions \in [Token -> SessionRow \cup {None}]
  /\ logins \in [Login -> {AtRest} \cup [pc : {"wrong"}, user : Account, failed : 0..MaxFailed + 1]
       \cup [pc : {"matched", "ordinary", "privileged", "consume", "reset", "issue"},
             user : Account, proof : Proof]]
  /\ rotations \in [Rotation -> {AtRest} \cup [pc : {"insert", "revoke"}, old : Token]]
  /\ guesses \in [Account -> Nat]

AccountsInit ==
  /\ users = [u \in Account |-> [email |-> "none", failed |-> 0, locked |-> "no", mfa |-> FALSE]]
  /\ codes = [k \in Code |-> "none"]
  /\ sessions = [t \in Token |-> None]
  /\ logins = [l \in Login |-> AtRest]
  /\ rotations = [r \in Rotation |-> AtRest]
  /\ guesses = [u \in Account |-> 0]

-----------------------------------------------------------------------------
\* The INSERT of the user, then of the mailed token, which is missing when the process dies in
\* between.
RegisterUser(u) ==
  /\ users[u].email = "none"
  /\ \E email \in {"mailed", "lapsed"} : users' = [users EXCEPT ![u].email = email]
  /\ UNCHANGED <<codes, sessions, logins, rotations, guesses>>

VerifyEmail(u) ==
  /\ users[u].email = "mailed"
  /\ users' = [users EXCEPT ![u].email = "verified"]
  /\ UNCHANGED <<codes, sessions, logins, rotations, guesses>>

\* The factor counts before the recovery codes are inserted; a second enrolment adds codes.
EnrolTotp(u) ==
  /\ users[u].email # "none"
  /\ users' = [users EXCEPT ![u].mfa = TRUE]
  /\ \/ codes' = [k \in Code |-> IF OwnerOf[k] = u /\ codes[k] = "none" THEN "unused" ELSE codes[k]]
     \/ UNCHANGED codes
  /\ UNCHANGED <<sessions, logins, rotations, guesses>>

-----------------------------------------------------------------------------
\* The roles that a session needs a second factor for, on the platform and in an organisation.
MFA_REQUIRED_ROLES == {"platform_super_admin", "platform_security_admin",
                       "organisation_owner", "organisation_admin"}
AdminOfPlatform(u) == PlatformRole[u] \in MFA_REQUIRED_ROLES
AdminOf(u) == {o \in Org : IsActive(u, o) /\ members[<<u, o>>].role \in MFA_REQUIRED_ROLES}

Moves(l, pc) == logins' = [logins EXCEPT ![l].pc = pc]
LeavesLogin(l) == logins' = [logins EXCEPT ![l] = AtRest]

\* The row is read, its lock checked, the password compared and the address's verification
\* looked at (a right password for an unverified address is refused, and nothing written).
MissesPassword(l, u) ==
  logins' = [logins EXCEPT ![l] = [pc |-> "wrong", user |-> u, failed |-> users[u].failed]]

MatchesPassword(l, u) ==
  /\ users[u].email = "verified"
  /\ \E factor \in (IF users[u].mfa THEN {"totp", "wrong"} \cup Code ELSE {"none"}) :
       logins' = [logins EXCEPT ![l] =
         [pc |-> "matched", user |-> u,
          proof |-> [mfa |-> users[u].mfa, factor |-> factor, admin |-> AdminOf(u),
                     spent |-> factor \in Code /\ codes[factor] = "used"]]]

BeginLogin(l, u) ==
  /\ logins[l] = AtRest
  /\ users[u].email # "none" /\ users[u].locked # "yes"
  /\ MissesPassword(l, u) \/ MatchesPassword(l, u)
  /\ UNCHANGED <<users, codes, sessions, rotations, guesses>>

\* Mutant: one more wrong password is answered.
RecordFailureAfterMax(l) ==
  LET u == logins[l].user
      attempts == logins[l].failed + 1
  IN /\ logins[l].pc = "wrong"
     /\ users' = [users EXCEPT ![u].failed = IF attempts > MaxFailed THEN MaxFailed + 1 ELSE attempts,
                               ![u].locked = IF attempts > MaxFailed THEN "yes" ELSE @]
     /\ guesses' = [guesses EXCEPT ![u] = IF users'[u].locked = "yes" THEN 0 ELSE @ + 1]
     /\ LeavesLogin(l)
     /\ UNCHANGED <<codes, sessions, rotations>>

\* The counter is written from the row that was read; the lock is set when that is the limit.
RecordFailure(l) ==
  LET u == logins[l].user
      attempts == logins[l].failed + 1
  IN /\ logins[l].pc = "wrong"
     /\ users' = [users EXCEPT ![u].failed = IF attempts > MaxFailed THEN MaxFailed + 1 ELSE attempts,
                               ![u].locked = IF attempts >= MaxFailed THEN "yes" ELSE @]
     /\ guesses' = [guesses EXCEPT ![u] = IF users'[u].locked = "yes" THEN 0 ELSE @ + 1]
     /\ LeavesLogin(l)
     /\ UNCHANGED <<codes, sessions, rotations>>

\* Mutant: the platform's own administrators are not looked for.
IsPrivilegedMember(l) ==
  /\ logins[l].pc = "matched"
  /\ Moves(l, IF AdminOf(logins[l].user) # {} THEN "privileged" ELSE "ordinary")
  /\ UNCHANGED <<users, codes, sessions, rotations, guesses>>

\* isPrivileged takes the platform role from the row read at the start, and reads the
\* memberships as they are now.
IsPrivileged(l) ==
  LET u == logins[l].user IN
  /\ logins[l].pc = "matched"
  /\ Moves(l, IF AdminOfPlatform(u) \/ AdminOf(u) # {} THEN "privileged" ELSE "ordinary")
  /\ UNCHANGED <<users, codes, sessions, rotations, guesses>>

\* The second factor: asked of whoever had enrolled one, its lack refused to the privileged.
NeedsNone(l) == logins[l].pc = "ordinary" /\ ~logins[l].proof.mfa
HasTotp(l) == logins[l].proof.mfa /\ logins[l].proof.factor = "totp"

HasCode(l) ==
  LET code == logins[l].proof.factor IN
  logins[l].proof.mfa /\ code \in Code /\ OwnerOf[code] = logins[l].user /\ codes[code] = "unused"

CheckFactor(l) ==
  /\ logins[l].pc \in {"ordinary", "privileged"}
  /\ \/ (NeedsNone(l) \/ HasTotp(l)) /\ Moves(l, "reset")
     \/ HasCode(l) /\ Moves(l, "consume")
     \/ ~(NeedsNone(l) \/ HasTotp(l) \/ HasCode(l)) /\ LeavesLogin(l)
  /\ UNCHANGED <<users, codes, sessions, rotations, guesses>>

\* The code is marked by its id, whether or not another login has marked it since.
ConsumeRecoveryCode(l) ==
  /\ logins[l].pc = "consume"
  /\ codes' = [codes EXCEPT ![logins[l].proof.factor] = "used"]
  /\ Moves(l, "reset")
  /\ UNCHANGED <<users, sessions, rotations, guesses>>

ResetFailures(l) ==
  LET u == logins[l].user IN
  /\ logins[l].pc = "reset"
  /\ users' = [users EXCEPT ![u].failed = 0, ![u].locked = "no"]
  /\ guesses' = [guesses EXCEPT ![u] = 0]
  /\ Moves(l, "issue")
  /\ UNCHANGED <<codes, sessions, rotations>>

IssueSession(l, t) ==
  /\ logins[l].pc = "issue"
  /\ sessions[t] = None
  /\ sessions' = [sessions EXCEPT ![t] = [user |-> logins[l].user, from |-> None, live |-> TRUE]]
  /\ LeavesLogin(l)
  /\ UNCHANGED <<users, codes, rotations, guesses>>

-----------------------------------------------------------------------------
\* rotateSession resolves the token, inserts its replacement, then revokes it.
ResolveSession(r, t) ==
  /\ rotations[r] = AtRest
  /\ sessions[t] # None /\ sessions[t].live
  /\ rotations' = [rotations EXCEPT ![r] = [pc |-> "insert", old |-> t]]
  /\ UNCHANGED <<users, codes, sessions, logins, guesses>>

\* Mutant: the old token is left to expire.
InsertReplacementAlone(r, t) ==
  LET old == rotations[r].old IN
  /\ rotations[r].pc = "insert"
  /\ sessions[t] = None
  /\ sessions' = [sessions EXCEPT ![t] = [sessions[old] EXCEPT !.from = old, !.live = TRUE]]
  /\ rotations' = [rotations EXCEPT ![r] = AtRest]
  /\ UNCHANGED <<users, codes, logins, guesses>>

InsertReplacement(r, t) ==
  LET old == rotations[r].old IN
  /\ rotations[r].pc = "insert"
  /\ sessions[t] = None
  /\ sessions' = [sessions EXCEPT ![t] = [sessions[old] EXCEPT !.from = old, !.live = TRUE]]
  /\ rotations' = [rotations EXCEPT ![r].pc = "revoke"]
  /\ UNCHANGED <<users, codes, logins, guesses>>

RevokeOld(r) ==
  /\ rotations[r].pc = "revoke"
  /\ sessions' = [sessions EXCEPT ![rotations[r].old].live = FALSE]
  /\ rotations' = [rotations EXCEPT ![r] = AtRest]
  /\ UNCHANGED <<users, codes, logins, guesses>>

\* The token of a verification mail is a row of sessions too.
RevokeAllSessions(u) ==
  /\ sessions' = [t \in Token |-> IF sessions[t] # None /\ sessions[t].user = u
                                  THEN [sessions[t] EXCEPT !.live = FALSE] ELSE sessions[t]]
  /\ users' = [users EXCEPT ![u].email = IF @ = "mailed" THEN "lapsed" ELSE @]
  /\ UNCHANGED <<codes, logins, rotations, guesses>>

\* Time: a lock, a mailed token and a session run out.
LockExpires(u) ==
  /\ users[u].locked = "yes"
  /\ users' = [users EXCEPT ![u].locked = "past"]
  /\ UNCHANGED <<codes, sessions, logins, rotations, guesses>>

SessionExpires(t) ==
  /\ sessions[t] # None
  /\ sessions' = [sessions EXCEPT ![t].live = FALSE]
  /\ UNCHANGED <<users, codes, logins, rotations, guesses>>

-----------------------------------------------------------------------------
LoginStep(l) ==
  \/ RecordFailure(l) \/ IsPrivileged(l) \/ CheckFactor(l) \/ ConsumeRecoveryCode(l)
  \/ ResetFailures(l)
  \/ \E t \in Token : IssueSession(l, t)
  \/ \E u \in Account : BeginLogin(l, u)

RotationStep(r) == RevokeOld(r) \/ \E t \in Token : ResolveSession(r, t) \/ InsertReplacement(r, t)

MembersMove ==
  /\ \E u \in Account, o \in Org : Leaves(u, o) \/ \E role \in Offered : Joins(u, o, role)
  /\ UNCHANGED accountVars

AccountsNext ==
  \/ /\ \/ \E l \in Login : LoginStep(l)
        \/ \E r \in Rotation : RotationStep(r)
        \/ \E u \in Account : RegisterUser(u) \/ VerifyEmail(u) \/ EnrolTotp(u)
             \/ RevokeAllSessions(u) \/ LockExpires(u)
        \/ \E t \in Token : SessionExpires(t)
     /\ UNCHANGED members
  \/ MembersMove

AccountsSpec == (RolesInit /\ AccountsInit) /\ [][AccountsNext]_<<members, accountVars>>

-----------------------------------------------------------------------------
\* How many logins count at most i failures, for each i below the last before the lock.
Tally == {t \in [0..MaxFailed - 2 -> 0..Cardinality(Login)] :
            \A i, j \in DOMAIN t : i <= j => t[i] <= t[j]}

\* As many as there are tallies: MaxFailed for one login at a time, and for two at a time
\* 3 with two attempts, 15 with the code's five.
GuessBudget == Cardinality(Tally)

\* The lockout after repeated failures: overlapping logins write the counter from stale reads
\* and so get more answers than MAX_FAILED_ATTEMPTS, but fewer than GuessBudget, before the
\* account is locked or its owner signs in.
GuessesAreBounded == \A u \in Account : guesses[u] < GuessBudget

\* A session comes from a login that has earned it, whatever moved underneath: the address is
\* verified; without a second factor the user is no administrator of the platform, and did not
\* administer one organisation from the login's beginning to its end; a recovery code is used
\* up when its session comes, and was not before the login began.  (So a code that has opened a
\* session is worth nothing to a later login.  Two logins under way at once may both get in on
\* one code: consumeRecoveryCode reads it and then marks it, where the security baseline calls
\* the codes single-use.)
Earned(l) ==
  LET u == logins[l].user
      p == logins[l].proof
  IN /\ users[u].email = "verified"
     /\ p.factor = "none" => ~AdminOfPlatform(u) /\ p.admin \cap AdminOf(u) = {}
     /\ p.factor # "wrong"
     /\ p.factor \in Code => ~p.spent /\ codes[p.factor] = "used"

SessionsAreEarned ==
  [][\A t \in Token : sessions[t] = None /\ sessions'[t] # None =>
       \/ sessions'[t].from # None
       \/ \E l \in Login : logins[l].pc = "issue" /\ logins'[l] = AtRest /\ Earned(l)]_accountVars

\* A token that has been replaced is dead once every rotation of it has ended.
RotationReplaces ==
  \A t \in Token : sessions[t] # None /\ sessions[t].from # None =>
    \/ ~sessions[sessions[t].from].live
    \/ \E r \in Rotation : rotations[r] # AtRest /\ rotations[r].old = sessions[t].from
=============================================================================
