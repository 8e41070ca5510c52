CONSTANTS
  None = None
  NaN = NaN
  Focus = {"members", "tenants", "logins", "rotations", "requests", "secrets", "keys", "migrations", "adapters", "decisions", "clients", "leads", "audit"}
  User = {"u1", "u2"}
  Org = {"o1", "o2"}
  Offered = {"organisation_owner", "organisation_admin"}
  Founder <- MCFounder
  Invite = {i1}
  Call = {c1, c2}
  PlatformRole <- MCPlatformRole
  Account = {"u1", "u2"}
  Login = {l1, l2}
  Rotation = {r1, r2}
  Token = {t1, t2, t3}
  Code = {k1}
  OwnerOf <- MCOwnerOf
  MaxFailed = 2
  Key = {a1, a2}
  Hook = {w1}
  Team = {o1, o2}
  Request = {q1, q2, q3}
  IdemKey = {i1}
  Body = {b1, b2}
  RouteUsed = {"verifications"}
  Grant <- MCGrant
  Tenant = {o1}
  Sealer = {s1, s2}
  Rotator = {m1, m2}
  MaxVersion = 3
  Web = {p1, p2}
  Worker = {p3}
  LastMigration = 2
  Repeatable = {2}
  Deployment <- MCDeployment
  Attempt = {d1}
  Policy = {"strict"}
  PolicyOf <- MCPolicyOf
  Ticket = {n1, n2}
  Upload = {n3, n4}
  Prompt = {n5, n6}
  Choice <- MCChoice
  Visit = {v1, v2, v3}
  Bucket = {"unknown"}
  Server = {v4}
  RateLimit = 1
  Event = {e1, e2, e3}
  Export = {x1, x2, x3}
  Exporter = {g1, g2}
  Chunk = 2
SPECIFICATION PlatformSpec
CHECK_DEADLOCK FALSE
INVARIANTS
  PlatformTypeOK
  GuessesAreBounded
  RotationReplaces
  RowsAreGranted
  RetriesAreReplayed
  SecretsShownOnce
  SealedValuesOpen
  ReadyMeansMigrated
  OutcomesAreEvidenced
  FlowsAreHonest
  LeadsAreHonest
  ChainVerified
  ExportsCoverTheChain
PROPERTIES
  SessionsAreEarned
  ImplementsRoles
  ImplementsAuditLog
