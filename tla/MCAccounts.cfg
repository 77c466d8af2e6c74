\* One new address against the seeded ones, a restart and a failed statement,
\* and a reader of the audit log with two rows on a page.
CONSTANTS
  Workers = {w1, w2}
  None = None
  client = client
  admin = admin
  manager = manager
  p1 = p1
  p2 = p2
  env = env
  Dummy = Dummy
  ipA = ipA
  ipB = ipB
  junk = junk
  Names = {client, admin, manager}
  Passwords = {p1, p2}
  SeedUsers <- MCSeedUsers
  Typed <- MCTyped
  Barred <- MCBarred
  Origins <- MCOrigins
  Details <- MCDetails
  Values <- MCValues
  SensitiveKeys = {"password"}
  MaxItems = 2
  Addresses = {ipA, ipB}
  TrustProxy = TRUE
  PageSize = 2
  MaxRequests = 2
  MaxCrashes = 1
  MaxFaults = 1
SYMMETRY Symmetric
SPECIFICATION Spec
INVARIANTS TypeOK AccountsStand AnswersTrue AuditedOnce NothingSkipped RepeatsExplained
