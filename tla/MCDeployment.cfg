\* Seeded applications 0 (approved) and 1 (pending), one more application,
\* and up to two restarts in the middle of requests or of the script.
CONSTANTS
  m1 = m1  c1 = c1  c2 = c2  other = other
  Clients = {c1, c2}
  Managers = {m1}
  Admins = {}
  Workers = {w1}
  Purposes = {0, 1, other}
  Ops = {"apply", "decide"}
  NoUser = NoUser
  NoPurpose = NoPurpose
  NoWorker = NoWorker
  MaxLoans = 3
  MaxRequests = 3
  MaxCrashes = 2
  MaxFaults = 1
  Seeds = {0, 1}
  ClientOne = c1
  ClientTwo = c2
  Carol = m1
  Reviewed = 1
SPECIFICATION DeploySpec
INVARIANTS FailsOnlyOnDuplicate SeedReviewedOnce
PROPERTIES StartsFromSeed SubmittedDecisionsFinal
