\* A decision on a seeded application, then a restart.
CONSTANTS
  m1 = m1  c1 = c1  c2 = c2  other = other
  Clients = {c1, c2}
  Managers = {m1}
  Admins = {}
  Workers = {w1}
  Purposes = {1, other}
  Ops = {"apply", "decide"}
  NoUser = NoUser
  NoPurpose = NoPurpose
  NoWorker = NoWorker
  MaxLoans = 2
  MaxRequests = 3
  MaxCrashes = 1
  MaxFaults = 0
  Seeds = {1}
  ClientOne = c1
  ClientTwo = c2
  Carol = m1
  Reviewed = 0
SPECIFICATION DeploySpec
INVARIANTS DecisionAnswersStand
