\* A decision answered 200 whose audit row was never written.
CONSTANTS
  m1 = m1  m2 = m2  c1 = c1  c2 = c2  a1 = a1
  Clients = {c1}
  Managers = {m1}
  Admins = {}
  Workers = {w1}
  Purposes = {p1}
  Ops = {"apply", "decide"}
  NoUser = NoUser
  NoPurpose = NoPurpose
  NoWorker = NoWorker
  MaxLoans = 1
  MaxRequests = 2
  MaxCrashes = 0
  MaxFaults = 1
SPECIFICATION Spec
INVARIANTS DecisionIsAudited
