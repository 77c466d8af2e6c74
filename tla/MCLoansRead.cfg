\* Two loans, two clients and a manager, reads racing one decision.
CONSTANTS
  m1 = m1  m2 = m2  c1 = c1  c2 = c2  a1 = a1
  Clients = {c1, c2}
  Managers = {m1}
  Admins = {a1}
  Workers = {w1, w2}
  Purposes = {p1}
  Ops = {"apply", "decide", "get", "list", "export"}
  NoUser = NoUser
  NoPurpose = NoPurpose
  NoWorker = NoWorker
  MaxLoans = 2
  MaxRequests = 4
  MaxCrashes = 0
  MaxFaults = 0
SYMMETRY Symmetric
SPECIFICATION Spec
INVARIANTS ReadsSeeDecisions ClientsSeeOwn
