\* One loan, two managers and two threads: decisions race with each other, with a
\* failed statement, with a crash and with an export.
CONSTANTS
  m1 = m1  m2 = m2  c1 = c1  c2 = c2  a1 = a1
  Clients = {c1}
  Managers = {m1, m2}
  Admins = {}
  Workers = {w1, w2}
  Purposes = {p1}
  Ops = {"apply", "decide", "export"}
  NoUser = NoUser
  NoPurpose = NoPurpose
  NoWorker = NoWorker
  MaxLoans = 1
  MaxRequests = 3
  MaxCrashes = 1
  MaxFaults = 1
SPECIFICATION FairSpec
INVARIANTS TypeOK DecisionAnswersStand AuditMatchesLoan
PROPERTIES FinalDecision LedgerSpec EveryRequestEnds
