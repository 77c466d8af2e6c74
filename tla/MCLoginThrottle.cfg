\* Two threads, two addresses, a failed statement and a crash: blocks begin, end
\* and are met late, transactions wait for each other and are rolled back.
CONSTANTS
  Addresses = {ip1, ip2}
  Workers = {w1, w2}
  None = None
  MaxFailures = 2
  Window = 1
  Block = 1
  MaxTime = 2
  MaxRequests = 4
  MaxCrashes = 1
  MaxFaults = 1
SPECIFICATION FairSpec
INVARIANTS TypeOK CountsFailures LateFailuresBounded
PROPERTIES BlocksHold EveryRequestEnds
