\* Two threads on the first failures of an account.
SPECIFICATION FairSpec
CONSTANTS
    Addresses = {ip1}
    Workers = {w1, w2}
    None = None
    MaxFailures = 2
    Window = 1
    Block = 1
    MaxTime = 1
    MaxRequests = 4
    MaxCrashes = 0
    MaxFaults = 0
INVARIANTS DeclaredResponses
