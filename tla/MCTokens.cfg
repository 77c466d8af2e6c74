\* Three pairs: rotations racing rotations and logouts, with a failed statement and
\* a crash.
CONSTANTS
  Users = {u1}
  Workers = {w1, w2}
  None = None
  AccessTTL = 1
  RefreshTTL = 2
  Ops = {"login", "refresh", "logout", "me"}
  MaxPairs = 3
  MaxTime = 2
  MaxRequests = 3
  MaxCrashes = 1
  MaxFaults = 1
SPECIFICATION FairSpec
INVARIANTS TypeOK RotatedOnce OneLiveRefresh ClosedSessionFades DoomedRefused LogoutRevokesNamed
PROPERTIES NoRotationAfterLogout ChainSpec EveryRequestEnds
