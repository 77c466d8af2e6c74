\* A client, a manager and an admin at one browser; two handlers may overlap.
CONSTANTS
  Clients = {c1}
  Managers = {m1}
  Admins = {a1}
  None = None
  Chains = {t1, t2}
  Clicks = {"login", "rotate", "screen", "loans", "audit", "decide", "apply", "logout"}
  MaxPairs = 2
SYMMETRY ChainSymmetry
SPECIFICATION Spec
INVARIANTS TypeOK ProfileMatchesToken SignedOutIsClean ShellMatches
