\* A session ends and another user signs in at the same browser.
CONSTANTS
  Clients = {c1}
  Managers = {}
  Admins = {a1}
  None = None
  Chains = {t1}
  Clicks = {"login", "screen", "loans", "logout"}
  MaxPairs = 2
SPECIFICATION Spec
INVARIANTS RowsOfUser
