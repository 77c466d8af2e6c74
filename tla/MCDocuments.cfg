\* Two files, two uploads at a time, for own, foreign and missing loans.
CONSTANTS
  Clients = {c1, c2}
  Managers = {m1}
  Workers = {w1, w2}
  None = None
  LoanIds = {1}
  MaxSize = 2
  MaxFiles = 2
  MaxCrashes = 1
  MaxFaults = 1
SYMMETRY Symmetric
SPECIFICATION Spec
INVARIANTS TypeOK RowsHaveFiles OrphansExplained AnswersTrue
