SPECIFICATION Spec
CONSTANTS
  Entries = {e1, e2}
  Reasons = {"ocr_mismatch"}
  Reviewers = {r1, r2}
  Workers = {w1}
  Checker = Checker
  Clients = {}
  Amounts = {1}
  MaxTasks = 3
  Faults = FALSE
  Nobody = Nobody
  NoEntry = NoEntry
  usual = 1
SYMMETRY Symmetric
PROPERTY ExpiredGoesToSomebodyElse
CHECK_DEADLOCK FALSE
