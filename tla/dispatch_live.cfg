SPECIFICATION FairSpec
CONSTANTS
  Entries = {e1}
  Reasons = {"ocr_mismatch"}
  Reviewers = {r1, r2}
  Workers = {w1}
  Checker = Checker
  Clients = {c1}
  Amounts = {1}
  MaxTasks = 3
  Faults = TRUE
  Nobody = Nobody
  NoEntry = NoEntry
  usual = 1
PROPERTY UnansweredTasksMoveOn
CHECK_DEADLOCK FALSE
