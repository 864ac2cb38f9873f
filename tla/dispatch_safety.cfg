SPECIFICATION MCSpec
CONSTANTS
  Entries = {e1, e2}
  Reasons = {"ocr_mismatch"}
  Reviewers = {r1}
  Workers = {w1}
  Checker = Checker
  Clients = {c1, c2}
  Amounts = {1, 2}
  MaxTasks = 3
  Faults = FALSE
  Nobody = Nobody
  NoEntry = NoEntry
  usual = 1
SYMMETRY Symmetric
INVARIANT TypeOK
INVARIANT OneTaskAtATime
INVARIANT AtMostOneTaskAfterResolve
INVARIANT EntriesAccountedFor
INVARIANT EarningsMatchTasks
PROPERTY KeepsContract
CHECK_DEADLOCK FALSE
