SPECIFICATION MCFairSpec
CONSTANTS
  Invoices = {i1, m1}
  Documents = {zip}
  DocOf <- OneZip
  NoDocument = NoDocument
  Vendors = {v1}
  DocNos = {n1}
  Empty = Empty
  Readings <- SameReading
  Tasks = {t1, t2}
  Verifiers = {}
  Reprocessors = {b1}
  NumItems = 0
  MaxRetry = 1
  BuyerChecks = {TRUE}
  Faults = TRUE
  NoInvoice = NoInvoice
  v1 = v1
  n1 = n1
  zip = zip
  m1 = m1
INVARIANT PendingIsAccountedFor
PROPERTY EventuallyDecided
CHECK_DEADLOCK FALSE
