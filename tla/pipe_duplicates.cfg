SPECIFICATION AutoSpec
CONSTANTS
  Invoices = {i1, i2}
  Documents = {zip}
  DocOf <- OneZip
  NoDocument = NoDocument
  Vendors = {v1}
  DocNos = {n1}
  Empty = Empty
  Readings <- SameReading
  Tasks = {t1, t2}
  Verifiers = {a1}
  Reprocessors = {}
  NumItems = 0
  MaxRetry = 1
  BuyerChecks = {TRUE}
  Faults = FALSE
  NoInvoice = NoInvoice
  v1 = v1
  n1 = n1
  zip = zip
  m1 = m1
SYMMETRY SymmetricInvoices
INVARIANT DuplicatesPointAtOriginals
INVARIANT DuplicatesAwaitAHuman
PROPERTY OriginalNeverDemoted
PROPERTY KeepsRegistry
CHECK_DEADLOCK FALSE
