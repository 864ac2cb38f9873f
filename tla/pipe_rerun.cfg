SPECIFICATION AutoSpec
CONSTANTS
  Invoices = {i1}
  Documents = {zip}
  DocOf <- OneZip
  NoDocument = NoDocument
  Vendors = {v1}
  DocNos = {n1}
  Empty = Empty
  Readings <- UnsureReading
  Tasks = {t1, t2}
  Verifiers = {}
  Reprocessors = {b1}
  NumItems = 2
  MaxRetry = 1
  BuyerChecks = {TRUE}
  Faults = FALSE
  NoInvoice = NoInvoice
  v1 = v1
  n1 = n1
  zip = zip
  m1 = m1
SYMMETRY Symmetric
INVARIANT TypeOK
INVARIANT RepeatedItemsOnlyIfUnclean
INVARIANT UnqueuedItemsHaveATask
CHECK_DEADLOCK FALSE
