SPECIFICATION AutoSpec
CONSTANTS
  Invoices = {i1}
  Documents = {zip}
  DocOf <- OneZip
  NoDocument = NoDocument
  Vendors = {v1}
  DocNos = {n1}
  Empty = Empty
  Readings <- SameReading
  Tasks = {t1}
  Verifiers = {a1}
  Reprocessors = {}
  NumItems = 0
  MaxRetry = 0
  BuyerChecks = {TRUE}
  Faults = FALSE
  NoInvoice = NoInvoice
  v1 = v1
  n1 = n1
  zip = zip
  m1 = m1
PROPERTY ConfirmAndVerifyAtomic
CHECK_DEADLOCK FALSE
