SPECIFICATION ArchiveSpec
CONSTANTS
  Archivable = {d1}
  Schedulers = {p1}
  MaxLogs = 2
PROPERTY OldInvoicesAreArchived
CHECK_DEADLOCK FALSE
