SPECIFICATION PrinterSpec

CONSTANTS
  r1 = r1
  r2 = r2
  Readers <- MCReaders
  snapshotTTL = 1
  reportCacheTTL = 2
  MaxChanges = 3

PROPERTY ReportsCurrent
