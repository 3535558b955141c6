SPECIFICATION GenFairSpec

CONSTANTS
  w1 = w1
  w2 = w2
  failed = failed
  mainThread = mainThread
  dedupCmdClose = dedupCmdClose
  Workers <- MCWorkers
  Callers <- MCCallers
  QueueSizes <- MCQueueSizes
  Msgs <- MCMsgs
  Window = 1
  MaxCalls = 2

INVARIANTS
  GenTypeOK
  ReportComplete
  ErrorsPrinted

PROPERTY ShutdownCompletes
