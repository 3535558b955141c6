SPECIFICATION FairSpec

CONSTANTS
  c1 = c1
  c2 = c2
  c3 = c3
  Calls <- MCCalls
  QueueSize = 1
  BatchSize = 2
  ChanSize = 1

INVARIANTS
  TypeOK
  FinalLine
  SamplesDelivered

PROPERTY RunReturns

\* Once Run has returned, or the process has ended, nothing is left to do.
CHECK_DEADLOCK FALSE
