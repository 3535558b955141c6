SPECIFICATION Spec

CONSTANTS
  c1 = c1
  c2 = c2
  c3 = c3
  r1 = r1
  Calls <- MCCalls
  Readers <- MCReaders
  num <- MCNum
  QueueSizes = {1}
  MaxInt = 3
  BatchSize = 2

INVARIANT FinalAgreeAlways

CHECK_DEADLOCK FALSE
