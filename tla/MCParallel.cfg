SPECIFICATION FairSpec

CONSTANTS
  c1 = c1
  c2 = c2
  c3 = c3
  r1 = r1
  Calls <- MCCalls
  Readers <- MCReaders
  num <- MCNum
  QueueSizes <- MCQueueSizes
  MaxInt = 3
  BatchSize = 2

INVARIANTS
  TypeOK
  BothOrNeither
  TotalsOfApplied
  AgreeAtRest

PROPERTIES
  CallsReturn

\* A system that nobody calls any more rests.
CHECK_DEADLOCK FALSE
