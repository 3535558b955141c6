SPECIFICATION FairSpec

CONSTANTS
  c1 = c1
  c2 = c2
  r1 = r1
  Clients <- MCClients
  Readers <- MCReaders
  Nums <- MCNums
  QueueSizes <- MCQueueSizes
  MaxInt = 3
  BatchSize = 2
  MaxCalls = 4

INVARIANTS
  TypeOK
  SamplesComplete
  BatchIsTimed
  ReadsAgree
  FinalAfterStop

PROPERTIES
  ImplementsCalculator
  CallsReturn
  SamplesEventuallyRecorded

\* A system that nobody calls any more rests.
CHECK_DEADLOCK FALSE
