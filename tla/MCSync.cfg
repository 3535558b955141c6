SPECIFICATION FairSpec

CONSTANTS
  c1 = c1
  c2 = c2
  c3 = c3
  r1 = r1
  r2 = r2
  Calls <- MCCalls
  Readers <- MCReaders
  num <- MCNum
  MaxInt = 3

INVARIANT TypeOK

PROPERTIES
  ImplementsCalculator
  CallsReturn

\* Once every call has returned nobody has to call any more.
CHECK_DEADLOCK FALSE
