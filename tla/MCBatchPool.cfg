SPECIFICATION PoolSpec

CONSTANTS
  sum = sum
  sub = sub
  PoolRecorders <- MCPoolRecorders
  batchSize = 2
  ChanSize = 1
  MaxSamples = 5

INVARIANT SamplesIntact

\* Nothing is left to do when all samples are recorded.
CHECK_DEADLOCK FALSE
