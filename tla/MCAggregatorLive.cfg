SPECIFICATION FairSpec

CONSTANTS
  Ok = Ok
  Overload = Overload
  AddKind = AddKind
  SubKind = SubKind
  samplesCh = samplesCh
  g1 = g1
  g2 = g2
  r1 = r1
  r2 = r2
  RequestKinds <- MCOneKind
  DurationKinds <- MCDurationKinds
  Buckets = 1
  Channels <- MCChannels
  QueueSize = 1
  Messages <- MCMessages
  Recorders <- MCTwoRecorders
  Getters <- MCGetters
  MaxSends = 2
  MaxCounts = 0
  MaxTicks = 0

PROPERTY CallsReturn
