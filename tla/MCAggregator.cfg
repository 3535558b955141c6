SPECIFICATION Spec

CONSTANTS
  Ok = Ok
  Overload = Overload
  AddKind = AddKind
  SubKind = SubKind
  samplesCh = samplesCh
  g1 = g1
  g2 = g2
  r1 = r1
  r2 = r2
  RequestKinds <- MCRequestKinds
  DurationKinds <- MCDurationKinds
  Buckets = 2
  Channels <- MCChannels
  QueueSize = 1
  Messages <- MCMessages
  Recorders <- MCRecorders
  Getters <- MCGetters
  MaxSends = 2
  MaxCounts = 2
  MaxTicks = 2

INVARIANTS
  TypeOK
  RequestsInIntervals
  DurationsConserved

PROPERTIES
  SnapshotStable
  SnapshotsFresh
