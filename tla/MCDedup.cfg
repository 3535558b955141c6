SPECIFICATION FairSpec

CONSTANTS
  c1 = c1
  c2 = c2
  m1 = m1
  m2 = m2
  dedupCmdClose = dedupCmdClose
  Callers <- MCCallers
  Msgs <- MCMsgs
  QueueSizes <- MCQueueSizes
  Window = 2
  MaxCalls = 4

INVARIANTS
  TypeOK
  MessagesAccounted

PROPERTIES
  OneLinePerWindow
  CallsReturn
  EntriesForgotten
