SPECIFICATION FairSpec
INVARIANT StoreTypeOK
INVARIANT RequestsNameChunks
INVARIANT DoneIsEmbedded
PROPERTY EveryJobEnds
CHECK_DEADLOCK FALSE
CONSTANTS
  Jobs = {j1, j2}
  Keys = {a, b}
  Parses <- SomeParses
  BatchSize = 2
  CountBatch = 3
  MaxQueueSize = 4
  Backlogs = {0, 1}
  SampleSizes = {9}
  MaxFaults = 1
  j1 = j1
  j2 = j2
  a = a
  b = b
