SPECIFICATION FairSpec
INVARIANT EverythingCollected
INVARIANT NoLineLost
PROPERTY ParseReturns
CHECK_DEADLOCK FALSE
CONSTANTS
  Trees <- SomeTrees
  ParseConcurrency = 2
  ChunkSizeBytes = 4
  MaxFaults = 1
