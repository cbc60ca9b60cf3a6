SPECIFICATION Spec
INVARIANT RequestHonoured
CHECK_DEADLOCK FALSE
CONSTANTS
  MaxRequests = 2
  MaxSyncs = 0
  Workers = {w1}
  MaxDeliver = 2
  ConcurrentIndexing = TRUE
  MaxTroubles = 0
