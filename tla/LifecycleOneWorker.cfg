SPECIFICATION FairSpec
PROPERTY KeepsDelivery
INVARIANT LifecycleInv
INVARIANT CompletedIsIndexed
INVARIANT JobAgreesWithRepository
PROPERTY ArchivedStaysArchived
PROPERTY JobEndsOnce
PROPERTY EveryJobEnds
PROPERTY NoRepositoryStuck
CHECK_DEADLOCK FALSE
CONSTANTS
  MaxRequests = 2
  MaxSyncs = 1
  Workers = {w1}
  MaxDeliver = 2
  ConcurrentIndexing = TRUE
  MaxTroubles = 1
