SPECIFICATION FairSpec
INVARIANT ConsumerTypeOK
PROPERTY KeepsDelivery
INVARIANT OneBatchAtATime
PROPERTY NothingFetchedWhileDraining
PROPERTY DrainingComesToRest
PROPERTY EveryMessageSettles
CHECK_DEADLOCK FALSE
CONSTANTS
  Workers = {w1}
  Messages = {m1, m2}
  MaxDeliver = 2
  FetchBatch = 2
  MaxStarts = 2
  MaxCalls = 2
  MaxTroubles = 1
