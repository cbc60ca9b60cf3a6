SPECIFICATION Spec
INVARIANT NothingTwice
INVARIANT AgreedOrder
 
CHECK_DEADLOCK FALSE
CONSTANTS
  Layout <- ThreeChunks
  Vectors <- FourVectors
  Indexes <- SomeIndexes
  Filters <- SomeFilters
  Limit = 1
  MaxRank = 4
  One = 15249024
  MaxWalks = 2
  MaxTroubles = 1
