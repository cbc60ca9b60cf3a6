SPECIFICATION FairSpec
INVARIANT SyncTypeOK
INVARIANT MessageHasJob
INVARIANT OneJobPerRepository
INVARIANT ConfigWins
INVARIANT SyncingHasSync
PROPERTY OrphanIsPublished
CHECK_DEADLOCK FALSE
CONSTANTS
  Connectors = {c1, c2}
  Repositories = {r1}
  PageLimit = 1
  MaxConcurrent = 1
  MaxFailures = 1
  Optional = {c1}
  Mistyped = {c2}
  MaxVersions = 1
  MaxRequests = 1
  MaxStarts = 2
  MaxFaults = 1
