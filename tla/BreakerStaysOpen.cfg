SPECIFICATION FairSpec
PROPERTY BreakerCloses
CHECK_DEADLOCK FALSE
CONSTANTS
  Connectors = {c1}
  Repositories = {r1}
  PageLimit = 1
  MaxConcurrent = 1
  MaxFailures = 3
  Optional = {c1}
  Mistyped = {}
  MaxVersions = 1
  MaxRequests = 1
  MaxStarts = 1
  MaxFaults = 3
