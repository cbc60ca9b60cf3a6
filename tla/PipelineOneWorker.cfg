SPECIFICATION FairSpec
INVARIANT TypeOK
INVARIANT QueuedIsSubmittable
INVARIANT CompletedIsStored
INVARIANT ProcessingHasJob
PROPERTY SettledStaysSettled
PROPERTY KeepsPromise
PROPERTY EveryBatchComesToRest
CONSTANTS
  NumBatches = 1
  Chunks = {c1, c2}
  MaxJobs = 4
  MaxSubmissionAttempts = 2
  MaxRetries = 1
  Workers = {w1}
  MaxConcurrentSubmissions = 1
  MaxWaiting = 1
  Deliveries = {d1}
  Splits <- OneBatch
  FallbackToSequential = FALSE
  GeminiOutcomes = {"succeeded", "partial", "failed"}
  Lossy = TRUE
  MaxFaults = 1
  MaxRateLimits = 2
  MaxCrashes = 1
  c1 = c1
  c2 = c2
  w1 = w1
  w2 = w2
  d1 = d1
  d2 = d2
