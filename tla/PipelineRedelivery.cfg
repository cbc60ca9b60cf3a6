SPECIFICATION Spec
INVARIANT IInv
CONSTANTS
  NumBatches = 1
  Chunks = {c1, c2}
  MaxJobs = 3
  MaxSubmissionAttempts = 2
  MaxRetries = 1
  Workers = {w1}
  MaxConcurrentSubmissions = 1
  MaxWaiting = 1
  Deliveries = {d1, d2}
  Splits <- MovingSplits
  FallbackToSequential = TRUE
  GeminiOutcomes = {"succeeded", "partial", "failed", "cancelled"}
  Lossy = TRUE
  MaxFaults = 1
  MaxRateLimits = 0
  MaxCrashes = 0
  c1 = c1
  c2 = c2
  w1 = w1
  w2 = w2
  d1 = d1
  d2 = d2
