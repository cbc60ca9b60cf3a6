SPECIFICATION Spec
INVARIANT SubmittedOnce
INVARIANT JobEmbedsRequest
CONSTANTS
  NumBatches = 2
  Chunks = {c1, c2}
  MaxJobs = 2
  MaxSubmissionAttempts = 2
  MaxRetries = 1
  Workers = {w1}
  MaxConcurrentSubmissions = 1
  MaxWaiting = 1
  Deliveries = {d1}
  Splits <- TwoBatches
  FallbackToSequential = TRUE
  GeminiOutcomes = {"succeeded", "partial", "failed", "cancelled"}
  Lossy = FALSE
  MaxFaults = 0
  MaxRateLimits = 0
  MaxCrashes = 0
  c1 = c1
  c2 = c2
  w1 = w1
  w2 = w2
  d1 = d1
  d2 = d2
