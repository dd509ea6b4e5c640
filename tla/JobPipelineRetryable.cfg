CONSTANTS
  Runs = {r1}
  Workers = {w1, w2}
  NoWorker = NoWorker
  NoRun = NoRun
  MaxAttempts = 2
  MaxManualRetries = 1
  Checkpoints = 1
  MaxJobsPerRun = 1
SPECIFICATION Spec
SYMMETRY WorkerSymmetry
INVARIANT
  FailedJobIsRetryable
