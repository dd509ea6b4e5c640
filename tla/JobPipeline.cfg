CONSTANTS
  Runs = {r1}
  Workers = {w1, w2}
  NoWorker = NoWorker
  NoRun = NoRun
  MaxAttempts = 2
  MaxManualRetries = 1
  Checkpoints = 2
  MaxJobsPerRun = 2
SPECIFICATION FairSpec
INVARIANTS
  TypeOK
  SucceededJobHasResults
  AttemptBudget
PROPERTIES
  LeaseHolderNeverExits
  TerminalJobsStay
  ImplementsLifecycle
  ImplementsRunView
  JobsSettle
