CONSTANTS
  Runs = {r1}
  Keys = {k1}
  NoRun = NoRun
  NoKey = NoKey
  Requests = {q1, q2}
  Sweeps = {"cleanup", "repair"}
  BatchSize = 1
  Quota = 2
SPECIFICATION FairSpec
INVARIANTS
  TypeOK
PROPERTIES
  FilesChangeOnlyWhilePending
  FilesOfActiveJobsStay
  SweepsSpareYoungObjects
  
  RepairedUsageConverges
