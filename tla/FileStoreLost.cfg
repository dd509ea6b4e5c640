CONSTANTS
  Runs = {r1}
  Keys = {k1}
  NoRun = NoRun
  NoKey = NoKey
  Requests = {q1}
  Sweeps = {"repair"}
  BatchSize = 1
  Quota = 1
SPECIFICATION Spec
PROPERTY
  SweepsSpareRecordedFiles
