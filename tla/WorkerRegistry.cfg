CONSTANTS
  Workers = {w1, w2}
  Cleanups = {c1, c2}
  BatchSize = 1
SPECIFICATION FairSpec

  
PROPERTIES
  AvailableWorkersStay
  LostWorkersAreForgotten
