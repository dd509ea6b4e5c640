CONSTANTS
  Jobs = {j1, j2, j3}
  WorkerCount = 1
  Aging = 2
SPECIFICATION FairSpec
PROPERTIES
  FifoWithinPriority
  AgedJobsAreNotOvertaken
  NoJobStarves
