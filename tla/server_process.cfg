SPECIFICATION Spec
CONSTANTS
  None = None
  Sector = 16
  Id = 1
  Ids = {1, 2, 3}
  Lengths = {0, 1}
  MaxTerm = 2
  MaxLog = 2
  MaxBatch = 2
  MaxCrashes = 1
INVARIANTS
  VotePromisesKept
  FirstWriteSurvivesUntorn
CHECK_DEADLOCK FALSE
