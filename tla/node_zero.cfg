SPECIFICATION Spec
CONSTANTS
  None = None
  Sector = 16
  Id = 1
  Ids = {0, 1, 2}
  Lengths = {0, 1}
  MaxTerm = 2
  MaxLog = 2
  MaxBatch = 2
  MaxCrashes = 1
INVARIANTS
  VotePromisesKept
CHECK_DEADLOCK FALSE
