SPECIFICATION OneDownSpec
CONSTANTS
  None = None
  Noop = Noop
  Server = {n1, n2, n3}
  Command = {}
  Duplicates = FALSE
  SelfInPeers = TRUE
  MaxTerm = 1
  CompactAbove = 9
  MaxCrashes = 1
  MaxLosses = 0
  MaxTimeouts = None
  MaxHeartbeats = None
PROPERTIES
  ElectionsProgress
CHECK_DEADLOCK FALSE
