SPECIFICATION ElectionSpec
CONSTANTS
  None = None
  Noop = Noop
  Server = {n1, n2}
  Command = {}
  Duplicates = FALSE
  SelfInPeers = FALSE
  MaxTerm = 2
  CompactAbove = 9
  MaxCrashes = 0
  MaxLosses = 1
  MaxTimeouts = None
  MaxHeartbeats = None
PROPERTIES
  ElectionsProgress
CHECK_DEADLOCK FALSE
