SPECIFICATION ElectionSpec
CONSTANTS
  None = None
  Noop = Noop
  Server = {n1, n2}
  Command = {}
  Duplicates = FALSE
  SelfInPeers = FALSE
  MaxTerm = 3
  CompactAbove = 9
  MaxCrashes = 0
  MaxLosses = 1
  MaxTimeouts = None
  MaxHeartbeats = None
PROPERTIES
  LaggardsCatchUp
CHECK_DEADLOCK FALSE
