SPECIFICATION LedReplicationSpec
CONSTANTS
  None = None
  Noop = Noop
  Server = {n1, n2}
  Command = {c1}
  Duplicates = FALSE
  SelfInPeers = FALSE
  MaxTerm = 1
  CompactAbove = 1
  MaxCrashes = 0
  MaxLosses = 1
  MaxTimeouts = 0
  MaxHeartbeats = None
PROPERTIES
  ReplicationCompletes
CHECK_DEADLOCK FALSE
