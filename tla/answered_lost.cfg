SPECIFICATION LedClusterSpec
CONSTANTS
  None = None
  Noop = Noop
  Server = {n1, n2, n3, n4}
  Command = {c1}
  Duplicates = FALSE
  SelfInPeers = TRUE
  MaxTerm = 2
  CompactAbove = 9
  Padding <- ZeroPadding
  MaxCrashes = 0
  MaxLosses = 0
  MaxTimeouts = 1
  MaxHeartbeats = 0
INVARIANTS
  AnsweredIsKept
SYMMETRY ServerSymmetry
CHECK_DEADLOCK FALSE
