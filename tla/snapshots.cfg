SPECIFICATION LedSpec
CONSTANTS
  None = None
  Noop = Noop
  Server = {n1, n2, n3}
  Command = {c1}
  Duplicates = FALSE
  SelfInPeers = FALSE
  MaxTerm = 1
  CompactAbove = 1
  MaxCrashes = 1
  MaxLosses = 0
  MaxTimeouts = 0
  MaxHeartbeats = 1
INVARIANTS
  NoPanic
  LogIsDurable
  LogMatching
PROPERTIES
  LeaderAppendOnly
SYMMETRY ServerSymmetry
CHECK_DEADLOCK FALSE
