SPECIFICATION InstalledSpec
CONSTANTS
  None = None
  Noop = Noop
  Server = {n1, n2, n3, n4, n5}
  Command = {c1, c2}
  Duplicates = FALSE
  SelfInPeers = FALSE
  MaxTerm = 4
  CompactAbove = 1
  MaxCrashes = 1
  MaxLosses = 0
  MaxTimeouts = 1
  MaxHeartbeats = 0
INVARIANTS
  LogMatching
SYMMETRY ServerSymmetry
CHECK_DEADLOCK FALSE
