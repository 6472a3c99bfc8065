SPECIFICATION CheckedLedSpec
CONSTANTS
  None = None
  Noop = Noop
  Server = {n1, n2, n3}
  Command = {c1}
  Duplicates = FALSE
  SelfInPeers = FALSE
  MaxTerm = 2
  CompactAbove = 9
  MaxCrashes = 0
  MaxLosses = 0
  MaxTimeouts = 1
  MaxHeartbeats = 0
INVARIANTS
  DivergenceIsReported
SYMMETRY ServerSymmetry
CHECK_DEADLOCK FALSE
