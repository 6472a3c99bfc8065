SPECIFICATION Spec
CONSTANTS
  None = None
  Noop = Noop
  Server = {n1, n2, n3}
  Command = {}
  Duplicates = TRUE
  SelfInPeers = FALSE
  MaxTerm = 1
  CompactAbove = 9
  MaxCrashes = 1
  MaxLosses = 0
  MaxTimeouts = 2
  MaxHeartbeats = 0
INVARIANTS
  TypeOK
  ElectionSafety
PROPERTIES
  VotesAreFinal
SYMMETRY ServerSymmetry
CHECK_DEADLOCK FALSE
