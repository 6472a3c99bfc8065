SPECIFICATION OvertakenSpec
CONSTANTS
  None = None
  Noop = Noop
  Server = {n1, n2, n3}
  Command = {}
  Duplicates = TRUE
  SelfInPeers = FALSE
  MaxTerm = 3
  CompactAbove = 9
  MaxCrashes = 1
  MaxLosses = 0
  MaxTimeouts = 1
  MaxHeartbeats = 0
INVARIANTS
  LogMatching
  LeaderCompleteness
  StateMachineSafety
SYMMETRY ServerSymmetry
CHECK_DEADLOCK FALSE
