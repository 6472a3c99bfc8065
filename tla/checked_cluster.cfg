SPECIFICATION CheckedLedSpec
CONSTANTS
  None = None
  Noop = Noop
  Server = {n1, n2}
  Command = {c1}
  Duplicates = FALSE
  SelfInPeers = FALSE
  MaxTerm = 2
  CompactAbove = 1
  MaxCrashes = 1
  MaxLosses = 0
  MaxTimeouts = 1
  MaxHeartbeats = 2
INVARIANTS
  NoFalseAlarm
  NoPanic
  LogIsDurable
  LogMatching
PROPERTIES
  LeaderAppendOnly
SYMMETRY ServerSymmetry
CHECK_DEADLOCK FALSE
