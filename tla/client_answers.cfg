SPECIFICATION ServedClusterSpec
CONSTANTS
  None = None
  Noop = Noop
  Server = {n1, n2, n3}
  Command = {c1}
  Duplicates = FALSE
  SelfInPeers = FALSE
  MaxTerm = 2
  CompactAbove = 9
  Padding <- ZeroPadding
  MaxCrashes = 1
  MaxLosses = 0
  MaxTimeouts = 1
  MaxHeartbeats = 0
INVARIANTS
  MatchingWhileReadBack
  SafeWhileReadBack
  AnsweredIsKeptOnceHeld
  HintWasElected
CONSTRAINT UntilMisread
SYMMETRY OthersSymmetry
CHECK_DEADLOCK FALSE
