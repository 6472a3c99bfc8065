SPECIFICATION Spec
CONSTANTS
  Node = {n1, n2}
  max_delay_ticks = 1
  MaxMsgs = 2
  MaxTick = 6
INVARIANTS
  NothingOverdue
  CutLinkFallsSilent
PROPERTIES
  ImplementsLossyNetwork
CHECK_DEADLOCK FALSE
