SPECIFICATION Spec
CONSTANTS
  None = None
  election_timeout_base = 5
  heartbeat_interval = 1
  max_delay_ticks = 3
  LossesInARow = 0
  MaxCopies = 0
  MaxTerm = 2
INVARIANTS
  LeaderUndisturbed
CHECK_DEADLOCK FALSE
