SPECIFICATION FairSpec
CONSTANTS
  None = None
  election_timeout_base = 6
  heartbeat_interval = 2
  max_delay_ticks = 2
  LossesInARow = 1
  MaxCopies = 0
  MaxTerm = 2
INVARIANTS
  LeaderUndisturbed
  FollowerStays
PROPERTIES
  StrayRejoins
CHECK_DEADLOCK FALSE
