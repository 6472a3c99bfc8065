SPECIFICATION FairSpec
CONSTANTS
  None = None
  election_timeout_base = 5
  heartbeat_interval = 2
  max_delay_ticks = 1
  LossesInARow = 1
  MaxCopies = 1
  MaxTerm = 2
INVARIANTS
  LeaderUndisturbed
  FollowerStays
PROPERTIES
  StrayRejoins
CHECK_DEADLOCK FALSE
