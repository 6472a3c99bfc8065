SPECIFICATION FairSpec
CONSTANTS
  Bogus = Bogus
  Invalid = Invalid
  Window = 6
  MaxMsgs = 3
  MaxKills = 2
INVARIANTS
  DamageIsConfined
  OnceAndInOrder
PROPERTIES
  LinkRecovers
  ImplementsLossyNetwork
CHECK_DEADLOCK FALSE
