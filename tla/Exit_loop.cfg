CONSTANTS
  m1 = m1
  m2 = m2
  Markets = {m1}
  Held = {m1}
  Size = 2
  MaxExits = 1
  MaxLevel = 1
  MaxPositions = 3
  MaxEvents = 1
SPECIFICATION FairSpec
CHECK_DEADLOCK FALSE
INVARIANTS
  OneStandingExit
  HoldingsAreCounted
PROPERTIES
  ExpiringIsOffered
