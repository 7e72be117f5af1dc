CONSTANTS
  p1 = p1
  p2 = p2
  p3 = p3
  m1 = m1
  m2 = m2
  autopilot = autopilot
  command = command
  Autopilot = autopilot
  Proposals = {p1, p2, p3}
  Of <- MCOf
  Rules <- MCRules
  Switches <- MCSwitches
  Executors = {autopilot}
  TopicLimit = 6
  ClusterLimit = 6
  StrategyDaily = 6
  PortfolioDaily = 6
  MaxOpen = 3
  ExposureCap = 3
  TierCap <- MCTierCap
  MaxDrawdown = 2
  SessionMax = 6
  MaxEvents = 1
  Nobody = Nobody
  NoProposal = NoProposal
SPECIFICATION Spec
CHECK_DEADLOCK FALSE
INVARIANTS
  OpenExposureWithinCap
