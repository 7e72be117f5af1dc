CONSTANTS
  p1 = p1
  p2 = p2
  e1 = e1
  e2 = e2
  m1 = m1
  Proposals = {p1}
  Markets = {m1}
  Execs = {e1}
  MarketOf <- MCOneProposal
  Full = 2
  Faults = {"crash", "abort", "lost_response", "cancel_error", "net_error",
            "lock_timeout", "odd_status"}
  MaxFaults = 2
  Reauthorize = FALSE
  NoProposal = NoProposal
  NoExec = NoExec
SPECIFICATION FairSpec
INVARIANTS
  ActiveNotAuthorized
PROPERTIES
  FilledGetsPosition
  PartialFillGetsPosition
  OrdersClose
  HeldPositionsSettle
