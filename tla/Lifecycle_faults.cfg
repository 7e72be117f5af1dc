CONSTANTS
  p1 = p1
  p2 = p2
  e1 = e1
  e2 = e2
  m1 = m1
  Proposals = {p1, p2}
  Markets = {m1}
  Execs = {e1, e2}
  MarketOf <- MCSameMarket
  Full = 1
  Faults = {"crash", "lost_response", "cancel_error",
            "lock_timeout", "odd_status"}
  MaxFaults = 2
  Reauthorize = TRUE
  NoProposal = NoProposal
  NoExec = NoExec
SYMMETRY MCSymmetry
SPECIFICATION Spec
INVARIANTS
  IInv
  OneOrderPerFault
