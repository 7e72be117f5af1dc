CONSTANTS
  p1 = p1
  p2 = p2
  Proposals = {p1}
  Regenerate = TRUE
  MaxPending = 2
  MaxFaults = 2
  NoProposal = NoProposal
SPECIFICATION Spec
INVARIANTS
  TypeOK
  OrdersAreGranted
