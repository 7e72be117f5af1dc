CONSTANTS
  p1 = p1
  p2 = p2
  Proposals = {p1}
  Regenerate = TRUE
  MaxPending = 1
  MaxFaults = 0
  NoProposal = NoProposal
SPECIFICATION Spec
INVARIANTS
  RejectedStaysOut
