CONSTANTS
  p1 = p1
  p2 = p2
  Proposals = {p1, p2}
  Regenerate = FALSE
  MaxPending = 1
  MaxFaults = 1
  NoProposal = NoProposal
SPECIFICATION FairSpec
INVARIANTS
  FInv
  ActiveIsClosed
  DecisionStands
PROPERTIES
  StatusMachine
  ProposedIsAssessed
  AuthorizedIsTried
  UnansweredExpires
