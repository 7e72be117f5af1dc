CONSTANTS
  p1 = p1
  p2 = p2
  e1 = e1
  e2 = e2
  m1 = m1
  Proposals = {p1}
  Markets = {m1}
  Execs = {e1, e2}
  MarketOf <- MCOneProposal
  Full = 1
  Faults = {"crash"}
  MaxFaults = 1
  Reauthorize = FALSE
  NoProposal = NoProposal
  NoExec = NoExec
SPECIFICATION Spec
INVARIANTS
  RestartResumes
