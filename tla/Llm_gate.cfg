CONSTANTS
  propose = propose
  exit = exit
  Nobody = Nobody
  Loops = {propose, exit}
  Proposer = propose
  Schedule <- MCSchedule
  Window = 4
  HttpPauses = {1, 3}
  MinInterval = 2
  Modes = {"cli", "http"}
  Fallbacks = {TRUE, FALSE}
SPECIFICATION FairSpec
INVARIANTS
  EscalationsAreCalls
PROPERTIES
  TransportReturns
