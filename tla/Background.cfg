CONSTANTS
  ListedMarkets = {"m1", "m2", "m3"}
  Blocked = {"m3"}
  PageSize = 1
  MaxPages = 3
  TopN = 1
  MaxMoves = 1
  BoardFaults = 1
  Callers = {"loop", "command", "divergence"}
  Cap = 1
  RunLength = 2
  CallerRuns = 1
  MaxDays = 1
  Positions = {"p1", "p2", "p3"}
  MarketOf <- MCMarketOf
  Listing <- MCListing
  NegRisk = {"b"}
  MaxTx = 4
  RedeemFaults = 2
  Procs = {"autopilot", "timer"}
  Tables = {"proposals", "executions"}
  Columns = {"id", "topic", "kind", "ttl", "alpha", "block", "meta", "category"}
  BaseCols <- MCBaseCols
  FullCols <- MCFullCols
  Indexed <- MCIndexed
  Scripts <- MCScripts
  ProcRuns = 3
  Collectors = {"c1", "c2"}
  Window = 2
  Limit = 1
  MaxAge = 0
  MaxTime = 2
  MaxTrades = 3
  CopyFaults = 1
  SignalOrder <- MCSignalOrder
  ContentOf <- MCContentOf
  Malformed = {"s2"}
  MaxSignals = 1
  AlphaFaults = 1
  Edges = {5, 10, 12, 20, 30}
  Prices = {10, 35, 90}
  Balances = {50, 450}
  Books <- MCBooks
  Drifts = {0, 40, 600}
  ScaleMax = 8
SPECIFICATION Spec
CHECK_DEADLOCK FALSE
INVARIANTS
  BudgetKept
  StampsMatchChain
  MarkedIsComplete
  TradesRecordedOnce
  SizedAsMeant
PROPERTIES
  ListedIsSeen
  SignalsGetThrough
