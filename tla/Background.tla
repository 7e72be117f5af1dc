----------------------------- MODULE Background -----------------------------
(***************************************************************************)
(* The jobs that run beside the trading loops, one of them in each         *)
(* behaviour: the jobs share no state, so their state spaces are explored  *)
(* side by side, each under its own name (`which').  The variables of the  *)
(* other jobs keep an initial value.                                       *)
(***************************************************************************)
EXTENDS Integers, Sequences

Jobs == {"board", "budget", "redeem", "migrate", "copy", "alpha", "sizing"}

VARIABLE which  \* the job of this behaviour

CONSTANTS ListedMarkets, Blocked, PageSize, MaxPages, TopN, MaxMoves, BoardFaults
VARIABLES listed, price, row, recency, scan, seen, asking, moves, boardFaults
board == <<listed, price, row, recency, scan, seen, asking, moves, boardFaults>>
Board == INSTANCE MarketBoard WITH
  Markets <- ListedMarkets, MaxFaults <- BoardFaults, faults <- boardFaults

CONSTANTS Callers, Cap, RunLength, CallerRuns, MaxDays
VARIABLES counter, sent, missed, caller, locked, callerRuns, day
budget == <<counter, sent, missed, caller, locked, callerRuns, day>>
Budget == INSTANCE AdapterBudget WITH
  MaxRuns <- CallerRuns, at <- caller, runs <- callerRuns

CONSTANTS Positions, MarketOf, Listing, NegRisk, MaxTx, RedeemFaults
VARIABLES resolved, stamp, held, reported, txs, mined, job, excused, redeemFaults
redeem == <<resolved, stamp, held, reported, txs, mined, job, excused, redeemFaults>>
Redeem == INSTANCE Redeemer WITH MaxFaults <- RedeemFaults, faults <- redeemFaults

CONSTANTS Procs, Tables, Columns, BaseCols, FullCols, Indexed, Scripts, ProcRuns
VARIABLES tab, scratch, marks, proc, procRuns, torn
migrate == <<tab, scratch, marks, proc, procRuns, torn>>
Migrate == INSTANCE Migrations WITH MaxRuns <- ProcRuns, runs <- procRuns

CONSTANTS Collectors, Window, Limit, MaxAge, MaxTime, MaxTrades, CopyFaults
VARIABLES clock, trades, cursor, tradeRows, pass, writer, leftOut, raced, copyFaults
copy == <<clock, trades, cursor, tradeRows, pass, writer, leftOut, raced, copyFaults>>
Copy == INSTANCE CopyCollector WITH
  MaxFaults <- CopyFaults, rows <- tradeRows, faults <- copyFaults

CONSTANTS SignalOrder, ContentOf, Malformed, MaxSignals, AlphaFaults
VARIABLES sig, stale, known, prop, run, alphaFaults
alpha == <<sig, stale, known, prop, run, alphaFaults>>
Alpha == INSTANCE AlphaImport WITH
  ByEdge <- SignalOrder, MaxFaults <- AlphaFaults, listed <- known, faults <- alphaFaults

CONSTANTS Edges, Prices, Balances, Books, Drifts, ScaleMax
VARIABLES ask, step, tier, size, limit
sizing == <<ask, step, tier, size, limit>>
Size == INSTANCE Sizing WITH at <- step

ASSUME JobAssumptions ==
  /\ Board!BoardAssumption /\ Budget!BudgetAssumption /\ Redeem!RedeemerAssumption
  /\ Migrate!MigrationsAssumption /\ Copy!CollectorAssumption /\ Alpha!ImportAssumption
  /\ Size!SizingAssumption

-----------------------------------------------------------------------------
\* Where a job is not the one that runs, one of its initial states.
Init ==
  /\ which \in Jobs
  /\ Budget!Init /\ Redeem!Init /\ Copy!Init /\ Alpha!Init
  /\ Board!Init
  /\ which # "board" => listed = CHOOSE l \in Board!SetToSeqs(ListedMarkets) : TRUE
  /\ Migrate!Init /\ (which # "migrate" => \A t \in Tables : ~Migrate!There(t))
  /\ IF which = "sizing" THEN TRUE ELSE ask = CHOOSE a \in Size!Possible : TRUE
  /\ Size!Init

Next ==
  /\ UNCHANGED which
  /\ \/ /\ which = "board" /\ Board!Next
        /\ UNCHANGED <<budget, redeem, migrate, copy, alpha, sizing>>
     \/ /\ which = "budget" /\ Budget!Next
        /\ UNCHANGED <<board, redeem, migrate, copy, alpha, sizing>>
     \/ /\ which = "redeem" /\ Redeem!Next
        /\ UNCHANGED <<board, budget, migrate, copy, alpha, sizing>>
     \/ /\ which = "migrate" /\ Migrate!Next
        /\ UNCHANGED <<board, budget, redeem, copy, alpha, sizing>>
     \/ /\ which = "copy" /\ Copy!Next
        /\ UNCHANGED <<board, budget, redeem, migrate, alpha, sizing>>
     \/ /\ which = "alpha" /\ Alpha!Next
        /\ UNCHANGED <<board, budget, redeem, migrate, copy, sizing>>
     \/ /\ which = "sizing" /\ Size!Next
        /\ UNCHANGED <<board, budget, redeem, migrate, copy, alpha>>

vars == <<which, board, budget, redeem, migrate, copy, alpha, sizing>>

\* The scan loop and the import go on for ever.
BoardStep ==
  /\ which = "board" /\ Board!ScanStep
  /\ UNCHANGED <<which, budget, redeem, migrate, copy, alpha, sizing>>
AlphaStep ==
  /\ which = "alpha" /\ Alpha!RunStep
  /\ UNCHANGED <<which, board, budget, redeem, migrate, copy, sizing>>

Spec == Init /\ [][Next]_vars /\ WF_vars(BoardStep) /\ WF_vars(AlphaStep)

-----------------------------------------------------------------------------
\* MarketBoard, poly_scanner.py: what stays listed is stored as it is.
ListedIsSeen == which = "board" => Board!ListedIsSeen

\* AdapterBudget, the daily caps of event_fetcher.py and odds_divergence_signal.py.
BudgetKept == Budget!BudgetKept

\* Redeemer, redeemer.py: stamps of positions and payments of the chain agree.
StampsMatchChain == Redeem!StampsMatchChain

\* Migrations, migrations/__init__.py: what is marked applied is complete.
MarkedIsComplete == which = "migrate" => Migrate!MarkedIsComplete

\* CopyCollector, smartmoney_signal.py: what the cursor passed is recorded once.
TradesRecordedOnce == Copy!TradesRecordedOnce

\* AlphaImport, alpha_signal_importer.py: a ready signal is imported or expires, or
\* one that cannot be converted ends every run.
SignalsGetThrough == which = "alpha" => Alpha!SignalsGetThrough

\* Sizing, conviction.py and proposer.py: the tier and the size are the meant ones.
SizedAsMeant == Size!SizedAsMeant
=============================================================================
