---------------------------- MODULE MarketBoard ----------------------------
(***************************************************************************)
(* The table market_snapshots and its three writers.  The scan loop pages  *)
(* through the exchange's list, which changes under it, and stores what it *)
(* found one market at a time.  The propose loop reads the markets stored  *)
(* last, asks the model for minutes, and stores them again as it read      *)
(* them.  The smart-money collector stores a row, without token ids, for   *)
(* whatever a followed wallet bought.                                      *)
(***************************************************************************)
EXTENDS Integers, FiniteSets, SequencesExt

CONSTANTS
  Markets,
  Blocked,    \* markets for which blocked_market_reason gives a reason
  PageSize, MaxPages,
  TopN,       \* POLY_AUTOPILOT_MAX_CANDIDATES_PER_LOOP
  MaxMoves,   \* bound: price changes
  MaxFaults   \* bound: failed requests and trades of followed wallets

BoardAssumption ==
  /\ IsFiniteSet(Markets) /\ Blocked \subseteq Markets
  /\ {PageSize, MaxPages, TopN} \subseteq Nat \ {0} /\ {MaxMoves, MaxFaults} \subseteq Nat
  /\ PageSize * MaxPages >= Cardinality(Markets)

VARIABLES
  listed,   \* the exchange's open markets, in order of their end dates
  price,    \* per market, what it costs there
  row,      \* per market: {} or {what is stored}
  recency,  \* the stored markets, by last_scanned_at, newest first
  scan,     \* [at, page, found]: the pass of the scan loop
  seen,     \* the candidates of the propose cycle, as they were read
  asking,   \* is a propose cycle under way?
  moves, faults

worldVars == <<listed, price, moves>>
vars == <<worldVars, row, recency, scan, seen, asking, faults>>

Snapshot == [price : 0 .. MaxMoves, tokens : BOOLEAN, open : BOOLEAN]
Entry(m, r) == [market |-> m, row |-> r]

\* upsert_market_snapshot writes every column, and the time of writing.
Stored(table, e) == [table EXCEPT ![e.market] = {e.row}]
Bumped(order, m) == <<m>> \o SelectSeq(order, LAMBDA n : n # m)

-----------------------------------------------------------------------------
(***************************************************************************)
(* fetch_markets and scan_and_persist.                                     *)
(***************************************************************************)
NoScan == [at |-> "idle", page |-> 0, found |-> <<>>]

StartScan ==
  /\ scan.at = "idle"
  /\ scan' = [NoScan EXCEPT !.at = "fetching"]
  /\ UNCHANGED <<worldVars, row, recency, seen, asking, faults>>

Page(n) ==
  LET first == n * PageSize + 1
      last  == IF Len(listed) < first + PageSize - 1 THEN Len(listed) ELSE first + PageSize - 1
  IN  SubSeq(listed, first, last)

Matched(items) == SelectSeq(items, LAMBDA m : m \notin Blocked)

\* Mutant: a page is short when few of its markets match.
LastPageMatched(n, items) == Len(Matched(items)) < PageSize \/ n + 1 = MaxPages

\* An empty or a short page is the last one.
LastPage(n, items) == Len(items) < PageSize \/ n + 1 = MaxPages

FetchPage ==
  /\ scan.at = "fetching"
  /\ LET items == Page(scan.page)
         matched == Matched(items)
         fresh == [i \in DOMAIN matched |->
           Entry(matched[i], [price |-> price[matched[i]], tokens |-> TRUE, open |-> TRUE])]
     IN  scan' = [at    |-> IF LastPage(scan.page, items) THEN "storing" ELSE "fetching",
                  page  |-> scan.page + 1,
                  found |-> scan.found \o fresh]
  /\ UNCHANGED <<worldVars, row, recency, seen, asking, faults>>

\* A request that fails, after its retries, ends the pass: nothing is stored.
ScanFails ==
  /\ scan.at = "fetching" /\ faults < MaxFaults
  /\ scan' = NoScan /\ faults' = faults + 1
  /\ UNCHANGED <<worldVars, row, recency, seen, asking>>

\* Every row is committed on its own.
StoreNext ==
  /\ scan.at = "storing" /\ scan.found # <<>>
  /\ row' = Stored(row, Head(scan.found))
  /\ recency' = Bumped(recency, Head(scan.found).market)
  /\ scan' = [scan EXCEPT !.found = Tail(@)]
  /\ UNCHANGED <<worldVars, seen, asking, faults>>

EndScan ==
  /\ scan.at = "storing" /\ scan.found = <<>>
  /\ scan' = NoScan
  /\ UNCHANGED <<worldVars, row, recency, seen, asking, faults>>

-----------------------------------------------------------------------------
(***************************************************************************)
(* The propose cycle and the collector.                                    *)
(***************************************************************************)
Open(m) == \E r \in row[m] : r.open
Candidates ==
  LET open == SelectSeq(recency, Open)
  IN  SubSeq(open, 1, IF Len(open) < TopN THEN Len(open) ELSE TopN)

\* blocked_market_reason is asked after the limit.
ReadCandidates ==
  /\ ~asking /\ Matched(Candidates) # <<>>
  /\ asking' = TRUE
  /\ seen' = LET ms == Matched(Candidates)
             IN  [i \in DOMAIN ms |-> Entry(ms[i], CHOOSE r \in row[ms[i]] : TRUE)]
  /\ UNCHANGED <<worldVars, row, recency, scan, faults>>

\* run_proposal_pipeline, after the model has answered.
WriteBack ==
  /\ asking
  /\ row' = FoldLeft(Stored, row, seen)
  /\ recency' = FoldLeft(LAMBDA order, e : Bumped(order, e.market), recency, seen)
  /\ asking' = FALSE /\ seen' = <<>>
  /\ UNCHANGED <<worldVars, scan, faults>>

\* The pipeline raised before it came to the markets.
CycleRaises ==
  /\ asking
  /\ asking' = FALSE /\ seen' = <<>>
  /\ UNCHANGED <<worldVars, row, recency, scan, faults>>

\* _snapshot_dict_from_gamma: no filter, and no token ids.
Collect(m) ==
  /\ faults < MaxFaults /\ faults' = faults + 1
  /\ row' = Stored(row, Entry(m, [price |-> price[m], tokens |-> FALSE,
                                  open |-> m \in Range(listed)]))
  /\ recency' = Bumped(recency, m)
  /\ UNCHANGED <<worldVars, scan, seen, asking>>

-----------------------------------------------------------------------------
PriceMoves(m) ==
  /\ moves < MaxMoves
  /\ price' = [price EXCEPT ![m] = @ + 1] /\ moves' = moves + 1
  /\ UNCHANGED <<listed, row, recency, scan, seen, asking, faults>>

\* A market ends: those behind it move up, across the pages.
Leave(m) ==
  /\ m \in Range(listed)
  /\ listed' = SelectSeq(listed, LAMBDA n : n # m)
  /\ UNCHANGED <<price, moves, row, recency, scan, seen, asking, faults>>

Init ==
  /\ listed \in SetToSeqs(Markets)
  /\ price = [m \in Markets |-> 0]
  /\ row = [m \in Markets |-> {}] /\ recency = <<>>
  /\ scan = NoScan /\ seen = <<>> /\ asking = FALSE
  /\ moves = 0 /\ faults = 0

ScanStep == StartScan \/ FetchPage \/ StoreNext \/ EndScan

Next ==
  \/ ScanStep \/ ScanFails \/ ReadCandidates \/ WriteBack \/ CycleRaises
  \/ \E m \in Markets : Collect(m) \/ PriceMoves(m) \/ Leave(m)

\* The scan loop ticks for ever.
Fairness == WF_vars(ScanStep)

Spec == Init /\ [][Next]_vars /\ Fairness

-----------------------------------------------------------------------------
Current(m) == row[m] = {[price |-> price[m], tokens |-> TRUE, open |-> TRUE]}

\* A market that stays on the exchange is stored as it is there again and
\* again: pages that shift between two requests, passes that fail, and stale or
\* partial rows that other writers put in its place only delay it.
ListedIsSeen ==
  \A m \in Markets \ Blocked : <>[](m \in Range(listed)) => []<>Current(m)
=============================================================================
