------------------------------ MODULE ExitLoop ------------------------------
(***************************************************************************)
(* Exits: the loop that looks at open positions, newest first, asks for a  *)
(* recommendation, and proposes to sell; what becomes of such a proposal;  *)
(* and the sell order, whose execution gets a position of its own while    *)
(* the position it was meant for stays as it is.  A proposal is known by   *)
(* its content, so that one that recurs is the same row.                   *)
(***************************************************************************)
EXTENDS Integers, FiniteSets, FiniteSetsExt, SequencesExt

CONSTANTS
  Markets,
  Held,          \* markets in which an entry was filled, one position each
  Size,          \* of an entry, in lots; a reduction sells half of it
  MaxExits,      \* POLY_AUTOPILOT_MAX_EXIT_PROPOSALS_PER_LOOP
  MaxLevel,      \* bound: take-profit tiers the price reaches
  MaxPositions,  \* bound: rows of positions
  MaxEvents      \* bound: price moves, orders that die, runs of the command

ASSUME ExitAssumption ==
  /\ Held \subseteq Markets /\ IsFiniteSet(Held)
  /\ {Size, MaxExits, MaxLevel, MaxPositions, MaxEvents} \subseteq Nat

VARIABLES
  pos,       \* positions by id: [market, size, status, exit]
  prop,      \* exit proposals by content: [status, target]
  order,     \* per content: the state of its sell order
  shares,    \* per market: lots the wallet holds
  level,     \* per market: what the price says to the take-profit rule
  expiring,  \* markets within POLY_EXIT_EXPIRY_MINUTES of their end
  resolved,  \* markets with a market_resolutions row
  lapsed,    \* markets whose entry's catalyst deadline has passed
  list,      \* the loop's list of ids
  inTick,    \* between the listing and the commit
  locked,    \* the loop has written and holds the write lock until its commit
  cli,       \* does somebody run the run-exit-agent command?
  events

marketVars == <<shares, level, expiring, resolved, lapsed>>
loopVars == <<list, inTick, locked>>
vars == <<pos, prop, order, marketVars, loopVars, cli, events>>

Reasons == {"resolved", "profit1", "profit2", "expiry", "model"}
Content == [market : Markets, size : 1 .. Size, reason : Reasons]

\* "dropped" is risk_blocked, expired or cancelled, "refused" is failed or
\* rejected: the loop tells these two groups apart, and nothing within them.
Terminal == {"dropped", "executed"}
ExitStatus == {"none", "proposed", "pending_approval", "refused",
               "authorized_for_execution"} \cup Terminal

Ids == 1 .. Len(pos)
OpenIds == {i \in Ids : pos[i].status = "open"}
WithStatus(S) == SetToSortSeq({i \in Ids : pos[i].status \in S}, LAMBDA i, j : i > j)

-----------------------------------------------------------------------------
(***************************************************************************)
(* The exit agent: evaluate_position and evaluate_position_with_llm.       *)
(***************************************************************************)
Advice(kind, reason) == [kind |-> kind, reason |-> reason]

\* Only an entry's proposal has a target multiplier and a catalyst deadline;
\* a deadline that has passed comes before the end of the market.
Deterministic(i) ==
  LET m == pos[i].market
  IN  CASE m \in resolved -> Advice("close", "resolved")
        [] m \notin resolved /\ level[m] > 0 /\ ~pos[i].exit
             -> Advice("reduce", IF level[m] = 1 THEN "profit1" ELSE "profit2")
        [] OTHER -> IF m \in expiring /\ (m \notin lapsed \/ pos[i].exit) THEN Advice("close", "expiry")
                    ELSE Advice("hold", "none")

\* The deterministic rules come first; the model may say anything, about this
\* position or another one, too unsure to act on, or nothing at all.
Recommendations(i) ==
  IF Deterministic(i).kind # "hold" THEN {Deterministic(i)}
  ELSE {Advice("hold", "none"), Advice("close", "model"), Advice("reduce", "model")}

\* A reduction that falls below the minimum of five shares (one lot) is
\* promoted to a full close.
ExitContent(i, advice) ==
  [market |-> pos[i].market, reason |-> advice.reason,
   size |-> IF advice.kind = "reduce" /\ pos[i].size \div 2 >= 1
            THEN pos[i].size \div 2 ELSE pos[i].size]

\* upsert_proposal: what exists keeps its status and gets the new target.
Upserted(table, c, i) ==
  [table EXCEPT ![c] = [status |-> IF @.status = "none" THEN "proposed" ELSE @.status,
                        target |-> i]]

Standing(i) ==
  {c \in Content : prop[c].target = i /\ prop[c].status \notin Terminal \cup {"none"}}

\* Mutant: an exit that is over still counts.
HasExitEver(i) == \E c \in Content : prop[c].target = i

\* Mutant: an exit that waits for its approval is not looked for.
HasExitProposed(i) == \E c \in Standing(i) : prop[c].status = "proposed"

\* The guard of _loop_exit.
HasExit(i) == Standing(i) # {}

-----------------------------------------------------------------------------
StartTick ==
  /\ ~inTick
  /\ LET open == WithStatus({"open"})
     IN  list' = SubSeq(open, 1, IF Len(open) < MaxExits THEN Len(open) ELSE MaxExits)
  /\ inTick' = TRUE
  /\ UNCHANGED <<pos, prop, order, marketVars, locked, cli, events>>

\* The row that is looked at is the one that was listed: the position may have
\* been settled since.  The recommendation is always recorded, which takes the
\* write lock; it is kept over the calls of the model for the rest of the list.
Consider ==
  /\ inTick /\ list # <<>>
  /\ list' = Tail(list)
  /\ LET i == Head(list)
     IN  IF HasExit(i) THEN UNCHANGED <<prop, locked>>
         ELSE /\ locked' = TRUE
              /\ \E advice \in Recommendations(i) :
                   prop' = IF advice.kind = "hold" THEN prop
                           ELSE Upserted(prop, ExitContent(i, advice), i)
  /\ UNCHANGED <<pos, order, marketVars, inTick, cli, events>>

EndTick ==
  /\ inTick /\ list = <<>>
  /\ inTick' = FALSE /\ locked' = FALSE
  /\ UNCHANGED <<pos, prop, order, marketVars, list, cli, events>>

\* run-exit-agent --create-proposals: all positions, no guard, closes only.
RunExitAgent ==
  /\ cli /\ ~locked /\ events < MaxEvents
  /\ LET closing == {i \in Ids : /\ pos[i].status \in {"open_requested", "open"}
                                 /\ Deterministic(i).kind = "close"}
     IN  /\ closing # {}
         /\ prop' = FoldSet(LAMBDA i, t :
                      Upserted(t, ExitContent(i, Deterministic(i)), i), prop, closing)
  /\ events' = events + 1
  /\ UNCHANGED <<pos, order, marketVars, loopVars, cli>>

-----------------------------------------------------------------------------
(***************************************************************************)
(* What the other loops do with an exit.                                   *)
(***************************************************************************)
SetStatus(c, from, to) ==
  /\ ~locked /\ prop[c].status = from
  /\ prop' = [prop EXCEPT ![c].status = to]
  /\ UNCHANGED <<pos, order, marketVars, loopVars, cli, events>>

Assess(c) ==
  \E to \in {"dropped", "pending_approval", "authorized_for_execution"} :
    SetStatus(c, "proposed", to)

Answer(c) ==
  \E to \in {"authorized_for_execution", "refused", "dropped"} :
    SetStatus(c, "pending_approval", to)

Refuse(c) == SetStatus(c, "authorized_for_execution", "refused")

\* Lots not yet promised to a live sell order: the exchange takes no other.
Sellable(m) ==
  shares[m] - MapThenSumSet(LAMBDA c : c.size,
                {c \in Content : c.market = m /\ order[c] = "live"})

\* The proposal is executed as soon as its order rests on the exchange.
PlaceSell(c) ==
  /\ ~locked /\ prop[c].status = "authorized_for_execution"
  /\ c.market \notin resolved /\ Sellable(c.market) >= c.size
  /\ order[c] = "none" /\ Len(pos) < MaxPositions
  /\ order' = [order EXCEPT ![c] = "live"]
  /\ prop' = [prop EXCEPT ![c].status = "executed"]
  /\ pos' = Append(pos, [market |-> c.market, size |-> c.size,
                         status |-> "open_requested", exit |-> TRUE])
  /\ UNCHANGED <<marketVars, loopVars, cli, events>>

PositionOf(c) ==
  CHOOSE i \in Ids : pos[i].exit /\ pos[i].market = c.market /\ pos[i].size = c.size
                     /\ pos[i].status = "open_requested"

\* Mutant: the target is closed when its exit has been sold.
TargetClosed(c) ==
  [pos EXCEPT ![prop[c].target].status = "closed", ![PositionOf(c)].status = "open"]

\* The reconcile loop finds the order filled: sync_position_for_execution.
SellSynced(c) == [pos EXCEPT ![PositionOf(c)].status = "open"]

FillSell(c) ==
  /\ ~locked /\ order[c] = "live"
  /\ order' = [order EXCEPT ![c] = "filled"]
  /\ pos' = SellSynced(c)
  /\ shares' = [shares EXCEPT ![c.market] = @ - c.size]
  /\ UNCHANGED <<prop, level, expiring, resolved, lapsed, loopVars, cli, events>>

\* It was cancelled or has become invalid.
SellDies(c) ==
  /\ ~locked /\ order[c] = "live" /\ events < MaxEvents
  /\ order' = [order EXCEPT ![c] = "dead"]
  /\ pos' = [pos EXCEPT ![PositionOf(c)].status = "cancelled"]
  /\ events' = events + 1
  /\ UNCHANGED <<prop, marketVars, loopVars, cli>>

\* update_position_marks settles what is open in a resolved market.
Settle(m) ==
  /\ ~locked /\ m \in resolved
  /\ \E i \in OpenIds : pos[i].market = m
  /\ pos' = [i \in Ids |-> IF i \in OpenIds /\ pos[i].market = m
                           THEN [pos[i] EXCEPT !.status = "resolved"] ELSE pos[i]]
  /\ shares' = [shares EXCEPT ![m] = 0]
  /\ UNCHANGED <<prop, order, level, expiring, resolved, lapsed, loopVars, cli, events>>

-----------------------------------------------------------------------------
PriceMoves(m) ==
  /\ events < MaxEvents /\ ~locked
  /\ \E v \in 0 .. MaxLevel : v # level[m] /\ level' = [level EXCEPT ![m] = v]
  /\ events' = events + 1
  /\ UNCHANGED <<pos, prop, order, shares, expiring, resolved, lapsed, loopVars, cli>>

NearsExpiry(m) ==
  /\ m \notin expiring
  /\ expiring' = expiring \cup {m}
  /\ UNCHANGED <<pos, prop, order, shares, level, resolved, lapsed, loopVars, cli, events>>

Resolve(m) ==
  /\ m \in expiring /\ m \notin resolved /\ ~locked
  /\ \A c \in Content : c.market = m => order[c] # "live"
  /\ resolved' = resolved \cup {m}
  /\ UNCHANGED <<pos, prop, order, shares, level, expiring, lapsed, loopVars, cli, events>>

Init ==
  /\ pos = SetToSeq({[market |-> m, size |-> Size, status |-> "open", exit |-> FALSE] :
                       m \in Held})
  /\ prop = [c \in Content |-> [status |-> "none", target |-> 0]]
  /\ order = [c \in Content |-> "none"]
  /\ shares = [m \in Markets |-> IF m \in Held THEN Size ELSE 0]
  /\ level = [m \in Markets |-> 0]
  /\ expiring = {} /\ resolved = {}
  /\ list = <<>> /\ inTick = FALSE /\ locked = FALSE
  /\ \/ cli \in BOOLEAN /\ lapsed = {}
     \/ cli = FALSE /\ lapsed = Held
  /\ events = 0

LoopStep == StartTick \/ Consider \/ EndTick

\* What becomes of an exit between its proposal and its order.
WorkflowStep == \E c \in Content : Assess(c) \/ Answer(c) \/ Refuse(c) \/ PlaceSell(c)

Next ==
  \/ LoopStep \/ RunExitAgent
  \/ WorkflowStep
  \/ \E c \in Content : FillSell(c) \/ SellDies(c)
  \/ \E m \in Markets : Settle(m) \/ PriceMoves(m) \/ NearsExpiry(m) \/ Resolve(m)

Spec == Init /\ [][Next]_vars

\* The supervisor ticks the exit, propose, expiry and execute loops for ever,
\* and an unanswered proposal expires.  An exit takes each of these steps once.
Fairness == WF_vars(LoopStep) /\ SF_vars(WorkflowStep)

FairSpec == Spec /\ Fairness

-----------------------------------------------------------------------------
\* While only the autopilot proposes exits, a position never has two exits that
\* could still be approved or executed (the guard of _loop_exit), whatever is
\* upserted again and retargeted meanwhile.
OneStandingExit == ~cli => \A i \in Ids : Cardinality(Standing(i)) <= 1

\* What the wallet holds in a market is covered by an entry position that the
\* program still counts, also after partial sales and sales that died.
HoldingsAreCounted ==
  \A m \in Markets : shares[m] > 0 =>
    \E i \in OpenIds : pos[i].market = m /\ ~pos[i].exit /\ shares[m] <= pos[i].size

Closing(i) == \E c \in Content : /\ c.reason \in {"expiry", "resolved"}
                                 /\ c = ExitContent(i, Deterministic(i))
                                 /\ prop[c].status # "none"
Stuck(i) == \E c \in Standing(i) : prop[c].status = "refused"
Crowded(i) == Cardinality({j \in OpenIds : j > i}) >= MaxExits

\* A position whose market is about to end is offered for a full exit, unless
\* it is settled first, its price keeps the take-profit rule in front, the
\* catalyst deadline has passed (whose "hold" hides the expiry rule), an exit of
\* it has failed or was rejected (which blocks the next for ever), or newer
\* positions take all the places of a tick.
ExpiringIsOffered ==
  \A i \in 1 .. MaxPositions :
    (i \in Ids /\ i \in OpenIds /\ pos[i].market \in expiring \ lapsed)
      ~> (\/ i \notin OpenIds \/ Closing(i) \/ Stuck(i) \/ Crowded(i)
          \/ level[pos[i].market] > 0)

=============================================================================
