------------------------------ MODULE RiskGate ------------------------------
(***************************************************************************)
(* What may reach the exchange: the caps of the portfolio, the rules that  *)
(* authorize without a human, the kill switches, and the guards of the     *)
(* executor.  An assessor (the propose loop's sweep or the risk-engine     *)
(* command) reads the store, thinks, and writes its verdict; the executor  *)
(* reads what was authorized, checks, posts and records.  Each has its own *)
(* connection: SQLite admits one writer, from its first write to its       *)
(* commit, and the others read what was last committed.                    *)
(***************************************************************************)
EXTENDS Integers, FiniteSets, FiniteSetsExt, SequencesExt

CONSTANTS
  Proposals,
  Of,            \* [kind, market, outcome, topic, cluster, strategy, tier, size]
  Rules,         \* authorization rules the operator may create
  Switches,      \* kill switches the operator may set: [scope, key]
  Executors,     \* processes that run execute_record: the poly-executor command
  Autopilot,     \*   and _loop_execute
  TopicLimit, ClusterLimit, StrategyDaily, PortfolioDaily,
  MaxOpen,       \* POLY_RISK_MAX_OPEN_POSITIONS
  ExposureCap,   \* portfolio_exposure_cap of the balance
  TierCap,       \* CONCURRENT_CAPS
  MaxDrawdown,   \* POLY_MAX_DRAWDOWN_USDC
  SessionMax,    \* SESSION_MAX_SPEND_USDC
  MaxEvents,     \* bound: what the operator, the markets and the clock do, and
                 \*   how often the model returns to an old content
  Nobody, NoProposal

ASSUME RiskAssumption ==
  /\ \A p \in Proposals : Of[p].kind \in {"entry", "exit"} /\ Of[p].size \in Nat
  /\ {TopicLimit, ClusterLimit, StrategyDaily, PortfolioDaily, MaxOpen,
      ExposureCap, MaxDrawdown, SessionMax, MaxEvents} \subseteq Nat
  /\ Autopilot \in Executors /\ Executors \cap {"loop", "cli"} = {}
  /\ Nobody \notin Executors \cup {"loop", "cli"}
  /\ NoProposal \notin Proposals

VARIABLES
  db,       \* the store as last committed
  draft,    \* the store as the holder of the write lock sees it
  lock,     \* who holds the write lock
  cli,      \* does somebody run commands beside the autopilot?
  todo,     \* per assessor: what its list still holds,
  hand,     \*   the proposal it has read,
  verdict,  \*   and [status, why], what it will write
  xlist,    \* per executor: what its list still holds,
  xhand,    \*   the proposal that passed the guards,
  answer,   \*   how the exchange answered its order ("none": not posted yet),
  spent,    \*   session_state of this tick,
  placed,   \*   and what this tick placed on the exchange, as answered
  leaked,   \* per switch and executor: orders posted against it since it was set
  crowded,  \* history: may be admitted past the cap (another on its way, exits, cli)
  events

assessVars == <<todo, hand, verdict>>
executeVars == <<xlist, xhand, answer, spent, placed>>
vars == <<db, draft, lock, cli, assessVars, executeVars, leaked, crowded, events>>

Assessors == {"loop", "cli"}
Queued == {"pending_approval", "approved", "authorized_for_execution"}
Status == {"none", "proposed", "risk_blocked", "executed", "failed", "rejected"}
          \cup Queued
NoVerdict == [status |-> "none", why |-> {}]

EmptyStore ==
  [status |-> [p \in Proposals |-> "none"],
   why |-> [p \in Proposals |-> {}],       \* risk_block_reasons_json
   exec |-> [p \in Proposals |-> {}],      \* whose executions of it are active
   today |-> {},                           \* executions created today
   pnl |-> [p \in Proposals |-> 0],        \* of its position
   resolved |-> {},                        \* markets with a resolution
   settled |-> {},                         \* positions settled today
   rules |-> <<>>,                         \* active rules, newest first
   switches |-> {}]                        \* active kill switches

View(c) == IF lock = c THEN draft ELSE db
MayWrite(c) == lock \in {Nobody, c}
Write(c, s) == MayWrite(c) /\ lock' = c /\ draft' = s /\ UNCHANGED db
Commit(c) == MayWrite(c) /\ lock' = Nobody /\ draft' = View(c) /\ db' = View(c)

-----------------------------------------------------------------------------
(***************************************************************************)
(* Portfolio risk: s is the store as the assessor sees it.                 *)
(***************************************************************************)
\* Active executions: a proposal and whose execution of it that is.
Orders(s) == {o \in Proposals \X Executors : o[2] \in s.exec[o[1]]}

SizeOf(O) == MapThenSumSet(LAMBDA o : Of[o[1]].size, O)

Entry(p) == Of[p].kind = "entry"
SameOutcome(p, q) ==
  Of[p].market = Of[q].market /\ Of[p].outcome = Of[q].outcome

\* _active_exposure_statuses_sql, and no market_resolutions row.
Exposed(s) ==
  {p \in Proposals : s.exec[p] # {} /\ Of[p].market \notin s.resolved}

AtRisk(s) == {o \in Orders(s) : o[1] \in Exposed(s)}

Sharing(s, p, field) == {o \in AtRisk(s) : Of[o[1]][field] = Of[p][field]}

SpentToday(s) == s.today \cap Orders(s)

\* Mutant: what was blocked before still counts.
RivalsEver(s, p) ==
  {q \in Proposals \ {p} :
     /\ Entry(q) /\ SameOutcome(p, q)
     /\ s.status[q] \in Queued \cup {"proposed", "risk_blocked"}}

\* _pending_market_outcome_entries: assessed or still waiting to be.
Rivals(s, p) ==
  {q \in Proposals \ {p} :
     Entry(q) /\ SameOutcome(p, q) /\ s.status[q] \in Queued \cup {"proposed"}}

TotalPnl(s) == MapThenSumSet(LAMBDA o : s.pnl[o[1]], Orders(s))

DrawdownBreaker(s) == TotalPnl(s) < 0 /\ -TotalPnl(s) >= MaxDrawdown

\* Mutant: the cap looks at what is open already, without the order itself.
EntryReasonsPast(s, p) ==
  {r \in {"exposure_exists", "entry_already_pending", "max_open_positions",
          "open_exposure_limit"} :
     Entry(p) /\
     CASE r = "exposure_exists" ->
            \E q \in Exposed(s) : Entry(q) /\ SameOutcome(p, q)
       [] r = "entry_already_pending" -> Rivals(s, p) # {}
       [] r = "max_open_positions" -> Cardinality(AtRisk(s)) >= MaxOpen
       [] r = "open_exposure_limit" -> SizeOf(AtRisk(s)) > ExposureCap}

\* What binds entries only.
EntryReasons(s, p) ==
  {r \in {"exposure_exists", "entry_already_pending", "max_open_positions",
          "open_exposure_limit", "tier_cap"} :
     Entry(p) /\
     CASE r = "exposure_exists" ->
            \E q \in Exposed(s) : Entry(q) /\ SameOutcome(p, q)
       [] r = "entry_already_pending" -> Rivals(s, p) # {}
       [] r = "max_open_positions" -> Cardinality(AtRisk(s)) >= MaxOpen
       [] r = "open_exposure_limit" ->
            SizeOf(AtRisk(s)) + Of[p].size > ExposureCap
       [] r = "tier_cap" ->
            /\ Of[p].tier \in DOMAIN TierCap
            /\ Cardinality(Sharing(s, p, "tier")) >= TierCap[Of[p].tier]}

\* What binds exits as well.
CommonReasons(s, p) ==
  {r \in {"drawdown_breaker", "topic_limit", "cluster_limit",
          "strategy_daily_limit", "portfolio_daily_limit"} :
     CASE r = "drawdown_breaker" -> DrawdownBreaker(s)
       [] r = "topic_limit" ->
            SizeOf(Sharing(s, p, "topic")) + Of[p].size > TopicLimit
       [] r = "cluster_limit" ->
            SizeOf(Sharing(s, p, "cluster")) + Of[p].size > ClusterLimit
       [] r = "strategy_daily_limit" ->
            SizeOf({o \in SpentToday(s) : Of[o[1]].strategy = Of[p].strategy})
              + Of[p].size > StrategyDaily
       [] r = "portfolio_daily_limit" ->
            SizeOf(SpentToday(s)) + Of[p].size > PortfolioDaily}

PortfolioReasons(s, p) == EntryReasons(s, p) \cup CommonReasons(s, p)

-----------------------------------------------------------------------------
(***************************************************************************)
(* Authorization: the newest rule that matches decides, also when all it   *)
(* says is that its limit is reached.                                      *)
(***************************************************************************)
\* A field that the rule leaves open ("any") matches whatever the proposal has.
Matches(r, p) ==
  /\ \A f \in {"strategy", "topic", "cluster"} : r[f] \in {"any", Of[p][f]}
  /\ Of[p].size <= r.maxOrder

OfStrategy(r, p) ==
  LET name == IF r.strategy = "any" THEN Of[p].strategy ELSE r.strategy
  IN  {o \in Proposals \X Executors : Of[o[1]].strategy = name}

LossLimitReached(s, r, p) ==
  /\ r.maxLoss > 0
  /\ MapThenSumSet(LAMBDA o : -s.pnl[o[1]],
                   {o \in s.settled \cap OfStrategy(r, p) : s.pnl[o[1]] < 0})
       >= r.maxLoss

PositionLimitReached(s, r, p) ==
  /\ r.maxOpen > 0
  /\ Cardinality(AtRisk(s) \cap OfStrategy(r, p)) >= r.maxOpen

Authorization(s, p) ==
  LET matching == SelectSeq(s.rules, LAMBDA r : Matches(r, p))
      r == Head(matching)
  IN  CASE matching = <<>> -> "none"
        [] matching # <<>> /\ (LossLimitReached(s, r, p) \/ PositionLimitReached(s, r, p))
             -> "limit_reached"
        [] OTHER -> IF r.auto /\ Of[p].size <= r.humanAbove
                    THEN "matched_auto_execute" ELSE "matched_manual_only"

\* evaluate_full_record; "fit" is the outcome of evaluate_proposal, which looks
\* at the proposal, its market and the prices of the moment.
Verdict(s, p, fit) ==
  LET authorization == Authorization(s, p)
      why == IF ~fit THEN {"single_risk"}
             ELSE IF PortfolioReasons(s, p) # {} THEN PortfolioReasons(s, p)
             ELSE {authorization} \cap {"limit_reached"}
  IN  [why |-> why,
       status |-> IF why # {} THEN "risk_blocked"
                  ELSE IF authorization = "matched_auto_execute"
                  THEN "authorized_for_execution" ELSE "pending_approval"]

-----------------------------------------------------------------------------
(***************************************************************************)
(* The assessors: _sweep_proposed_records and the risk-engine command.     *)
(***************************************************************************)
Covers(k, p) == k.scope = "global" \/ Of[p][k.scope] = k.key
GloballyKilled(s) == \E k \in s.switches : k.scope = "global"

Idle(a) == todo[a] = {} /\ hand[a] = NoProposal

\* The loop lists what is proposed; the command is given a file of proposals,
\* whatever their status.
StartSweep(a) ==
  /\ Idle(a) /\ lock # a
  /\ IF a = "loop"
     THEN /\ ~GloballyKilled(db)
          /\ todo' = [todo EXCEPT ![a] =
                        {p \in Proposals : db.status[p] = "proposed"}]
     ELSE /\ cli /\ events < MaxEvents
          /\ \E S \in SUBSET {p \in Proposals : db.status[p] # "none"} :
               todo' = [todo EXCEPT ![a] = S]
  /\ todo' # todo
  /\ events' = IF a = "cli" THEN events + 1 ELSE events
  /\ UNCHANGED <<db, draft, lock, cli, hand, verdict, executeVars, leaked, crowded>>

\* run_proposal_pipeline returns new proposals and old ones whose content recurs,
\* and _loop_propose assesses each of them, whatever its status, before it lists
\* what is proposed again.
AssessReturned ==
  /\ Idle("loop") /\ lock # "loop" /\ events < MaxEvents
  /\ \E S \in SUBSET {p \in Proposals : db.status[p] # "none"} :
       todo' = [todo EXCEPT !["loop"] = S]
  /\ todo' # todo
  /\ events' = events + 1
  /\ UNCHANGED <<db, draft, lock, cli, hand, verdict, executeVars, leaked, crowded>>

\* Before that, the pipeline has what the supervisor says of the proposal written
\* by update_proposal_workflow_fields, with the status that is read first.
ReadBack(p) ==
  /\ Idle("loop") /\ lock # "loop" /\ db.status[p] # "none"
  /\ events < MaxEvents /\ events' = events + 1
  /\ hand' = [hand EXCEPT !["loop"] = p]
  /\ verdict' = [verdict EXCEPT !["loop"] = [status |-> db.status[p], why |-> {}]]
  /\ UNCHANGED <<db, draft, lock, cli, todo, executeVars, leaked, crowded>>

\* Authorized, as the assessor or the executors see it, or in an executor's list.
OnItsWay(a) ==
  {q \in Proposals :
     \/ View(a).status[q] \in Queued \/ db.status[q] \in Queued
     \/ \E x \in Executors : q \in xlist[x] \/ xhand[x] = q}

\* proposal_record and evaluate_full_record, with their calls to the network.
Evaluate(a, p) ==
  /\ hand[a] = NoProposal /\ p \in todo[a]
  /\ todo' = [todo EXCEPT ![a] = @ \ {p}]
  /\ hand' = [hand EXCEPT ![a] = p]
  /\ \E fit \in BOOLEAN :
       verdict' = [verdict EXCEPT ![a] = Verdict(View(a), p, fit)]
  /\ crowded' = (crowded \/ (/\ verdict'[a].status # "risk_blocked"
                           /\ (~Entry(p) \/ ~(OnItsWay(a) \subseteq {p}))))
  /\ UNCHANGED <<db, draft, lock, cli, executeVars, leaked, events>>

\* _persist_risk_decision keeps the old reasons when there are none to save.
Decide(a) ==
  LET p == hand[a]
      v == verdict[a]
      s == View(a)
  IN  /\ p # NoProposal
      /\ Write(a, [s EXCEPT !.status[p] = v.status,
                            !.why[p] = IF v.why = {} THEN @ ELSE v.why])
      /\ hand' = [hand EXCEPT ![a] = NoProposal]
      /\ verdict' = [verdict EXCEPT ![a] = NoVerdict]
      /\ UNCHANGED <<cli, todo, executeVars, leaked, crowded, events>>

\* The wait for the lock runs out: the loop goes on to the next proposal, the
\* command ends with an error.
DecideTimesOut(a) ==
  /\ hand[a] # NoProposal /\ ~MayWrite(a)
  /\ hand' = [hand EXCEPT ![a] = NoProposal]
  /\ verdict' = [verdict EXCEPT ![a] = NoVerdict]
  /\ todo' = IF a = "cli" THEN [todo EXCEPT ![a] = {}] ELSE todo
  /\ UNCHANGED <<db, draft, lock, cli, executeVars, leaked, crowded, events>>

EndSweep(a) ==
  /\ Idle(a) /\ lock = a
  /\ Commit(a)
  /\ UNCHANGED <<cli, assessVars, executeVars, leaked, crowded, events>>
-----------------------------------------------------------------------------
(***************************************************************************)
(* The executors: _loop_execute and the poly-executor command.             *)
(***************************************************************************)
Resting(x) == xlist[x] = {} /\ xhand[x] = NoProposal

\* The supervisor looks for a global switch first, the command does not; it is
\* given a file of proposals.
StartExecute(x) ==
  /\ Resting(x) /\ lock # x /\ spent[x] = 0
  /\ \/ /\ x = Autopilot /\ ~GloballyKilled(db)
        /\ xlist' = [xlist EXCEPT ![x] =
                       {p \in Proposals : db.status[p] = "authorized_for_execution"}]
        /\ UNCHANGED events
     \/ /\ x # Autopilot /\ cli /\ events < MaxEvents
        /\ \E S \in SUBSET {p \in Proposals : db.status[p] \in
                             {"approved", "authorized_for_execution"}} :
             xlist' = [xlist EXCEPT ![x] = S]
        /\ events' = events + 1
  /\ xlist' # xlist
  /\ UNCHANGED <<db, draft, lock, cli, assessVars, xhand, answer, spent, placed,
                 leaked, crowded>>

\* Mutants: what _tick checks is not checked again; a second entry may follow.
GuardsPassWithoutGlobal(x, p) ==
  LET s == View(x)
  IN  /\ ~\E k \in s.switches : k.scope # "global" /\ Covers(k, p)
      /\ s.exec[p] = {}
      /\ ~(Entry(p) /\ \E q \in Exposed(s) \ {p} : Entry(q) /\ SameOutcome(p, q))
      /\ spent[x] + Of[p].size <= SessionMax

GuardsPassTwice(x, p) ==
  LET s == View(x)
  IN  /\ ~\E k \in s.switches : Covers(k, p)
      /\ s.exec[p] = {}
      /\ spent[x] + Of[p].size <= SessionMax

\* check_kill_switch, has_active_execution, has_active_market_outcome_exposure
\* and the cap of the session.
GuardsPass(x, p) ==
  LET s == View(x)
  IN  /\ ~\E k \in s.switches : Covers(k, p)
      /\ s.exec[p] = {}
      /\ ~(Entry(p) /\ \E q \in Exposed(s) \ {p} : Entry(q) /\ SameOutcome(p, q))
      /\ spent[x] + Of[p].size <= SessionMax

PassGuards(x, p) ==
  /\ xhand[x] = NoProposal /\ p \in xlist[x]
  /\ GuardsPass(x, p)
  /\ xlist' = [xlist EXCEPT ![x] = @ \ {p}]
  /\ xhand' = [xhand EXCEPT ![x] = p]
  /\ UNCHANGED <<db, draft, lock, cli, assessVars, answer, spent, placed, leaked,
                 crowded, events>>

\* record_execution of a failed one, which stays uncommitted.
Failed(s, p) == IF s.status[p] = "executed" THEN s ELSE [s EXCEPT !.status[p] = "failed"]

\* A guard, the preflight or the price says no: recorded as a failed execution.
Refuse(x, p) ==
  /\ xhand[x] = NoProposal /\ p \in xlist[x]
  /\ Write(x, Failed(View(x), p))
  /\ xlist' = [xlist EXCEPT ![x] = @ \ {p}]
  /\ UNCHANGED <<cli, assessVars, xhand, answer, spent, placed, leaked, crowded,
                 events>>

\* Mutant: only an answer at the first attempt is charged to the session.
ChargedFirst(x, how) == IF how = "accepted" THEN Of[xhand[x]].size ELSE 0

\* What execute_record adds to session_state.
Charged(x, how) ==
  IF how \in {"accepted", "recovered"} THEN Of[xhand[x]].size ELSE 0

\* post_order; "recovered" is an order whose answer was lost and which
\* get_order finds.
Post(x, how) ==
  LET p == xhand[x]
  IN  /\ p # NoProposal /\ answer[x] = "none"
      /\ answer' = [answer EXCEPT ![x] = IF how = "rejected" THEN how ELSE "placed"]
      /\ spent' = [spent EXCEPT ![x] = @ + Charged(x, how)]
      /\ placed' = [placed EXCEPT ![x] =
                      @ + IF how \in {"accepted", "recovered"} THEN Of[p].size ELSE 0]
      /\ leaked' = [k \in Switches |-> [leaked[k] EXCEPT
                      ![x] = @ + IF k \in db.switches /\ Covers(k, p) THEN 1 ELSE 0]]
      /\ UNCHANGED <<db, draft, lock, cli, assessVars, xlist, xhand, crowded, events>>

\* record_execution commits what is placed at once; the event it writes next
\* opens another transaction, if the lock is free in time.
Record(x) ==
  LET p == xhand[x]
      s == View(x)
  IN  /\ \/ /\ answer[x] = "placed" /\ MayWrite(x)
            /\ db' = [s EXCEPT !.status[p] = "executed", !.exec[p] = @ \cup {x},
                               !.today = @ \cup {<<p, x>>}]
            /\ draft' = db' /\ lock' \in {x, Nobody}
         \/ answer[x] = "rejected" /\ Write(x, Failed(s, p))
      /\ xhand' = [xhand EXCEPT ![x] = NoProposal]
      /\ answer' = [answer EXCEPT ![x] = "none"]
      /\ UNCHANGED <<cli, assessVars, xlist, spent, placed, leaked, crowded, events>>

\* The wait for the lock runs out and the loop goes on: nothing is recorded.
RecordTimesOut(x) ==
  /\ answer[x] # "none" /\ ~MayWrite(x)
  /\ xhand' = [xhand EXCEPT ![x] = NoProposal]
  /\ answer' = [answer EXCEPT ![x] = "none"]
  /\ UNCHANGED <<db, draft, lock, cli, assessVars, xlist, spent, placed, leaked,
                 crowded, events>>

EndExecute(x) ==
  /\ Resting(x)
  /\ \/ lock = x /\ Commit(x)
     \/ lock # x /\ spent[x] > 0 /\ UNCHANGED <<db, draft, lock>>
  /\ spent' = [spent EXCEPT ![x] = 0]
  /\ placed' = [placed EXCEPT ![x] = 0]
  /\ UNCHANGED <<cli, assessVars, xlist, xhand, answer, leaked, crowded, events>>

-----------------------------------------------------------------------------
(***************************************************************************)
(* Other writers, each with a transaction of its own.                      *)
(***************************************************************************)
Other(s) ==
  /\ lock = Nobody
  /\ db' = s /\ draft' = s
  /\ UNCHANGED <<lock, cli, assessVars, executeVars, crowded>>

Event(s) == /\ events < MaxEvents /\ events' = events + 1 /\ Other(s)

\* upsert_proposal by the pipeline, the exit loop or the alpha import.
Insert(p) ==
  /\ db.status[p] = "none"
  /\ Other([db EXCEPT !.status[p] = "proposed"])
  /\ UNCHANGED <<leaked, events>>

\* The approver answers, or the expiry loop finds that nobody did: for what is
\* checked here that is a rejection.
Close(p) ==
  /\ db.status[p] = "pending_approval"
  /\ \E d \in {"approved", "rejected"} :
       Other([db EXCEPT !.status[p] = d])
  /\ UNCHANGED <<leaked, events>>

Promote(p) ==
  /\ db.status[p] = "approved"
  /\ Other([db EXCEPT !.status[p] = "authorized_for_execution"])
  /\ UNCHANGED <<leaked, events>>

SetKillSwitch(k) ==
  /\ k \notin db.switches
  /\ Event([db EXCEPT !.switches = @ \cup {k}])
  /\ leaked' = [leaked EXCEPT ![k] = [x \in Executors |-> 0]]

ReleaseKillSwitch(k) ==
  /\ k \in db.switches
  /\ Other([db EXCEPT !.switches = @ \ {k}])
  /\ UNCHANGED <<leaked, events>>

CreateAuthorization(r) ==
  /\ r \notin ToSet(db.rules)
  /\ Event([db EXCEPT !.rules = <<r>> \o @])
  /\ UNCHANGED leaked

\* valid_until passes.
AuthorizationLapses(r) ==
  /\ r \in ToSet(db.rules)
  /\ Other([db EXCEPT !.rules = SelectSeq(@, LAMBDA o : o # r)])
  /\ UNCHANGED <<leaked, events>>

\* The reconcile loop: an order dies unfilled, a price moves, a market settles.
OrderDies(p) ==
  /\ p \in Exposed(db)
  /\ \E x \in db.exec[p] :
       Event([db EXCEPT !.exec[p] = @ \ {x},
                        !.pnl[p] = IF db.exec[p] = {x} THEN 0 ELSE @])
  /\ UNCHANGED leaked

Mark(p) ==
  /\ p \in Exposed(db)
  /\ \E v \in {-Of[p].size, 0} \ {db.pnl[p]} : Event([db EXCEPT !.pnl[p] = v])
  /\ UNCHANGED leaked

ResolveMarket(m) ==
  /\ m \notin db.resolved
  /\ LET held == {p \in Exposed(db) : Of[p].market = m}
     IN  \E won \in SUBSET held :
           Event([db EXCEPT !.resolved = @ \cup {m},
                            !.settled = @ \cup {o \in Orders(db) : o[1] \in held},
                            !.pnl = [p \in Proposals |->
                                       CASE p \in won -> Of[p].size
                                         [] p \in held \ won -> -Of[p].size
                                         [] OTHER -> db.pnl[p]]])
  /\ UNCHANGED leaked

NewDay ==
  /\ db.today \cup db.settled # {}
  /\ Event([db EXCEPT !.today = {}, !.settled = {}])
  /\ UNCHANGED leaked

-----------------------------------------------------------------------------
Init ==
  /\ db = EmptyStore /\ draft = EmptyStore /\ lock = Nobody
  /\ cli \in BOOLEAN
  /\ todo = [a \in Assessors |-> {}]
  /\ hand = [a \in Assessors |-> NoProposal]
  /\ verdict = [a \in Assessors |-> NoVerdict]
  /\ xlist = [x \in Executors |-> {}]
  /\ xhand = [x \in Executors |-> NoProposal]
  /\ answer = [x \in Executors |-> "none"]
  /\ spent = [x \in Executors |-> 0] /\ placed = [x \in Executors |-> 0]
  /\ leaked = [k \in Switches |-> [x \in Executors |-> 0]]
  /\ crowded = cli /\ events = 0

AssessStep(a) ==
  \/ StartSweep(a) \/ Decide(a) \/ DecideTimesOut(a) \/ EndSweep(a)
  \/ \E p \in Proposals : Evaluate(a, p)

ReturnStep == AssessReturned \/ \E p \in Proposals : ReadBack(p)

ExecuteStep(x) ==
  \/ StartExecute(x) \/ Record(x) \/ RecordTimesOut(x) \/ EndExecute(x)
  \/ \E p \in Proposals : PassGuards(x, p) \/ Refuse(x, p)
  \/ \E how \in {"accepted", "recovered", "rejected"} : Post(x, how)

OtherStep ==
  \/ \E p \in Proposals :
       Insert(p) \/ Close(p) \/ Promote(p) \/ OrderDies(p) \/ Mark(p)
  \/ \E k \in Switches : SetKillSwitch(k) \/ ReleaseKillSwitch(k)
  \/ \E r \in Rules : CreateAuthorization(r) \/ AuthorizationLapses(r)
  \/ \E p \in Proposals : ResolveMarket(Of[p].market)
  \/ NewDay

Next ==
  \/ \E a \in Assessors : AssessStep(a)
  \/ ReturnStep
  \/ \E x \in Executors : ExecuteStep(x)
  \/ OtherStep

Spec == Init /\ [][Next]_vars

-----------------------------------------------------------------------------
\* Whatever the assessors have authorized, and however many executors there
\* are, none places an order for an outcome for which its own order for another
\* proposal is still active: two for one outcome are of two executors
\* (has_active_market_outcome_exposure).
OneEntryPerOutcome ==
  \A p, q \in Exposed(draft) :
    /\ p # q /\ Entry(p) /\ Entry(q) /\ SameOutcome(p, q)
    => draft.exec[p] \cap draft.exec[q] = {}

\* Proposals for one outcome that wait together do not all block each other:
\* as long as one assessor works, the last one it looks at gets through
\* (_pending_market_outcome_entries counts what is still to be assessed).
RivalsDontAllYield ==
  ~cli => \A p \in Proposals :
    LET rivals == {q \in Proposals : Entry(q) /\ SameOutcome(p, q)}
    IN  rivals # {} => \E q \in rivals :
          ~(/\ draft.status[q] = "risk_blocked"
            /\ draft.why[q] = {"entry_already_pending"})

\* Each executor posts at most one order against a kill switch that is set:
\* the one that had passed check_kill_switch when it was set.
KillSwitchLeaksOnce ==
  \A k \in Switches, x \in Executors : leaked[k][x] <= 1

\* What one tick places on the exchange, as far as it was answered, stays
\* within SESSION_MAX_SPEND_USDC, also when an answer had to be recovered.
TickWithinSession == \A x \in Executors : placed[x] <= SessionMax

\* Open exposure passes the cap only after something was admitted while
\* another proposal was on its way, authorized or in the executor's hands (the
\* caps count executions only), or after an exit (to which the cap does not
\* apply but whose order counts), or beside somebody's commands.  A proposal
\* whose content recurs may be assessed and admitted again at any time.
CapHoldsUncrowded ==
  ~crowded => SizeOf(AtRisk(draft)) <= ExposureCap

\* ARCHITECTURE.md:87: "portfolio_open_exposure_limit (70% of balance)".
OpenExposureWithinCap == SizeOf(AtRisk(db)) <= ExposureCap
=============================================================================
