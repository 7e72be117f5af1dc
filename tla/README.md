# A TLA+ development of PolyTradingUltra (`polymarket_mvp`)

PolyTradingUltra trades prediction markets from one SQLite file: eight loops scan, research, propose, check,
execute, reconcile, exit and review, each in its own thread with its own connection. This directory models the
parts of that program whose correctness depends on the order of events, checks them with TLC on small instances
and proves the central results with TLAPS for every value of the constants. Paths below are relative to the
repository; `pkg/` stands for `src/polymarket_mvp/`.

## 1. The system

### Parts, the state they keep, and what makes them correct

| Part | Code | State | Operations | Correct when |
|---|---|---|---|---|
| Loop supervisor | `pkg/autopilot.py` | last run per loop, heartbeats | `_tick` of eight loops; sequential (systemd timer) or one thread per loop | a failing loop ends its tick and nothing else; a restart resumes |
| State store | `pkg/db.py`, `schema.sql` | proposals, approvals, executions, positions, resolutions, ... | upserts, status updates, listings; one writer at a time (`BEGIN IMMEDIATE`, WAL) | rows stay consistent across the transactions that write them |
| Proposer | `pkg/proposer.py`, `pkg/strategy/`, `pkg/agents/` | proposals (status `proposed`), contexts | run the model or the heuristic, upsert by content hash | a proposal is one row, whatever produced it |
| Risk engine | `pkg/risk_engine.py`, `pkg/services/portfolio_risk_service.py`, `pkg/services/authorization_service.py` | authorization rules; otherwise reads executions and proposals | `evaluate_full_record` decides blocked, pending or authorized | exposure caps hold; rivals for one outcome neither all pass nor all block |
| Approvals | `pkg/db.py`, external Telegram approver | approvals, expiry times | approve, reject, expire | nothing unapproved is executed |
| Execute loop | `pkg/autopilot.py`, `pkg/poly_executor.py` | open transaction, session spend | list authorized, guard, post, look up, record | one order per proposal and exposure; every order on the exchange has a row |
| Reconcile loop | `pkg/services/reconciler.py`, `pkg/services/position_manager.py` | lists in memory | repair, cancel stale, update live, backfill resolutions, sync, mark | rows follow the exchange; held tokens are counted and settled |
| Redeemer | `pkg/services/redeemer.py` | `redeemed_at` of positions, transactions on the chain | send the claim transaction, stamp | a stamp names a payment, a payment leaves a stamp |
| Exit loop | `pkg/agents/exit_agent.py`, `pkg/run_exit_agent.py` | exit proposals | propose a sell for a held position | one exit in flight per position, and a position about to expire is offered |
| Kill switches | `pkg/services/kill_switch_service.py` | switch rows | set, release, check | no order while a switch is on, but for one under way |
| LLM adapter | `pkg/services/openclaw_adapter.py` | cooldown per transport, last metadata | call, fall back, record a rate limit | a cooldown escalates with calls only, and ends |
| Scanner | `pkg/poly_scanner.py` | `market_snapshots`, shared with proposer and collector | page, filter, store | what stays listed is stored as it is |
| Paid adapters | `pkg/event_fetcher.py`, `pkg/services/odds_divergence_signal.py` | calls per provider and day | check, send, count | the daily cap holds |
| Smart-money collector | `pkg/services/smartmoney_signal.py` | cursor per wallet, signal rows | fetch, filter, record, advance | every trade recorded once |
| Alpha import | `pkg/alpha_signal_importer.py` | source marks, proposals | import, expire, mark | a signal that is ready gets through |
| Sizing | `pkg/strategy/conviction.py`, `pkg/proposer.py` | none | tier, floor, book, liquidity, price | the steps do not undo each other |
| Migrations | `pkg/migrations/`, `pkg/db.py` | applied names, the schema itself | apply pending scripts | what is marked applied is complete |
| Signals, reports | `pkg/services/clubelo_signal.py`, `pkg/trade_review.py`, `pkg/ops_snapshot.py`, ... | descriptive rows | fetch, score, upsert, print | data in and out, no protocol |

The parts meet in the database. The proposer writes `proposed`; the propose loop turns it into `risk_blocked`,
`pending_approval` or `authorized_for_execution`; the execute loop lists the authorized ones and writes
`executions`; the reconcile loop lists open executions and held positions, asks the exchange (CLOB) and Gamma,
and writes both tables; the exit loop reads held positions and writes new proposals. There are no locks in
memory: two threads share nothing but SQLite, whose write lock a loop takes with its first write and keeps until
its next commit.

### What is hard

* An execute tick is not a transaction. An order exists on the exchange before its row does, a row before its
  position does, and failed rows of a tick wait for the commit of a later success.
* Both loops act on lists made earlier and on rows read outside a transaction.
* The exchange answers late, not at all, or with a status that is old by the time it is written.
* The process may die between any two steps, and the systemd deployment restarts it every few minutes.
* A proposal's status is overwritten blindly by whoever evaluated it last.
* Limits (caps, session spend, daily budgets, cooldowns) are read in one transaction and relied on in a later
  one.
* Several programs may run beside the autopilot: the risk-engine, exit, event-fetcher and collector commands,
  and whatever calls `init_db` first.

`PROJECT.json` lists each hazard at its line, with the properties that address it.

## 2. The modules

| Module | What it is |
|---|---|
| `OrderLifecycle` | the execute loop, the reconcile loop, the rows they share, the exchange, crashes |
| `ExecutionLedger` | the abstract specification of the executions table |
| `OrderLifecycleInv` | the inductive invariant of `OrderLifecycle` |
| `OrderLifecycleProofs` | theorems and proofs |
| `ProposalFlow` | the status of proposals, the propose, expiry and execute loops that write it, SQLite's write lock, the approver |
| `ProposalFlowInv`, `ProposalFlowProofs` | its inductive invariant; theorems and proofs |
| `RiskGate` | caps, rules, kill switches, the assessors and the executor's guards, over several proposals |
| `ExitLoop` | the exit loop and command, what becomes of an exit, its sell order |
| `LlmGate` | the model adapter under the threads that share it |
| `MarketBoard` | the market table and its three writers |
| `AdapterBudget` | the daily budgets of the paid adapters |
| `Redeemer` | redemption, the wallet's nonces, the chain |
| `Migrations` | `init_db`: schema and scripts, statement by statement |
| `CopyCollector` | a collector's pass over one wallet |
| `AlphaImport` | a run of the signal import |
| `Sizing` | tiers, sizes and the price of an order |
| `RiskGateProofs`, `ExitLoopProofs`, `LlmGateProofs`, `AdapterBudgetProofs`, `RedeemerProofs` | inductive invariants of these modules, theorems and proofs |
| `MCOrderLifecycle`, `MCProposalFlow`, `MCRiskGate`, `MCExitLoop`, `MCLlmGate` | constants for TLC |
| `Background` | the seven jobs side by side: one instance of each, constants of their own |
| `BackgroundProofs` | what each job guarantees there; theorems and proofs |
| `MCBackground` | constants for TLC |

### OrderLifecycle

One member of `Execs` is one attempt to place an order, a row id of `executions`. The variables are in four
groups. *Database*: the status of each proposal (`prop`; `proposed` stands for every status before
authorization), and per attempt the proposal it was made for, the status and recorded fill of its execution, the
status of its position and whether realized profit has been computed; per market whether a resolution is
recorded and whether a shadow row names it (real mode writes one before every order). *Exchange and clock*: the
order as the exchange sees it, how much of it is matched, whether the market has closed, whether the order's ttl
has run out. *Execute loop*: a program counter, the list of the tick, the attempt in hand with the status and
fill it is about to record, and what its open transaction has written (`xfail`, `xpos`, `locked`). *Reconcile
loop*: a program counter, the list it walks, the row in hand, what it saw of the order, the markets to look up.

A step is what happens between two points at which another actor can act: a database statement or transaction, a
call to the exchange, an answer.

| Actions | Code |
|---|---|
| `ListAuthorized`, `RefuseBeforePost`, `PassGuards` | `_loop_execute`, the guards of `execute_record` |
| `PostOrder`, `PostRejected`, `OrderSnapshot`, `LoseAnswer` | `create_order`/`post_order`, the answer, the look-up that follows, the recovery path |
| `WriteShadow`, a part of `PassGuards` and of `RefuseBeforePost` | `create_shadow_execution`, committed on a connection of its own; its failure is ignored |
| `RecordFailed`, `RecordActive`, `SyncRead`, `SyncWrite`, `SyncFails` | `record_execution`: insert, commit for an active row, position sync, the swallowed error |
| `LoseRefusal`, `LoseRecord` | `record_execution` raises on the write lock, before or after the post, and `_loop_execute` goes on |
| `EndExecuteTick` | the commit of `_loop_worker` |
| `RepairPositions` | `cancel_orphaned_positions`, `assert_position_consistency`, commit |
| `ListStale`, `CancelOrder`, `WriteOffStale` | `cancel_stale_orders` |
| `ListLive`, `GetOrder`, `UpdateExecution` | `reconcile_live_orders`, `update_execution` with its position sync |
| `ListMarkets`, `BackfillResolution` | `check_and_backfill_resolutions`: the markets of held positions, and those with a shadow row and no resolution |
| `SyncAndMark` | `sync_all_positions` and `update_position_marks`, one transaction |
| `AbortReconcile`, `Crash` | an exception caught by `_tick`; the process dies |
| `MatchOrder`, `InvalidateOrder`, `CloseMarket`, `LapseTtl`, `Authorize` | the exchange, the market, the clock, the propose loop |

Abstractions. Money is counted in fill units `0..Full`, and 0 also stands for SQL NULL (the code treats the two
alike wherever it tests a fill). A market of the model is a (market, outcome) pair. The kill switch, balance,
session spend, preflight, price and slippage checks, which read nothing this module keeps, are one
nondeterministic refusal (`RiskGate` has the kill switch and the session spend, `Sizing` the slippage). Sell
orders are in `ExitLoop`. An accepted answer always carries an order id, the payout of a recorded resolution is
always known, and there is one executor and one reconciler. Faults (`crash`, `abort` of a tick or of a position
sync, `lost_response`, `cancel_error`, `net_error`, a `lock_timeout` of `record_execution`, an `odd_status` the
code does not know, which counts as failed) are injected by the environment, each run naming which kinds it
allows and how many (`Faults`, `MaxFaults`).

`Mutant` operators stand before the definitions they would replace: each is a plausible mistake in that piece of
code, and each property of the passing runs fails for one of them. No specification uses them.

### ExecutionLedger

What the executions table promises the rest of the program, without loops, transactions, exchange or crashes: an
entry is written once, an open entry closes as filled or failed and never changes again, and no proposal and no
unreleased pair has two standing entries. One commit may write several failed entries and at most one standing
one. `OrderLifecycle` implements it under the mapping in `Ledger`: an entry is a row (submitted and live are
both `open`), its holder the owner of a written row, and a pair is released when its resolution is recorded.

### ProposalFlow

A row of `proposals` is its status and whether an approval deadline is stored. `row` is the table as last
committed, `draft` as the holder of the write lock (`writer`) sees it; `Put` writes within a loop's transaction,
`PutAndCommit` and `Commit` end it, `TimesOut` is the busy timeout of a loop that waits. `Seen` is what a
connection reads: its own uncommitted rows, or else the committed ones. The propose loop is in one of the phases
`sweep`, `model`, `pipe`, `assess`, `resweep` (`ppc`) and, within them, picks a proposal, reads its row back and
writes it (`pstep`), because `update_proposal_workflow_fields` reads before it takes the lock. `granted` is a
history variable.

| Actions | Code |
|---|---|
| `StartSweep`, `SweepAgain` | `_sweep_proposed_records` |
| `Assess`, `ReadBack`, `WriteBack` | `evaluate_full_record` with `_persist_risk_decision`; the read and the write of `update_proposal_workflow_fields` |
| `CallModel`, `ModelAnswers`, `Upsert`, `AssessBatch`, `EndProposeTick`, `ProposeTimesOut` | `_loop_propose`, `run_proposal_pipeline`, `upsert_proposal` |
| `ListExpired`, `Expire`, `ExpiryTimesOut` | `_loop_expiry`, `update_proposal_status` |
| `ListAuthorized`, `Refuse`, `PassGuards`, `PostRejected`, `PostOrder`, `RecordOrder`, `ExecuteTimesOut`, `EndExecuteTick` | `_loop_execute`, with `execute_record` and `record_execution` seen from the proposal's side (`OrderLifecycle` has the rest) |
| `Insert`, `Answer` | `upsert_proposal` by the exit loop or an import; `record_approval`, which looks at neither the status nor the deadline |
| `Ask`, `Click`, `Promote`, `PassDeadline`, `OrderFails`, `Crash` | the approver (external: it takes an answer for a row it sees pending, one at a time per message, and records it when the lock is free), the clock, the reconcile loop, the death of the process |

Abstractions. A verdict is a nondeterministic choice: `evaluate_full_record` looks at the market, at sums over
other rows and at the rules, never at the row's own status. A listing is one step. Commits within the pipeline
that touch other tables are left out. `Regenerate` says whether the pipeline may return a content it returned
before, as the heuristic engine does when the price has not moved. Shadow auto-approval is left out, and the
kill switch is in `RiskGate`.

### RiskGate

The store is one record (`db`, and `draft` as the holder of the write lock sees it): per proposal its status,
block reasons, execution, profit; the rules, newest first; the kill switches. An assessor is the propose loop's
sweep or the risk-engine command; it lists, evaluates against what its connection sees, and writes its verdict
later, or gives up waiting for the lock. An executor, the autopilot's or the poly-executor command, lists the
authorized, passes `check_kill_switch`, `has_active_execution`, `has_active_market_outcome_exposure` and the
session cap, posts and records.

| Actions | Code |
|---|---|
| `AssessReturned`, `ReadBack` | `_loop_propose` assesses whatever the pipeline returned, whatever its status; `update_proposal_workflow_fields` in the pipeline writes the status it read back |
| `StartSweep`, `Evaluate`, `Decide`, `DecideTimesOut`, `EndSweep` | `_sweep_proposed_records`, `risk_engine.main`, `evaluate_full_record`, `_persist_risk_decision` |
| `EntryReasons`, `CommonReasons`, `Verdict`, `Authorization` | `evaluate_portfolio_risk`, `evaluate_authorization` |
| `StartExecute`, `PassGuards`, `Refuse`, `Post`, `Record`, `RecordTimesOut`, `EndExecute` | `_loop_execute`, `execute_record`, `record_execution` |
| `SetKillSwitch`, `ReleaseKillSwitch`, `CreateAuthorization`, `AuthorizationLapses` | the operator's commands |
| `Insert`, `Close`, `Promote`, `OrderDies`, `Mark`, `ResolveMarket`, `NewDay` | the other loops, the approver, the market, the clock |

`evaluate_proposal` (one proposal, one market, the prices of the moment) is a nondeterministic `fit`. An
execution is known by its proposal and its executor. The command's file of proposals holds what is approved or
authorized when it starts; one that was approved once and has moved on is left out. `leaked` and `crowded` are
history variables; `crowded` says that some proposal was let through while another one was on its way
(authorized, or in an executor's list or hand).

### ExitLoop

A position is a row with its market, size and status, and whether it belongs to a sell. An exit proposal is
known by its content, so that the same recommendation later is the same row, retargeted. `Deterministic` is
`evaluate_position` in its order: resolved, take-profit, catalyst deadline, expiry; where it holds, the model
may answer anything. The status `dropped` stands for risk_blocked, expired and cancelled, `refused` for failed
and rejected: the guard of `_loop_exit` separates just these groups. `Consider` is one pass of the loop's body,
`RunExitAgent` the command (no guard), `PlaceSell`, `FillSell`, `SellDies`, `Settle` what the execute and
reconcile loops do.

### LlmGate

Per loop thread a call and where it stands; per transport a cooldown bucket as `_record_llm_rate_limit_hit`
escalates it; the globals `_LAST_META` and `_LAST_LLM_PROPOSE_AT`. The transport names are positions (`primary`,
`fallback`, `http`, and `default`, which the propose gate reads). `hits` is a history variable. The proposer's
cycle is a pick, a memo and a supervision, each a call of its own.

### The jobs beside the loops

`MarketBoard` keeps the exchange's list, the stored rows and their recency; the scan pages, filters and stores
row by row, the propose cycle writes back what it read before the model was called, the collector writes rows
without token ids. `AdapterBudget` reads, sends and counts in three transactions, the count on a connection of
its own that may have to wait for the caller's. `Redeemer` sends one transaction per market with the nonce of
the latest block, waits for the receipt, and commits all stamps at the end of the tick. `Migrations` runs
scripts one statement per step, of the three kinds found in `pkg/migrations`: one adds columns, one rebuilds a
table statement by statement (with or without columns that guard it from being repeated), one does it in a
transaction. What a script creates beside the columns (other tables, indexes) is left out. `CopyCollector` is
shown the newest trades only (`Window`; 25 in the code), walks those it selected, earliest first, and moves the
cursor past everything it saw, in the commit that stores the signals. `AlphaImport` walks the ready signals by
edge, counting imports only; a signal that cannot be converted (`Malformed`) raises and ends the run,
uncommitted, and so does every later run that meets it. `Sizing` is a pipeline of pure steps with the code's
constants, in tenths of a cent. An edge on a threshold may fall to either side, as a difference of floats does
(`under`), and the depth is what the first five asks of the list come to (`FitBook`), which is what the code
adds up.

## 3. The runs

The `lifecycle` runs use at most two proposals and two attempts. Two attempts are needed and enough for every
property that relates two rows; two proposals for the same outcome exercise the exposure guard, one proposal
authorized again exercises the proposal guard. `Full = 2` distinguishes none, some and all of an order. One
fault at any point already separates any two steps of a loop; two let a fault strike the recovery from another.
Proposals and attempts are interchangeable in the symmetric runs, which check no liveness.

The `flow` runs need one proposal for what a loop does to a row it read earlier (`flow_grants`, where contents
recur and the state space is largest), and two with room for one pending for what is uncommitted while another
row is written and for a pipeline that is stopped while another proposal waits (`flow_safety`). One or two
faults, a lock time-out or a crash, let each loop give up once at any point.

| Run | Question |
|---|---|
| `lifecycle_safety` | with a crash or an aborted tick, and proposals authorized again: are ledger and positions consistent at every interleaving of the loops, and does the table implement `ExecutionLedger`? |
| `lifecycle_faults` | with any two of a crash, a lost answer, a failing cancel, a lock time-out and an unknown status: does one fault lose one resting order at most, and does the invariant of the proofs hold? |
| `lifecycle_liveness` | with two faults of any kind: does every recorded order close, is every holding counted and settled, and does a restart alone ever offer the proposal of an active execution again? |
| `flow_grants` | when contents recur, is there ever an order without an authorization? |
| `flow_safety` | when they do not: does every commit make legal transitions only and do decisions stand, except where an answer crosses the expiry of its message, does an executed proposal stay closed, and is everything proposed assessed, everything authorized tried, everything unanswered expired? |
| `risk_gate` | proposals compete for one outcome and for the caps, assessed by the sweep, after the pipeline returned them again, and by the command, against rules, kill switches and settlements: what do the caps, the order of the sweep and the executor's second look guarantee together? |
| `exit_loop` | sales recur, fill or die, the command runs beside the loop: one standing exit per position, every holding counted, every position about to expire offered? |
| `llm_gate` | two threads share the transports: does a cooldown escalate with calls only, and does it end? |
| `background` | seven jobs, one per behaviour: do caps hold, stamps match payments, marked scripts stand complete, trades count once, signals get through unless a malformed one ends every run, sizes come out as each step ensured, listed markets get stored? |
| `finding_*` | three places where the program does not do what a document says |

`risk_gate` has three entries, two of them for one outcome (interchangeable), and an exposure cap that admits
one at a time; one rule, a global and a market switch, the autopilot's executor, and one event besides: by the
operator, the market or the clock, an old content returned by the pipeline, or a run of one of the commands (so
that a second executor meets no switch here; `KillSwitchBound` covers that). Its exits are left to `exit_loop`,
which has one market, one tier of profit, two sell orders. In `llm_gate` the schedule has the code's shape (each
step longer, the window as long as the last) at the length 1, 2, 4; two threads are enough for calls that
overlap. `background` gives each job the smallest instance with two of what it races: two stored candidates and
a blocked market on pages of one, three callers of two providers and a budget of one, two markets and a nonce
that can be reused, two programs over six scripts of all kinds, two collectors over three trades of which an
answer shows two and a pass records one, two signals with one content and between them one that cannot be
converted; `Sizing` runs over edges on the thresholds, counted either way, and balances between the doublings.
The jobs share no state, so `Background` explores their state spaces side by side (`which`). `ListedIsSeen`
rests on `BoardAssumption`: the pages of a scan reach all the markets there are (500 in the code,
ARCHITECTURE.md speaks of about 200); a market beyond them is never seen.

`lifecycle_faults` counts in orders (`Full = 1`) and allows only faults that can lose one, so that its bound has
no slack; that aborted ticks and failing look-ups lose none is proved (`RestingTracked`).

The bound in `ListAuthorized` (enough row ids left for the list) only ends behaviours; deadlock checking stays
on where some loop can always take its next step (`lifecycle`, `flow`, `llm_gate`). The other runs switch it
off: their jobs may rest when nothing is proposed, held or due and the bounded events are used up.

### Findings

* **`finding_crash`**: after a crash between `post_order` and the commit of `record_execution` the restarted
  loop orders again; README.md:27 promises to pick up exactly where it left off.
* **`finding_rejected`**: `_loop_propose` assesses every proposal the pipeline returns, old ones included, and
  writes the verdict over whatever status they had; a proposal the operator rejected can so reach the exchange.
* **`finding_caps`**: the exposure cap counts executions and is asked at assessment only; two proposals that
  each fit are both executed.

Observations without a run of their own, met while modelling:

* *Orders.* A lost answer is written off as failed although the comment at `poly_executor.py:741` trusts the
  reconciler to catch it (it lists submitted and live rows only), and so is a cancel that raises twice
  (`reconciler.py:88`), and an order whose status is unknown (`poly_executor.py:223`); when `record_execution`
  cannot get the write lock after the post, the order rests without any row and the proposal is tried again; an
  order that is dead when the executor looks it up, or is written off as stale, loses the part that was matched;
  a position sync that read before a settlement and writes after it takes the settlement back until the next
  marks pass; a crash between the commit of a resolution and the marks pass resolves the position without a
  realized profit, and so, without any crash, does a market that is resolved for its shadow row while the
  position is being opened. The `with` block of the thread pool waits for `post_order` even after its timeout.
* *Proposals.* The verdict of `_loop_propose` also overwrites `executed` and `expired`; nothing in the
  repository moves an `approved` proposal on, although `README.md:169` says the executor picks it up; the
  sweep's transaction is open while the model is called (`proposer.py:709`), which the comment in `_tick` says
  was done away with; a deadline stored while the pipeline holds an older copy of the row is overwritten with
  NULL; an answer committed after the deadline may be overwritten by the expiry loop, or bring an expired
  proposal back, which the executor then refuses because its deadline has passed.
* *Caps.* A proposal that a second assessment blocks after the executor has listed it is still posted; the daily
  caps and the drawdown breaker bind exits too, and exits count as exposure; the per-class `max_daily_gross` and
  `max_open_positions` and a rule's `max_daily_gross_usdc` are never enforced; the risk-engine command
  reassesses any status; orders whose answer was lost are not charged to the session, which starts afresh in
  every tick.
* *Exits.* The command bypasses the guard; a failed or rejected exit blocks its position for ever; the "hold" of
  a catalyst deadline hides the expiry rule; a model's answer about another position is applied to this one; no
  code closes a position when its exit is sold, so the wallet may hold less than the positions say, never more
  (`HoldingsAreCounted`).
* *Model.* The propose gate asks for the bucket `default`, which nobody sets; `_LAST_META` is shared by the
  threads, so a proposal may carry the metadata of another loop's call; a subprocess time-out bypasses the
  fallback.
* *Jobs.* A scan never notices that a market has closed; stale rows get a fresh `last_scanned_at`; failed paid
  calls are not counted; a receipt that comes too late leaves the positions without a stamp for ever; a script
  that dies half-way may leave a table that no later run completes (`Migrations`, `torn`);
  `20260322_v03_v04.sql` rebuilds `proposals` without a guard, so a program that read the marks before another
  one finished takes the columns of the later scripts away again, and if it dies before it has added them back
  every script is marked and they are missing (`Shrinking`); two collectors record one trade twice; trades
  beyond the limit of a pass are dropped, and a large one that newer ones push out of the answer between two
  passes is passed by the cursor and never recorded; two signals with one content share a proposal; a signal
  that `normalize_proposal` refuses ends every run of the import, with all that the run had imported, until it
  expires.
* *Sizing.* The comment at `proposer.py:308` calls the list of asks sorted from the worst to the best and wants
  the five best, and the code adds up `asks[:5]`. In the order of the comment these are the five worst, and a
  size may be more than a quarter of what the best ones bear. `SizedAsMeant` is about the depth the code
  computes and says nothing of that.

### Fairness

`FairSpec` of `OrderLifecycle` assumes weak fairness of the execute loop's steps, of the reconcile loop's steps,
and of each ttl. The supervisor starts one thread per loop and ticks it for ever, catching every exception
(`_loop_worker`, `_tick`); a ttl is wall-clock time. It holds only while no global kill switch is set, since
`_tick` skips the loop then. Nothing is assumed of the exchange, the markets or the propose loop: an order may
rest unmatched and a market stay open for ever. Faults are bounded, so that in the end a tick completes.

In `ProposalFlow`, `FairSpec` assumes weak fairness of the propose loop and of the clock, and strong fairness of
the expiry and the execute loop, whose steps are disabled while another loop holds the write lock: a waiting
connection retries many times a second, and the propose loop sleeps for at least a second between its ticks
(`_loop_worker`). Nothing is assumed of the operator, the approver or the model.

`ExitLoop` assumes weak fairness of the exit loop, and strong fairness of what becomes of an exit, which waits
for the lock of the exit loop's tick (`expiry` answers for an operator who does not). `LlmGate` assumes that
time passes, and nothing of calls; `MarketBoard` that the scan goes on and `AlphaImport` that its runs do, each
with a bounded number of failures.

## 4. What is proved

`OrderLifecycleProofs` proves, from `ConstantAssumption` alone (a typed `MarketOf`, `Full` positive, the two
null values outside their sets), for any sets of proposals, markets and attempts and any number of faults:

| Theorem | States |
|---|---|
| `TypeCorrect`, `Invariance` | `[]TypeOK`, `[]IInv` |
| `SingleEntry` | `[]NoDoubleEntry` |
| `Backing`, `PositionsBacked` | `[]LedgerBacked`, `[]PositionBacked` |
| `RestartIsSafe` | `[]ActiveNotAuthorized` |
| `Monotone`, `Settlement` | the action properties `LedgerMonotone`, `SettledOnce` |
| `Refinement` | `ImplementsLedger` |
| `LossesBounded` | `[]OneOrderPerFault`: however many faults of whatever kind, no more resting orders are lost than faults have struck |
| `RestingTracked` | `[]RestingOrdersTracked`: none is lost if the only faults are aborted ticks and failing look-ups (`GentleFaults`) |

None of the safety properties is inductive. `NoDoubleEntry` needs that the guards of the attempt in flight stay
true from `PassGuards` to `RecordActive` (`GuardsHold`), which holds because only the reconcile loop changes a
written row, and it only closes open ones (`ListsOpen`); `LedgerBacked` needs that what either loop is about to
write was true of the exchange when it looked and has not been undone since (`AnswerBacked`,
`ObservationBacked`, `OrdersMatched`); `PositionBacked` needs that a position derived from an old read is still
allowed by the row (`PendingPosition`), which holds because closed rows are final. `IInv` is their conjunction
with the typing and with the bookkeeping of rows (`RowsWritten`, `AttemptInFlight`). There is one lemma per
action, with one step per conjunct the action disturbs. Even type correctness needs `IInv`, since a step applies
`est`, `fill` and `ord` to the attempt in hand. The refinement proof maps `RecordActive` and `EndExecuteTick` to
`Book`, `WriteOffStale` and a closing `UpdateExecution` to `Close`, `BackfillResolution` to `Release`, every
other step to a stutter. `RestingTracked` adds to `IInv` that whatever a loop is about to call failed is no
longer at rest (`FailuresAreOver`, `WriteOffsAreOver`); a lost answer or an unknown status breaks the first, a
failing cancel the second, and a crash or a lock time-out after the post the property itself. `LossesBounded`
counts an order as doomed as soon as it rests and its row, if it has one, is closed or about to be (`Doomed`): a
step dooms nobody, or one order and takes a fault from the budget (`DoomsNone`, `DoomsOne`).

`ProposalFlowProofs` proves, from `FlowAssumption` alone, for any set of proposals and any number of time-outs
and crashes:

| Theorem | States |
|---|---|
| `FlowInvariance`, `FlowTypeCorrect` | `[]FInv`, `[]TypeOK` |
| `GrantedOnly` | `[]OrdersAreGranted`, whether or not contents recur |
| `ActiveClosed`, `DecisionsStand` | `[]ActiveIsClosed`, `[]DecisionStands` |
| `LegalTransitions` | the action property `StatusMachine` |

`OrdersAreGranted` needs that every status that lets the executor in, in the table, in a transaction and in
every loop's memory, has a grant behind it (`Grants`). The others hold when contents do not recur, because then
each loop's memory is a set of rows with a status that no other loop changes: proposed ones belong to the
propose loop, pending ones past their deadline to the expiry loop, authorized ones to the execute loop
(`ProposeHolds`, `ExpiryHolds`, `ExecuteHolds`), and what is uncommitted is one legal step of the writer
(`Uncommitted`). An answer that was taken in time is recorded when the lock is free, maybe after the expiry loop
has listed the row or has written it: from then on the proposal is late and decided, the executor refuses it,
and only the transitions of `Crossed` are added to the legal ones. No code checks this; `finding_rejected` shows
what happens without the premise.

The other proof modules hold one inductive invariant for each group of theorems:

| Theorem | Assumes | States |
|---|---|---|
| `RiskGateProofs`: `RiskInvariance`, `TickSpending`, `KillSwitchBound`, `OneEntry` | `RiskAssumption` | `[]RInv`, `[]TickWithinSession`, `[]KillSwitchLeaksOnce`, `[]OneEntryPerOutcome`, for any number of executors |
| `RiskGateProofs`: `RivalsYieldInTurn`, `ExposureCapHolds` | `RiskAssumption` | `[]RivalsDontAllYield`, `[]CapHoldsUncrowded`, for any number of proposals of any size |
| `ExitLoopProofs`: `SingleExit` | nothing | `[]OneStandingExit` |
| `ExitLoopProofs`: `HoldingsOnTheBooks` | `ExitAssumption` | `[]HoldingsAreCounted`, for any positions, sizes and sell orders |
| `LlmGateProofs`: `Escalations` | `LlmAssumption` | `[]EscalationsAreCalls` |
| `AdapterBudgetProofs`: `BudgetBound` | `BudgetAssumption` | `[]BudgetKept` |
| `RedeemerProofs`: `Stamps` | nothing | `[]StampsMatchChain` |
| `BackgroundProofs`: `CapsHold`, `StampsAreRight` | `JobAssumptions` | `[]BudgetKept`, `[]StampsMatchChain` of the run `background` |
| `BackgroundProofs`: `AmountsAreMeant` | `JobAssumptions` | `[]SizedAsMeant`, for any edges (on a threshold they count either way), prices, balances, books and drifts |
| `BackgroundProofs`: `TradesAreRecorded` | `JobAssumptions` | `[]TradesRecordedOnce`, for any collectors, trades, limit, length of the answer and faults |
| `BackgroundProofs`: `MarksAreTrue` | `JobAssumptions` | `[]MarkedIsComplete`, for any programs, tables and number of scripts of the three kinds |

* *RiskGate.* A bound on what has happened is not inductive without what is about to happen: the order in hand
  already fits the session (`WithinSession`), and an executor that has passed the check of a switch and not
  posted yet (`Armed`) has posted nothing against it so far (`LeaksFewer`). `OneEntry` says what is left of one
  entry per outcome when several executors work through the queue: each may add one, none adds two. It needs
  that an executor has nothing active of its own for the outcome of the proposal in its hand (`NoRivalActive`),
  which holds because what is placed is committed at once, assessors write no executions, and a resolution
  releases an outcome for good. `RivalsYieldInTurn` needs that every outcome keeps a rival that does not yield,
  in the table and in what is uncommitted (`RivalsStand`), that the proposal about to yield has one besides
  itself (`YieldsToSomeone`), and that an executor's uncommitted rows are failures only (`OnlyFailures`); a
  proposal that the pipeline returns again, or that is read back and written, is one more evaluation of the
  loop, which the three cover. `ExposureCapHolds` needs that at most one proposal is on its way (authorized, or
  in an executor's list or hand), and that it fits beside everything active but an order of its own, since it
  may have been placed before (`RoomForOne`). Exposure is a sum over a set; the sum is related to a tally of its
  elements, and what holds of every finite set is proved by looking at a smallest counterexample.
* *ExitLoop.* A content belongs to one target, and an upsert that retargets it takes it away from the old one;
  with the guard of `_loop_exit` at most one is left per position. The theorem is about behaviours without the
  exit command, which has no guard. `HoldingsOnTheBooks` is about all behaviours: every live sell order has a
  row of its own, that of an exit with its size, still requested (`OwnRows`, `Fits`), so that neither its fill
  nor its end touches the entry's row.
* *LlmGate.* A limit is recorded by a loop that was calling, and nobody starts to call while a cooldown lasts:
  limits plus calls in flight never exceed the loops (`HitsAreCalls`).
* *AdapterBudget.* A caller that found room has not been counted yet, so requests plus callers about to send
  stay below the cap plus the callers but one (`SendersFit`); what was sent is counted, missed or about to be
  counted (`CountedOrPending`).
* *Redeemer.* A transaction that may still be paid is the one waited for, or its market is excused (`Watched`),
  and it takes everything the wallet holds of its market (`Emptied`), so that none is paid in vain.

* *Background.* The jobs share no state, so whichever runs, each job implements its own specification:
  `BudgetRuns` and `RedeemerRuns` map every step to one of the job's or to a stutter, and carry the theorems of
  the two modules over (`INSTANCE` of the proofs). For `AmountsAreMeant` the invariant says what each step has
  ensured so far: the tier is the best over the exchange's minimum, then the best that the book bears as well
  (`SInv`). Its multiplications by constants stay linear in every case, one tier and one scale at a time. For
  `TradesAreRecorded` it is not enough that the cursor has passed recorded trades only: each pass holds an older
  cursor, for which the same must hold (`Passed`), the trades it has selected are in hand, added or recorded
  when it looked, and whatever appeared before a trade it was shown was shown as well, left out or behind its
  cursor already (`Selected`), and two passes that are both going to add one trade had it in hand together
  (`ClaimsRace`). A cursor can only leave out a selected trade if more than `Limit` come before it, which are in
  `leftOut`.
* *Migrations.* What marks say is true of scripts of certain kinds only, so the kinds are an assumption
  (`MigrationsAssumption`), read off the scripts: they bring different columns, and in the end an old database
  has those of the schema. Two facts of a script carry the proof: a repeated statement stops at a column that is
  there already, and a rebuild keeps what the scripts before it brought. `MInv` tells a database that was new,
  which has no rows and whose tables have every column from the start (`NewDb`), from an old one (`OldDb`).
  There, marks are given in the order of the scripts (`InOrder`, `Grown`), a script that nobody is in has added
  all its columns or none (`WholeOrNothing`), one that somebody is in those before its statement (`Halfway`),
  and one that was passed has its first (`ThroughIsDone`): together, all of them. A table is missing only
  between its drop and the rename of a copy that has all it should (`TablesThere`), which nobody interrupts
  while nothing is torn (`Alone`, `RebuiltInTime`).

Only model-checked: the liveness properties (`ListedIsSeen` and `SignalsGetThrough` among them), which need
fairness and are out of the prover's reach. Every invariant and every action property a run checks is also a
theorem, except those of the three runs that expect a violation.

## 5. Plan

Done: all modules of section 2, with the proofs of section 4.

Next, in this order; each module is written to be proved about (no recursive operators).

1. Two reconcilers on the same rows (the `sync-orders` command beside the autopilot), in `OrderLifecycle`: which
   of `IInv` survives. `ListsOpen` does not, since it says that only one loop closes rows.
2. The exit order inside `OrderLifecycle`, so that its executions are sells as well; shadow mode.

## 6. Not modelled, and why

Prompts, parsing, HTTP adapters other than their budgets, scores of the signal engines, memos, reviews and
reports: data without a protocol to check. Mock and shadow modes never touch the exchange. The Telegram approver
and the control plane are not in the repository. The choice of candidates by score and the heuristic engine only
decide which proposals there are. The global kill switch stops the reconcile and exit loops as well, which
`RiskGate` does not show: it models the propose and execute loops. `PROJECT.json` lists the components with what
is left out of each.
