--------------------------- MODULE OrderLifecycle ---------------------------
(***************************************************************************)
(* The part of the autopilot that spends money: the execute loop, the      *)
(* reconcile loop, the SQLite rows they share and the exchange (CLOB) they *)
(* both talk to, in real mode and in the threaded deployment.              *)
(*                                                                         *)
(* One row of `executions` is one attempt to place an order.  The exchange *)
(* knows an order from the moment post_order returns there; the database   *)
(* knows it from the commit inside record_execution; the position row is   *)
(* written later still, in another transaction.  Each of these is a step   *)
(* of its own, so that a crash, a lost answer or the other loop may come   *)
(* between any two of them.                                                *)
(*                                                                         *)
(* Abstractions.  Money is counted in fill units 0..Full of the requested  *)
(* size, and fill = 0 also stands for SQL NULL.  A member of Markets is a  *)
(* (market, outcome) pair.  Exit (sell) proposals are left to ExitLoop.    *)
(* The pre-trade checks that read nothing this module keeps (kill switch,  *)
(* balance, session spend, preflight, price, slippage) are one             *)
(* nondeterministic refusal.  The loops this module leaves out hold the    *)
(* write lock too: a statement of the execute loop that waits for them     *)
(* longer than the busy timeout raises, which is the fault "lock_timeout". *)
(***************************************************************************)
EXTENDS Naturals, FiniteSets

CONSTANTS
  Proposals,     \* proposal ids
  Markets,       \* (market, outcome) pairs
  MarketOf,      \* the pair a proposal buys
  Execs,         \* ids of execution rows: bounds the number of attempts
  Full,          \* fill units in the requested size
  Faults,        \* the kinds of fault the environment may inject
  MaxFaults,     \* and how many of them in a behaviour
  Reauthorize,   \* may the propose loop authorize a finished proposal again
  NoProposal, NoExec

FaultKinds ==
  {"crash", "abort", "lost_response", "cancel_error", "net_error",
   "lock_timeout", "odd_status"}

ASSUME ConstantAssumption ==
  /\ MarketOf \in [Proposals -> Markets]
  /\ Full \in Nat \ {0}
  /\ MaxFaults \in Nat
  /\ Faults \subseteq FaultKinds
  /\ Reauthorize \in BOOLEAN
  /\ NoProposal \notin Proposals
  /\ NoExec \notin Execs
  /\ IsFiniteSet(Execs)

VARIABLES
  \* committed database rows
  prop,      \* proposals.status
  owner,     \* executions.proposal_id, named by the idempotency key
  est,       \* executions.status
  fill,      \* executions.filled_size_usdc
  pos,       \* positions.status of the row of this execution
  pnl,       \* has realized_pnl of that row been computed
  resolved,  \* is there a market_resolutions row
  shadow,    \* the pairs with a shadow_executions row
  \* the exchange and the clock
  ord,       \* the order of this attempt, as the exchange sees it
  matched,   \* how much of it has been matched
  closed,    \* has the market closed with a known outcome
  lapsed,    \* has order_live_ttl_seconds run out
  \* the execute loop
  xpc, xq, xe, xst, xfill, xval,
  xfail,     \* failed rows its open transaction has inserted
  xpos,      \* the position its open transaction has written, with value xval
  locked,    \* is that transaction open: it holds SQLite's write lock
  \* the reconcile loop
  rpc, rq, re, robs, rmk,
  budget     \* faults left

dbVars   == <<prop, owner, est, fill, pos, pnl, resolved, shadow>>
clobVars == <<ord, matched, closed, lapsed>>
execVars == <<xpc, xq, xe, xst, xfill, xval, xfail, xpos, locked>>
recVars  == <<rpc, rq, re, robs, rmk>>
vars     == <<dbVars, clobVars, execVars, recVars, budget>>

-----------------------------------------------------------------------------
PropStatus == {"proposed", "authorized_for_execution", "executed", "failed"}
ActiveStatus == {"submitted", "live", "filled"}
OpenStatus   == {"submitted", "live"}
ExecStatus   == OpenStatus \cup {"filled", "failed"}
PosStatus    ==
  {"open_requested", "open", "partially_filled", "cancelled", "resolved"}
ExecPC == {"idle", "pick", "post", "answer", "record", "sync_read", "sync_write"}
RecPC  == {"idle", "list_stale", "stale", "stale_write", "live", "apply",
           "backfill"}

MarketOfExec(e) == MarketOf[owner[e]]

\* An execution row is taken by the attempt that draws its id.
Fresh(e) == owner[e] = NoProposal

Inject(kind) == kind \in Faults /\ budget > 0 /\ budget' = budget - 1

-----------------------------------------------------------------------------
\* What the two guards of execute_record read.
\* Mutant: a filled execution is forgotten.
OnlyOpenExecution(p) ==
  \E e \in Execs : owner[e] = p /\ est[e] \in OpenStatus

HasActiveExecution(p) ==
  \E e \in Execs : owner[e] = p /\ est[e] \in ActiveStatus

\* Mutant: only a filled execution of another proposal is an exposure.
OnlyFilledExposure(p) ==
  /\ ~resolved[MarketOf[p]]
  /\ \E e \in Execs : /\ owner[e] \in Proposals \ {p}
                      /\ MarketOfExec(e) = MarketOf[p]
                      /\ est[e] = "filled"

HasActiveMarketOutcomeExposure(p) ==
  /\ ~resolved[MarketOf[p]]
  /\ \E e \in Execs : /\ owner[e] \in Proposals \ {p}
                      /\ MarketOfExec(e) = MarketOf[p]
                      /\ est[e] \in ActiveStatus

\* Mutant: a status passed through as it is.
RawStatus(status) == status

\* _normalize_order_status, on the statuses the exchange reports.  "odd" is
\* one the code does not know, whatever the order behind it does.
Normalized(status) ==
  CASE status = "none"            -> "submitted"
    [] status = "live"            -> "live"
    [] status = "matched"         -> "filled"
    [] status \in {"dead", "odd"} -> "failed"

\* Mutants: an accepted order is a holding; a failed one never is.
OpenOnSubmit(st, f, old) ==
  IF old = "resolved" THEN old
  ELSE CASE st \in ActiveStatus                 -> "open"
         [] st = "failed" /\ f > 0              -> "partially_filled"
         [] st = "failed" /\ f = 0 /\ old # "none" -> "cancelled"
         [] OTHER                               -> old
FailedIsCancelled(st, f, old) ==
  IF old = "resolved" THEN old
  ELSE CASE st \in OpenStatus                -> "open_requested"
         [] st = "filled"                    -> "open"
         [] st = "failed" /\ old # "none"    -> "cancelled"
         [] OTHER                            -> old

\* sync_position_for_execution: the position status that an execution row
\* (status st, fill f) leaves behind, given the present one.
SyncedPosition(st, f, old) ==
  IF old = "resolved" THEN old
  ELSE CASE st \in OpenStatus                             -> "open_requested"
         [] st = "filled"                                 -> "open"
         [] st = "failed" /\ f > 0                        -> "partially_filled"
         [] st = "failed" /\ f = 0 /\ old # "none"        -> "cancelled"
         [] st = "none" \/ (st = "failed" /\ old = "none") -> old

\* The rows the open transaction adds when it commits.
CommittedStatus ==
  [e \in Execs |-> IF e \in xfail THEN "failed" ELSE est[e]]
CommittedProposals ==
  [p \in Proposals |->
     IF prop[p] # "executed" /\ \E e \in xfail : owner[e] = p
     THEN "failed" ELSE prop[p]]
CommittedPositions ==
  IF xpos = NoExec THEN pos ELSE [pos EXCEPT ![xpos] = xval]
CommittedPnl ==
  IF xpos = NoExec THEN pnl ELSE [pnl EXCEPT ![xpos] = FALSE]

-----------------------------------------------------------------------------
\* A loop between two ticks holds nothing in memory, nor does one that died.
ExecuteIdle ==
  /\ xpc = "idle" /\ xq = {} /\ xe = NoExec /\ xst = "none" /\ xfill = 0
  /\ xval = "none" /\ xfail = {} /\ xpos = NoExec /\ locked = FALSE

NoObservation == [status |-> "none", size |-> 0]

ReconcileIdle ==
  rpc = "idle" /\ rq = {} /\ re = NoExec /\ robs = NoObservation /\ rmk = {}

LoseExecute ==
  /\ xpc' = "idle" /\ xq' = {} /\ xe' = NoExec /\ xst' = "none" /\ xfill' = 0
  /\ xval' = "none" /\ xfail' = {} /\ xpos' = NoExec /\ locked' = FALSE

LoseReconcile ==
  rpc' = "idle" /\ rq' = {} /\ re' = NoExec /\ robs' = NoObservation /\ rmk' = {}

Init ==
  /\ prop = [p \in Proposals |-> "proposed"]
  /\ owner = [e \in Execs |-> NoProposal]
  /\ est = [e \in Execs |-> "none"]
  /\ fill = [e \in Execs |-> 0]
  /\ pos = [e \in Execs |-> "none"]
  /\ pnl = [e \in Execs |-> FALSE]
  /\ resolved = [m \in Markets |-> FALSE]
  /\ shadow = {}
  /\ ord = [e \in Execs |-> "none"]
  /\ matched = [e \in Execs |-> 0]
  /\ closed = [m \in Markets |-> FALSE]
  /\ lapsed = [e \in Execs |-> FALSE]
  /\ ExecuteIdle
  /\ ReconcileIdle
  /\ budget = MaxFaults

-----------------------------------------------------------------------------
(***************************************************************************)
(* The execute loop: _loop_execute, execute_record, record_execution.      *)
(***************************************************************************)

\* A tick lists the authorized proposals once; the list is not refreshed.
ListAuthorized ==
  /\ xpc = "idle"
  /\ xq' = {p \in Proposals : prop[p] = "authorized_for_execution"}
  /\ xq' # {}
  /\ Cardinality(xq') <= Cardinality({e \in Execs : Fresh(e)})  \* bound
  /\ xpc' = "pick"
  /\ UNCHANGED <<dbVars, clobVars, recVars, budget>>
  /\ UNCHANGED <<xe, xst, xfill, xval, xfail, xpos, locked>>

\* execute_record returns _failed_execution before it posts, whether a guard
\* on the database or one of the abstracted checks refuses; two of these come
\* after the shadow row.  record_execution inserts the failed row and leaves
\* the transaction open.
RefuseBeforePost(p, e) ==
  /\ xpc = "pick" /\ p \in xq /\ Fresh(e)
  /\ owner' = [owner EXCEPT ![e] = p]
  /\ xfail' = xfail \cup {e} /\ locked' = TRUE
  /\ xq' = xq \ {p}
  /\ \/ UNCHANGED shadow
     \/ ~locked /\ shadow' = shadow \cup {MarketOf[p]}
  /\ UNCHANGED <<prop, est, fill, pos, pnl, resolved>>
  /\ UNCHANGED <<clobVars, recVars, budget>>
  /\ UNCHANGED <<xpc, xe, xst, xfill, xval, xpos>>

\* The insert of the failed row raises, because another loop holds the write
\* lock; the tick goes on with the next proposal.
LoseRefusal(p) ==
  /\ xpc = "pick" /\ p \in xq /\ ~locked
  /\ Inject("lock_timeout")
  /\ xq' = xq \ {p}
  /\ UNCHANGED <<dbVars, clobVars, recVars>>
  /\ UNCHANGED <<xpc, xe, xst, xfill, xval, xfail, xpos, locked>>

\* create_shadow_execution, committed on a connection of its own.  Its failure
\* is swallowed, and it is certain while the tick's own transaction is open.
WriteShadow(p) ==
  \/ ~locked /\ shadow' = shadow \cup {MarketOf[p]} /\ UNCHANGED budget
  \/ ~locked /\ Inject("lock_timeout") /\ UNCHANGED shadow
  \/ locked /\ UNCHANGED <<shadow, budget>>

\* The guards on the database pass, and so do the abstracted checks.
PassGuards(p, e) ==
  /\ xpc = "pick" /\ p \in xq /\ Fresh(e)
  /\ ~HasActiveExecution(p)
  /\ ~HasActiveMarketOutcomeExposure(p)
  /\ owner' = [owner EXCEPT ![e] = p]
  /\ WriteShadow(p)
  /\ xe' = e
  /\ xq' = xq \ {p}
  /\ xpc' = "post"
  /\ UNCHANGED <<prop, est, fill, pos, pnl, resolved>>
  /\ UNCHANGED <<clobVars, recVars>>
  /\ UNCHANGED <<xst, xfill, xval, xfail, xpos, locked>>

\* post_order reaches the exchange, which accepts the order, perhaps matching
\* some or all of it at once; the answer is on its way.
PostOrder ==
  /\ xpc = "post"
  /\ \E k \in 0..Full :
       /\ matched' = [matched EXCEPT ![xe] = k]
       /\ ord' = [ord EXCEPT ![xe] = IF k = Full THEN "matched" ELSE "live"]
       /\ \/ /\ xst' = Normalized(IF k = Full THEN "matched" ELSE "live")
             /\ UNCHANGED budget
          \/ Inject("odd_status") /\ xst' = Normalized("odd")
  /\ xfill' = 0
  /\ xpc' = "answer"
  /\ UNCHANGED <<dbVars, closed, lapsed, recVars>>
  /\ UNCHANGED <<xq, xe, xval, xfail, xpos, locked>>

\* The order never gets there: create_order fails, or the exchange answers
\* success=false.
PostRejected ==
  /\ xpc = "post"
  /\ xst' = "failed" /\ xfill' = 0
  /\ xpc' = "record"
  /\ UNCHANGED <<dbVars, clobVars, recVars, budget>>
  /\ UNCHANGED <<xq, xe, xval, xfail, xpos, locked>>

\* The answer arrives and _reconcile_execution_with_order_snapshot looks the
\* order up; when the lookup raises the status of the answer stands, and when
\* it finds nothing yet the order counts as submitted.
OrderSnapshot ==
  /\ xpc = "answer"
  /\ xpc' = "record"
  /\ \/ /\ xst' = Normalized(ord[xe])
        /\ xfill' = IF ord[xe] = "matched" THEN Full ELSE 0
        /\ UNCHANGED budget
     \/ /\ Inject("net_error")
        /\ xst' \in {xst, Normalized("none")}
        /\ UNCHANGED xfill
     \/ /\ Inject("odd_status")
        /\ xst' = Normalized("odd") /\ xfill' = 0
  /\ UNCHANGED <<dbVars, clobVars, recVars>>
  /\ UNCHANGED <<xq, xe, xval, xfail, xpos, locked>>

\* The answer is lost.  get_order(idempotency_key) finds nothing, because the
\* key was never sent with the order, and the execution is a failed one.
LoseAnswer ==
  /\ xpc = "answer"
  /\ Inject("lost_response")
  /\ xst' = "failed" /\ xfill' = 0
  /\ xpc' = "record"
  /\ UNCHANGED <<dbVars, clobVars, recVars>>
  /\ UNCHANGED <<xq, xe, xval, xfail, xpos, locked>>

\* The loop is done with this record.
NextRecord == xpc' = "pick" /\ xe' = NoExec /\ xst' = "none" /\ xfill' = 0

\* record_execution of a failed attempt: inserted, not yet committed.
RecordFailed ==
  /\ xpc = "record" /\ xst = "failed"
  /\ xfail' = xfail \cup {xe} /\ locked' = TRUE
  /\ NextRecord
  /\ UNCHANGED <<dbVars, clobVars, recVars, budget>>
  /\ UNCHANGED <<xq, xval, xpos>>

\* The insert of record_execution raises, because another loop holds the write
\* lock: the order, if there is one, is left without a row, the proposal stays
\* authorized, and the tick goes on.  A row id drawn for nothing is free again.
LoseRecord ==
  /\ xpc = "record" /\ ~locked
  /\ Inject("lock_timeout")
  /\ owner' = [owner EXCEPT ![xe] = IF ord[xe] = "none" THEN NoProposal ELSE @]
  /\ NextRecord
  /\ UNCHANGED <<prop, est, fill, pos, pnl, resolved, shadow>>
  /\ UNCHANGED <<clobVars, recVars>>
  /\ UNCHANGED <<xq, xval, xfail, xpos, locked>>

\* Mutant: the new status of the proposal is not part of the commit.
RecordWithoutProposal ==
  /\ xpc = "record" /\ xst \in ActiveStatus
  /\ est' = [CommittedStatus EXCEPT ![xe] = xst]
  /\ fill' = [fill EXCEPT ![xe] = xfill]
  /\ prop' = CommittedProposals
  /\ pos' = CommittedPositions
  /\ pnl' = CommittedPnl
  /\ xfail' = {} /\ xpos' = NoExec /\ xval' = "none" /\ locked' = FALSE
  /\ xpc' = "sync_read"
  /\ UNCHANGED <<owner, resolved, shadow, clobVars, recVars, budget>>
  /\ UNCHANGED <<xq, xe, xst, xfill>>

\* record_execution of a live or filled attempt commits at once, and with it
\* whatever the earlier records of this tick have left uncommitted.
RecordActive ==
  /\ xpc = "record" /\ xst \in ActiveStatus
  /\ est' = [CommittedStatus EXCEPT ![xe] = xst]
  /\ fill' = [fill EXCEPT ![xe] = xfill]
  /\ prop' = [CommittedProposals EXCEPT ![owner[xe]] = "executed"]
  /\ pos' = CommittedPositions
  /\ pnl' = CommittedPnl
  /\ xfail' = {} /\ xpos' = NoExec /\ xval' = "none" /\ locked' = FALSE
  /\ xpc' = "sync_read"
  /\ UNCHANGED <<owner, resolved, shadow, clobVars, recVars, budget>>
  /\ UNCHANGED <<xq, xe, xst, xfill>>

\* sync_position_for_execution reads the row back outside any transaction.
\* When it has nothing to write, the execution event that follows still opens
\* one.
SyncRead ==
  /\ xpc = "sync_read"
  /\ LET synced == SyncedPosition(est[xe], fill[xe], pos[xe]) IN
       IF synced \in {"none", "resolved"}
       THEN NextRecord /\ locked' = TRUE /\ UNCHANGED xval
       ELSE /\ xval' = synced /\ xpc' = "sync_write"
            /\ UNCHANGED <<xe, xst, xfill, locked>>
  /\ UNCHANGED <<dbVars, clobVars, recVars, budget>>
  /\ UNCHANGED <<xq, xfail, xpos>>

\* It writes the position once it gets the write lock.
SyncWrite ==
  /\ xpc = "sync_write"
  /\ xpos' = xe /\ locked' = TRUE
  /\ NextRecord
  /\ UNCHANGED <<dbVars, clobVars, recVars, budget>>
  /\ UNCHANGED <<xq, xval, xfail>>

\* The sync raises; record_execution prints a warning and writes the event,
\* which may be refused as well.
SyncFails ==
  /\ xpc \in {"sync_read", "sync_write"}
  /\ Inject("abort")
  /\ xval' = "none" /\ locked' \in BOOLEAN
  /\ NextRecord
  /\ UNCHANGED <<dbVars, clobVars, recVars>>
  /\ UNCHANGED <<xq, xfail, xpos>>

\* The loop is through its list and the caller of _tick commits.
EndExecuteTick ==
  /\ xpc = "pick" /\ xq = {}
  /\ est' = CommittedStatus
  /\ prop' = CommittedProposals
  /\ pos' = CommittedPositions
  /\ pnl' = CommittedPnl
  /\ xfail' = {} /\ xpos' = NoExec /\ xval' = "none" /\ locked' = FALSE
  /\ xpc' = "idle"
  /\ UNCHANGED <<owner, fill, resolved, shadow, clobVars, recVars, budget>>
  /\ UNCHANGED <<xq, xe, xst, xfill>>

ExecuteStep ==
  \/ ListAuthorized
  \/ \E p \in Proposals, e \in Execs : RefuseBeforePost(p, e) \/ PassGuards(p, e)
  \/ \E p \in Proposals : LoseRefusal(p)
  \/ PostOrder \/ PostRejected
  \/ OrderSnapshot \/ LoseAnswer
  \/ RecordFailed \/ RecordActive \/ LoseRecord
  \/ SyncRead \/ SyncWrite \/ SyncFails
  \/ EndExecuteTick

-----------------------------------------------------------------------------
(***************************************************************************)
(* The reconcile loop: _loop_reconcile.                                    *)
(***************************************************************************)

\* Mutant: every position of a failed execution is an orphan.
RepairedAny(e) ==
  IF pos[e] # "none" /\ est[e] = "failed" THEN "cancelled"
  ELSE IF pos[e] = "open" /\ resolved[MarketOfExec(e)] THEN "resolved"
  ELSE pos[e]

\* cancel_orphaned_positions and assert_position_consistency, then a commit.
\* A position repaired onto a resolved market gets no realized_pnl.
Repaired(e) ==
  IF pos[e] \in {"open", "open_requested"}
  THEN IF est[e] = "failed" THEN "cancelled"
       ELSE IF resolved[MarketOfExec(e)] THEN "resolved"
       ELSE pos[e]
  ELSE pos[e]

RepairPositions ==
  /\ rpc = "idle" /\ ~locked
  /\ pos' = [e \in Execs |-> Repaired(e)]
  /\ rpc' = "list_stale"
  /\ UNCHANGED <<prop, owner, est, fill, pnl, resolved, shadow>>
  /\ UNCHANGED <<clobVars, execVars, budget>>
  /\ UNCHANGED <<rq, re, robs, rmk>>

\* Mutants: filled executions are stale too; a partly reconciled order is not.
ListStaleActive ==
  /\ rpc = "list_stale"
  /\ rq' = {e \in Execs : est[e] \in ActiveStatus /\ lapsed[e]}
  /\ rpc' = "stale"
  /\ UNCHANGED <<dbVars, clobVars, execVars, budget>>
  /\ UNCHANGED <<re, robs, rmk>>

ListStaleSubmitted ==
  /\ rpc = "list_stale"
  /\ rq' = {e \in Execs : est[e] = "submitted" /\ lapsed[e]}
  /\ rpc' = "stale"
  /\ UNCHANGED <<dbVars, clobVars, execVars, budget>>
  /\ UNCHANGED <<re, robs, rmk>>

\* cancel_stale_orders lists the open executions whose ttl has run out.
ListStale ==
  /\ rpc = "list_stale"
  /\ rq' = {e \in Execs : est[e] \in OpenStatus /\ lapsed[e]}
  /\ rpc' = "stale"
  /\ UNCHANGED <<dbVars, clobVars, execVars, budget>>
  /\ UNCHANGED <<re, robs, rmk>>

\* Mutant: the order id is not on the row, so there is nothing to cancel by.
CancelNothing(e) ==
  /\ rpc = "stale" /\ e \in rq
  /\ re' = e
  /\ rq' = rq \ {e}
  /\ rpc' = "stale_write"
  /\ UNCHANGED <<dbVars, clobVars, execVars, budget>>
  /\ UNCHANGED <<robs, rmk>>

\* client.cancel: it kills a resting order, does nothing to one that is
\* matched or dead, and an error of the call is ignored after the second try.
CancelOrder(e) ==
  /\ rpc = "stale" /\ e \in rq
  /\ \/ /\ ord' = [ord EXCEPT ![e] = IF @ = "live" THEN "dead" ELSE @]
        /\ UNCHANGED budget
     \/ Inject("cancel_error") /\ UNCHANGED ord
  /\ re' = e
  /\ rq' = rq \ {e}
  /\ rpc' = "stale_write"
  /\ UNCHANGED <<dbVars, matched, closed, lapsed, execVars>>
  /\ UNCHANGED <<robs, rmk>>

\* Whatever the cancel did, the execution is written off, with the fill that
\* was last recorded.
WriteOffStale ==
  /\ rpc = "stale_write" /\ ~locked
  /\ est' = [est EXCEPT ![re] = "failed"]
  /\ pos' = [pos EXCEPT ![re] =
               IF fill[re] > 0 THEN SyncedPosition("failed", fill[re], @)
               ELSE IF @ = "open_requested" THEN "cancelled" ELSE @]
  /\ rpc' = "stale" /\ re' = NoExec
  /\ UNCHANGED <<prop, owner, fill, pnl, resolved, shadow>>
  /\ UNCHANGED <<clobVars, execVars, budget>>
  /\ UNCHANGED <<rq, robs, rmk>>

\* Mutant: filled executions are listed too.
ListAllActive ==
  /\ rpc = "stale" /\ rq = {}
  /\ rq' = {e \in Execs : est[e] \in ActiveStatus}
  /\ rpc' = "live"
  /\ UNCHANGED <<dbVars, clobVars, execVars, budget>>
  /\ UNCHANGED <<re, robs, rmk>>

\* reconcile_live_orders lists the open executions again.
ListLive ==
  /\ rpc = "stale" /\ rq = {}
  /\ rq' = {e \in Execs : est[e] \in OpenStatus}
  /\ rpc' = "live"
  /\ UNCHANGED <<dbVars, clobVars, execVars, budget>>
  /\ UNCHANGED <<re, robs, rmk>>

\* get_order; when it finds nothing the order counts as submitted, when it
\* reports an unknown status as failed, and when it raises only an
\* order_reconciliations row is written.
GetOrder(e) ==
  /\ rpc = "live" /\ e \in rq
  /\ rq' = rq \ {e}
  /\ \/ /\ re' = e
        /\ robs' = [status |-> Normalized(ord[e]), size |-> matched[e]]
        /\ rpc' = "apply"
        /\ UNCHANGED budget
     \/ /\ Inject("net_error")
        /\ re' = e
        /\ robs' = [status |-> Normalized("none"), size |-> 0]
        /\ rpc' = "apply"
     \/ /\ Inject("odd_status")
        /\ re' = e
        /\ robs' = [status |-> Normalized("odd"), size |-> matched[e]]
        /\ rpc' = "apply"
     \/ Inject("net_error") /\ UNCHANGED <<re, robs, rpc>>
  /\ UNCHANGED <<dbVars, clobVars, execVars, rmk>>

\* Mutant: an open order counts in full until the exchange gives a size.
RequestedSize ==
  IF robs.size > 0 THEN robs.size
  ELSE IF robs.status \in ActiveStatus THEN Full
  ELSE fill[re]

\* The fill to record: a filled order counts in full when the exchange gives
\* no size, any other order by the size it reports, else as recorded before.
FillToRecord ==
  IF robs.size > 0 THEN robs.size
  ELSE IF robs.status = "filled" THEN Full
  ELSE fill[re]

\* idx_executions_real_success: one filled real execution per proposal.
BreaksUniqueFilled(e, st) ==
  /\ st = "filled"
  /\ \E f \in Execs \ {e} : owner[f] = owner[e] /\ est[f] = "filled"

\* update_execution and the position sync it calls, then a commit; a breach of
\* the unique index is caught and recorded as an error.
UpdateExecution ==
  /\ rpc = "apply" /\ ~locked
  /\ IF BreaksUniqueFilled(re, robs.status)
     THEN UNCHANGED <<est, fill, pos>>
     ELSE /\ est' = [est EXCEPT ![re] = robs.status]
          /\ fill' = [fill EXCEPT ![re] = FillToRecord]
          /\ pos' = IF robs.status \in ActiveStatus \/ FillToRecord > 0
                    THEN [pos EXCEPT ![re] =
                            SyncedPosition(robs.status, FillToRecord, @)]
                    ELSE pos
  /\ rpc' = "live" /\ re' = NoExec /\ robs' = NoObservation
  /\ UNCHANGED <<prop, owner, pnl, resolved, shadow>>
  /\ UNCHANGED <<clobVars, execVars, budget>>
  /\ UNCHANGED <<rq, rmk>>

\* check_and_backfill_resolutions lists the markets of the held positions, and
\* those with a shadow row and no resolution.
ListMarkets ==
  /\ rpc = "live" /\ rq = {}
  /\ rmk' = {MarketOfExec(e) :
               e \in {f \in Execs : pos[f] \in {"open", "partially_filled"}}}
              \cup {m \in shadow : ~resolved[m]}
  /\ rpc' = "backfill"
  /\ UNCHANGED <<dbVars, clobVars, execVars, budget>>
  /\ UNCHANGED <<rq, re, robs>>

\* One market: recorded already, still trading, not answering, or resolved
\* now and committed.
BackfillResolution(m) ==
  /\ rpc = "backfill" /\ m \in rmk
  /\ rmk' = rmk \ {m}
  /\ \/ /\ resolved[m] \/ ~closed[m]
        /\ UNCHANGED <<resolved, budget>>
     \/ /\ Inject("net_error")
        /\ UNCHANGED resolved
     \/ /\ closed[m] /\ ~resolved[m] /\ ~locked
        /\ resolved' = [resolved EXCEPT ![m] = TRUE]
        /\ UNCHANGED budget
  /\ UNCHANGED <<prop, owner, est, fill, pos, pnl, shadow>>
  /\ UNCHANGED <<clobVars, execVars, rpc, rq, re, robs>>

\* Mutant: only positions that exist are synchronised.
SyncedExisting(e) ==
  IF pos[e] = "none" THEN "none" ELSE SyncedPosition(est[e], fill[e], pos[e])

\* sync_all_positions and update_position_marks in one transaction: every
\* position is derived again from its execution, and a held position on a
\* resolved market is closed with its realized_pnl.
Synced(e) == SyncedPosition(est[e], fill[e], pos[e])

\* Mutant: what an order filled before it ended is not settled.
SettlesOpen(e) == Synced(e) = "open" /\ resolved[MarketOfExec(e)]

Settles(e) ==
  /\ Synced(e) \in {"open", "partially_filled"}
  /\ resolved[MarketOfExec(e)]

SyncAndMark ==
  /\ rpc = "backfill" /\ rmk = {} /\ ~locked
  /\ pos' = [e \in Execs |-> IF Settles(e) THEN "resolved" ELSE Synced(e)]
  /\ pnl' = [e \in Execs |-> IF Settles(e) THEN TRUE ELSE pnl[e]]
  /\ rpc' = "idle"
  /\ UNCHANGED <<prop, owner, est, fill, resolved, shadow>>
  /\ UNCHANGED <<clobVars, execVars, budget>>
  /\ UNCHANGED <<rq, re, robs, rmk>>

\* An exception ends the tick (no client, database locked); what was written
\* is committed and the next tick starts over.
AbortReconcile ==
  /\ rpc # "idle"
  /\ Inject("abort")
  /\ LoseReconcile
  /\ UNCHANGED <<dbVars, clobVars, execVars>>

ReconcileStep ==
  \/ RepairPositions
  \/ ListStale \/ WriteOffStale
  \/ ListLive \/ UpdateExecution
  \/ \E e \in Execs : CancelOrder(e) \/ GetOrder(e)
  \/ ListMarkets
  \/ \E m \in Markets : BackfillResolution(m)
  \/ SyncAndMark
  \/ AbortReconcile

-----------------------------------------------------------------------------
(***************************************************************************)
(* The exchange, the markets, the clock, the propose loop and crashes.     *)
(***************************************************************************)

\* More of a resting order is matched.
MatchOrder(e) ==
  /\ ord[e] = "live" /\ ~closed[MarketOfExec(e)]
  /\ \E k \in (matched[e] + 1)..Full :
       /\ matched' = [matched EXCEPT ![e] = k]
       /\ ord' = [ord EXCEPT ![e] = IF k = Full THEN "matched" ELSE @]
  /\ UNCHANGED <<dbVars, closed, lapsed, execVars, recVars, budget>>

\* The exchange gives up a resting order (INVALID, EXPIRED, CANCELED).
InvalidateOrder(e) ==
  /\ ord[e] = "live"
  /\ ord' = [ord EXCEPT ![e] = "dead"]
  /\ UNCHANGED <<dbVars, matched, closed, lapsed, execVars, recVars, budget>>

\* The market closes and Gamma reports its outcome.
CloseMarket(m) ==
  /\ ~closed[m]
  /\ closed' = [closed EXCEPT ![m] = TRUE]
  /\ UNCHANGED <<dbVars, ord, matched, lapsed, execVars, recVars, budget>>

\* order_posted_at + order_live_ttl_seconds passes for a recorded order.
LapseTtl(e) ==
  /\ est[e] \in OpenStatus /\ ~lapsed[e]
  /\ lapsed' = [lapsed EXCEPT ![e] = TRUE]
  /\ UNCHANGED <<dbVars, ord, matched, closed, execVars, recVars, budget>>

\* The propose loop authorizes a proposal.  It evaluates every proposal the
\* pipeline returns, a finished one with the same content hash included, and
\* overwrites its status.
Authorize(p) ==
  /\ ~locked
  /\ \/ prop[p] = "proposed"
     \/ Reauthorize /\ prop[p] \in {"executed", "failed"}
  /\ prop' = [prop EXCEPT ![p] = "authorized_for_execution"]
  /\ UNCHANGED <<owner, est, fill, pos, pnl, resolved, shadow>>
  /\ UNCHANGED <<clobVars, execVars, recVars, budget>>

\* The process dies: both loops lose what they hold in memory and what they
\* have not committed.  A row id drawn for nothing is drawn again.
Crash ==
  /\ Inject("crash")
  /\ xpc # "idle" \/ rpc # "idle"
  /\ owner' = [e \in Execs |-> IF est[e] = "none" /\ ord[e] = "none"
                               THEN NoProposal ELSE owner[e]]
  /\ LoseExecute
  /\ LoseReconcile
  /\ UNCHANGED <<prop, est, fill, pos, pnl, resolved, shadow, clobVars>>

EnvironmentStep ==
  \/ \E e \in Execs : MatchOrder(e) \/ InvalidateOrder(e) \/ LapseTtl(e)
  \/ \E m \in Markets : CloseMarket(m)
  \/ \E p \in Proposals : Authorize(p)
  \/ Crash

Next == ExecuteStep \/ ReconcileStep \/ EnvironmentStep

Spec == Init /\ [][Next]_vars

(***************************************************************************)
(* Each loop is a thread that the supervisor keeps ticking, and the ttl is *)
(* wall-clock time; nothing is assumed of the exchange or the markets.     *)
(***************************************************************************)
Fairness ==
  /\ WF_vars(ExecuteStep)
  /\ WF_vars(ReconcileStep)
  /\ \A e \in Execs : WF_vars(LapseTtl(e))

FairSpec == Spec /\ Fairness

-----------------------------------------------------------------------------
(***************************************************************************)
(* Properties.                                                             *)
(***************************************************************************)

TypeOK ==
  /\ prop \in [Proposals -> PropStatus]
  /\ owner \in [Execs -> Proposals \cup {NoProposal}]
  /\ est \in [Execs -> ExecStatus \cup {"none"}]
  /\ fill \in [Execs -> 0..Full]
  /\ pos \in [Execs -> PosStatus \cup {"none"}]
  /\ pnl \in [Execs -> BOOLEAN]
  /\ resolved \in [Markets -> BOOLEAN]
  /\ shadow \subseteq Markets
  /\ ord \in [Execs -> {"none", "live", "matched", "dead"}]
  /\ matched \in [Execs -> 0..Full]
  /\ closed \in [Markets -> BOOLEAN]
  /\ lapsed \in [Execs -> BOOLEAN]
  /\ xpc \in ExecPC
  /\ xq \subseteq Proposals
  /\ xe \in Execs \cup {NoExec}
  /\ xst \in ExecStatus \cup {"none"}
  /\ xfill \in 0..Full
  /\ xval \in PosStatus \cup {"none"}
  /\ xfail \subseteq Execs
  /\ xpos \in Execs \cup {NoExec}
  /\ locked \in BOOLEAN
  /\ rpc \in RecPC
  /\ rq \subseteq Execs
  /\ re \in Execs \cup {NoExec}
  /\ robs \in [status : ExecStatus \cup {"none"}, size : 0..Full]
  /\ rmk \subseteq Markets
  /\ budget \in Nat

\* The executions table never shows two active rows for one proposal, nor two
\* for one (market, outcome) that is not resolved, however often the propose
\* loop authorizes a finished proposal again and wherever a crash falls.
NoDoubleEntry ==
  \A e, f \in Execs :
    /\ e # f
    /\ est[e] \in ActiveStatus /\ est[f] \in ActiveStatus
    => /\ owner[e] # owner[f]
       /\ MarketOfExec(e) = MarketOfExec(f) => resolved[MarketOfExec(e)]

\* The ledger never claims more than the exchange has done: no recorded fill
\* exceeds what is matched, and a filled execution is a matched order.
LedgerBacked ==
  \A e \in Execs :
    /\ fill[e] <= matched[e]
    /\ est[e] = "filled" => ord[e] = "matched"
    /\ est[e] \in ActiveStatus => ord[e] # "none"

\* A position that counts as holding tokens rests on a fill the ledger has
\* recorded, and a cancelled one on an execution that is over; this survives
\* the executor writing a position it derived from a row read earlier.
PositionBacked ==
  \A e \in Execs :
    /\ pos[e] = "open" => est[e] = "filled"
    /\ pos[e] = "partially_filled" => est[e] = "failed" /\ fill[e] > 0
    /\ pos[e] = "cancelled" => est[e] = "failed"
    /\ pos[e] # "none" => est[e] # "none"

\* A filled or failed execution is final and no recorded fill ever shrinks,
\* although both loops write rows they derived from lists made earlier.
LedgerMonotone ==
  [][\A e \in Execs :
       /\ est[e] \in {"filled", "failed"} => est'[e] = est[e]
       /\ fill'[e] >= fill[e]]_<<est, fill>>

\* The proposal of an active execution is not offered for execution again
\* unless the propose loop authorizes it: a restart alone never does.
ActiveNotAuthorized ==
  ~Reauthorize =>
    \A e \in Execs :
      est[e] \in ActiveStatus => prop[owner[e]] = "executed"

\* Realized profit is computed once and stays: no later sync, mark or repair
\* takes a settled position back, except a position the executor derived
\* before the settlement and writes after it.
SettledOnce ==
  [][\A e \in Execs :
       pnl[e] /\ xpos # e => pnl'[e] /\ pos'[e] = "resolved"]_<<pos, pnl>>

\* The orders at rest on the exchange that are neither an open row of the
\* ledger nor on their way into one: no loop will look at them again.
LostOrders ==
  {e \in Execs : /\ ord[e] = "live"
                 /\ est[e] \notin OpenStatus
                 /\ ~(xe = e /\ xpc \in {"answer", "record"})}

\* Where no fault but a failed tick of the reconcile loop and a failed look-up
\* occurs, no order at rest is ever lost, however the two loops interleave.
RestingOrdersTracked ==
  Faults \subseteq {"abort", "net_error"} => LostOrders = {}

\* Whatever occurs (crash, lost answer, failed cancel, lock time-out between
\* the post and the insert, unknown status), one fault loses one order at most.
OneOrderPerFault == Cardinality(LostOrders) <= MaxFaults - budget

\* The reconciler heals an execution whose position sync was lost in a crash.
FilledGetsPosition ==
  \A e \in Execs :
    est[e] = "filled" ~> pos[e] \in {"open", "resolved"}

\* An execution that ended after a partial fill is counted as a holding.
PartialFillGetsPosition ==
  \A e \in Execs :
    est[e] = "failed" /\ fill[e] > 0
      ~> pos[e] \in {"partially_filled", "resolved"}

\* No recorded order stays open for ever: it fills, dies, or runs out of ttl.
OrdersClose ==
  \A e \in Execs :
    est[e] \in OpenStatus ~> est[e] \in {"filled", "failed"}

\* A held position on a market that has closed is eventually resolved.
HeldPositionsSettle ==
  \A e \in Execs :
    pos[e] \in {"open", "partially_filled"} /\ closed[MarketOfExec(e)]
      ~> pos[e] = "resolved"

-----------------------------------------------------------------------------
(***************************************************************************)
(* What the documentation or a comment says and the code does not do.      *)
(***************************************************************************)

\* A restart picks up where it left off: no proposal ever has two orders that
\* rest on the exchange or are matched there.
RestartResumes ==
  \A e, f \in Execs :
    e # f /\ owner[e] = owner[f] =>
      ~(ord[e] \in {"live", "matched"} /\ ord[f] \in {"live", "matched"})

-----------------------------------------------------------------------------
\* The ledger this module implements.
Ledger == INSTANCE ExecutionLedger WITH
  entry    <- [e \in Execs |-> IF est[e] \in OpenStatus THEN "open" ELSE est[e]],
  holder   <- [e \in Execs |-> IF est[e] = "none" THEN NoProposal ELSE owner[e]],
  released <- resolved

\* The executions table behaves as a ledger: each commit of either loop books
\* new entries, closes an open one, releases a market, or changes nothing.
ImplementsLedger == Ledger!LedgerSpec

=============================================================================
