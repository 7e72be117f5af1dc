---------------------------- MODULE ProposalFlow ----------------------------
(***************************************************************************)
(* The status of proposals and the loops that write it: propose, expiry    *)
(* and execute, with the human approver beside them.  Each loop has its    *)
(* own connection; SQLite admits one writer at a time, from its first      *)
(* write to its commit, and shows the others what was last committed.      *)
(* update_proposal_workflow_fields reads a row outside that lock and then  *)
(* writes all of it back.                                                  *)
(***************************************************************************)
EXTENDS Naturals, FiniteSets

CONSTANTS
  Proposals,    \* content hashes: one row each
  Regenerate,   \* may the pipeline return a proposal it returned before?
  MaxPending,   \* POLY_AUTOPILOT_MAX_PENDING_APPROVALS
  MaxFaults,  \* bound on crashes and on waits for the lock that time out
  NoProposal

ASSUME FlowAssumption ==
  /\ Regenerate \in BOOLEAN
  /\ MaxPending \in Nat
  /\ MaxFaults \in Nat
  /\ NoProposal \notin Proposals

VARIABLES
  row,       \* proposals: [status, asked], as last committed
  draft,     \* the same table as the holder of the write lock sees it
  writer,    \* who holds the write lock
  decision,  \* approvals
  active,    \* proposals with a submitted, live or filled execution
  ppc,       \* the propose loop: where it is,
  pstep,     \*   where in its current proposal,
  todo,      \*   what its list still holds,
  batch,     \*   what the pipeline returned,
  pp,        \*   the proposal in hand,
  seen,      \*   its row as read back,
  verdict,   \*   and the status it was given
  elist,     \* the expiry loop's list
  xpc,       \* the execute loop: where it is,
  xlist,     \*   what its list still holds,
  xdue,      \*   the listed proposals that had a deadline,
  xe,        \*   and the proposal in hand
  sent,      \* proposals whose approval was asked for
  clicked,   \* those whose answer the approver is about to record
  late,      \* those whose deadline has passed
  granted,   \* history: proposals a rule or the operator has authorized
  faults

tableVars == <<row, draft, writer>>
proposeVars == <<ppc, pstep, todo, batch, pp, seen, verdict>>
executeVars == <<xpc, xlist, xdue, xe>>
askVars == <<decision, sent, clicked, late>>
vars == <<tableVars, active, proposeVars, elist, executeVars, askVars, granted,
          faults>>

Terminal == {"executed", "expired", "rejected"}
Status == {"none", "proposed", "risk_blocked", "pending_approval", "approved",
           "authorized_for_execution", "failed"} \cup Terminal
Row == [status : Status, asked : BOOLEAN]
Absent == [status |-> "none", asked |-> FALSE]

\* A mutant: a limit that was reached is passed on as it is named.
VerdictsUnmapped ==
  {"risk_blocked", "pending_approval", "authorized_for_execution",
   "position_limit_reached"}

\* What evaluate_full_record may decide: it looks at the market, at sums over
\* other rows and at the authorization rules, never at the row's own status.
Verdicts == {"risk_blocked", "pending_approval", "authorized_for_execution"}

-----------------------------------------------------------------------------
(***************************************************************************)
(* The table as a connection sees it and writes it.                        *)
(***************************************************************************)
Seen(loop) == IF writer = loop THEN draft ELSE row

With(status, loop) == {p \in Proposals : Seen(loop)[p].status = status}

MayWrite(loop) == writer \in {"none", loop}

\* A write that stays in the loop's transaction.
Put(loop, p, r) ==
  /\ MayWrite(loop)
  /\ writer' = loop
  /\ draft' = [Seen(loop) EXCEPT ![p] = r]
  /\ UNCHANGED row

\* A write and a commit.
PutAndCommit(loop, p, r) ==
  /\ MayWrite(loop)
  /\ writer' = "none"
  /\ draft' = [Seen(loop) EXCEPT ![p] = r]
  /\ row' = draft'

\* record_heartbeat writes, so that every tick that ends commits something.
Commit(loop) ==
  /\ MayWrite(loop)
  /\ writer' = "none"
  /\ draft' = Seen(loop)
  /\ row' = draft'

\* The busy timeout of a loop that needs the lock runs out.
TimesOut(loop) ==
  /\ ~MayWrite(loop)
  /\ faults < MaxFaults
  /\ faults' = faults + 1

Init ==
  /\ row = [p \in Proposals |-> Absent] /\ draft = row /\ writer = "none"
  /\ decision = [p \in Proposals |-> "none"]
  /\ active = {} /\ granted = {}
  /\ sent = {} /\ clicked = {} /\ late = {}
  /\ ppc = "idle" /\ pstep = "pick" /\ todo = {} /\ batch = {}
  /\ pp = NoProposal /\ seen = Absent /\ verdict = "none"
  /\ elist = {}
  /\ xpc = "idle" /\ xlist = {} /\ xdue = {} /\ xe = NoProposal
  /\ faults = 0

-----------------------------------------------------------------------------
(***************************************************************************)
(* The propose loop: _loop_propose.                                        *)
(***************************************************************************)

Assessing == ppc \in {"sweep", "assess", "resweep"}

\* Mutants: the sweep takes blocked proposals up again; it waits for room.
StartSweepBlocked ==
  /\ ppc = "idle"
  /\ ppc' = "sweep"
  /\ todo' = With("proposed", "propose") \cup With("risk_blocked", "propose")
  /\ UNCHANGED <<tableVars, active, elist, executeVars, askVars, granted>>
  /\ UNCHANGED <<pstep, batch, pp, seen, verdict, faults>>

StartSweepGated ==
  /\ ppc = "idle"
  /\ ppc' = "sweep"
  /\ todo' = IF Cardinality(With("pending_approval", "propose")) < MaxPending
             THEN With("proposed", "propose") ELSE {}
  /\ UNCHANGED <<tableVars, active, elist, executeVars, askVars, granted>>
  /\ UNCHANGED <<pstep, batch, pp, seen, verdict, faults>>

\* _sweep_proposed_records lists the proposals that wait for an assessment.
StartSweep ==
  /\ ppc = "idle"
  /\ ppc' = "sweep"
  /\ todo' = With("proposed", "propose")
  /\ UNCHANGED <<tableVars, active, elist, executeVars, askVars, granted>>
  /\ UNCHANGED <<pstep, batch, pp, seen, verdict, faults>>

\* evaluate_full_record.  A refusal persists its reasons, which takes the write
\* lock unless the wait for it times out; the other verdicts write nothing.
Assess(p) ==
  /\ Assessing /\ pstep = "pick" /\ p \in todo
  /\ verdict' \in Verdicts
  /\ IF verdict' = "risk_blocked"
     THEN \/ Put("propose", p, Seen("propose")[p]) /\ UNCHANGED faults
          \/ TimesOut("propose") /\ UNCHANGED tableVars
     ELSE UNCHANGED <<tableVars, faults>>
  /\ granted' = IF verdict' = "authorized_for_execution"
                THEN granted \cup {p} ELSE granted
  /\ pp' = p /\ pstep' = "read" /\ todo' = todo \ {p}
  /\ UNCHANGED <<ppc, batch, seen>>
  /\ UNCHANGED <<active, elist, executeVars, askVars>>

\* run_proposal_pipeline upserts one proposal, whose status changes only when
\* it is new, and commits.
Upsert(p) ==
  /\ ppc = "pipe" /\ pstep = "pick" /\ p \in todo
  /\ PutAndCommit("propose", p,
       [Seen("propose")[p] EXCEPT
          !.status = IF @ = "none" THEN "proposed" ELSE @])
  /\ pp' = p /\ pstep' = "read" /\ todo' = todo \ {p}
  /\ UNCHANGED <<ppc, batch, seen, verdict>>
  /\ UNCHANGED <<active, elist, executeVars, askVars, granted, faults>>

\* update_proposal_workflow_fields reads the row: its SELECT takes no lock.
ReadBack ==
  /\ pstep = "read"
  /\ seen' = Seen("propose")[pp]
  /\ pstep' = "write"
  /\ UNCHANGED <<ppc, todo, batch, pp, verdict>>
  /\ UNCHANGED <<tableVars, active, elist, executeVars, askVars, granted>>
  /\ UNCHANGED faults

\* Its UPDATE writes every field back, the status the caller gave or else the
\* one that was read.  The pipeline gives none, and commits.
WriteBack ==
  /\ pstep = "write"
  /\ IF ppc = "pipe" THEN PutAndCommit("propose", pp, seen)
     ELSE Put("propose", pp, [seen EXCEPT !.status = verdict])
  /\ pstep' = "pick" /\ pp' = NoProposal /\ seen' = Absent /\ verdict' = "none"
  /\ UNCHANGED <<ppc, todo, batch>>
  /\ UNCHANGED <<active, elist, executeVars, askVars, granted, faults>>

\* Unless too many proposals are pending, the loop goes on to the model (or
\* the heuristic), in the transaction the sweep may have opened.
CallModel ==
  /\ ppc = "sweep" /\ pstep = "pick" /\ todo = {}
  /\ Cardinality(With("pending_approval", "propose")) < MaxPending
  /\ ppc' = "model"
  /\ UNCHANGED <<tableVars, active, elist, executeVars, askVars, granted>>
  /\ UNCHANGED <<pstep, todo, batch, pp, seen, verdict, faults>>

\* The answer names proposals, new ones or ones whose content recurs; market
\* snapshots are written and committed before the first of them.
ModelAnswers ==
  /\ ppc = "model"
  /\ \E b \in SUBSET {p \in Proposals : Regenerate \/ row[p].status = "none"} :
       batch' = b /\ todo' = b
  /\ Commit("propose")
  /\ ppc' = "pipe"
  /\ UNCHANGED <<pstep, pp, seen, verdict>>
  /\ UNCHANGED <<active, elist, executeVars, askVars, granted, faults>>

\* Every proposal the pipeline returned is assessed, whatever its status.
AssessBatch ==
  /\ ppc = "pipe" /\ pstep = "pick" /\ todo = {}
  /\ ppc' = "assess" /\ todo' = batch
  /\ UNCHANGED <<tableVars, active, elist, executeVars, askVars, granted>>
  /\ UNCHANGED <<pstep, batch, pp, seen, verdict, faults>>

SweepAgain ==
  /\ ppc = "assess" /\ pstep = "pick" /\ todo = {}
  /\ ppc' = "resweep" /\ todo' = With("proposed", "propose")
  /\ UNCHANGED <<tableVars, active, elist, executeVars, askVars, granted>>
  /\ UNCHANGED <<pstep, batch, pp, seen, verdict, faults>>

\* The tick ends: after the second sweep, after the first one when there is
\* no room for more pending proposals, the model must not be called yet or
\* there are no markets, and when the model reports a rate limit.
EndProposeTick ==
  /\ pstep = "pick" /\ todo = {} /\ ppc \in {"sweep", "model", "resweep"}
  /\ Commit("propose")
  /\ ppc' = "idle" /\ batch' = {}
  /\ UNCHANGED <<pstep, todo, pp, seen, verdict>>
  /\ UNCHANGED <<active, elist, executeVars, askVars, granted, faults>>

\* The lock does not come in time.  An assessment is given up for this tick;
\* anywhere else the exception ends the tick.
ProposeTimesOut ==
  /\ TimesOut("propose")
  /\ \/ /\ Assessing /\ pstep = "write"
        /\ UNCHANGED <<ppc, todo, batch>>
     \/ /\ \/ ppc = "model"
           \/ ppc = "pipe" /\ pstep = "write"
           \/ ppc = "pipe" /\ pstep = "pick" /\ todo # {}
        /\ ppc' = "idle" /\ todo' = {} /\ batch' = {}
  /\ pstep' = "pick" /\ pp' = NoProposal /\ seen' = Absent /\ verdict' = "none"
  /\ UNCHANGED <<tableVars, active, elist, executeVars, askVars, granted>>

ProposeStep ==
  \/ StartSweep \/ CallModel \/ ModelAnswers \/ AssessBatch \/ SweepAgain
  \/ \E p \in Proposals : Assess(p) \/ Upsert(p)
  \/ ReadBack \/ WriteBack
  \/ EndProposeTick \/ ProposeTimesOut

-----------------------------------------------------------------------------
(***************************************************************************)
(* The expiry loop: _loop_expiry.                                          *)
(***************************************************************************)

\* Mutants: whatever the deadline; whatever the status.
ListExpiredEarly ==
  /\ elist = {}
  /\ elist' = {p \in With("pending_approval", "expiry") : row[p].asked}
  /\ elist' # {}
  /\ UNCHANGED <<tableVars, active, proposeVars, executeVars, askVars>>
  /\ UNCHANGED <<granted, faults>>

ListExpiredAny ==
  /\ elist = {}
  /\ elist' = {p \in Proposals : row[p].asked /\ p \in late}
  /\ elist' # {}
  /\ UNCHANGED <<tableVars, active, proposeVars, executeVars, askVars>>
  /\ UNCHANGED <<granted, faults>>

\* list_expired_pending_proposals.
ListExpired ==
  /\ elist = {}
  /\ elist' = {p \in With("pending_approval", "expiry") :
                 row[p].asked /\ p \in late}
  /\ elist' # {}
  /\ UNCHANGED <<tableVars, active, proposeVars, executeVars, askVars>>
  /\ UNCHANGED <<granted, faults>>

\* A mutant: the tick ends without a commit.
ExpireLost(p) ==
  /\ p \in elist
  /\ IF elist = {p}
     THEN MayWrite("expiry") /\ writer' = "none" /\ draft' = row
          /\ UNCHANGED row
     ELSE Put("expiry", p, [Seen("expiry")[p] EXCEPT !.status = "expired"])
  /\ elist' = elist \ {p}
  /\ UNCHANGED <<active, proposeVars, executeVars, askVars, granted, faults>>

\* update_proposal_status: it warns of an illegal transition and makes it.
\* The commit comes with the last proposal of the list.
Expire(p) ==
  /\ p \in elist
  /\ LET r == [Seen("expiry")[p] EXCEPT !.status = "expired"] IN
       IF elist = {p} THEN PutAndCommit("expiry", p, r)
       ELSE Put("expiry", p, r)
  /\ elist' = elist \ {p}
  /\ UNCHANGED <<active, proposeVars, executeVars, askVars, granted, faults>>

ExpiryTimesOut(p) ==
  /\ p \in elist
  /\ TimesOut("expiry")
  /\ elist' = elist \ {p}
  /\ UNCHANGED <<tableVars, active, proposeVars, executeVars, askVars, granted>>

ExpiryStep ==
  \/ ListExpired
  \/ \E p \in Proposals : Expire(p) \/ ExpiryTimesOut(p)

-----------------------------------------------------------------------------
(***************************************************************************)
(* The execute loop: _loop_execute.  OrderLifecycle has its steps in       *)
(* detail; here an attempt is a refusal or an order, and its recording.    *)
(***************************************************************************)

\* A mutant: proposals that wait for the operator are listed as well.
ListAuthorizedPending ==
  /\ xpc = "idle"
  /\ xlist' = With("authorized_for_execution", "execute")
                \cup With("pending_approval", "execute")
  /\ xlist' # {}
  /\ xdue' = {p \in xlist' : row[p].asked}
  /\ xpc' = "pick"
  /\ UNCHANGED <<tableVars, active, proposeVars, elist, askVars, granted>>
  /\ UNCHANGED <<xe, faults>>

ListAuthorized ==
  /\ xpc = "idle"
  /\ xlist' = With("authorized_for_execution", "execute") /\ xlist' # {}
  /\ xdue' = {p \in xlist' : row[p].asked}
  /\ xpc' = "pick"
  /\ UNCHANGED <<tableVars, active, proposeVars, elist, askVars, granted>>
  /\ UNCHANGED <<xe, faults>>

\* A mutant: the attempt is recorded, the proposal left as it is.
RecordFailureOnly(p) ==
  Put("execute", p, Seen("execute")[p])

\* record_execution of a failed attempt: the proposal fails unless its row
\* says executed by now.  The row stays in the transaction of the tick.
RecordFailure(p) ==
  Put("execute", p,
      [Seen("execute")[p] EXCEPT
         !.status = IF @ = "executed" THEN @ ELSE "failed"])

\* A guard of execute_record refuses: the kill switch, an active execution,
\* the deadline in the listed record, balance, price, ...
Refuse(p) ==
  /\ xpc = "pick" /\ p \in xlist
  /\ RecordFailure(p)
  /\ xlist' = xlist \ {p}
  /\ UNCHANGED <<active, proposeVars, elist, askVars, granted, faults>>
  /\ UNCHANGED <<xpc, xdue, xe>>

\* A mutant: the deadline is not looked at.
PassGuardsLate(p) ==
  /\ xpc = "pick" /\ p \in xlist
  /\ p \notin active
  /\ xe' = p /\ xlist' = xlist \ {p} /\ xpc' = "post"
  /\ UNCHANGED <<tableVars, active, proposeVars, elist, askVars, granted>>
  /\ UNCHANGED <<xdue, faults>>

\* The guards pass.  The status they look at is the listed one, and so is the
\* deadline; has_active_execution asks the database.
PassGuards(p) ==
  /\ xpc = "pick" /\ p \in xlist
  /\ ~(p \in xdue /\ p \in late)
  /\ p \notin active
  /\ xe' = p /\ xlist' = xlist \ {p} /\ xpc' = "post"
  /\ UNCHANGED <<tableVars, active, proposeVars, elist, askVars, granted>>
  /\ UNCHANGED <<xdue, faults>>

PostRejected ==
  /\ xpc = "post"
  /\ RecordFailure(xe)
  /\ xe' = NoProposal /\ xpc' = "pick"
  /\ UNCHANGED <<active, proposeVars, elist, askVars, granted, faults>>
  /\ UNCHANGED <<xlist, xdue>>

PostOrder ==
  /\ xpc = "post"
  /\ xpc' = "record"
  /\ UNCHANGED <<tableVars, active, proposeVars, elist, askVars, granted>>
  /\ UNCHANGED <<xlist, xdue, xe, faults>>

\* record_execution of an accepted order commits at once.
RecordOrder ==
  /\ xpc = "record"
  /\ PutAndCommit("execute", xe,
       [Seen("execute")[xe] EXCEPT !.status = "executed"])
  /\ active' = active \cup {xe}
  /\ xe' = NoProposal /\ xpc' = "pick"
  /\ UNCHANGED <<proposeVars, elist, askVars, granted, faults>>
  /\ UNCHANGED <<xlist, xdue>>

\* record_execution raises when the lock does not come: the attempt leaves no
\* trace and the loop goes on to the next record.
ExecuteTimesOut ==
  /\ TimesOut("execute")
  /\ \/ xpc = "pick" /\ \E p \in xlist : xlist' = xlist \ {p}
     \/ xpc \in {"post", "record"} /\ UNCHANGED xlist
  /\ xe' = NoProposal /\ xpc' = "pick"
  /\ UNCHANGED <<tableVars, active, proposeVars, elist, askVars, granted>>
  /\ UNCHANGED xdue

EndExecuteTick ==
  /\ xpc = "pick" /\ xlist = {}
  /\ Commit("execute")
  /\ xpc' = "idle" /\ xdue' = {}
  /\ UNCHANGED <<active, proposeVars, elist, askVars, granted, faults>>
  /\ UNCHANGED <<xlist, xe>>

ExecuteStep ==
  \/ ListAuthorized
  \/ \E p \in Proposals : Refuse(p) \/ PassGuards(p)
  \/ PostRejected \/ PostOrder \/ RecordOrder \/ ExecuteTimesOut
  \/ EndExecuteTick

-----------------------------------------------------------------------------
(***************************************************************************)
(* The approver, other writers and the clock.                              *)
(***************************************************************************)

\* A commit by another connection.
Other(p, r) ==
  /\ writer = "none"
  /\ row' = [row EXCEPT ![p] = r] /\ draft' = row'
  /\ UNCHANGED writer

\* _loop_exit, an alpha import or a command line tool adds a proposal.
Insert(p) ==
  /\ row[p].status = "none"
  /\ Other(p, [Absent EXCEPT !.status = "proposed"])
  /\ UNCHANGED <<active, proposeVars, elist, executeVars, askVars, granted>>
  /\ UNCHANGED faults

\* The approver sends the message and stores its id and deadline.
Ask(p) ==
  /\ row[p].status = "pending_approval" /\ ~row[p].asked /\ p \notin sent
  /\ Other(p, [row[p] EXCEPT !.asked = TRUE])
  /\ sent' = sent \cup {p}
  /\ UNCHANGED <<active, proposeVars, elist, executeVars, granted, faults>>
  /\ UNCHANGED <<decision, clicked, late>>

\* The operator answers a message, and the approver sees that the proposal is
\* pending still.  Nothing is written yet.
Click(p) ==
  /\ p \in sent \ clicked
  /\ row[p].status = "pending_approval"
  /\ clicked' = clicked \cup {p}
  /\ UNCHANGED <<tableVars, active, proposeVars, elist, executeVars, granted>>
  /\ UNCHANGED <<decision, sent, late, faults>>

\* record_approval, once the lock is free: the decision and the status,
\* whatever the status and the deadline are by then.
Answer(p) ==
  /\ p \in clicked
  /\ \E d \in {"approved", "rejected"} :
       /\ Other(p, [row[p] EXCEPT !.status = d])
       /\ decision' = [decision EXCEPT ![p] = d]
       /\ granted' = IF d = "approved" THEN granted \cup {p} ELSE granted
  /\ clicked' = clicked \ {p}
  /\ UNCHANGED <<active, proposeVars, elist, executeVars, faults>>
  /\ UNCHANGED <<sent, late>>

\* The approver hands an approved proposal to the executor.
Promote(p) ==
  /\ row[p].status = "approved"
  /\ Other(p, [row[p] EXCEPT !.status = "authorized_for_execution"])
  /\ UNCHANGED <<active, proposeVars, elist, executeVars, askVars, granted>>
  /\ UNCHANGED faults

PassDeadline(p) ==
  /\ p \in sent \ late
  /\ late' = late \cup {p}
  /\ UNCHANGED <<tableVars, active, proposeVars, elist, executeVars, granted>>
  /\ UNCHANGED <<decision, sent, clicked, faults>>

\* The reconcile loop writes an execution off.
OrderFails(p) ==
  /\ p \in active /\ writer = "none"
  /\ active' = active \ {p}
  /\ UNCHANGED <<tableVars, proposeVars, elist, executeVars, askVars, granted>>
  /\ UNCHANGED faults

\* The process dies: SQLite rolls back what is uncommitted, the loops start
\* afresh.
Crash ==
  /\ faults < MaxFaults /\ faults' = faults + 1
  /\ writer' = "none" /\ draft' = row
  /\ ppc' = "idle" /\ pstep' = "pick" /\ todo' = {} /\ batch' = {}
  /\ pp' = NoProposal /\ seen' = Absent /\ verdict' = "none"
  /\ elist' = {}
  /\ xpc' = "idle" /\ xlist' = {} /\ xdue' = {} /\ xe' = NoProposal
  /\ UNCHANGED <<row, active, askVars, granted>>

OtherStep ==
  \E p \in Proposals :
    \/ Insert(p) \/ Ask(p) \/ Click(p) \/ Answer(p) \/ Promote(p)
    \/ PassDeadline(p) \/ OrderFails(p)

Next == ProposeStep \/ ExpiryStep \/ ExecuteStep \/ OtherStep \/ Crash

Spec == Init /\ [][Next]_vars

(***************************************************************************)
(* Every loop is a thread that is ticked for ever, and a deadline is       *)
(* wall-clock time.  Strong fairness where the propose loop, which sleeps  *)
(* between its ticks, leaves the write lock to a waiter that retries every *)
(* tenth of a second.  The operator may never answer.                      *)
(***************************************************************************)
Fairness ==
  /\ WF_vars(ProposeStep)
  /\ SF_vars(ExpiryStep)
  /\ SF_vars(ExecuteStep)
  /\ \A p \in Proposals : WF_vars(PassDeadline(p))

FairSpec == Spec /\ Fairness

-----------------------------------------------------------------------------
(***************************************************************************)
(* Properties.                                                             *)
(***************************************************************************)

TypeOK ==
  /\ row \in [Proposals -> Row] /\ draft \in [Proposals -> Row]
  /\ writer \in {"none", "propose", "expiry", "execute"}
  /\ decision \in [Proposals -> {"none", "approved", "rejected"}]
  /\ active \subseteq Proposals
  /\ ppc \in {"idle", "sweep", "model", "pipe", "assess", "resweep"}
  /\ pstep \in {"pick", "read", "write"}
  /\ todo \subseteq Proposals /\ batch \subseteq Proposals
  /\ pp \in Proposals \cup {NoProposal}
  /\ seen \in Row
  /\ verdict \in Verdicts \cup {"none"}
  /\ elist \subseteq Proposals
  /\ xpc \in {"idle", "pick", "post", "record"}
  /\ xlist \subseteq Proposals /\ xdue \subseteq Proposals
  /\ xe \in Proposals \cup {NoProposal}
  /\ sent \subseteq Proposals /\ clicked \subseteq Proposals
  /\ late \subseteq Proposals
  /\ granted \subseteq Proposals
  /\ faults \in 0..MaxFaults

\* No order is posted for a proposal that neither a rule nor the operator has
\* ever authorized, although every loop writes back rows it read earlier and
\* the executor acts on a list that may be old.
OrdersAreGranted ==
  xpc \in {"post", "record"} => xe \in granted

\* A proposal whose execution is submitted, live or filled is never open for
\* an approval or an assessment, nor expired by a list that is older than the
\* answer, when contents do not recur: what the expiry loop still holds when
\* the answer is recorded has a deadline that execute_record looks at.
ActiveIsClosed ==
  ~Regenerate => \A p \in active : row[p].status = "executed"

\* What the operator decided is what the proposal's status shows, until the
\* executor has used it or, for an answer recorded while the expiry loop has
\* the proposal on its list, the expiry overwrites it: that happens only after
\* the deadline, and no loop ever turns a decision into its opposite, when
\* contents do not recur.
DecisionStands ==
  ~Regenerate =>
    \A p \in Proposals :
      LET expired == IF p \in late THEN {"expired"} ELSE {} IN
        /\ decision[p] = "rejected" => row[p].status \in {"rejected"} \cup expired
        /\ decision[p] = "approved" =>
             row[p].status \in {"approved", "authorized_for_execution",
                               "executed", "failed"} \cup expired

\* The table of legal transitions and the ones that the automatic rules add.
LegalNext ==
  [none |-> {"proposed"},
   proposed |-> Verdicts,
   risk_blocked |-> {"proposed"},
   pending_approval |-> {"approved", "rejected", "expired",
                         "authorized_for_execution"},
   approved |-> {"authorized_for_execution", "executed", "failed"},
   authorized_for_execution |-> {"executed", "failed"},
   executed |-> {}, failed |-> {"proposed"}, expired |-> {}, rejected |-> {}]

\* What an answer and the expiry of its message, in either order, add.
Crossed ==
  [approved |-> {"expired"}, rejected |-> {"expired"},
   authorized_for_execution |-> {"expired"}, failed |-> {"expired"},
   expired |-> {"approved", "rejected", "failed"}]

MayBecome(p, from, to) ==
  \/ to \in LegalNext[from]
  \/ /\ p \in late /\ decision'[p] # "none"
     /\ from \in DOMAIN Crossed /\ to \in Crossed[from]

\* When contents do not recur, no commit of any loop takes a proposal along a
\* transition that LEGAL_PROPOSAL_TRANSITIONS or a matched rule does not allow,
\* except where an answer crosses the expiry of its message; and that never
\* reopens a proposal for an assessment nor touches one that was executed.
StatusMachine ==
  [][~Regenerate =>
       \A p \in Proposals :
         row'[p].status # row[p].status
           => MayBecome(p, row[p].status, row'[p].status)]_row

\* A proposal that waits for an assessment gets one, whether or not the model
\* may be called.
ProposedIsAssessed ==
  \A p \in Proposals :
    row[p].status = "proposed" ~> row[p].status # "proposed"

\* An authorized proposal is executed or refused.
AuthorizedIsTried ==
  \A p \in Proposals :
    row[p].status = "authorized_for_execution"
      ~> row[p].status # "authorized_for_execution"

\* A proposal that was asked for and not answered in time expires.
UnansweredExpires ==
  \A p \in Proposals :
    row[p].status = "pending_approval" /\ p \in late
      ~> row[p].status # "pending_approval"

-----------------------------------------------------------------------------
(***************************************************************************)
(* What the documentation or a comment says and the code does not do.      *)
(***************************************************************************)

\* A proposal the operator rejected does not reach the exchange.
RejectedStaysOut ==
  xpc = "record" => decision[xe] # "rejected"

=============================================================================
