------------------------- MODULE OrderLifecycleInv --------------------------
(***************************************************************************)
(* The inductive invariant of OrderLifecycle: what holds of the rows of an *)
(* attempt, and of what each loop keeps in memory about them, at every     *)
(* point where the other loop, the exchange or a crash may come between.   *)
(***************************************************************************)
EXTENDS OrderLifecycle

InFlight == xpc \in {"post", "answer", "record"}
Syncing  == xpc \in {"sync_read", "sync_write"}

\* A written row has an owner, an unwritten one has neither fill nor position.
RowsWritten ==
  \A e \in Execs :
    /\ est[e] # "none" => owner[e] \in Proposals
    /\ est[e] = "none" => fill[e] = 0 /\ pos[e] = "none"

OrdersMatched == \A e \in Execs : ord[e] = "matched" => matched[e] = Full

\* The attempt the execute loop is working on is not written yet, and it is
\* none of the failed ones that wait for the commit.
AttemptInFlight ==
  /\ InFlight => /\ xe \in Execs \ xfail
                 /\ est[xe] = "none"
                 /\ owner[xe] \in Proposals
  /\ \A e \in xfail : est[e] = "none" /\ owner[e] \in Proposals
  /\ Syncing => /\ xe \in Execs
                /\ est[xe] # "none"
                /\ xpos = NoExec

\* Between its guards and its record nothing makes the guards false.
GuardsHold ==
  InFlight => /\ ~HasActiveExecution(owner[xe])
              /\ ~HasActiveMarketOutcomeExposure(owner[xe])

\* What the execute loop is about to record, the exchange has done.
AnswerBacked ==
  xpc \in {"answer", "record"} =>
    /\ xpc = "answer" \/ xst \in ActiveStatus => ord[xe] # "none"
    /\ xst = "filled" => ord[xe] = "matched"
    /\ xst # "none"
    /\ xfill <= matched[xe]

\* Only the reconcile loop closes a row, so the rows it has listed stay open
\* until it handles them.
ListsOpen ==
  /\ \A e \in rq : est[e] \in OpenStatus
  /\ rpc \in {"stale_write", "apply"} =>
       re \in Execs \ rq /\ est[re] \in OpenStatus

\* What it saw of an order may be old, but never ahead of the exchange nor
\* behind the fill on record.
ObservationBacked ==
  rpc = "apply" =>
    /\ robs.status # "none"
    /\ robs.status \in ActiveStatus => ord[re] # "none"
    /\ robs.status = "filled" => ord[re] = "matched"
    /\ robs.size <= matched[re]
    /\ robs.size = 0 \/ fill[re] <= robs.size

\* The position the execute loop derived from a row it read earlier is still
\* one the row allows when it is written, and when it is committed.
Derivable(e) ==
  /\ est[e] # "none"
  /\ xval \in {"open_requested", "open", "partially_filled", "cancelled"}
  /\ xval = "open" => est[e] = "filled"
  /\ xval = "partially_filled" => est[e] = "failed" /\ fill[e] > 0
  /\ xval = "cancelled" => est[e] = "failed"
PendingPosition ==
  /\ xpc = "sync_write" => Derivable(xe)
  /\ xpos # NoExec => Derivable(xpos)

PnlSettled == \A e \in Execs : pnl[e] => pos[e] = "resolved"

\* Whatever has happened, the ledger, the positions and both loops' memories
\* agree: the conjunction that every step of either loop preserves.
IInv ==
  /\ TypeOK
  /\ RowsWritten
  /\ OrdersMatched
  /\ AttemptInFlight
  /\ GuardsHold
  /\ AnswerBacked
  /\ ListsOpen
  /\ ObservationBacked
  /\ PendingPosition
  /\ PnlSettled
  /\ NoDoubleEntry
  /\ LedgerBacked
  /\ PositionBacked
  /\ ActiveNotAuthorized

=============================================================================
