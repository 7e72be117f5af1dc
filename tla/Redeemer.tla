------------------------------ MODULE Redeemer ------------------------------
(***************************************************************************)
(* The last part of a reconcile tick: what resolved positions are worth is *)
(* drawn from the chain, one transaction per market, and the positions are *)
(* stamped with the transaction that paid them.  All stamps of a tick are  *)
(* committed together at its end.                                          *)
(***************************************************************************)
EXTENDS Integers, Sequences, SequencesExt

CONSTANTS
  Positions,
  MarketOf,   \* [Positions -> the market of each]
  Listing,    \* the markets in the order the query returns them
  NegRisk,    \* markets redeemed through the adapter, by amounts
  MaxTx,      \* bound: transactions sent
  MaxFaults   \* bound: failed requests, answers too late and crashes

Markets == Range(Listing)

RedeemerAssumption ==
  /\ MarketOf \in [Positions -> Markets] /\ NegRisk \subseteq Markets
  /\ {MaxTx, MaxFaults} \subseteq Nat

VARIABLES
  resolved,  \* positions with status resolved
  stamp,     \* redeemed_tx_hash, 0 while redeemed_at is NULL
  held,      \* the positions whose shares are in the wallet
  reported,  \* markets whose payout is known to the chain
  txs,       \* what was sent: [market, amount, nonce, state]
  mined,     \* transactions of the wallet in the chain
  job,       \* [at, todo, marks]: the tick under way
  excused,   \* history: markets paid without our knowing
  faults

chainVars == <<held, reported, mined>>
rowVars == <<resolved, stamp>>
vars == <<rowVars, chainVars, txs, job, excused, faults>>

Idle == [at |-> "idle", todo |-> <<>>, marks |-> [p \in Positions |-> 0]]

OfMarket(m) == {p \in Positions : MarketOf[p] = m}
Due(m) == \E p \in OfMarket(m) \cap resolved : stamp[p] = 0
Balance(m) == OfMarket(m) \cap held

Init ==
  /\ resolved = {} /\ stamp = [p \in Positions |-> 0]
  /\ held = Positions /\ reported = {} /\ mined = 0
  /\ txs = <<>> /\ job = Idle /\ excused = {} /\ faults = 0

Fault == faults < MaxFaults /\ faults' = faults + 1

-----------------------------------------------------------------------------
(***************************************************************************)
(* redeem_resolved_positions.                                              *)
(***************************************************************************)
StartTick ==
  /\ job.at = "idle"
  /\ job' = [Idle EXCEPT !.at = "market", !.todo = SelectSeq(Listing, Due)]
  /\ UNCHANGED <<rowVars, chainVars, txs, excused, faults>>

NextMarket == [job EXCEPT !.at = "market", !.todo = Tail(@)]

\* Nothing in the wallet, or no payout to draw yet: the market is passed over.
\* The adapter is asked by a call that changes nothing, and its refusal reported.
PassOver ==
  /\ job.at = "market" /\ job.todo # <<>>
  /\ Balance(Head(job.todo)) = {} \/ Head(job.todo) \notin reported
  /\ job' = NextMarket
  /\ UNCHANGED <<rowVars, chainVars, txs, excused, faults>>

\* A request throttled to the end of its retries ends the tick; any other
\* error ends the market.
RequestFails ==
  /\ job.at = "market" /\ job.todo # <<>> /\ Fault
  /\ \/ job' = [job EXCEPT !.todo = <<>>]
     \/ job' = NextMarket
  /\ UNCHANGED <<rowVars, chainVars, txs, excused>>

\* The nonce is that of the latest block: one that is still pending is met by a
\* second transaction of the same nonce, and the node keeps one of the two.
Rivals(n) == {i \in DOMAIN txs : txs[i].state = "pending" /\ txs[i].nonce = n}

Send ==
  /\ job.at = "market" /\ job.todo # <<>> /\ Len(txs) < MaxTx
  /\ LET m == Head(job.todo)
         tx == [market |-> m, amount |-> Balance(m), nonce |-> mined, state |-> "pending"]
     IN  /\ Balance(m) # {} /\ m \in reported
         /\ txs' = Append([i \in DOMAIN txs |->
                     IF i \in Rivals(mined) THEN [txs[i] EXCEPT !.state = "dropped"] ELSE txs[i]], tx)
  /\ job' = [job EXCEPT !.at = "waiting"]
  /\ UNCHANGED <<rowVars, chainVars, excused, faults>>

SendRefused ==
  /\ job.at = "market" /\ job.todo # <<>> /\ Rivals(mined) # {}
  /\ Balance(Head(job.todo)) # {} /\ Head(job.todo) \in reported
  /\ job' = NextMarket
  /\ UNCHANGED <<rowVars, chainVars, txs, excused, faults>>

\* Mutant: a receipt is taken for a payment.
PaidOnReceipt(tx) == tx.state \in {"paid", "reverted"}

\* receipt["status"] == 1
Paid(tx) == tx.state = "paid"

\* _mark_positions_redeemed, in the transaction of the tick.
Marked(m, i) ==
  [p \in Positions |-> IF p \in OfMarket(m) \cap resolved /\ stamp[p] = 0 /\ job.marks[p] = 0
                       THEN i ELSE job.marks[p]]

Receipt ==
  /\ job.at = "waiting" /\ Last(txs).state \in {"paid", "reverted"}
  /\ job' = IF Paid(Last(txs))
            THEN [NextMarket EXCEPT !.marks = Marked(Last(txs).market, Len(txs))]
            ELSE NextMarket
  /\ UNCHANGED <<rowVars, chainVars, txs, excused, faults>>

\* The market is reported as failed; the transaction may still be mined.
TimesOut ==
  /\ job.at = "waiting" /\ Last(txs).state = "pending" /\ Fault
  /\ job' = NextMarket /\ excused' = excused \cup {Last(txs).market}
  /\ UNCHANGED <<rowVars, chainVars, txs>>

\* The stamp could not be written: the error is put into the result.
StampFails ==
  /\ job.at = "waiting" /\ Paid(Last(txs)) /\ Fault
  /\ job' = NextMarket /\ excused' = excused \cup {Last(txs).market}
  /\ UNCHANGED <<rowVars, chainVars, txs>>

EndTick ==
  /\ job.at = "market" /\ job.todo = <<>>
  /\ stamp' = [p \in Positions |-> IF job.marks[p] # 0 THEN job.marks[p] ELSE stamp[p]]
  /\ job' = Idle
  /\ UNCHANGED <<resolved, chainVars, txs, excused, faults>>

\* The process dies, or the commit fails: the stamps of the tick are gone.
Crash ==
  /\ job.at # "idle" /\ Fault
  /\ excused' = excused \cup {MarketOf[p] : p \in {q \in Positions : job.marks[q] # 0}}
                        \cup (IF job.at = "waiting" THEN {Last(txs).market} ELSE {})
  /\ job' = Idle
  /\ UNCHANGED <<rowVars, chainVars, txs>>

-----------------------------------------------------------------------------
(***************************************************************************)
(* The chain, and the settlement of positions by the other loops, which    *)
(* waits while the tick holds the write lock.                              *)
(***************************************************************************)
Report(m) ==
  /\ m \notin reported /\ reported' = reported \cup {m}
  /\ UNCHANGED <<rowVars, held, mined, txs, job, excused, faults>>

\* The standard contract pays all there is, the adapter the amounts it is given;
\* either may revert for want of gas.
Mine(i) ==
  /\ txs[i].state = "pending" /\ txs[i].nonce = mined
  /\ LET m == txs[i].market
         paid == IF m \in NegRisk THEN txs[i].amount ELSE Balance(m)
     IN  \/ /\ paid \subseteq held
            /\ held' = held \ paid
            /\ txs' = [txs EXCEPT ![i].state = "paid"]
         \/ /\ UNCHANGED held
            /\ txs' = [txs EXCEPT ![i].state = "reverted"]
  /\ mined' = mined + 1
  /\ UNCHANGED <<rowVars, reported, job, excused, faults>>

Settle(p) ==
  /\ MarketOf[p] \in reported /\ p \notin resolved
  /\ \A q \in Positions : job.marks[q] = 0
  /\ resolved' = resolved \cup {p}
  /\ excused' = IF p \in held THEN excused ELSE excused \cup {MarketOf[p]}
  /\ UNCHANGED <<stamp, chainVars, txs, job, faults>>

Next ==
  \/ StartTick \/ PassOver \/ RequestFails \/ Send \/ SendRefused \/ Receipt
  \/ TimesOut \/ StampFails \/ EndTick \/ Crash
  \/ \E m \in Markets : Report(m)
  \/ \E i \in DOMAIN txs : Mine(i)
  \/ \E p \in Positions : Settle(p)

Spec == Init /\ [][Next]_vars

-----------------------------------------------------------------------------
\* A stamp names a transaction that paid this market's shares; and between the
\* ticks a position that was paid has its stamp, unless the answer came too
\* late, the process died or the write failed after sending, or the position
\* was settled after the payment.
StampsMatchChain ==
  /\ \A p \in Positions : stamp[p] # 0 =>
       /\ Paid(txs[stamp[p]]) /\ txs[stamp[p]].market = MarketOf[p]
       /\ p \notin held
  /\ job.at = "idle" =>
       \A p \in resolved : p \notin held /\ MarketOf[p] \notin excused => stamp[p] # 0
=============================================================================
