--------------------------- MODULE RedeemerProofs ---------------------------
(***************************************************************************)
(* The stamps of redeemed positions agree with what the chain has paid,    *)
(* for any positions, markets, listing and sequence of faults.             *)
(***************************************************************************)
EXTENDS Redeemer, TLAPS

\* A sequence of transactions, whatever markets they are for.
IsLog(s) ==
  /\ \E S : s \in Seq(S)
  /\ \A i \in DOMAIN s : /\ DOMAIN s[i] = {"market", "amount", "nonce", "state"}
                         /\ s[i].state \in {"pending", "paid", "reverted", "dropped"}

Marks == [Positions -> Nat]

Typed ==
  /\ IsLog(txs) /\ stamp \in Marks
  /\ DOMAIN job = {"at", "todo", "marks"}
  /\ job.at \in {"idle", "market", "waiting"} /\ job.marks \in Marks

\* What a pending transaction will pay empties the wallet of its market, and
\* nothing fills it again.
Emptied ==
  \A i \in DOMAIN txs :
    /\ txs[i].state = "pending" => /\ Balance(txs[i].market) \subseteq txs[i].amount
                                   /\ txs[i].amount \subseteq OfMarket(txs[i].market)
    /\ txs[i].state = "paid" => Balance(txs[i].market) = {}

\* Only the transaction that is waited for can be paid to our knowledge.
Watched ==
  /\ job.at = "waiting" => txs # <<>>
  /\ \A i \in DOMAIN txs : txs[i].state = "pending" =>
       \/ txs[i].market \in excused
       \/ job.at = "waiting" /\ i = Len(txs)

Backed(f) ==
  \A p \in Positions : f[p] # 0 =>
    /\ f[p] \in DOMAIN txs /\ txs[f[p]].state = "paid"
    /\ txs[f[p]].market = MarketOf[p]

\* The receipt that the tick is about to see.
Arrived(p) ==
  job.at = "waiting" /\ Paid(Last(txs)) /\ Last(txs).market = MarketOf[p]

PaymentsKnown ==
  \A p \in resolved : p \notin held /\ MarketOf[p] \notin excused =>
    stamp[p] # 0 \/ job.marks[p] # 0 \/ Arrived(p)

RInv ==
  /\ resolved \subseteq Positions
  /\ Typed /\ Emptied /\ Watched /\ Backed(stamp) /\ Backed(job.marks)
  /\ job.at = "idle" => \A p \in Positions : job.marks[p] = 0
  /\ PaymentsKnown

-----------------------------------------------------------------------------
LEMMA LogLast ==
  ASSUME IsLog(txs), txs # <<>>
  PROVE  /\ Len(txs) \in DOMAIN txs /\ Last(txs) = txs[Len(txs)]
         /\ Len(txs) \in Nat \ {0}
<1>1. PICK S : txs \in Seq(S)  BY DEF IsLog
<1> QED  BY <1>1 DEF Last

\* Steps of the tick that send nothing and see no receipt.
LEMMA TickStep ==
  ASSUME RInv, UNCHANGED <<resolved, stamp, held, txs>>,
         excused \subseteq excused',
         DOMAIN job' = {"at", "todo", "marks"}, job'.at \in {"idle", "market"},
         job'.marks \in Marks, Backed(job'.marks),
         job'.at = "idle" => \A p \in Positions : job'.marks[p] = 0,
         \A p \in resolved : /\ p \notin held /\ MarketOf[p] \notin excused'
                             /\ stamp[p] = 0
                             => job'.marks[p] # 0,
         \A i \in DOMAIN txs : txs[i].state = "pending" => txs[i].market \in excused'
  PROVE  RInv'
<1>1. Typed' /\ Emptied' /\ resolved' \subseteq Positions
  BY DEF RInv, Typed, IsLog, Emptied, Balance, OfMarket
<1>2. Watched'  BY DEF RInv, Watched
<1>3. Backed(stamp)' /\ Backed(job.marks)'  BY DEF RInv, Backed
<1>4. PaymentsKnown'  BY DEF PaymentsKnown
<1> QED  BY <1>1, <1>2, <1>3, <1>4 DEF RInv

LEMMA BetweenTransactions ==
  ASSUME RInv, job.at = "market"
  PROVE  /\ \A i \in DOMAIN txs : txs[i].state = "pending" => txs[i].market \in excused
         /\ \A p \in resolved : p \notin held /\ MarketOf[p] \notin excused =>
              stamp[p] # 0 \/ job.marks[p] # 0
BY DEF RInv, Watched, PaymentsKnown, Arrived

LEMMA ListingPreserves ==
  ASSUME RInv, StartTick \/ PassOver \/ RequestFails \/ SendRefused
  PROVE  RInv'
<1>1. CASE StartTick
  <2>1. /\ job'.at = "market" /\ DOMAIN job' = {"at", "todo", "marks"}
        /\ job'.marks = [p \in Positions |-> 0]
    BY <1>1 DEF StartTick, Idle
  <2>2. job'.marks \in Marks /\ Backed(job'.marks)
    BY <2>1 DEF Marks, Backed
  <2>3. /\ \A i \in DOMAIN txs : txs[i].state = "pending" => txs[i].market \in excused
        /\ \A p \in resolved : p \notin held /\ MarketOf[p] \notin excused => stamp[p] # 0
    BY <1>1 DEF StartTick, RInv, Watched, PaymentsKnown, Arrived
  <2> QED  BY <1>1, <2>1, <2>2, <2>3, TickStep DEF StartTick, rowVars, chainVars
<1>2. CASE PassOver \/ RequestFails \/ SendRefused
  <2>1. /\ job.at = "market" /\ excused' = excused
        /\ UNCHANGED <<resolved, stamp, held, txs>>
    BY <1>2 DEF PassOver, RequestFails, SendRefused, rowVars, chainVars
  <2>2. /\ job'.at = "market" /\ DOMAIN job' = {"at", "todo", "marks"}
        /\ job'.marks = job.marks
    BY <1>2, <2>1 DEF PassOver, RequestFails, SendRefused, NextMarket, RInv, Typed
  <2> QED  BY <2>1, <2>2, BetweenTransactions, TickStep DEF RInv, Typed
<1> QED  BY <1>1, <1>2

LEMMA EndPreserves ==
  ASSUME RInv, EndTick
  PROVE  RInv'
<1>1. /\ job.at = "market" /\ UNCHANGED <<resolved, held, txs, excused>>
      /\ stamp' = [p \in Positions |-> IF job.marks[p] # 0 THEN job.marks[p] ELSE stamp[p]]
      /\ job'.at = "idle" /\ DOMAIN job' = {"at", "todo", "marks"}
      /\ job'.marks = [p \in Positions |-> 0]
  BY DEF EndTick, Idle, chainVars
<1>2. Typed' /\ Emptied' /\ resolved' \subseteq Positions
  <2>1. stamp' \in Marks  BY <1>1 DEF RInv, Typed, Marks
  <2>2. job'.marks \in Marks  BY <1>1 DEF Marks
  <2> QED  BY <1>1, <2>1, <2>2 DEF RInv, Typed, IsLog, Emptied, Balance, OfMarket
<1>3. Watched'  BY <1>1, BetweenTransactions DEF Watched
<1>4. Backed(stamp)' /\ Backed(job.marks)'
  BY <1>1 DEF RInv, Backed
<1>5. PaymentsKnown'
  BY <1>1, BetweenTransactions DEF RInv, PaymentsKnown
<1> QED  BY <1>1, <1>2, <1>3, <1>4, <1>5 DEF RInv

-----------------------------------------------------------------------------
\* The transaction that is sent is the last one, and pending; those that it
\* replaces had their market excused.
LEMMA SendPreserves ==
  ASSUME RInv, Send
  PROVE  RInv'
<1> DEFINE m == Head(job.todo)
           tx == [market |-> m, amount |-> Balance(m), nonce |-> mined, state |-> "pending"]
           kept == [i \in DOMAIN txs |->
                      IF i \in Rivals(mined) THEN [txs[i] EXCEPT !.state = "dropped"]
                      ELSE txs[i]]
           n == Len(txs)
<1>1. /\ job.at = "market" /\ txs' = Append(kept, tx) /\ job' = [job EXCEPT !.at = "waiting"]
      /\ UNCHANGED <<resolved, stamp, held, excused>>
  BY DEF Send, rowVars, chainVars
<1>2. /\ job'.at = "waiting" /\ job'.marks = job.marks
      /\ DOMAIN job' = {"at", "todo", "marks"}
  BY <1>1 DEF RInv, Typed
<1>3. PICK S : txs \in Seq(S)  BY DEF RInv, Typed, IsLog
<1>4. n \in Nat /\ DOMAIN txs = 1 .. n  BY <1>3
<1>5. kept \in Seq({kept[i] : i \in 1 .. n}) /\ Len(kept) = n
  BY <1>4
<1>6. \A i \in 1 .. n :
        /\ DOMAIN kept[i] = {"market", "amount", "nonce", "state"}
        /\ kept[i].market = txs[i].market /\ kept[i].amount = txs[i].amount
        /\ kept[i].state \in {txs[i].state, "dropped"}
        /\ txs[i].state # "pending" => kept[i] = txs[i]
  BY <1>4 DEF Rivals, RInv, Typed, IsLog
<1>7. /\ DOMAIN tx = {"market", "amount", "nonce", "state"} /\ tx.state = "pending"
      /\ tx.market = m /\ tx.amount = Balance(m)
  OBVIOUS
<1> HIDE DEF kept, tx
<1>8. /\ txs' \in Seq({kept[i] : i \in 1 .. n} \cup {tx})
      /\ Len(txs') = n + 1 /\ DOMAIN txs' = 1 .. n + 1
      /\ \A i \in 1 .. n : txs'[i] = kept[i]
      /\ txs'[n + 1] = tx
  BY <1>1, <1>4, <1>5
<1>9. \A i \in DOMAIN txs' : i \in 1 .. n \/ i = n + 1
  BY <1>4, <1>8
<1>10. Typed'
  <2>1. IsLog(txs)'
    BY <1>4, <1>6, <1>7, <1>8, <1>9 DEF IsLog, RInv, Typed
  <2> QED  BY <1>1, <1>2, <2>1 DEF RInv, Typed
<1>11. Emptied'
  BY <1>1, <1>4, <1>6, <1>7, <1>8, <1>9 DEF Emptied, RInv, Typed, IsLog, Balance, OfMarket
<1>12. Watched'
  <2>1. txs' # <<>>  BY <1>4, <1>8
  <2> QED
    BY <1>1, <1>2, <1>4, <1>6, <1>8, <1>9, <2>1, BetweenTransactions
    DEF Watched, RInv, Typed, IsLog
<1>13. Backed(stamp)' /\ Backed(job.marks)'
  BY <1>1, <1>2, <1>4, <1>6, <1>8 DEF RInv, Backed
<1>14. PaymentsKnown'
  BY <1>1, <1>2, BetweenTransactions DEF PaymentsKnown
<1> QED  BY <1>1, <1>2, <1>10, <1>11, <1>12, <1>13, <1>14 DEF RInv

\* The end of the wait: a payment is marked, or its market is excused.
LEMMA ReceiptPreserves ==
  ASSUME RInv, Receipt \/ TimesOut \/ StampFails
  PROVE  RInv'
<1> DEFINE tx == Last(txs)
<1>1. /\ job.at = "waiting" /\ UNCHANGED <<resolved, stamp, held, txs>>
      /\ excused \subseteq excused'
  BY DEF Receipt, TimesOut, StampFails, rowVars, chainVars
<1>2. /\ Len(txs) \in DOMAIN txs /\ tx = txs[Len(txs)] /\ Len(txs) \in Nat \ {0}
  BY <1>1, LogLast DEF RInv, Typed, Watched
<1>3. job'.at = "market" /\ DOMAIN job' = {"at", "todo", "marks"}
  BY DEF Receipt, TimesOut, StampFails, NextMarket, RInv, Typed
<1>4. \A i \in DOMAIN txs : txs[i].state = "pending" =>
        txs[i].market \in excused \/ i = Len(txs)
  BY DEF RInv, Watched
<1>5. CASE Receipt /\ Paid(tx)
  <2>1. job'.marks = Marked(tx.market, Len(txs)) /\ excused' = excused
    BY <1>5 DEF Receipt, NextMarket, RInv, Typed
  <2>2. job'.marks \in Marks
    BY <1>2, <2>1 DEF Marked, Marks, RInv, Typed
  <2>3. Backed(job'.marks)
    BY <1>2, <1>5, <2>1 DEF Marked, Backed, RInv, Paid, OfMarket
  <2>4. \A i \in DOMAIN txs : txs[i].state = "pending" => txs[i].market \in excused'
    BY <1>2, <1>4, <1>5, <2>1 DEF Paid
  <2>5. ASSUME NEW p \in resolved, p \notin held, MarketOf[p] \notin excused, stamp[p] = 0
        PROVE  job'.marks[p] # 0
    <3>1. p \in Positions  BY DEF RInv
    <3>2. job'.marks[p] = IF p \in OfMarket(tx.market) /\ job.marks[p] = 0
                          THEN Len(txs) ELSE job.marks[p]
      BY <2>1, <2>5, <3>1 DEF Marked
    <3>3. job.marks[p] # 0 \/ tx.market = MarketOf[p]
      BY <2>5 DEF RInv, PaymentsKnown, Arrived
    <3> QED  BY <1>2, <3>1, <3>2, <3>3 DEF OfMarket
  <2> QED  BY <1>1, <1>3, <2>1, <2>2, <2>3, <2>4, <2>5, TickStep
<1>6. CASE Receipt /\ ~Paid(tx)
  <2>1. job'.marks = job.marks /\ excused' = excused /\ tx.state # "pending"
    BY <1>6 DEF Receipt, NextMarket, RInv, Typed
  <2>2. \A i \in DOMAIN txs : txs[i].state = "pending" => txs[i].market \in excused'
    BY <1>2, <1>4, <2>1
  <2>3. \A p \in resolved : p \notin held /\ MarketOf[p] \notin excused /\ stamp[p] = 0
                            => job.marks[p] # 0
    BY <1>6 DEF RInv, PaymentsKnown, Arrived
  <2> QED  BY <1>1, <1>3, <2>1, <2>2, <2>3, TickStep DEF RInv, Typed
<1>7. CASE TimesOut \/ StampFails
  <2>1. job'.marks = job.marks /\ excused' = excused \cup {tx.market}
    BY <1>7 DEF TimesOut, StampFails, NextMarket, RInv, Typed
  <2>2. \A i \in DOMAIN txs : txs[i].state = "pending" => txs[i].market \in excused'
    BY <1>2, <1>4, <2>1
  <2>3. \A p \in resolved : p \notin held /\ MarketOf[p] \notin excused' /\ stamp[p] = 0
                            => job.marks[p] # 0
    BY <2>1 DEF RInv, PaymentsKnown, Arrived
  <2> QED  BY <1>1, <1>3, <2>1, <2>2, <2>3, TickStep DEF RInv, Typed
<1> QED  BY <1>5, <1>6, <1>7

\* Marks that were not committed are gone, and their markets excused.
LEMMA CrashPreserves ==
  ASSUME RInv, Crash
  PROVE  RInv'
<1>1. /\ UNCHANGED <<resolved, stamp, held, txs>>
      /\ excused' = excused \cup {MarketOf[p] : p \in {q \in Positions : job.marks[q] # 0}}
                      \cup (IF job.at = "waiting" THEN {Last(txs).market} ELSE {})
      /\ job'.at = "idle" /\ DOMAIN job' = {"at", "todo", "marks"}
      /\ job'.marks = [p \in Positions |-> 0]
  BY DEF Crash, Idle, rowVars, chainVars
<1>2. job'.marks \in Marks /\ Backed(job'.marks)  BY <1>1 DEF Marks, Backed
<1>3. \A i \in DOMAIN txs : txs[i].state = "pending" => txs[i].market \in excused'
  BY <1>1, LogLast DEF RInv, Typed, Watched
<1>4. \A p \in resolved : p \notin held /\ MarketOf[p] \notin excused' => stamp[p] # 0
  BY <1>1 DEF RInv, PaymentsKnown, Arrived
<1> QED  BY <1>1, <1>2, <1>3, <1>4, TickStep

-----------------------------------------------------------------------------
\* A mined transaction empties the wallet of its market or leaves it alone.
LEMMA MinePreserves ==
  ASSUME RInv, NEW i \in DOMAIN txs, Mine(i)
  PROVE  RInv'
<1>0. PICK m : m = txs[i].market
  OBVIOUS
<1>1. /\ txs[i].state = "pending" /\ UNCHANGED <<resolved, stamp, job, excused>>
      /\ \/ /\ held' = held \ (IF m \in NegRisk THEN txs[i].amount ELSE Balance(m))
            /\ txs' = [txs EXCEPT ![i].state = "paid"]
         \/ held' = held /\ txs' = [txs EXCEPT ![i].state = "reverted"]
  BY <1>0 DEF Mine, rowVars
<1>2. PICK S : txs \in Seq(S)  BY DEF RInv, Typed, IsLog
<1>3. PICK end \in {"paid", "reverted"} :
        /\ txs' = [txs EXCEPT ![i].state = end]
        /\ end = "reverted" => held' = held
        /\ end = "paid" =>
             held' = held \ (IF m \in NegRisk THEN txs[i].amount ELSE Balance(m))
  BY <1>1
<1>4. /\ DOMAIN txs' = DOMAIN txs /\ Len(txs') = Len(txs)
      /\ DOMAIN txs'[i] = DOMAIN txs[i] /\ txs'[i].state = end
      /\ txs'[i].market = m
      /\ \A j \in DOMAIN txs \ {i} : txs'[j] = txs[j]
  BY <1>0, <1>2, <1>3 DEF RInv, Typed, IsLog
<1>5. txs' \in Seq(S \cup {txs'[i]})
  BY <1>2, <1>3, <1>4
<1>6. /\ held' \subseteq held
      /\ end = "paid" => Balance(m)' = {}
      /\ \A p \in held \ held' : MarketOf[p] = m
  <2>1. Balance(m) \subseteq txs[i].amount /\ txs[i].amount \subseteq OfMarket(m)
    BY <1>0, <1>1 DEF RInv, Emptied
  <2> QED  BY <1>3, <2>1 DEF Balance, OfMarket
<1>7. Typed'
  BY <1>1, <1>4, <1>5 DEF RInv, Typed, IsLog
<1>8. Emptied'
  BY <1>4, <1>6 DEF RInv, Emptied, Balance, OfMarket
<1>9. Watched'
  BY <1>1, <1>4 DEF RInv, Watched
<1>10. Backed(stamp)' /\ Backed(job.marks)'
  BY <1>1, <1>4 DEF RInv, Backed
<1>11. PaymentsKnown'
  <2> SUFFICES ASSUME NEW p \in resolved, p \notin held', MarketOf[p] \notin excused
               PROVE  stamp[p] # 0 \/ job.marks[p] # 0 \/ Arrived(p)'
    BY <1>1 DEF PaymentsKnown
  <2>1. CASE p \in held
    <3>1. end = "paid" /\ m = MarketOf[p]  BY <1>3, <1>6, <2>1
    <3>2. job.at = "waiting" /\ i = Len(txs)
      BY <1>0, <1>1, <3>1 DEF RInv, Watched
    <3> QED  BY <1>1, <1>4, <3>1, <3>2 DEF Arrived, Paid, Last
  <2>2. CASE p \notin held /\ Arrived(p)
    <3>1. Last(txs) = txs[Len(txs)] /\ Len(txs) \in DOMAIN txs \ {i}
      BY <1>1, <2>2, LogLast DEF RInv, Typed, Watched, Arrived, Paid
    <3>2. Last(txs)' = Last(txs)  BY <1>4, <3>1 DEF Last
    <3> QED  BY <1>1, <2>2, <3>2 DEF Arrived, Paid
  <2> QED  BY <2>1, <2>2 DEF RInv, PaymentsKnown
<1> QED  BY <1>1, <1>7, <1>8, <1>9, <1>10, <1>11 DEF RInv

LEMMA SettlePreserves ==
  ASSUME RInv, NEW p \in Positions, Settle(p)
  PROVE  RInv'
<1>1. /\ resolved' = resolved \cup {p} /\ UNCHANGED <<stamp, held, txs, job>>
      /\ excused \subseteq excused' /\ (p \notin held => MarketOf[p] \in excused')
  BY DEF Settle, chainVars
<1> QED
  BY <1>1 DEF RInv, Typed, IsLog, Emptied, Balance, OfMarket, Watched, Backed,
     PaymentsKnown, Arrived, Paid

-----------------------------------------------------------------------------
LEMMA RInit == Init => RInv
<1> SUFFICES ASSUME Init PROVE RInv
  OBVIOUS
<1>1. /\ resolved = {} /\ txs = <<>> /\ DOMAIN txs = {}
      /\ stamp = [p \in Positions |-> 0] /\ job.marks = stamp
      /\ job.at = "idle" /\ DOMAIN job = {"at", "todo", "marks"}
  BY DEF Init, Idle
<1>2. Typed
  BY <1>1 DEF Typed, IsLog, Marks
<1> QED
  BY <1>1, <1>2 DEF RInv, Emptied, Watched, Backed, PaymentsKnown

LEMMA RNext == RInv /\ [Next]_vars => RInv'
<1> SUFFICES ASSUME RInv, [Next]_vars PROVE RInv'
  OBVIOUS
<1>1. CASE UNCHANGED vars \/ \E m \in Markets : Report(m)
  <2>1. UNCHANGED <<resolved, stamp, held, txs, job, excused>>
    BY <1>1 DEF vars, Report, rowVars, chainVars
  <2> QED
    BY <2>1 DEF RInv, Typed, IsLog, Emptied, Balance, OfMarket, Watched, Backed,
       PaymentsKnown, Arrived, Paid
<1> QED
  BY <1>1, ListingPreserves, SendPreserves, ReceiptPreserves, EndPreserves,
     CrashPreserves, MinePreserves, SettlePreserves DEF Next

\* However the process dies and whatever the chain does meanwhile, a position is
\* stamped with a transaction that paid its market, and between the ticks a
\* payment without a stamp is one the program could not know of
\* (redeem_resolved_positions, _mark_positions_redeemed).
THEOREM Stamps == Spec => []StampsMatchChain
<1>1. RInv => StampsMatchChain
  BY DEF RInv, Backed, Emptied, Balance, OfMarket, PaymentsKnown, Arrived,
     StampsMatchChain, Paid
<1> QED  BY <1>1, RInit, RNext, PTL DEF Spec
=============================================================================
