--------------------------- MODULE ExitLoopProofs ---------------------------
(***************************************************************************)
(* While only the autopilot proposes exits, no position ever has two that  *)
(* could still be executed, and whoever proposes them, what the wallet     *)
(* holds is counted by an open position: for any markets, sizes and        *)
(* numbers of exits, prices and positions.                                 *)
(***************************************************************************)
EXTENDS ExitLoop, FiniteSetTheorems, SequenceTheorems, TLAPS

\* Contents are retargeted: this is said of every number, not only of the ids
\* in use, so that an exit may precede its position.
AtMostOne == \A i : \A c, d \in Standing(i) : c = d

EInv ==
  ~cli =>
    /\ DOMAIN prop = Content
    /\ \A c \in Content : DOMAIN prop[c] = {"status", "target"}
    /\ AtMostOne

-----------------------------------------------------------------------------
\* What happens to an exit after its proposal gives it no new status among
\* those of a standing one.
LEMMA StatusStep ==
  ASSUME EInv, UNCHANGED cli, NEW c \in Content, NEW to \in ExitStatus,
         prop[c].status \in ExitStatus \ (Terminal \cup {"none"}),
         prop' = [prop EXCEPT ![c].status = to]
  PROVE  EInv'
<1> SUFFICES ASSUME ~cli
             PROVE  /\ DOMAIN prop' = Content
                    /\ \A d \in Content : DOMAIN prop'[d] = {"status", "target"}
                    /\ AtMostOne'
  BY DEF EInv
<1>1. /\ DOMAIN prop' = Content
      /\ \A d \in Content : DOMAIN prop'[d] = {"status", "target"}
      /\ \A d \in Content : prop'[d].target = prop[d].target
      /\ \A d \in Content \ {c} : prop'[d] = prop[d]
  BY DEF EInv
<1>2. \A i : Standing(i)' \subseteq Standing(i)
  BY <1>1 DEF Standing
<1> QED  BY <1>1, <1>2 DEF EInv, AtMostOne

\* The loop proposes an exit only for a position that has none.
LEMMA ConsiderPreserves ==
  ASSUME EInv, Consider
  PROVE  EInv'
<1> SUFFICES ASSUME ~cli
             PROVE  /\ DOMAIN prop' = Content
                    /\ \A d \in Content : DOMAIN prop'[d] = {"status", "target"}
                    /\ AtMostOne'
  BY DEF EInv, Consider
<1>1. CASE prop' = prop
  BY <1>1 DEF EInv, AtMostOne, Standing
<1>2. CASE prop' # prop
  <2>1. PICK i, c : ~HasExit(i) /\ prop' = Upserted(prop, c, i)
    BY <1>2 DEF Consider
  <2>2. /\ DOMAIN prop' = Content
        /\ \A d \in Content : DOMAIN prop'[d] = {"status", "target"}
        /\ \A d \in Content \ {c} : prop'[d] = prop[d]
        /\ c \in Content => prop'[c].target = i
    BY <2>1 DEF Upserted, EInv
  <2>3. ASSUME NEW j, NEW d \in Standing(j)', NEW e \in Standing(j)'
        PROVE  d = e
    <3>1. \A f \in Content \ {c} : f \in Standing(j)' => f \in Standing(j)
      BY <2>2 DEF Standing
    <3>2. CASE c \in Standing(j)'
      <4>1. j = i  BY <2>2, <3>2 DEF Standing
      <4>2. \A f \in Content \ {c} : f \notin Standing(j)'
        BY <2>1, <3>1, <4>1 DEF HasExit
      <4> QED  BY <4>2 DEF Standing
    <3>3. CASE c \notin Standing(j)'
      <4>1. d \in Standing(j) /\ e \in Standing(j)
        BY <3>1, <3>3 DEF Standing
      <4> QED  BY <4>1 DEF EInv, AtMostOne
    <3> QED  BY <3>2, <3>3
  <2> QED  BY <2>2, <2>3 DEF AtMostOne
<1> QED  BY <1>1, <1>2

-----------------------------------------------------------------------------
LEMMA EInit == Init => EInv
<1> SUFFICES ASSUME Init PROVE EInv
  OBVIOUS
<1>1. prop = [c \in Content |-> [status |-> "none", target |-> 0]]
  BY DEF Init
<1>2. \A i : Standing(i) = {}
  BY <1>1 DEF Standing
<1> QED  BY <1>1, <1>2 DEF EInv, AtMostOne

LEMMA ENext == EInv /\ [Next]_vars => EInv'
<1> SUFFICES ASSUME EInv, [Next]_vars PROVE EInv'
  OBVIOUS
<1>1. ASSUME UNCHANGED <<prop, cli>> PROVE EInv'
  BY <1>1 DEF EInv, AtMostOne, Standing
<1>2. CASE LoopStep
  BY <1>1, <1>2, ConsiderPreserves DEF LoopStep, StartTick, EndTick
<1>3. CASE RunExitAgent
  BY <1>3 DEF RunExitAgent, EInv
<1>4. CASE WorkflowStep
  <2>1. PICK c \in Content : Assess(c) \/ Answer(c) \/ Refuse(c) \/ PlaceSell(c)
    BY <1>4 DEF WorkflowStep
  <2>2. \E to \in ExitStatus :
          /\ prop[c].status \in ExitStatus \ (Terminal \cup {"none"})
          /\ prop' = [prop EXCEPT ![c].status = to] /\ cli' = cli
    BY <2>1 DEF Assess, Answer, Refuse, PlaceSell, SetStatus, ExitStatus, Terminal
  <2> QED  BY <2>2, StatusStep
<1>5. CASE \E c \in Content : FillSell(c) \/ SellDies(c)
  BY <1>1, <1>5 DEF FillSell, SellDies
<1>6. CASE \E m \in Markets : Settle(m) \/ PriceMoves(m) \/ NearsExpiry(m) \/ Resolve(m)
  BY <1>1, <1>6 DEF Settle, PriceMoves, NearsExpiry, Resolve
<1>7. CASE UNCHANGED vars
  BY <1>1, <1>7 DEF vars
<1> QED  BY <1>2, <1>3, <1>4, <1>5, <1>6, <1>7 DEF Next

\* The guard of _loop_exit, which looks for a standing exit before it asks for
\* another, is enough: a proposal that is upserted again and retargeted does not
\* give a position a second one.
THEOREM SingleExit == Spec => []OneStandingExit
<1>1. EInv => OneStandingExit
  <2> SUFFICES ASSUME EInv, ~cli, NEW i \in Ids PROVE Cardinality(Standing(i)) <= 1
    BY DEF OneStandingExit
  <2>1. CASE Standing(i) = {}
    BY <2>1, FS_EmptySet
  <2>2. CASE Standing(i) # {}
    <3>1. PICK c \in Standing(i) : TRUE  BY <2>2
    <3>2. Standing(i) = {c}  BY <3>1 DEF EInv, AtMostOne
    <3> QED  BY <3>2, FS_Singleton
  <2> QED  BY <2>1, <2>2
<1> QED  BY <1>1, EInit, ENext, PTL DEF Spec

-----------------------------------------------------------------------------
(***************************************************************************)
(* What the wallet holds stays on the books: a sell order has a position   *)
(* of its own, so that neither its fill nor its end touches the entry's.   *)
(***************************************************************************)
PosStatus == {"open_requested", "open", "cancelled", "resolved"}

Row == [market : Markets, size : Nat, status : PosStatus, exit : BOOLEAN]

Rows == pos \in Seq(Row)

Live == {c \in Content : order[c] = "live"}

\* The row may be the one of the order for c.
Fits(row, c) ==
  /\ row.exit /\ row.market = c.market /\ row.size = c.size
  /\ row.status = "open_requested"

\* Every live order has a row of its own, so that there is one to choose.
OwnRows ==
  \E f \in [Live -> Ids] :
    /\ \A c \in Live : Fits(pos[f[c]], c)
    /\ \A c, d \in Live : f[c] = f[d] => c = d

HInv ==
  /\ Rows /\ OwnRows /\ HoldingsAreCounted
  /\ order \in [Content -> {"none", "live", "filled", "dead"}]
  /\ shares \in [Markets -> Int]

LEMMA RowsAre ==
  ASSUME Rows
  PROVE  Len(pos) \in Nat /\ Ids = 1 .. Len(pos) /\ \A i \in Ids : pos[i] \in Row
BY ElementOfSeq, LenProperties DEF Rows, Ids

LEMMA RowChanges ==
  ASSUME Rows, NEW i \in Ids, NEW to \in PosStatus, pos' = [pos EXCEPT ![i].status = to]
  PROVE  Rows' /\ Ids' = Ids /\ \A j \in Ids \ {i} : pos'[j] = pos[j]
<1> DEFINE row == [pos[i] EXCEPT !.status = to]
<1>1. row \in Row  BY RowsAre DEF Row
<1>2. pos' = [pos EXCEPT ![i] = row]  OBVIOUS
<1> HIDE DEF row
<1> QED  BY <1>1, <1>2, ExceptSeq DEF Rows, Ids

\* What is counted stays counted while no wallet gains and the open entries
\* keep their rows.
LEMMA CountedStays ==
  ASSUME HoldingsAreCounted, \A m \in Markets : shares'[m] <= shares[m],
         shares \in [Markets -> Int], shares' \in [Markets -> Int], Rows,
         \A i \in Ids : ~pos[i].exit /\ pos[i].status = "open" /\ shares'[pos[i].market] > 0
                        => i \in Ids' /\ pos'[i] = pos[i]
  PROVE  HoldingsAreCounted'
<1> SUFFICES ASSUME NEW m \in Markets, shares'[m] > 0
             PROVE  \E i \in OpenIds' : /\ pos'[i].market = m /\ ~pos'[i].exit
                                        /\ shares'[m] <= pos'[i].size
  BY DEF HoldingsAreCounted
<1>1. PICK i \in OpenIds : pos[i].market = m /\ ~pos[i].exit /\ shares[m] <= pos[i].size
  BY DEF HoldingsAreCounted
<1>2. pos[i].size \in Nat /\ shares[m] \in Int /\ shares'[m] \in Int
  BY RowsAre DEF OpenIds, Row
<1>3. i \in Ids' /\ pos'[i] = pos[i] /\ pos[i].status = "open"  BY <1>1 DEF OpenIds
<1> QED  BY <1>1, <1>2, <1>3 DEF OpenIds

LEMMA OwnRow ==
  ASSUME HInv, NEW c \in Content, order[c] = "live"
  PROVE  PositionOf(c) \in Ids /\ Fits(pos[PositionOf(c)], c)
<1>1. \E i \in Ids : Fits(pos[i], c)  BY DEF HInv, OwnRows, Live
<1> QED  BY <1>1 DEF PositionOf, Fits

\* The order of c ends, and its row with it. Where that row was counted on by
\* another order of the same market and size, that one takes the row of c.
LEMMA OrderEnds ==
  ASSUME HInv, NEW c \in Content, order[c] = "live",
         NEW how \in {"filled", "dead"}, order' = [order EXCEPT ![c] = how],
         NEW to \in PosStatus, pos' = [pos EXCEPT ![PositionOf(c)].status = to]
  PROVE  Rows' /\ OwnRows' /\ \A i \in Ids : ~pos[i].exit => i \in Ids' /\ pos'[i] = pos[i]
<1> DEFINE r == PositionOf(c)
<1>1. r \in Ids /\ Fits(pos[r], c)  BY OwnRow
<1> HIDE DEF r
<1>2. pos' = [pos EXCEPT ![r].status = to]  BY DEF r
<1>3. Rows'  BY <1>1, <1>2, RowChanges DEF HInv
<1>4. Ids' = Ids /\ \A i \in Ids \ {r} : pos'[i] = pos[i]
  BY <1>1, <1>2, RowChanges DEF HInv
<1>5. PICK f \in [Live -> Ids] : /\ \A d \in Live : Fits(pos[f[d]], d)
                                 /\ \A d, e \in Live : f[d] = f[e] => d = e
  BY DEF HInv, OwnRows
<1>6. c \in Live /\ Live' = Live \ {c}  BY DEF HInv, Live
<1> DEFINE g == [d \in Live' |-> IF f[d] = r THEN f[c] ELSE f[d]]
<1>7. g \in [Live' -> Ids']  BY <1>4, <1>5, <1>6
<1>8. ASSUME NEW d \in Live', NEW e \in Live', g[d] = g[e] PROVE d = e
  BY <1>5, <1>6, <1>8
<1>9. ASSUME NEW d \in Live' PROVE Fits(pos'[g[d]], d)
  <2>1. f[d] # f[c]  BY <1>5, <1>6
  <2>2. g[d] # r /\ g[d] \in Ids  BY <1>5, <1>6, <2>1
  <2>3. Fits(pos[g[d]], d)
    <3>1. CASE f[d] = r
      <4>1. c.market = d.market /\ c.size = d.size
        BY <1>1, <1>5, <1>6, <3>1 DEF Fits
      <4>2. Fits(pos[f[c]], c) /\ g[d] = f[c]  BY <1>5, <1>6, <3>1
      <4> QED  BY <4>1, <4>2 DEF Fits
    <3>2. CASE f[d] # r  BY <1>5, <1>6, <3>2
    <3> QED  BY <3>1, <3>2
  <2> HIDE DEF g
  <2> QED  BY <1>4, <2>2, <2>3 DEF Fits
<1>10. OwnRows'
  <2> HIDE DEF g
  <2> QED  BY <1>7, <1>8, <1>9 DEF OwnRows
<1> QED  BY <1>1, <1>3, <1>4, <1>10 DEF Fits

LEMMA PlaceSellPreserves ==
  ASSUME HInv, NEW c \in Content, PlaceSell(c)
  PROVE  HInv'
<1> DEFINE row == [market |-> c.market, size |-> c.size, status |-> "open_requested",
                   exit |-> TRUE]
           n == Len(pos) + 1
<1>1. /\ order[c] = "none" /\ order' = [order EXCEPT ![c] = "live"]
      /\ pos' = Append(pos, row) /\ shares' = shares
  BY DEF PlaceSell, marketVars
<1>2. row \in Row
  BY ExitAssumption DEF Content, PosStatus, Row, ExitAssumption
<1>3. /\ Rows' /\ Ids' = Ids \cup {n} /\ n \notin Ids /\ pos'[n] = row
      /\ \A i \in Ids : pos'[i] = pos[i]
  BY <1>1, <1>2, RowsAre DEF HInv, Rows, Ids
<1>4. PICK f \in [Live -> Ids] : /\ \A d \in Live : Fits(pos[f[d]], d)
                                 /\ \A d, e \in Live : f[d] = f[e] => d = e
  BY DEF HInv, OwnRows
<1>5. Live' = Live \cup {c} /\ c \notin Live  BY <1>1 DEF HInv, Live
<1> DEFINE g == [d \in Live' |-> IF d = c THEN n ELSE f[d]]
<1>6. g \in [Live' -> Ids'] /\ \A d, e \in Live' : g[d] = g[e] => d = e
  BY <1>3, <1>4, <1>5
<1>7. ASSUME NEW d \in Live' PROVE Fits(pos'[g[d]], d)
  <2>1. CASE d = c
    <3>1. Fits(pos'[n], c)  BY <1>3 DEF Fits
    <3> QED  BY <2>1, <3>1
  <2>2. CASE d # c
    <3>1. g[d] = f[d] /\ f[d] \in Ids /\ Fits(pos[f[d]], d)  BY <1>4, <1>5, <2>2
    <3> HIDE DEF g
    <3> QED  BY <1>3, <3>1 DEF Fits
  <2> QED  BY <2>1, <2>2
<1>8. OwnRows'
  <2> HIDE DEF g
  <2> QED  BY <1>6, <1>7 DEF OwnRows
<1>9. HoldingsAreCounted'
  <2>1. shares' = shares /\ \A i \in Ids : i \in Ids' /\ pos'[i] = pos[i]
    BY <1>1, <1>3
  <2>2. shares \in [Markets -> Int]  BY DEF HInv
  <2>3. \A m \in Markets : shares[m] <= shares[m]  BY <2>2
  <2> QED  BY <2>1, <2>2, <2>3, CountedStays DEF HInv
<1> QED  BY <1>1, <1>3, <1>8, <1>9 DEF HInv

LEMMA FillSellPreserves ==
  ASSUME HInv, NEW c \in Content, FillSell(c)
  PROVE  HInv'
<1>1. /\ order[c] = "live" /\ order' = [order EXCEPT ![c] = "filled"]
      /\ pos' = [pos EXCEPT ![PositionOf(c)].status = "open"]
      /\ shares' = [shares EXCEPT ![c.market] = @ - c.size]
  BY DEF FillSell, SellSynced
<1>2. Rows' /\ OwnRows' /\ \A i \in Ids : ~pos[i].exit => i \in Ids' /\ pos'[i] = pos[i]
  BY <1>1, OrderEnds DEF PosStatus
<1>3. c.size \in Nat /\ c.market \in Markets
  BY ExitAssumption DEF Content, ExitAssumption
<1>4. shares' \in [Markets -> Int] /\ \A m \in Markets : shares'[m] <= shares[m]
  BY <1>1, <1>3 DEF HInv
<1>5. HoldingsAreCounted'  BY <1>2, <1>4, CountedStays DEF HInv
<1> QED  BY <1>1, <1>2, <1>4, <1>5 DEF HInv

LEMMA SellDiesPreserves ==
  ASSUME HInv, NEW c \in Content, SellDies(c)
  PROVE  HInv'
<1>1. /\ order[c] = "live" /\ order' = [order EXCEPT ![c] = "dead"] /\ shares' = shares
      /\ pos' = [pos EXCEPT ![PositionOf(c)].status = "cancelled"]
  BY DEF SellDies, marketVars
<1>2. Rows' /\ OwnRows' /\ \A i \in Ids : ~pos[i].exit => i \in Ids' /\ pos'[i] = pos[i]
  BY <1>1, OrderEnds DEF PosStatus
<1>3. HoldingsAreCounted'  BY <1>1, <1>2, CountedStays DEF HInv
<1> QED  BY <1>1, <1>2, <1>3 DEF HInv

\* The open rows of a resolved market leave the books, and its shares the wallet.
LEMMA SettlePreserves ==
  ASSUME HInv, NEW m \in Markets, Settle(m)
  PROVE  HInv'
<1>1. /\ pos' = [i \in Ids |-> IF i \in OpenIds /\ pos[i].market = m
                               THEN [pos[i] EXCEPT !.status = "resolved"] ELSE pos[i]]
      /\ shares' = [shares EXCEPT ![m] = 0] /\ order' = order
  BY DEF Settle
<1>2. Rows'
  <2>1. \A i \in Ids : [pos[i] EXCEPT !.status = "resolved"] \in Row /\ pos[i] \in Row
    BY RowsAre DEF HInv, Row, PosStatus
  <2>2. Len(pos) \in Nat /\ Ids = 1 .. Len(pos)  BY RowsAre DEF HInv
  <2>3. pos' \in [1 .. Len(pos) -> Row]  BY <1>1, <2>1, <2>2
  <2> QED  BY <2>2, <2>3, SeqDef DEF Rows
<1>3. Ids' = Ids /\ \A i \in Ids : pos[i].status # "open" => pos'[i] = pos[i]
  BY <1>1, <1>2 DEF HInv, Rows, Ids, OpenIds
<1>4. OwnRows'
  <2>1. Live' = Live  BY <1>1 DEF Live
  <2>2. \A c \in Live, i \in Ids : Fits(pos[i], c) => Fits(pos'[i], c)  BY <1>3 DEF Fits
  <2>3. PICK f \in [Live -> Ids] : /\ \A c \in Live : Fits(pos[f[c]], c)
                                   /\ \A c, d \in Live : f[c] = f[d] => c = d
    BY DEF HInv, OwnRows
  <2> QED  BY <1>3, <2>1, <2>2, <2>3 DEF OwnRows
<1>5. shares' \in [Markets -> Int] /\ shares'[m] = 0
      /\ \A o \in Markets \ {m} : shares'[o] = shares[o]
  BY <1>1 DEF HInv
<1>6. HoldingsAreCounted'
  <2> SUFFICES ASSUME NEW o \in Markets, shares'[o] > 0
               PROVE  \E i \in OpenIds' : /\ pos'[i].market = o /\ ~pos'[i].exit
                                          /\ shares'[o] <= pos'[i].size
    BY DEF HoldingsAreCounted
  <2>1. o # m /\ shares'[o] = shares[o]  BY <1>5
  <2>2. PICK i \in OpenIds : pos[i].market = o /\ ~pos[i].exit /\ shares[o] <= pos[i].size
    BY <2>1 DEF HInv, HoldingsAreCounted
  <2>3. pos'[i] = pos[i] /\ i \in OpenIds'  BY <1>1, <1>3, <2>1, <2>2 DEF OpenIds
  <2> QED  BY <2>1, <2>2, <2>3
<1> QED  BY <1>1, <1>2, <1>4, <1>5, <1>6 DEF HInv

LEMMA HInit == Init => HInv
<1> SUFFICES ASSUME Init PROVE HInv  OBVIOUS
<1> DEFINE row(m) == [market |-> m, size |-> Size, status |-> "open", exit |-> FALSE]
           S == {row(m) : m \in Held}
           F == [m \in Held |-> row(m)]
           n == Cardinality(S)
<1>1. IsFiniteSet(S) /\ n \in Nat /\ pos = SetToSeq(S)
  <2>1. F \in Surjection(Held, S)  BY DEF Surjection
  <2> HIDE DEF S, F
  <2>2. IsFiniteSet(S)  BY <2>1, FS_Surjection, ExitAssumption DEF ExitAssumption
  <2> QED  BY <2>2, FS_CardinalityType DEF Init, S
<1>2. S \subseteq Row
  <2> SUFFICES ASSUME NEW m \in Held PROVE row(m) \in Row  OBVIOUS
  <2> QED  BY ExitAssumption DEF PosStatus, Row, ExitAssumption
<1>3. pos \in Injection(1 .. n, S)
  <2> HIDE DEF S
  <2>1. ExistsBijection(1 .. n, S)  BY <1>1, FS_CardinalityType
  <2>2. \E f \in [1 .. n -> S] : IsInjective(f)
    BY <2>1 DEF ExistsBijection, Bijection, Injection
  <2> QED  BY <1>1, <2>2 DEF SetToSeq, Injection
<1>4. pos \in Surjection(1 .. n, S)
  <2> HIDE DEF S
  <2>1. IsFiniteSet(1 .. n) /\ Cardinality(1 .. n) = n  BY <1>1, FS_Interval
  <2> QED  BY <1>1, <1>3, <2>1, FS_Injection
<1>5. Rows /\ Ids = 1 .. n
  <2>1. pos \in [1 .. n -> S]  BY <1>3 DEF Injection
  <2> HIDE DEF S
  <2> QED  BY <1>1, <1>2, <2>1 DEF Rows, Ids
<1>6. OwnRows
  <2>1. Live = {}  BY DEF Init, Live
  <2>2. [c \in {} |-> 1] \in [Live -> Ids]  BY <2>1
  <2> QED  BY <2>1, <2>2 DEF OwnRows
<1>7. \A m \in Held : \E i \in Ids : pos[i] = row(m)
  BY <1>4, <1>5 DEF Surjection
<1>8. HoldingsAreCounted
  <2> SUFFICES ASSUME NEW m \in Markets, shares[m] > 0
               PROVE  \E i \in OpenIds : /\ pos[i].market = m /\ ~pos[i].exit
                                         /\ shares[m] <= pos[i].size
    BY DEF HoldingsAreCounted
  <2>1. m \in Held /\ shares[m] = Size  BY DEF Init
  <2>2. PICK i \in Ids : pos[i] = row(m)  BY <1>7, <2>1
  <2>3. Size \in Nat  BY ExitAssumption DEF ExitAssumption
  <2> QED  BY <2>1, <2>2, <2>3 DEF OpenIds
<1>9. order \in [Content -> {"none", "live", "filled", "dead"}] /\ shares \in [Markets -> Int]
  BY ExitAssumption DEF Init, ExitAssumption
<1> QED  BY <1>5, <1>6, <1>8, <1>9 DEF HInv

LEMMA HNext == HInv /\ [Next]_vars => HInv'
<1> SUFFICES ASSUME HInv, [Next]_vars PROVE HInv'
  OBVIOUS
<1>1. ASSUME UNCHANGED <<pos, order, shares>> PROVE HInv'
  <2>1. Live' = Live /\ Ids' = Ids /\ OpenIds' = OpenIds
    BY <1>1 DEF Live, Ids, OpenIds
  <2>2. OwnRows'  BY <1>1, <2>1 DEF HInv, OwnRows
  <2>3. HoldingsAreCounted'  BY <1>1, <2>1 DEF HInv, HoldingsAreCounted
  <2> QED  BY <1>1, <2>2, <2>3 DEF HInv, Rows
<1>2. CASE LoopStep \/ RunExitAgent
  BY <1>1, <1>2 DEF LoopStep, StartTick, Consider, EndTick, RunExitAgent, marketVars
<1>3. CASE WorkflowStep
  <2>1. PICK c \in Content : Assess(c) \/ Answer(c) \/ Refuse(c) \/ PlaceSell(c)
    BY <1>3 DEF WorkflowStep
  <2> QED
    BY <1>1, <2>1, PlaceSellPreserves DEF Assess, Answer, Refuse, SetStatus, marketVars
<1>4. CASE \E c \in Content : FillSell(c) \/ SellDies(c)
  BY <1>4, FillSellPreserves, SellDiesPreserves
<1>5. CASE \E m \in Markets : Settle(m)
  BY <1>5, SettlePreserves
<1>6. CASE \E m \in Markets : PriceMoves(m) \/ NearsExpiry(m) \/ Resolve(m)
  BY <1>1, <1>6 DEF PriceMoves, NearsExpiry, Resolve
<1>7. CASE UNCHANGED vars
  BY <1>1, <1>7 DEF vars, marketVars
<1> QED  BY <1>2, <1>3, <1>4, <1>5, <1>6, <1>7 DEF Next

\* What the wallet holds is never without an open position that counts it: the
\* sale of a part, or a sale that dies, leaves the entry's row as it was
\* (sync_position_for_execution writes to the row of the order's execution).
THEOREM HoldingsOnTheBooks == Spec => []HoldingsAreCounted
<1>1. HInv => HoldingsAreCounted
  BY DEF HInv
<1> QED  BY <1>1, HInit, HNext, PTL DEF Spec
=============================================================================
