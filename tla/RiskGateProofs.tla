--------------------------- MODULE RiskGateProofs ---------------------------
(***************************************************************************)
(* What RiskGate guarantees for any proposals, rules, switches, caps,      *)
(* executors and sequences of events: the spending of a tick, the orders   *)
(* that pass a kill switch, what two entries for one outcome need, that    *)
(* rivals yield in turn, and that the exposure cap holds when one proposal *)
(* at a time is admitted.                                                  *)
(***************************************************************************)
EXTENDS RiskGate, FiniteSetTheorems, TLAPS

-----------------------------------------------------------------------------
(***************************************************************************)
(* The inductive invariant.                                                *)
(***************************************************************************)
Fields ==
  {"status", "why", "exec", "today", "pnl", "resolved", "settled", "rules", "switches"}

IsStore(s) ==
  DOMAIN s = Fields /\ s.exec \in [Proposals -> SUBSET Executors]

Typed ==
  /\ IsStore(db) /\ IsStore(draft)
  /\ lock \in {Nobody} \cup Assessors \cup Executors
  /\ xlist \in [Executors -> SUBSET Proposals]
  /\ xhand \in [Executors -> Proposals \cup {NoProposal}]
  /\ answer \in [Executors -> {"none", "placed", "rejected"}]
  /\ spent \in [Executors -> Nat] /\ placed \in [Executors -> Nat]
  /\ leaked \in [Switches -> [Executors -> Nat]]

\* Without a writer there is nothing uncommitted, and no loop's transaction
\* holds back kill switches, resolutions or active executions.
NothingPending ==
  /\ lock = Nobody => draft = db
  /\ draft.switches = db.switches /\ draft.resolved = db.resolved
  /\ draft.exec = db.exec

\* A proposal between its guards and its order is within the session's cap.
WithinSession ==
  \A x \in Executors :
    /\ placed[x] = spent[x] /\ spent[x] <= SessionMax
    /\ xhand[x] \in Proposals /\ answer[x] = "none"
         => spent[x] + Of[xhand[x]].size <= SessionMax

\* Executors whose next order would be against a switch.
Armed(k) ==
  {x \in Executors : /\ xhand[x] \in Proposals /\ answer[x] = "none"
                     /\ Covers(k, xhand[x])}

LeaksFewer ==
  \A k \in Switches, x \in Executors :
    /\ leaked[k][x] <= 1
    /\ k \in db.switches /\ x \in Armed(k) => leaked[k][x] = 0

\* An executor has no active entry of its own for the outcome of the proposal
\* in its hand; another's may have come after it looked.
NoRivalActive ==
  \A x \in Executors : xhand[x] \in Proposals /\ Entry(xhand[x]) =>
    \A q \in Exposed(draft) \ {xhand[x]} :
      Entry(q) /\ SameOutcome(xhand[x], q) => x \notin draft.exec[q]

RInv ==
  /\ Typed /\ NothingPending /\ WithinSession /\ LeaksFewer
  /\ NoRivalActive /\ OneEntryPerOutcome

\* No execution becomes active, and no market opens again.
Shrinks(s, t) ==
  /\ \A p \in Proposals : t.exec[p] \subseteq s.exec[p]
  /\ Exposed(t) \subseteq Exposed(s)

-----------------------------------------------------------------------------
(***************************************************************************)
(* Steps that leave the executor where it is.                              *)
(***************************************************************************)
LEMMA SizesAreNumbers ==
  /\ \A p \in Proposals : Of[p].size \in Nat
  /\ SessionMax \in Nat
  /\ NoProposal \notin Proposals
  /\ Nobody \notin Executors \cup Assessors /\ Executors \cap Assessors = {}
BY RiskAssumption DEF RiskAssumption, Assessors

\* Leaks stay as they are while nobody is armed against a switch that is set.
LEMMA LeaksStay ==
  ASSUME LeaksFewer, leaked' = leaked, db'.switches \subseteq db.switches,
         \A k \in db.switches : Armed(k)' \subseteq Armed(k)
  PROVE  LeaksFewer'
BY DEF LeaksFewer

LEMMA StoreStep ==
  ASSUME RInv, Typed', NothingPending',
         xhand' = xhand, answer' = answer, spent' = spent, placed' = placed,
         leaked' = leaked, db'.switches \subseteq db.switches,
         Shrinks(draft, draft')
  PROVE  RInv'
<1>1. WithinSession'  BY DEF RInv, WithinSession
<1>2. LeaksFewer'
  <2>1. \A k \in db.switches : Armed(k)' \subseteq Armed(k)  BY DEF Armed
  <2> QED  BY <2>1, LeaksStay DEF RInv, Typed
<1>3. Exposed(draft') \subseteq Proposals
  BY DEF Exposed
<1>4. NoRivalActive'
  <2> SUFFICES ASSUME NEW x \in Executors, xhand[x] \in Proposals, Entry(xhand[x]),
                      NEW q \in Exposed(draft') \ {xhand[x]},
                      Entry(q), SameOutcome(xhand[x], q)
               PROVE  x \notin draft'.exec[q]
    BY DEF NoRivalActive, Exposed
  <2> QED  BY <1>3 DEF RInv, NoRivalActive, Shrinks
<1>5. OneEntryPerOutcome'
  <2> SUFFICES ASSUME NEW p \in Exposed(draft'), NEW q \in Exposed(draft'),
                      p # q, Entry(p), Entry(q), SameOutcome(p, q)
               PROVE  draft'.exec[p] \cap draft'.exec[q] = {}
    BY DEF OneEntryPerOutcome, Exposed
  <2> QED  BY <1>3 DEF RInv, OneEntryPerOutcome, Shrinks
<1> QED  BY <1>1, <1>2, <1>4, <1>5 DEF RInv

LEMMA NothingMoves ==
  ASSUME RInv, UNCHANGED <<db, draft, lock, xlist, xhand, answer, spent, placed, leaked>>
  PROVE  RInv'
<1>1. Typed'  BY DEF RInv, Typed, IsStore
<1>2. NothingPending'  BY DEF RInv, NothingPending
<1> QED  BY <1>1, <1>2, StoreStep DEF Shrinks

\* The assessors write statuses and reasons only.
LEMMA AssessPreserves ==
  ASSUME RInv, NEW a \in Assessors, AssessStep(a)
  PROVE  RInv'
<1>1. CASE StartSweep(a)
  BY <1>1, NothingMoves DEF StartSweep, executeVars
<1>2. CASE \E p \in Proposals : Evaluate(a, p)
  BY <1>2, NothingMoves DEF Evaluate, executeVars
<1>3. CASE DecideTimesOut(a)
  BY <1>3, NothingMoves DEF DecideTimesOut, executeVars
<1>4. CASE Decide(a)
  <2>1. View(a) = draft
    BY <1>4 DEF Decide, Write, MayWrite, View, RInv, NothingPending
  <2>2. /\ draft'.exec = draft.exec /\ draft'.resolved = draft.resolved
        /\ draft'.switches = draft.switches /\ DOMAIN draft' = DOMAIN draft
    BY <1>4, <2>1 DEF Decide, Write, RInv, Typed, IsStore, Fields
  <2>3. Typed'
    BY <1>4, <2>2 DEF Decide, Write, executeVars, RInv, Typed, IsStore
  <2>4. NothingPending'
    BY <1>4, <2>2, SizesAreNumbers
    DEF Decide, Write, MayWrite, RInv, NothingPending
  <2>5. Shrinks(draft, draft')  BY <2>2 DEF Exposed, Shrinks
  <2> QED  BY <1>4, <2>3, <2>4, <2>5, StoreStep DEF Decide, Write, executeVars
<1>5. CASE EndSweep(a)
  <2>1. View(a) = draft /\ a \notin Executors
    BY <1>5, SizesAreNumbers DEF EndSweep, View
  <2>2. /\ db' = draft /\ draft' = draft /\ lock' = Nobody
        /\ UNCHANGED <<xlist, xhand, answer, spent, placed, leaked>>
    BY <1>5, <2>1 DEF EndSweep, Commit, executeVars
  <2>3. Typed' /\ NothingPending'
    BY <2>2 DEF RInv, Typed, IsStore, NothingPending
  <2> QED  BY <2>2, <2>3, StoreStep DEF RInv, NothingPending, Shrinks
<1> QED  BY <1>1, <1>2, <1>3, <1>4, <1>5 DEF AssessStep

\* Every other writer finds the lock free, and what it does to executions and
\* resolutions takes entries out of the exposure.
LEMMA OtherWriter ==
  ASSUME RInv, lock = Nobody, db' = draft', leaked' = leaked,
         UNCHANGED <<lock, executeVars>>,
         IsStore(db'), db'.switches \subseteq db.switches,
         Shrinks(db, db')
  PROVE  RInv'
<1>1. draft = db  BY DEF RInv, NothingPending
<1>2. Typed' /\ NothingPending'
  BY <1>1 DEF executeVars, RInv, Typed, IsStore, NothingPending
<1> QED  BY <1>1, <1>2, StoreStep DEF executeVars

LEMMA EventPreserves ==
  ASSUME RInv, OtherStep, ~\E k \in Switches : SetKillSwitch(k)
  PROVE  RInv'
<1> USE DEF Event, Other
<1>0. IsStore(db)  BY DEF RInv, Typed
<1>1. CASE \E p \in Proposals : Insert(p) \/ Close(p) \/ Promote(p)
  <2>1. /\ IsStore(db') /\ db'.switches = db.switches
        /\ db'.exec = db.exec /\ db'.resolved = db.resolved
    BY <1>0, <1>1 DEF Insert, Close, Promote, IsStore, Fields
  <2> QED  BY <1>1, <2>1, OtherWriter DEF Insert, Close, Promote, Exposed, Shrinks
<1>2. CASE \E p \in Proposals : OrderDies(p)
  <2>1. PICK p \in Proposals : OrderDies(p)  BY <1>2
  <2>2. PICK x \in db.exec[p] :
          db' = [db EXCEPT !.exec[p] = @ \ {x},
                           !.pnl[p] = IF db.exec[p] = {x} THEN 0 ELSE @]
    BY <2>1 DEF OrderDies
  <2>3. /\ IsStore(db') /\ db'.switches = db.switches /\ db'.resolved = db.resolved
        /\ db'.exec = [db.exec EXCEPT ![p] = @ \ {x}]
    BY <1>0, <2>2 DEF IsStore, Fields
  <2>4. Shrinks(db, db')  BY <1>0, <2>3 DEF Exposed, IsStore, Shrinks
  <2> QED  BY <2>1, <2>3, <2>4, OtherWriter DEF OrderDies
<1>3. CASE \E p \in Proposals : Mark(p)
  <2>1. /\ IsStore(db') /\ db'.switches = db.switches
        /\ db'.exec = db.exec /\ db'.resolved = db.resolved
    BY <1>0, <1>3 DEF Mark, IsStore, Fields
  <2> QED  BY <1>3, <2>1, OtherWriter DEF Mark, Exposed, Shrinks
<1>4. CASE \E k \in Switches : ReleaseKillSwitch(k)
  <2>1. /\ IsStore(db') /\ db'.switches \subseteq db.switches
        /\ db'.exec = db.exec /\ db'.resolved = db.resolved
    BY <1>0, <1>4 DEF ReleaseKillSwitch, IsStore, Fields
  <2> QED  BY <1>4, <2>1, OtherWriter DEF ReleaseKillSwitch, Exposed, Shrinks
<1>5. CASE \E r \in Rules : CreateAuthorization(r) \/ AuthorizationLapses(r)
  <2>1. /\ IsStore(db') /\ db'.switches = db.switches
        /\ db'.exec = db.exec /\ db'.resolved = db.resolved
    BY <1>0, <1>5 DEF CreateAuthorization, AuthorizationLapses, IsStore, Fields
  <2> QED
    BY <1>5, <2>1, OtherWriter
    DEF CreateAuthorization, AuthorizationLapses, Exposed, Shrinks
<1>6. CASE \E p \in Proposals : ResolveMarket(Of[p].market)
  <2>1. PICK p \in Proposals : ResolveMarket(Of[p].market)  BY <1>6
  <2>2. /\ IsStore(db') /\ db'.switches = db.switches /\ db'.exec = db.exec
        /\ db'.resolved = db.resolved \cup {Of[p].market}
    BY <1>0, <2>1 DEF ResolveMarket, IsStore, Fields
  <2>3. Shrinks(db, db')  BY <2>2 DEF Exposed, Shrinks
  <2> QED  BY <2>1, <2>2, <2>3, OtherWriter DEF ResolveMarket
<1>7. CASE NewDay
  <2>1. /\ IsStore(db') /\ db'.switches = db.switches
        /\ db'.exec = db.exec /\ db'.resolved = db.resolved
    BY <1>0, <1>7 DEF NewDay, IsStore, Fields
  <2> QED  BY <1>7, <2>1, OtherWriter DEF NewDay, Exposed, Shrinks
<1> QED  BY <1>1, <1>2, <1>3, <1>4, <1>5, <1>6, <1>7 DEF OtherStep

\* A switch that is set starts with no order against it.
LEMMA SetPreserves ==
  ASSUME RInv, NEW k \in Switches, SetKillSwitch(k)
  PROVE  RInv'
<1>1. /\ lock = Nobody /\ draft = db /\ IsStore(db)
  BY DEF SetKillSwitch, Event, Other, RInv, Typed, NothingPending
<1>2. /\ IsStore(db') /\ draft' = db' /\ db'.switches = db.switches \cup {k}
      /\ db'.exec = db.exec /\ db'.resolved = db.resolved
      /\ leaked' = [leaked EXCEPT ![k] = [x \in Executors |-> 0]]
      /\ UNCHANGED <<lock, executeVars>>
  BY <1>1 DEF SetKillSwitch, Event, Other, IsStore, Fields
<1>3. Typed' /\ NothingPending'
  BY <1>1, <1>2 DEF executeVars, RInv, Typed, NothingPending
<1>4. WithinSession'  BY <1>2 DEF executeVars, RInv, WithinSession
<1>5. LeaksFewer'
  <2>1. \A j \in Switches : Armed(j)' = Armed(j)
    BY <1>2 DEF Armed, executeVars
  <2> QED  BY <1>2, <2>1 DEF RInv, Typed, LeaksFewer
<1>6. NoRivalActive' /\ OneEntryPerOutcome'
  BY <1>1, <1>2 DEF RInv, NoRivalActive, OneEntryPerOutcome, Exposed, executeVars
<1> QED  BY <1>3, <1>4, <1>5, <1>6 DEF RInv

-----------------------------------------------------------------------------
(***************************************************************************)
(* The executor.                                                           *)
(***************************************************************************)
\* What an executor that may write sees is the draft, and what any executor sees
\* of executions, resolutions and switches is what they are.
LEMMA ExecutorsView ==
  ASSUME RInv, NEW x \in Executors
  PROVE  /\ MayWrite(x) => View(x) = draft
         /\ IsStore(View(x)) /\ View(x).switches = db.switches
         /\ View(x).exec = draft.exec /\ Exposed(View(x)) = Exposed(draft)
<1>1. MayWrite(x) => View(x) = draft
  BY DEF MayWrite, View, RInv, NothingPending
<1>2. IsStore(View(x)) /\ View(x).switches = db.switches
  BY DEF View, RInv, Typed, NothingPending
<1>3. View(x).exec = draft.exec /\ View(x).resolved = draft.resolved
  BY DEF View, RInv, NothingPending
<1> QED  BY <1>1, <1>2, <1>3 DEF Exposed

LEMMA PassGuardsPreserves ==
  ASSUME RInv, NEW x \in Executors, NEW p \in Proposals, PassGuards(x, p)
  PROVE  RInv'
<1>1. /\ xhand[x] = NoProposal /\ xhand' = [xhand EXCEPT ![x] = p]
      /\ xlist' = [xlist EXCEPT ![x] = @ \ {p}]
      /\ UNCHANGED <<db, draft, lock, answer, spent, placed, leaked>>
  BY DEF PassGuards
<1>2. /\ ~\E k \in db.switches : Covers(k, p)
      /\ spent[x] + Of[p].size <= SessionMax
      /\ Entry(p) => \A q \in Exposed(View(x)) \ {p} : Entry(q) => ~SameOutcome(p, q)
  BY ExecutorsView DEF PassGuards, GuardsPass
<1>3. Typed' /\ NothingPending'
  BY <1>1 DEF RInv, Typed, IsStore, NothingPending
<1>4. WithinSession'  BY <1>1, <1>2 DEF RInv, Typed, WithinSession
<1>5. LeaksFewer'
  <2>1. \A k \in db.switches : Armed(k)' \subseteq Armed(k)
    BY <1>1, <1>2 DEF Armed, RInv, Typed
  <2> QED  BY <1>1, <2>1, LeaksStay DEF RInv, Typed
<1>6. OneEntryPerOutcome'  BY <1>1 DEF RInv, OneEntryPerOutcome
<1>7. NoRivalActive'
  BY <1>1, <1>2, ExecutorsView DEF RInv, Typed, NoRivalActive
<1> QED  BY <1>3, <1>4, <1>5, <1>6, <1>7 DEF RInv

LEMMA PostPreserves ==
  ASSUME RInv, NEW x \in Executors, NEW how \in {"accepted", "recovered", "rejected"},
         Post(x, how)
  PROVE  RInv'
<1> DEFINE p == xhand[x]
           charge == IF how \in {"accepted", "recovered"} THEN Of[p].size ELSE 0
<1>1. /\ p \in Proposals /\ answer[x] = "none"
      /\ answer' = [answer EXCEPT ![x] = IF how = "rejected" THEN how ELSE "placed"]
      /\ spent' = [spent EXCEPT ![x] = @ + charge]
      /\ placed' = [placed EXCEPT ![x] = @ + charge]
      /\ leaked' = [k \in Switches |-> [leaked[k] EXCEPT
                      ![x] = @ + IF k \in db.switches /\ Covers(k, p) THEN 1 ELSE 0]]
      /\ UNCHANGED <<db, draft, lock, xlist, xhand>>
  BY DEF Post, Charged, RInv, Typed
<1>2. charge \in Nat /\ charge <= Of[p].size /\ Of[p].size \in Nat
  BY <1>1, SizesAreNumbers
<1> HIDE DEF charge
<1>3. Typed'
  <2>1. spent' \in [Executors -> Nat] /\ placed' \in [Executors -> Nat]
    BY <1>1, <1>2 DEF RInv, Typed
  <2>2. leaked' \in [Switches -> [Executors -> Nat]]  BY <1>1 DEF RInv, Typed
  <2> QED  BY <1>1, <2>1, <2>2 DEF RInv, Typed, IsStore
<1>4. NothingPending'  BY <1>1 DEF RInv, NothingPending
<1>5. WithinSession'
  <2>1. spent[x] + charge <= SessionMax
    BY <1>1, <1>2, SizesAreNumbers DEF RInv, Typed, WithinSession
  <2> QED  BY <1>1, <2>1 DEF RInv, Typed, WithinSession
<1>6. LeaksFewer'
  <2> SUFFICES ASSUME NEW k \in Switches, NEW y \in Executors
               PROVE  /\ leaked'[k][y] <= 1
                      /\ k \in db.switches /\ y \in Armed(k)' => leaked'[k][y] = 0
    BY <1>1 DEF LeaksFewer
  <2>1. Armed(k)' = Armed(k) \ {x}
    BY <1>1 DEF Armed, RInv, Typed
  <2>2. CASE y = x /\ k \in db.switches /\ Covers(k, p)
    <3>1. x \in Armed(k)  BY <1>1, <2>2 DEF Armed
    <3>2. leaked[k][x] = 0  BY <2>2, <3>1 DEF RInv, LeaksFewer
    <3> QED  BY <1>1, <2>1, <2>2, <3>2 DEF RInv, Typed
  <2>3. CASE ~(y = x /\ k \in db.switches /\ Covers(k, p))
    <3>1. leaked'[k][y] = leaked[k][y]  BY <1>1, <2>3 DEF RInv, Typed
    <3> QED  BY <2>1, <3>1 DEF RInv, LeaksFewer
  <2> QED  BY <2>2, <2>3
<1>7. NoRivalActive' /\ OneEntryPerOutcome'
  BY <1>1 DEF RInv, NoRivalActive, OneEntryPerOutcome
<1> QED  BY <1>3, <1>4, <1>5, <1>6, <1>7 DEF RInv

\* A failed execution is a status and nothing else.
LEMMA FailedStore ==
  ASSUME NEW s, IsStore(s), NEW p
  PROVE  /\ IsStore(Failed(s, p)) /\ Failed(s, p).switches = s.switches
         /\ Failed(s, p).resolved = s.resolved /\ Failed(s, p).exec = s.exec
BY DEF IsStore, Failed, Fields

LEMMA RecordPreserves ==
  ASSUME RInv, NEW x \in Executors, Record(x)
  PROVE  RInv'
<1> DEFINE p == xhand[x]
<1>1. /\ xhand' = [xhand EXCEPT ![x] = NoProposal]
      /\ answer' = [answer EXCEPT ![x] = "none"]
      /\ UNCHANGED <<xlist, spent, placed, leaked>>
  BY DEF Record
<1>2. /\ Typed' /\ NothingPending' /\ db'.switches = db.switches
      /\ draft'.resolved = draft.resolved
      /\ \A q \in Proposals : \/ draft'.exec[q] = draft.exec[q]
                              \/ q = p /\ draft'.exec[q] = draft.exec[q] \cup {x}
  <2>1. CASE answer[x] = "placed"
    <3>1. /\ db' = [draft EXCEPT !.status[p] = "executed", !.exec[p] = @ \cup {x},
                                 !.today = @ \cup {<<p, x>>}]
          /\ draft' = db' /\ lock' \in {x, Nobody}
      BY <2>1, ExecutorsView DEF Record
    <3>2. /\ IsStore(draft') /\ draft'.switches = draft.switches
          /\ draft'.resolved = draft.resolved
          /\ draft'.exec = [draft.exec EXCEPT ![p] = @ \cup {x}]
      BY <3>1 DEF RInv, Typed, IsStore, Fields
    <3>3. Typed'  BY <1>1, <3>1, <3>2 DEF RInv, Typed
    <3>4. NothingPending'  BY <3>1 DEF NothingPending
    <3> QED  BY <3>1, <3>2, <3>3, <3>4 DEF RInv, Typed, IsStore, NothingPending
  <2>2. CASE answer[x] # "placed"
    <3>1. db' = db /\ draft' = Failed(draft, p) /\ lock' = x
      BY <2>2, ExecutorsView DEF Record, Write
    <3>2. /\ IsStore(draft') /\ draft'.switches = draft.switches
          /\ draft'.resolved = draft.resolved /\ draft'.exec = draft.exec
      BY <3>1, FailedStore DEF RInv, Typed
    <3>3. Typed'  BY <1>1, <3>1, <3>2 DEF RInv, Typed
    <3>4. NothingPending'
      BY <3>1, <3>2, SizesAreNumbers DEF RInv, NothingPending
    <3> QED  BY <3>1, <3>2, <3>3, <3>4
  <2> QED  BY <2>1, <2>2
<1>3. WithinSession'
  BY <1>1, SizesAreNumbers DEF RInv, Typed, WithinSession
<1>4. LeaksFewer'
  <2>1. \A k \in db.switches : Armed(k)' \subseteq Armed(k)
    BY <1>1, SizesAreNumbers DEF Armed, RInv, Typed
  <2> QED  BY <1>1, <1>2, <2>1, LeaksStay DEF RInv, Typed
<1>5. Exposed(draft)' \subseteq Exposed(draft) \cup {p}
  BY <1>2 DEF Exposed
<1>6. NoRivalActive'
  <2> SUFFICES ASSUME NEW y \in Executors, xhand'[y] \in Proposals, Entry(xhand'[y]),
                      NEW q \in Exposed(draft') \ {xhand'[y]},
                      Entry(q), SameOutcome(xhand'[y], q)
               PROVE  y \notin draft'.exec[q]
    BY DEF NoRivalActive, Exposed, Entry, SameOutcome
  <2>1. y # x /\ xhand'[y] = xhand[y] /\ q \in Proposals
    BY <1>1, SizesAreNumbers DEF RInv, Typed, Exposed
  <2>2. q \in Exposed(draft) => y \notin draft.exec[q]
    BY <2>1 DEF RInv, NoRivalActive
  <2>3. q \notin Exposed(draft) => draft.exec[q] = {}
    BY <1>2, <2>1 DEF Exposed
  <2> QED  BY <1>2, <2>1, <2>2, <2>3
<1>7. OneEntryPerOutcome'
  <2> SUFFICES ASSUME NEW q \in Exposed(draft'), NEW r \in Exposed(draft'),
                      q # r, Entry(q), Entry(r), SameOutcome(q, r), r # p,
                      NEW y \in draft'.exec[q] \cap draft'.exec[r]
               PROVE  FALSE
    BY DEF OneEntryPerOutcome, Exposed, Entry, SameOutcome
  <2>1. q \in Proposals /\ r \in Proposals /\ r \in Exposed(draft) /\ y \in draft.exec[r]
    BY <1>2, <1>5 DEF Exposed
  <2>2. CASE y \in draft.exec[q]
    <3>1. q \in Exposed(draft)  BY <1>2, <2>1, <2>2 DEF Exposed
    <3> QED  BY <2>1, <2>2, <3>1 DEF RInv, OneEntryPerOutcome
  <2>3. CASE y \notin draft.exec[q]
    <3>1. q = p /\ y = x  BY <1>2, <2>1, <2>3
    <3> QED  BY <2>1, <3>1 DEF RInv, NoRivalActive
  <2> QED  BY <2>2, <2>3
<1> QED  BY <1>2, <1>3, <1>4, <1>6, <1>7 DEF RInv

\* A refused proposal and one whose record is lost only leave the executor.
LEMMA RefusePreserves ==
  ASSUME RInv, NEW x \in Executors, NEW p \in Proposals, Refuse(x, p)
  PROVE  RInv'
<1>1. /\ lock' = x /\ db' = db /\ draft' = Failed(draft, p)
      /\ xlist' = [xlist EXCEPT ![x] = @ \ {p}]
      /\ UNCHANGED <<xhand, answer, spent, placed, leaked>>
  BY ExecutorsView DEF Refuse, Write
<1>2. /\ IsStore(draft') /\ draft'.switches = draft.switches
      /\ draft'.resolved = draft.resolved /\ draft'.exec = draft.exec
  BY <1>1, FailedStore DEF RInv, Typed
<1>3. Typed'  BY <1>1, <1>2 DEF RInv, Typed
<1>4. NothingPending'
  BY <1>1, <1>2, SizesAreNumbers DEF RInv, NothingPending
<1>5. Shrinks(draft, draft')  BY <1>2 DEF Exposed, Shrinks
<1> QED  BY <1>1, <1>3, <1>4, <1>5, StoreStep

LEMMA RecordLostPreserves ==
  ASSUME RInv, NEW x \in Executors, RecordTimesOut(x)
  PROVE  RInv'
<1>1. /\ xhand' = [xhand EXCEPT ![x] = NoProposal]
      /\ answer' = [answer EXCEPT ![x] = "none"]
      /\ UNCHANGED <<db, draft, lock, xlist, spent, placed, leaked>>
  BY DEF RecordTimesOut
<1>2. Typed' /\ NothingPending'
  BY <1>1 DEF RInv, Typed, IsStore, NothingPending
<1>3. WithinSession'
  BY <1>1, SizesAreNumbers DEF RInv, Typed, WithinSession
<1>4. LeaksFewer'
  <2>1. \A k \in db.switches : Armed(k)' \subseteq Armed(k)
    BY <1>1, SizesAreNumbers DEF Armed, RInv, Typed
  <2> QED  BY <1>1, <2>1, LeaksStay DEF RInv, Typed
<1>5. NoRivalActive' /\ OneEntryPerOutcome'
  BY <1>1, SizesAreNumbers DEF RInv, Typed, NoRivalActive, OneEntryPerOutcome
<1> QED  BY <1>2, <1>3, <1>4, <1>5 DEF RInv

LEMMA StartPreserves ==
  ASSUME RInv, NEW x \in Executors, StartExecute(x)
  PROVE  RInv'
<1>1. /\ xlist' \in [Executors -> SUBSET Proposals]
      /\ UNCHANGED <<db, draft, lock, xhand, answer, spent, placed, leaked>>
  BY DEF StartExecute, RInv, Typed
<1>2. Typed' /\ NothingPending'
  BY <1>1 DEF RInv, Typed, IsStore, NothingPending
<1> QED  BY <1>1, <1>2, StoreStep DEF Shrinks

\* The session starts again from nothing.
LEMMA EndPreserves ==
  ASSUME RInv, NEW x \in Executors, EndExecute(x)
  PROVE  RInv'
<1>1. /\ xhand[x] = NoProposal /\ draft' = draft
      /\ \/ lock' = Nobody /\ db' = draft
         \/ UNCHANGED <<lock, db>>
      /\ spent' = [spent EXCEPT ![x] = 0] /\ placed' = [placed EXCEPT ![x] = 0]
      /\ UNCHANGED <<xlist, xhand, answer, leaked>>
  BY ExecutorsView DEF EndExecute, Resting, Commit
<1>2. Typed' /\ NothingPending'
  BY <1>1 DEF RInv, Typed, IsStore, NothingPending
<1>3. WithinSession'
  BY <1>1, SizesAreNumbers DEF RInv, Typed, WithinSession
<1>4. LeaksFewer'
  <2>1. \A k \in db.switches : Armed(k)' \subseteq Armed(k)
    BY <1>1 DEF Armed
  <2> QED  BY <1>1, <2>1, LeaksStay DEF RInv, Typed, NothingPending
<1>5. NoRivalActive' /\ OneEntryPerOutcome'
  BY <1>1 DEF RInv, NoRivalActive, OneEntryPerOutcome
<1> QED  BY <1>2, <1>3, <1>4, <1>5 DEF RInv

LEMMA ExecutePreserves ==
  ASSUME RInv, NEW x \in Executors, ExecuteStep(x)
  PROVE  RInv'
BY StartPreserves, RecordPreserves, RecordLostPreserves, EndPreserves,
   PassGuardsPreserves, RefusePreserves, PostPreserves DEF ExecuteStep

-----------------------------------------------------------------------------
(***************************************************************************)
(* The theorems.                                                           *)
(***************************************************************************)
LEMMA RInit == Init => RInv
<1> SUFFICES ASSUME Init PROVE RInv
  OBVIOUS
<1>1. Typed
  BY DEF Init, Typed, IsStore, EmptyStore, Fields
<1>2. NothingPending
  BY DEF Init, NothingPending
<1>3. WithinSession
  BY SizesAreNumbers DEF Init, WithinSession
<1>4. LeaksFewer
  BY DEF Init, EmptyStore, LeaksFewer
<1>5. Exposed(draft) = {} /\ \A x \in Executors : xhand[x] = NoProposal
  BY DEF Init, EmptyStore, Exposed
<1> QED
  BY <1>1, <1>2, <1>3, <1>4, <1>5, SizesAreNumbers
  DEF RInv, NoRivalActive, OneEntryPerOutcome

LEMMA RNext == RInv /\ [Next]_vars => RInv'
<1> SUFFICES ASSUME RInv, [Next]_vars PROVE RInv'
  OBVIOUS
<1>1. CASE \E a \in Assessors : AssessStep(a)
  BY <1>1, AssessPreserves
<1>2. CASE \E x \in Executors : ExecuteStep(x)
  BY <1>2, ExecutePreserves
<1>3. CASE OtherStep
  BY <1>3, EventPreserves, SetPreserves
<1>4. CASE ReturnStep
  BY <1>4, NothingMoves DEF ReturnStep, AssessReturned, ReadBack, executeVars
<1>5. CASE UNCHANGED vars
  BY <1>5, NothingMoves DEF vars, executeVars
<1> QED  BY <1>1, <1>2, <1>3, <1>4, <1>5 DEF Next

\* The inductive invariant holds in every reachable state, whatever the caps,
\* the rules, the number of executors and the number of events.
THEOREM RiskInvariance == Spec => []RInv
BY RInit, RNext, PTL DEF Spec

\* The orders one tick places (execute_record with its session_state) stay
\* within SESSION_MAX_SPEND_USDC, whatever other processes do meanwhile.
THEOREM TickSpending == Spec => []TickWithinSession
<1>1. RInv => TickWithinSession
  BY DEF RInv, WithinSession, TickWithinSession
<1> QED  BY <1>1, RiskInvariance, PTL

\* Once a kill switch is set, each executor has at most one more order to post
\* against it, for any number of executors (check_kill_switch, execute_record).
THEOREM KillSwitchBound == Spec => []KillSwitchLeaksOnce
<1>1. RInv => KillSwitchLeaksOnce
  BY DEF RInv, LeaksFewer, KillSwitchLeaksOnce
<1> QED  BY <1>1, RiskInvariance, PTL

\* However many executors share the queue and however many assessors race to
\* authorize, no executor has two active entries for one outcome of an
\* unresolved market (has_active_market_outcome_exposure, record_execution).
THEOREM OneEntry == Spec => []OneEntryPerOutcome
<1>1. RInv => OneEntryPerOutcome
  BY DEF RInv
<1> QED  BY <1>1, RiskInvariance, PTL

-----------------------------------------------------------------------------
(***************************************************************************)
(* The size of a set of orders is a fold, which chooses the order in which *)
(* it adds.  That the fold is well defined, and independent of the choice, *)
(* is shown by looking at a smallest set for which it is not.              *)
(***************************************************************************)
LEMMA SmallestSubset ==
  ASSUME NEW S, IsFiniteSet(S), NEW B, B \subseteq SUBSET S, B # {}
  PROVE  \E T \in B : \A U \in B : U \subseteq T => U = T
<1>1. B \subseteq FiniteSubsetsOf(S)
  BY FS_Subset DEF FiniteSubsetsOf
<1>2. IsWellFoundedOn(StrictSubsetOrdering(S), FiniteSubsetsOf(S))
  BY FS_StrictSubsetOrderingWellFounded
<1>3. PICK T \in B : \A U \in B : ~(<<U, T>> \in StrictSubsetOrdering(S))
  BY <1>1, <1>2, WFMin
<1> QED  BY <1>3 DEF StrictSubsetOrdering

Pick(s) == CHOOSE x \in s : TRUE

IsTally(w, g, S) ==
  g = [s \in SUBSET S |-> IF s = {} THEN 0 ELSE w[Pick(s)] + g[s \ {Pick(s)}]]

LEMMA PickedIsMember == ASSUME NEW S, S # {} PROVE Pick(S) \in S
BY DEF Pick

LEMMA TallyAt ==
  ASSUME NEW w, NEW g, NEW S, IsTally(w, g, S), NEW s \in SUBSET S
  PROVE  g[s] = IF s = {} THEN 0 ELSE w[Pick(s)] + g[s \ {Pick(s)}]
<1> DEFINE F == [t \in SUBSET S |-> IF t = {} THEN 0 ELSE w[Pick(t)] + g[t \ {Pick(t)}]]
<1>1. g = F  BY DEF IsTally
<1>2. F[s] = IF s = {} THEN 0 ELSE w[Pick(s)] + g[s \ {Pick(s)}]  OBVIOUS
<1> HIDE DEF F
<1> QED  BY <1>1, <1>2

LEMMA TallyUnique ==
  ASSUME NEW w, NEW g, NEW h, NEW S, NEW T, IsFiniteSet(T), T \subseteq S,
         IsTally(w, g, S), IsTally(w, h, T)
  PROVE  \A s \in SUBSET T : g[s] = h[s]
<1> DEFINE B == {s \in SUBSET T : g[s] # h[s]}
<1> SUFFICES ASSUME B # {} PROVE FALSE
  OBVIOUS
<1>0. B \subseteq SUBSET T
  OBVIOUS
<1> HIDE DEF B
<1>1. PICK s \in B : \A u \in B : u \subseteq s => u = s
  BY <1>0, SmallestSubset
<1> USE DEF B
<1>2. s \in SUBSET S /\ s \in SUBSET T
  OBVIOUS
<1>3. s # {}  BY <1>2, TallyAt
<1>4. s \ {Pick(s)} \notin B  BY <1>1, <1>3, PickedIsMember
<1>5. g[s \ {Pick(s)}] = h[s \ {Pick(s)}]  BY <1>2, <1>4
<1>6. g[s] = h[s]  BY <1>2, <1>3, <1>5, TallyAt
<1> QED  BY <1>6

LEMMA TallyExists ==
  ASSUME NEW w, NEW S, IsFiniteSet(S)
  PROVE  \E g : IsTally(w, g, S)
<1> DEFINE B == {T \in SUBSET S : ~\E g : IsTally(w, g, T)}
<1> SUFFICES ASSUME B # {} PROVE FALSE
  OBVIOUS
<1>0. B \subseteq SUBSET S
  OBVIOUS
<1> HIDE DEF B
<1>1. PICK T \in B : \A U \in B : U \subseteq T => U = T
  BY <1>0, SmallestSubset
<1> USE DEF B
<1> DEFINE G(U) == CHOOSE g : IsTally(w, g, U)
           Rest(s) == s \ {Pick(s)}
           h == [s \in SUBSET T |-> IF s = {} THEN 0 ELSE w[Pick(s)] + G(Rest(s))[Rest(s)]]
<1>2. \A U \in SUBSET T : U # T => IsTally(w, G(U), U) /\ IsFiniteSet(U)
  BY <1>1, FS_Subset
<1>3. \A s \in SUBSET T : s # {} => Rest(s) \in SUBSET T /\ Rest(s) # T /\ Rest(s) # s
  BY PickedIsMember
<1> HIDE DEF G
<1>4. ASSUME NEW s \in SUBSET T, s # {}
      PROVE  h[Rest(s)] = G(Rest(s))[Rest(s)]
  <2> DEFINE u == Rest(s)
  <2>1. IsTally(w, G(u), u) /\ IsFiniteSet(u) /\ u \in SUBSET T  BY <1>2, <1>3, <1>4
  <2> HIDE DEF u
  <2>2. CASE u = {}
    <3>1. G(u)[u] = 0  BY <2>1, <2>2, TallyAt
    <3> QED  BY <2>1, <2>2, <3>1 DEF u
  <2>3. CASE u # {}
    <3>1. G(u)[u] = w[Pick(u)] + G(u)[Rest(u)]  BY <2>1, <2>3, TallyAt
    <3>2. IsTally(w, G(Rest(u)), Rest(u)) /\ IsFiniteSet(Rest(u))
      BY <1>2, <1>3, <2>1, <2>3
    <3>3. G(u)[Rest(u)] = G(Rest(u))[Rest(u)]  BY <2>1, <3>2, TallyUnique
    <3>4. h[u] = w[Pick(u)] + G(Rest(u))[Rest(u)]  BY <2>1, <2>3
    <3> QED  BY <3>1, <3>3, <3>4 DEF u
  <2> QED  BY <2>2, <2>3
<1>5. h = [s \in SUBSET T |-> IF s = {} THEN 0 ELSE w[Pick(s)] + h[Rest(s)]]
  <2> DEFINE k == [s \in SUBSET T |-> IF s = {} THEN 0 ELSE w[Pick(s)] + h[Rest(s)]]
  <2>1. \A s \in SUBSET T : h[s] = k[s]  BY <1>4
  <2> QED  BY <2>1
<1>6. IsTally(w, h, T)  BY <1>5 DEF IsTally
<1> QED  BY <1>1, <1>6

Pairs == Proposals \X Executors
Weight == [o \in Pairs |-> Of[o[1]].size]

\* The fold in SizeOf.
LEMMA SizeIsTally ==
  ASSUME NEW S \in SUBSET Pairs, IsFiniteSet(S)
  PROVE  \E g : IsTally(Weight, g, S) /\ SizeOf(S) = g[S]
<1> DEFINE Is(g) == g = [s \in SUBSET S |->
                      IF s = {} THEN 0
                      ELSE Of[(CHOOSE x \in s : TRUE)[1]].size + g[s \ {CHOOSE x \in s : TRUE}]]
           iter == CHOOSE g : Is(g)
<1>1. SizeOf(S) = iter[S]
  BY Zenon DEF SizeOf, MapThenSumSet, MapThenFoldSet
<1>2. \A g : Is(g) <=> IsTally(Weight, g, S)
  <2> SUFFICES ASSUME NEW g
               PROVE  \A s \in SUBSET S : s # {} =>
                        Of[(CHOOSE x \in s : TRUE)[1]].size = Weight[Pick(s)]
    BY DEF IsTally, Pick
  <2> QED  BY PickedIsMember DEF Weight, Pick, Pairs
<1>3. \E g : Is(g)
  <2> HIDE DEF Is
  <2>1. PICK g : IsTally(Weight, g, S)  BY TallyExists
  <2> QED  BY <1>2, <2>1
<1>4. Is(iter)  BY <1>3
<1> HIDE DEF iter, Is
<1> QED  BY <1>1, <1>2, <1>4

LEMMA SizeByPick ==
  ASSUME NEW S \in SUBSET Pairs, IsFiniteSet(S)
  PROVE  SizeOf(S) = IF S = {} THEN 0 ELSE Weight[Pick(S)] + SizeOf(S \ {Pick(S)})
<1>1. PICK g : IsTally(Weight, g, S) /\ SizeOf(S) = g[S]  BY SizeIsTally
<1> DEFINE R == S \ {Pick(S)}
<1>2. IsFiniteSet(R) /\ R \in SUBSET Pairs /\ R \subseteq S  BY FS_Subset
<1> HIDE DEF R
<1>3. PICK h : IsTally(Weight, h, R) /\ SizeOf(R) = h[R]  BY <1>2, SizeIsTally
<1>4. g[R] = h[R]  BY <1>1, <1>2, <1>3, TallyUnique
<1>5. g[S] = IF S = {} THEN 0 ELSE Weight[Pick(S)] + g[R]  BY <1>1, TallyAt DEF R
<1> QED  BY <1>1, <1>3, <1>4, <1>5 DEF R

LEMMA WeightType == Weight \in [Pairs -> Nat]
BY RiskAssumption DEF RiskAssumption, Weight, Pairs

LEMMA SizeType ==
  ASSUME NEW S \in SUBSET Pairs, IsFiniteSet(S)
  PROVE  SizeOf(S) \in Nat
<1> DEFINE B == {T \in SUBSET S : SizeOf(T) \notin Nat}
<1>0. B \subseteq SUBSET S /\ (SizeOf(S) \notin Nat => B # {})
  OBVIOUS
<1> SUFFICES ASSUME B # {} PROVE FALSE
  BY <1>0
<1> HIDE DEF B
<1>1. PICK T \in B : \A U \in B : U \subseteq T => U = T
  BY <1>0, SmallestSubset
<1>2. T \in SUBSET Pairs /\ IsFiniteSet(T)  BY <1>0, <1>1, FS_Subset
<1>3. T # {}
  <2>1. T = {} => SizeOf(T) = 0  BY <1>2, SizeByPick
  <2> QED  BY <1>1, <2>1 DEF B
<1>4. Pick(T) \in T  BY <1>3, PickedIsMember
<1>5. SizeOf(T \ {Pick(T)}) \in Nat  BY <1>0, <1>1, <1>4 DEF B
<1>6. Weight[Pick(T)] \in Nat  BY <1>2, <1>4, WeightType
<1> QED  BY <1>1, <1>2, <1>3, <1>5, <1>6, SizeByPick DEF B

\* Whatever order the fold chooses, every member adds its size.
LEMMA SizeWithout ==
  ASSUME NEW S \in SUBSET Pairs, IsFiniteSet(S), NEW o \in S
  PROVE  SizeOf(S) = Weight[o] + SizeOf(S \ {o})
<1> DEFINE Odd(T) == \E x \in T : SizeOf(T) # Weight[x] + SizeOf(T \ {x})
           B == {T \in SUBSET S : Odd(T)}
<1>0. B \subseteq SUBSET S /\ (Odd(S) => B # {})
  OBVIOUS
<1> SUFFICES ASSUME B # {} PROVE FALSE
  BY <1>0
<1> HIDE DEF B
<1>1. PICK T \in B : \A U \in B : U \subseteq T => U = T
  BY <1>0, SmallestSubset
<1>2. PICK x \in T : SizeOf(T) # Weight[x] + SizeOf(T \ {x})  BY <1>1 DEF B
<1> DEFINE y == Pick(T)
<1>3. y \in T /\ T \in SUBSET Pairs /\ IsFiniteSet(T)
  BY <1>0, <1>1, <1>2, PickedIsMember, FS_Subset
<1>4. SizeOf(T) = Weight[y] + SizeOf(T \ {y})  BY <1>2, <1>3, SizeByPick
<1> HIDE DEF y
<1>5. x # y  BY <1>2, <1>4
<1>6. ~Odd(T \ {x}) /\ ~Odd(T \ {y})
  <2>1. \A z \in T : T \ {z} \in SUBSET S /\ T \ {z} \notin B
    BY <1>0, <1>1
  <2> HIDE DEF Odd
  <2> QED  BY <1>2, <1>3, <2>1 DEF B
<1>7. /\ SizeOf(T \ {x}) = Weight[y] + SizeOf((T \ {x}) \ {y})
      /\ SizeOf(T \ {y}) = Weight[x] + SizeOf((T \ {y}) \ {x})
  BY <1>2, <1>3, <1>5, <1>6
<1>8. (T \ {x}) \ {y} = (T \ {y}) \ {x} /\ IsFiniteSet((T \ {x}) \ {y})
  BY <1>3, FS_Subset
<1>9. /\ Weight[x] \in Nat /\ Weight[y] \in Nat
      /\ SizeOf((T \ {x}) \ {y}) \in Nat
  BY <1>2, <1>3, <1>8, WeightType, SizeType
<1> QED  BY <1>2, <1>4, <1>7, <1>8, <1>9

LEMMA SizeMonotone ==
  ASSUME NEW S \in SUBSET Pairs, IsFiniteSet(S), NEW T \in SUBSET S
  PROVE  SizeOf(T) <= SizeOf(S)
<1> DEFINE B == {U \in SUBSET S : T \subseteq U /\ ~(SizeOf(T) <= SizeOf(U))}
<1>0. B \subseteq SUBSET S /\ (~(SizeOf(T) <= SizeOf(S)) => B # {})
  OBVIOUS
<1> SUFFICES ASSUME B # {} PROVE FALSE
  BY <1>0
<1> HIDE DEF B
<1>1. PICK U \in B : \A V \in B : V \subseteq U => V = U
  BY <1>0, SmallestSubset
<1>2. /\ T \subseteq U /\ U \in SUBSET Pairs /\ IsFiniteSet(U) /\ IsFiniteSet(T)
      /\ ~(SizeOf(T) <= SizeOf(U))
  BY <1>0, <1>1, FS_Subset DEF B
<1>3. T # U  BY <1>2, SizeType
<1>4. PICK x \in U : x \notin T  BY <1>2, <1>3
<1>5. U \ {x} \notin B  BY <1>1, <1>4
<1>6. SizeOf(T) <= SizeOf(U \ {x})  BY <1>0, <1>1, <1>2, <1>4, <1>5 DEF B
<1>7. SizeOf(U) = Weight[x] + SizeOf(U \ {x})  BY <1>2, <1>4, SizeWithout
<1>8. /\ IsFiniteSet(U \ {x}) /\ Weight[x] \in Nat
      /\ SizeOf(T) \in Nat /\ SizeOf(U \ {x}) \in Nat
  <2>1. IsFiniteSet(U \ {x}) /\ x \in Pairs  BY <1>2, <1>4, FS_Subset
  <2> QED  BY <1>2, <2>1, WeightType, SizeType
<1> QED  BY <1>2, <1>6, <1>7, <1>8
-----------------------------------------------------------------------------
(***************************************************************************)
(* Two loops alone: of the proposals for one outcome that wait together,   *)
(* not all yield.                                                          *)
(***************************************************************************)
\* What the assessors work on.
Assessing ==
  /\ db.status \in [Proposals -> Status] /\ draft.status \in [Proposals -> Status]
  /\ DOMAIN db.why = Proposals /\ DOMAIN draft.why = Proposals
  /\ todo \in [Assessors -> SUBSET Proposals]
  /\ hand \in [Assessors -> Proposals \cup {NoProposal}]
  /\ DOMAIN verdict = Assessors
  /\ \A a \in Assessors : verdict[a].status \in Status

\* Without commands beside the autopilot there is one assessor and one executor.
LoopsOnly ==
  ~cli => /\ todo["cli"] = {} /\ hand["cli"] = NoProposal /\ lock # "cli"
          /\ \A x \in Executors \ {Autopilot} :
               xlist[x] = {} /\ xhand[x] = NoProposal /\ lock # x

Yields(status, why) == status = "risk_blocked" /\ why = {"entry_already_pending"}

\* A rival of p that does not yield.
Standing(s, p, q) ==
  Entry(q) /\ SameOutcome(p, q) /\ ~Yields(s.status[q], s.why[q])

\* No outcome has entries that all yield, as written or as committed.
RivalsStand ==
  ~cli => \A p \in Proposals : Entry(p) =>
    /\ \E q \in Proposals : Standing(db, p, q)
    /\ \E q \in Proposals : Standing(draft, p, q)

\* A verdict without reasons leaves the old ones.
WhyThen(p) ==
  IF verdict["loop"].why = {} THEN draft.why[p] ELSE verdict["loop"].why

\* An entry that is about to yield has a rival that does not.
YieldsToSomeone ==
  ~cli => \A p \in Proposals :
    /\ hand["loop"] = p /\ Entry(p)
    /\ Yields(verdict["loop"].status, WhyThen(p))
    => \E q \in Proposals \ {p} : Standing(draft, p, q)

\* With the two loops alone, what the executor has not committed are failures.
OnlyFailures ==
  ~cli /\ lock = Autopilot =>
    /\ draft.why = db.why
    /\ \A p \in Proposals : draft.status[p] \in {db.status[p], "failed"}

\* Admitted by the loop, and neither placed nor given up yet.
OnWay ==
  {p \in Proposals : \/ db.status[p] \in Queued \/ draft.status[p] \in Queued
                     \/ hand["loop"] = p /\ verdict["loop"].status \in Queued
                     \/ p \in xlist[Autopilot] \/ xhand[Autopilot] = p}

\* As long as one proposal at a time was on its way, there is room for it; it
\* may have been placed before and be admitted again.
RoomForOne ==
  ~crowded =>
    /\ ~cli
    /\ SizeOf(AtRisk(draft)) <= ExposureCap
    /\ \A p \in OnWay :
         /\ Entry(p) /\ \A q \in OnWay : q = p
         /\ SizeOf(AtRisk(draft) \ {<<p, Autopilot>>}) + Of[p].size <= ExposureCap

AnswersAreOfHands == \A x \in Executors : answer[x] # "none" => xhand[x] \in Proposals

AInv ==
  /\ RInv /\ Assessing /\ LoopsOnly /\ AnswersAreOfHands /\ OnlyFailures
  /\ YieldsToSomeone /\ RivalsStand

\* What an admitted proposal may become at the hands of others.
Steps == {<<"none", "proposed">>, <<"pending_approval", "approved">>,
          <<"pending_approval", "rejected">>, <<"approved", "authorized_for_execution">>}

LEMMA OthersEffect ==
  ASSUME RInv, Assessing, OtherStep
  PROVE  /\ lock = Nobody /\ lock' = Nobody /\ draft = db /\ draft' = db'
         /\ UNCHANGED <<cli, assessVars, executeVars, crowded>>
         /\ db'.status \in [Proposals -> Status] /\ db'.why = db.why
         /\ \A q \in Proposals : \/ db'.status[q] = db.status[q]
                                 \/ <<db.status[q], db'.status[q]>> \in Steps
         /\ Shrinks(db, db')
<1> USE DEF Event, Other
<1>0. IsStore(db) /\ db.status \in [Proposals -> Status]  BY DEF RInv, Typed, Assessing
<1>1. /\ lock = Nobody /\ lock' = Nobody /\ draft' = db'
      /\ UNCHANGED <<cli, assessVars, executeVars, crowded>>
  BY DEF OtherStep, Insert, Close, Promote, OrderDies, Mark, SetKillSwitch, ReleaseKillSwitch,
         CreateAuthorization, AuthorizationLapses, ResolveMarket, NewDay
<1>2. draft = db  BY <1>1 DEF RInv, NothingPending
<1>3. ASSUME NEW p \in Proposals, Insert(p) \/ Close(p) \/ Promote(p)
      PROVE  /\ db'.status \in [Proposals -> Status] /\ db'.why = db.why
             /\ \A q \in Proposals : \/ db'.status[q] = db.status[q]
                                     \/ <<db.status[q], db'.status[q]>> \in Steps
             /\ db'.exec = db.exec /\ db'.resolved = db.resolved
  <2>1. PICK to : /\ db' = [db EXCEPT !.status[p] = to]
                  /\ <<db.status[p], to>> \in Steps /\ to \in Status
    BY <1>3 DEF Insert, Close, Promote, Steps, Status, Queued
  <2> QED  BY <1>0, <2>1 DEF IsStore, Fields
<1>4. ASSUME ~\E p \in Proposals : Insert(p) \/ Close(p) \/ Promote(p)
      PROVE  db'.status = db.status /\ db'.why = db.why /\ Shrinks(db, db')
  <2>1. CASE \E p \in Proposals : OrderDies(p)
    <3>1. PICK p \in Proposals, x \in Executors :
            db' = [db EXCEPT !.exec[p] = @ \ {x},
                             !.pnl[p] = IF db.exec[p] = {x} THEN 0 ELSE @]
      BY <1>0, <2>1 DEF OrderDies, IsStore
    <3>2. /\ db'.status = db.status /\ db'.why = db.why /\ db'.resolved = db.resolved
          /\ db'.exec = [db.exec EXCEPT ![p] = @ \ {x}]
      BY <1>0, <3>1 DEF IsStore, Fields
    <3> QED  BY <1>0, <3>2 DEF Exposed, IsStore, Shrinks
  <2>2. CASE \E p \in Proposals : ResolveMarket(Of[p].market)
    <3>1. PICK p \in Proposals : ResolveMarket(Of[p].market)  BY <2>2
    <3>2. /\ db'.status = db.status /\ db'.why = db.why /\ db'.exec = db.exec
          /\ db'.resolved = db.resolved \cup {Of[p].market}
      BY <1>0, <3>1 DEF ResolveMarket, IsStore, Fields
    <3> QED  BY <3>2 DEF Exposed, Shrinks
  <2>3. ASSUME \/ \E p \in Proposals : Mark(p)
               \/ \E k \in Switches : SetKillSwitch(k) \/ ReleaseKillSwitch(k)
               \/ \E r \in Rules : CreateAuthorization(r) \/ AuthorizationLapses(r)
               \/ NewDay
        PROVE  db'.status = db.status /\ db'.why = db.why /\ Shrinks(db, db')
    <3> DEFINE Same == /\ db'.status = db.status /\ db'.why = db.why
                       /\ db'.exec = db.exec /\ db'.resolved = db.resolved
    <3>1. CASE \E p \in Proposals : Mark(p)
      <4>1. Same  BY <1>0, <3>1 DEF Mark, IsStore, Fields
      <4> QED  BY <4>1 DEF Exposed, Shrinks
    <3>2. CASE \E k \in Switches : SetKillSwitch(k) \/ ReleaseKillSwitch(k)
      <4>1. Same  BY <1>0, <3>2 DEF SetKillSwitch, ReleaseKillSwitch, IsStore, Fields
      <4> QED  BY <4>1 DEF Exposed, Shrinks
    <3>3. CASE \E r \in Rules : CreateAuthorization(r) \/ AuthorizationLapses(r)
      <4>1. Same
        BY <1>0, <3>3 DEF CreateAuthorization, AuthorizationLapses, IsStore, Fields
      <4> QED  BY <4>1 DEF Exposed, Shrinks
    <3>4. CASE NewDay
      <4>1. Same  BY <1>0, <3>4 DEF NewDay, IsStore, Fields
      <4> QED  BY <4>1 DEF Exposed, Shrinks
    <3> QED  BY <2>3, <3>1, <3>2, <3>3, <3>4
  <2> QED  BY <1>4, <2>1, <2>2, <2>3 DEF OtherStep
<1>5. ASSUME \E p \in Proposals : Insert(p) \/ Close(p) \/ Promote(p)
      PROVE  /\ db'.status \in [Proposals -> Status] /\ db'.why = db.why
             /\ \A q \in Proposals : \/ db'.status[q] = db.status[q]
                                     \/ <<db.status[q], db'.status[q]>> \in Steps
             /\ Shrinks(db, db')
  BY <1>3, <1>5 DEF Exposed, Shrinks
<1> QED  BY <1>0, <1>1, <1>2, <1>4, <1>5

LEMMA DecideEffect ==
  ASSUME RInv, Assessing, NEW a \in Assessors, Decide(a)
  PROVE  /\ hand[a] \in Proposals /\ MayWrite(a) /\ lock' = a /\ db' = db
         /\ draft'.status = [draft.status EXCEPT ![hand[a]] = verdict[a].status]
         /\ draft'.why = [draft.why EXCEPT ![hand[a]] = IF verdict[a].why = {} THEN @ ELSE verdict[a].why]
         /\ draft'.exec = draft.exec /\ draft'.resolved = draft.resolved
         /\ hand' = [hand EXCEPT ![a] = NoProposal]
         /\ verdict' = [verdict EXCEPT ![a] = NoVerdict]
         /\ UNCHANGED <<cli, todo, executeVars, crowded>>
<1>1. View(a) = draft
  BY DEF Decide, Write, MayWrite, View, RInv, NothingPending
<1>2. DOMAIN draft = Fields  BY DEF RInv, Typed, IsStore
<1>3. hand[a] \in Proposals  BY DEF Decide, Assessing
<1>4. draft' = [draft EXCEPT !.status[hand[a]] = verdict[a].status,
                             !.why[hand[a]] = IF verdict[a].why = {} THEN @ ELSE verdict[a].why]
  BY <1>1 DEF Decide, Write
<1>5. /\ draft'.status = [draft.status EXCEPT ![hand[a]] = verdict[a].status]
      /\ draft'.why = [draft.why EXCEPT ![hand[a]] = IF verdict[a].why = {} THEN @ ELSE verdict[a].why]
      /\ draft'.exec = draft.exec /\ draft'.resolved = draft.resolved
  BY <1>2, <1>4 DEF Fields
<1> QED  BY <1>3, <1>5 DEF Decide, Write

\* Failed(s, p), with which an executor refuses, and what it records as placed.
LEMMA WriteEffect ==
  ASSUME RInv, Assessing, NEW x \in Executors, NEW p \in Proposals,
         Refuse(x, p) \/ (Record(x) /\ p = xhand[x] /\ answer[x] # "placed")
  PROVE  /\ MayWrite(x) /\ lock' = x /\ db' = db
         /\ draft'.status \in [Proposals -> Status] /\ draft'.why = draft.why
         /\ \A q \in Proposals : \/ draft'.status[q] = draft.status[q]
                                 \/ q = p /\ draft'.status[q] = "failed"
         /\ draft'.exec = draft.exec /\ draft'.resolved = draft.resolved
         /\ UNCHANGED <<cli, assessVars, crowded>>
<1>1. /\ MayWrite(x) /\ lock' = x /\ db' = db /\ draft' = Failed(draft, p)
      /\ UNCHANGED <<cli, assessVars, crowded>>
  BY ExecutorsView DEF Refuse, Record, Write
<1>2. DOMAIN draft = Fields /\ draft.status \in [Proposals -> Status]
  BY DEF RInv, Typed, IsStore, Assessing
<1>3. /\ Failed(draft, p).status \in [Proposals -> Status]
      /\ Failed(draft, p).why = draft.why
      /\ \A q \in Proposals : \/ Failed(draft, p).status[q] = draft.status[q]
                              \/ q = p /\ Failed(draft, p).status[q] = "failed"
  BY <1>2 DEF Failed, Fields, Status
<1> QED  BY <1>1, <1>2, <1>3, FailedStore DEF RInv, Typed

LEMMA PlacedEffect ==
  ASSUME RInv, Assessing, NEW x \in Executors, Record(x), answer[x] = "placed",
         xhand[x] \in Proposals
  PROVE  /\ MayWrite(x) /\ lock' \in {x, Nobody} /\ db' = draft'
         /\ draft'.status = [draft.status EXCEPT ![xhand[x]] = "executed"]
         /\ draft'.why = draft.why /\ draft'.resolved = draft.resolved
         /\ draft'.exec = [draft.exec EXCEPT ![xhand[x]] = @ \cup {x}]
         /\ xhand' = [xhand EXCEPT ![x] = NoProposal]
         /\ UNCHANGED <<cli, assessVars, xlist, crowded>>
<1>1. /\ draft' = [draft EXCEPT !.status[xhand[x]] = "executed", !.exec[xhand[x]] = @ \cup {x},
                                !.today = @ \cup {<<xhand[x], x>>}]
      /\ MayWrite(x) /\ lock' \in {x, Nobody} /\ db' = draft'
  BY ExecutorsView DEF Record
<1>2. DOMAIN draft = Fields  BY DEF RInv, Typed, IsStore
<1>3. /\ draft'.status = [draft.status EXCEPT ![xhand[x]] = "executed"]
      /\ draft'.why = draft.why /\ draft'.resolved = draft.resolved
      /\ draft'.exec = [draft.exec EXCEPT ![xhand[x]] = @ \cup {x}]
  BY <1>1, <1>2 DEF Fields
<1> QED  BY <1>1, <1>3 DEF Record

\* With nobody's commands beside the loops, the draft is what the propose loop
\* sees, apart from failures the executor has not committed.
LEMMA LoopsView ==
  ASSUME AInv, ~cli
  PROVE  /\ View("loop").why = draft.why
         /\ lock # "loop" => db.why = draft.why
         /\ \A p \in Proposals :
              draft.status[p] \in {View("loop").status[p], "failed"}
<1>1. CASE lock = "loop"  BY <1>1 DEF View
<1>2. CASE lock = Nobody  BY <1>2 DEF View, AInv, RInv, NothingPending
<1>3. CASE lock = Autopilot  BY <1>3 DEF View, AInv, OnlyFailures
<1> QED  BY <1>1, <1>2, <1>3 DEF AInv, LoopsOnly, RInv, Typed, Assessors

\* Entries that nobody blocks and whose reasons nobody touches still stand.
LEMMA StillStanding ==
  ASSUME NEW s, NEW t, NEW p, NEW q \in Proposals, Standing(s, p, q),
         t.why = s.why, t.status[q] = s.status[q] \/ t.status[q] # "risk_blocked"
  PROVE  Standing(t, p, q)
BY DEF Standing, Yields

\* Nothing new is blocked, and what is committed was written before.
LEMMA NobodyYields ==
  ASSUME AInv, UNCHANGED <<cli, hand, verdict>>,
         db' = db \/ db' = draft', draft'.why = draft.why,
         \A q \in Proposals : \/ draft'.status[q] = draft.status[q]
                              \/ draft'.status[q] # "risk_blocked"
  PROVE  YieldsToSomeone' /\ RivalsStand'
<1>1. \A p, q \in Proposals : Standing(draft, p, q) => Standing(draft', p, q)
  BY StillStanding
<1>2. YieldsToSomeone'
  <2> SUFFICES ASSUME ~cli, NEW p \in Proposals, hand["loop"] = p, Entry(p),
                      Yields(verdict["loop"].status, WhyThen(p))
               PROVE  \E q \in Proposals \ {p} : Standing(draft', p, q)
    BY DEF YieldsToSomeone, WhyThen
  <2> QED  BY <1>1 DEF AInv, YieldsToSomeone
<1>3. RivalsStand'
  <2> SUFFICES ASSUME ~cli, NEW p \in Proposals, Entry(p)
               PROVE  /\ \E q \in Proposals : Standing(db', p, q)
                      /\ \E q \in Proposals : Standing(draft', p, q)
    BY DEF RivalsStand
  <2> QED  BY <1>1 DEF AInv, RivalsStand
<1> QED  BY <1>2, <1>3

LEMMA VerdictFacts ==
  ASSUME NEW s, NEW p, NEW fit \in BOOLEAN
  PROVE  /\ Verdict(s, p, fit).status \in Queued \cup {"risk_blocked"}
         /\ Verdict(s, p, fit).status = "risk_blocked" => Verdict(s, p, fit).why # {}
         /\ Yields(Verdict(s, p, fit).status, Verdict(s, p, fit).why) =>
              Entry(p) /\ Rivals(s, p) # {}
         /\ Verdict(s, p, fit).status # "risk_blocked" => PortfolioReasons(s, p) = {}
<1> DEFINE v == Verdict(s, p, fit)
           why == IF ~fit THEN {"single_risk"}
                  ELSE IF PortfolioReasons(s, p) # {} THEN PortfolioReasons(s, p)
                  ELSE {Authorization(s, p)} \cap {"limit_reached"}
<1>1. v.why = why  BY DEF Verdict
<1>2. v.status = IF why # {} THEN "risk_blocked"
                 ELSE IF Authorization(s, p) = "matched_auto_execute"
                 THEN "authorized_for_execution" ELSE "pending_approval"
  BY DEF Verdict
<1>3. why = {} => PortfolioReasons(s, p) = {}
  <2>1. CASE ~fit  BY <2>1
  <2>2. CASE fit /\ PortfolioReasons(s, p) # {}
    <3>1. why = PortfolioReasons(s, p)  BY <2>2
    <3> QED  BY <2>2, <3>1
  <2> QED  BY <2>1, <2>2
<1>4. why = {"entry_already_pending"} => Entry(p) /\ Rivals(s, p) # {}
  <2>1. why = {"entry_already_pending"} => "entry_already_pending" \in PortfolioReasons(s, p)
    <3>1. CASE ~fit  BY <3>1
    <3>2. CASE fit /\ PortfolioReasons(s, p) # {}  BY <3>2
    <3>3. CASE fit /\ PortfolioReasons(s, p) = {}
      <4>1. why = {Authorization(s, p)} \cap {"limit_reached"}  BY <3>3
      <4> QED  BY <4>1
    <3> QED  BY <3>1, <3>2, <3>3
  <2>2. "entry_already_pending" \notin CommonReasons(s, p)  BY DEF CommonReasons
  <2>3. "entry_already_pending" \in EntryReasons(s, p) => Entry(p) /\ Rivals(s, p) # {}
    BY DEF EntryReasons
  <2> QED  BY <2>1, <2>2, <2>3 DEF PortfolioReasons
<1> HIDE DEF why, v
<1>5. v.status \in Queued \cup {"risk_blocked"} /\ (v.status # "risk_blocked" <=> why = {})
  <2>1. CASE why # {}
    <3>1. v.status = "risk_blocked"  BY <1>2, <2>1
    <3> QED  BY <2>1, <3>1
  <2>2. CASE why = {}
    <3>1. v.status \in {"authorized_for_execution", "pending_approval"}  BY <1>2, <2>2
    <3>2. v.status \in Queued /\ v.status # "risk_blocked"  BY <3>1 DEF Queued
    <3> QED  BY <2>2, <3>2
  <2> QED  BY <2>1, <2>2
<1> QED  BY <1>1, <1>3, <1>4, <1>5 DEF Yields, v

LEMMA SweepKeepsA ==
  ASSUME AInv, RInv', NEW a \in Assessors, StartSweep(a) \/ DecideTimesOut(a)
  PROVE  AInv'
<1>1. /\ UNCHANGED <<db, draft, lock, cli, xlist, xhand, answer>>
      /\ \/ /\ UNCHANGED <<hand, verdict>> /\ (a # "loop" => cli)
            /\ \E S \in SUBSET Proposals : todo' = [todo EXCEPT ![a] = S]
         \/ /\ hand' = [hand EXCEPT ![a] = NoProposal]
            /\ verdict' = [verdict EXCEPT ![a] = NoVerdict]
            /\ todo' = IF a = "cli" THEN [todo EXCEPT ![a] = {}] ELSE todo
  <2>1. CASE StartSweep(a)
    <3>1. CASE a = "loop"  BY <2>1, <3>1 DEF StartSweep, executeVars
    <3>2. CASE a # "loop"  BY <2>1, <3>2 DEF StartSweep, executeVars
    <3> QED  BY <3>1, <3>2
  <2>2. CASE DecideTimesOut(a)  BY <2>2 DEF DecideTimesOut, executeVars
  <2> QED  BY <2>1, <2>2
<1>2. NoVerdict.status \in Status \ {"risk_blocked"} /\ NoProposal \notin Proposals
  BY SizesAreNumbers DEF NoVerdict, Status
<1>3. Assessing'  BY <1>1, <1>2 DEF AInv, Assessing, Assessors
<1>4. AnswersAreOfHands' /\ RivalsStand' /\ OnlyFailures'
  BY <1>1 DEF AInv, AnswersAreOfHands, RivalsStand, Standing, OnlyFailures
<1>5. LoopsOnly'  BY <1>1 DEF AInv, LoopsOnly, Assessing, Assessors
<1>6. YieldsToSomeone'
  BY <1>1, <1>2
  DEF AInv, YieldsToSomeone, WhyThen, Standing, Yields, Assessing, Assessors
<1> QED  BY <1>3, <1>4, <1>5, <1>6 DEF AInv

\* What the pipeline returns goes to the loop's list, and what it writes back
\* is a status the proposal had.
LEMMA ReturnKeepsA ==
  ASSUME AInv, RInv', ReturnStep
  PROVE  AInv'
<1>1. UNCHANGED <<db, draft, lock, cli, xlist, xhand, answer>>
  BY DEF ReturnStep, AssessReturned, ReadBack, executeVars
<1>2. /\ AnswersAreOfHands' /\ RivalsStand' /\ OnlyFailures'
      /\ NoProposal \notin Proposals
  BY <1>1, SizesAreNumbers
  DEF AInv, AnswersAreOfHands, RivalsStand, Standing, OnlyFailures
<1>3. CASE AssessReturned
  <2>1. /\ UNCHANGED <<hand, verdict>>
        /\ \E S \in SUBSET Proposals : todo' = [todo EXCEPT !["loop"] = S]
    BY <1>3 DEF AssessReturned
  <2>2. Assessing'  BY <1>1, <2>1 DEF AInv, Assessing
  <2>3. LoopsOnly' /\ YieldsToSomeone'
    BY <1>1, <2>1
    DEF AInv, LoopsOnly, YieldsToSomeone, WhyThen, Standing, Assessing, Assessors
  <2> QED  BY <1>2, <2>2, <2>3 DEF AInv
<1>4. CASE \E p \in Proposals : ReadBack(p)
  <2>1. PICK p \in Proposals : ReadBack(p)  BY <1>4
  <2> DEFINE v == [status |-> db.status[p], why |-> {}]
  <2>2. /\ lock # "loop" /\ todo' = todo /\ hand' = [hand EXCEPT !["loop"] = p]
        /\ verdict' = [verdict EXCEPT !["loop"] = v]
    BY <2>1 DEF ReadBack
  <2>3. v.status = db.status[p] /\ v.why = {} /\ db.status[p] \in Status
    BY DEF AInv, Assessing
  <2> HIDE DEF v
  <2>4. Assessing'  BY <1>1, <2>2, <2>3 DEF AInv, Assessing
  <2>5. LoopsOnly'  BY <1>1, <2>2 DEF AInv, LoopsOnly, Assessing, Assessors
  <2>6. /\ hand'["loop"] = p /\ verdict'["loop"].status = db.status[p]
        /\ verdict'["loop"].why = {}
    BY <2>2, <2>3 DEF AInv, Assessing, Assessors
  <2>7. YieldsToSomeone'
    <3> SUFFICES ASSUME ~cli, Entry(p), Yields(db.status[p], draft.why[p])
                 PROVE  \E q \in Proposals \ {p} : Standing(draft, p, q)
      BY <1>1, <2>6 DEF YieldsToSomeone, WhyThen, Standing
    <3>1. db.why = draft.why /\ View("loop") = db  BY <2>2, LoopsView DEF View
    <3>2. PICK q \in Proposals : Standing(db, p, q)  BY DEF AInv, RivalsStand
    <3>3. q # p  BY <3>1, <3>2 DEF Standing
    <3>4. draft.status[q] \in {db.status[q], "failed"}  BY <3>1, LoopsView
    <3>5. Standing(draft, p, q)  BY <3>1, <3>2, <3>4, StillStanding
    <3> QED  BY <3>3, <3>5
  <2> QED  BY <1>2, <2>4, <2>5, <2>7 DEF AInv
<1> QED  BY <1>3, <1>4 DEF ReturnStep

LEMMA EvaluateKeepsA ==
  ASSUME AInv, RInv', NEW a \in Assessors, NEW p \in Proposals, Evaluate(a, p)
  PROVE  AInv'
<1>1. PICK fit \in BOOLEAN : verdict' = [verdict EXCEPT ![a] = Verdict(View(a), p, fit)]
  BY DEF Evaluate
<1> DEFINE v == Verdict(View(a), p, fit)
<1>2. /\ UNCHANGED <<db, draft, lock, cli, xlist, xhand, answer>>
      /\ hand[a] = NoProposal /\ p \in todo[a]
      /\ todo' = [todo EXCEPT ![a] = @ \ {p}] /\ hand' = [hand EXCEPT ![a] = p]
  BY DEF Evaluate, executeVars
<1>3. v.status \in Status /\ (v.status = "risk_blocked" => v.why # {})
  BY VerdictFacts DEF Status
<1>4. ASSUME ~cli, Yields(v.status, v.why)
      PROVE  \E q \in Proposals \ {p} : Standing(draft, p, q)
  <2>1. a = "loop"  BY <1>2, <1>4 DEF AInv, LoopsOnly, Assessors
  <2>2. PICK q \in Rivals(View("loop"), p) : TRUE  BY <1>4, <2>1, VerdictFacts
  <2>3. draft.status[q] \in {View("loop").status[q], "failed"} /\ q \in Proposals
    BY <1>4, <2>2, LoopsView DEF Rivals
  <2>4. draft.status[q] # "risk_blocked"  BY <2>2, <2>3 DEF Rivals, Queued
  <2> QED  BY <2>2, <2>4 DEF Rivals, Standing, Yields
<1> HIDE DEF v
<1>5. verdict' = [verdict EXCEPT ![a] = v]  BY <1>1 DEF v
<1>6. Assessing'  BY <1>2, <1>3, <1>5 DEF AInv, Assessing
<1>7. AnswersAreOfHands' /\ RivalsStand' /\ OnlyFailures'
  BY <1>2 DEF AInv, AnswersAreOfHands, RivalsStand, Standing, OnlyFailures
<1>8. LoopsOnly'  BY <1>2 DEF AInv, LoopsOnly, Assessing, Assessors
<1>9. YieldsToSomeone'
  <2> SUFFICES ASSUME ~cli, NEW q \in Proposals, hand'["loop"] = q,
                      Yields(verdict'["loop"].status, WhyThen(q)')
               PROVE  \E r \in Proposals \ {q} : Standing(draft, q, r)
    BY <1>2 DEF YieldsToSomeone, Standing
  <2>1. a = "loop"  BY <1>2 DEF AInv, LoopsOnly, Assessors
  <2>2. q = p /\ verdict'["loop"] = v
    BY <1>2, <1>5, <2>1 DEF AInv, Assessing, Assessors
  <2>3. Yields(v.status, v.why)  BY <1>3, <2>2 DEF WhyThen, Yields
  <2> QED  BY <1>4, <2>2, <2>3
<1> QED  BY <1>6, <1>7, <1>8, <1>9 DEF AInv

LEMMA DecideKeepsA ==
  ASSUME AInv, RInv', NEW a \in Assessors, Decide(a)
  PROVE  AInv'
<1> DEFINE p == hand[a]
           v == verdict[a]
<1>1. /\ p \in Proposals /\ MayWrite(a) /\ lock' = a /\ db' = db
      /\ draft'.status = [draft.status EXCEPT ![p] = v.status]
      /\ draft'.why = [draft.why EXCEPT ![p] = IF v.why = {} THEN @ ELSE v.why]
      /\ hand' = [hand EXCEPT ![a] = NoProposal]
      /\ verdict' = [verdict EXCEPT ![a] = NoVerdict]
      /\ UNCHANGED <<cli, todo, xlist, xhand, answer>>
  BY DecideEffect DEF AInv, executeVars
<1>2. NoVerdict.status \in Status \ {"risk_blocked"} /\ NoProposal \notin Proposals
  BY SizesAreNumbers DEF NoVerdict, Status
<1>3. v.status \in Status  BY DEF AInv, Assessing
<1>4. Assessing'
  BY <1>1, <1>2, <1>3 DEF AInv, Assessing
<1>5. AnswersAreOfHands'
  BY <1>1 DEF AInv, AnswersAreOfHands
<1>6. LoopsOnly' /\ (~cli => a = "loop" /\ a \notin Executors)
  BY <1>1, SizesAreNumbers DEF AInv, LoopsOnly, Assessing, Assessors
<1>7. OnlyFailures'
  BY <1>1, <1>6, RiskAssumption DEF OnlyFailures, RiskAssumption
<1>8. YieldsToSomeone'
  BY <1>1, <1>2, <1>6 DEF YieldsToSomeone, AInv, Assessing
<1>9. RivalsStand'
  <2> SUFFICES ASSUME ~cli, NEW g \in Proposals, Entry(g)
               PROVE  \E q \in Proposals : Standing(draft', g, q)
    BY <1>1 DEF AInv, RivalsStand, Standing
  <2>1. a = "loop"  BY <1>6
  <2>2. \A q \in Proposals \ {p} :
          draft'.status[q] = draft.status[q] /\ draft'.why[q] = draft.why[q]
    BY <1>1 DEF AInv, Assessing
  <2>3. draft'.status[p] = v.status /\ draft'.why[p] = WhyThen(p)
    BY <1>1, <2>1 DEF AInv, Assessing, WhyThen
  <2>4. PICK q \in Proposals : Standing(draft, g, q)  BY DEF AInv, RivalsStand
  <2>5. CASE q # p  BY <2>2, <2>4, <2>5 DEF Standing
  <2>6. CASE q = p /\ ~Yields(v.status, WhyThen(p))
    BY <2>3, <2>4, <2>6 DEF Standing
  <2>7. CASE q = p /\ Yields(v.status, WhyThen(p))
    <3>1. PICK o \in Proposals \ {p} : Standing(draft, p, o)
      BY <1>1, <2>1, <2>4, <2>7 DEF AInv, YieldsToSomeone, Standing
    <3> QED  BY <2>2, <2>4, <2>7, <3>1 DEF Standing, SameOutcome
  <2> QED  BY <2>5, <2>6, <2>7
<1> QED  BY <1>4, <1>5, <1>6, <1>7, <1>8, <1>9 DEF AInv

LEMMA CommitKeepsA ==
  ASSUME AInv, RInv', db' = draft, draft' = draft, lock' = Nobody,
         UNCHANGED <<cli, assessVars, xlist, xhand, answer>>
  PROVE  AInv'
<1> USE DEF assessVars
<1>1. Assessing' /\ AnswersAreOfHands' /\ OnlyFailures'
  BY DEF AInv, Assessing, AnswersAreOfHands, OnlyFailures
<1>2. LoopsOnly'  BY SizesAreNumbers DEF AInv, LoopsOnly, Assessors
<1>3. YieldsToSomeone' /\ RivalsStand'  BY NobodyYields
<1> QED  BY <1>1, <1>2, <1>3 DEF AInv

LEMMA EndsKeepA ==
  ASSUME AInv, RInv', \/ \E a \in Assessors : EndSweep(a)
                      \/ \E x \in Executors : EndExecute(x) /\ lock = x
  PROVE  AInv'
<1>1. /\ db' = draft /\ draft' = draft /\ lock' = Nobody
      /\ UNCHANGED <<cli, assessVars, xlist, xhand, answer>>
  BY DEF EndSweep, EndExecute, Commit, View, executeVars
<1> QED  BY <1>1, CommitKeepsA

\* An executor that does not write.
LEMMA HandsKeepA ==
  ASSUME AInv, RInv', NEW x \in Executors,
         \/ StartExecute(x) \/ RecordTimesOut(x) \/ (EndExecute(x) /\ lock # x)
         \/ \E p \in Proposals : PassGuards(x, p)
         \/ \E how \in {"accepted", "recovered", "rejected"} : Post(x, how)
  PROVE  AInv'
<1>1. UNCHANGED <<db, draft, lock, cli, assessVars>>
  BY DEF StartExecute, PassGuards, Post, RecordTimesOut, EndExecute
<1>2. Assessing' /\ YieldsToSomeone' /\ RivalsStand' /\ OnlyFailures'
  BY <1>1
  DEF AInv, Assessing, YieldsToSomeone, WhyThen, RivalsStand, Standing, OnlyFailures, assessVars
<1> SUFFICES AnswersAreOfHands' /\ LoopsOnly'
  BY <1>2 DEF AInv
<1> USE <1>1 DEF assessVars
<1>3. xhand \in [Executors -> Proposals \cup {NoProposal}] /\ answer \in [Executors -> {"none", "placed", "rejected"}]
      /\ xlist \in [Executors -> SUBSET Proposals] /\ NoProposal \notin Proposals
  BY SizesAreNumbers DEF AInv, RInv, Typed
<1>4. ~cli => x = Autopilot \/ ~(xlist[x] # {} \/ xhand[x] # NoProposal)
  BY DEF AInv, LoopsOnly
<1>5. CASE StartExecute(x)
  <2>1. /\ xhand' = xhand /\ answer' = answer /\ xhand[x] = NoProposal /\ lock # x
        /\ ~cli => /\ x = Autopilot
                   /\ xlist' = [xlist EXCEPT ![x] =
                        {p \in Proposals : db.status[p] = "authorized_for_execution"}]
    BY <1>5 DEF StartExecute, Resting
  <2>2. AnswersAreOfHands'  BY <2>1 DEF AInv, AnswersAreOfHands
  <2>3. LoopsOnly'  BY <1>3, <2>1 DEF AInv, LoopsOnly
  <2> QED  BY <2>2, <2>3
<1>6. CASE \E p \in Proposals : PassGuards(x, p)
  <2>1. PICK p \in Proposals :
          /\ xhand[x] = NoProposal /\ p \in xlist[x] /\ answer' = answer
          /\ xlist' = [xlist EXCEPT ![x] = @ \ {p}] /\ xhand' = [xhand EXCEPT ![x] = p]
    BY <1>6 DEF PassGuards
  <2>2. AnswersAreOfHands'  BY <1>3, <2>1 DEF AInv, AnswersAreOfHands
  <2>3. LoopsOnly'  BY <1>3, <1>4, <2>1 DEF AInv, LoopsOnly
  <2> QED  BY <2>2, <2>3
<1>7. CASE \E how \in {"accepted", "recovered", "rejected"} : Post(x, how)
  <2>1. /\ xlist' = xlist /\ xhand' = xhand /\ xhand[x] # NoProposal
        /\ \E s : answer' = [answer EXCEPT ![x] = s]
    BY <1>7 DEF Post
  <2>2. AnswersAreOfHands'  BY <1>3, <2>1 DEF AInv, AnswersAreOfHands
  <2>3. LoopsOnly'  BY <2>1 DEF AInv, LoopsOnly
  <2> QED  BY <2>2, <2>3
<1>8. CASE RecordTimesOut(x)
  <2>1. /\ xlist' = xlist /\ xhand' = [xhand EXCEPT ![x] = NoProposal]
        /\ answer' = [answer EXCEPT ![x] = "none"]
    BY <1>8 DEF RecordTimesOut
  <2>2. AnswersAreOfHands'  BY <1>3, <2>1 DEF AInv, AnswersAreOfHands
  <2>3. LoopsOnly'  BY <1>3, <2>1 DEF AInv, LoopsOnly
  <2> QED  BY <2>2, <2>3
<1>9. CASE EndExecute(x) /\ lock # x
  BY <1>9 DEF EndExecute, AInv, AnswersAreOfHands, LoopsOnly
<1> QED  BY <1>5, <1>6, <1>7, <1>8, <1>9

\* An executor that refuses, or records what the exchange rejected.
LEMMA FailureKeepsA ==
  ASSUME AInv, RInv', NEW x \in Executors, NEW p \in Proposals,
         Refuse(x, p) \/ (Record(x) /\ p = xhand[x] /\ answer[x] # "placed")
  PROVE  AInv'
<1>1. /\ MayWrite(x) /\ lock' = x /\ db' = db
      /\ draft'.status \in [Proposals -> Status] /\ draft'.why = draft.why
      /\ \A q \in Proposals : \/ draft'.status[q] = draft.status[q]
                              \/ q = p /\ draft'.status[q] = "failed"
      /\ UNCHANGED <<cli, todo, hand, verdict>>
  BY WriteEffect DEF AInv, assessVars
<1>2. /\ xhand \in [Executors -> Proposals \cup {NoProposal}]
      /\ answer \in [Executors -> {"none", "placed", "rejected"}]
      /\ xlist \in [Executors -> SUBSET Proposals] /\ NoProposal \notin Proposals
  BY SizesAreNumbers DEF AInv, RInv, Typed
<1>3. \/ /\ xhand[x] = NoProposal /\ p \in xlist[x] /\ UNCHANGED <<xhand, answer>>
         /\ xlist' = [xlist EXCEPT ![x] = @ \ {p}]
      \/ /\ xhand[x] = p /\ UNCHANGED xlist
         /\ xhand' = [xhand EXCEPT ![x] = NoProposal]
         /\ answer' = [answer EXCEPT ![x] = "none"]
  BY DEF Refuse, Record
<1>4. Assessing'  BY <1>1 DEF AInv, Assessing
<1>5. AnswersAreOfHands'  BY <1>2, <1>3 DEF AInv, AnswersAreOfHands
<1>6. ~cli => x = Autopilot  BY <1>2, <1>3 DEF AInv, LoopsOnly
<1>7. LoopsOnly'
  BY <1>1, <1>2, <1>3, <1>6, SizesAreNumbers DEF AInv, LoopsOnly, Assessors
<1>8. OnlyFailures'
  <2> SUFFICES ASSUME ~cli, lock' = Autopilot
               PROVE  /\ draft'.why = db.why
                      /\ \A q \in Proposals : draft'.status[q] \in {db.status[q], "failed"}
    BY <1>1 DEF OnlyFailures
  <2>1. CASE lock = Nobody  BY <1>1, <2>1 DEF AInv, RInv, NothingPending
  <2>2. CASE lock = Autopilot  BY <1>1, <2>2 DEF AInv, OnlyFailures
  <2> QED  BY <1>1, <2>1, <2>2 DEF MayWrite
<1>9. YieldsToSomeone' /\ RivalsStand'  BY <1>1, NobodyYields
<1> QED  BY <1>4, <1>5, <1>7, <1>8, <1>9 DEF AInv

LEMMA PlacedKeepsA ==
  ASSUME AInv, RInv', NEW x \in Executors, Record(x), answer[x] = "placed"
  PROVE  AInv'
<1> DEFINE p == xhand[x]
<1>1. p \in Proposals  BY DEF AInv, AnswersAreOfHands
<1>2. /\ MayWrite(x) /\ lock' \in {x, Nobody} /\ db' = draft'
      /\ draft'.status = [draft.status EXCEPT ![p] = "executed"]
      /\ draft'.why = draft.why
      /\ xhand' = [xhand EXCEPT ![x] = NoProposal]
      /\ UNCHANGED <<cli, todo, hand, verdict, xlist>>
  BY <1>1, PlacedEffect DEF AInv, assessVars
<1>3. /\ xhand \in [Executors -> Proposals \cup {NoProposal}]
      /\ answer \in [Executors -> {"none", "placed", "rejected"}]
      /\ NoProposal \notin Proposals /\ answer' = [answer EXCEPT ![x] = "none"]
  BY SizesAreNumbers DEF AInv, RInv, Typed, Record
<1>4. Assessing'  BY <1>1, <1>2 DEF AInv, Assessing, Status
<1>5. AnswersAreOfHands'  BY <1>2, <1>3 DEF AInv, AnswersAreOfHands
<1>6. ~cli => x = Autopilot  BY <1>1, <1>3 DEF AInv, LoopsOnly
<1>7. LoopsOnly'
  BY <1>2, <1>3, <1>6, SizesAreNumbers DEF AInv, LoopsOnly, Assessors
<1>8. \A q \in Proposals : \/ draft'.status[q] = draft.status[q] /\ q # p
                           \/ draft'.status[q] = "executed" /\ q = p
  BY <1>2 DEF AInv, Assessing
<1>9. OnlyFailures'  BY <1>2 DEF OnlyFailures
<1>10. YieldsToSomeone' /\ RivalsStand'  BY <1>2, <1>8, NobodyYields
<1> QED  BY <1>4, <1>5, <1>7, <1>9, <1>10 DEF AInv

LEMMA OthersKeepA ==
  ASSUME AInv, RInv', OtherStep
  PROVE  AInv'
<1>1. /\ lock' = lock /\ draft = db /\ draft' = db'
      /\ UNCHANGED <<cli, todo, hand, verdict, xlist, xhand, answer>>
      /\ db'.status \in [Proposals -> Status] /\ db'.why = db.why
      /\ \A q \in Proposals : \/ db'.status[q] = db.status[q]
                              \/ <<db.status[q], db'.status[q]>> \in Steps
  BY OthersEffect DEF AInv, assessVars, executeVars
<1>2. Assessing' /\ LoopsOnly' /\ AnswersAreOfHands' /\ OnlyFailures'
  BY <1>1 DEF AInv, Assessing, LoopsOnly, AnswersAreOfHands, OnlyFailures
<1>3. \A q \in Proposals : \/ draft'.status[q] = draft.status[q]
                           \/ draft'.status[q] # "risk_blocked"
  BY <1>1 DEF Steps
<1>4. YieldsToSomeone' /\ RivalsStand'  BY <1>1, <1>3, NobodyYields
<1> QED  BY <1>2, <1>4 DEF AInv

LEMMA AInit == Init => AInv
<1> SUFFICES ASSUME Init PROVE AInv  OBVIOUS
<1>1. RInv  BY RInit
<1>2. Assessing  BY DEF Init, Assessing, EmptyStore, NoVerdict, Status
<1>3. LoopsOnly /\ AnswersAreOfHands
  BY SizesAreNumbers DEF Init, LoopsOnly, AnswersAreOfHands, Assessors
<1>4. OnlyFailures /\ YieldsToSomeone
  BY SizesAreNumbers DEF Init, OnlyFailures, YieldsToSomeone, Assessors
<1>5. RivalsStand
  BY DEF Init, RivalsStand, Standing, Yields, SameOutcome, EmptyStore
<1> QED  BY <1>1, <1>2, <1>3, <1>4, <1>5 DEF AInv

LEMMA ANext == AInv /\ [Next]_vars => AInv'
<1> SUFFICES ASSUME AInv, [Next]_vars PROVE AInv'  OBVIOUS
<1>0. RInv'  BY RNext DEF AInv
<1>1. ASSUME NEW a \in Assessors, AssessStep(a) PROVE AInv'
  BY <1>0, <1>1, SweepKeepsA, EvaluateKeepsA, DecideKeepsA, EndsKeepA DEF AssessStep
<1>2. ASSUME NEW x \in Executors, ExecuteStep(x) PROVE AInv'
  <2>1. CASE Record(x)
    <3>1. CASE answer[x] = "placed"  BY <1>0, <2>1, <3>1, PlacedKeepsA
    <3>2. CASE answer[x] # "placed"
      <4>1. xhand[x] \in Proposals
        BY <2>1, <3>2 DEF Record, AInv, AnswersAreOfHands
      <4> QED  BY <1>0, <2>1, <3>2, <4>1, FailureKeepsA
    <3> QED  BY <3>1, <3>2
  <2>2. ASSUME NEW p \in Proposals, Refuse(x, p) PROVE AInv'
    BY <1>0, <2>2, FailureKeepsA
  <2>3. CASE EndExecute(x)
    <3>1. CASE lock = x  BY <1>0, <2>3, <3>1, EndsKeepA
    <3>2. CASE lock # x  BY <1>0, <2>3, <3>2, HandsKeepA
    <3> QED  BY <3>1, <3>2
  <2>4. CASE \/ StartExecute(x) \/ RecordTimesOut(x)
             \/ \E p \in Proposals : PassGuards(x, p)
             \/ \E how \in {"accepted", "recovered", "rejected"} : Post(x, how)
    BY <1>0, <2>4, HandsKeepA
  <2> QED  BY <1>2, <2>1, <2>2, <2>3, <2>4 DEF ExecuteStep
<1>3. CASE OtherStep  BY <1>0, <1>3, OthersKeepA
<1>4. CASE UNCHANGED vars
  BY <1>0, <1>4
  DEF vars, assessVars, executeVars, AInv, Assessing, LoopsOnly, AnswersAreOfHands,
      OnlyFailures, YieldsToSomeone, WhyThen, RivalsStand, Standing
<1>5. CASE ReturnStep  BY <1>0, <1>5, ReturnKeepsA
<1> QED  BY <1>1, <1>2, <1>3, <1>4, <1>5 DEF Next

\* As long as nobody runs commands beside the autopilot, proposals for one outcome
\* never all end up blocked because of each other: whoever yields, yields to one
\* that is not blocked (_pending_market_outcome_entries).
THEOREM RivalsYieldInTurn == Spec => []RivalsDontAllYield
<1>1. AInv => RivalsDontAllYield
  <2> SUFFICES ASSUME AInv, ~cli, NEW p \in Proposals,
                      NEW r \in Proposals, Entry(r), SameOutcome(p, r)
               PROVE  \E q \in Proposals :
                        /\ Entry(q) /\ SameOutcome(p, q)
                        /\ ~Yields(draft.status[q], draft.why[q])
    BY DEF RivalsDontAllYield, Yields
  <2>1. PICK q \in Proposals : Standing(draft, r, q)  BY DEF AInv, RivalsStand
  <2> QED  BY <2>1 DEF Standing, SameOutcome
<1> QED  BY AInit, ANext, <1>1, PTL DEF Spec

-----------------------------------------------------------------------------
(***************************************************************************)
(* The cap on the open exposure, as long as one entry at a time is on its  *)
(* way.                                                                    *)
(***************************************************************************)
CInv == AInv /\ IsFiniteSet(AtRisk(draft)) /\ RoomForOne

LEMMA AtRiskInPairs == ASSUME NEW s PROVE AtRisk(s) \in SUBSET Pairs
BY DEF AtRisk, Orders, Pairs

LEMMA ShrinkingRisk ==
  ASSUME NEW s, NEW t, Shrinks(s, t)
  PROVE  AtRisk(t) \subseteq AtRisk(s)
BY DEF Shrinks, AtRisk, Orders

LEMMA SameRisk ==
  ASSUME NEW s, NEW t, t.exec = s.exec, t.resolved = s.resolved
  PROVE  AtRisk(t) = AtRisk(s)
BY DEF AtRisk, Orders, Exposed

\* What is at risk besides the order of the loops for p.
Besides(s, p) == AtRisk(s) \ {<<p, Autopilot>>}

LEMMA BesidesIsLess ==
  ASSUME NEW s, NEW p, IsFiniteSet(AtRisk(s))
  PROVE  /\ SizeOf(AtRisk(s)) \in Nat /\ SizeOf(Besides(s, p)) \in Nat
         /\ SizeOf(Besides(s, p)) <= SizeOf(AtRisk(s))
<1>1. AtRisk(s) \in SUBSET Pairs  BY AtRiskInPairs
<1>2. Besides(s, p) \subseteq AtRisk(s)  BY DEF Besides
<1>3. IsFiniteSet(Besides(s, p))  BY <1>2, FS_Subset
<1> QED  BY <1>1, <1>2, <1>3, SizeType, SizeMonotone

\* Less at risk and nothing new on its way.
LEMMA RoomStays ==
  ASSUME CInv, AInv', UNCHANGED cli, crowded => crowded',
         AtRisk(draft') \subseteq AtRisk(draft),
         ~cli => OnWay' \subseteq OnWay
  PROVE  CInv'
<1>1. IsFiniteSet(AtRisk(draft')) /\ IsFiniteSet(AtRisk(draft))  BY FS_Subset DEF CInv
<1>2. /\ SizeOf(AtRisk(draft')) <= SizeOf(AtRisk(draft))
      /\ SizeOf(AtRisk(draft')) \in Nat /\ SizeOf(AtRisk(draft)) \in Nat
  BY <1>1, AtRiskInPairs, SizeMonotone, SizeType
<1>3. \A p \in Proposals : Of[p].size \in Nat
  BY SizesAreNumbers
<1>4. ExposureCap \in Nat  BY RiskAssumption DEF RiskAssumption
<1>5. ASSUME NEW p
      PROVE  /\ SizeOf(Besides(draft', p)) <= SizeOf(Besides(draft, p))
             /\ SizeOf(Besides(draft', p)) \in Nat /\ SizeOf(Besides(draft, p)) \in Nat
  <2>1. /\ Besides(draft', p) \subseteq Besides(draft, p)
        /\ Besides(draft, p) \subseteq AtRisk(draft)
    BY DEF Besides
  <2>2. IsFiniteSet(Besides(draft, p)) /\ Besides(draft, p) \in SUBSET Pairs
    BY <1>1, <2>1, FS_Subset, AtRiskInPairs
  <2> QED  BY <1>1, <2>1, <2>2, SizeMonotone, BesidesIsLess
<1>6. RoomForOne'
  <2> SUFFICES ASSUME ~crowded'
               PROVE  /\ ~cli /\ SizeOf(AtRisk(draft')) <= ExposureCap
                      /\ \A p \in OnWay' :
                           /\ Entry(p) /\ \A q \in OnWay' : q = p
                           /\ SizeOf(Besides(draft', p)) + Of[p].size <= ExposureCap
    BY DEF RoomForOne, Besides
  <2>1. /\ ~cli /\ SizeOf(AtRisk(draft)) <= ExposureCap
        /\ \A p \in OnWay : /\ Entry(p) /\ \A q \in OnWay : q = p
                            /\ SizeOf(Besides(draft, p)) + Of[p].size <= ExposureCap
    BY DEF CInv, RoomForOne, Besides
  <2>2. OnWay' \subseteq OnWay /\ OnWay \subseteq Proposals  BY <2>1 DEF OnWay
  <2>3. ASSUME NEW p \in OnWay'
        PROVE  SizeOf(Besides(draft', p)) + Of[p].size <= ExposureCap
    <3>1. Of[p].size \in Nat /\ SizeOf(Besides(draft, p)) + Of[p].size <= ExposureCap
      BY <1>3, <2>1, <2>2
    <3> QED  BY <1>4, <1>5, <3>1
  <2> QED  BY <1>2, <1>4, <2>1, <2>2, <2>3
<1> QED  BY <1>1, <1>6 DEF CInv

LEMMA AssessKeepsRoom ==
  ASSUME CInv, AInv', NEW a \in Assessors,
         StartSweep(a) \/ Decide(a) \/ DecideTimesOut(a) \/ EndSweep(a)
  PROVE  CInv'
<1>1. CASE StartSweep(a)
  BY <1>1, RoomStays DEF StartSweep, OnWay, executeVars
<1>2. CASE DecideTimesOut(a)
  <2>1. OnWay' \subseteq OnWay
    BY <1>2, SizesAreNumbers
    DEF DecideTimesOut, OnWay, CInv, AInv, Assessing, NoVerdict, Queued, executeVars
  <2> QED  BY <1>2, <2>1, RoomStays DEF DecideTimesOut
<1>3. CASE EndSweep(a)
  <2>1. /\ db' = draft /\ draft' = draft
        /\ UNCHANGED <<cli, hand, verdict, xlist, xhand, crowded>>
    BY <1>3 DEF EndSweep, Commit, View, assessVars, executeVars
  <2>2. OnWay' \subseteq OnWay  BY <2>1 DEF OnWay
  <2> QED  BY <2>1, <2>2, RoomStays
<1>4. CASE Decide(a)
  <2>1. /\ hand[a] \in Proposals /\ db' = db
        /\ draft'.status = [draft.status EXCEPT ![hand[a]] = verdict[a].status]
        /\ draft'.exec = draft.exec /\ draft'.resolved = draft.resolved
        /\ hand' = [hand EXCEPT ![a] = NoProposal]
        /\ UNCHANGED <<cli, xlist, xhand, crowded>>
    BY <1>4, DecideEffect DEF CInv, AInv, executeVars
  <2>2. ~cli => OnWay' \subseteq OnWay
    <3> SUFFICES ASSUME ~cli, NEW p \in OnWay' PROVE p \in OnWay
      OBVIOUS
    <3>1. a = "loop" /\ hand' ["loop"] = NoProposal /\ NoProposal \notin Proposals
      BY <2>1, SizesAreNumbers DEF CInv, AInv, LoopsOnly, Assessing, Assessors
    <3>2. \/ db.status[p] \in Queued \/ draft.status[p] \in Queued
          \/ hand["loop"] = p /\ verdict["loop"].status \in Queued
          \/ p \in xlist[Autopilot] \/ xhand[Autopilot] = p
      BY <2>1, <3>1 DEF OnWay, CInv, AInv, Assessing
    <3> QED  BY <3>2 DEF OnWay
  <2>3. AtRisk(draft') = AtRisk(draft)  BY <2>1, SameRisk
  <2> QED  BY <2>1, <2>2, <2>3, RoomStays
<1> QED  BY <1>1, <1>2, <1>3, <1>4

LEMMA ReturnKeepsRoom ==
  ASSUME CInv, AInv', ReturnStep
  PROVE  CInv'
<1>1. UNCHANGED <<db, draft, cli, crowded, xlist, xhand>>
  BY DEF ReturnStep, AssessReturned, ReadBack, executeVars
<1>2. CASE AssessReturned
  <2>1. OnWay' = OnWay  BY <1>1, <1>2 DEF AssessReturned, OnWay
  <2> QED  BY <1>1, <2>1, RoomStays
<1>3. CASE \E p \in Proposals : ReadBack(p)
  <2>1. PICK p \in Proposals : ReadBack(p)  BY <1>3
  <2>2. hand'["loop"] = p /\ verdict'["loop"].status = db.status[p]
    BY <2>1 DEF ReadBack, CInv, AInv, Assessing, Assessors
  <2>3. OnWay' \subseteq OnWay  BY <1>1, <2>2 DEF OnWay
  <2> QED  BY <1>1, <2>3, RoomStays
<1> QED  BY <1>2, <1>3 DEF ReturnStep

LEMMA EvaluateKeepsRoom ==
  ASSUME CInv, AInv', NEW a \in Assessors, NEW p \in Proposals, Evaluate(a, p)
  PROVE  CInv'
<1>1. PICK fit \in BOOLEAN : verdict' = [verdict EXCEPT ![a] = Verdict(View(a), p, fit)]
  BY DEF Evaluate
<1> DEFINE v == Verdict(View(a), p, fit)
<1>2. /\ UNCHANGED <<db, draft, cli, xlist, xhand>> /\ p \in todo[a]
      /\ hand[a] = NoProposal /\ hand' = [hand EXCEPT ![a] = p]
      /\ crowded' = (crowded \/ (/\ verdict'[a].status # "risk_blocked"
                                /\ (~Entry(p) \/ ~(OnItsWay(a) \subseteq {p}))))
  BY DEF Evaluate, executeVars
<1>3. /\ v.status \in Queued \cup {"risk_blocked"}
      /\ v.status # "risk_blocked" => PortfolioReasons(View(a), p) = {}
  BY VerdictFacts
<1> HIDE DEF v
<1>4. /\ verdict'[a] = v
      /\ \A q \in Proposals : q \in OnWay' =>
           q \in OnWay \/ (q = p /\ v.status \in Queued)
  BY <1>1, <1>2 DEF v, OnWay, CInv, AInv, Assessing
<1>5. CASE v.status = "risk_blocked"
  <2>1. OnWay' \subseteq OnWay  BY <1>4, <1>5 DEF OnWay, Queued
  <2> QED  BY <1>2, <1>4, <1>5, <2>1, RoomStays
<1>6. CASE v.status # "risk_blocked"
  <2>1. IsFiniteSet(AtRisk(draft'))  BY <1>2 DEF CInv
  <2>2. RoomForOne'
    <3> SUFFICES ASSUME ~crowded'
                 PROVE  /\ ~cli /\ SizeOf(AtRisk(draft)) <= ExposureCap
                        /\ \A q \in OnWay' :
                             /\ Entry(q) /\ \A r \in OnWay' : r = q
                             /\ SizeOf(Besides(draft, q)) + Of[q].size <= ExposureCap
      BY <1>2 DEF RoomForOne, Besides
    <3>1. ~crowded /\ Entry(p) /\ OnItsWay(a) \subseteq {p}  BY <1>2, <1>4, <1>6
    <3>2. ~cli /\ SizeOf(AtRisk(draft)) <= ExposureCap  BY <3>1 DEF CInv, RoomForOne
    <3>3. a = "loop"  BY <1>2, <3>2 DEF CInv, AInv, LoopsOnly, Assessors
    <3>4. ASSUME NEW q \in Proposals \ {p}
          PROVE  /\ db.status[q] \notin Queued /\ draft.status[q] \notin Queued
                 /\ q \notin xlist[Autopilot] /\ xhand[Autopilot] # q
      <4>1. /\ View("loop").status[q] \notin Queued /\ db.status[q] \notin Queued
            /\ \A x \in Executors : q \notin xlist[x] /\ xhand[x] # q
        BY <3>1, <3>3 DEF OnItsWay
      <4>2. draft.status[q] \in {View("loop").status[q], "failed"}
        BY <3>2, LoopsView DEF CInv
      <4> QED  BY <4>1, <4>2, RiskAssumption DEF Queued, RiskAssumption
    <3>6. OnWay' \subseteq {p}
      BY <1>2, <3>3, <3>4 DEF OnWay, CInv, AInv, Assessing
    <3>7. Entry(p)  BY <3>1
    <3>8. SizeOf(Besides(draft, p)) + Of[p].size <= ExposureCap
      <4>1. AtRisk(View(a)) = AtRisk(draft)
        BY SameRisk DEF View, CInv, AInv, RInv, NothingPending
      <4>2. "open_exposure_limit" \notin EntryReasons(View(a), p)
        BY <1>3, <1>6 DEF PortfolioReasons
      <4>3. ~(SizeOf(AtRisk(draft)) + Of[p].size > ExposureCap)
        BY <3>7, <4>1, <4>2 DEF EntryReasons
      <4>4. /\ SizeOf(AtRisk(draft)) \in Nat /\ Of[p].size \in Nat /\ ExposureCap \in Nat
        BY SizeType, AtRiskInPairs, SizesAreNumbers, RiskAssumption DEF CInv, RiskAssumption
      <4>5. /\ SizeOf(Besides(draft, p)) <= SizeOf(AtRisk(draft))
            /\ SizeOf(Besides(draft, p)) \in Nat
        BY BesidesIsLess DEF CInv
      <4> QED  BY <4>3, <4>4, <4>5
    <3> QED  BY <3>2, <3>6, <3>7, <3>8
  <2> QED  BY <2>1, <2>2 DEF CInv
<1> QED  BY <1>5, <1>6

LEMMA PlacedKeepsRoom ==
  ASSUME CInv, AInv', NEW x \in Executors, Record(x), answer[x] = "placed"
  PROVE  CInv'
<1> DEFINE p == xhand[x]
           o == <<p, x>>
           more == AtRisk(draft) \cup {o}
<1>1. p \in Proposals  BY DEF CInv, AInv, AnswersAreOfHands
<1>2. /\ db' = draft' /\ draft'.status = [draft.status EXCEPT ![p] = "executed"]
      /\ draft'.resolved = draft.resolved
      /\ draft'.exec = [draft.exec EXCEPT ![p] = @ \cup {x}]
      /\ xhand' = [xhand EXCEPT ![x] = NoProposal]
      /\ UNCHANGED <<cli, hand, verdict, xlist, crowded>>
  BY <1>1, PlacedEffect DEF CInv, AInv, assessVars
<1>3. AtRisk(draft') \subseteq more
  <2> SUFFICES ASSUME NEW r \in AtRisk(draft'), r # o PROVE r \in AtRisk(draft)
    OBVIOUS
  <2>1. /\ r \in Proposals \X Executors /\ r = <<r[1], r[2]>>
        /\ r[2] \in draft'.exec[r[1]] /\ Of[r[1]].market \notin draft.resolved
    BY <1>2 DEF AtRisk, Orders, Exposed
  <2>2. r[2] \in draft.exec[r[1]]
    BY <1>1, <1>2, <2>1 DEF CInv, AInv, RInv, Typed, IsStore
  <2> QED  BY <2>1, <2>2 DEF AtRisk, Orders, Exposed
<1>4. /\ AtRisk(draft) \in SUBSET Pairs /\ IsFiniteSet(AtRisk(draft))
      /\ o \in Pairs /\ more \in SUBSET Pairs
  BY <1>1, AtRiskInPairs DEF Pairs, CInv
<1>5. IsFiniteSet(more)  BY <1>4, FS_AddElement
<1>6. IsFiniteSet(AtRisk(draft'))  BY <1>3, <1>5, FS_Subset
<1>7. RoomForOne'
  <2> SUFFICES ASSUME ~crowded
               PROVE  /\ ~cli /\ SizeOf(AtRisk(draft')) <= ExposureCap
                      /\ \A q \in OnWay' :
                           /\ Entry(q) /\ \A r \in OnWay' : r = q
                           /\ SizeOf(Besides(draft', q)) + Of[q].size <= ExposureCap
    BY <1>2 DEF RoomForOne, Besides
  <2>1. ~cli  BY DEF CInv, RoomForOne
  <2>2. x = Autopilot
    BY <1>1, <2>1, SizesAreNumbers DEF CInv, AInv, LoopsOnly
  <2>3. p \in OnWay  BY <1>1, <2>2 DEF OnWay
  <2>4. /\ Entry(p) /\ \A q \in OnWay : q = p
        /\ SizeOf(Besides(draft, p)) + Of[p].size <= ExposureCap
    BY <2>3 DEF CInv, RoomForOne, Besides
  <2>5. OnWay' \subseteq OnWay
    <3> SUFFICES ASSUME NEW q \in OnWay' PROVE q \in OnWay
      OBVIOUS
    <3>1. CASE q = p  BY <2>3, <3>1
    <3>2. CASE q # p
      <4>1. xhand'[Autopilot] = NoProposal
        BY <1>2, <2>2, RiskAssumption DEF CInv, AInv, RInv, Typed, RiskAssumption
      <4>2. NoProposal \notin Proposals  BY SizesAreNumbers
      <4> QED  BY <1>2, <3>2, <4>1, <4>2 DEF OnWay, CInv, AInv, Assessing
    <3> QED  BY <3>1, <3>2
  <2>6. Besides(draft', p) \subseteq Besides(draft, p)  BY <1>3, <2>2 DEF Besides
  <2>7. /\ IsFiniteSet(Besides(draft, p)) /\ IsFiniteSet(Besides(draft', p))
        /\ Besides(draft, p) \in SUBSET Pairs /\ Besides(draft', p) \in SUBSET Pairs
    <3>1. Besides(draft, p) \subseteq AtRisk(draft) /\ Besides(draft', p) \subseteq AtRisk(draft')
      BY DEF Besides
    <3> QED  BY <1>4, <1>6, <3>1, FS_Subset, AtRiskInPairs
  <2>8. SizeOf(Besides(draft', p)) <= SizeOf(Besides(draft, p))
    BY <2>6, <2>7, SizeMonotone
  <2>9. SizeOf(AtRisk(draft')) <= SizeOf(Besides(draft', p)) + Of[p].size
    <3>1. SizeOf(Besides(draft', p)) \in Nat /\ Of[p].size \in Nat
      BY <1>1, <2>7, SizeType, SizesAreNumbers
    <3>2. CASE o \in AtRisk(draft')
      <4>1. SizeOf(AtRisk(draft')) = Weight[o] + SizeOf(AtRisk(draft') \ {o})
        BY <1>6, <3>2, SizeWithout, AtRiskInPairs
      <4>2. Weight[o] = Of[p].size  BY <1>4 DEF Weight
      <4>3. AtRisk(draft') \ {o} = Besides(draft', p)  BY <2>2 DEF Besides
      <4> QED  BY <3>1, <4>1, <4>2, <4>3
    <3>3. CASE o \notin AtRisk(draft')
      <4>1. AtRisk(draft') = Besides(draft', p)  BY <2>2, <3>3 DEF Besides
      <4> QED  BY <3>1, <4>1
    <3> QED  BY <3>2, <3>3
  <2>10. /\ SizeOf(AtRisk(draft')) \in Nat /\ SizeOf(Besides(draft, p)) \in Nat
         /\ SizeOf(Besides(draft', p)) \in Nat
         /\ Of[p].size \in Nat /\ ExposureCap \in Nat
    BY <1>1, <1>6, <2>7, SizeType, AtRiskInPairs, SizesAreNumbers, RiskAssumption
    DEF RiskAssumption
  <2>11. /\ SizeOf(AtRisk(draft')) <= ExposureCap
         /\ SizeOf(Besides(draft', p)) + Of[p].size <= ExposureCap
    BY <2>4, <2>8, <2>9, <2>10
  <2> QED  BY <2>1, <2>4, <2>5, <2>11
<1> QED  BY <1>6, <1>7 DEF CInv

LEMMA ExecuteKeepsRoom ==
  ASSUME CInv, AInv', NEW x \in Executors, ExecuteStep(x)
  PROVE  CInv'
<1>0. /\ xlist \in [Executors -> SUBSET Proposals] /\ NoProposal \notin Proposals
      /\ xhand \in [Executors -> Proposals \cup {NoProposal}] /\ Autopilot \in Executors
  BY RiskAssumption DEF CInv, AInv, RInv, Typed, RiskAssumption
<1>1. CASE \/ StartExecute(x) \/ RecordTimesOut(x) \/ (EndExecute(x) /\ lock # x)
           \/ \E p \in Proposals : PassGuards(x, p)
           \/ \E how \in {"accepted", "recovered", "rejected"} : Post(x, how)
  <2>1. UNCHANGED <<db, draft, cli, hand, verdict, crowded>>
    BY <1>1 DEF StartExecute, RecordTimesOut, EndExecute, PassGuards, Post, assessVars
  <2>2. ASSUME ~cli, NEW q \in Proposals,
               q \in xlist'[Autopilot] \/ xhand'[Autopilot] = q
        PROVE  \/ q \in xlist[Autopilot] \/ xhand[Autopilot] = q
               \/ db.status[q] = "authorized_for_execution"
    <3>1. CASE StartExecute(x)
      BY <1>0, <2>2, <3>1 DEF StartExecute
    <3>2. CASE RecordTimesOut(x)
      BY <1>0, <2>2, <3>2 DEF RecordTimesOut
    <3>3. CASE \E p \in Proposals : PassGuards(x, p)
      BY <1>0, <2>2, <3>3 DEF PassGuards
    <3>4. CASE EndExecute(x) \/ \E how \in {"accepted", "recovered", "rejected"} : Post(x, how)
      BY <2>2, <3>4 DEF EndExecute, Post
    <3> QED  BY <1>1, <3>1, <3>2, <3>3, <3>4
  <2>3. ~cli => OnWay' \subseteq OnWay  BY <2>1, <2>2 DEF OnWay, Queued
  <2> QED  BY <2>1, <2>3, RoomStays
<1>2. CASE EndExecute(x) /\ lock = x
  <2>1. /\ db' = draft /\ draft' = draft
        /\ UNCHANGED <<cli, hand, verdict, xlist, xhand, crowded>>
    BY <1>2 DEF EndExecute, Commit, View, assessVars
  <2>2. OnWay' \subseteq OnWay  BY <2>1 DEF OnWay
  <2> QED  BY <2>1, <2>2, RoomStays
<1>3. ASSUME NEW p \in Proposals,
             Refuse(x, p) \/ (Record(x) /\ p = xhand[x] /\ answer[x] # "placed")
      PROVE  CInv'
  <2>1. /\ db' = db /\ draft'.exec = draft.exec /\ draft'.resolved = draft.resolved
        /\ \A q \in Proposals : \/ draft'.status[q] = draft.status[q]
                                \/ q = p /\ draft'.status[q] = "failed"
        /\ UNCHANGED <<cli, assessVars, crowded>>
    BY <1>3, WriteEffect DEF CInv, AInv
  <2>2. \A q \in Proposals :
          /\ q \in xlist'[Autopilot] => q \in xlist[Autopilot]
          /\ xhand'[Autopilot] = q => xhand[Autopilot] = q
    BY <1>0, <1>3 DEF Refuse, Record
  <2>3. OnWay' \subseteq OnWay  BY <2>1, <2>2 DEF OnWay, Queued, assessVars
  <2>4. AtRisk(draft') = AtRisk(draft)  BY <2>1, SameRisk
  <2> QED  BY <2>1, <2>3, <2>4, RoomStays
<1>4. CASE Record(x)
  <2>1. CASE answer[x] = "placed"  BY <1>4, <2>1, PlacedKeepsRoom
  <2>2. CASE answer[x] # "placed"
    <3>1. xhand[x] \in Proposals
      BY <1>4, <2>2 DEF Record, CInv, AInv, AnswersAreOfHands
    <3> QED  BY <1>3, <1>4, <2>2, <3>1
  <2> QED  BY <2>1, <2>2
<1> QED  BY <1>1, <1>2, <1>3, <1>4 DEF ExecuteStep

LEMMA OthersKeepRoom ==
  ASSUME CInv, AInv', OtherStep
  PROVE  CInv'
<1>1. /\ draft = db /\ draft' = db' /\ UNCHANGED <<cli, assessVars, crowded>>
      /\ \A q \in Proposals : \/ db'.status[q] = db.status[q]
                              \/ <<db.status[q], db'.status[q]>> \in Steps
      /\ Shrinks(db, db')
  BY OthersEffect DEF CInv, AInv
<1>2. \A q \in Proposals : db'.status[q] \in Queued => db.status[q] \in Queued
  BY <1>1 DEF Steps, Queued
<1>3. OnWay' \subseteq OnWay
  BY <1>1, <1>2, OthersEffect DEF OnWay, assessVars, executeVars, CInv, AInv
<1> QED  BY <1>1, <1>3, ShrinkingRisk, RoomStays

LEMMA CInit == Init => CInv
<1> SUFFICES ASSUME Init PROVE CInv  OBVIOUS
<1>1. AInv  BY AInit
<1>2. AtRisk(draft) = {}  BY DEF Init, EmptyStore, AtRisk, Orders
<1>3. IsFiniteSet({}) /\ SizeOf({}) = 0  BY SizeByPick, FS_EmptySet
<1>4. OnWay = {}
  BY RiskAssumption
  DEF Init, EmptyStore, OnWay, NoVerdict, Queued, Assessors, RiskAssumption
<1>5. RoomForOne
  BY <1>2, <1>3, <1>4, RiskAssumption DEF Init, RoomForOne, RiskAssumption
<1> QED  BY <1>1, <1>2, <1>3, <1>5 DEF CInv

LEMMA CNext == CInv /\ [Next]_vars => CInv'
<1> SUFFICES ASSUME CInv, [Next]_vars PROVE CInv'  OBVIOUS
<1>0. AInv'  BY ANext DEF CInv
<1>1. ASSUME NEW a \in Assessors, AssessStep(a) PROVE CInv'
  BY <1>0, <1>1, AssessKeepsRoom, EvaluateKeepsRoom DEF AssessStep
<1>2. ASSUME NEW x \in Executors, ExecuteStep(x) PROVE CInv'
  BY <1>0, <1>2, ExecuteKeepsRoom
<1>3. CASE OtherStep  BY <1>0, <1>3, OthersKeepRoom
<1>4. CASE UNCHANGED vars
  <2>1. UNCHANGED <<draft, cli, crowded>> /\ OnWay' = OnWay
    BY <1>4 DEF vars, assessVars, executeVars, OnWay
  <2> QED  BY <1>0, <2>1, RoomStays
<1>5. CASE ReturnStep  BY <1>0, <1>5, ReturnKeepsRoom
<1> QED  BY <1>1, <1>2, <1>3, <1>4, <1>5 DEF Next

\* Nothing is placed past the cap on the open exposure while one entry at a
\* time is admitted, without exits and without commands beside the autopilot.
THEOREM ExposureCapHolds == Spec => []CapHoldsUncrowded
<1>1. CInv => CapHoldsUncrowded  BY DEF CInv, RoomForOne, CapHoldsUncrowded
<1> QED  BY CInit, CNext, <1>1, PTL DEF Spec
=============================================================================
