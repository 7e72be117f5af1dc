-------------------------- MODULE BackgroundProofs --------------------------
(***************************************************************************)
(* What the jobs beside the trading loops guarantee, for any constants.    *)
(* The theorems of AdapterBudget and Redeemer are carried over: the jobs   *)
(* share no state, so that each implements its own specification.  The     *)
(* amounts of Sizing, the records of CopyCollector and the marks of        *)
(* Migrations are proved here.                                             *)
(***************************************************************************)
EXTENDS Background, FiniteSetTheorems, SequenceTheorems, TLAPS

BudgetP == INSTANCE AdapterBudgetProofs WITH
  MaxRuns <- CallerRuns, at <- caller, runs <- callerRuns
RedeemP == INSTANCE RedeemerProofs WITH MaxFaults <- RedeemFaults, faults <- redeemFaults

-----------------------------------------------------------------------------
\* Whichever job runs, the callers of the paid adapters run or rest.
LEMMA BudgetRuns ==
  Spec => BudgetP!Spec
<1>1. Init => BudgetP!Init
  BY DEF Init, Budget!Init, BudgetP!Init, Budget!Providers, BudgetP!Providers,
     Budget!Rest, BudgetP!Rest
<1>2. Budget!Next => BudgetP!Next
  BY DEF Budget!Next, Budget!StartRun, Budget!ReadBudget, Budget!Send, Budget!SendFails,
     Budget!Count, Budget!CountFails, Budget!NextMarket, Budget!EndRun, Budget!Midnight,
     Budget!Rest, Budget!Providers, Budget!Provider, Budget!Market, Budget!Asked,
     Budget!Allowed,
     BudgetP!Next, BudgetP!StartRun, BudgetP!ReadBudget, BudgetP!Send, BudgetP!SendFails,
     BudgetP!Count, BudgetP!CountFails, BudgetP!NextMarket, BudgetP!EndRun, BudgetP!Midnight,
     BudgetP!Rest, BudgetP!Providers, BudgetP!Provider, BudgetP!Market, BudgetP!Asked,
     BudgetP!Allowed
<1>3. [Next]_vars => [BudgetP!Next]_BudgetP!vars
  BY <1>2 DEF Next, vars, budget, BudgetP!vars
<1> QED  BY <1>1, <1>3, PTL DEF Spec, BudgetP!Spec

\* Whatever the callers interleave, a day's requests to a provider pass its cap
\* by fewer than the callers that share it, and by those that were not counted.
THEOREM CapsHold == Spec => []BudgetKept
<1>1. BudgetP!BudgetAssumption
  BY JobAssumptions DEF Budget!BudgetAssumption, BudgetP!BudgetAssumption
<1>2. BudgetP!BudgetKept => BudgetKept
  BY DEF BudgetKept, Budget!BudgetKept, Budget!Providers, Budget!Sharing, Budget!Asked,
     Budget!Range, Budget!Cardinality,
     BudgetP!BudgetKept, BudgetP!Providers, BudgetP!Sharing, BudgetP!Asked,
     BudgetP!Range, BudgetP!Cardinality
<1> QED  BY <1>1, <1>2, BudgetRuns, BudgetP!BudgetBound, PTL

-----------------------------------------------------------------------------
\* Whichever job runs, the redeemer's ticks and the chain go on or rest.
LEMMA RedeemerRuns == Spec => RedeemP!Spec
<1>1. Init => RedeemP!Init
  BY DEF Init, Redeem!Init, Redeem!Idle, RedeemP!Init, RedeemP!Idle
<1>2. Redeem!Next => RedeemP!Next
  <2>1. Redeem!StartTick => RedeemP!StartTick
    BY DEF Redeem!StartTick, Redeem!Idle, Redeem!Due, Redeem!OfMarket, Redeem!rowVars,
      Redeem!chainVars, RedeemP!StartTick, RedeemP!Idle, RedeemP!Due, RedeemP!OfMarket,
      RedeemP!rowVars, RedeemP!chainVars
  <2>2. Redeem!PassOver => RedeemP!PassOver
    BY DEF Redeem!PassOver, Redeem!NextMarket, Redeem!Balance, Redeem!OfMarket,
      Redeem!rowVars, Redeem!chainVars, RedeemP!PassOver, RedeemP!NextMarket,
      RedeemP!Balance, RedeemP!OfMarket, RedeemP!rowVars, RedeemP!chainVars
  <2>3. Redeem!RequestFails => RedeemP!RequestFails
    BY DEF Redeem!RequestFails, Redeem!NextMarket, Redeem!Fault, Redeem!rowVars,
      Redeem!chainVars, RedeemP!RequestFails, RedeemP!NextMarket, RedeemP!Fault,
      RedeemP!rowVars, RedeemP!chainVars
  <2>4. Redeem!Send \/ Redeem!SendRefused => RedeemP!Send \/ RedeemP!SendRefused
    BY DEF Redeem!Send, Redeem!SendRefused, Redeem!NextMarket, Redeem!Balance,
      Redeem!OfMarket, Redeem!Rivals, Redeem!rowVars, Redeem!chainVars, RedeemP!Send,
      RedeemP!SendRefused, RedeemP!NextMarket, RedeemP!Balance, RedeemP!OfMarket,
      RedeemP!Rivals, RedeemP!rowVars, RedeemP!chainVars
  <2>5. Redeem!Receipt => RedeemP!Receipt
    BY DEF Redeem!Receipt, Redeem!Paid, Redeem!Last, Redeem!Marked, Redeem!NextMarket,
      Redeem!OfMarket, Redeem!rowVars, Redeem!chainVars, RedeemP!Receipt, RedeemP!Paid,
      RedeemP!Last, RedeemP!Marked, RedeemP!NextMarket, RedeemP!OfMarket, RedeemP!rowVars,
      RedeemP!chainVars
  <2>6. Redeem!TimesOut \/ Redeem!StampFails => RedeemP!TimesOut \/ RedeemP!StampFails
    BY DEF Redeem!TimesOut, Redeem!StampFails, Redeem!Paid, Redeem!Last, Redeem!Fault,
      Redeem!NextMarket, Redeem!rowVars, Redeem!chainVars, RedeemP!TimesOut,
      RedeemP!StampFails, RedeemP!Paid, RedeemP!Last, RedeemP!Fault, RedeemP!NextMarket,
      RedeemP!rowVars, RedeemP!chainVars
  <2>7. Redeem!EndTick \/ Redeem!Crash => RedeemP!EndTick \/ RedeemP!Crash
    BY DEF Redeem!EndTick, Redeem!Crash, Redeem!Idle, Redeem!Last, Redeem!Fault,
      Redeem!rowVars, Redeem!chainVars, RedeemP!EndTick, RedeemP!Crash, RedeemP!Idle,
      RedeemP!Last, RedeemP!Fault, RedeemP!rowVars, RedeemP!chainVars
  <2>8. \A m, i, p : /\ Redeem!Report(m) => RedeemP!Report(m)
                     /\ Redeem!Mine(i) => RedeemP!Mine(i)
                     /\ Redeem!Settle(p) => RedeemP!Settle(p)
    BY DEF Redeem!Report, Redeem!Mine, Redeem!Settle, Redeem!Balance, Redeem!OfMarket,
      Redeem!rowVars, Redeem!chainVars, RedeemP!Report, RedeemP!Mine, RedeemP!Settle,
      RedeemP!Balance, RedeemP!OfMarket, RedeemP!rowVars, RedeemP!chainVars
  <2> QED
    BY <2>1, <2>2, <2>3, <2>4, <2>5, <2>6, <2>7, <2>8
    DEF Redeem!Next, Redeem!Markets, Redeem!Range, RedeemP!Next, RedeemP!Markets, RedeemP!Range
<1>3. [Next]_vars => [RedeemP!Next]_RedeemP!vars
  BY <1>2 DEF Next, vars, redeem, RedeemP!vars, RedeemP!rowVars, RedeemP!chainVars
<1> QED  BY <1>1, <1>3, PTL DEF Spec, RedeemP!Spec

\* However the process dies and whatever the chain does meanwhile, stamps name
\* payments, and payments have stamps unless the program could not know of them.
THEOREM StampsAreRight == Spec => []StampsMatchChain
<1>1. RedeemP!StampsMatchChain => StampsMatchChain
  BY DEF StampsMatchChain, Redeem!StampsMatchChain, Redeem!Paid,
     RedeemP!StampsMatchChain, RedeemP!Paid
<1> QED  BY <1>1, RedeemerRuns, RedeemP!Stamps, PTL

-----------------------------------------------------------------------------
(***************************************************************************)
(* Numbers.                                                                *)
(***************************************************************************)
\* The least of some numbers.
LEMMA LeastNumber ==
  ASSUME NEW S \in SUBSET Nat, S # {}
  PROVE  \E m \in S : \A n \in S : m <= n
<1>1. PICK m \in S : \A n \in S : ~(<<n, m>> \in OpToRel(<, Nat))
  BY NatLessThanWellFounded, WFMin
<1>2. \A n \in S : ~(n < m)
  <2> SUFFICES ASSUME NEW n \in S, n < m PROVE FALSE
    OBVIOUS
  <2>1. m \in Nat /\ n \in Nat  OBVIOUS
  <2>2. <<n, m>> \in OpToRel(<, Nat)  BY <2>1 DEF OpToRel
  <2> QED  BY <1>1, <2>2
<1>3. \A n \in S : m \in Nat /\ n \in Nat
  OBVIOUS
<1> QED  BY <1>2, <1>3

\* A bounded set of numbers has a greatest one: the least of its bounds.
LEMMA GreatestExists ==
  ASSUME NEW S \in SUBSET Nat, S # {}, NEW bound \in Nat, \A n \in S : n <= bound
  PROVE  \E m \in S : \A n \in S : n <= m
<1> DEFINE B == {k \in Nat : \A n \in S : n <= k}
<1>1. PICK k \in B : \A m \in B : k <= m
  <2>1. B \in SUBSET Nat /\ bound \in B  OBVIOUS
  <2> QED  BY <2>1, LeastNumber
<1>2. k \in Nat /\ \A n \in S : n \in Nat /\ n <= k
  BY <1>1
<1>3. k \in S
  <2>1. CASE k = 0
    <3>1. PICK n \in S : TRUE  OBVIOUS
    <3> QED  BY <1>2, <2>1, <3>1
  <2>2. CASE k > 0
    <3>1. k - 1 \in Nat /\ ~(k <= k - 1)  BY <1>2, <2>2
    <3>2. k - 1 \notin B  BY <1>1, <3>1
    <3>3. PICK n \in S : ~(n <= k - 1)  BY <3>1, <3>2
    <3> QED  BY <1>2, <3>3
  <2> QED  BY <1>2, <2>1, <2>2
<1> QED  BY <1>2, <1>3

-----------------------------------------------------------------------------
(***************************************************************************)
(* Sizing.                                                                 *)
(***************************************************************************)
LEMMA PowersOfTwo ==
  ASSUME NEW n \in Nat
  PROVE  2 ^ n \in Nat \ {0}
<1>1. IsFiniteSet(1 .. n) /\ Cardinality(1 .. n) = n
  BY FS_Interval
<1>2. IsFiniteSet(SUBSET (1 .. n)) /\ Cardinality(SUBSET (1 .. n)) = 2 ^ n
  BY <1>1, FS_SUBSET
<1>3. SUBSET (1 .. n) # {}
  OBVIOUS
<1> QED  BY <1>2, <1>3, FS_CardinalityType, FS_EmptySet

LEMMA Greatest ==
  ASSUME NEW S \in SUBSET Nat, S # {}, NEW bound \in Nat, \A n \in S : n <= bound
  PROVE  Size!Max(S) \in S /\ \A n \in S : n <= Size!Max(S)
<1>1. \E m \in S : \A n \in S : m >= n
  <2>1. PICK m \in S : \A n \in S : n <= m  BY GreatestExists
  <2>2. \A n \in S : m \in Nat /\ n \in Nat  OBVIOUS
  <2> QED  BY <2>1, <2>2
<1> QED
  <2>1. Size!Max(S) \in S /\ \A n \in S : Size!Max(S) >= n  BY <1>1 DEF Size!Max
  <2>2. \A n \in S : n \in Nat /\ Size!Max(S) \in Nat  BY <2>1
  <2> QED  BY <2>1, <2>2

LEMMA GreaterOfTwo ==
  ASSUME NEW m \in Int, NEW n \in Int
  PROVE  Size!Max({m, n}) \in {m, n} /\ m <= Size!Max({m, n}) /\ n <= Size!Max({m, n})
<1>1. \E x \in {m, n} : \A y \in {m, n} : x >= y
  OBVIOUS
<1> QED  BY <1>1 DEF Size!Max

LEMMA LesserOfTwo ==
  ASSUME NEW m \in Int, NEW n \in Int
  PROVE  Size!Min({m, n}) \in {m, n} /\ Size!Min({m, n}) <= m /\ Size!Min({m, n}) <= n
<1>1. \E x \in {m, n} : \A y \in {m, n} : x <= y
  OBVIOUS
<1> QED  BY <1>1 DEF Size!Min

\* The scale of an account is never more than its balance has doubled.
LEMMA ScaleIs ==
  ASSUME NEW b \in Nat
  PROVE  /\ Size!Scale(b) \in Nat \ {0}
         /\ b >= 50 => 50 * Size!Scale(b) <= b
<1> DEFINE D == {n \in 0 .. 10 : 50 * 2 ^ n <= b}
           scale == IF D = {} THEN 1 ELSE 2 ^ Size!Max(D)
<1>1. scale \in Nat \ {0} /\ (b >= 50 => 50 * scale <= b)
  <2>1. CASE D = {}
    BY <2>1
  <2>2. CASE D # {}
    <3>1. Size!Max(D) \in D
      <4>1. D \in SUBSET Nat /\ \A n \in D : n <= 10  OBVIOUS
      <4> HIDE DEF D
      <4> QED  BY <2>2, <4>1, Greatest
    <3>2. Size!Max(D) \in Nat /\ 50 * 2 ^ Size!Max(D) <= b  BY <3>1
    <3> HIDE DEF D
    <3>3. 2 ^ Size!Max(D) \in Nat \ {0}  BY <3>2, PowersOfTwo
    <3> QED  BY <2>2, <3>2, <3>3
  <2> QED  BY <2>1, <2>2
<1>2. ScaleMax \in Nat \ {0}  BY JobAssumptions DEF Size!SizingAssumption
<1>3. Size!Scale(b) = Size!Min({scale, ScaleMax})  BY DEF Size!Scale
<1> HIDE DEF scale
<1>4. Size!Scale(b) \in {scale, ScaleMax} /\ Size!Scale(b) <= scale
  BY <1>1, <1>2, <1>3, LesserOfTwo
<1> QED  BY <1>1, <1>2, <1>4

LEMMA TierSizes ==
  ASSUME NEW b \in Nat
  PROVE  /\ \A t \in Size!Tiers : Size!TierSize(t, b) \in Nat \ {0}
         /\ \A s, t \in Size!Tiers : s <= t => Size!TierSize(s, b) <= Size!TierSize(t, b)
         /\ b >= 50 => \A t \in Size!Tiers :
              Size!ConcurrentCap[t] * Size!TierSize(t, b) <= Size!ExposureCap(b)
<1> DEFINE s == Size!Scale(b)
<1>1. s \in Nat \ {0} /\ (b >= 50 => 50 * s <= b)  BY ScaleIs
<1>2. /\ Size!TierSize(1, b) = 2000 * s /\ Size!TierSize(2, b) = 4000 * s
      /\ Size!TierSize(3, b) = 8000 * s /\ Size!TierSize(4, b) = 15000 * s
  BY DEF Size!TierSize, Size!BaseSize
<1>3. /\ Size!ConcurrentCap[1] = 5 /\ Size!ConcurrentCap[2] = 4
      /\ Size!ConcurrentCap[3] = 3 /\ Size!ConcurrentCap[4] = 2
  BY DEF Size!ConcurrentCap
<1>4. Size!ExposureCap(b) = 700 * b  BY DEF Size!ExposureCap
<1>5. \A t \in Size!Tiers : t \in {1, 2, 3, 4}  BY DEF Size!Tiers
<1> HIDE DEF s
<1> QED  BY <1>1, <1>2, <1>3, <1>4, <1>5

LEMMA AnswerTypes ==
  ASSUME NEW a \in Size!Answers
  PROVE  /\ a.edge \in 0 .. 99 /\ a.clarity \in 0 .. 3 /\ a.price \in 1 .. 99
         /\ a.balance \in Nat /\ a.book \in Int /\ a.under \in BOOLEAN
<1>1. /\ a.edge \in Edges /\ a.clarity \in Size!Clarity /\ a.price \in Prices
      /\ a.balance \in Balances /\ a.book \in Books /\ a.under \in BOOLEAN
  BY DEF Size!Answers
<1>2. /\ Edges \subseteq 0 .. 99 /\ Prices \subseteq 1 .. 99
      /\ Balances \subseteq Nat /\ Books \subseteq Int
  BY JobAssumptions DEF Size!SizingAssumption
<1> QED  BY <1>1, <1>2 DEF Size!Clarity

LEMMA TierRange ==
  ASSUME NEW a \in Size!Answers
  PROVE  Size!ComputeTier(a) \in 0 .. 4
<1>1. a.edge \in Nat  BY AnswerTypes
<1>2. Size!ByEdge(a) \in 0 .. 4
  BY <1>1 DEF Size!ByEdge, Size!Reaches
<1> QED  BY <1>2 DEF Size!ComputeTier

\* A weaker answer never has a higher tier.
LEMMA WeakerIsLower ==
  ASSUME NEW a \in Size!Answers, NEW w \in Size!Answers,
         w.edge < a.edge \/ (w.edge = a.edge /\ w.under = a.under),
         w.clarity <= a.clarity, w.substantial \in {a.substantial, TRUE},
         w.resolution = a.resolution
  PROVE  Size!ComputeTier(w) <= Size!ComputeTier(a)
<1>1. /\ a.edge \in Nat /\ a.clarity \in 0 .. 3
      /\ w.edge \in Nat /\ w.clarity \in 0 .. 3
  BY AnswerTypes
<1>2. a.substantial \in BOOLEAN /\ w.substantial \in BOOLEAN
  BY DEF Size!Answers
<1>3. a.substantial => w.substantial
  BY <1>2
<1>4. Size!ByEdge(a) \in 0 .. 4 /\ Size!ByEdge(w) \in 0 .. 4
  BY <1>1 DEF Size!ByEdge
<1>5. \A n \in Nat : Size!Reaches(w, n) => Size!Reaches(a, n)
  BY <1>1 DEF Size!Reaches
<1>6. /\ Size!Reaches(w, 10) => Size!Reaches(w, 5)
      /\ Size!Reaches(w, 12) => Size!Reaches(w, 10)
      /\ Size!Reaches(w, 20) => Size!Reaches(w, 12)
      /\ Size!Reaches(w, 30) => Size!Reaches(w, 20)
  BY <1>1 DEF Size!Reaches
<1>7. Size!ByEdge(w) <= Size!ByEdge(a)
  BY <1>1, <1>3, <1>5, <1>6 DEF Size!ByEdge
<1> QED  BY <1>4, <1>7 DEF Size!ComputeTier

-----------------------------------------------------------------------------
\* The tiers that the answer supports, the exchange takes and the book bears.
FitTiers == {t \in Size!Tiers : t <= Size!ComputeTier(ask) /\ Size!FitsFloor(t) /\ Size!FitsBook(t)}

\* What each step has ensured so far: the best tier over the floor, then the best
\* that fits the book as well.
SInv ==
  /\ ask \in Size!Answers
  /\ step \in {"answered", "cleared", "fitted", "sized", "ordered", "refused", "dropped"}
  /\ step \in {"answered", "dropped"} => tier = 0
  /\ ask.kelly => tier = 0 /\ step \notin {"cleared", "fitted"}
  /\ step = "cleared" => tier = Size!Cleared(ask)
  /\ step = "fitted" => FitTiers # {} /\ tier = Size!Max(FitTiers)
  /\ step = "sized" /\ ~ask.kelly => FitTiers # {} /\ tier = Size!Meant
  /\ step = "dropped" /\ ~ask.kelly => FitTiers = {}
  /\ step \in {"cleared", "fitted", "sized"} /\ ~ask.kelly =>
       tier \in Size!Tiers /\ size = Size!TierSize(tier, ask.balance)
  /\ tier \in 0 .. 4 /\ limit \in Int
  /\ step \in {"cleared", "fitted", "sized", "ordered"} =>
       size \in Nat /\ size >= Size!Floor(ask.price)

LEMMA FloorIs ==
  ASSUME SInv
  PROVE  /\ Size!Floor(ask.price) = 51 * ask.price /\ Size!Floor(ask.price) \in Nat
         /\ Size!Floor(ask.price) <= 5049
         /\ \A t \in Size!Tiers : Size!FitsFloor(t) <=>
              Size!TierSize(t, ask.balance) >= Size!Floor(ask.price)
<1>1. ask.price \in 1 .. 99  BY AnswerTypes DEF SInv
<1> QED  BY <1>1 DEF Size!Floor, Size!FitsFloor

LEMMA BestFit ==
  ASSUME FitTiers # {}
  PROVE  /\ Size!Max(FitTiers) \in FitTiers /\ Size!Max(FitTiers) \in Size!Tiers
         /\ \A t \in FitTiers : t <= Size!Max(FitTiers)
<1>1. FitTiers \in SUBSET Nat /\ \A t \in FitTiers : t \in Size!Tiers /\ t <= 4
  BY DEF FitTiers, Size!Tiers
<1> QED  BY <1>1, Greatest

LEMMA MeantIs ==
  /\ FitTiers = {} => Size!Meant = 0
  /\ FitTiers # {} =>
       LET best == Size!Max(FitTiers)
       IN  Size!Meant = IF ask.thin /\ best - 1 \in Size!Tiers /\ Size!FitsFloor(best - 1)
                        THEN best - 1 ELSE best
BY DEF Size!Meant, FitTiers

\* The best tier over the floor, if there is one.
LEMMA ClearedIs ==
  ASSUME SInv
  PROVE  LET fit == {t \in Size!Tiers : t <= Size!ComputeTier(ask) /\ Size!FitsFloor(t)}
         IN  IF fit = {} THEN Size!Cleared(ask) = 0
             ELSE Size!Cleared(ask) \in fit /\ \A t \in fit : t <= Size!Cleared(ask)
<1> DEFINE fit == {t \in Size!Tiers : t <= Size!ComputeTier(ask) /\ Size!FitsFloor(t)}
<1>1. Size!Cleared(ask) = IF fit = {} THEN 0 ELSE Size!Max(fit)
  BY DEF Size!Cleared, Size!FitsFloor
<1>2. fit \in SUBSET Nat /\ \A t \in fit : t <= 4
  BY DEF Size!Tiers
<1> HIDE DEF fit
<1>3. fit # {} => Size!Max(fit) \in fit /\ \A t \in fit : t <= Size!Max(fit)
  BY <1>2, Greatest
<1>4. IF fit = {} THEN Size!Cleared(ask) = 0
      ELSE Size!Cleared(ask) \in fit /\ \A t \in fit : t <= Size!Cleared(ask)
  BY <1>1, <1>3
<1> QED  BY <1>4 DEF fit

LEMMA ClearPreserves ==
  ASSUME SInv, Size!SizeFromConviction
  PROVE  SInv'
<1>0. /\ step = "answered" /\ ~ask.kelly /\ ask' = ask /\ limit' = limit
      /\ IF Size!Cleared(ask) = 0
         THEN step' = "dropped" /\ tier' = 0
         ELSE /\ tier' = Size!Cleared(ask) /\ size' = Size!Sized(Size!Cleared(ask))
              /\ step' = "cleared"
  BY DEF Size!SizeFromConviction, Size!Drop
<1>1. FitTiers' = FitTiers /\ Size!Cleared(ask)' = Size!Cleared(ask)
  BY <1>0 DEF FitTiers, Size!FitsFloor, Size!FitsBook
<1>2. CASE Size!Cleared(ask) = 0
  <2>1. FitTiers = {}
    BY <1>2, ClearedIs DEF FitTiers, Size!Tiers
  <2> QED  BY <1>0, <1>1, <1>2, <2>1 DEF SInv
<1>3. CASE Size!Cleared(ask) # 0
  <2> DEFINE t == Size!Cleared(ask)
  <2>1. t \in Size!Tiers /\ Size!FitsFloor(t)
    BY <1>3, ClearedIs
  <2>2. Size!Sized(t) = Size!TierSize(t, ask.balance) /\ Size!Sized(t) \in Nat
    BY <1>3, <2>1, AnswerTypes, TierSizes DEF Size!Sized, SInv
  <2>3. t \in 0 .. 4  BY <2>1 DEF Size!Tiers
  <2>4. size' = Size!TierSize(t, ask.balance) /\ size' \in Nat /\ size' >= Size!Floor(ask.price)
    BY <1>0, <1>3, <2>1, <2>2, FloorIs
  <2> QED  BY <1>0, <1>1, <1>3, <2>1, <2>3, <2>4 DEF SInv
<1> QED  BY <1>2, <1>3

\* What the book bears of the tier at hand is what it bears of all that clear the
\* floor, since greater tiers have greater sizes.
LEMMA BookPreserves ==
  ASSUME SInv, Size!FitBook
  PROVE  SInv'
<1> DEFINE fit == {t \in Size!Tiers : t <= tier /\ 4 * Size!Sized(t) <= ask.book}
           best == IF ask.book <= 0 THEN tier ELSE IF fit = {} THEN 0 ELSE Size!Max(fit)
<1>0. /\ step = "cleared" /\ ask' = ask /\ limit' = limit
      /\ IF best < tier /\ (best = 0 \/ Size!Sized(best) < Size!Floor(ask.price))
         THEN step' = "dropped" /\ tier' = 0
         ELSE tier' = best /\ size' = Size!Sized(best) /\ step' = "fitted"
  BY DEF Size!FitBook, Size!Drop
<1>1. FitTiers' = FitTiers
  BY <1>0 DEF FitTiers, Size!FitsFloor, Size!FitsBook
<1>2. /\ ~ask.kelly /\ tier \in Size!Tiers /\ Size!FitsFloor(tier) /\ tier <= Size!ComputeTier(ask)
      /\ \A t \in FitTiers : t <= tier
  BY <1>0, ClearedIs DEF SInv, FitTiers, Size!Tiers
<1>3. ask.balance \in Nat /\ ask.book \in Int /\ Size!ComputeTier(ask) \in 0 .. 4
  BY AnswerTypes, TierRange DEF SInv
<1>4. \A t \in Size!Tiers : Size!Sized(t) = Size!TierSize(t, ask.balance) /\ t \in 1 .. 4
  BY DEF Size!Sized, Size!Tiers
<1>5. /\ best \in 0 .. tier
      /\ best # 0 => best \in Size!Tiers /\ Size!FitsBook(best)
      /\ \A t \in FitTiers : t <= best
  <2>1. CASE ask.book <= 0
    BY <1>2, <1>4, <2>1 DEF Size!FitsBook
  <2>2. CASE ask.book > 0
    <3>1. fit \in SUBSET Nat /\ \A t \in fit : t <= 4
      BY <1>4
    <3>2. FitTiers \subseteq fit
      BY <1>2, <1>3, <1>4, <2>2 DEF FitTiers, Size!FitsBook
    <3>3. \A t \in fit : t \in Size!Tiers /\ t \in 1 .. tier /\ Size!FitsBook(t)
      BY <1>2, <1>4 DEF Size!FitsBook
    <3>4. best = IF fit = {} THEN 0 ELSE Size!Max(fit)
      BY <1>3, <2>2
    <3> HIDE DEF fit, best
    <3>5. fit # {} => Size!Max(fit) \in fit /\ \A t \in fit : t <= Size!Max(fit)
      BY <3>1, Greatest
    <3> QED  BY <1>2, <1>4, <3>2, <3>3, <3>4, <3>5
  <2>3. ask.book <= 0 \/ ask.book > 0  BY <1>3
  <2> HIDE DEF fit, best
  <2> QED  BY <2>1, <2>2, <2>3
<1>6. \A t \in Size!Tiers :
        Size!FitsFloor(t) <=> Size!TierSize(t, ask.balance) >= Size!Floor(ask.price)
  BY FloorIs
<1>7. Size!Floor(ask.price) \in Nat
  BY FloorIs
<1> HIDE DEF best, fit
<1>8. CASE best < tier /\ (best = 0 \/ Size!Sized(best) < Size!Floor(ask.price))
  <2>1. FitTiers = {}
    <3> SUFFICES ASSUME NEW t \in FitTiers PROVE FALSE
      OBVIOUS
    <3>1. t \in Size!Tiers /\ t \in 1 .. 4 /\ t <= best /\ Size!FitsFloor(t)
      BY <1>4, <1>5 DEF FitTiers
    <3>2. best # 0 /\ best \in Size!Tiers
      BY <1>5, <3>1
    <3>3. /\ Size!TierSize(t, ask.balance) <= Size!TierSize(best, ask.balance)
          /\ Size!TierSize(t, ask.balance) \in Nat /\ Size!TierSize(best, ask.balance) \in Nat
      BY <1>3, <3>1, <3>2, TierSizes
    <3> QED  BY <1>4, <1>6, <1>7, <1>8, <3>1, <3>2, <3>3
  <2> QED  BY <1>0, <1>1, <1>2, <1>8, <2>1 DEF SInv
<1>9. CASE ~(best < tier /\ (best = 0 \/ Size!Sized(best) < Size!Floor(ask.price)))
  <2>1. best \in Size!Tiers /\ best \in 1 .. 4 /\ Size!FitsBook(best)
    BY <1>2, <1>4, <1>5, <1>9
  <2>2. Size!Sized(best) = Size!TierSize(best, ask.balance) /\ Size!Sized(best) \in Nat
    BY <1>3, <1>4, <2>1, TierSizes
  <2>3. Size!FitsFloor(best)
    BY <1>2, <1>4, <1>5, <1>6, <1>7, <1>9, <2>1, <2>2
  <2>4. best \in FitTiers
    BY <1>2, <1>3, <1>4, <1>5, <2>1, <2>3 DEF FitTiers
  <2>5. best = Size!Max(FitTiers)
    <3>1. /\ Size!Max(FitTiers) \in FitTiers /\ Size!Max(FitTiers) \in 1 .. 4
          /\ best <= Size!Max(FitTiers) /\ Size!Max(FitTiers) <= best
      BY <1>4, <1>5, <2>4, BestFit
    <3> QED  BY <2>1, <3>1
  <2>6. size' = Size!TierSize(best, ask.balance) /\ size' \in Nat /\ size' >= Size!Floor(ask.price)
    BY <1>0, <1>6, <1>9, <2>1, <2>2, <2>3
  <2> QED  BY <1>0, <1>1, <1>2, <1>9, <2>1, <2>4, <2>5, <2>6 DEF SInv
<1> QED  BY <1>8, <1>9

LEMMA ThinPreserves ==
  ASSUME SInv, Size!ThinOut
  PROVE  SInv'
<1>0. /\ step = "fitted" /\ step' = "sized" /\ ask' = ask /\ limit' = limit
      /\ tier' = Size!Thinned(tier) /\ size' = Size!Sized(Size!Thinned(tier))
  BY DEF Size!ThinOut
<1>1. FitTiers' = FitTiers /\ Size!Meant' = Size!Meant
  BY <1>0 DEF FitTiers, Size!Meant, Size!FitsFloor, Size!FitsBook
<1>2. /\ ~ask.kelly /\ FitTiers # {} /\ tier = Size!Max(FitTiers)
      /\ tier \in FitTiers /\ tier \in 1 .. 4 /\ tier \in Size!Tiers
      /\ Size!FitsFloor(tier) /\ ask.balance \in Nat
  BY <1>0, BestFit, AnswerTypes DEF SInv, FitTiers, Size!Tiers
<1>3. tier - 1 \in Size!Tiers <=> tier > 1
  BY <1>2 DEF Size!Tiers
<1>4. tier > 1 => (Size!Sized(tier - 1) >= Size!Floor(ask.price) <=> Size!FitsFloor(tier - 1))
  BY <1>2, <1>3, FloorIs DEF Size!Sized
<1>5. Size!Thinned(tier) = Size!Meant
  BY <1>2, <1>3, <1>4, MeantIs DEF Size!Thinned
<1>6. Size!Meant \in Size!Tiers /\ Size!Meant \in 1 .. 4 /\ Size!FitsFloor(Size!Meant)
  BY <1>2, <1>3, MeantIs DEF Size!Tiers
<1>7. /\ size' = Size!TierSize(Size!Meant, ask.balance) /\ size' \in Nat
      /\ size' >= Size!Floor(ask.price)
  BY <1>0, <1>2, <1>5, <1>6, FloorIs, TierSizes DEF Size!Sized
<1> QED  BY <1>0, <1>1, <1>2, <1>5, <1>6, <1>7 DEF SInv

LEMMA KellyPreserves ==
  ASSUME SInv, Size!KellySize
  PROVE  SInv'
<1> DEFINE scaled == (Size!Hint * ask.edge) \div (100 - ask.price)
           least == Size!Max({1000, Size!Floor(ask.price)})
<1>0. /\ step = "answered" /\ ask.kelly /\ ask' = ask /\ limit' = limit
      /\ IF ~ask.above \/ scaled < least
         THEN step' = "dropped" /\ tier' = 0
         ELSE size' = Size!Min({Size!Hint, scaled}) /\ step' = "sized" /\ tier' = tier
  BY DEF Size!KellySize, Size!Drop
<1>1. ask.edge \in 0 .. 99 /\ ask.price \in 1 .. 99
  BY AnswerTypes DEF SInv
<1>2. scaled \in Nat
  <2>1. Size!Hint * ask.edge \in Nat /\ 100 - ask.price \in 1 .. 99
    BY <1>1 DEF Size!Hint
  <2>2. ASSUME NEW m \in Nat, NEW n \in 1 .. 99 PROVE m \div n \in Nat
    OBVIOUS
  <2> QED  BY <2>1, <2>2
<1>3. Size!Floor(ask.price) \in Nat /\ Size!Floor(ask.price) <= 5049
  BY FloorIs
<1>4. least \in Int /\ least >= Size!Floor(ask.price)
  <2>1. Size!Floor(ask.price) \in Int /\ 1000 \in Int  BY <1>3
  <2>2. least \in {1000, Size!Floor(ask.price)} /\ Size!Floor(ask.price) <= least
    BY <2>1, GreaterOfTwo
  <2> HIDE DEF least
  <2> QED  BY <2>1, <2>2
<1>5. Size!Min({10000, scaled}) \in {10000, scaled}
  <2> HIDE DEF scaled
  <2> QED  BY <1>2, LesserOfTwo
<1> HIDE DEF scaled, least
<1>6. size' = Size!Min({10000, scaled}) /\ scaled >= least
      => size' \in Nat /\ size' >= Size!Floor(ask.price)
  <2> SUFFICES ASSUME size' = Size!Min({10000, scaled}), scaled >= least
               PROVE  size' \in Nat /\ size' >= Size!Floor(ask.price)
    OBVIOUS
  <2>1. CASE size' = 10000
    BY <1>3, <2>1
  <2>2. CASE size' = scaled
    BY <1>2, <1>3, <1>4, <2>2
  <2> QED  BY <1>5, <2>1, <2>2
<1>7. CASE ~ask.above \/ scaled < least
  BY <1>0, <1>7 DEF SInv
<1>8. CASE ~(~ask.above \/ scaled < least)
  <2>1. /\ size' = Size!Min({10000, scaled}) /\ step' = "sized" /\ tier' = tier
        /\ scaled >= least
    BY <1>0, <1>2, <1>4, <1>8 DEF Size!Hint
  <2> QED  BY <1>0, <1>6, <2>1 DEF SInv
<1> QED  BY <1>7, <1>8

LEMMA SInit == Init => SInv
BY DEF Init, Size!Init, Size!Possible, SInv

LEMMA SNext == SInv /\ [Next]_vars => SInv'
<1> SUFFICES ASSUME SInv, [Next]_vars PROVE SInv'
  OBVIOUS
<1>1. CASE UNCHANGED sizing \/ Size!Done
  BY <1>1 DEF sizing, Size!Done, Size!vars, SInv, FitTiers, Size!Cleared, Size!Meant,
     Size!FitsFloor, Size!FitsBook
<1>2. CASE Size!Price
  <2>1. Drifts \subseteq Nat  BY JobAssumptions DEF Size!SizingAssumption
  <2>2. ASSUME NEW drift \in Nat
        PROVE  ((10000 + drift) * (10000 + Size!FillPremium)) \div 10000 \in Int
    BY DEF Size!FillPremium
  <2>3. /\ step = "sized" /\ step' \in {"refused", "ordered"}
        /\ limit' \in Int \/ limit' = limit
        /\ ask' = ask /\ tier' = tier /\ size' = size
    BY <1>2, <2>1, <2>2 DEF Size!Price
  <2> QED  BY <2>3 DEF SInv
<1>3. CASE Size!SizeFromConviction \/ Size!FitBook \/ Size!ThinOut \/ Size!KellySize
  BY <1>3, ClearPreserves, BookPreserves, ThinPreserves, KellyPreserves
<1> QED  BY <1>1, <1>2, <1>3 DEF Next, vars, Size!Next

\* The steps from an answer to an order come to the tier that is meant, a weaker
\* answer never has a higher one, positions fit in the exposure cap, and an order
\* at the price of its answer clears the exchange's minimum, for any answers,
\* balances, books and limits (compute_tier, account_scale, build_openclaw_proposals,
\* execute_record).
THEOREM AmountsAreMeant == Spec => []SizedAsMeant
<1>1. SInv => SizedAsMeant
  <2> SUFFICES ASSUME SInv PROVE Size!SizedAsMeant
    BY DEF SizedAsMeant
  <2>0. /\ ask \in Size!Answers /\ ask.balance \in Nat /\ ask.price \in 1 .. 99
        /\ step = "dropped" \/ step = "sized" => (ask.kelly \/ ~ask.kelly)
    BY AnswerTypes DEF SInv
  <2>1. step = "sized" /\ ~ask.kelly =>
          tier = Size!Meant /\ size = Size!TierSize(tier, ask.balance)
    BY DEF SInv
  <2>2. step = "sized" => size >= Size!Floor(ask.price)
    BY DEF SInv
  <2>3. step = "dropped" /\ ~ask.kelly => Size!Meant = 0
    BY MeantIs DEF SInv
  <2>4. Size!WeakerIsNoHigher
    <3> SUFFICES ASSUME NEW e \in Edges, NEW u \in BOOLEAN, NEW c \in 0 .. ask.clarity,
                        NEW s \in {ask.substantial, TRUE},
                        e < ask.edge \/ (e = ask.edge /\ u = ask.under)
                 PROVE  Size!ComputeTier([ask EXCEPT !.edge = e, !.under = u, !.clarity = c,
                                                     !.substantial = s])
                          <= Size!ComputeTier(ask)
      BY DEF Size!WeakerIsNoHigher
    <3> DEFINE w == [ask EXCEPT !.edge = e, !.under = u, !.clarity = c, !.substantial = s]
    <3>1. ask.clarity \in 0 .. 3  BY <2>0, AnswerTypes
    <3>2. c \in Size!Clarity /\ c <= ask.clarity  BY <3>1 DEF Size!Clarity
    <3>3. s \in BOOLEAN  BY <2>0 DEF Size!Answers
    <3>4. w \in Size!Answers
      BY <2>0, <3>2, <3>3 DEF Size!Answers
    <3>5. /\ w.edge = e /\ w.under = u /\ w.clarity = c /\ w.substantial = s
          /\ w.resolution = ask.resolution
      BY <2>0 DEF Size!Answers
    <3> HIDE DEF w
    <3>6. Size!ComputeTier(w) <= Size!ComputeTier(ask)
      BY <2>0, <3>2, <3>4, <3>5, WeakerIsLower
    <3> QED  BY <3>6 DEF w
  <2>5. tier # 0 /\ ask.balance >= 50 =>
          Size!ConcurrentCap[tier] * Size!TierSize(tier, ask.balance)
            <= Size!ExposureCap(ask.balance)
    <3>1. tier # 0 => tier \in Size!Tiers  BY DEF SInv, Size!Tiers
    <3> QED  BY <2>0, <3>1, TierSizes
  <2>6. step = "ordered" /\ limit <= 10000 + Size!FillPremium
          => size * 1000 >= 5 * ask.price * limit
    <3> SUFFICES ASSUME step = "ordered", limit <= 10000 + Size!FillPremium
                 PROVE  size * 1000 >= 5 * ask.price * limit
      OBVIOUS
    <3>1. size \in Nat /\ size >= 51 * ask.price  BY FloorIs DEF SInv
    <3>2. limit \in Int /\ limit <= 10150  BY DEF SInv, Size!FillPremium
    <3>3. ASSUME NEW p \in 1 .. 99, NEW l \in Int, l <= 10150
          PROVE  5 * p * l <= 50750 * p
      <4>1. 10150 - l \in Nat /\ p \in Nat /\ p * (10150 - l) = 10150 * p - p * l
        BY <3>3
      <4>2. p * (10150 - l) >= 0  BY <4>1
      <4>3. 5 * p * l = 5 * (p * l) /\ p * l \in Int  BY <3>3
      <4> QED  BY <4>1, <4>2, <4>3
    <3> QED  BY <2>0, <3>1, <3>2, <3>3
  <2> QED  BY <2>1, <2>2, <2>3, <2>4, <2>5, <2>6 DEF Size!SizedAsMeant
<1> QED  BY <1>1, SInit, SNext, PTL DEF Spec

-----------------------------------------------------------------------------
(***************************************************************************)
(* CopyCollector, in terms of the trades shown and the record of one pass. *)
(***************************************************************************)
Stages == {"idle", "fetch", "judge", "write"}

PassRecord ==
  [at : Stages, now : Nat, cursor : Nat, seen : SUBSET Nat, todo : SUBSET Nat, added : SUBSET Nat]

IsLog(log) ==
  log \in Seq([ts : Nat, big : BOOLEAN]) /\ Len(log) <= MaxTrades

\* What a pass has in hand it has seen; before its fetch it has added nothing.
IsPass(p, log) ==
  /\ p \in PassRecord
  /\ p.todo \subseteq p.seen /\ p.added \subseteq p.seen /\ p.seen \subseteq DOMAIN log
  /\ p.at = "write" => p.todo # {}
  /\ p.at = "fetch" => p.added = {}

Sooner(log, i, j) == log[i].ts < log[j].ts \/ (log[i].ts = log[j].ts /\ i < j)

EarliestIn(log, S) == CHOOSE i \in S : \A j \in S \ {i} : Sooner(log, i, j)

IsNew(log, p, i) == log[i].big /\ log[i].ts > p.cursor /\ ~(p.now - log[i].ts > MaxAge)

Ahead(log, p, i) == {j \in p.seen : IsNew(log, p, j) /\ Sooner(log, j, i)}

Taken(log, p) == {i \in p.seen : IsNew(log, p, i) /\ ~(Cardinality(Ahead(log, p, i)) >= Limit)}

\* Found to be new by the pass, which will record it.
Claimed(log, p, i) == i \in p.added \/ (p.at = "write" /\ i = EarliestIn(log, p.todo))

\* What a pass has selected waits, is added, or was recorded when it was looked at,
\* and what came before a trade it has seen it has seen too, but for what is left out.
Selected(log, rows, out, p) ==
  /\ \A i \in Taken(log, p) : i \in p.todo \/ i \in p.added \/ rows[i] > 0
  /\ \A i \in p.seen : \A j \in 1 .. i : j \in p.seen \/ j \in out \/ log[j].ts <= p.cursor

WasLate(log, i) == \E j \in 1 .. (i - 1) : log[j].ts >= log[i].ts

\* A cursor never passes the last trade shown, and what it has passed is recorded.
Passed(log, rows, out, k) ==
  /\ k = 0 \/ \E j \in DOMAIN log : k <= log[j].ts
  /\ \A i \in DOMAIN log :
       log[i].big /\ log[i].ts <= k /\ ~WasLate(log, i) /\ i \notin out => rows[i] > 0

CTyped ==
  /\ IsLog(trades) /\ clock \in Nat \ {0} /\ cursor \in Nat
  /\ \A i \in DOMAIN trades : trades[i].ts <= clock
  /\ tradeRows \in [Copy!Trade -> Nat]
  /\ DOMAIN pass = Collectors
  /\ \A c \in Collectors : IsPass(pass[c], trades)

\* Two passes that record one trade had it in hand together.
ClaimsRace ==
  \A c \in Collectors : \A i \in Copy!Trade : Claimed(trades, pass[c], i) =>
    /\ tradeRows[i] > 0 => i \in raced
    /\ \A d \in Collectors \ {c} : Claimed(trades, pass[d], i) => i \in raced

CInv ==
  /\ CTyped /\ ClaimsRace
  /\ \A i \in Copy!Trade : tradeRows[i] > 1 => i \in raced
  /\ Passed(trades, tradeRows, leftOut, cursor)
  /\ \A c \in Collectors :
       /\ pass[c].at # "idle" => Passed(trades, tradeRows, leftOut, pass[c].cursor)
       /\ pass[c].at \in {"judge", "write"} => Selected(trades, tradeRows, leftOut, pass[c])

-----------------------------------------------------------------------------
LEMMA EarliestExists ==
  ASSUME NEW log, NEW S \in SUBSET Nat, S # {}, \A i \in S : log[i].ts \in Nat
  PROVE  /\ EarliestIn(log, S) \in S
         /\ \A j \in S \ {EarliestIn(log, S)} : Sooner(log, EarliestIn(log, S), j)
<1>1. PICK m \in {log[i].ts : i \in S} : \A n \in {log[i].ts : i \in S} : m <= n
  <2>1. {log[i].ts : i \in S} \in SUBSET Nat /\ {log[i].ts : i \in S} # {}
    OBVIOUS
  <2> QED  BY <2>1, LeastNumber
<1>2. PICK i \in {j \in S : log[j].ts = m} : \A j \in {k \in S : log[k].ts = m} : i <= j
  <2>1. {j \in S : log[j].ts = m} \in SUBSET Nat /\ {j \in S : log[j].ts = m} # {}
    BY <1>1
  <2> QED  BY <2>1, LeastNumber
<1>3. \A j \in S \ {i} : Sooner(log, i, j)
  <2> SUFFICES ASSUME NEW j \in S \ {i} PROVE Sooner(log, i, j)
    OBVIOUS
  <2>1. /\ i \in Nat /\ j \in Nat /\ i # j /\ log[i].ts \in Nat /\ log[j].ts \in Nat
        /\ log[i].ts = m /\ m <= log[j].ts
    BY <1>1, <1>2
  <2>2. log[j].ts = m => i <= j
    BY <1>2
  <2> QED  BY <2>1, <2>2 DEF Sooner
<1> QED  BY <1>2, <1>3 DEF EarliestIn

\* An earliest trade stays the earliest one, whatever is shown later.
LEMMA EarliestStays ==
  ASSUME NEW log, NEW more, NEW S \in SUBSET Nat, S # {},
         \A i \in S : log[i].ts \in Nat /\ more[i] = log[i]
  PROVE  EarliestIn(more, S) = EarliestIn(log, S)
<1> DEFINE e == EarliestIn(log, S)
           f == EarliestIn(more, S)
<1>1. e \in S /\ \A j \in S \ {e} : Sooner(log, e, j)
  BY EarliestExists
<1>2. f \in S /\ \A j \in S \ {f} : Sooner(more, f, j)
  BY EarliestExists
<1> HIDE DEF e, f
<1>3. e = f
  BY <1>1, <1>2 DEF Sooner
<1> QED  BY <1>3 DEF e, f

LEMMA LogIs ==
  ASSUME NEW log, IsLog(log)
  PROVE  /\ Len(log) \in Nat /\ DOMAIN log = 1 .. Len(log)
         /\ DOMAIN log \subseteq Copy!Trade /\ DOMAIN log \subseteq Nat
         /\ \A i \in DOMAIN log : log[i].ts \in Nat /\ log[i].big \in BOOLEAN
<1>1. log \in Seq([ts : Nat, big : BOOLEAN])  BY DEF IsLog
<1>2. /\ Len(log) \in Nat /\ DOMAIN log = 1 .. Len(log)
      /\ \A i \in 1 .. Len(log) : log[i] \in [ts : Nat, big : BOOLEAN]
  BY <1>1, LenProperties, ElementOfSeq
<1>3. Len(log) <= MaxTrades /\ MaxTrades \in Nat
  BY JobAssumptions DEF IsLog, Copy!CollectorAssumption
<1> QED  BY <1>2, <1>3 DEF Copy!Trade

\* MaxOf of bounded numbers.
LEMMA GreatestTime ==
  ASSUME NEW S \in SUBSET Nat, NEW floor \in Nat, NEW bound \in Nat, \A n \in S : n <= bound
  PROVE  /\ Copy!MaxOf(S, floor) \in S \cup {floor}
         /\ \A n \in S \cup {floor} : n <= Copy!MaxOf(S, floor)
<1> DEFINE T == S \cup {floor}
           top == IF floor > bound THEN floor ELSE bound
<1>1. T \in SUBSET Nat /\ T # {} /\ top \in Nat /\ \A n \in T : n <= top
  OBVIOUS
<1> HIDE DEF T, top
<1>2. PICK m \in T : \A n \in T : n <= m
  BY <1>1, GreatestExists
<1> QED  BY <1>2 DEF T, Copy!MaxOf

\* What a pass has seen, selected and claimed does not depend on later trades.
LEMMA ViewStays ==
  ASSUME NEW log, NEW more, IsLog(log), NEW p, IsPass(p, log),
         DOMAIN log \subseteq DOMAIN more, \A i \in DOMAIN log : more[i] = log[i]
  PROVE  /\ Taken(more, p) = Taken(log, p)
         /\ \A i : Claimed(more, p, i) <=> Claimed(log, p, i)
<1>1. p.seen \subseteq DOMAIN log /\ p.todo \subseteq DOMAIN log
  BY DEF IsPass
<1>2. \A i \in p.seen : more[i] = log[i] /\ (IsNew(more, p, i) <=> IsNew(log, p, i))
  BY <1>1 DEF IsNew
<1>3. \A i \in p.seen : Ahead(more, p, i) = Ahead(log, p, i)
  BY <1>2 DEF Ahead, Sooner
<1>4. Taken(more, p) = Taken(log, p)
  BY <1>2, <1>3 DEF Taken
<1>5. p.at = "write" => EarliestIn(more, p.todo) = EarliestIn(log, p.todo)
  <2>1. p.at = "write" => p.todo # {}  BY DEF IsPass
  <2>2. /\ p.todo \in SUBSET Nat
        /\ \A i \in p.todo : log[i].ts \in Nat /\ more[i] = log[i]
    BY <1>1, LogIs
  <2> QED  BY <2>1, <2>2, EarliestStays
<1> QED  BY <1>4, <1>5 DEF Claimed

LEMMA ClaimsAreSeen ==
  ASSUME NEW log, IsLog(log), NEW p, IsPass(p, log), NEW i, Claimed(log, p, i)
  PROVE  i \in p.seen /\ (i \in p.todo \/ i \in p.added)
<1>1. CASE i \in p.added
  BY <1>1 DEF IsPass
<1>2. CASE p.at = "write" /\ i = EarliestIn(log, p.todo)
  <2>1. p.todo # {} /\ p.todo \subseteq p.seen /\ p.todo \subseteq DOMAIN log
    BY <1>2 DEF IsPass
  <2>2. p.todo \in SUBSET Nat /\ \A j \in p.todo : log[j].ts \in Nat
    BY <2>1, LogIs
  <2>3. i \in p.todo
    BY <1>2, <2>1, <2>2, EarliestExists
  <2> QED  BY <2>1, <2>3
<1> QED  BY <1>1, <1>2 DEF Claimed

LEMMA SameCardinality == \A S : Copy!Cardinality(S) = Cardinality(S)
BY DEF Copy!Cardinality, Cardinality

\* The operators of CopyCollector, in these terms.
LEMMA CopyIs ==
  /\ \A S : Copy!Earliest(S) = EarliestIn(trades, S)
  /\ \A c, i : Copy!New(c, i) <=> IsNew(trades, pass[c], i)
  /\ \A c, i : Copy!OneTooMany(c, pass[c].seen, i) <=>
               Cardinality(Ahead(trades, pass[c], i)) >= Limit
  /\ \A c : Copy!Filtered(c, pass[c].seen) = Taken(trades, pass[c])
<1>1. \A S : Copy!Earliest(S) = EarliestIn(trades, S)
  BY DEF Copy!Earliest, Copy!Before, EarliestIn, Sooner
<1>2. \A c, i : Copy!New(c, i) <=> IsNew(trades, pass[c], i)
  BY DEF Copy!New, Copy!TooOld, IsNew
<1>3. \A c, i : Copy!OneTooMany(c, pass[c].seen, i) <=>
                Cardinality(Ahead(trades, pass[c], i)) >= Limit
  <2> SUFFICES ASSUME NEW c, NEW i
               PROVE  Copy!OneTooMany(c, pass[c].seen, i) <=>
                        Cardinality(Ahead(trades, pass[c], i)) >= Limit
    OBVIOUS
  <2>1. {j \in pass[c].seen : Copy!New(c, j) /\ Copy!Before(j, i)} = Ahead(trades, pass[c], i)
    BY <1>2 DEF Ahead, Copy!Before, Sooner
  <2> QED  BY <2>1, SameCardinality DEF Copy!OneTooMany
<1>4. \A c : Copy!Filtered(c, pass[c].seen) = Taken(trades, pass[c])
  BY <1>2, <1>3 DEF Copy!Filtered, Taken
<1> QED  BY <1>1, <1>2, <1>3, <1>4

-----------------------------------------------------------------------------
\* What a cursor has passed stays recorded when more is recorded or left out.
LEMMA PassedStays ==
  ASSUME NEW log, NEW rows, NEW recorded, NEW out, NEW over, NEW k, Passed(log, rows, out, k),
         out \subseteq over, \A i \in DOMAIN log : rows[i] > 0 => recorded[i] > 0
  PROVE  Passed(log, recorded, over, k)
BY DEF Passed

\* A step of one pass that commits nothing.
LEMMA OnePass ==
  ASSUME CInv, NEW c \in Collectors, NEW r, IsPass(r, trades), pass' = [pass EXCEPT ![c] = r],
         UNCHANGED <<clock, trades, cursor, tradeRows>>, raced \subseteq raced',
         leftOut \subseteq leftOut',
         \A i \in Copy!Trade : Claimed(trades, r, i) =>
           \/ Claimed(trades, pass[c], i)
           \/ i \in raced'
           \/ tradeRows[i] = 0 /\ \A d \in Collectors \ {c} : ~Claimed(trades, pass[d], i),
         r.at # "idle" => Passed(trades, tradeRows, leftOut, r.cursor),
         r.at \in {"judge", "write"} => Selected(trades, tradeRows, leftOut', r)
  PROVE  CInv'
<1>1. DOMAIN pass = Collectors  BY DEF CInv, CTyped
<1>2. pass'[c] = r /\ \A d \in Collectors \ {c} : pass'[d] = pass[d]
  BY <1>1
<1>3. CTyped'
  BY <1>1, <1>2 DEF CInv, CTyped
<1>4. ClaimsRace'
  <2> SUFFICES ASSUME NEW d \in Collectors, NEW i \in Copy!Trade, Claimed(trades, pass'[d], i)
               PROVE  /\ tradeRows[i] > 0 => i \in raced'
                      /\ \A e \in Collectors \ {d} :
                           Claimed(trades, pass'[e], i) => i \in raced'
    BY DEF ClaimsRace
  <2>1. tradeRows[i] \in Nat  BY DEF CInv, CTyped
  <2>2. CASE d = c
    BY <1>2, <2>1, <2>2 DEF CInv, ClaimsRace
  <2>3. CASE d # c
    BY <1>2, <2>1, <2>3 DEF CInv, ClaimsRace
  <2> QED  BY <2>2, <2>3
<1>5. \A i \in Copy!Trade : tradeRows'[i] > 1 => i \in raced'
  BY DEF CInv
<1>6. \A k : Passed(trades, tradeRows, leftOut, k) => Passed(trades, tradeRows, leftOut', k)
  BY PassedStays
<1>7. \A d \in Collectors :
        /\ pass'[d].at # "idle" => Passed(trades, tradeRows, leftOut', pass'[d].cursor)
        /\ pass'[d].at \in {"judge", "write"} => Selected(trades, tradeRows, leftOut', pass'[d])
  <2>1. \A p : Selected(trades, tradeRows, leftOut, p) => Selected(trades, tradeRows, leftOut', p)
    BY DEF Selected
  <2> QED  BY <1>2, <1>6, <2>1 DEF CInv
<1> QED  BY <1>3, <1>4, <1>5, <1>6, <1>7 DEF CInv

LEMMA PassIs ==
  ASSUME CTyped, NEW c \in Collectors
  PROVE  /\ IsPass(pass[c], trades) /\ pass[c] \in PassRecord
         /\ pass[c].seen \subseteq DOMAIN trades /\ pass[c].seen \subseteq Nat
         /\ \A i \in pass[c].seen : trades[i].ts \in Nat
BY LogIs DEF CTyped, IsPass

LEMMA StartPreserves ==
  ASSUME CInv, NEW c \in Collectors, Copy!StartPass(c) \/ Copy!PassLost(c)
  PROVE  CInv'
<1> DEFINE started == [Copy!NoPass EXCEPT !.at = "fetch", !.now = clock, !.cursor = cursor]
<1>1. clock \in Nat /\ cursor \in Nat  BY DEF CInv, CTyped
<1>2. \A r \in {started, Copy!NoPass} : IsPass(r, trades) /\ \A i : ~Claimed(trades, r, i)
  <2>1. started \in PassRecord /\ Copy!NoPass \in PassRecord
    BY <1>1 DEF Copy!NoPass, PassRecord, Stages
  <2>2. /\ started.seen = {} /\ started.todo = {} /\ started.added = {} /\ started.at = "fetch"
        /\ Copy!NoPass.seen = {} /\ Copy!NoPass.todo = {} /\ Copy!NoPass.added = {}
        /\ Copy!NoPass.at = "idle"
    BY DEF Copy!NoPass
  <2> HIDE DEF started
  <2> QED  BY <2>1, <2>2 DEF IsPass, Claimed
<1>3. Copy!NoPass.at = "idle" /\ started.at = "fetch" /\ started.cursor = cursor
  BY DEF Copy!NoPass
<1>4. PICK r \in {started, Copy!NoPass} : pass' = [pass EXCEPT ![c] = r]
  BY DEF Copy!StartPass, Copy!PassLost
<1>5. UNCHANGED <<clock, trades, cursor, tradeRows, leftOut, raced>>
  BY DEF Copy!StartPass, Copy!PassLost
<1>6. Passed(trades, tradeRows, leftOut, cursor)  BY DEF CInv
<1> HIDE DEF started
<1>7. /\ r.at # "idle" => Passed(trades, tradeRows, leftOut, r.cursor)
      /\ r.at \notin {"judge", "write"}
  BY <1>3, <1>6
<1> QED  BY <1>2, <1>4, <1>5, <1>7, OnePass

LEMMA FetchPreserves ==
  ASSUME CInv, NEW c \in Collectors, Copy!Fetch(c)
  PROVE  CInv'
<1> DEFINE p == pass[c]
           r == [p EXCEPT !.at = "judge", !.seen = Copy!Shown,
                          !.todo = Copy!Filtered(c, Copy!Shown)]
<1>1. p \in PassRecord /\ p.at = "fetch" /\ IsPass(p, trades)
  BY PassIs DEF CInv, Copy!Fetch
<1>2. /\ r.at = "judge" /\ r.seen = Copy!Shown /\ r.todo = Copy!Filtered(c, Copy!Shown)
      /\ r.added = p.added /\ r.now = p.now /\ r.cursor = p.cursor
      /\ DOMAIN r = {"at", "now", "cursor", "seen", "todo", "added"}
      /\ r = [f \in DOMAIN r |-> r[f]]
  BY <1>1 DEF PassRecord
<1>3. /\ pass' = [pass EXCEPT ![c] = r]
      /\ UNCHANGED <<clock, trades, cursor, tradeRows, raced>>
      /\ leftOut' = leftOut \cup Copy!PushedOut(c)
  BY <1>1 DEF Copy!Fetch, CInv, CTyped
<1>4. Taken(trades, r) = r.todo
  <2> HIDE DEF r
  <2>1. \A i : Copy!New(c, i) <=> IsNew(trades, r, i)
    BY <1>2 DEF IsNew, Copy!New, Copy!TooOld
  <2>2. \A i : {j \in Copy!Shown : Copy!New(c, j) /\ Copy!Before(j, i)} = Ahead(trades, r, i)
    BY <1>2, <2>1 DEF Ahead, Sooner, Copy!Before
  <2> QED  BY <1>2, <2>1, <2>2, SameCardinality DEF Taken, Copy!Filtered, Copy!OneTooMany
<1>5. IsPass(r, trades)
  <2>1. DOMAIN trades \subseteq Nat /\ Copy!Shown \subseteq DOMAIN trades
    BY LogIs DEF CInv, CTyped, Copy!Shown
  <2>2. r.todo \subseteq Copy!Shown  BY <1>2 DEF Copy!Filtered
  <2>3. r \in PassRecord
    <3> HIDE DEF r
    <3> QED  BY <1>1, <1>2, <2>1, <2>2 DEF PassRecord, Stages
  <2>4. r.added \subseteq r.seen  BY <1>1, <1>2 DEF IsPass
  <2>5. r.todo \subseteq r.seen /\ r.seen \subseteq DOMAIN trades /\ r.at = "judge"
    BY <1>2, <2>1, <2>2
  <2> HIDE DEF r
  <2> QED  BY <2>3, <2>4, <2>5 DEF IsPass
<1>6. \A i : Claimed(trades, r, i) => Claimed(trades, p, i)
  BY <1>2 DEF Claimed
<1>7. Passed(trades, tradeRows, leftOut, r.cursor)
  BY <1>1, <1>2 DEF CInv
<1>8. Selected(trades, tradeRows, leftOut', r)
  <2>1. \A i \in DOMAIN trades : i \in Nat /\ 1 .. i \subseteq DOMAIN trades
    BY LogIs DEF CInv, CTyped
  <2>2. ASSUME NEW j \in DOMAIN trades, j \notin r.seen
        PROVE  j \in leftOut' \/ trades[j].ts <= r.cursor
    <3>1. /\ trades[j].ts \in Nat /\ p.cursor \in Nat
          /\ trades[j].ts > p.cursor => j \in Copy!PushedOut(c)
      BY <1>1, <1>2, <2>2, LogIs DEF CInv, CTyped, PassRecord, Copy!PushedOut
    <3> QED  BY <1>2, <1>3, <3>1
  <2>3. \A i \in r.seen : i \in DOMAIN trades
    BY <1>2 DEF Copy!Shown
  <2> HIDE DEF r
  <2> QED  BY <1>4, <2>1, <2>2, <2>3 DEF Selected
<1> HIDE DEF r
<1>9. leftOut \subseteq leftOut'  BY <1>3
<1> QED  BY <1>3, <1>9, <1>5, <1>6, <1>7, <1>8, OnePass

LEMMA HandIs ==
  ASSUME CTyped, NEW c \in Collectors, pass[c].todo # {}
  PROVE  /\ Copy!Earliest(pass[c].todo) = EarliestIn(trades, pass[c].todo)
         /\ Copy!Earliest(pass[c].todo) \in pass[c].todo
<1>1. /\ pass[c].todo \in SUBSET Nat
      /\ \A i \in pass[c].todo : trades[i].ts \in Nat
  BY PassIs DEF IsPass
<1> QED  BY <1>1, CopyIs, EarliestExists

LEMMA JudgePreserves ==
  ASSUME CInv, NEW c \in Collectors, Copy!Judge(c)
  PROVE  CInv'
<1> DEFINE p == pass[c]
           i == Copy!Earliest(p.todo)
           dropped == [p EXCEPT !.todo = @ \ {i}]
           kept == [p EXCEPT !.at = "write"]
<1>1. /\ p \in PassRecord /\ p.at = "judge" /\ IsPass(p, trades) /\ p.todo # {}
      /\ Selected(trades, tradeRows, leftOut, p) /\ Passed(trades, tradeRows, leftOut, p.cursor)
      /\ DOMAIN pass = Collectors /\ CTyped
  BY PassIs DEF CInv, Copy!Judge, CTyped
<1>2. i \in p.todo /\ i = EarliestIn(trades, p.todo) /\ i \in Copy!Trade
  BY <1>1, HandIs, LogIs DEF IsPass, CTyped
<1>3. UNCHANGED <<clock, trades, cursor, tradeRows, leftOut>> /\ raced \subseteq raced'
  BY DEF Copy!Judge
<1>4. CASE Copy!AlreadyRecorded(c, i)
  <2>1. pass' = [pass EXCEPT ![c] = dropped]
    BY <1>1, <1>4 DEF Copy!Judge
  <2>2. /\ dropped.at = "judge" /\ dropped.todo = p.todo \ {i} /\ dropped.added = p.added
        /\ dropped.seen = p.seen /\ dropped.now = p.now /\ dropped.cursor = p.cursor
        /\ dropped \in PassRecord
    BY <1>1 DEF PassRecord
  <2> HIDE DEF dropped
  <2>3. IsPass(dropped, trades)
    BY <1>1, <2>2 DEF IsPass
  <2>4. Taken(trades, dropped) = Taken(trades, p)
    BY <2>2 DEF Taken, IsNew, Ahead
  <2>5. tradeRows[i] > 0 \/ i \in p.added
    BY <1>4 DEF Copy!AlreadyRecorded
  <2>6. Selected(trades, tradeRows, leftOut, dropped)
    BY <1>1, <2>2, <2>4, <2>5 DEF Selected
  <2>7. \A j : Claimed(trades, dropped, j) => Claimed(trades, p, j)
    BY <2>2 DEF Claimed
  <2> QED  BY <1>1, <1>3, <2>1, <2>2, <2>3, <2>6, <2>7, OnePass
<1>5. CASE ~Copy!AlreadyRecorded(c, i)
  <2>1. pass' = [pass EXCEPT ![c] = kept]
    BY <1>1, <1>5 DEF Copy!Judge
  <2>2. /\ kept.at = "write" /\ kept.todo = p.todo /\ kept.added = p.added
        /\ kept.seen = p.seen /\ kept.now = p.now /\ kept.cursor = p.cursor
        /\ kept \in PassRecord
    BY <1>1 DEF PassRecord, Stages
  <2> HIDE DEF kept
  <2>3. IsPass(kept, trades)
    BY <1>1, <2>2 DEF IsPass
  <2>4. Taken(trades, kept) = Taken(trades, p)
    BY <2>2 DEF Taken, IsNew, Ahead
  <2>5. Selected(trades, tradeRows, leftOut, kept)
    BY <1>1, <2>2, <2>4 DEF Selected
  <2>6. \A j : Claimed(trades, kept, j) => Claimed(trades, p, j) \/ j = i
    BY <1>2, <2>2 DEF Claimed
  <2>7. \/ i \in raced'
        \/ tradeRows[i] = 0 /\ \A d \in Collectors \ {c} : ~Claimed(trades, pass[d], i)
    <3>1. tradeRows[i] = 0
      BY <1>1, <1>2, <1>5 DEF Copy!AlreadyRecorded, CTyped
    <3>2. CASE \E d \in Collectors \ {c} : i \in Copy!InHand(d)
      BY <3>2 DEF Copy!Judge
    <3>3. CASE \A d \in Collectors \ {c} : i \notin Copy!InHand(d)
      <4>1. \A d \in Collectors \ {c} : ~Claimed(trades, pass[d], i)
        BY <1>1, <3>3, ClaimsAreSeen DEF CTyped, Copy!InHand
      <4> QED  BY <3>1, <4>1
    <3> QED  BY <3>2, <3>3
  <2>8. \A j \in Copy!Trade : Claimed(trades, kept, j) =>
          \/ Claimed(trades, p, j)
          \/ j \in raced'
          \/ tradeRows[j] = 0 /\ \A d \in Collectors \ {c} : ~Claimed(trades, pass[d], j)
    <3> HIDE DEF i
    <3> QED  BY <2>6, <2>7
  <2>9. Passed(trades, tradeRows, leftOut, kept.cursor)
    BY <1>1, <2>2
  <2> QED  BY <1>3, <2>1, <2>3, <2>5, <2>8, <2>9, OnePass
<1> QED  BY <1>4, <1>5

LEMMA WritePreserves ==
  ASSUME CInv, NEW c \in Collectors, Copy!Write(c)
  PROVE  CInv'
<1> DEFINE p == pass[c]
           i == Copy!Earliest(p.todo)
           r == [p EXCEPT !.at = "judge", !.todo = @ \ {i}, !.added = @ \cup {i}]
<1>1. /\ p \in PassRecord /\ p.at = "write" /\ IsPass(p, trades) /\ p.todo # {}
      /\ Selected(trades, tradeRows, leftOut, p) /\ Passed(trades, tradeRows, leftOut, p.cursor)
      /\ DOMAIN pass = Collectors /\ CTyped
  BY PassIs DEF CInv, Copy!Write, CTyped, IsPass
<1>2. i \in p.todo /\ i = EarliestIn(trades, p.todo) /\ i \in Nat
  BY <1>1, HandIs DEF PassRecord
<1>3. UNCHANGED <<clock, trades, cursor, tradeRows, leftOut, raced>>
  BY DEF Copy!Write
<1>4. pass' = [pass EXCEPT ![c] = r]
  BY <1>1 DEF Copy!Write
<1>5. /\ r.at = "judge" /\ r.todo = p.todo \ {i} /\ r.added = p.added \cup {i}
      /\ r.seen = p.seen /\ r.now = p.now /\ r.cursor = p.cursor /\ r \in PassRecord
  BY <1>1, <1>2 DEF PassRecord, Stages
<1> HIDE DEF r
<1>6. IsPass(r, trades)
  BY <1>1, <1>2, <1>5 DEF IsPass
<1>7. Taken(trades, r) = Taken(trades, p)
  BY <1>5 DEF Taken, IsNew, Ahead
<1>8. Selected(trades, tradeRows, leftOut, r)
  BY <1>1, <1>5, <1>7 DEF Selected
<1>9. \A j : Claimed(trades, r, j) => Claimed(trades, p, j)
  BY <1>1, <1>2, <1>5 DEF Claimed
<1> QED  BY <1>1, <1>3, <1>4, <1>5, <1>6, <1>8, <1>9, OnePass

-----------------------------------------------------------------------------
\* The new cursor is not past the last trade that the pass has seen.
LEMMA AdvancedIs ==
  ASSUME CTyped, NEW c \in Collectors
  PROVE  /\ Copy!Advanced(c) \in Nat
         /\ \/ Copy!Advanced(c) <= pass[c].cursor
            \/ \E j \in pass[c].seen : Copy!Advanced(c) <= trades[j].ts
<1> DEFINE p == pass[c]
           shown == {trades[i].ts : i \in p.seen}
           chosen == {trades[i].ts : i \in Copy!Filtered(c, p.seen)}
           newest == Copy!MaxOf(shown, p.cursor)
           taken == Copy!MaxOf(chosen, p.cursor)
           least == IF newest < p.now THEN newest ELSE p.now
<1>1. p.cursor \in Nat /\ p.now \in Nat  BY PassIs DEF PassRecord
<1>2. /\ shown \in SUBSET Nat /\ clock \in Nat /\ \A n \in shown : n <= clock
      /\ chosen \subseteq shown
  BY PassIs DEF CTyped, Copy!Filtered
<1> HIDE DEF shown, chosen
<1>3. newest \in shown \cup {p.cursor} /\ \A n \in shown \cup {p.cursor} : n <= newest
  BY <1>1, <1>2, GreatestTime
<1>4. taken \in chosen \cup {p.cursor}
  BY <1>1, <1>2, GreatestTime
<1> HIDE DEF newest, taken
<1>5. newest \in Nat /\ taken \in Nat /\ taken <= newest
  BY <1>1, <1>2, <1>3, <1>4
<1>6. least \in Nat /\ least <= newest
  BY <1>1, <1>5
<1>7. Copy!Advanced(c) = Copy!MaxOf({taken}, least)
  BY DEF Copy!Advanced, newest, taken, shown, chosen
<1> HIDE DEF least
<1>8. Copy!MaxOf({taken}, least) \in {taken} \cup {least}
  <2>1. {taken} \in SUBSET Nat /\ \A n \in {taken} : n <= taken  BY <1>5
  <2> QED  BY <1>5, <1>6, <2>1, GreatestTime
<1>9. Copy!Advanced(c) \in Nat /\ Copy!Advanced(c) <= newest
  BY <1>5, <1>6, <1>7, <1>8
<1>10. newest = p.cursor \/ \E j \in p.seen : newest = trades[j].ts
  BY <1>3 DEF shown
<1> QED  BY <1>9, <1>10

LEMMA EndPreserves ==
  ASSUME CInv, NEW c \in Collectors, Copy!EndPass(c)
  PROVE  CInv'
<1> DEFINE p == pass[c]
<1>1. /\ p \in PassRecord /\ p.at = "judge" /\ IsPass(p, trades) /\ p.todo = {}
      /\ Selected(trades, tradeRows, leftOut, p) /\ Passed(trades, tradeRows, leftOut, p.cursor)
      /\ DOMAIN pass = Collectors /\ CTyped
  BY PassIs DEF CInv, Copy!EndPass, CTyped
<1>2. /\ UNCHANGED <<clock, trades, raced>>
      /\ cursor' = IF Copy!Advanced(c) > p.cursor THEN Copy!Advanced(c) ELSE cursor
      /\ tradeRows' = [i \in Copy!Trade |-> IF i \in p.added THEN tradeRows[i] + 1 ELSE tradeRows[i]]
      /\ leftOut' = leftOut \cup
           {i \in p.seen : Copy!TooOld(c, i) \/ Copy!OneTooMany(c, p.seen, i)}
      /\ pass' = [pass EXCEPT ![c] = Copy!NoPass]
  BY DEF Copy!EndPass
<1>3. \A i \in Copy!Trade :
        /\ tradeRows[i] \in Nat /\ tradeRows'[i] \in Nat
        /\ tradeRows'[i] = IF i \in p.added THEN tradeRows[i] + 1 ELSE tradeRows[i]
  BY <1>1, <1>2 DEF CTyped
<1>4. \A i \in DOMAIN trades : i \in Copy!Trade /\ (tradeRows[i] > 0 => tradeRows'[i] > 0)
  BY <1>1, <1>3, LogIs DEF CTyped
<1>5. /\ pass'[c] = Copy!NoPass /\ \A d \in Collectors \ {c} : pass'[d] = pass[d]
      /\ Copy!NoPass.at = "idle" /\ IsPass(Copy!NoPass, trades)
      /\ \A i : ~Claimed(trades, Copy!NoPass, i)
  <2>1. /\ Copy!NoPass.at = "idle" /\ Copy!NoPass.seen = {} /\ Copy!NoPass.todo = {}
        /\ Copy!NoPass.added = {} /\ Copy!NoPass \in PassRecord
    BY DEF Copy!NoPass, PassRecord, Stages
  <2> QED  BY <1>1, <1>2, <2>1 DEF IsPass, Claimed
<1>6. CTyped'
  <2>1. cursor' \in Nat  BY <1>1, <1>2, AdvancedIs DEF CTyped
  <2>2. tradeRows' \in [Copy!Trade -> Nat]  BY <1>2, <1>3
  <2>3. DOMAIN pass' = Collectors  BY <1>1, <1>2
  <2>4. \A d \in Collectors : IsPass(pass'[d], trades)
    BY <1>1, <1>5 DEF CTyped
  <2> QED  BY <1>1, <1>2, <2>1, <2>2, <2>3, <2>4 DEF CTyped
<1>7. \A i \in Copy!Trade : i \in p.added => Claimed(trades, p, i)
  BY DEF Claimed
<1>8. ClaimsRace'
  <2> SUFFICES ASSUME NEW d \in Collectors, NEW i \in Copy!Trade, Claimed(trades, pass'[d], i)
               PROVE  /\ tradeRows'[i] > 0 => i \in raced
                      /\ \A e \in Collectors \ {d} : Claimed(trades, pass'[e], i) => i \in raced
    BY <1>2 DEF ClaimsRace
  <2>1. d # c /\ pass'[d] = pass[d]
    BY <1>5
  <2>2. tradeRows'[i] > 0 => tradeRows[i] > 0 \/ Claimed(trades, p, i)
    BY <1>3, <1>7
  <2> QED  BY <1>5, <2>1, <2>2 DEF CInv, ClaimsRace
<1>9. \A i \in Copy!Trade : tradeRows'[i] > 1 => i \in raced'
  <2> SUFFICES ASSUME NEW i \in Copy!Trade, tradeRows'[i] > 1 PROVE i \in raced
    BY <1>2
  <2>1. CASE i \in p.added
    <3>1. tradeRows[i] > 0  BY <1>3, <2>1
    <3> QED  BY <1>7, <2>1, <3>1 DEF CInv, ClaimsRace
  <2>2. CASE i \notin p.added
    BY <1>3, <2>2 DEF CInv
  <2> QED  BY <2>1, <2>2
<1>10. \A k : Passed(trades, tradeRows, leftOut, k) => Passed(trades, tradeRows', leftOut', k)
  BY <1>2, <1>4, PassedStays
<1>11. Passed(trades, tradeRows', leftOut', cursor')
  <2>1. CASE ~(Copy!Advanced(c) > p.cursor)
    BY <1>2, <1>10, <2>1 DEF CInv
  <2>2. CASE Copy!Advanced(c) > p.cursor
    <3>1. cursor' = Copy!Advanced(c) /\ cursor' \in Nat /\ cursor' > p.cursor /\ p.cursor \in Nat
      BY <1>1, <1>2, <2>2, AdvancedIs DEF PassRecord
    <3>2. PICK j \in p.seen : cursor' <= trades[j].ts
      BY <1>1, <3>1, AdvancedIs
    <3>3. /\ j \in DOMAIN trades /\ j \in Nat
          /\ DOMAIN trades \subseteq Nat /\ DOMAIN trades = 1 .. Len(trades)
          /\ Len(trades) \in Nat
      BY <1>1, LogIs DEF IsPass, CTyped
    <3>4. ASSUME NEW i \in DOMAIN trades, trades[i].big, trades[i].ts <= cursor',
                 ~WasLate(trades, i), i \notin leftOut'
          PROVE  tradeRows'[i] > 0
      <4>1. trades[i].ts \in Nat /\ trades[j].ts \in Nat /\ i \in Nat /\ i >= 1
        BY <1>1, <3>3, LogIs DEF CTyped
      <4>2. CASE trades[i].ts <= p.cursor
        BY <1>1, <1>2, <1>4, <3>4, <4>2 DEF Passed
      <4>3. CASE trades[i].ts > p.cursor /\ i \in p.seen
        <5>1. i \in Taken(trades, p)
          BY <1>2, <3>4, <4>3, CopyIs DEF Taken, IsNew, Copy!TooOld
        <5>2. i \in p.added \/ tradeRows[i] > 0
          BY <1>1, <5>1 DEF Selected
        <5> QED  BY <1>3, <1>4, <5>2
      <4>4. CASE trades[i].ts > p.cursor /\ i \notin p.seen
        <5>0. i \in leftOut \/ trades[i].ts <= p.cursor \/ ~(i \in 1 .. j)
          BY <1>1, <4>4 DEF Selected
        <5>1. j < i  BY <1>2, <3>1, <3>3, <3>4, <4>1, <4>4, <5>0
        <5>2. j \in 1 .. (i - 1) /\ trades[j].ts >= trades[i].ts
          BY <3>1, <3>2, <3>3, <3>4, <4>1, <5>1
        <5> QED  BY <3>4, <5>2 DEF WasLate
      <4> QED  BY <1>1, <3>1, <4>1, <4>2, <4>3, <4>4
    <3> QED  BY <3>2, <3>3, <3>4 DEF Passed
  <2> QED  BY <2>1, <2>2
<1>12. \A d \in Collectors :
         /\ pass'[d].at # "idle" => Passed(trades, tradeRows', leftOut', pass'[d].cursor)
         /\ pass'[d].at \in {"judge", "write"} => Selected(trades, tradeRows', leftOut', pass'[d])
  <2> SUFFICES ASSUME NEW d \in Collectors, d # c
               PROVE  /\ pass[d].at # "idle" => Passed(trades, tradeRows', leftOut', pass[d].cursor)
                      /\ pass[d].at \in {"judge", "write"}
                           => Selected(trades, tradeRows', leftOut', pass[d])
    BY <1>5
  <2>1. Selected(trades, tradeRows, leftOut, pass[d])
          => Selected(trades, tradeRows', leftOut', pass[d])
    <3>1. Taken(trades, pass[d]) \subseteq DOMAIN trades
      BY <1>1, PassIs DEF Taken
    <3> QED  BY <1>2, <1>4, <3>1 DEF Selected
  <2> QED  BY <1>10, <2>1 DEF CInv
<1> QED  BY <1>2, <1>6, <1>8, <1>9, <1>11, <1>12 DEF CInv

LEMMA PublishPreserves ==
  ASSUME CInv, Copy!Publish
  PROVE  CInv'
<1>1. PICK t \in {clock, clock - 1} \ {0}, big \in BOOLEAN :
        trades' = Append(trades, [ts |-> t, big |-> big])
  BY DEF Copy!Publish
<1>2. /\ UNCHANGED <<clock, cursor, tradeRows, pass, leftOut, raced>>
      /\ Len(trades) < MaxTrades
  BY DEF Copy!Publish
<1> DEFINE n == Len(trades)
           new == [ts |-> t, big |-> big]
<1>3. /\ clock \in Nat \ {0} /\ IsLog(trades) /\ CTyped /\ n \in Nat /\ DOMAIN trades = 1 .. n
      /\ new \in [ts : Nat, big : BOOLEAN] /\ new.ts = t /\ t \in Nat \ {0} /\ t <= clock
  BY LogIs DEF CInv, CTyped
<1>4. /\ trades' \in Seq([ts : Nat, big : BOOLEAN]) /\ Len(trades') = n + 1
      /\ \A i \in 1 .. n : trades'[i] = trades[i]
      /\ trades'[n + 1] = new
  <2>1. trades \in Seq([ts : Nat, big : BOOLEAN])  BY <1>3 DEF IsLog
  <2> HIDE DEF new
  <2> QED  BY <1>1, <1>3, <2>1, AppendProperties DEF new
<1> HIDE DEF new
<1>5. /\ DOMAIN trades' = 1 .. (n + 1) /\ DOMAIN trades \subseteq DOMAIN trades'
      /\ \A i \in DOMAIN trades : trades'[i] = trades[i]
  BY <1>3, <1>4, LenProperties
<1>6. \A c \in Collectors :
        /\ IsPass(pass[c], trades) /\ IsPass(pass[c], trades')
        /\ Taken(trades', pass[c]) = Taken(trades, pass[c])
        /\ \A i : Claimed(trades', pass[c], i) <=> Claimed(trades, pass[c], i)
  <2> SUFFICES ASSUME NEW c \in Collectors
               PROVE  /\ IsPass(pass[c], trades) /\ IsPass(pass[c], trades')
                      /\ Taken(trades', pass[c]) = Taken(trades, pass[c])
                      /\ \A i : Claimed(trades', pass[c], i) <=> Claimed(trades, pass[c], i)
    OBVIOUS
  <2>1. IsPass(pass[c], trades)  BY <1>3 DEF CTyped
  <2>2. IsPass(pass[c], trades')  BY <1>5, <2>1 DEF IsPass
  <2> QED  BY <1>3, <1>5, <2>1, <2>2, ViewStays
<1>7. CTyped'
  <2>1. IsLog(trades')
    <3>1. MaxTrades \in Nat  BY JobAssumptions DEF Copy!CollectorAssumption
    <3> QED  BY <1>2, <1>3, <1>4, <3>1 DEF IsLog
  <2>2. \A i \in 1 .. (n + 1) : trades'[i].ts <= clock
    <3>1. \A i \in 1 .. n : trades'[i].ts <= clock  BY <1>3, <1>4 DEF CTyped
    <3>2. \A i \in 1 .. (n + 1) : i \in 1 .. n \/ i = n + 1  BY <1>3
    <3> QED  BY <1>3, <1>4, <3>1, <3>2
  <2> QED  BY <1>2, <1>3, <1>5, <1>6, <2>1, <2>2 DEF CTyped
<1>8. \A k \in Nat : Passed(trades, tradeRows, leftOut, k) => Passed(trades', tradeRows, leftOut, k)
  <2> SUFFICES ASSUME NEW k \in Nat, Passed(trades, tradeRows, leftOut, k)
               PROVE  Passed(trades', tradeRows, leftOut, k)
    OBVIOUS
  <2>1. k = 0 \/ \E j \in DOMAIN trades' : k <= trades'[j].ts
    BY <1>5 DEF Passed
  <2>2. ASSUME NEW i \in DOMAIN trades', trades'[i].big, trades'[i].ts <= k,
               ~WasLate(trades', i), i \notin leftOut
        PROVE  tradeRows[i] > 0
    <3>1. CASE i \in 1 .. n
      <4>1. ~WasLate(trades, i)
        <5>1. \A j \in 1 .. (i - 1) : j \in 1 .. n  BY <1>3, <3>1
        <5> QED  BY <1>4, <2>2, <3>1, <5>1 DEF WasLate
      <4> QED  BY <1>3, <1>4, <2>2, <3>1, <4>1 DEF Passed
    <3>2. CASE i = n + 1
      <4>1. t <= k /\ k # 0  BY <1>3, <1>4, <2>2, <3>2
      <4>2. PICK j \in DOMAIN trades : k <= trades[j].ts  BY <4>1 DEF Passed
      <4>3. j \in 1 .. n /\ trades[j].ts \in Nat /\ trades'[j].ts >= t
        BY <1>3, <1>4, <4>1, <4>2, LogIs
      <4>4. j \in 1 .. (i - 1) /\ trades'[i].ts = t  BY <1>3, <1>4, <3>2, <4>3
      <4> QED  BY <2>2, <4>3, <4>4 DEF WasLate
    <3> QED  BY <1>3, <1>5, <3>1, <3>2
  <2> QED  BY <2>1, <2>2 DEF Passed
<1>9. ClaimsRace'
  BY <1>2, <1>6 DEF CInv, ClaimsRace
<1>10. \A i \in Copy!Trade : tradeRows'[i] > 1 => i \in raced'
  BY <1>2 DEF CInv
<1>11. Passed(trades', tradeRows', leftOut', cursor')
  BY <1>2, <1>3, <1>8 DEF CInv, CTyped
<1>12. \A c \in Collectors :
         /\ pass'[c].at # "idle" => Passed(trades', tradeRows', leftOut', pass'[c].cursor)
         /\ pass'[c].at \in {"judge", "write"} => Selected(trades', tradeRows', leftOut', pass'[c])
  <2>1. \A c \in Collectors : pass[c].cursor \in Nat
    BY <1>6 DEF IsPass, PassRecord
  <2>2. ASSUME NEW c \in Collectors, Selected(trades, tradeRows, leftOut, pass[c])
        PROVE  Selected(trades', tradeRows, leftOut, pass[c])
    <3>1. \A i \in pass[c].seen : i \in 1 .. n  BY <1>3, <1>6 DEF IsPass
    <3>2. \A i \in pass[c].seen : \A j \in 1 .. i : j \in 1 .. n /\ trades'[j] = trades[j]
      BY <1>3, <1>4, <3>1
    <3> QED  BY <1>6, <2>2, <3>2 DEF Selected
  <2> QED  BY <1>2, <1>6, <1>8, <2>1, <2>2 DEF CInv
<1> QED  BY <1>7, <1>9, <1>10, <1>11, <1>12 DEF CInv

-----------------------------------------------------------------------------
LEMMA CopyInit == Init => CInv
<1> SUFFICES ASSUME Init PROVE CInv
  OBVIOUS
<1>1. /\ clock = 1 /\ trades = <<>> /\ cursor = 0 /\ raced = {} /\ leftOut = {}
      /\ tradeRows = [i \in Copy!Trade |-> 0] /\ pass = [c \in Collectors |-> Copy!NoPass]
  BY DEF Init, Copy!Init
<1>2. /\ Copy!NoPass \in PassRecord /\ Copy!NoPass.at = "idle" /\ Copy!NoPass.added = {}
      /\ Copy!NoPass.todo = {} /\ Copy!NoPass.seen = {}
  BY DEF Copy!NoPass, PassRecord, Stages
<1>3. IsLog(trades) /\ DOMAIN trades = {}
  BY <1>1, JobAssumptions DEF IsLog, Copy!CollectorAssumption
<1>4. \A c \in Collectors : IsPass(pass[c], trades) /\ \A i : ~Claimed(trades, pass[c], i)
  BY <1>1, <1>2, <1>3 DEF IsPass, Claimed
<1> QED
  BY <1>1, <1>2, <1>3, <1>4 DEF CInv, CTyped, ClaimsRace, Passed

LEMMA CopyNext == CInv /\ [Next]_vars => CInv'
<1> SUFFICES ASSUME CInv, [Next]_vars PROVE CInv'
  OBVIOUS
<1>1. CASE UNCHANGED copy \/ Copy!Tick
  <2>1. /\ UNCHANGED <<trades, cursor, tradeRows, pass, leftOut, raced>>
        /\ clock' = clock \/ clock' = clock + 1
    BY <1>1 DEF copy, Copy!Tick
  <2>2. CTyped'
    <3>1. \A i \in DOMAIN trades : trades[i].ts \in Nat  BY LogIs DEF CInv, CTyped
    <3> QED  BY <2>1, <3>1 DEF CInv, CTyped
  <2> QED  BY <2>1, <2>2 DEF CInv, ClaimsRace
<1>2. CASE Copy!Publish
  BY <1>2, PublishPreserves
<1>3. ASSUME NEW c \in Collectors,
             \/ Copy!StartPass(c) \/ Copy!Fetch(c) \/ Copy!Judge(c) \/ Copy!Write(c)
             \/ Copy!EndPass(c) \/ Copy!PassLost(c)
      PROVE  CInv'
  BY <1>3, StartPreserves, FetchPreserves, JudgePreserves, WritePreserves, EndPreserves
<1> QED  BY <1>1, <1>2, <1>3 DEF Next, vars, Copy!Next

\* Whatever passes run beside each other, fail half-way or find too late, every
\* large trade behind the cursor is recorded once (collect_once,
\* filter_new_trades, already_recorded).
THEOREM TradesAreRecorded == Spec => []TradesRecordedOnce
<1>1. CInv => TradesRecordedOnce
  <2> SUFFICES ASSUME CInv, NEW i \in DOMAIN trades
               PROVE  /\ tradeRows[i] > 1 => i \in raced
                      /\ trades[i].big /\ trades[i].ts <= cursor /\ ~Copy!Late(i) /\ i \notin leftOut
                           => tradeRows[i] > 0
    BY DEF TradesRecordedOnce, Copy!TradesRecordedOnce
  <2>1. i \in Copy!Trade  BY LogIs DEF CInv, CTyped
  <2>2. Copy!Late(i) <=> WasLate(trades, i)  BY DEF Copy!Late, WasLate
  <2> QED  BY <2>1, <2>2 DEF CInv, Passed
<1> QED  BY <1>1, CopyInit, CopyNext, PTL DEF Spec

-----------------------------------------------------------------------------
(***************************************************************************)
(* Migrations.                                                             *)
(***************************************************************************)
\* A program between two statements of a script, and one that has copied a table
\* and not put the copy in its place yet.
Mid(p) == proc[p].at = "script" /\ proc[p].pc > 1
Swapping(p) == proc[p].at = "script" /\ Migrate!Statement(p).op \in {"drop", "rename"}

\* The columns of a table, or of the copy that is to take its place.
Cols(t) == IF Migrate!There(t) THEN tab[t].cols ELSE scratch[t].cols

\* Does the table have the columns of a statement?
Has(s) == s.cols \subseteq Cols(s.table)

TableRecord == [cols : SUBSET Columns, rows : BOOLEAN]

ProcRecord ==
  {r \in [at : {"off", "loop", "script", "marking", "fresh", "schema"},
          applied : SUBSET Nat, script : Nat, pc : Nat] :
     /\ r.at \in {"script", "marking"} => r.script \in DOMAIN Scripts
     /\ r.at = "script" => r.pc \in 1 .. Len(Scripts[r.script])}

MTyped ==
  /\ tab \in [Tables -> TableRecord] /\ scratch \in [Tables -> TableRecord]
  /\ marks \subseteq DOMAIN Scripts
  /\ proc \in [Procs -> ProcRecord]

\* A database that was new: it has no rows, and the columns of the schema.
NewDb ==
  /\ \A t \in Tables :
       /\ ~tab[t].rows /\ ~scratch[t].rows
       /\ Migrate!There(t) => FullCols[t] \subseteq tab[t].cols
       /\ scratch[t] # Migrate!Absent => FullCols[t] \subseteq scratch[t].cols
  /\ \A p \in Procs : Mid(p) => Scripts[proc[p].script][1].op # "add"

\* What a program has passed is marked.
InOrder ==
  \A p \in Procs :
    /\ proc[p].at # "fresh" /\ proc[p].applied \subseteq marks
    /\ \A i \in DOMAIN Scripts :
         /\ proc[p].at \in {"script", "marking"} /\ i < proc[p].script => i \in marks
         /\ proc[p].at = "loop" /\ i <= proc[p].script => i \in marks

\* Every table is there, except for the moment before a rebuilt one is renamed.
TablesThere ==
  /\ \A t \in Tables : (\A p \in Procs : Swapping(p) => Migrate!Statement(p).table # t) =>
       Migrate!There(t) /\ tab[t].rows /\ scratch[t] = Migrate!Absent
  /\ \A p \in Procs : Swapping(p) =>
       LET i == proc[p].script
           t == Migrate!Statement(p).table
       IN  /\ scratch[t] = [cols |-> Migrate!UpTo(i, t), rows |-> TRUE]
           /\ Migrate!Statement(p).op = "rename" => tab[t] = Migrate!Absent
           /\ Migrate!Statement(p).op = "drop" =>
                /\ Migrate!There(t) /\ tab[t].rows
                /\ Migrate!UpTo(i, t) \ tab[t].cols \subseteq Migrate!Brings(i, t)

Alone ==
  \A p, q \in Procs : p # q =>
    /\ ~(Migrate!Rebuilding(p) /\ Migrate!Rebuilding(q))
    /\ ~(Mid(p) /\ Mid(q) /\ proc[p].script = proc[q].script)

\* A column is brought when all scripts before have been applied.
Grown ==
  \A t \in Tables :
    /\ BaseCols[t] \subseteq Cols(t) /\ Cols(t) \subseteq FullCols[t]
    /\ \A i, j \in DOMAIN Scripts : Migrate!Brings(i, t) \cap Cols(t) # {} /\ j < i => j \in marks

\* Half-way through a script the columns before are there and those ahead are not.
Halfway ==
  \A p \in Procs : Mid(p) =>
    \A k \in DOMAIN Scripts[proc[p].script] :
      LET s == Scripts[proc[p].script][k] IN s.op = "add" => (Has(s) <=> k < proc[p].pc)

\* A script that nobody is in has added all of its columns or none.
WholeOrNothing ==
  \A i \in DOMAIN Scripts : (\A p \in Procs : Mid(p) => proc[p].script # i) =>
    \A k, l \in DOMAIN Scripts[i] :
      Scripts[i][k].op = "add" /\ Scripts[i][l].op = "add" =>
        (Has(Scripts[i][k]) <=> Has(Scripts[i][l]))

\* A script that was passed has its first column, or all it brings.
Through(i) == i \in marks \/ \E p \in Procs : proc[p].at = "marking" /\ proc[p].script = i
ThroughIsDone ==
  \A i \in DOMAIN Scripts : Through(i) =>
    IF Scripts[i][1].op = "add" THEN Has(Scripts[i][1])
    ELSE \A t \in Tables : Migrate!Brings(i, t) \subseteq Cols(t)

\* A table that is being rebuilt has grown no further than the script.
RebuiltInTime ==
  \A p \in Procs : Migrate!Rebuilding(p) =>
    LET t == Migrate!Statement(p).table IN Cols(t) \subseteq Migrate!UpTo(proc[p].script, t)

OldDb ==
  /\ Tables # {}
  /\ InOrder /\ TablesThere /\ Alone /\ Grown /\ Halfway /\ WholeOrNothing
  /\ ThroughIsDone /\ RebuiltInTime

MInv == ~torn => MTyped /\ (NewDb \/ OldDb)

-----------------------------------------------------------------------------
LEMMA ScriptTypes ==
  ASSUME NEW i \in DOMAIN Scripts
  PROVE  /\ i \in Nat /\ DOMAIN Scripts = 1 .. Len(Scripts) /\ Len(Scripts) \in Nat
         /\ Len(Scripts[i]) \in Nat \ {0} /\ DOMAIN Scripts[i] = 1 .. Len(Scripts[i])
         /\ \A k \in DOMAIN Scripts[i] : Scripts[i][k] \in Migrate!Statements
         /\ Migrate!OnlyAdds(i) \/ Migrate!Rebuilds(i) \/ Migrate!IsAtomic(i)
<1>1. /\ Scripts \in Seq(Seq(Migrate!Statements)) /\ Len(Scripts[i]) > 0
      /\ Migrate!OnlyAdds(i) \/ Migrate!Rebuilds(i) \/ Migrate!IsAtomic(i)
  BY JobAssumptions DEF Migrate!MigrationsAssumption
<1>2. DOMAIN Scripts = 1 .. Len(Scripts) /\ Len(Scripts) \in Nat
  BY <1>1, LenProperties
<1>3. Scripts[i] \in Seq(Migrate!Statements)  BY <1>1, <1>2, ElementOfSeq
<1>4. /\ DOMAIN Scripts[i] = 1 .. Len(Scripts[i]) /\ Len(Scripts[i]) \in Nat
  BY <1>3, LenProperties
<1>5. \A k \in DOMAIN Scripts[i] : Scripts[i][k] \in Migrate!Statements
  BY <1>3, <1>4, ElementOfSeq
<1> QED  BY <1>1, <1>2, <1>4, <1>5

\* Where each kind of statement stands.
LEMMA StatementPlaces ==
  ASSUME NEW i \in DOMAIN Scripts, NEW k \in DOMAIN Scripts[i]
  PROVE  LET s == Scripts[i][k]
             n == Len(Scripts[i])
         IN  /\ s.op \in {"add", "copy", "drop", "rename", "atomic"} /\ s.table \in Tables
             /\ s.cols \subseteq Columns /\ s.needs \subseteq Columns
             /\ k \in 1 .. n /\ n \in Nat
             /\ s.op = "add" => Migrate!Adds(s) /\ (Migrate!Rebuilds(i) => k <= n - 3)
             /\ s.op = "copy" => Migrate!Rebuilds(i) /\ k = n - 2
             /\ s.op = "drop" => Migrate!Rebuilds(i) /\ k = n - 1
             /\ s.op = "rename" => Migrate!Rebuilds(i) /\ k = n
             /\ s.op = "atomic" => Migrate!IsAtomic(i) /\ k = 1 /\ n = 1
<1>1. Scripts[i][k] \in Migrate!Statements /\ Len(Scripts[i]) \in Nat /\ k \in 1 .. Len(Scripts[i])
  BY ScriptTypes
<1>2. CASE Migrate!OnlyAdds(i)
  <2>1. Migrate!Adds(Scripts[i][k]) /\ Migrate!Adds(Scripts[i][Len(Scripts[i])])
    BY <1>1, <1>2, ScriptTypes DEF Migrate!OnlyAdds
  <2>2. ~Migrate!Rebuilds(i)  BY <2>1 DEF Migrate!Rebuilds, Migrate!Adds
  <2> QED  BY <1>1, <2>1, <2>2 DEF Migrate!Adds, Migrate!Statements
<1>3. CASE Migrate!Rebuilds(i)
  <2> DEFINE n == Len(Scripts[i])
  <2>1. k \in 1 .. (n - 3) \/ k = n - 2 \/ k = n - 1 \/ k = n
    BY <1>1
  <2>2. k \in 1 .. (n - 3) => Migrate!Adds(Scripts[i][k])
    BY <1>3 DEF Migrate!Rebuilds
  <2>3. /\ Scripts[i][n - 2].op = "copy" /\ Scripts[i][n - 1].op = "drop"
        /\ Scripts[i][n].op = "rename"
    BY <1>3 DEF Migrate!Rebuilds
  <2> QED  BY <1>1, <1>3, <2>1, <2>2, <2>3 DEF Migrate!Adds, Migrate!Statements
<1>4. CASE Migrate!IsAtomic(i)
  <2>1. k = 1 /\ Len(Scripts[i]) = 1 /\ Scripts[i][k].op = "atomic"
    BY <1>1, <1>4 DEF Migrate!IsAtomic
  <2> QED  BY <1>1, <1>4, <2>1 DEF Migrate!Statements
<1> QED  BY <1>2, <1>3, <1>4, ScriptTypes

\* A script whose first statement adds a column.
LEMMA FirstAdds ==
  ASSUME NEW i \in DOMAIN Scripts
  PROVE  /\ 1 \in DOMAIN Scripts[i]
         /\ Scripts[i][1].op \in {"add", "copy", "atomic"}
         /\ Scripts[i][1].op = "add" =>
              Migrate!OnlyAdds(i) \/ (Migrate!Rebuilds(i) /\ Len(Scripts[i]) > 3)
         /\ Scripts[i][1].op = "copy" => Migrate!Rebuilds(i) /\ Len(Scripts[i]) = 3
<1>1. 1 \in DOMAIN Scripts[i] /\ Len(Scripts[i]) \in Nat
  BY ScriptTypes
<1>2. Migrate!Rebuilds(i) => Len(Scripts[i]) >= 3
  BY DEF Migrate!Rebuilds
<1>3. Migrate!IsAtomic(i) => Scripts[i][1].op = "atomic"
  BY DEF Migrate!IsAtomic
<1>4. Migrate!OnlyAdds(i) => Scripts[i][1].op = "add"
  BY <1>1 DEF Migrate!OnlyAdds, Migrate!Adds
<1> DEFINE op == Scripts[i][1].op
           n == Len(Scripts[i])
<1>5. /\ op \in {"add", "copy", "drop", "rename", "atomic"}
      /\ op = "add" => (Migrate!Rebuilds(i) => 1 <= n - 3)
      /\ op = "copy" => Migrate!Rebuilds(i) /\ 1 = n - 2
      /\ op = "drop" => Migrate!Rebuilds(i) /\ 1 = n - 1
      /\ op = "rename" => Migrate!Rebuilds(i) /\ 1 = n
  BY <1>1, StatementPlaces
<1>6. Migrate!OnlyAdds(i) \/ Migrate!Rebuilds(i) \/ Migrate!IsAtomic(i)
  BY ScriptTypes
<1>7. /\ n \in Nat /\ (Migrate!Rebuilds(i) => n >= 3)
      /\ (Migrate!IsAtomic(i) => op = "atomic") /\ (Migrate!OnlyAdds(i) => op = "add")
  BY <1>1, <1>2, <1>3, <1>4
<1> HIDE DEF op, n
<1>8. op \in {"add", "copy", "atomic"}  BY <1>5, <1>7
<1>9. op = "add" => Migrate!OnlyAdds(i) \/ (Migrate!Rebuilds(i) /\ n > 3)  BY <1>5, <1>6, <1>7
<1>10. op = "copy" => Migrate!Rebuilds(i) /\ n = 3  BY <1>5, <1>7
<1> QED  BY <1>1, <1>8, <1>9, <1>10 DEF op, n

LEMMA AddBrings ==
  ASSUME NEW i \in DOMAIN Scripts, NEW k \in DOMAIN Scripts[i], Scripts[i][k].op = "add"
  PROVE  /\ \E c \in Columns : Scripts[i][k].cols = {c}
         /\ Scripts[i][k].cols \subseteq Migrate!Brings(i, Scripts[i][k].table)
BY StatementPlaces DEF Migrate!Adds, Migrate!Brings

\* What a rebuild copies, and that it is about one table.
LEMMA CopyBrings ==
  ASSUME NEW i \in DOMAIN Scripts, NEW k \in DOMAIN Scripts[i], Scripts[i][k].op = "copy"
  PROVE  LET s == Scripts[i][k]
         IN  /\ s.cols = Migrate!UpTo(i, s.table)
             /\ s.cols \ s.needs \subseteq Migrate!Brings(i, s.table)
             /\ \A l \in DOMAIN Scripts[i] : Scripts[i][l].table = s.table
             /\ \A t \in Tables \ {s.table} : Migrate!Brings(i, t) = {}
<1>1. /\ Migrate!Rebuilds(i) /\ k = Len(Scripts[i]) - 2 /\ DOMAIN Scripts[i] = 1 .. Len(Scripts[i])
      /\ Len(Scripts[i]) \in Nat
  BY StatementPlaces, ScriptTypes
<1>2. \A l \in DOMAIN Scripts[i] : Scripts[i][l].table = Scripts[i][k].table
  BY <1>1 DEF Migrate!Rebuilds
<1>3. Scripts[i][k].cols = Migrate!UpTo(i, Scripts[i][Len(Scripts[i])].table)
  BY <1>1 DEF Migrate!Rebuilds
<1>4. Len(Scripts[i]) \in DOMAIN Scripts[i]
  BY ScriptTypes
<1> QED  BY <1>2, <1>3, <1>4 DEF Migrate!Brings

LEMMA AddsBring ==
  ASSUME NEW i \in DOMAIN Scripts, Scripts[i][1].op = "add", NEW t \in Tables,
         NEW c \in Migrate!Brings(i, t)
  PROVE  \E k \in DOMAIN Scripts[i] :
           Scripts[i][k].op = "add" /\ Scripts[i][k].table = t /\ Scripts[i][k].cols = {c}
<1>1. PICK k \in DOMAIN Scripts[i] :
        Scripts[i][k].table = t /\ c \in Scripts[i][k].cols \ Scripts[i][k].needs
  BY DEF Migrate!Brings
<1>2. CASE Scripts[i][k].op = "add"
  BY <1>1, <1>2, AddBrings
<1>3. CASE Scripts[i][k].op # "add"
  <2> DEFINE n == Len(Scripts[i])
  <2>1. Migrate!Rebuilds(i) /\ n > 3 /\ n \in Nat /\ DOMAIN Scripts[i] = 1 .. n
    BY <1>3, FirstAdds, StatementPlaces, ScriptTypes DEF Migrate!OnlyAdds, Migrate!Adds
  <2>2. k \in 1 .. (n - 3) \/ k = n - 2 \/ k = n - 1 \/ k = n
    BY <2>1
  <2>3. k = n - 2
    BY <1>1, <1>3, <2>1, <2>2 DEF Migrate!Rebuilds, Migrate!Adds
  <2>4. c \in UNION {Scripts[i][l].cols : l \in 1 .. (n - 3)}
    BY <1>1, <2>1, <2>3 DEF Migrate!Rebuilds
  <2>5. PICK l \in 1 .. (n - 3) : c \in Scripts[i][l].cols
    BY <2>4
  <2>6. l \in DOMAIN Scripts[i] /\ Migrate!Adds(Scripts[i][l]) /\ Scripts[i][l].table = t
    BY <1>1, <2>1, <2>5 DEF Migrate!Rebuilds
  <2> QED  BY <2>5, <2>6 DEF Migrate!Adds
<1> QED  BY <1>2, <1>3

LEMMA AtomicBrings ==
  ASSUME NEW i \in DOMAIN Scripts, Migrate!IsAtomic(i)
  PROVE  \A t \in Tables : Migrate!Brings(i, t) = {}
<1>1. DOMAIN Scripts[i] = {1}  BY ScriptTypes DEF Migrate!IsAtomic
<1> QED  BY <1>1 DEF Migrate!Brings, Migrate!IsAtomic

LEMMA ScriptsApart ==
  ASSUME NEW t \in Tables, NEW i \in DOMAIN Scripts
  PROVE  /\ Migrate!Brings(i, t) \cap BaseCols[t] = {}
         /\ \A j \in DOMAIN Scripts \ {i} : Migrate!Brings(i, t) \cap Migrate!Brings(j, t) = {}
         /\ Migrate!Brings(i, t) \subseteq Migrate!UpTo(i, t)
         /\ Migrate!UpTo(i, t) \subseteq FullCols[t]
         /\ Migrate!UpTo(i, t) # {} /\ BaseCols[t] \subseteq Migrate!UpTo(i, t)
         /\ \A c \in FullCols[t] \ Migrate!UpTo(i, t) :
              \E j \in DOMAIN Scripts : i < j /\ c \in Migrate!Brings(j, t)
         /\ \A j \in DOMAIN Scripts : j <= i => Migrate!Brings(j, t) \subseteq Migrate!UpTo(i, t)
         /\ \A c \in Migrate!UpTo(i, t) \ BaseCols[t] :
              \E j \in DOMAIN Scripts : j <= i /\ c \in Migrate!Brings(j, t)
<1>1. /\ Migrate!Brings(i, t) \cap BaseCols[t] = {} /\ BaseCols[t] # {}
      /\ \A j \in DOMAIN Scripts \ {i} : Migrate!Brings(i, t) \cap Migrate!Brings(j, t) = {}
      /\ FullCols[t] = Migrate!UpTo(Len(Scripts), t)
  BY JobAssumptions DEF Migrate!MigrationsAssumption
<1>2. i \in 1 .. Len(Scripts) /\ DOMAIN Scripts = 1 .. Len(Scripts) /\ Len(Scripts) \in Nat
  BY ScriptTypes
<1>3. \A j \in DOMAIN Scripts : j <= i => j \in 1 .. i
  BY <1>2
<1>4. 1 .. i \subseteq DOMAIN Scripts /\ i \in 1 .. i
  BY <1>2
<1>5. \A c \in FullCols[t] \ Migrate!UpTo(i, t) :
        \E j \in DOMAIN Scripts : i < j /\ c \in Migrate!Brings(j, t)
  <2> SUFFICES ASSUME NEW c \in FullCols[t] \ Migrate!UpTo(i, t)
               PROVE  \E j \in DOMAIN Scripts : i < j /\ c \in Migrate!Brings(j, t)
    OBVIOUS
  <2>1. PICK j \in 1 .. Len(Scripts) : c \in Migrate!Brings(j, t)
    BY <1>1 DEF Migrate!UpTo
  <2>2. j \notin 1 .. i  BY <2>1 DEF Migrate!UpTo
  <2> QED  BY <1>2, <2>1, <2>2
<1>6. Migrate!UpTo(i, t) \subseteq FullCols[t]
  BY <1>1, <1>2, <1>4 DEF Migrate!UpTo
<1>7. \A c \in Migrate!UpTo(i, t) \ BaseCols[t] :
        \E j \in DOMAIN Scripts : j <= i /\ c \in Migrate!Brings(j, t)
  <2> SUFFICES ASSUME NEW c \in Migrate!UpTo(i, t) \ BaseCols[t]
               PROVE  \E j \in DOMAIN Scripts : j <= i /\ c \in Migrate!Brings(j, t)
    OBVIOUS
  <2>1. PICK j \in 1 .. i : c \in Migrate!Brings(j, t)
    BY DEF Migrate!UpTo
  <2> QED  BY <1>2, <2>1
<1> QED  BY <1>1, <1>3, <1>4, <1>5, <1>6, <1>7 DEF Migrate!UpTo

\* A column that is not there by script i comes with a later one.
LEMMA LaterBrings ==
  ASSUME NEW t \in Tables, NEW i \in DOMAIN Scripts,
         NEW c \in FullCols[t], c \notin Migrate!UpTo(i, t)
  PROVE  \E j \in DOMAIN Scripts : i < j /\ c \in Migrate!Brings(j, t)
BY ScriptsApart

\* A rebuild takes more than one statement.
LEMMA RebuildIsLong ==
  ASSUME NEW i \in DOMAIN Scripts, Migrate!Rebuilds(i)
  PROVE  Len(Scripts[i]) # 1
<1>1. Len(Scripts[i]) >= 3  BY DEF Migrate!Rebuilds
<1>2. Len(Scripts[i]) \in Nat  BY ScriptTypes
<1>3. \A n \in Nat : n >= 3 => n # 1  OBVIOUS
<1> QED  BY <1>1, <1>2, <1>3

-----------------------------------------------------------------------------
LEMMA LowestPending ==
  ASSUME NEW p \in Procs, Migrate!Pending(p) # {}
  PROVE  /\ Migrate!Lowest(Migrate!Pending(p)) \in Migrate!Pending(p)
         /\ Migrate!Lowest(Migrate!Pending(p)) \in DOMAIN Scripts
         /\ \A i \in Migrate!Pending(p) : Migrate!Lowest(Migrate!Pending(p)) <= i
<1>1. Migrate!Pending(p) \subseteq DOMAIN Scripts /\ Migrate!Pending(p) \in SUBSET Nat
  BY ScriptTypes DEF Migrate!Pending
<1>2. \E m \in Migrate!Pending(p) : \A n \in Migrate!Pending(p) : m <= n
  BY <1>1, LeastNumber
<1> QED  BY <1>1, <1>2 DEF Migrate!Lowest

LEMMA TablesAre ==
  ASSUME MTyped, NEW t \in Tables
  PROVE  /\ tab[t] = [cols |-> tab[t].cols, rows |-> tab[t].rows]
         /\ scratch[t] = [cols |-> scratch[t].cols, rows |-> scratch[t].rows]
         /\ tab[t].cols \subseteq Columns /\ scratch[t].cols \subseteq Columns
         /\ tab[t].rows \in BOOLEAN /\ scratch[t].rows \in BOOLEAN
BY DEF MTyped, TableRecord

LEMMA AbsentTable == Migrate!Absent \in TableRecord
BY DEF Migrate!Absent, TableRecord

LEMMA MInit ==
  ASSUME Migrate!Init
  PROVE  MInv
<1>1. MTyped
  <2>1. \A t \in Tables : [cols |-> BaseCols[t], rows |-> TRUE] \in TableRecord
    BY JobAssumptions DEF Migrate!MigrationsAssumption, TableRecord
  <2>2. Migrate!Off \in ProcRecord
    BY DEF Migrate!Off, ProcRecord
  <2> QED  BY <2>1, <2>2, AbsentTable DEF Migrate!Init, MTyped
<1>2. \A p \in Procs : ~Mid(p) /\ ~Swapping(p) /\ ~Migrate!Rebuilding(p) /\ proc[p].at = "off"
  BY DEF Migrate!Init, Mid, Swapping, Migrate!Rebuilding, Migrate!Off
<1>3. CASE tab = [t \in Tables |-> Migrate!Absent] \/ Tables = {}
  BY <1>1, <1>2, <1>3 DEF Migrate!Init, MInv, NewDb, Migrate!There, Migrate!Absent
<1>4. CASE tab = [t \in Tables |-> [cols |-> BaseCols[t], rows |-> TRUE]] /\ Tables # {}
  <2>1. \A t \in Tables : BaseCols[t] # {} /\ Cols(t) = BaseCols[t] /\ Migrate!There(t)
    BY <1>4, JobAssumptions DEF Migrate!MigrationsAssumption, Cols, Migrate!There
  <2>2. InOrder
    BY DEF Migrate!Init, InOrder, Migrate!Off
  <2>3. TablesThere
    BY <1>2, <1>4, <2>1 DEF Migrate!Init, TablesThere
  <2>4. Alone /\ Halfway /\ RebuiltInTime
    BY <1>2 DEF Alone, Halfway, RebuiltInTime
  <2>5. ASSUME NEW i \in DOMAIN Scripts, NEW t \in Tables
        PROVE  Migrate!Brings(i, t) \cap Cols(t) = {} /\ BaseCols[t] \subseteq FullCols[t]
    BY <2>1, ScriptsApart
  <2>6. Grown
    <3> SUFFICES ASSUME NEW t \in Tables
                 PROVE  /\ BaseCols[t] \subseteq FullCols[t]
                        /\ \A i \in DOMAIN Scripts : Migrate!Brings(i, t) \cap Cols(t) = {}
      BY <2>1 DEF Grown
    <3>1. FullCols[t] = Migrate!UpTo(Len(Scripts), t)
      BY JobAssumptions DEF Migrate!MigrationsAssumption
    <3> QED  BY <2>5, <3>1 DEF Migrate!UpTo
  <2>7. WholeOrNothing
    <3> SUFFICES ASSUME NEW i \in DOMAIN Scripts, NEW k \in DOMAIN Scripts[i],
                        Scripts[i][k].op = "add"
                 PROVE  ~Has(Scripts[i][k])
      BY DEF WholeOrNothing
    <3>1. Scripts[i][k].table \in Tables  BY StatementPlaces
    <3> QED  BY <2>5, <3>1, AddBrings DEF Has
  <2>8. ThroughIsDone
    BY <1>2 DEF Migrate!Init, ThroughIsDone, Through
  <2> QED  BY <1>1, <1>4, <2>2, <2>3, <2>4, <2>6, <2>7, <2>8 DEF MInv, OldDb
<1> QED  BY <1>3, <1>4 DEF Migrate!Init

LEMMA MComplete ==
  ASSUME MInv
  PROVE  Migrate!MarkedIsComplete
<1> SUFFICES ASSUME ~torn, Migrate!Quiet, marks = DOMAIN Scripts
             PROVE  /\ ~Migrate!Stranded
                    /\ \A t \in Tables : Migrate!There(t) => FullCols[t] \subseteq tab[t].cols
  BY DEF Migrate!MarkedIsComplete
<1>1. CASE NewDb
  BY <1>1 DEF NewDb, Migrate!Stranded
<1>2. CASE OldDb
  <2>1. \A p \in Procs : ~Mid(p) /\ ~Swapping(p)
    BY DEF Migrate!Quiet, Mid, Swapping
  <2>2. \A t \in Tables : Migrate!There(t) /\ tab[t].rows /\ Cols(t) = tab[t].cols
    BY <1>2, <2>1 DEF OldDb, TablesThere, Cols
  <2>3. ASSUME NEW t \in Tables, NEW i \in DOMAIN Scripts, NEW c \in Migrate!Brings(i, t)
        PROVE  c \in Cols(t)
    <3>1. Through(i)  BY DEF Through
    <3>2. CASE Scripts[i][1].op = "add"
      <4>1. PICK k \in DOMAIN Scripts[i] :
              Scripts[i][k].op = "add" /\ Scripts[i][k].table = t /\ Scripts[i][k].cols = {c}
        BY <3>2, AddsBring
      <4>2. Has(Scripts[i][1])
        BY <1>2, <3>1, <3>2 DEF OldDb, ThroughIsDone
      <4>3. Has(Scripts[i][k])
        BY <1>2, <2>1, <3>2, <4>1, <4>2, FirstAdds DEF OldDb, WholeOrNothing
      <4> QED  BY <4>1, <4>3 DEF Has
    <3>3. CASE Scripts[i][1].op # "add"
      BY <1>2, <3>1, <3>3 DEF OldDb, ThroughIsDone
    <3> QED  BY <3>2, <3>3
  <2>4. ASSUME NEW t \in Tables, NEW c \in FullCols[t]
        PROVE  c \in Cols(t)
    <3>1. FullCols[t] = Migrate!UpTo(Len(Scripts), t)
      BY JobAssumptions DEF Migrate!MigrationsAssumption
    <3>2. BaseCols[t] \subseteq Cols(t)
      BY <1>2 DEF OldDb, Grown
    <3>3. Scripts \in Seq(Seq(Migrate!Statements))
      BY JobAssumptions DEF Migrate!MigrationsAssumption
    <3>4. DOMAIN Scripts = 1 .. Len(Scripts)
      BY <3>3, LenProperties
    <3> QED  BY <2>3, <3>1, <3>2, <3>4 DEF Migrate!UpTo
  <2> QED  BY <2>2, <2>4 DEF Migrate!Stranded
<1> QED  BY <1>1, <1>2 DEF MInv

LEMMA ProcsStay ==
  ASSUME MTyped, NEW p \in Procs, NEW r \in ProcRecord, proc' = [proc EXCEPT ![p] = r]
  PROVE  /\ proc' \in [Procs -> ProcRecord] /\ proc'[p] = r
         /\ \A q \in Procs \ {p} : proc'[q] = proc[q]
BY DEF MTyped

LEMMA MTypesStay ==
  ASSUME MTyped, [Migrate!Next]_Migrate!vars
  PROVE  MTyped'
<1>2. marks \subseteq Nat  BY ScriptTypes DEF MTyped
<1>3. \A i \in DOMAIN Scripts : i \in Nat /\ 1 \in 1 .. Len(Scripts[i])
  BY ScriptTypes
<1>4. CASE UNCHANGED Migrate!vars
  BY <1>4 DEF MTyped, Migrate!vars
<1>5. ASSUME NEW p \in Procs, Migrate!Open(p) PROVE MTyped'
  <2>1. PICK a \in {"loop", "fresh"} :
          proc' = [proc EXCEPT ![p] = [Migrate!Off EXCEPT !.at = a, !.applied = marks]]
    BY <1>5 DEF Migrate!Open
  <2>2. [Migrate!Off EXCEPT !.at = a, !.applied = marks] \in ProcRecord
    BY <1>2 DEF Migrate!Off, ProcRecord
  <2> QED  BY <1>5, <2>1, <2>2, ProcsStay DEF Migrate!Open, MTyped
<1>6. ASSUME NEW p \in Procs, Migrate!NextScript(p) PROVE MTyped'
  <2>0. proc[p] \in ProcRecord  BY DEF MTyped
  <2>1. CASE Migrate!Pending(p) = {}
    <3> DEFINE r == [proc[p] EXCEPT !.at = "schema"]
    <3>1. proc' = [proc EXCEPT ![p] = r]
      BY <1>6, <2>1 DEF Migrate!NextScript, Migrate!Goes
    <3>2. r \in ProcRecord  BY <2>0 DEF ProcRecord
    <3> HIDE DEF r
    <3> QED  BY <1>6, <2>1, <3>1, <3>2, ProcsStay DEF Migrate!NextScript, MTyped
  <2>2. CASE Migrate!Pending(p) # {}
    <3> DEFINE r == [proc[p] EXCEPT !.at = "script",
                                    !.script = Migrate!Lowest(Migrate!Pending(p)), !.pc = 1]
    <3>1. proc' = [proc EXCEPT ![p] = r]
      BY <1>6, <2>2 DEF Migrate!NextScript
    <3>2. Migrate!Lowest(Migrate!Pending(p)) \in DOMAIN Scripts  BY <2>2, LowestPending
    <3>3. r \in ProcRecord  BY <1>3, <2>0, <3>2 DEF ProcRecord
    <3> HIDE DEF r
    <3> QED  BY <1>6, <2>2, <3>1, <3>3, ProcsStay DEF Migrate!NextScript, MTyped
  <2> QED  BY <2>1, <2>2
<1>7. ASSUME NEW p \in Procs, Migrate!Execute(p) PROVE MTyped'
  <2> DEFINE i == proc[p].script
             k == proc[p].pc
  <2>0. proc[p] \in ProcRecord  BY DEF MTyped
  <2>2. /\ i \in DOMAIN Scripts /\ k \in 1 .. Len(Scripts[i]) /\ k \in Nat
        /\ Len(Scripts[i]) \in Nat /\ k \in DOMAIN Scripts[i]
    BY <1>7, <2>0, ScriptTypes DEF Migrate!Execute, ProcRecord
  <2>3. /\ Migrate!Statement(p).table \in Tables /\ Migrate!Statement(p).cols \subseteq Columns
        /\ Migrate!Statement(p).op \in {"add", "copy", "drop", "rename", "atomic"}
    BY <2>2, StatementPlaces DEF Migrate!Statement
  <2>4. CASE Migrate!Outcome(Migrate!Statement(p)) = "done"
    <3> DEFINE r == [proc[p] EXCEPT !.pc = k + 1,
                                    !.at = IF k = Len(Scripts[i]) THEN "marking" ELSE "script"]
    <3>1. /\ Migrate!Effect(Migrate!Statement(p)) /\ UNCHANGED marks
          /\ proc' = [proc EXCEPT ![p] = r]
      BY <1>7, <2>4 DEF Migrate!Execute
    <3>2. r \in ProcRecord
      <4>1. CASE k = Len(Scripts[i])
        <5>1. k + 1 \in Nat  BY <2>2
        <5> QED  BY <2>0, <2>2, <4>1, <5>1 DEF ProcRecord
      <4>2. CASE k # Len(Scripts[i])
        <5>1. k + 1 \in 1 .. Len(Scripts[i]) /\ k + 1 \in Nat
          BY <2>2, <4>2
        <5> QED  BY <2>0, <2>2, <4>2, <5>1 DEF ProcRecord
      <4> QED  BY <4>1, <4>2
    <3>3. tab' \in [Tables -> TableRecord] /\ scratch' \in [Tables -> TableRecord]
      <4> DEFINE s == Migrate!Statement(p)
                 grown == [tab[s.table] EXCEPT !.cols = @ \cup s.cols]
                 new == [cols |-> s.cols, rows |-> tab[s.table].rows]
      <4>1. grown \in TableRecord /\ new \in TableRecord
        BY <2>3 DEF MTyped, TableRecord
      <4>2. /\ tab' \in {tab, [tab EXCEPT ![s.table] = grown], [tab EXCEPT ![s.table] = new],
                         [tab EXCEPT ![s.table] = Migrate!Absent],
                         [tab EXCEPT ![s.table] = scratch[s.table]]}
            /\ scratch' \in {scratch, [scratch EXCEPT ![s.table] = new],
                             [scratch EXCEPT ![s.table] = Migrate!Absent]}
        BY <2>3, <3>1 DEF Migrate!Effect
      <4> HIDE DEF s, grown, new
      <4> QED  BY <2>3, <4>1, <4>2, AbsentTable DEF MTyped
    <3> HIDE DEF r
    <3> QED  BY <3>1, <3>2, <3>3, ProcsStay DEF MTyped
  <2>5. CASE Migrate!Outcome(Migrate!Statement(p)) # "done"
    <3> DEFINE r == [proc[p] EXCEPT !.at = "marking"]
    <3>1. /\ UNCHANGED <<tab, scratch, marks>>
          /\ proc' = [proc EXCEPT ![p] = r] \/ proc' = [proc EXCEPT ![p] = Migrate!Off]
      BY <1>7, <2>5 DEF Migrate!Execute
    <3>2. r \in ProcRecord /\ Migrate!Off \in ProcRecord
      BY <2>0, <2>2 DEF ProcRecord, Migrate!Off
    <3> HIDE DEF r
    <3> QED  BY <3>1, <3>2, ProcsStay DEF MTyped
  <2> QED  BY <2>4, <2>5
<1>8. ASSUME NEW p \in Procs, Migrate!Mark(p) PROVE MTyped'
  <2> DEFINE r == [proc[p] EXCEPT !.at = "loop"]
  <2>0. proc[p] \in ProcRecord  BY DEF MTyped
  <2>1. proc' = [proc EXCEPT ![p] = r]
    BY <1>8 DEF Migrate!Mark, Migrate!Goes
  <2>2. r \in ProcRecord /\ proc[p].script \in DOMAIN Scripts
    BY <1>8, <2>0 DEF ProcRecord, Migrate!Mark
  <2> HIDE DEF r
  <2> QED  BY <1>8, <2>1, <2>2, ProcsStay DEF Migrate!Mark, MTyped
<1>9. ASSUME NEW p \in Procs, Migrate!Create(p) PROVE MTyped'
  <2>1. \A t \in Tables : [cols |-> FullCols[t], rows |-> FALSE] \in TableRecord
    BY JobAssumptions DEF Migrate!MigrationsAssumption, TableRecord
  <2> QED  BY <1>9, <2>1 DEF Migrate!Create, MTyped
<1>10. ASSUME NEW p \in Procs, Migrate!EndSchema(p) \/ Migrate!Dies(p) PROVE MTyped'
  <2>1. Migrate!Off \in ProcRecord  BY DEF Migrate!Off, ProcRecord
  <2>2. marks' \subseteq DOMAIN Scripts /\ UNCHANGED <<tab, scratch>>
    BY <1>10 DEF Migrate!EndSchema, Migrate!Dies, MTyped
  <2>3. proc' = [proc EXCEPT ![p] = Migrate!Off]
    BY <1>10 DEF Migrate!EndSchema, Migrate!Dies
  <2> QED  BY <2>1, <2>2, <2>3, ProcsStay DEF MTyped
<1> QED  BY <1>4, <1>5, <1>6, <1>7, <1>8, <1>9, <1>10 DEF Migrate!Next

\* The program that takes a step, and what the step leaves.
LEMMA Executing ==
  ASSUME MTyped, NEW p \in Procs, proc[p].at = "script"
  PROVE  LET i == proc[p].script
             k == proc[p].pc
             s == Migrate!Statement(p)
             n == Len(Scripts[i])
         IN  /\ i \in DOMAIN Scripts /\ k \in DOMAIN Scripts[i] /\ k \in 1 .. n /\ n \in Nat
             /\ s = Scripts[i][k] /\ s.table \in Tables
             /\ s.cols \subseteq Columns /\ s.needs \subseteq Columns
             /\ s.op \in {"add", "copy", "drop", "rename", "atomic"}
<1>1. proc[p] \in ProcRecord  BY DEF MTyped
<1>2. proc[p].script \in DOMAIN Scripts /\ proc[p].pc \in 1 .. Len(Scripts[proc[p].script])
  BY <1>1 DEF ProcRecord
<1> QED  BY <1>2, ScriptTypes, StatementPlaces DEF Migrate!Statement

LEMMA Executes ==
  ASSUME MTyped, NEW p \in Procs, Migrate!Execute(p)
  PROVE  LET s == Migrate!Statement(p)
             n == Len(Scripts[proc[p].script])
         IN  /\ proc[p].at = "script" /\ UNCHANGED <<marks, procRuns>>
             /\ torn' = (torn \/ Migrate!Shrinking(p)
                              \/ \E q \in Procs \ {p} : Migrate!Rebuilding(q))
             /\ \A q \in Procs \ {p} : proc'[q] = proc[q]
             /\ \/ /\ Migrate!Outcome(s) = "done" /\ Migrate!Effect(s)
                   /\ proc'[p].at = (IF proc[p].pc = n THEN "marking" ELSE "script")
                   /\ proc'[p].script = proc[p].script /\ proc'[p].applied = proc[p].applied
                   /\ proc'[p].pc = proc[p].pc + 1
                \/ /\ Migrate!SafeToSkip(Migrate!Outcome(s)) /\ UNCHANGED <<tab, scratch>>
                   /\ proc'[p].at = "marking" /\ proc'[p].script = proc[p].script
                   /\ proc'[p].applied = proc[p].applied
                \/ /\ Migrate!Outcome(s) # "done" /\ ~Migrate!SafeToSkip(Migrate!Outcome(s))
                   /\ UNCHANGED <<tab, scratch>>
                   /\ proc'[p] = Migrate!Off
<1> DEFINE s == Migrate!Statement(p)
           n == Len(Scripts[proc[p].script])
<1>1. /\ proc[p].at = "script" /\ UNCHANGED <<marks, procRuns>>
      /\ torn' = (torn \/ Migrate!Shrinking(p) \/ \E q \in Procs \ {p} : Migrate!Rebuilding(q))
  BY DEF Migrate!Execute
<1>2. proc[p] \in ProcRecord /\ proc \in [Procs -> ProcRecord]
  BY DEF MTyped
<1>3. CASE Migrate!Outcome(s) = "done"
  <2> DEFINE r == [proc[p] EXCEPT !.pc = proc[p].pc + 1,
                                  !.at = IF proc[p].pc = n THEN "marking" ELSE "script"]
  <2>1. Migrate!Effect(s) /\ proc' = [proc EXCEPT ![p] = r]
    BY <1>3 DEF Migrate!Execute
  <2>2. /\ r.at = (IF proc[p].pc = n THEN "marking" ELSE "script")
        /\ r.script = proc[p].script /\ r.applied = proc[p].applied /\ r.pc = proc[p].pc + 1
    BY <1>2 DEF ProcRecord
  <2> HIDE DEF r, s, n
  <2>3. proc'[p] = r /\ \A q \in Procs \ {p} : proc'[q] = proc[q]
    BY <1>2, <2>1
  <2> QED  BY <1>1, <1>3, <2>1, <2>2, <2>3 DEF s, n
<1>4. CASE Migrate!Outcome(s) # "done"
  <2>1. /\ UNCHANGED <<tab, scratch>>
        /\ proc' = [proc EXCEPT ![p] = IF Migrate!SafeToSkip(Migrate!Outcome(s))
                                       THEN [proc[p] EXCEPT !.at = "marking"] ELSE Migrate!Off]
    BY <1>4 DEF Migrate!Execute
  <2> DEFINE r == [proc[p] EXCEPT !.at = "marking"]
  <2>2. r.at = "marking" /\ r.script = proc[p].script /\ r.applied = proc[p].applied
    BY <1>2 DEF ProcRecord
  <2> HIDE DEF s, n, r
  <2>3. /\ proc'[p] = IF Migrate!SafeToSkip(Migrate!Outcome(s)) THEN r ELSE Migrate!Off
        /\ \A q \in Procs \ {p} : proc'[q] = proc[q]
    BY <1>2, <2>1 DEF r
  <2> QED  BY <1>1, <1>4, <2>1, <2>2, <2>3 DEF s, n
<1> QED  BY <1>3, <1>4

\* A new database already has what a script would bring.
LEMMA NewDbStays ==
  ASSUME MTyped, NewDb, [Migrate!Next]_Migrate!vars, ~torn'
  PROVE  NewDb'
<1> DEFINE Fine(tb, sc) ==
      \A t \in Tables :
        /\ ~tb[t].rows /\ ~sc[t].rows
        /\ tb[t].cols # {} => FullCols[t] \subseteq tb[t].cols
        /\ sc[t] # Migrate!Absent => FullCols[t] \subseteq sc[t].cols
<1>1. Fine(tab, scratch)  BY DEF NewDb, Migrate!There
<1>2. ASSUME Fine(tab', scratch'),
             \A p \in Procs : Mid(p)' => Scripts[proc'[p].script][1].op # "add"
      PROVE  NewDb'
  BY <1>2 DEF NewDb, Migrate!There
<1>3. CASE UNCHANGED Migrate!vars
  BY <1>1, <1>2, <1>3 DEF NewDb, Migrate!vars, Mid
<1>4. ASSUME NEW p \in Procs,
             \/ Migrate!Open(p) \/ Migrate!NextScript(p) \/ Migrate!Mark(p)
             \/ Migrate!EndSchema(p) \/ Migrate!Dies(p)
      PROVE  NewDb'
  <2>1. UNCHANGED <<tab, scratch>>
    BY <1>4 DEF Migrate!Open, Migrate!NextScript, Migrate!Mark, Migrate!EndSchema, Migrate!Dies
  <2>2. /\ \A q \in Procs \ {p} : proc'[q] = proc[q]
        /\ ~(proc'[p].at = "script" /\ proc'[p].pc > 1)
    <3>0. proc[p] \in ProcRecord /\ proc \in [Procs -> ProcRecord]  BY DEF MTyped
    <3>1. CASE Migrate!Open(p)  BY <3>0, <3>1 DEF Migrate!Open, Migrate!Off
    <3>2. CASE Migrate!NextScript(p)  BY <3>0, <3>2 DEF Migrate!NextScript, Migrate!Goes, ProcRecord
    <3>3. CASE Migrate!Mark(p)  BY <3>0, <3>3 DEF Migrate!Mark, Migrate!Goes, ProcRecord
    <3>4. CASE Migrate!EndSchema(p) \/ Migrate!Dies(p)
      BY <3>0, <3>4 DEF Migrate!EndSchema, Migrate!Dies, Migrate!Off
    <3> QED  BY <1>4, <3>1, <3>2, <3>3, <3>4
  <2>3. \A q \in Procs : Mid(q)' => Scripts[proc'[q].script][1].op # "add"
    BY <2>2 DEF Mid, NewDb
  <2> QED  BY <1>1, <1>2, <2>1, <2>3
<1>5. ASSUME NEW p \in Procs, Migrate!Create(p) PROVE NewDb'
  <2>1. UNCHANGED <<scratch, proc>>  BY <1>5 DEF Migrate!Create
  <2>2. Fine(tab', scratch)
    BY <1>1, <1>5 DEF Migrate!Create, MTyped
  <2> QED  BY <1>2, <2>1, <2>2 DEF NewDb, Mid
<1>6. ASSUME NEW p \in Procs, Migrate!Execute(p) PROVE NewDb'
  <2> DEFINE i == proc[p].script
             k == proc[p].pc
             s == Migrate!Statement(p)
             t == s.table
  <2>1. /\ proc[p].at = "script" /\ ~Migrate!Shrinking(p)
    BY <1>6 DEF Migrate!Execute
  <2>2. /\ i \in DOMAIN Scripts /\ k \in DOMAIN Scripts[i] /\ s = Scripts[i][k] /\ t \in Tables
        /\ s.cols \subseteq Columns /\ s.op \in {"add", "copy", "drop", "rename", "atomic"}
        /\ k \in 1 .. Len(Scripts[i]) /\ Len(Scripts[i]) \in Nat
    BY <2>1, Executing
  <2>3. CASE Migrate!Outcome(s) # "done"
    <3>1. /\ UNCHANGED <<tab, scratch>> /\ \A q \in Procs \ {p} : proc'[q] = proc[q]
          /\ proc'[p].at # "script"
      <4>1. Migrate!Off.at # "script"  BY DEF Migrate!Off
      <4> QED  BY <1>6, <2>3, <4>1, Executes
    <3>2. \A q \in Procs : Mid(q)' => Scripts[proc'[q].script][1].op # "add"
      BY <3>1 DEF Mid, NewDb
    <3> QED  BY <1>1, <1>2, <3>1, <3>2
  <2>4. CASE Migrate!Outcome(s) = "done"
    <3>1. Migrate!Effect(s) /\ \A q \in Procs \ {p} : proc'[q] = proc[q]
      BY <1>6, <2>4, Executes DEF Migrate!SafeToSkip
    <3>2. proc'[p].script = i
      BY <1>6, <2>4, Executes DEF Migrate!SafeToSkip
    <3>3. s.op # "add"
      <4> SUFFICES ASSUME s.op = "add" PROVE FALSE
        OBVIOUS
      <4>1. tab[t].cols # {} /\ ~(s.cols \subseteq tab[t].cols)
        BY <2>4, <3>1 DEF Migrate!Outcome
      <4>2. s.cols \subseteq Migrate!Brings(i, t) /\ Migrate!Brings(i, t) \subseteq FullCols[t]
        BY <2>2, AddBrings, ScriptsApart
      <4> QED  BY <1>1, <2>2, <4>1, <4>2
    <3>4. Scripts[i][1].op # "add"
      <4>1. CASE k = 1  BY <2>2, <3>3, <4>1
      <4>2. CASE k # 1
        BY <2>1, <2>2, <4>2 DEF Mid, NewDb
      <4> QED  BY <4>1, <4>2
    <3>5. \A q \in Procs : Mid(q)' => Scripts[proc'[q].script][1].op # "add"
      BY <3>1, <3>2, <3>4 DEF Mid, NewDb
    <3>6. CASE s.op = "atomic"
      <4>1. s.cols = FullCols[t] /\ k = 1
        BY <2>2, <3>6, StatementPlaces DEF Migrate!IsAtomic
      <4>2. tab' = [tab EXCEPT ![t] = [cols |-> s.cols, rows |-> tab[t].rows]] /\ scratch' = scratch
        BY <3>1, <3>6 DEF Migrate!Effect
      <4>3. Fine(tab', scratch')
        BY <1>1, <2>2, <4>1, <4>2 DEF MTyped
      <4> QED  BY <1>2, <3>5, <4>3
    <3>7. CASE s.op = "copy"
      <4>1. scratch' = [scratch EXCEPT ![t] = [cols |-> s.cols, rows |-> tab[t].rows]] /\ tab' = tab
        BY <3>1, <3>7 DEF Migrate!Effect
      <4>2. tab[t].cols # {}
        BY <2>4, <3>7 DEF Migrate!Outcome
      <4>3. k = 1
        BY <2>2, <3>4, <3>7, FirstAdds, StatementPlaces
      <4>4. FullCols[t] \subseteq s.cols
        BY <1>1, <2>1, <2>2, <3>7, <4>2, <4>3 DEF Migrate!Shrinking
      <4>5. Fine(tab', scratch')
        BY <1>1, <2>2, <4>1, <4>4 DEF MTyped
      <4> QED  BY <1>2, <3>5, <4>5
    <3>8. CASE s.op = "drop"
      <4>1. tab' = [tab EXCEPT ![t] = Migrate!Absent] /\ scratch' = scratch
        BY <3>1, <3>8 DEF Migrate!Effect
      <4>2. Fine(tab', scratch')
        BY <1>1, <2>2, <4>1 DEF MTyped, Migrate!Absent
      <4> QED  BY <1>2, <3>5, <4>2
    <3>9. CASE s.op = "rename"
      <4>1. /\ tab' = [tab EXCEPT ![t] = scratch[t]]
            /\ scratch' = [scratch EXCEPT ![t] = Migrate!Absent]
        BY <3>1, <3>9 DEF Migrate!Effect
      <4>2. scratch[t] # Migrate!Absent
        BY <2>4, <3>9 DEF Migrate!Outcome
      <4>3. Fine(tab', scratch')
        BY <1>1, <2>2, <4>1, <4>2 DEF MTyped, Migrate!Absent
      <4> QED  BY <1>2, <3>5, <4>3
    <3> QED  BY <2>2, <3>3, <3>6, <3>7, <3>8, <3>9
  <2> QED  BY <2>3, <2>4
<1> QED  BY <1>3, <1>4, <1>5, <1>6 DEF Migrate!Next

-----------------------------------------------------------------------------
\* Between the copy of a table and the end of its script a program has passed the copy.
LEMMA SwapIsRebuild ==
  ASSUME NEW r \in ProcRecord, r.at = "script", Scripts[r.script][r.pc].op \in {"drop", "rename"}
  PROVE  /\ r.pc > 1 /\ Migrate!Rebuilds(r.script)
         /\ \E k \in DOMAIN Scripts[r.script] : Scripts[r.script][k].op = "copy"
<1> DEFINE i == r.script
           n == Len(Scripts[i])
<1>1. i \in DOMAIN Scripts /\ r.pc \in 1 .. n
  BY DEF ProcRecord
<1>2. Migrate!Rebuilds(i) /\ r.pc \in {n - 1, n} /\ n \in Nat /\ DOMAIN Scripts[i] = 1 .. n
  BY <1>1, ScriptTypes, StatementPlaces
<1>3. n >= 3 /\ Scripts[i][n - 2].op = "copy"
  BY <1>2 DEF Migrate!Rebuilds
<1>4. n - 2 \in DOMAIN Scripts[i]
  BY <1>2, <1>3
<1> QED  BY <1>2, <1>3, <1>4

LEMMA SwappingIsRebuilding ==
  ASSUME MTyped, NEW p \in Procs, Swapping(p)
  PROVE  Mid(p) /\ Migrate!Rebuilding(p) /\ Migrate!Rebuilds(proc[p].script)
<1>1. proc[p] \in ProcRecord  BY DEF MTyped
<1> QED  BY <1>1, SwapIsRebuild DEF Swapping, Migrate!Statement, Mid, Migrate!Rebuilding

\* A step that leaves the tables alone, and whoever is half-way through a script
\* or has just found that all its columns are there.
LEMMA BookKept ==
  ASSUME MTyped, MTyped', OldDb, UNCHANGED <<tab, scratch>>, marks \subseteq marks',
         \A q \in Procs : Mid(q)' => proc'[q] = proc[q],
         \A q \in Procs : Mid(q) =>
           \/ proc'[q] = proc[q]
           \/ /\ ~Swapping(q)
              /\ \A k \in DOMAIN Scripts[proc[q].script] :
                   Scripts[proc[q].script][k].op = "add" => Has(Scripts[proc[q].script][k])
  PROVE  /\ TablesThere' /\ Alone' /\ Grown' /\ Halfway' /\ WholeOrNothing' /\ RebuiltInTime'
         /\ (\A i \in DOMAIN Scripts : Through(i)' => Through(i)) => ThroughIsDone'
<1>1. \A t \in Tables : Cols(t)' = Cols(t)
  BY DEF Cols, Migrate!There
<1>2. \A i \in DOMAIN Scripts : \A k \in DOMAIN Scripts[i] :
        Has(Scripts[i][k])' <=> Has(Scripts[i][k])
  BY DEF Has, Cols, Migrate!There
<1>3. \A q \in Procs : Mid(q)' => Mid(q)
  BY DEF Mid
<1>4. ASSUME NEW q \in Procs
      PROVE  /\ Swapping(q)' <=> Swapping(q)
             /\ Swapping(q) => proc'[q] = proc[q] /\ Migrate!Statement(q)' = Migrate!Statement(q)
  <2>1. ASSUME Swapping(q) PROVE proc'[q] = proc[q]
    BY <2>1, SwappingIsRebuilding
  <2>2. ASSUME Swapping(q)' PROVE proc'[q] = proc[q]
    <3>1. proc'[q] \in ProcRecord  BY DEF MTyped
    <3>2. Mid(q)'
      BY <2>2, <3>1, SwapIsRebuild DEF Swapping, Migrate!Statement, Mid
    <3> QED  BY <3>2
  <2> QED  BY <2>1, <2>2 DEF Swapping, Migrate!Statement
<1>5. TablesThere'
  <2>1. ASSUME NEW t \in Tables, \A q \in Procs : Swapping(q)' => Migrate!Statement(q)'.table # t
        PROVE  Migrate!There(t)' /\ tab'[t].rows /\ scratch'[t] = Migrate!Absent
    <3>1. \A q \in Procs : Swapping(q) => Migrate!Statement(q).table # t
      BY <1>4, <2>1
    <3> QED  BY <3>1 DEF OldDb, TablesThere, Migrate!There
  <2>2. ASSUME NEW q \in Procs, Swapping(q)'
        PROVE  LET i == proc'[q].script
                   t == Migrate!Statement(q)'.table
               IN  /\ scratch'[t] = [cols |-> Migrate!UpTo(i, t), rows |-> TRUE]
                   /\ Migrate!Statement(q)'.op = "rename" => tab'[t] = Migrate!Absent
                   /\ Migrate!Statement(q)'.op = "drop" =>
                        /\ tab'[t].cols # {} /\ tab'[t].rows
                        /\ Migrate!UpTo(i, t) \ tab'[t].cols \subseteq Migrate!Brings(i, t)
    BY <1>4, <2>2 DEF OldDb, TablesThere, Migrate!There
  <2> QED  BY <2>1, <2>2 DEF TablesThere, Migrate!There
<1>6. Alone'
  BY <1>3 DEF OldDb, Alone, Mid, Migrate!Rebuilding
<1>7. Grown'
  BY <1>1 DEF OldDb, Grown
<1>8. Halfway'
  <2> SUFFICES ASSUME NEW q \in Procs, Mid(q)', NEW k \in DOMAIN Scripts[proc'[q].script],
                      Scripts[proc'[q].script][k].op = "add"
               PROVE  (Has(Scripts[proc[q].script][k]) <=> k < proc[q].pc)'
    BY DEF Halfway, Has, Cols, Migrate!There
  <2>1. proc'[q] = proc[q] /\ Mid(q) /\ proc[q] \in ProcRecord
    BY <1>3 DEF MTyped
  <2>2. proc[q].script \in DOMAIN Scripts
    BY <2>1 DEF Mid, ProcRecord
  <2>3. Has(Scripts[proc[q].script][k]) <=> k < proc[q].pc
    BY <2>1 DEF OldDb, Halfway
  <2> QED  BY <2>1, <2>3 DEF Has, Cols, Migrate!There
<1>9. WholeOrNothing'
  <2> SUFFICES ASSUME NEW i \in DOMAIN Scripts,
                      \A q \in Procs : Mid(q)' => proc'[q].script # i,
                      NEW k \in DOMAIN Scripts[i], NEW l \in DOMAIN Scripts[i],
                      Scripts[i][k].op = "add", Scripts[i][l].op = "add"
               PROVE  Has(Scripts[i][k])' <=> Has(Scripts[i][l])'
    BY DEF WholeOrNothing
  <2>1. CASE \A q \in Procs : Mid(q) => proc[q].script # i
    BY <1>2, <2>1 DEF OldDb, WholeOrNothing
  <2>2. CASE \E q \in Procs : Mid(q) /\ proc[q].script = i
    <3>1. PICK q \in Procs : Mid(q) /\ proc[q].script = i
      BY <2>2
    <3>2. proc'[q] # proc[q]
      BY <3>1 DEF Mid
    <3> QED  BY <1>2, <3>1, <3>2
  <2> QED  BY <2>1, <2>2
<1>10. RebuiltInTime'
  <2> SUFFICES ASSUME NEW q \in Procs, Migrate!Rebuilding(q)'
               PROVE  (LET t == Migrate!Statement(q).table
                       IN  Cols(t) \subseteq Migrate!UpTo(proc[q].script, t))'
    BY DEF RebuiltInTime
  <2>1. proc'[q] = proc[q] /\ Migrate!Rebuilding(q)
    BY DEF Migrate!Rebuilding, Mid
  <2> QED  BY <2>1 DEF OldDb, RebuiltInTime, Cols, Migrate!There, Migrate!Statement
<1>11. ASSUME \A i \in DOMAIN Scripts : Through(i)' => Through(i)
       PROVE  ThroughIsDone'
  <2> SUFFICES ASSUME NEW i \in DOMAIN Scripts, Through(i)'
               PROVE  IF Scripts[i][1].op = "add" THEN Has(Scripts[i][1])'
                      ELSE \A t \in Tables : Migrate!Brings(i, t) \subseteq Cols(t)'
    BY DEF ThroughIsDone
  <2>1. IF Scripts[i][1].op = "add" THEN Has(Scripts[i][1])
        ELSE \A t \in Tables : Migrate!Brings(i, t) \subseteq Cols(t)
    BY <1>11 DEF OldDb, ThroughIsDone
  <2> QED  BY <1>1, <1>2, <2>1, FirstAdds
<1> QED  BY <1>5, <1>6, <1>7, <1>8, <1>9, <1>10, <1>11

\* Every step but those of a script itself.
LEMMA OldDbKept ==
  ASSUME MTyped, MTyped', OldDb, ~torn', NEW p \in Procs,
         \/ Migrate!Open(p) \/ Migrate!NextScript(p) \/ Migrate!Mark(p)
         \/ Migrate!Create(p) \/ Migrate!EndSchema(p) \/ Migrate!Dies(p)
  PROVE  OldDb'
<1>0. /\ proc[p] \in ProcRecord /\ proc \in [Procs -> ProcRecord] /\ Tables # {}
      /\ \A i \in DOMAIN Scripts : i \in Nat \ {0}
  BY ScriptTypes DEF MTyped, OldDb
<1>1. ~Migrate!Create(p)
  <2> SUFFICES ASSUME Migrate!Create(p) PROVE FALSE
    OBVIOUS
  <2>1. PICK t \in Tables : ~Migrate!There(t)
    BY DEF Migrate!Create
  <2>2. PICK q \in Procs : Swapping(q)
    BY <2>1 DEF OldDb, TablesThere
  <2>3. q # p /\ Migrate!Rebuilding(q)
    BY <2>2, SwappingIsRebuilding DEF Migrate!Create, Swapping
  <2> QED  BY <2>3 DEF Migrate!Create
<1>2. \A t \in Tables : Migrate!There(t) \/ scratch[t] # Migrate!Absent
  <2> SUFFICES ASSUME NEW t \in Tables, ~Migrate!There(t) PROVE scratch[t] # Migrate!Absent
    OBVIOUS
  <2>1. PICK q \in Procs : Swapping(q) /\ Migrate!Statement(q).table = t
    BY DEF OldDb, TablesThere
  <2>2. scratch[t] = [cols |-> Migrate!UpTo(proc[q].script, t), rows |-> TRUE]
    <3>1. TablesThere  BY DEF OldDb
    <3> QED  BY <2>1, <3>1 DEF TablesThere
  <2> QED  BY <2>2 DEF Migrate!Absent
<1>3. ASSUME \A q \in Procs \ {p} : proc'[q] = proc[q],
             UNCHANGED <<tab, scratch>>, marks \subseteq marks',
             ~Mid(p), ~Mid(p)',
             \A i \in DOMAIN Scripts : Through(i)' => Through(i),
             proc'[p].at # "fresh" /\ proc'[p].applied \subseteq marks',
             \A i \in DOMAIN Scripts :
               /\ proc'[p].at \in {"script", "marking"} /\ i < proc'[p].script => i \in marks'
               /\ proc'[p].at = "loop" /\ i <= proc'[p].script => i \in marks'
      PROVE  OldDb'
  <2>1. \A q \in Procs : (Mid(q) \/ Mid(q)') => proc'[q] = proc[q]
    BY <1>3
  <2>2. InOrder'
    BY <1>3 DEF OldDb, InOrder
  <2> QED  BY <1>0, <1>3, <2>1, <2>2, BookKept DEF OldDb
<1>4. ASSUME proc'[p].at # "marking", UNCHANGED marks, \A q \in Procs \ {p} : proc'[q] = proc[q],
             NEW i \in DOMAIN Scripts, Through(i)'
      PROVE  Through(i)
  BY <1>4 DEF Through
<1>5. CASE Migrate!Open(p)
  <2>1. /\ proc'[p].at = "loop" /\ proc'[p].applied = marks /\ proc'[p].script = 0
        /\ \A q \in Procs \ {p} : proc'[q] = proc[q]
    BY <1>0, <1>2, <1>5 DEF Migrate!Open, Migrate!Off
  <2>2. ~Mid(p) /\ ~Mid(p)'
    BY <1>5, <2>1 DEF Mid, Migrate!Open
  <2>3. \A i \in DOMAIN Scripts : ~(i <= proc'[p].script)
    BY <1>0, <2>1
  <2>4. UNCHANGED <<tab, scratch, marks>>  BY <1>5 DEF Migrate!Open
  <2>5. \A i \in DOMAIN Scripts : Through(i)' => Through(i)
    BY <1>4, <2>1, <2>4
  <2> QED  BY <1>3, <2>1, <2>2, <2>3, <2>4, <2>5
<1>6. CASE Migrate!NextScript(p)
  <2>1. /\ proc[p].at = "loop" /\ UNCHANGED <<tab, scratch, marks>>
        /\ proc[p].applied \subseteq marks
        /\ \A i \in DOMAIN Scripts : i <= proc[p].script => i \in marks
    BY <1>6 DEF Migrate!NextScript, OldDb, InOrder
  <2>2. CASE Migrate!Pending(p) = {}
    <3>1. /\ proc'[p].at = "schema" /\ proc'[p].applied = proc[p].applied
          /\ \A q \in Procs \ {p} : proc'[q] = proc[q]
      BY <1>0, <1>6, <2>2 DEF Migrate!NextScript, Migrate!Goes, ProcRecord
    <3>2. ~Mid(p) /\ ~Mid(p)'
      BY <2>1, <3>1 DEF Mid
    <3>3. \A i \in DOMAIN Scripts : Through(i)' => Through(i)
      BY <1>4, <2>1, <3>1
    <3> QED  BY <1>3, <2>1, <3>1, <3>2, <3>3
  <2>3. CASE Migrate!Pending(p) # {}
    <3> DEFINE m == Migrate!Lowest(Migrate!Pending(p))
    <3>1. /\ proc'[p].at = "script" /\ proc'[p].applied = proc[p].applied
          /\ proc'[p].script = m /\ proc'[p].pc = 1
          /\ \A q \in Procs \ {p} : proc'[q] = proc[q]
      BY <1>0, <1>6, <2>3 DEF Migrate!NextScript, ProcRecord
    <3>2. ~Mid(p) /\ ~Mid(p)'
      BY <2>1, <3>1 DEF Mid
    <3>3. \A i \in DOMAIN Scripts : Through(i)' => Through(i)
      BY <1>4, <2>1, <3>1
    <3>4. ASSUME NEW i \in DOMAIN Scripts, i < m PROVE i \in marks
      <4>1. m \in Nat /\ \A j \in Migrate!Pending(p) : m <= j
        BY <1>0, <2>3, LowestPending
      <4>2. i \notin Migrate!Pending(p)
        BY <1>0, <3>4, <4>1
      <4>3. proc[p].script \in Nat  BY <1>0 DEF ProcRecord
      <4>4. i <= proc[p].script \/ i \in proc[p].applied
        BY <1>0, <4>2, <4>3 DEF Migrate!Pending
      <4> QED  BY <2>1, <4>4
    <3> HIDE DEF m
    <3> QED  BY <1>3, <2>1, <3>1, <3>2, <3>3, <3>4
  <2> QED  BY <2>2, <2>3
<1>7. CASE Migrate!Mark(p)
  <2> DEFINE j == proc[p].script
  <2>1. /\ proc[p].at = "marking" /\ UNCHANGED <<tab, scratch>> /\ marks' = marks \cup {j}
        /\ proc'[p].at = "loop" /\ proc'[p].applied = proc[p].applied /\ proc'[p].script = j
        /\ \A q \in Procs \ {p} : proc'[q] = proc[q]
    BY <1>0, <1>7 DEF Migrate!Mark, Migrate!Goes, ProcRecord
  <2>2. ~Mid(p) /\ ~Mid(p)'
    BY <2>1 DEF Mid
  <2>3. \A i \in DOMAIN Scripts : Through(i)' => Through(i)
    BY <2>1 DEF Through
  <2>4. proc[p].applied \subseteq marks /\ \A i \in DOMAIN Scripts : i < j => i \in marks
    BY <2>1 DEF OldDb, InOrder
  <2>5. ASSUME NEW i \in DOMAIN Scripts, i <= j PROVE i \in marks'
    <3>1. j \in Nat  BY <1>0 DEF ProcRecord
    <3>2. i < j \/ i = j  BY <1>0, <2>5, <3>1
    <3> QED  BY <2>1, <2>4, <3>2
  <2> QED  BY <1>3, <2>1, <2>2, <2>3, <2>4, <2>5
<1>8. CASE Migrate!EndSchema(p) \/ Migrate!Dies(p)
  <2>1. /\ proc'[p].at = "off" /\ proc'[p].applied = {} /\ UNCHANGED <<tab, scratch>>
        /\ \A q \in Procs \ {p} : proc'[q] = proc[q]
    BY <1>0, <1>8 DEF Migrate!EndSchema, Migrate!Dies, Migrate!Off
  <2>2. UNCHANGED marks
    BY <1>8 DEF Migrate!EndSchema, Migrate!Dies, OldDb, InOrder
  <2>3. ~Mid(p) /\ ~Mid(p)'
    BY <1>8, <2>1 DEF Mid, Migrate!EndSchema, Migrate!Dies
  <2>4. \A i \in DOMAIN Scripts : Through(i)' => Through(i)
    BY <1>4, <2>1, <2>2
  <2> QED  BY <1>3, <2>1, <2>2, <2>3, <2>4
<1> QED  BY <1>1, <1>5, <1>6, <1>7, <1>8

-----------------------------------------------------------------------------
\* Where the tables are when a program runs a statement that is not cut off from
\* the others.
LEMMA TablesOfStep ==
  ASSUME MTyped, OldDb, ~torn', NEW p \in Procs, Migrate!Execute(p)
  PROVE  LET s == Migrate!Statement(p)
             t == s.table
             i == proc[p].script
         IN  /\ \A q \in Procs \ {p} : ~Migrate!Rebuilding(q) /\ ~Swapping(q)
             /\ \A u \in Tables : u # t \/ s.op \notin {"drop", "rename"} =>
                  Migrate!There(u) /\ tab[u].rows /\ scratch[u] = Migrate!Absent
             /\ s.op \in {"drop", "rename"} =>
                  /\ Mid(p) /\ Migrate!Rebuilding(p) /\ s.cols = {} /\ s.needs = {}
                  /\ scratch[t] = [cols |-> Migrate!UpTo(i, t), rows |-> TRUE]
             /\ s.op = "rename" => tab[t] = Migrate!Absent
             /\ s.op = "drop" => /\ Migrate!There(t) /\ tab[t].rows
                                 /\ Migrate!UpTo(i, t) \ tab[t].cols \subseteq Migrate!Brings(i, t)
<1> DEFINE s == Migrate!Statement(p)
           t == s.table
           i == proc[p].script
<1>0. proc[p].at = "script" /\ TablesThere
  BY Executes DEF OldDb
<1>1. \A q \in Procs \ {p} : ~Migrate!Rebuilding(q) /\ ~Swapping(q)
  BY Executes, SwappingIsRebuilding
<1>2. Swapping(p) <=> s.op \in {"drop", "rename"}
  BY <1>0 DEF Swapping
<1>3. ASSUME NEW u \in Tables, u # t \/ s.op \notin {"drop", "rename"}
      PROVE  Migrate!There(u) /\ tab[u].rows /\ scratch[u] = Migrate!Absent
  <2>1. \A q \in Procs : Swapping(q) => Migrate!Statement(q).table # u
    BY <1>1, <1>2, <1>3
  <2> QED  BY <1>0, <2>1 DEF TablesThere
<1>4. ASSUME s.op \in {"drop", "rename"}
      PROVE  /\ Mid(p) /\ Migrate!Rebuilding(p) /\ s.cols = {} /\ s.needs = {}
             /\ scratch[t] = [cols |-> Migrate!UpTo(i, t), rows |-> TRUE]
             /\ s.op = "rename" => tab[t] = Migrate!Absent
             /\ s.op = "drop" => /\ Migrate!There(t) /\ tab[t].rows
                                 /\ Migrate!UpTo(i, t) \ tab[t].cols \subseteq Migrate!Brings(i, t)
  <2>1. Mid(p) /\ Migrate!Rebuilding(p) /\ Migrate!Rebuilds(i)
    BY <1>2, <1>4, SwappingIsRebuilding
  <2>2. /\ proc[p].pc \in {Len(Scripts[i]) - 1, Len(Scripts[i])} /\ s = Scripts[i][proc[p].pc]
    BY <1>0, <1>4, Executing, StatementPlaces
  <2>3. s.cols = {} /\ s.needs = {}
    BY <2>1, <2>2 DEF Migrate!Rebuilds
  <2> QED  BY <1>0, <1>2, <1>4, <2>1, <2>3 DEF TablesThere
<1> QED  BY <1>1, <1>3, <1>4

LEMMA InOrderStays ==
  ASSUME MTyped, OldDb, NEW p \in Procs, Migrate!Execute(p)
  PROVE  InOrder'
<1>0. /\ InOrder /\ UNCHANGED marks /\ proc[p].at = "script"
      /\ \A q \in Procs \ {p} : proc'[q] = proc[q]
  BY Executes DEF OldDb
<1>1. CASE proc'[p] = Migrate!Off
  BY <1>0, <1>1 DEF InOrder, Migrate!Off
<1>2. CASE /\ proc'[p].at \in {"script", "marking"} /\ proc'[p].script = proc[p].script
           /\ proc'[p].applied = proc[p].applied
  BY <1>0, <1>2 DEF InOrder
<1> QED  BY <1>1, <1>2, Executes

\* A statement fails when its column is there, or before anything was changed.
LEMMA OldDbNotDone ==
  ASSUME MTyped, MTyped', OldDb, ~torn', NEW p \in Procs, Migrate!Execute(p),
         Migrate!Outcome(Migrate!Statement(p)) # "done"
  PROVE  OldDb'
<1> DEFINE s == Migrate!Statement(p)
           t == s.table
           i == proc[p].script
           k == proc[p].pc
<1>1. /\ proc[p].at = "script" /\ UNCHANGED <<tab, scratch, marks>>
      /\ \A q \in Procs \ {p} : proc'[q] = proc[q]
      /\ \/ Migrate!SafeToSkip(Migrate!Outcome(s)) /\ proc'[p].at = "marking" /\ proc'[p].script = i
         \/ ~Migrate!SafeToSkip(Migrate!Outcome(s)) /\ proc'[p] = Migrate!Off
  BY Executes
<1>2. /\ i \in DOMAIN Scripts /\ k \in DOMAIN Scripts[i] /\ s = Scripts[i][k] /\ t \in Tables
      /\ k \in 1 .. Len(Scripts[i]) /\ Len(Scripts[i]) \in Nat
      /\ s.op \in {"add", "copy", "drop", "rename", "atomic"}
  BY <1>1, Executing
<1>3. s.op \notin {"drop", "rename"}
  <2>1. ASSUME s.op = "rename" PROVE FALSE
    <3>1. tab[t] = Migrate!Absent /\ scratch[t] = [cols |-> Migrate!UpTo(i, t), rows |-> TRUE]
      BY <2>1, TablesOfStep
    <3>2. tab[t].cols = {} /\ scratch[t] # Migrate!Absent
      BY <3>1 DEF Migrate!Absent
    <3> QED  BY <2>1, <3>2 DEF Migrate!Outcome
  <2>2. ASSUME s.op = "drop" PROVE FALSE
    <3>1. tab[t].cols # {} /\ s.needs = {}
      BY <2>2, TablesOfStep DEF Migrate!There
    <3> QED  BY <2>2, <3>1 DEF Migrate!Outcome
  <2> QED  BY <2>1, <2>2
<1>4. Migrate!There(t)
  BY <1>2, <1>3, TablesOfStep
<1>5. ~Mid(p)' /\ \A q \in Procs : Mid(q)' => proc'[q] = proc[q]
  BY <1>1 DEF Mid, Migrate!Off
<1>6. ~Swapping(p)
  BY <1>3 DEF Swapping
<1>7. InOrder'  BY InOrderStays
<1>8. CASE s.op = "add"
  <2>1. s.needs = {}  BY <1>2, <1>8, StatementPlaces DEF Migrate!Adds
  <2>2. s.cols \subseteq tab[t].cols /\ Migrate!Outcome(s) = "duplicate column"
    BY <1>4, <1>8, <2>1 DEF Migrate!Outcome, Migrate!There
  <2>3. Has(s)  BY <1>4, <2>2 DEF Has, Cols
  <2>4. ~Mid(p)
    BY <1>2, <1>8, <2>3 DEF OldDb, Halfway
  <2>5. k = 1 /\ s = Scripts[i][1]
    BY <1>1, <1>2, <2>4 DEF Mid
  <2>6. \A q \in Procs : Mid(q) => proc'[q] = proc[q]
    BY <1>1, <2>4
  <2>7. TablesThere' /\ Alone' /\ Grown' /\ Halfway' /\ WholeOrNothing' /\ RebuiltInTime'
    BY <1>1, <1>5, <2>6, BookKept
  <2>8. ThroughIsDone'
    <3> SUFFICES ASSUME NEW j \in DOMAIN Scripts, Through(j)'
                 PROVE  IF Scripts[j][1].op = "add" THEN Has(Scripts[j][1])'
                        ELSE \A u \in Tables : Migrate!Brings(j, u) \subseteq Cols(u)'
      BY DEF ThroughIsDone
    <3>1. IF Scripts[j][1].op = "add" THEN Has(Scripts[j][1])
          ELSE \A u \in Tables : Migrate!Brings(j, u) \subseteq Cols(u)
      <4>1. CASE Through(j)  BY <4>1 DEF OldDb, ThroughIsDone
      <4>2. CASE ~Through(j)
        <5>1. j = i  BY <1>1, <4>2, <1>1 DEF Through, Migrate!Off
        <5> QED  BY <1>8, <2>3, <2>5, <5>1
      <4> QED  BY <4>1, <4>2
    <3> QED  BY <1>1, <3>1 DEF Has, Cols, Migrate!There
  <2> QED  BY <1>7, <2>7, <2>8 DEF OldDb
<1>9. CASE s.op \in {"copy", "atomic"}
  <2>1. Migrate!Outcome(s) = "no such column"
    BY <1>4, <1>9 DEF Migrate!Outcome, Migrate!There
  <2>2. proc'[p] = Migrate!Off
    BY <1>1, <2>1 DEF Migrate!SafeToSkip
  <2>3. ASSUME Mid(p), NEW l \in DOMAIN Scripts[i], Scripts[i][l].op = "add"
        PROVE  Has(Scripts[i][l])
    <3>1. s.op = "copy"
      BY <1>2, <1>9, <2>3, StatementPlaces DEF Mid
    <3>2. k = Len(Scripts[i]) - 2 /\ Migrate!Rebuilds(i)
      BY <1>2, <3>1, StatementPlaces
    <3>3. l \in Nat /\ l <= Len(Scripts[i]) - 3
      BY <1>2, <2>3, <3>2, StatementPlaces
    <3>4. l < k  BY <1>2, <3>2, <3>3
    <3> QED  BY <2>3, <3>4 DEF OldDb, Halfway
  <2>4. \A j \in DOMAIN Scripts : Through(j)' => Through(j)
    BY <1>1, <2>2 DEF Through, Migrate!Off
  <2>5. \A q \in Procs : Mid(q) =>
          \/ proc'[q] = proc[q]
          \/ /\ ~Swapping(q)
             /\ \A l \in DOMAIN Scripts[proc[q].script] :
                  Scripts[proc[q].script][l].op = "add" => Has(Scripts[proc[q].script][l])
    BY <1>1, <1>6, <2>3
  <2> QED  BY <1>1, <1>5, <1>7, <2>4, <2>5, BookKept DEF OldDb
<1> QED  BY <1>2, <1>3, <1>8, <1>9

\* After a statement: who is about to drop or rename.
LEMMA SwappingAfter ==
  ASSUME MTyped, OldDb, ~torn', NEW p \in Procs, Migrate!Execute(p),
         Migrate!Outcome(Migrate!Statement(p)) = "done"
  PROVE  LET s == Migrate!Statement(p)
         IN  /\ \A q \in Procs \ {p} : ~Swapping(q)' /\ ~Migrate!Rebuilding(q)'
             /\ Swapping(p)' <=> s.op \in {"copy", "drop"}
             /\ Swapping(p)' => /\ Migrate!Statement(p)'.table = s.table
                                /\ Migrate!Statement(p)'.op =
                                     IF s.op = "copy" THEN "drop" ELSE "rename"
             /\ Migrate!Rebuilding(p)' =>
                  /\ Migrate!Statement(p)'.table = s.table /\ Migrate!Rebuilds(proc[p].script)
                  /\ \E k \in DOMAIN Scripts[proc[p].script] :
                                       Scripts[proc[p].script][k].op = "copy"
<1> DEFINE s == Migrate!Statement(p)
           i == proc[p].script
           k == proc[p].pc
           n == Len(Scripts[i])
<1>1. /\ \A q \in Procs \ {p} : proc'[q] = proc[q]
      /\ proc[p].at = "script"
      /\ proc'[p].at = (IF k = n THEN "marking" ELSE "script")
      /\ proc'[p].script = i /\ proc'[p].pc = k + 1
  BY Executes DEF Migrate!SafeToSkip
<1>2. /\ i \in DOMAIN Scripts /\ k \in DOMAIN Scripts[i] /\ s = Scripts[i][k]
      /\ k \in 1 .. n /\ n \in Nat /\ DOMAIN Scripts[i] = 1 .. n
      /\ s.op \in {"add", "copy", "drop", "rename", "atomic"}
  BY <1>1, Executing, ScriptTypes
<1>3. \A q \in Procs \ {p} : ~Swapping(q)' /\ ~Migrate!Rebuilding(q)'
  <2>1. \A q \in Procs \ {p} : ~Swapping(q) /\ ~Migrate!Rebuilding(q)
    BY TablesOfStep
  <2> QED  BY <1>1, <2>1 DEF Swapping, Migrate!Rebuilding, Migrate!Statement
<1>4. CASE k = n
  <2>1. ~Swapping(p)' /\ ~Migrate!Rebuilding(p)'
    BY <1>1, <1>4 DEF Swapping, Migrate!Rebuilding
  <2>2. s.op \notin {"copy", "drop"}
    BY <1>2, <1>4, StatementPlaces
  <2> QED  BY <1>3, <2>1, <2>2
<1>5. CASE k # n
  <2>1. proc'[p].at = "script" /\ k + 1 \in 1 .. n /\ Migrate!Statement(p)' = Scripts[i][k + 1]
    BY <1>1, <1>2, <1>5 DEF Migrate!Statement
  <2>2. Swapping(p)' <=> Scripts[i][k + 1].op \in {"drop", "rename"}
    BY <2>1 DEF Swapping
  <2>3. /\ s.op = "copy" => Scripts[i][k + 1].op = "drop"
        /\ s.op = "drop" => Scripts[i][k + 1].op = "rename"
    <3>1. /\ s.op = "copy" => Migrate!Rebuilds(i) /\ k = n - 2
          /\ s.op = "drop" => Migrate!Rebuilds(i) /\ k = n - 1
      BY <1>2, StatementPlaces
    <3>2. Migrate!Rebuilds(i) => Scripts[i][n - 1].op = "drop" /\ Scripts[i][n].op = "rename"
      BY DEF Migrate!Rebuilds
    <3>3. (k = n - 2 => k + 1 = n - 1) /\ (k = n - 1 => k + 1 = n)
      BY <1>2
    <3>4. CASE s.op = "copy"  BY <3>1, <3>2, <3>3, <3>4
    <3>5. CASE s.op = "drop"  BY <3>1, <3>2, <3>3, <3>5
    <3> QED  BY <3>4, <3>5
  <2>4. Scripts[i][k + 1].op \in {"drop", "rename"} => s.op \in {"copy", "drop"}
    <3> SUFFICES ASSUME Scripts[i][k + 1].op \in {"drop", "rename"}
                 PROVE  s.op \in {"copy", "drop"}
      OBVIOUS
    <3>1. Migrate!Rebuilds(i) /\ k + 1 \in {n - 1, n}
      BY <1>2, <2>1, StatementPlaces
    <3>2. k = n - 2 \/ k = n - 1
      BY <1>2, <3>1
    <3> QED  BY <1>2, <3>1, <3>2 DEF Migrate!Rebuilds
  <2>5. Migrate!Rebuilds(i) => Scripts[i][k + 1].table = s.table
    BY <1>2, <2>1 DEF Migrate!Rebuilds
  <2>6. s.op \in {"copy", "drop"} => Migrate!Rebuilds(i)
    BY <1>2, StatementPlaces
  <2>7. ASSUME Migrate!Rebuilding(p)'
        PROVE  Migrate!Rebuilds(i) /\ \E l \in DOMAIN Scripts[i] : Scripts[i][l].op = "copy"
    <3>1. PICK l \in DOMAIN Scripts[i] : Scripts[i][l].op = "copy"
      BY <1>1, <2>7 DEF Migrate!Rebuilding
    <3> QED  BY <1>2, <3>1, StatementPlaces
  <2> QED  BY <1>3, <2>1, <2>2, <2>3, <2>4, <2>5, <2>6, <2>7
<1> QED  BY <1>4, <1>5

\* A statement s of script i is carried out on the table t: it takes no column
\* away and brings those of its script.
Carried(s, t, i) ==
  /\ \A u \in Tables : /\ Cols(u) \subseteq Cols(u)'
                       /\ Cols(u)' \ Cols(u) \subseteq Migrate!Brings(i, u)
  /\ \A u \in Tables : u # t \/ s.op \notin {"copy", "drop"} =>
       tab'[u].cols # {} /\ tab'[u].rows /\ scratch'[u] = Migrate!Absent
  /\ s.op \in {"copy", "drop"} => scratch'[t] = [cols |-> Migrate!UpTo(i, t), rows |-> TRUE]
  /\ s.op = "copy" => /\ tab'[t].cols # {} /\ tab'[t].rows
                      /\ Migrate!UpTo(i, t) \ tab'[t].cols \subseteq Migrate!Brings(i, t)
  /\ s.op = "drop" => tab'[t] = Migrate!Absent
  /\ s.op = "add" => /\ ~Has(s) /\ Cols(t)' = Cols(t) \cup s.cols
                     /\ \A u \in Tables \ {t} : Cols(u)' = Cols(u)
  /\ s.op = "rename" => Migrate!UpTo(i, t) \subseteq Cols(t)'
  /\ s.op = "copy" => Cols(t)' = tab[t].cols

LEMMA DoneColumns ==
  ASSUME MTyped, OldDb, ~torn', NEW p \in Procs, Migrate!Execute(p),
         Migrate!Outcome(Migrate!Statement(p)) = "done",
         NEW s, NEW t, NEW i, s = Migrate!Statement(p), t = s.table, i = proc[p].script
  PROVE  Carried(s, t, i)
<1> DEFINE k == proc[p].pc
<1>1. /\ i \in DOMAIN Scripts /\ k \in DOMAIN Scripts[i] /\ s = Scripts[i][k] /\ t \in Tables
      /\ s.op \in {"add", "copy", "drop", "rename", "atomic"}
  BY Executes, Executing
<1>2. Migrate!Effect(s) /\ tab \in [Tables -> TableRecord] /\ scratch \in [Tables -> TableRecord]
  BY Executes DEF MTyped, Migrate!SafeToSkip
<1>3. \A u \in Tables : u # t \/ s.op \notin {"drop", "rename"} =>
        tab[u].cols # {} /\ tab[u].rows /\ scratch[u] = Migrate!Absent
  BY TablesOfStep DEF Migrate!There
<1>4. Migrate!UpTo(i, t) # {}  BY <1>1, ScriptsApart
<1> DEFINE Grows == \A u \in Tables : /\ Cols(u) \subseteq Cols(u)'
                                      /\ Cols(u)' \ Cols(u) \subseteq Migrate!Brings(i, u)
           Stand == \A u \in Tables : u # t \/ s.op \notin {"copy", "drop"} =>
                      tab'[u].cols # {} /\ tab'[u].rows /\ scratch'[u] = Migrate!Absent
<1>5. CASE s.op = "add"
  <2>1. tab' = [tab EXCEPT ![t].cols = @ \cup s.cols] /\ scratch' = scratch
    BY <1>2, <1>5 DEF Migrate!Effect
  <2>2. \A u \in Tables : /\ tab'[u].cols = (IF u = t THEN tab[t].cols \cup s.cols ELSE tab[u].cols)
                          /\ tab[u].rows => tab'[u].rows
    BY <1>2, <2>1 DEF TableRecord
  <2>3. \A u \in Tables : Cols(u) = tab[u].cols /\ Cols(u)' = tab'[u].cols
    BY <1>3, <1>5, <2>2 DEF Cols, Migrate!There
  <2>4. ~(s.cols \subseteq tab[t].cols)
    BY <1>1, <1>3, <1>5 DEF Migrate!Outcome
  <2>5. s.cols \subseteq Migrate!Brings(i, t)
    BY <1>1, <1>5, AddBrings
  <2>6. Cols(t)' = Cols(t) \cup s.cols /\ \A u \in Tables \ {t} : Cols(u)' = Cols(u)
    <3>1. Cols(t) = tab[t].cols /\ Cols(t)' = tab'[t].cols  BY <1>1, <2>3
    <3>2. tab'[t].cols = tab[t].cols \cup s.cols  BY <1>1, <2>2
    <3>3. ASSUME NEW u \in Tables \ {t} PROVE Cols(u)' = Cols(u)
      <4>1. Cols(u) = tab[u].cols /\ Cols(u)' = tab'[u].cols  BY <2>3
      <4>2. tab'[u].cols = tab[u].cols  BY <2>2
      <4> QED  BY <4>1, <4>2
    <3> QED  BY <3>1, <3>2, <3>3
  <2>7. Grows
    <3> SUFFICES ASSUME NEW u \in Tables
                 PROVE  Cols(u) \subseteq Cols(u)' /\ Cols(u)' \ Cols(u) \subseteq Migrate!Brings(i, u)
      OBVIOUS
    <3>1. CASE u = t  BY <2>5, <2>6, <3>1
    <3>2. CASE u # t  BY <2>6, <3>2
    <3> QED  BY <3>1, <3>2
  <2>8. Stand
    <3> SUFFICES ASSUME NEW u \in Tables
                 PROVE  tab'[u].cols # {} /\ tab'[u].rows /\ scratch'[u] = Migrate!Absent
      OBVIOUS
    <3>1. tab[u].cols # {} /\ tab[u].rows /\ scratch[u] = Migrate!Absent
      BY <1>3, <1>5
    <3>2. tab[u].cols \subseteq tab'[u].cols  BY <2>2
    <3> QED  BY <2>1, <2>2, <3>1, <3>2
  <2>9. ~Has(s)
    <3>1. Cols(t) = tab[t].cols  BY <1>1, <2>3
    <3> QED  BY <2>4, <3>1 DEF Has
  <2> QED  BY <1>5, <2>6, <2>7, <2>8, <2>9 DEF Carried
<1>6. CASE s.op = "atomic"
  <2>1. s.cols = FullCols[t] /\ s.needs = s.cols
    <3>1. Migrate!IsAtomic(i) /\ k = 1  BY <1>1, <1>6, StatementPlaces
    <3> QED  BY <1>1, <3>1 DEF Migrate!IsAtomic
  <2>2. s.needs \subseteq tab[t].cols
    BY <1>1, <1>3, <1>6 DEF Migrate!Outcome
  <2>3. Cols(t) = tab[t].cols /\ Cols(t) \subseteq FullCols[t]
    BY <1>1, <1>3, <1>6 DEF Cols, Migrate!There, OldDb, Grown
  <2>4. tab' = [tab EXCEPT ![t] = [cols |-> s.cols, rows |-> tab[t].rows]] /\ scratch' = scratch
    BY <1>2, <1>6 DEF Migrate!Effect
  <2>5. tab[t] = [cols |-> s.cols, rows |-> tab[t].rows]
    <3>1. s.cols \subseteq tab[t].cols  BY <2>1, <2>2
    <3>2. tab[t].cols \subseteq s.cols  BY <2>1, <2>3
    <3>3. s.cols = tab[t].cols  BY <3>1, <3>2
    <3> QED  BY <1>1, <3>3, TablesAre
  <2>6. tab' = tab
    BY <1>1, <1>2, <2>4, <2>5
  <2>7. \A u \in Tables : Cols(u)' = Cols(u)
    BY <2>4, <2>6 DEF Cols, Migrate!There
  <2> QED  BY <1>3, <1>6, <2>4, <2>6, <2>7 DEF Carried
<1>7. CASE s.op = "copy"
  <2>1. s.cols = Migrate!UpTo(i, t) /\ s.cols \ s.needs \subseteq Migrate!Brings(i, t)
    BY <1>1, <1>7, CopyBrings
  <2>2. s.needs \subseteq tab[t].cols
    BY <1>1, <1>3, <1>7 DEF Migrate!Outcome
  <2>3. scratch' = [scratch EXCEPT ![t] = [cols |-> s.cols, rows |-> tab[t].rows]] /\ tab' = tab
    BY <1>2, <1>7 DEF Migrate!Effect
  <2>4. tab[t].rows = TRUE
    <3>1. tab[t].rows \in BOOLEAN  BY <1>1, <1>2 DEF TableRecord
    <3>2. tab[t].rows  BY <1>1, <1>3, <1>7
    <3> QED  BY <3>1, <3>2
  <2>5. /\ scratch'[t] = [cols |-> Migrate!UpTo(i, t), rows |-> TRUE]
        /\ \A u \in Tables \ {t} : scratch'[u] = scratch[u]
    BY <1>1, <1>2, <2>1, <2>3, <2>4
  <2>6. \A u \in Tables : Cols(u)' = Cols(u) /\ Cols(u) = tab[u].cols
    BY <1>3, <1>7, <2>3 DEF Cols, Migrate!There
  <2>7. Grows  BY <2>6
  <2>8. Stand  BY <1>3, <1>7, <2>3, <2>5
  <2>9. /\ tab'[t].cols # {} /\ tab'[t].rows
        /\ Migrate!UpTo(i, t) \ tab'[t].cols \subseteq Migrate!Brings(i, t)
    BY <1>1, <1>3, <1>7, <2>1, <2>2, <2>3
  <2>10. Cols(t)' = tab[t].cols  BY <1>1, <2>6
  <2> QED  BY <1>7, <2>5, <2>7, <2>8, <2>9, <2>10 DEF Carried
<1>8. CASE s.op = "drop"
  <2>1. tab' = [tab EXCEPT ![t] = Migrate!Absent] /\ scratch' = scratch
    BY <1>2, <1>8 DEF Migrate!Effect
  <2>2. /\ Migrate!Rebuilding(p) /\ scratch[t] = [cols |-> Migrate!UpTo(i, t), rows |-> TRUE]
        /\ Migrate!There(t) /\ Migrate!UpTo(i, t) \ tab[t].cols \subseteq Migrate!Brings(i, t)
    BY <1>8, TablesOfStep
  <2>3. Cols(t) = tab[t].cols /\ Cols(t) \subseteq Migrate!UpTo(i, t)
    BY <2>2 DEF Cols, OldDb, RebuiltInTime
  <2>4. tab'[t] = Migrate!Absent /\ \A u \in Tables \ {t} : tab'[u] = tab[u]
    BY <1>1, <1>2, <2>1
  <2>5. Cols(t)' = Migrate!UpTo(i, t)
    BY <2>1, <2>2, <2>4 DEF Cols, Migrate!There, Migrate!Absent
  <2>6. \A u \in Tables \ {t} : Cols(u)' = Cols(u)
    BY <2>1, <2>4 DEF Cols, Migrate!There
  <2>7. Grows  BY <2>2, <2>3, <2>5, <2>6
  <2>8. Stand  BY <1>3, <1>8, <2>1, <2>4
  <2> QED  BY <1>8, <2>1, <2>2, <2>4, <2>7, <2>8 DEF Carried
<1>9. CASE s.op = "rename"
  <2>1. tab' = [tab EXCEPT ![t] = scratch[t]] /\ scratch' = [scratch EXCEPT ![t] = Migrate!Absent]
    BY <1>2, <1>9 DEF Migrate!Effect
  <2>2. scratch[t] = [cols |-> Migrate!UpTo(i, t), rows |-> TRUE] /\ tab[t] = Migrate!Absent
    BY <1>9, TablesOfStep
  <2>3. /\ tab'[t] = [cols |-> Migrate!UpTo(i, t), rows |-> TRUE] /\ scratch'[t] = Migrate!Absent
        /\ \A u \in Tables \ {t} : tab'[u] = tab[u] /\ scratch'[u] = scratch[u]
    BY <1>1, <1>2, <2>1, <2>2
  <2>4. Cols(t) = Migrate!UpTo(i, t)
    BY <2>2 DEF Cols, Migrate!There, Migrate!Absent
  <2>5. tab'[t].cols = Migrate!UpTo(i, t) /\ tab'[t].rows = TRUE
    BY <2>3
  <2>6. Cols(t)' = Migrate!UpTo(i, t)
    BY <1>4, <2>5 DEF Cols, Migrate!There
  <2>7. \A u \in Tables \ {t} : Cols(u)' = Cols(u)
    BY <2>3 DEF Cols, Migrate!There
  <2>8. \A u \in Tables : tab'[u].cols # {} /\ tab'[u].rows /\ scratch'[u] = Migrate!Absent
    BY <1>3, <1>4, <2>3, <2>5
  <2>9. Grows  BY <2>4, <2>6, <2>7
  <2>10. Stand  BY <2>8
  <2> QED  BY <1>9, <2>6, <2>9, <2>10 DEF Carried
<1> QED  BY <1>1, <1>5, <1>6, <1>7, <1>8, <1>9

\* A statement that is carried out.
LEMMA OldDbDone ==
  ASSUME MTyped, MTyped', OldDb, ~torn', NEW p \in Procs, Migrate!Execute(p),
         NEW s, NEW t, NEW i, NEW k, NEW n,
         s = Migrate!Statement(p), t = s.table, i = proc[p].script, k = proc[p].pc,
         n = Len(Scripts[i]), Migrate!Outcome(s) = "done"
  PROVE  OldDb'
<1>1. /\ \A q \in Procs \ {p} : proc'[q] = proc[q]
      /\ proc[p].at = "script" /\ UNCHANGED marks
      /\ proc'[p].at = (IF k = n THEN "marking" ELSE "script")
      /\ proc'[p].script = i /\ proc'[p].pc = k + 1
      /\ ~Migrate!Shrinking(p)
  BY Executes DEF Migrate!SafeToSkip
<1>2. /\ i \in DOMAIN Scripts /\ k \in DOMAIN Scripts[i] /\ s = Scripts[i][k] /\ t \in Tables
      /\ k \in 1 .. n /\ n \in Nat /\ DOMAIN Scripts[i] = 1 .. n
      /\ s.op \in {"add", "copy", "drop", "rename", "atomic"}
      /\ \A j \in DOMAIN Scripts : j \in Nat
  BY <1>1, Executing, ScriptTypes
<1>3. /\ \A u \in Tables : /\ Cols(u) \subseteq Cols(u)'
                           /\ Cols(u)' \ Cols(u) \subseteq Migrate!Brings(i, u)
      /\ \A u \in Tables : u # t \/ s.op \notin {"copy", "drop"} =>
           tab'[u].cols # {} /\ tab'[u].rows /\ scratch'[u] = Migrate!Absent
      /\ s.op \in {"copy", "drop"} => scratch'[t] = [cols |-> Migrate!UpTo(i, t), rows |-> TRUE]
      /\ s.op = "copy" => /\ tab'[t].cols # {} /\ tab'[t].rows
                          /\ Migrate!UpTo(i, t) \ tab'[t].cols \subseteq Migrate!Brings(i, t)
      /\ s.op = "drop" => tab'[t] = Migrate!Absent
      /\ s.op = "add" => /\ ~Has(s) /\ Cols(t)' = Cols(t) \cup s.cols
                         /\ \A u \in Tables \ {t} : Cols(u)' = Cols(u)
      /\ s.op = "rename" => Migrate!UpTo(i, t) \subseteq Cols(t)'
      /\ s.op = "copy" => Cols(t)' = tab[t].cols
  <2>1. Carried(s, t, i)  BY DoneColumns
  <2> QED  BY <2>1 DEF Carried
<1>4. ASSUME NEW q \in Procs \ {p}, Mid(q)
      PROVE  proc[q].script # i
  <2> SUFFICES ASSUME proc[q].script = i PROVE FALSE
    OBVIOUS
  <2>1. ~Mid(p) /\ ~Migrate!Rebuilding(q)
    <3>1. ~Migrate!Rebuilding(q)  BY TablesOfStep
    <3>2. Alone /\ p # q /\ q \in Procs  BY DEF OldDb
    <3> QED  BY <1>4, <3>1, <3>2 DEF Alone
  <2>2. k = 1
    BY <1>1, <1>2, <2>1 DEF Mid
  <2>3. proc[q].pc \in 1 .. n /\ proc[q].pc > 1
    BY <1>4 DEF Mid, MTyped, ProcRecord
  <2>4. \A l \in DOMAIN Scripts[i] : Scripts[i][l].op # "copy"
    BY <1>4, <2>1, <2>3 DEF Migrate!Rebuilding, Mid
  <2>5. ~Migrate!Rebuilds(i)
    <3> SUFFICES ASSUME Migrate!Rebuilds(i) PROVE FALSE
      OBVIOUS
    <3>1. n >= 3 /\ Scripts[i][n - 2].op = "copy"  BY DEF Migrate!Rebuilds
    <3> QED  BY <1>2, <2>4, <3>1
  <2>6. ~Migrate!IsAtomic(i)
    <3>1. proc[q].pc \in Nat /\ proc[q].pc <= n  BY <1>2, <2>3
    <3>2. n \in Nat /\ proc[q].pc > 1  BY <1>2, <2>3
    <3>3. \A a, b \in Nat : a <= b /\ a > 1 => b # 1  OBVIOUS
    <3>4. n # 1  BY <3>1, <3>2, <3>3
    <3> QED  BY <3>4 DEF Migrate!IsAtomic
  <2>7. s.op = "add"
    BY <1>2, <2>5, <2>6, ScriptTypes DEF Migrate!OnlyAdds, Migrate!Adds
  <2>8. Has(Scripts[i][1])
    BY <1>2, <1>4, <2>2, <2>3, <2>7 DEF OldDb, Halfway
  <2> QED  BY <1>2, <1>3, <2>2, <2>7, <2>8
<1>5. ASSUME NEW j \in DOMAIN Scripts \ {i}, NEW l \in DOMAIN Scripts[j], Scripts[j][l].op = "add"
      PROVE  Has(Scripts[j][l])' <=> Has(Scripts[j][l])
  <2> DEFINE u == Scripts[j][l].table
  <2>1. /\ u \in Tables /\ Scripts[j][l].cols \subseteq Migrate!Brings(j, u)
        /\ Migrate!Brings(j, u) \cap Migrate!Brings(i, u) = {}
    BY <1>2, <1>5, StatementPlaces, AddBrings, ScriptsApart
  <2> QED  BY <1>3, <2>1 DEF Has
<1>6. ASSUME NEW l \in DOMAIN Scripts[i], Scripts[i][l].op = "add"
      PROVE  Has(Scripts[i][l])' <=> l <= k
  <2>1. Mid(p) => (Has(Scripts[i][l]) <=> l < k)
    BY <1>6 DEF OldDb, Halfway
  <2>2. k > 1 => Mid(p)
    BY <1>1 DEF Mid
  <2>3. Scripts[i][l].table \in Tables /\ Migrate!Adds(Scripts[i][l]) /\ l \in 1 .. n
    BY <1>2, <1>6, StatementPlaces
  <2>4. CASE s.op = "add"
    <3>1. Has(Scripts[i][l]) <=> l < k
      <4>1. CASE k > 1  BY <2>1, <2>2, <4>1
      <4>2. CASE k = 1
        <5>1. \A q \in Procs : Mid(q) => proc[q].script # i
          <6>1. ~Mid(p)  BY <4>2 DEF Mid
          <6> QED  BY <1>4, <6>1
        <5>2. Has(Scripts[i][l]) <=> Has(s)
          BY <1>2, <1>6, <2>4, <5>1 DEF OldDb, WholeOrNothing
        <5>3. ~Has(s)  BY <1>3, <2>4
        <5> QED  BY <2>3, <4>2, <5>2, <5>3
      <4> QED  BY <1>2, <4>1, <4>2
    <3>2. /\ Cols(t)' = Cols(t) \cup s.cols
          /\ \A u \in Tables \ {t} : Cols(u)' = Cols(u)
      BY <1>3, <2>4
    <3>3. CASE l = k
      <4>1. Scripts[i][l] = s /\ l <= k  BY <1>2, <3>3
      <4>2. s.cols \subseteq Cols(t)'  BY <3>2
      <4> QED  BY <4>1, <4>2 DEF Has
    <3>4. CASE l # k
      <4>1. Scripts[i][l] # s
        BY <1>2, <3>4, JobAssumptions DEF Migrate!MigrationsAssumption
      <4>2. /\ Scripts[i][l] \in Migrate!Statements /\ s \in Migrate!Statements /\ Migrate!Adds(s)
        BY <1>2, <2>4, ScriptTypes, StatementPlaces
      <4>3. Scripts[i][l].table = t => Scripts[i][l].cols # s.cols
        <5> DEFINE r == Scripts[i][l]
        <5>1. /\ r = [op |-> r.op, table |-> r.table, cols |-> r.cols, needs |-> r.needs]
              /\ s = [op |-> s.op, table |-> s.table, cols |-> s.cols, needs |-> s.needs]
          BY <4>2 DEF Migrate!Statements
        <5>2. r.op = s.op /\ r.needs = s.needs
          BY <2>3, <4>2 DEF Migrate!Adds
        <5> QED  BY <4>1, <5>1, <5>2
      <4>4. Has(Scripts[i][l])' <=> Has(Scripts[i][l])
        BY <2>3, <3>2, <4>2, <4>3 DEF Has, Migrate!Adds
      <4> QED  BY <1>2, <2>3, <3>1, <3>4, <4>4
    <3> QED  BY <3>3, <3>4
  <2>5. CASE s.op # "add"
    <3>1. s.op # "atomic" \/ l # k
      BY <1>2, <1>6, <2>5
    <3>2. l < k
      <4>1. CASE s.op = "atomic"
        BY <1>2, <2>3, <3>1, <4>1, StatementPlaces
      <4>2. CASE s.op # "atomic"
        <5>1. Migrate!Rebuilds(i) /\ (k = n - 2 \/ k = n - 1 \/ k = n)
          BY <1>2, <2>5, <4>2, StatementPlaces
        <5>2. l <= n - 3
          BY <1>2, <1>6, <5>1, StatementPlaces
        <5> QED  BY <1>2, <2>3, <5>1, <5>2
      <4> QED  BY <4>1, <4>2
    <3>3. Has(Scripts[i][l])
      BY <1>2, <2>1, <2>2, <2>3, <3>2
    <3>4. Has(Scripts[i][l])'
      BY <1>3, <2>3, <3>3 DEF Has
    <3> QED  BY <1>2, <2>3, <3>2, <3>4
  <2> QED  BY <2>4, <2>5
<1>7. InOrder'  BY InOrderStays
<1>8. TablesThere'
  <2>1. /\ \A q \in Procs \ {p} : ~Swapping(q)'
        /\ Swapping(p)' <=> s.op \in {"copy", "drop"}
        /\ Swapping(p)' => /\ Migrate!Statement(p)'.table = t
                           /\ Migrate!Statement(p)'.op = IF s.op = "copy" THEN "drop" ELSE "rename"
    BY SwappingAfter
  <2>2. ASSUME NEW u \in Tables, \A q \in Procs : Swapping(q)' => Migrate!Statement(q)'.table # u
        PROVE  Migrate!There(u)' /\ tab'[u].rows /\ scratch'[u] = Migrate!Absent
    <3>1. u # t \/ s.op \notin {"copy", "drop"}
      BY <2>1, <2>2
    <3> QED  BY <1>3, <3>1 DEF Migrate!There
  <2>3. ASSUME NEW q \in Procs, Swapping(q)'
        PROVE  LET j == proc'[q].script
                   u == Migrate!Statement(q)'.table
               IN  /\ scratch'[u] = [cols |-> Migrate!UpTo(j, u), rows |-> TRUE]
                   /\ Migrate!Statement(q)'.op = "rename" => tab'[u] = Migrate!Absent
                   /\ Migrate!Statement(q)'.op = "drop" =>
                        /\ tab'[u].cols # {} /\ tab'[u].rows
                        /\ Migrate!UpTo(j, u) \ tab'[u].cols \subseteq Migrate!Brings(j, u)
    <3>1. /\ q = p /\ proc'[q].script = i /\ Migrate!Statement(q)'.table = t
          /\ Migrate!Statement(q)'.op = "rename" => s.op = "drop"
          /\ Migrate!Statement(q)'.op = "drop" => s.op = "copy"
          /\ s.op \in {"copy", "drop"}
      BY <1>1, <2>1, <2>3
    <3>2. /\ scratch'[t] = [cols |-> Migrate!UpTo(i, t), rows |-> TRUE]
          /\ s.op = "drop" => tab'[t] = Migrate!Absent
          /\ s.op = "copy" => /\ tab'[t].cols # {} /\ tab'[t].rows
                              /\ Migrate!UpTo(i, t) \ tab'[t].cols \subseteq Migrate!Brings(i, t)
      BY <1>3, <3>1
    <3> QED  BY <3>1, <3>2
  <2> QED  BY <2>2, <2>3 DEF TablesThere, Migrate!There
<1>9. Alone'
  <2>1. \A q \in Procs \ {p} : ~Migrate!Rebuilding(q)' /\ (Mid(q)' => Mid(q) /\ proc'[q].script # i)
    BY <1>1, <1>4, SwappingAfter DEF Mid
  <2>2. \A q, r \in Procs \ {p} : q # r /\ Mid(q)' /\ Mid(r)' => proc'[q].script # proc'[r].script
    BY <1>1, <2>1 DEF OldDb, Alone
  <2> QED  BY <1>1, <2>1, <2>2 DEF Alone
<1>10. Grown'
  <2> SUFFICES ASSUME NEW u \in Tables
               PROVE  /\ BaseCols[u] \subseteq Cols(u)' /\ Cols(u)' \subseteq FullCols[u]
                      /\ \A j, l \in DOMAIN Scripts :
                           Migrate!Brings(j, u) \cap Cols(u)' # {} /\ l < j => l \in marks
    BY <1>1 DEF Grown
  <2>1. /\ BaseCols[u] \subseteq Cols(u) /\ Cols(u) \subseteq FullCols[u]
        /\ \A j, l \in DOMAIN Scripts :
             Migrate!Brings(j, u) \cap Cols(u) # {} /\ l < j => l \in marks
    BY DEF OldDb, Grown
  <2>2. Migrate!Brings(i, u) \subseteq FullCols[u]
    BY <1>2, ScriptsApart
  <2>3. ASSUME NEW j \in DOMAIN Scripts, NEW l \in DOMAIN Scripts,
               Migrate!Brings(j, u) \cap Cols(u)' # {}, l < j
        PROVE  l \in marks
    <3>1. CASE j = i
      BY <1>1, <2>3, <3>1 DEF OldDb, InOrder
    <3>2. CASE j # i
      <4>1. Migrate!Brings(j, u) \cap Migrate!Brings(i, u) = {}
        BY <1>2, <3>2, ScriptsApart
      <4>2. Migrate!Brings(j, u) \cap Cols(u) # {}
        BY <1>3, <2>3, <4>1
      <4> QED  BY <2>1, <2>3, <4>2
    <3> QED  BY <3>1, <3>2
  <2> QED  BY <1>3, <2>1, <2>2, <2>3
<1>11. Halfway'
  <2> SUFFICES ASSUME NEW q \in Procs, Mid(q)', NEW j, j = proc'[q].script,
                      NEW l \in DOMAIN Scripts[j], Scripts[j][l].op = "add"
               PROVE  Has(Scripts[j][l])' <=> l < proc'[q].pc
    BY DEF Halfway, Has, Cols, Migrate!There
  <2>1. CASE q = p
    <3>1. j = i /\ proc'[q].pc = k + 1  BY <1>1, <2>1
    <3>2. Has(Scripts[j][l])' <=> l <= k  BY <1>6, <3>1
    <3>3. l \in 1 .. n  BY <1>2, <3>1
    <3>4. l <= k <=> l < k + 1  BY <1>2, <3>3
    <3> QED  BY <3>1, <3>2, <3>4
  <2>2. CASE q # p
    <3>1. proc'[q] = proc[q] /\ Mid(q)
      BY <1>1, <2>2 DEF Mid
    <3>2. j = proc[q].script /\ j \in DOMAIN Scripts \ {i}
      BY <1>4, <2>2, <3>1 DEF MTyped, ProcRecord, Mid
    <3>3. Has(Scripts[j][l]) <=> l < proc[q].pc
      BY <3>1, <3>2 DEF OldDb, Halfway
    <3>4. Has(Scripts[j][l])' <=> Has(Scripts[j][l])
      BY <1>5, <3>2
    <3> QED  BY <3>1, <3>3, <3>4
  <2> QED  BY <2>1, <2>2
<1>12. WholeOrNothing'
  <2> SUFFICES ASSUME NEW j \in DOMAIN Scripts,
                      \A q \in Procs : Mid(q)' => proc'[q].script # j,
                      NEW l \in DOMAIN Scripts[j], NEW m \in DOMAIN Scripts[j],
                      Scripts[j][l].op = "add", Scripts[j][m].op = "add"
               PROVE  Has(Scripts[j][l])' <=> Has(Scripts[j][m])'
    BY DEF WholeOrNothing
  <2>1. CASE j = i
    <3>1. k = n
      BY <1>1, <1>2, <2>1 DEF Mid
    <3> QED  BY <1>2, <1>6, <2>1, <3>1
  <2>2. CASE j # i
    <3>1. \A q \in Procs : Mid(q) => proc[q].script # j
      BY <1>1, <2>2 DEF Mid
    <3>2. Has(Scripts[j][l]) <=> Has(Scripts[j][m])
      BY <3>1 DEF OldDb, WholeOrNothing
    <3> QED  BY <1>5, <2>2, <3>2
  <2> QED  BY <2>1, <2>2
<1>13. ThroughIsDone'
  <2> SUFFICES ASSUME NEW j \in DOMAIN Scripts, Through(j)'
               PROVE  IF Scripts[j][1].op = "add" THEN Has(Scripts[j][1])'
                      ELSE \A u \in Tables : Migrate!Brings(j, u) \subseteq Cols(u)'
    BY DEF ThroughIsDone
  <2>1. CASE Through(j)
    <3>1. IF Scripts[j][1].op = "add" THEN Has(Scripts[j][1])
          ELSE \A u \in Tables : Migrate!Brings(j, u) \subseteq Cols(u)
      BY <2>1 DEF OldDb, ThroughIsDone
    <3>2. Scripts[j][1].table \in Tables
      BY FirstAdds, StatementPlaces
    <3> QED  BY <1>3, <3>1, <3>2 DEF Has
  <2>2. CASE ~Through(j)
    <3>1. j = i /\ k = n
      BY <1>1, <2>2 DEF Through
    <3>2. CASE Scripts[i][1].op = "add"
      BY <1>2, <1>6, <3>1, <3>2
    <3>3. CASE Scripts[i][1].op = "atomic"
      BY <1>2, <3>1, <3>3, FirstAdds, StatementPlaces, AtomicBrings
    <3>4. CASE Scripts[i][1].op = "copy"
      <4>1. s.op = "rename"
        <5>1. Migrate!Rebuilds(i)  BY <1>2, <3>4, FirstAdds
        <5>2. Scripts[i][n].op = "rename"  BY <5>1 DEF Migrate!Rebuilds
        <5> QED  BY <1>2, <3>1, <5>2
      <4>2. 1 \in DOMAIN Scripts[i] /\ Scripts[i][1].table = t
        BY <1>2, <3>4, FirstAdds, CopyBrings
      <4>3. \A u \in Tables \ {t} : Migrate!Brings(i, u) = {}
        BY <1>2, <3>4, <4>2, CopyBrings
      <4>4. Migrate!Brings(i, t) \subseteq Cols(t)'
        <5>1. Migrate!Brings(i, t) \subseteq Migrate!UpTo(i, t)  BY <1>2, ScriptsApart
        <5> QED  BY <1>3, <4>1, <5>1
      <4> QED  BY <1>2, <3>1, <3>4, <4>3, <4>4
    <3> QED  BY <1>2, <3>2, <3>3, <3>4, FirstAdds
  <2> QED  BY <2>1, <2>2
<1>14. RebuiltInTime'
  <2> SUFFICES ASSUME NEW q \in Procs, Migrate!Rebuilding(q)'
               PROVE  (LET u == Migrate!Statement(q).table
                       IN  Cols(u) \subseteq Migrate!UpTo(proc[q].script, u))'
    BY DEF RebuiltInTime
  <2>1. /\ q = p /\ Migrate!Statement(q)'.table = t /\ Migrate!Rebuilds(i)
        /\ \E l \in DOMAIN Scripts[i] : Scripts[i][l].op = "copy"
    BY SwappingAfter
  <2>2. Migrate!Brings(i, t) \subseteq Migrate!UpTo(i, t)
    BY <1>2, ScriptsApart
  <2>3. Cols(t)' \subseteq Migrate!UpTo(i, t)
    <3>1. CASE k > 1
      <4>1. Migrate!Rebuilding(p)
        BY <1>1, <2>1, <3>1 DEF Migrate!Rebuilding
      <4>2. Cols(t) \subseteq Migrate!UpTo(i, t)
        BY <4>1 DEF OldDb, RebuiltInTime
      <4> QED  BY <1>2, <1>3, <2>2, <4>2
    <3>2. CASE k = 1 /\ s.op = "copy"
      <4>1. s.cols = Migrate!UpTo(i, t)  BY <1>2, <3>2, CopyBrings
      <4>2. tab[t].cols \subseteq s.cols  BY <1>1, <3>2 DEF Migrate!Shrinking
      <4> QED  BY <1>3, <3>2, <4>1, <4>2
    <3>3. CASE k = 1 /\ s.op # "copy"
      <4>1. s.op = "add"
        <5>1. s.op \in {"add", "copy", "atomic"}  BY <1>2, <3>3, FirstAdds
        <5>2. s.op = "atomic" => n = 1 /\ k = 1  BY <1>2, StatementPlaces
        <5>3. n # 1  BY <1>2, <2>1, RebuildIsLong
        <5> QED  BY <3>3, <5>1, <5>2, <5>3
      <4>2. ~Through(i)
        <5>1. ~Has(Scripts[i][1]) /\ Scripts[i][1].op = "add"
          BY <1>2, <1>3, <3>3, <4>1
        <5> QED  BY <1>2, <5>1 DEF OldDb, ThroughIsDone
      <4>3. ASSUME NEW c \in Cols(t), c \notin Migrate!UpTo(i, t)
            PROVE  FALSE
        <5>1. c \in FullCols[t]  BY <1>2, <4>3 DEF OldDb, Grown
        <5>2. PICK j \in DOMAIN Scripts : i < j /\ c \in Migrate!Brings(j, t)
          BY <1>2, <4>3, <5>1, LaterBrings
        <5>3. i \in marks
          BY <1>2, <4>3, <5>2 DEF OldDb, Grown
        <5> QED  BY <4>2, <5>3 DEF Through
      <4> QED  BY <1>2, <1>3, <2>2, <4>3
    <3>4. k > 1 \/ k = 1  BY <1>2
    <3> QED  BY <3>1, <3>2, <3>3, <3>4
  <2> QED  BY <1>1, <2>1, <2>3 DEF Cols, Migrate!There
<1> QED  BY <1>7, <1>8, <1>9, <1>10, <1>11, <1>12, <1>13, <1>14 DEF OldDb

LEMMA MNext ==
  ASSUME MInv, [Migrate!Next]_Migrate!vars
  PROVE  MInv'
<1> SUFFICES ASSUME ~torn' PROVE MTyped' /\ (NewDb' \/ OldDb')
  BY DEF MInv
<1>1. MTyped /\ (NewDb \/ OldDb)
  BY DEF MInv, Migrate!Next, Migrate!vars, Migrate!Open, Migrate!NextScript, Migrate!Execute,
     Migrate!Mark, Migrate!Create, Migrate!EndSchema, Migrate!Dies
<1>2. MTyped'  BY <1>1, MTypesStay
<1>3. CASE NewDb
  BY <1>1, <1>2, <1>3, NewDbStays
<1>4. CASE OldDb
  <2>1. CASE UNCHANGED Migrate!vars
    <3>1. /\ UNCHANGED <<tab, scratch, marks, proc>>  BY <2>1 DEF Migrate!vars
    <3>2. \A i \in DOMAIN Scripts : Through(i)' => Through(i)
      BY <3>1 DEF Through
    <3>3. InOrder' /\ (Tables # {})  BY <1>4, <3>1 DEF OldDb, InOrder
    <3> QED  BY <1>1, <1>2, <1>4, <3>1, <3>2, <3>3, BookKept DEF OldDb
  <2>2. ASSUME NEW p \in Procs, Migrate!Execute(p)
        PROVE  OldDb'
    <3>1. CASE Migrate!Outcome(Migrate!Statement(p)) = "done"
      BY <1>1, <1>2, <1>4, <2>2, <3>1, OldDbDone
    <3>2. CASE Migrate!Outcome(Migrate!Statement(p)) # "done"
      BY <1>1, <1>2, <1>4, <2>2, <3>2, OldDbNotDone
    <3> QED  BY <3>1, <3>2
  <2>3. ASSUME NEW p \in Procs,
               \/ Migrate!Open(p) \/ Migrate!NextScript(p) \/ Migrate!Mark(p)
               \/ Migrate!Create(p) \/ Migrate!EndSchema(p) \/ Migrate!Dies(p)
        PROVE  OldDb'
    BY <1>1, <1>2, <1>4, <2>3, OldDbKept
  <2> QED  BY <1>2, <2>1, <2>2, <2>3 DEF Migrate!Next
<1> QED  BY <1>1, <1>2, <1>3, <1>4

\* However many programs find the database at the same time, and wherever they
\* die: when every script is marked, the tables have all their columns and their
\* rows (run_pending_migrations, _apply_one, _user_table_count).
THEOREM MarksAreTrue == Spec => []MarkedIsComplete
<1>1. Init => MInv
  BY MInit DEF Init
<1>2. MInv /\ [Next]_vars => MInv'
  <2> SUFFICES ASSUME MInv, [Next]_vars PROVE MInv'
    OBVIOUS
  <2>1. [Migrate!Next]_Migrate!vars
    BY DEF Next, vars, migrate, Migrate!vars
  <2> QED  BY <2>1, MNext
<1>3. MInv => MarkedIsComplete
  BY MComplete DEF MarkedIsComplete
<1> QED  BY <1>1, <1>2, <1>3, PTL DEF Spec
=============================================================================
