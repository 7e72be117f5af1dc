------------------------------- MODULE Sizing -------------------------------
(***************************************************************************)
(* How an answer of the model becomes an amount: the tier, the exchange's  *)
(* minimum of five shares, the depth of the book, the liquidity of the     *)
(* market, and later the price of the order.  Prices are in cents, amounts *)
(* in tenths of a cent.                                                    *)
(***************************************************************************)
EXTENDS Integers, FiniteSetsExt

CONSTANTS
  Edges,     \* distances of the answer from the price, in cents
  Prices,
  Balances,  \* POLY_ACCOUNT_BALANCE_USDC, in dollars
  Books,     \* what the first five asks of the list are worth, whichever the list puts
             \* first; negative when none can be had
  Drifts,    \* how far the price moves until the order, in basis points
  ScaleMax   \* POLY_TIER_SCALE_MAX

SizingAssumption ==
  /\ Edges \subseteq 0 .. 99 /\ Prices \subseteq 1 .. 99 /\ Balances \subseteq Nat
  /\ Books \subseteq Int /\ Drifts \subseteq Nat /\ ScaleMax \in Nat \ {0}

VARIABLES
  ask,   \* the answer and its market
  at,    \* how far it has come
  tier,  \* 0 when there is none
  size,
  limit  \* the price of the order, in ten-thousandths of the reference price

vars == <<ask, at, tier, size, limit>>

Clarity == 0 .. 3                             \* none, weak, moderate, strong
Resolution == {"objective", "subjective", "ambiguous"}
Tiers == 1 .. 4                               \* speculative, medium, high, extreme

Answers ==
  [edge : Edges, under : BOOLEAN, above : BOOLEAN, clarity : Clarity,
   substantial : BOOLEAN, resolution : Resolution, price : Prices, book : Books,
   thin : BOOLEAN, balance : Balances, kelly : BOOLEAN]

\* The edges that compute_tier compares with.
Thresholds == {5, 10, 12, 20, 30}

\* The price answered is within 0 and 100.  A difference of floats that should be
\* on a threshold may come out under it.  The older sizing looks at edge and
\* price only, so that the rest does not matter to it.
Possible ==
  {a \in Answers :
     /\ IF a.above THEN a.price + a.edge <= 100 ELSE a.price >= a.edge
     /\ a.under => a.edge \in Thresholds
     /\ a.kelly =>
          a.clarity = 0 /\ ~a.substantial /\ a.book < 0 /\ ~a.thin /\ ~a.under}

Init ==
  /\ ask \in Possible
  /\ at = "answered" /\ tier = 0 /\ size = 0 /\ limit = 0

-----------------------------------------------------------------------------
Reaches(a, threshold) == a.edge > threshold \/ (a.edge = threshold /\ ~a.under)

\* compute_tier, whose edge has no sign.
ByEdge(a) ==
  IF ~Reaches(a, 5) THEN 0
  ELSE IF ~Reaches(a, 10) THEN 1
  ELSE IF ~Reaches(a, 12) THEN IF a.clarity >= 2 THEN 2 ELSE 1
  ELSE IF ~Reaches(a, 20) THEN IF a.clarity >= 1 THEN 2 ELSE 1
  ELSE IF ~Reaches(a, 30) THEN IF a.clarity = 3 THEN 3 ELSE 2
  ELSE IF a.clarity = 3 /\ ~a.substantial THEN 4
  ELSE IF a.clarity >= 2 THEN 3 ELSE 2

ComputeTier(a) ==
  IF a.resolution = "ambiguous" \/ ByEdge(a) = 0 THEN 0
  ELSE IF a.resolution = "subjective" THEN ByEdge(a) - 1 ELSE ByEdge(a)

BaseSize == <<2000, 4000, 8000, 15000>>
ConcurrentCap == <<5, 4, 3, 2>>

\* account_scale: doubles with the balance, from 50 dollars.
Scale(balance) ==
  LET doublings == {n \in 0 .. 10 : 50 * 2 ^ n <= balance}
      scale == IF doublings = {} THEN 1 ELSE 2 ^ Max(doublings)
  IN  Min({scale, ScaleMax})

TierSize(t, balance) == BaseSize[t] * Scale(balance)
ExposureCap(balance) == 700 * balance

\* _five_share_floor: five shares and two per cent.
Floor(price) == 51 * price

\* while the size is under the floor: downgrade_tier
Cleared(a) ==
  LET fit == {t \in Tiers : t <= ComputeTier(a) /\ TierSize(t, a.balance) >= Floor(a.price)}
  IN  IF fit = {} THEN 0 ELSE Max(fit)

Sized(t) == IF t = 0 THEN 0 ELSE TierSize(t, ask.balance)

Drop == at' = "dropped" /\ tier' = 0 /\ size' = 0 /\ UNCHANGED <<ask, limit>>

SizeFromConviction ==
  /\ at = "answered" /\ ~ask.kelly
  /\ IF Cleared(ask) = 0 THEN Drop
     ELSE /\ tier' = Cleared(ask) /\ size' = Sized(Cleared(ask)) /\ at' = "cleared"
          /\ UNCHANGED <<ask, limit>>

\* _enforce_clob_slippage_cap: a quarter of what the first five asks of the list
\* come to, if that can be had.  The comment there wants the five best, of a list
\* it calls sorted from the worst to the best.  A tier under the floor ends it.
FitBook ==
  /\ at = "cleared"
  /\ LET fit == {t \in Tiers : t <= tier /\ 4 * Sized(t) <= ask.book}
         best == IF ask.book <= 0 THEN tier ELSE IF fit = {} THEN 0 ELSE Max(fit)
     IN  IF best < tier /\ (best = 0 \/ Sized(best) < Floor(ask.price)) THEN Drop
         ELSE /\ tier' = best /\ size' = Sized(best) /\ at' = "fitted"
              /\ UNCHANGED <<ask, limit>>

\* Mutant: a thin market costs a tier in any case.
ThinnedAlways(t) == IF ask.thin /\ t > 1 THEN t - 1 ELSE t

\* _apply_liquidity_tier_downgrade
Thinned(t) ==
  IF ask.thin /\ t > 1 /\ Sized(t - 1) >= Floor(ask.price) THEN t - 1 ELSE t

ThinOut ==
  /\ at = "fitted"
  /\ tier' = Thinned(tier) /\ size' = Sized(Thinned(tier)) /\ at' = "sized"
  /\ UNCHANGED <<ask, limit>>

\* _legacy_kelly_size of ten dollars; only for an answer above the price.
Hint == 10000

KellySize ==
  /\ at = "answered" /\ ask.kelly
  /\ LET scaled == (Hint * ask.edge) \div (100 - ask.price)
     IN  IF ~ask.above \/ scaled < Max({1000, Floor(ask.price)}) THEN Drop
         ELSE /\ size' = Min({Hint, scaled}) /\ at' = "sized"
              /\ UNCHANGED <<ask, tier, limit>>

\* execute_record: the drift is held against max_slippage_bps, and the premium
\* of POLY_FILL_PREMIUM_BPS put on top of it.
MaxSlippage == 500
FillPremium == 150

Price ==
  /\ at = "sized"
  /\ \E drift \in Drifts :
       IF drift > MaxSlippage THEN at' = "refused" /\ UNCHANGED <<ask, tier, size, limit>>
       ELSE /\ limit' = ((10000 + drift) * (10000 + FillPremium)) \div 10000
            /\ at' = "ordered" /\ UNCHANGED <<ask, tier, size>>

Done == at \in {"ordered", "refused", "dropped"} /\ UNCHANGED vars

Next == SizeFromConviction \/ FitBook \/ ThinOut \/ KellySize \/ Price \/ Done

Spec == Init /\ [][Next]_vars

-----------------------------------------------------------------------------
FitsBook(t) ==
  ask.book <= 0 \/ 4 * TierSize(t, ask.balance) <= ask.book
FitsFloor(t) == TierSize(t, ask.balance) >= Floor(ask.price)

\* The tier the steps should come to: the best that the answer supports, the
\* exchange takes and the head of the book bears, less one on a thin market that
\* allows it.
Meant ==
  LET fit == {t \in Tiers : t <= ComputeTier(ask) /\ FitsFloor(t) /\ FitsBook(t)}
      best == Max(fit)
  IN  IF fit = {} THEN 0
      ELSE IF ask.thin /\ best - 1 \in Tiers /\ FitsFloor(best - 1) THEN best - 1 ELSE best

\* A weaker answer for the same market has no higher tier, however the floats of
\* the two have come out.
WeakerIsNoHigher ==
  \A e \in Edges, u \in BOOLEAN, c \in 0 .. ask.clarity, s \in {ask.substantial, TRUE} :
    e < ask.edge \/ (e = ask.edge /\ u = ask.under) =>
      ComputeTier([ask EXCEPT !.edge = e, !.under = u, !.clarity = c, !.substantial = s])
        <= ComputeTier(ask)

\* The steps together come to the tier that is meant, no step undoing what one
\* before it ensured; a weaker answer never has a higher tier; as many positions
\* as a tier may have fit in the exposure cap of any account the ladder was
\* made for; and what clears the exchange's minimum still clears it at the price
\* that is ordered, unless the market has moved.
SizedAsMeant ==
  /\ at = "sized" /\ ~ask.kelly => tier = Meant /\ size = TierSize(tier, ask.balance)
  /\ at = "sized" => size >= Floor(ask.price)
  /\ at = "dropped" /\ ~ask.kelly => Meant = 0
  /\ at = "answered" => WeakerIsNoHigher
  /\ tier # 0 /\ ask.balance >= 50
       => ConcurrentCap[tier] * TierSize(tier, ask.balance) <= ExposureCap(ask.balance)
  /\ at = "ordered" /\ limit <= 10000 + FillPremium => size * 1000 >= 5 * ask.price * limit
=============================================================================
