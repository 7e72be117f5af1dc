----------------------------- MODULE MCRiskGate -----------------------------
(***************************************************************************)
(* An instance of RiskGate: two entries for one outcome, which may change  *)
(* places, and a third for another market; the cap admits one entry at a   *)
(* time.  The rule stops at the first open position of its strategy.       *)
(***************************************************************************)
EXTENDS RiskGate, TLC

CONSTANTS p1, p2, p3, m1, m2, autopilot, command

A(kind, m, size) ==
  [kind |-> kind, market |-> m, outcome |-> "yes", topic |-> "t", cluster |-> m,
   strategy |-> "near", tier |-> "high", size |-> size]

MCOf == p1 :> A("entry", m1, 2) @@ p2 :> A("entry", m1, 2) @@ p3 :> A("entry", m2, 2)

MCSymmetry == Permutations({p1, p2})

MCRules ==
  {[strategy |-> "near", topic |-> "any", cluster |-> "any", maxOrder |-> 5,
    humanAbove |-> 3, auto |-> TRUE, maxOpen |-> 1, maxLoss |-> 2]}
MCSwitches == {[scope |-> "global", key |-> "global"], [scope |-> "market", key |-> m1]}
MCTierCap == [high |-> 2]
=============================================================================
