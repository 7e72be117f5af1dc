-------------------------- MODULE MCOrderLifecycle --------------------------
(***************************************************************************)
(* Instances of OrderLifecycle for TLC.                                    *)
(***************************************************************************)
EXTENDS OrderLifecycleInv, TLC

CONSTANTS p1, p2, e1, e2, m1

\* Both proposals buy the same outcome.
MCSameMarket == p1 :> m1 @@ p2 :> m1
MCOneProposal == p1 :> m1

MCSymmetry == Permutations(Execs) \cup Permutations(Proposals)
=============================================================================
