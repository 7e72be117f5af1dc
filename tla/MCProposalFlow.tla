--------------------------- MODULE MCProposalFlow ---------------------------
(***************************************************************************)
(* Instances of ProposalFlow for TLC.                                      *)
(***************************************************************************)
EXTENDS ProposalFlowInv, TLC

CONSTANTS p1, p2
=============================================================================
