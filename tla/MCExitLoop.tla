----------------------------- MODULE MCExitLoop -----------------------------
(***************************************************************************)
(* An instance of ExitLoop: one held position of two lots.                 *)
(***************************************************************************)
EXTENDS ExitLoop, TLC

CONSTANTS m1, m2
=============================================================================
