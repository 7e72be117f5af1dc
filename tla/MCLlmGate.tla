---------------------------- MODULE MCLlmGate ----------------------------
(***************************************************************************)
(* An instance of LlmGate: the propose loop and the exit loop, a schedule  *)
(* of three steps.                                                         *)
(***************************************************************************)
EXTENDS LlmGate, TLC

CONSTANTS propose, exit

MCSchedule == <<1, 2, 4>>
=============================================================================
