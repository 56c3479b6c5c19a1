---------------------------- MODULE MCVADMachine ----------------------------
(***************************************************************************)
(* Model-checking instance: frames and windows in a call's ratio, 160 to   *)
(* 256 samples, and every pair of small thresholds, so that thresholds on, *)
(* just below and just above a window boundary all occur, and pairs that   *)
(* round to the same window.                                               *)
(***************************************************************************)
EXTENDS VADMachine

MCThresholds == [EndSilenceMS : 1..6, TurnEndSilenceMS : 1..9]
============================================================================
