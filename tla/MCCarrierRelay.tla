--------------------------- MODULE MCCarrierRelay ---------------------------
(* Model-checking instance of one realtime call's carrier side. *)
EXTENDS CarrierRelay
============================================================================
