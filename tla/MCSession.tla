----------------------------- MODULE MCSession -----------------------------
(* Model-checking instance of one call; the .cfg files give the bounds. *)
EXTENDS Session
============================================================================
