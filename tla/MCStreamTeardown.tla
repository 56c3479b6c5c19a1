-------------------------- MODULE MCStreamTeardown --------------------------
(* Model-checking instance of one stream; the .cfg files give the bounds. *)
EXTENDS StreamTeardown
============================================================================
