-------------------------- MODULE MCCallerSilence ---------------------------
(* Model-checking instance of the caller-silence bound of one call. *)
EXTENDS CallerSilence
============================================================================
