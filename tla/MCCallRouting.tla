--------------------------- MODULE MCCallRouting ---------------------------
(* Two calls that carry one session id, as two runs of twilio-cli may.     *)
EXTENDS CallRouting

CONSTANT s1

MCCallSid == [c \in Call |-> s1]
=============================================================================
