-------------------------- MODULE MCTimerFacility --------------------------
(***************************************************************************)
(* Model-checking instance: a client that may do anything.  Its handlers   *)
(* issue one command or none, on an input or on a completion, so every     *)
(* order of commands and receipts happens.                                 *)
(***************************************************************************)
EXTENDS TimerFacility

CONSTANTS t1, t2

MCNames == {t1, t2}
MCModes == {"any"}
MCHandlers ==
    [on : MCNames \cup {"input"}, from : MCModes, to : MCModes,
     cmds : {<< >>} \cup {<<c>> : c \in [op : {"arm", "cancel"}, name : MCNames]}]
MCInitiallyArmed == <<t1>>
============================================================================
