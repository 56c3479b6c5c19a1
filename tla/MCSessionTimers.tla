-------------------------- MODULE MCSessionTimers --------------------------
(***************************************************************************)
(* Model-checking instance: the facility serving one session's handlers,   *)
(* from the point in enterAwaitingResponse where its two Arm calls remain: *)
(* an answer due while the thinking bed ticks is an everyday state, and    *)
(* both its timers have long been armed when they elapse.                  *)
(***************************************************************************)
EXTENDS TimerFacility

ST == INSTANCE SessionTimers

MCNames == ST!TimerNames
MCModes == ST!SessionStates
MCHandlers == ST!SessionHandlers
MCInitiallyArmed == <<"response", "bedTick">>
============================================================================
