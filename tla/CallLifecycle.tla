--------------------------- MODULE CallLifecycle ---------------------------
(***************************************************************************)
(* What one call promises, seen from outside: who has the turn, and what   *)
(* may follow.  Session implements it.                                     *)
(***************************************************************************)

VARIABLES
    phase,        \* "caller", "agent", "playing", "ending" or "closed"
    unanswered,   \* the agent was given a turn it has not answered
    open          \* the call has not been torn down

vars == <<phase, unanswered, open>>

Init == phase = "caller" /\ unanswered = FALSE /\ open = TRUE

\* The caller's turn ends; the agent is given what was said, if anything was.
TakeTurn == /\ phase = "caller"
            /\ phase' = "agent"
            /\ unanswered' \in BOOLEAN

\* The agent answers the turn it was given, and the answer plays.
Answer == /\ phase = "agent" /\ unanswered
          /\ phase' = "playing"
          /\ unanswered' = FALSE

\* The agent failed to answer.
Decline == /\ phase = "agent" /\ unanswered
           /\ phase' = "caller"
           /\ unanswered' = FALSE

\* The answer has been heard, or is taken to have been.
Heard == /\ phase = "playing"
         /\ phase' = "caller"
         /\ UNCHANGED unanswered

\* Dead air, an endless utterance or a missing answer: say goodbye.
SayGoodbye == /\ phase \in {"caller", "agent"}
              /\ phase' = "ending"
              /\ unanswered' = FALSE

\* The goodbye has been heard; or the caller hung up, but never while an
\* answer plays.
HangUp == /\ phase \in {"caller", "agent", "ending"}
          /\ phase' = "closed"
          /\ unanswered' = FALSE

\* The stream is gone, whatever the call was doing.
TearDown == /\ open
            /\ open' = FALSE
            /\ UNCHANGED <<phase, unanswered>>

Next ==
    \/ /\ open
       /\ TakeTurn \/ Answer \/ Decline \/ Heard \/ SayGoodbye \/ HangUp
       /\ UNCHANGED open
    \/ TearDown

Spec == Init /\ [][Next]_vars
============================================================================
