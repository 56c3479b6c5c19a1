----------------------------- MODULE VADSource -----------------------------
(***************************************************************************)
(* What the session relies on from the VAD: the order of its boundary      *)
(* events.  VADMachine implements it, and Session plays it against the     *)
(* sequencer (there speaking is last = "VADSpeech", and turnEndFired is    *)
(* last = "VADTurnEnd").                                                   *)
(***************************************************************************)
EXTENDS Naturals

VARIABLES
    last,     \* the last boundary reported, "none" at first
    reports   \* how many were reported

vars == <<last, reports>>

Init == last = "none" /\ reports = 0

Report(kind) == last' = kind /\ reports' = reports + 1

SpeechStarts == last # "VADSpeech" /\ Report("VADSpeech")

UtteranceEnds == last = "VADSpeech" /\ Report("VADEndOfUtterance")

\* Also before any speech.
SilenceEndsTurn == last \in {"none", "VADEndOfUtterance"} /\ Report("VADTurnEnd")

Next == SpeechStarts \/ UtteranceEnds \/ SilenceEndsTurn

Spec == Init /\ [][Next]_vars
============================================================================
