----------------------------- MODULE VADMachine -----------------------------
(***************************************************************************)
(* telephony/vad.go: runVAD's loop over one stream.  Frames are cut into   *)
(* inference windows (windower), each window's speech probability moves    *)
(* the machine (vadMachine.step), which emits an event at a boundary.      *)
(*                                                                         *)
(* A probability is reduced to the band it falls in: "speech" (at least    *)
(* SpeechThresh), "silence" (below SilenceThresh) or "dead" between them.  *)
(* Samples are counted, not carried.                                       *)
(***************************************************************************)
EXTENDS Integers

CONSTANTS
    FrameSize,    \* samples in one media frame (160 in a call)
    WindowSize,   \* samples in one inference window (256)
    WindowMS,     \* vadConfig.windowMS() (32)
    Thresholds,   \* vadConfigs to start from: [EndSilenceMS, TurnEndSilenceMS]
    MaxWindows    \* bound: frames stop once this many windows were cut

ASSUME VADConstants ==
    /\ FrameSize \in Nat \ {0}
    /\ WindowSize \in Nat \ {0}
    /\ WindowMS \in Nat \ {0}
    /\ MaxWindows \in Nat
    /\ Thresholds \subseteq [EndSilenceMS : Nat \ {0}, TurnEndSilenceMS : Nat \ {0}]

VARIABLES
    cfg,           \* the vadConfig in force
    buf,           \* samples left in the windower
    pending,       \* windows of the current frame not yet detected
    speaking, silenceCount, voicedCount, turnEndFired, windowIndex,
    streamWindow,  \* vadMachine's fields
    event,         \* event of the last window, or "none"
    last, reports, \* history: the last boundary emitted, and how many were
    fed,           \* history: samples received
    spoken,        \* history: some window so far was speech
    quiet          \* history: silence windows since the last speech window, or the start

machineVars == <<speaking, silenceCount, voicedCount, turnEndFired, windowIndex>>
vadVars == <<cfg, buf, pending, machineVars, streamWindow, event, last, reports, fed,
             spoken, quiet>>

Levels == {"speech", "dead", "silence"}

\* validateOrdering; the third leg, MaxSilenceMS, is the session's idle timer.
validateOrdering(c) == c.EndSilenceMS < c.TurnEndSilenceMS

\* Windows that a running count needs to reach thresholdMS: the ceiling.
windowsToCross(thresholdMS, windowMS) == (thresholdMS + windowMS - 1) \div windowMS

EndWindows == windowsToCross(cfg.EndSilenceMS, WindowMS)
TurnEndWindows == windowsToCross(cfg.TurnEndSilenceMS, WindowMS)

----------------------------------------------------------------------------

\* windower.push: every complete window, and the remainder is kept.
push ==
    /\ pending = 0
    /\ streamWindow < MaxWindows
    /\ fed' = fed + FrameSize
    /\ pending' = (buf + FrameSize) \div WindowSize
    /\ buf' = (buf + FrameSize) % WindowSize
    /\ UNCHANGED <<cfg, machineVars, streamWindow, event, last, reports, spoken,
                   quiet>>

\* One window of a given level, and what the caller is doing.
Window(level) ==
    /\ pending > 0
    /\ pending' = pending - 1
    /\ streamWindow' = streamWindow + 1
    /\ spoken' = (spoken \/ level = "speech")
    /\ quiet' = CASE level = "speech" -> 0
                  [] level = "silence" -> quiet + 1
                  [] level = "dead" -> quiet
    /\ UNCHANGED <<cfg, buf, fed>>

Boundaries == {"VADSpeech", "VADEndOfUtterance", "VADTurnEnd"}

\* step's result: an event, or none.
Emit(kind) ==
    /\ event' = kind
    /\ last' = IF kind \in Boundaries THEN kind ELSE last
    /\ reports' = IF kind \in Boundaries THEN reports + 1 ELSE reports

(* vadMachine.step, not speaking. *)

onset ==
    /\ Window("speech") /\ ~speaking
    /\ speaking' = TRUE
    /\ silenceCount' = 0
    /\ voicedCount' = 1
    /\ turnEndFired' = FALSE
    /\ windowIndex' = 0
    /\ Emit("VADSpeech")

ignoredWindow ==
    /\ ~speaking
    /\ \/ Window("dead")
       \/ Window("silence") /\ turnEndFired
    /\ Emit("none")
    /\ UNCHANGED machineVars

trailingSilence ==
    /\ Window("silence") /\ ~speaking /\ ~turnEndFired
    /\ silenceCount' = silenceCount + 1
    /\ windowIndex' = windowIndex + 1
    /\ turnEndFired' = (silenceCount' >= TurnEndWindows)
    /\ Emit(IF turnEndFired' THEN "VADTurnEnd" ELSE "none")
    /\ UNCHANGED <<speaking, voicedCount>>

(* vadMachine.step, speaking. *)

\* Fault: resumed speech is reported as a new onset.
voicedReported ==
    /\ Window("speech") /\ speaking
    /\ silenceCount' = 0
    /\ voicedCount' = voicedCount + 1
    /\ windowIndex' = windowIndex + 1
    /\ Emit(IF silenceCount > 0 THEN "VADSpeech" ELSE "none")
    /\ UNCHANGED <<speaking, turnEndFired>>

voiced ==
    /\ Window("speech") /\ speaking
    /\ silenceCount' = 0
    /\ voicedCount' = voicedCount + 1
    /\ windowIndex' = windowIndex + 1
    /\ Emit("none")
    /\ UNCHANGED <<speaking, turnEndFired>>

hysteresis ==
    /\ Window("dead") /\ speaking
    /\ windowIndex' = windowIndex + 1
    /\ Emit("none")
    /\ UNCHANGED <<speaking, silenceCount, voicedCount, turnEndFired>>

\* Fault: the count starts again at the end of the utterance.
pauseRestartingClock ==
    /\ Window("silence") /\ speaking
    /\ windowIndex' = windowIndex + 1
    /\ IF silenceCount + 1 >= EndWindows
       THEN /\ Emit("VADEndOfUtterance")
            /\ silenceCount' = 0
            /\ speaking' = FALSE
            /\ voicedCount' = 0
       ELSE /\ Emit(IF silenceCount = 0 THEN "VADSilence" ELSE "none")
            /\ silenceCount' = silenceCount + 1
            /\ UNCHANGED <<speaking, voicedCount>>
    /\ UNCHANGED turnEndFired

\* silenceCount is not reset at the end of the utterance.
pause ==
    /\ Window("silence") /\ speaking
    /\ windowIndex' = windowIndex + 1
    /\ silenceCount' = silenceCount + 1
    /\ IF silenceCount' >= EndWindows
       THEN /\ Emit("VADEndOfUtterance")
            /\ speaking' = FALSE
            /\ voicedCount' = 0
       ELSE /\ Emit(IF silenceCount' = 1 THEN "VADSilence" ELSE "none")
            /\ UNCHANGED <<speaking, voicedCount>>
    /\ UNCHANGED turnEndFired

----------------------------------------------------------------------------

\* Session.Start refuses a config that validateOrdering rejects.
VADInit ==
    /\ cfg \in {c \in Thresholds : validateOrdering(c)}
    /\ buf = 0 /\ pending = 0
    /\ speaking = FALSE /\ silenceCount = 0 /\ voicedCount = 0
    /\ turnEndFired = FALSE /\ windowIndex = 0 /\ streamWindow = 0
    /\ event = "none" /\ last = "none" /\ reports = 0
    /\ fed = 0 /\ spoken = FALSE /\ quiet = 0

VADNext == push \/ onset \/ ignoredWindow \/ trailingSilence \/ voiced \/ hysteresis \/ pause

VADSpec == VADInit /\ [][VADNext]_vadVars

----------------------------------------------------------------------------
(* Properties. *)

\* Types; the windower never keeps a whole window back.
VADTypeOK ==
    /\ cfg \in [EndSilenceMS : Nat \ {0}, TurnEndSilenceMS : Nat \ {0}]
    /\ buf \in 0..WindowSize - 1
    /\ pending \in Nat
    /\ speaking \in BOOLEAN
    /\ silenceCount \in Nat
    /\ voicedCount \in Nat
    /\ turnEndFired \in BOOLEAN
    /\ windowIndex \in Nat
    /\ streamWindow \in Nat
    /\ event \in {"none", "VADSpeech", "VADSilence", "VADEndOfUtterance", "VADTurnEnd"}
    /\ last \in Boundaries \cup {"none"}
    /\ reports \in Nat
    /\ fed \in Nat
    /\ spoken \in BOOLEAN
    /\ quiet \in Nat

(***************************************************************************)
(* streamWindow is "the stream-global audio-position clock": no sample is  *)
(* lost or counted twice at a frame boundary, however frame and window     *)
(* sizes divide.                                                           *)
(***************************************************************************)
StreamWindowIsAudioPosition ==
    fed = (streamWindow + pending) * WindowSize + buf

(***************************************************************************)
(* An utterance ends at the first silence window that brings the silence   *)
(* since the caller's last speech window to EndSilenceMS, no sooner and no *)
(* later; dead-zone windows in between neither count nor start it over.    *)
(***************************************************************************)
EndOfUtteranceOnTime ==
    /\ speaking => quiet * WindowMS < cfg.EndSilenceMS
    /\ event = "VADEndOfUtterance" => /\ quiet * WindowMS >= cfg.EndSilenceMS
                                      /\ (quiet - 1) * WindowMS < cfg.EndSilenceMS

(***************************************************************************)
(* A turn ends once the silence since the caller stopped, not since the    *)
(* utterance ended, reaches TurnEndSilenceMS ("one counter, not two        *)
(* independent clocks").  It is never early; it is late by one window at   *)
(* most, when both thresholds round to the same window; and it is not      *)
(* forgotten.  Before any speech the silence counts from the start.        *)
(***************************************************************************)
TurnEndOnTime ==
    /\ event = "VADTurnEnd" => /\ quiet * WindowMS >= cfg.TurnEndSilenceMS
                               /\ (quiet - 2) * WindowMS < cfg.TurnEndSilenceMS
                               /\ ~spoken => (quiet - 1) * WindowMS < cfg.TurnEndSilenceMS
    /\ ~speaking /\ ~turnEndFired /\ event # "VADEndOfUtterance" =>
          quiet * WindowMS < cfg.TurnEndSilenceMS + WindowMS

(***************************************************************************)
(* Boundaries come on time in the audio itself: the windows counted are    *)
(* the samples that arrived, and both silence thresholds are met to the    *)
(* window (windower.push, vadMachine.step, windowsToCross).                *)
(***************************************************************************)
BoundariesOnTime ==
    StreamWindowIsAudioPosition /\ EndOfUtteranceOnTime /\ TurnEndOnTime

Source == INSTANCE VADSource

(***************************************************************************)
(* The events keep the order the session's handlers are written for:       *)
(* onsets and ends of utterance alternate, and a turn end comes only after *)
(* the end of its utterance and once per silence, or once before any       *)
(* speech.                                                                 *)
(***************************************************************************)
ImplementsSource == Source!Spec
============================================================================
