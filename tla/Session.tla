------------------------------ MODULE Session ------------------------------
(***************************************************************************)
(* telephony/session.go and telephony/state.go: one call's turn-taking     *)
(* sequencer.  A single goroutine selects one input at a time and runs the *)
(* handler that the (state, source) transition table holds for it, so a    *)
(* handler is one step.  Around it act the VAD service (telephony/vad.go), *)
(* the STT service, the consumer that answers completed turns, the carrier *)
(* that echoes marks, the caller who hangs up, and the timers.             *)
(*                                                                         *)
(* Audio is left out; what remains of it is what the VAD makes of it (its  *)
(* boundary events) and which turn a transcript belongs to.  A timer is    *)
(* the name's membership in `armed`: TimerFacility shows that a dispatched *)
(* completion is always the one last armed.  Durations are left out, so an *)
(* armed timer may fire at any moment.                                     *)
(***************************************************************************)
EXTENDS Integers, Sequences, FiniteSets

CONSTANTS
    SttDispatchDepth,  \* sttDispatchDepth: capacity of sttDispatchCh
    VadOutDepth,       \* capacity of the VAD event channel
    ResponseInDepth,   \* responseInputDepth: capacity of the answer channel
    MaxTurns,          \* bound: the VAD reports nothing more after this many turns
    MaxPasses          \* bound: nor once this many passes were dispatched, unless
                       \*        the session waits for a pass that was lost

ASSUME SessionConstants ==
    /\ SttDispatchDepth \in Nat \ {0}
    /\ VadOutDepth \in Nat \ {0}
    /\ ResponseInDepth \in Nat \ {0}
    /\ MaxTurns \in Nat
    /\ MaxPasses \in Nat

VARIABLES
    state,            \* SessionState
    running,          \* the sequencer goroutine has not returned
    wedged,           \* it waits for the timers' run loop, which waits for it
    armed,            \* names of the armed timers
    turnActive,       \* a turn is in progress
    turnEndPending,   \* a VADTurnEnd waits for the pass in flight
    turnTranscripts,  \* texts of the open turn, each as the turn it was spoken in
    turn,             \* number of completeTurn calls so far
    sttReqID,         \* id of the awaited full pass
    sttDispatchCh,    \* requests waiting for drainSTTDispatch
    passes,           \* requests handed to the STT service
    owed,             \* turns delivered to the TurnSink and not yet answered
    responseIn,       \* answers on their way: [turn, ok]
    speaking,         \* vadMachine.speaking
    turnEndFired,     \* vadMachine.turnEndFired
    vadOut,           \* VAD events on their way to the sequencer
    hearing,          \* history: the last boundary the sequencer received was VADSpeech
    marks,            \* marks sent and not yet echoed
    clip,             \* terminal clip played: "none", "farewell" or "forcedStop"
    hungUp            \* the carrier has sent its stop event

turnVars == <<turnActive, turnEndPending, turnTranscripts, turn, owed>>
sttVars  == <<sttReqID, sttDispatchCh, passes>>
vadVars  == <<speaking, turnEndFired>>
callVars == <<clip, hungUp>>
vars == <<state, running, wedged, armed, turnVars, sttVars, responseIn, vadVars, vadOut,
          hearing, marks, callVars>>

States == {"Idle", "Listening", "AwaitingFullResult", "AwaitingResponse",
           "AwaitingResponsePlayout", "AwaitingMarkEcho", "Closed"}

Timers == {"idle", "markEcho", "utterance", "response", "turn", "bedTick"}

VADKinds == {"VADSpeech", "VADEndOfUtterance", "VADTurnEnd"}

Request == [id : Nat, turn : Nat]
Response == [turn : Nat, ok : BOOLEAN]

\* inProgressStates: where the three termination timers are wired.
InProgress == {"Idle", "Listening", "AwaitingFullResult"}

\* Rows that route VAD events to withSpeechReset.
VADStates == {"Listening", "AwaitingFullResult"}

\* Rows that route STT results to handleSTTResult.
STTStates == InProgress \cup {"AwaitingResponse", "AwaitingResponsePlayout"}

----------------------------------------------------------------------------
(* What several handlers share. *)

\* run is back at step's select, and takes the next input.
selects == running /\ ~wedged

\* Fault: the turn's cap stays armed after the turn.
completeTurnKeepingCap(texts, off, on) ==
    /\ turn' = turn + 1
    /\ owed' = IF texts = << >> THEN owed ELSE owed \cup {turn}
    /\ turnTranscripts' = << >>
    /\ turnActive' = FALSE
    /\ turnEndPending' = FALSE
    /\ armed' = (armed \ off) \cup on

\* completeTurn(trigger) with `texts` accumulated: deliver them to the sink if
\* there are any, close the turn, cancel its cap.  `off` and `on` are the
\* timers the calling handler cancels and arms besides.
completeTurn(texts, off, on) ==
    /\ turn' = turn + 1
    /\ owed' = IF texts = << >> THEN owed ELSE owed \cup {turn}
    /\ turnTranscripts' = << >>
    /\ turnActive' = FALSE
    /\ turnEndPending' = FALSE
    /\ armed' = (armed \ (off \cup {"turn"})) \cup on

\* completeTurn, then enterAwaitingResponse: the response cap replaces the
\* idle clock and the thinking bed starts.
enterAwaitingResponse(texts) ==
    /\ completeTurn(texts, {"idle"}, {"response", "bedTick"})
    /\ state' = "AwaitingResponse"

\* completeTurn, then terminateWithClip: play the clip, send the farewell mark
\* and bound the wait for its echo.  `off`: timers no longer armed.
terminateWithClip(off, c) ==
    /\ completeTurn(turnTranscripts, off, {"markEcho"})
    /\ clip' = c
    /\ marks' = Append(marks, "farewell")
    /\ state' = "AwaitingMarkEcho"

\* dispatchSTT: number the request, hand it over unless the buffer is full.
dispatchSTT ==
    /\ sttReqID' = sttReqID + 1
    /\ sttDispatchCh' = IF Len(sttDispatchCh) < SttDispatchDepth
                        THEN Append(sttDispatchCh, [id |-> sttReqID + 1, turn |-> turn])
                        ELSE sttDispatchCh
    /\ UNCHANGED passes

\* onUtteranceEnd: silence is timed again, the utterance no longer capped.
onUtteranceEnd == armed' = (armed \ {"utterance"}) \cup {"idle"}

----------------------------------------------------------------------------
(* Twilio planes. *)

\* handleDataFrame: only the first frame changes the state.
handleDataFrame ==
    /\ selects /\ state = "Idle"
    /\ state' = "Listening"
    /\ UNCHANGED <<running, wedged, armed, turnVars, sttVars, responseIn, vadVars, vadOut,
                   hearing, marks, callVars>>

\* handleControlEvent for "stop".
handleStop ==
    /\ selects /\ ~hungUp
    /\ state \in InProgress \cup {"AwaitingResponse"}
    /\ hungUp' = TRUE
    /\ completeTurn(turnTranscripts, {}, {})
    /\ state' = "Closed"
    /\ UNCHANGED <<running, wedged, sttVars, responseIn, vadVars, vadOut, hearing, marks, clip>>

\* A stop while a mark's echo owns the control row is logged and ignored, as
\* Closed ignores everything.
ignoreStop ==
    /\ selects /\ ~hungUp
    /\ state \in {"AwaitingResponsePlayout", "AwaitingMarkEcho", "Closed"}
    /\ hungUp' = TRUE
    /\ UNCHANGED <<state, running, wedged, armed, turnVars, sttVars, responseIn, vadVars,
                   vadOut, hearing, marks, clip>>

\* handleResponsePlayoutEcho: the response has been heard.
handleResponsePlayoutEcho ==
    /\ selects /\ ~hungUp
    /\ state = "AwaitingResponsePlayout"
    /\ marks # << >> /\ Head(marks) = "response"
    /\ marks' = Tail(marks)
    /\ armed' = (armed \ {"markEcho"}) \cup {"idle"}
    /\ state' = "Listening"
    /\ UNCHANGED <<running, wedged, turnVars, sttVars, responseIn, vadVars, vadOut, hearing, callVars>>

\* handleMarkEchoControlEvent and closeTransport: the clip has been heard.
handleMarkEchoControlEvent ==
    /\ selects /\ ~hungUp
    /\ state = "AwaitingMarkEcho"
    /\ marks # << >> /\ Head(marks) = "farewell"
    /\ marks' = Tail(marks)
    /\ armed' = armed \ {"markEcho"}
    /\ state' = "Closed"
    /\ UNCHANGED <<running, wedged, turnVars, sttVars, responseIn, vadVars, vadOut, hearing, callVars>>

\* Any other echo is unexpected where it arrives and changes nothing.
ignoreMarkEcho ==
    /\ selects /\ ~hungUp
    /\ marks # << >>
    /\ ~(state = "AwaitingResponsePlayout" /\ Head(marks) = "response")
    /\ ~(state = "AwaitingMarkEcho" /\ Head(marks) = "farewell")
    /\ marks' = Tail(marks)
    /\ UNCHANGED <<state, running, wedged, armed, turnVars, sttVars, responseIn, vadVars,
                   vadOut, hearing, callVars>>

----------------------------------------------------------------------------
(* VAD events: the head of vadOut. *)

VADEvent(kind) ==
    /\ selects
    /\ vadOut # << >> /\ Head(vadOut) = kind
    /\ vadOut' = Tail(vadOut)
    /\ hearing' = (kind = "VADSpeech" \/ (kind = "VADTurnEnd" /\ hearing))

\* Fault: only the onset that opens the turn stops the silence clock.
onsetKeepingIdle ==
    /\ VADEvent("VADSpeech")
    /\ state \in VADStates
    /\ armed' = (armed \ (IF turnActive THEN {} ELSE {"idle"})) \cup {"utterance"}
                \cup (IF turnActive THEN {} ELSE {"turn"})
    /\ turnActive' = TRUE
    /\ UNCHANGED <<state, running, wedged, turnEndPending, turnTranscripts, turn, owed,
                   sttVars, responseIn, vadVars, marks, callVars>>

\* handleSpeechOnset, in both rows: stop timing silence, cap the utterance,
\* and cap the turn if this onset opens it.
handleSpeechOnset ==
    /\ VADEvent("VADSpeech")
    /\ state \in VADStates
    /\ armed' = (armed \ {"idle"}) \cup {"utterance"}
                \cup (IF turnActive THEN {} ELSE {"turn"})
    /\ turnActive' = TRUE
    /\ UNCHANGED <<state, running, wedged, turnEndPending, turnTranscripts, turn, owed,
                   sttVars, responseIn, vadVars, marks, callVars>>

\* dispatchFullPass, Listening's end of utterance.
dispatchFullPass ==
    /\ VADEvent("VADEndOfUtterance")
    /\ state = "Listening"
    /\ onUtteranceEnd
    /\ dispatchSTT
    /\ state' = "AwaitingFullResult"
    /\ UNCHANGED <<running, wedged, turnVars, responseIn, vadVars, marks, callVars>>

\* Fault: the second utterance dispatches a pass of its own.
dispatchSecondPass ==
    /\ VADEvent("VADEndOfUtterance")
    /\ state = "AwaitingFullResult"
    /\ onUtteranceEnd
    /\ dispatchSTT
    /\ UNCHANGED <<state, running, wedged, turnVars, responseIn, vadVars, marks, callVars>>

\* handleAwaitingFullResultVADEvent: a second utterance ends while the first
\* one's pass is in flight; its own pass is not dispatched.
handleAwaitingFullResultVADEvent ==
    /\ VADEvent("VADEndOfUtterance")
    /\ state = "AwaitingFullResult"
    /\ onUtteranceEnd
    /\ UNCHANGED <<state, running, wedged, turnVars, sttVars, responseIn, vadVars, marks, callVars>>

\* Fault: the turn is delivered and the session goes on listening.
completeAndKeepListening ==
    /\ VADEvent("VADTurnEnd")
    /\ state = "Listening"
    /\ completeTurn(turnTranscripts, {}, {})
    /\ UNCHANGED <<state, running, wedged, sttVars, responseIn, vadVars, marks, callVars>>

\* Fault: the turn is completed without its pass in flight.
completeWithoutPass ==
    /\ VADEvent("VADTurnEnd")
    /\ state = "AwaitingFullResult"
    /\ enterAwaitingResponse(turnTranscripts)
    /\ UNCHANGED <<running, wedged, sttVars, responseIn, vadVars, marks, callVars>>

\* withSpeechReset on VADTurnEnd: complete the turn now, ...
handleTurnEnd ==
    /\ VADEvent("VADTurnEnd")
    /\ state = "Listening"
    /\ enterAwaitingResponse(turnTranscripts)
    /\ UNCHANGED <<running, wedged, sttVars, responseIn, vadVars, marks, callVars>>

\* ... or once the pass in flight has returned.
deferTurnEnd ==
    /\ VADEvent("VADTurnEnd")
    /\ state = "AwaitingFullResult"
    /\ turnEndPending' = TRUE
    /\ UNCHANGED <<state, running, wedged, armed, turnActive, turnTranscripts, turn, owed,
                   sttVars, responseIn, vadVars, marks, callVars>>

\* The other rows drop VAD events: handleUnexpected, handleAbsorb, handleClosed.
dropVADEvent ==
    /\ \E kind \in VADKinds : VADEvent(kind)
    /\ state \notin VADStates
    /\ UNCHANGED <<state, running, wedged, armed, turnVars, sttVars, responseIn, vadVars,
                   marks, callVars>>

----------------------------------------------------------------------------
(* STT results. *)

\* The pass answers: it leaves the STT service.
Answered(p) == /\ selects
               /\ p \in passes
               /\ passes' = passes \ {p}
               /\ UNCHANGED <<sttReqID, sttDispatchCh>>

\* A turn that a result completes: the agent answers it if the session was
\* waiting for that result.
completeByResult(texts) ==
    IF state = "AwaitingFullResult"
    THEN enterAwaitingResponse(texts)
    ELSE completeTurn(texts, {}, {}) /\ UNCHANGED state

\* handleSTTResult, a text the turn-end policy takes for a stopword: it ends
\* the turn and is not part of it.
handleSTTStopword(p) ==
    /\ Answered(p)
    /\ state \in STTStates /\ p.id = sttReqID
    /\ completeByResult(turnTranscripts)
    /\ UNCHANGED <<running, wedged, responseIn, vadVars, vadOut, hearing, marks, callVars>>

\* handleSTTResult, an ordinary text: it joins the turn, which it completes if
\* a turn end was waiting for it.
handleSTTText(p) ==
    LET texts == Append(turnTranscripts, p.turn)
    IN  /\ Answered(p)
        /\ state \in STTStates /\ p.id = sttReqID
        /\ IF turnEndPending
           THEN completeByResult(texts)
           ELSE /\ turnTranscripts' = texts
                /\ state' = IF state = "AwaitingFullResult" THEN "Listening" ELSE state
                /\ UNCHANGED <<armed, turnActive, turnEndPending, turn, owed>>
        /\ UNCHANGED <<running, wedged, responseIn, vadVars, vadOut, hearing, marks, callVars>>

\* A superseded result is discarded on its id; AwaitingMarkEcho and Closed
\* absorb any.
discardSTTResult(p) ==
    /\ Answered(p)
    /\ state \notin STTStates \/ p.id # sttReqID
    /\ UNCHANGED <<state, running, wedged, armed, turnVars, responseIn, vadVars, vadOut,
                   hearing, marks, callVars>>

----------------------------------------------------------------------------
(* Answers from the consumer. *)

\* handleResponseReady: stop the cap and the bed; an ok answer is played and
\* followed by its mark, a failed one hands the turn back to the caller.
handleResponseReady ==
    /\ selects
    /\ state = "AwaitingResponse"
    /\ responseIn # << >>
    /\ responseIn' = Tail(responseIn)
    /\ IF Head(responseIn).ok
       THEN /\ armed' = (armed \ {"response", "bedTick"}) \cup {"markEcho"}
            /\ marks' = Append(marks, "response")
            /\ state' = "AwaitingResponsePlayout"
       ELSE /\ armed' = (armed \ {"response", "bedTick"}) \cup {"idle"}
            /\ state' = "Listening"
            /\ UNCHANGED marks
    /\ UNCHANGED <<running, wedged, turnVars, sttVars, vadVars, vadOut, hearing, callVars>>

\* Every other row drops it.
dropResponse ==
    /\ selects
    /\ state # "AwaitingResponse"
    /\ responseIn # << >>
    /\ responseIn' = Tail(responseIn)
    /\ UNCHANGED <<state, running, wedged, armed, turnVars, sttVars, vadVars, vadOut,
                   hearing, marks, callVars>>

----------------------------------------------------------------------------
(* Timers. *)

Fires(n) == selects /\ n \in armed

\* Fault: the silence clock is still wired in a closed session.
idleTimerAnywhere ==
    /\ Fires("idle")
    /\ terminateWithClip({"idle"}, "farewell")
    /\ UNCHANGED <<running, wedged, sttVars, responseIn, vadVars, vadOut, hearing, hungUp>>

\* handleIdleTimer: prolonged silence, the farewell clip.
handleIdleTimer ==
    /\ Fires("idle")
    /\ state \in InProgress
    /\ terminateWithClip({"idle"}, "farewell")
    /\ UNCHANGED <<running, wedged, sttVars, responseIn, vadVars, vadOut, hearing, hungUp>>

\* handleUtteranceTimeout and handleTurnTimeout: the forced-stop clip.
handleCapTimeout(n) ==
    /\ Fires(n)
    /\ state \in InProgress
    /\ terminateWithClip({n}, "forcedStop")
    /\ UNCHANGED <<running, wedged, sttVars, responseIn, vadVars, vadOut, hearing, hungUp>>

\* handleResponseTimeout: no answer came, the farewell clip.
handleResponseTimeout ==
    /\ Fires("response")
    /\ state = "AwaitingResponse"
    /\ terminateWithClip({"response", "bedTick"}, "farewell")
    /\ UNCHANGED <<running, wedged, sttVars, responseIn, vadVars, vadOut, hearing, hungUp>>

\* Fault: listening resumes with no silence clock.
backstopWithoutIdle ==
    /\ Fires("markEcho")
    /\ state = "AwaitingResponsePlayout"
    /\ armed' = armed \ {"markEcho"}
    /\ state' = "Listening"
    /\ UNCHANGED <<running, wedged, turnVars, sttVars, responseIn, vadVars, vadOut,
                   hearing, marks, callVars>>

\* handleResponsePlayoutBackstop: the echo never came, listen anyway.
handleResponsePlayoutBackstop ==
    /\ Fires("markEcho")
    /\ state = "AwaitingResponsePlayout"
    /\ armed' = (armed \ {"markEcho"}) \cup {"idle"}
    /\ state' = "Listening"
    /\ UNCHANGED <<running, wedged, turnVars, sttVars, responseIn, vadVars, vadOut,
                   hearing, marks, callVars>>

\* Fault: the timer is armed again and the echo awaited once more.
waitForEchoAgain ==
    /\ Fires("markEcho")
    /\ state = "AwaitingMarkEcho"
    /\ UNCHANGED vars

\* handleMarkEchoTimeout and closeTransport: the echo never came, close anyway.
handleMarkEchoTimeout ==
    /\ Fires("markEcho")
    /\ state = "AwaitingMarkEcho"
    /\ armed' = armed \ {"markEcho"}
    /\ state' = "Closed"
    /\ UNCHANGED <<running, wedged, turnVars, sttVars, responseIn, vadVars, vadOut,
                   hearing, marks, callVars>>

\* (state, timer) pairs the table wires to one of the handlers above or, for
\* the bed, to handleBedTick, which writes a chunk and re-arms the timer.
Wired(n, s) ==
    \/ n \in {"idle", "utterance", "turn"} /\ s \in InProgress
    \/ n \in {"response", "bedTick"} /\ s = "AwaitingResponse"
    \/ n = "markEcho" /\ s \in {"AwaitingResponsePlayout", "AwaitingMarkEcho"}

\* A timer that fires where it is not wired is spent for nothing.
ignoreTimer(n) ==
    /\ Fires(n)
    /\ ~Wired(n, state)
    /\ armed' = armed \ {n}
    /\ UNCHANGED <<state, running, wedged, turnVars, sttVars, responseIn, vadVars, vadOut,
                   hearing, marks, callVars>>

----------------------------------------------------------------------------
(* The goroutines and peers around the sequencer. *)

\* Keeps the model finite and still lets the caller talk for ever into a
\* session whose pass was lost.
WithinBounds ==
    /\ turn < MaxTurns
    /\ \/ sttReqID < MaxPasses
       \/ state = "AwaitingFullResult" /\ sttDispatchCh = << >> /\ passes = {}

\* Fault: events pile up without bound.
reportUnbounded(kind) ==
    /\ running /\ state # "Idle"
    /\ WithinBounds
    /\ vadOut' = Append(vadOut, kind)
    /\ UNCHANGED <<state, running, wedged, armed, turnVars, sttVars, responseIn, hearing,
                   marks, callVars>>

\* vadMachine.step, reduced to the boundaries the session acts on.  It sees
\* audio once the session forwards it, and its output channel may be full.
VADReports(kind) ==
    /\ running /\ state # "Idle"
    /\ WithinBounds
    /\ Len(vadOut) < VadOutDepth
    /\ vadOut' = Append(vadOut, kind)
    /\ UNCHANGED <<state, running, wedged, armed, turnVars, sttVars, responseIn, hearing,
                   marks, callVars>>

SpeechStarts ==
    /\ ~speaking
    /\ speaking' = TRUE
    /\ turnEndFired' = FALSE
    /\ VADReports("VADSpeech")

UtteranceEnds ==
    /\ speaking
    /\ speaking' = FALSE
    /\ UNCHANGED turnEndFired
    /\ VADReports("VADEndOfUtterance")

SilenceEndsTurn ==
    /\ ~speaking /\ ~turnEndFired
    /\ turnEndFired' = TRUE
    /\ UNCHANGED speaking
    /\ VADReports("VADTurnEnd")

\* drainSTTDispatch hands the oldest request to the STT service.
drainSTTDispatch ==
    /\ running
    /\ sttDispatchCh # << >>
    /\ passes' = passes \cup {Head(sttDispatchCh)}
    /\ sttDispatchCh' = Tail(sttDispatchCh)
    /\ UNCHANGED <<state, running, wedged, armed, turnVars, sttReqID, responseIn, vadVars,
                   vadOut, hearing, marks, callVars>>

\* sttService.run logs a failed transcription and sends no result; the router
\* drops a result for a full or missing route.
PassLost(p) ==
    /\ p \in passes
    /\ passes' = passes \ {p}
    /\ UNCHANGED <<state, running, wedged, armed, turnVars, sttReqID, sttDispatchCh,
                   responseIn, vadVars, vadOut, hearing, marks, callVars>>

\* The consumer answers a delivered turn, once: ReplyRouter.Route or Fail.
ConsumerAnswers(t, ok) ==
    /\ running
    /\ t \in owed
    /\ Len(responseIn) < ResponseInDepth
    /\ owed' = owed \ {t}
    /\ responseIn' = Append(responseIn, [turn |-> t, ok |-> ok])
    /\ UNCHANGED <<state, running, wedged, armed, turnActive, turnEndPending, turnTranscripts,
                   turn, sttVars, vadVars, vadOut, hearing, marks, callVars>>

\* TimerFacility's mutual wait (NoMutualWait): two armed timers are due, the run
\* loop waits for room among the completions, which the sequencer drains, and
\* the sequencer's handler waits for the run loop in Arm, Cancel or IsCurrent.
\* Only Close ends it.
MutualWait ==
    /\ selects /\ Cardinality(armed) >= 2
    /\ wedged' = TRUE
    /\ UNCHANGED <<state, running, armed, turnVars, sttVars, responseIn, vadVars, vadOut,
                   hearing, marks, callVars>>

\* Close, from the stream handler: the context ends the sequencer and every
\* timer goroutine.
Close ==
    /\ running
    /\ running' = FALSE
    /\ wedged' = FALSE
    /\ armed' = {}
    /\ UNCHANGED <<state, turnVars, sttVars, responseIn, vadVars, vadOut, hearing,
                   marks, callVars>>

----------------------------------------------------------------------------

Init ==
    /\ state = "Idle"
    /\ running = TRUE
    /\ wedged = FALSE
    /\ armed = {"idle"}
    /\ turnActive = FALSE
    /\ turnEndPending = FALSE
    /\ turnTranscripts = << >>
    /\ turn = 0
    /\ sttReqID = 0
    /\ sttDispatchCh = << >>
    /\ passes = {}
    /\ owed = {}
    /\ responseIn = << >>
    /\ speaking = FALSE
    /\ turnEndFired = FALSE
    /\ vadOut = << >>
    /\ hearing = FALSE
    /\ marks = << >>
    /\ clip = "none"
    /\ hungUp = FALSE

CarrierInput == handleDataFrame \/ handleStop \/ ignoreStop
    \/ handleResponsePlayoutEcho \/ handleMarkEchoControlEvent \/ ignoreMarkEcho

VADInput == handleSpeechOnset \/ dispatchFullPass \/ handleAwaitingFullResultVADEvent
    \/ handleTurnEnd \/ deferTurnEnd \/ dropVADEvent

STTInput == \E p \in passes :
    handleSTTStopword(p) \/ handleSTTText(p) \/ discardSTTResult(p) \/ PassLost(p)

ResponseInput == handleResponseReady \/ dropResponse

TimerInput ==
    \/ handleIdleTimer \/ handleResponseTimeout
    \/ handleResponsePlayoutBackstop \/ handleMarkEchoTimeout
    \/ \E n \in {"utterance", "turn"} : handleCapTimeout(n)
    \/ \E n \in Timers : ignoreTimer(n)

Environment ==
    \/ SpeechStarts \/ UtteranceEnds \/ SilenceEndsTurn
    \/ drainSTTDispatch
    \/ \E t \in owed, ok \in BOOLEAN : ConsumerAnswers(t, ok)
    \/ MutualWait \/ Close

Next == CarrierInput \/ VADInput \/ STTInput \/ ResponseInput \/ TimerInput
        \/ Environment

Spec == Init /\ [][Next]_vars

\* A timer that stays armed elapses, and the sequencer's select takes its
\* completion as long as the sequencer comes back to it: nothing is assumed of a
\* wedged one, not even that somebody calls Close.  The other two timers are
\* never needed for progress.
FairSpec ==
    /\ Spec
    /\ WF_vars(handleIdleTimer)
    /\ WF_vars(handleCapTimeout("turn"))
    /\ WF_vars(handleResponseTimeout)
    /\ WF_vars(handleResponsePlayoutBackstop)
    /\ WF_vars(handleMarkEchoTimeout)

----------------------------------------------------------------------------
(* Properties. *)

\* Types, with the three channels within their capacities: the dispatch, VAD
\* and answer sends never go past the depth the code makes them with.
TypeOK ==
    /\ state \in States
    /\ running \in BOOLEAN /\ wedged \in BOOLEAN
    /\ armed \subseteq Timers
    /\ turnActive \in BOOLEAN
    /\ turnEndPending \in BOOLEAN
    /\ turnTranscripts \in Seq(Nat)
    /\ turn \in Nat
    /\ sttReqID \in Nat
    /\ sttDispatchCh \in Seq(Request) /\ Len(sttDispatchCh) <= SttDispatchDepth
    /\ passes \subseteq Request
    /\ owed \subseteq Nat
    /\ responseIn \in Seq(Response) /\ Len(responseIn) <= ResponseInDepth
    /\ speaking \in BOOLEAN
    /\ turnEndFired \in BOOLEAN
    /\ vadOut \in Seq(VADKinds) /\ Len(vadOut) <= VadOutDepth
    /\ hearing \in BOOLEAN
    /\ marks \in Seq({"farewell", "response"})
    /\ clip \in {"none", "farewell", "forcedStop"}
    /\ hungUp \in BOOLEAN

(***************************************************************************)
(* No live state lacks a clock: in each one some timer is armed that the   *)
(* transition table wires to a way out of that very state.  A path that    *)
(* cancels one clock without arming the next, or lets it be spent in a     *)
(* state that ignores it, would leave the call hanging.  (That the         *)
(* completion also arrives is the timer facility's part: see MutualWait.)  *)
(***************************************************************************)
EveryWaitIsBounded ==
    (running /\ state # "Closed") =>
        \E n \in armed \ {"bedTick"} : Wired(n, state)

(***************************************************************************)
(* The max-turn cap covers exactly the open turns: it is armed from the    *)
(* first onset of a turn until whatever completes it, and "no current or   *)
(* future completion path can leave it armed".                             *)
(***************************************************************************)
TurnCapCoversTurn ==
    running => (turnActive <=> "turn" \in armed)

(***************************************************************************)
(* A text is delivered with the turn it was spoken in: neither a text      *)
(* already accumulated nor the pass in flight belongs to an earlier turn   *)
(* than the open one ("silently bleeding trailing words from the           *)
(* just-completed turn into the next one").                                *)
(***************************************************************************)
TextStaysInTurn ==
    state \in STTStates =>
        /\ \A i \in 1..Len(turnTranscripts) : turnTranscripts[i] = turn
        /\ \A i \in 1..Len(sttDispatchCh) : sttDispatchCh[i].turn = turn
        /\ \A p \in passes : p.turn = turn

(***************************************************************************)
(* "At most one FullPass is ever pending": one request at most is between  *)
(* the session and its result, it is the awaited one, and outside          *)
(* AwaitingFullResult a live session awaits none.  So the dispatch buffer  *)
(* never overflows and no live result is ever stale.                       *)
(***************************************************************************)
OnePassInFlight ==
    /\ Len(sttDispatchCh) + Cardinality(passes) <= 1
    /\ \A i \in 1..Len(sttDispatchCh) : sttDispatchCh[i].id = sttReqID
    /\ \A p \in passes : p.id = sttReqID
    /\ state \in STTStates \ {"AwaitingFullResult"} => sttDispatchCh = << >> /\ passes = {}

(***************************************************************************)
(* "At most one response is ever pending per turn", and it finds the       *)
(* session waiting for it: while the call is not ending, an unanswered     *)
(* turn or a queued answer belongs to the turn just completed and the      *)
(* session is in AwaitingResponse.                                         *)
(***************************************************************************)
AnswerFindsItsTurn ==
    state \in STTStates =>
        /\ \A t \in owed : state = "AwaitingResponse" /\ t = turn - 1 /\ responseIn = << >>
        /\ \A i \in 1..Len(responseIn) :
              state = "AwaitingResponse" /\ i = 1 /\ responseIn[i].turn = turn - 1

(***************************************************************************)
(* While the agent has the turn, the caller's clocks are off ("the racing  *)
(* 15s silence clock must not also be ticking"), no turn is open and none  *)
(* of its text is still undelivered; while the answer plays, the response  *)
(* cap and the thinking bed are off too.                                   *)
(***************************************************************************)
AgentHasTheTurn ==
    /\ running /\ state \in {"AwaitingResponse", "AwaitingResponsePlayout"} =>
          /\ {"idle", "turn"} \cap armed = {}
          /\ ~turnActive /\ ~turnEndPending /\ turnTranscripts = << >>
    /\ running /\ state \in {"Listening", "AwaitingFullResult", "AwaitingResponsePlayout"} =>
          {"response", "bedTick"} \cap armed = {}

(***************************************************************************)
(* Every state that waits for someone else is left in the end, by timers   *)
(* alone: a lost STT result, an answer that never comes, a carrier that    *)
(* never echoes and a caller who talks on without end are all bounded.     *)
(* Excepted is the session that is wedged with its own timers: two timers  *)
(* due during one handler leave it where it is until Close.                *)
(***************************************************************************)
WaitStates == States \ {"Listening", "Closed"}
NoWaitIsForever ==
    \A s \in WaitStates : (state = s) ~> (state # s \/ ~running \/ wedged)

(***************************************************************************)
(* The idle timer "measures silence, never active speech" (armIdleTimer):  *)
(* within a turn it is not armed while the last thing the session heard of *)
(* the caller is that they are speaking, however many utterances the turn  *)
(* has and whatever is in flight.                                          *)
(***************************************************************************)
IdleNeverMidUtterance ==
    (running /\ state \in InProgress /\ turnActive /\ hearing) => "idle" \notin armed

(***************************************************************************)
(* The clocks that run are those of whoever has the turn: none of the      *)
(* caller's while the agent has it, none of the agent's while the caller   *)
(* has it, and the silence clock never over the caller's speech.           *)
(***************************************************************************)
ClocksFollowTheTurn == AgentHasTheTurn /\ IdleNeverMidUtterance

----------------------------------------------------------------------------
(* Refinement: Session implements CallLifecycle. *)

PhaseOf == [Idle |-> "caller", Listening |-> "caller", AwaitingFullResult |-> "caller",
            AwaitingResponse |-> "agent", AwaitingResponsePlayout |-> "playing",
            AwaitingMarkEcho |-> "ending", Closed |-> "closed"]

Lifecycle == INSTANCE CallLifecycle WITH
    phase <- PhaseOf[state],
    unanswered <- state = "AwaitingResponse" /\ (owed # {} \/ responseIn # << >>),
    open <- running

(***************************************************************************)
(* The session keeps the conversation's protocol: caller and agent         *)
(* alternate, the agent plays one answer per turn and only to a turn it    *)
(* was given, a call ends once and nothing happens after Closed.           *)
(***************************************************************************)
ImplementsLifecycle == Lifecycle!Spec

============================================================================
