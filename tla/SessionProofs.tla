--------------------------- MODULE SessionProofs ---------------------------
(***************************************************************************)
(* TLAPS proofs about Session, for every channel capacity and without the  *)
(* model's bounds mattering: any number of turns and of passes.            *)
(***************************************************************************)
EXTENDS Session, SequenceTheorems, FiniteSetTheorems, TLAPS

USE DEF selects

\* Adding to a channel that has room.
LEMMA SendType ==
    ASSUME NEW S, NEW ch \in Seq(S), NEW e \in S, NEW depth \in Nat, Len(ch) < depth
    PROVE  Append(ch, e) \in Seq(S) /\ Len(Append(ch, e)) <= depth
  BY AppendProperties, LenProperties

\* Receiving from a channel.
LEMMA RecvType ==
    ASSUME NEW S, NEW ch \in Seq(S), ch # << >>, NEW depth \in Nat, Len(ch) <= depth
    PROVE  Head(ch) \in S /\ Tail(ch) \in Seq(S) /\ Len(Tail(ch)) <= depth
  BY HeadTailProperties, LenProperties

\* completeTurn keeps the turn's variables and the timers well typed.
LEMMA CompleteTurnType ==
    ASSUME TypeOK, NEW texts \in Seq(Nat), NEW off, NEW on \in SUBSET Timers,
           completeTurn(texts, off, on)
    PROVE  /\ armed' \subseteq Timers
           /\ turnActive' \in BOOLEAN
           /\ turnEndPending' \in BOOLEAN
           /\ turnTranscripts' \in Seq(Nat)
           /\ turn' \in Nat
           /\ owed' \subseteq Nat
<1>1. armed' \subseteq Timers
  BY DEF TypeOK, completeTurn
<1>2. turn' \in Nat /\ owed' \subseteq Nat
  BY DEF TypeOK, completeTurn
<1>3. turnTranscripts' \in Seq(Nat)
  BY EmptySeq DEF completeTurn
<1> QED
  BY <1>1, <1>2, <1>3 DEF completeTurn

\* Every handler that ends the call with a clip.
LEMMA TerminateType ==
    ASSUME TypeOK, NEW off, NEW c \in {"farewell", "forcedStop"},
           terminateWithClip(off, c),
           UNCHANGED <<running, wedged, sttVars, responseIn, vadVars, vadOut, hearing, hungUp>>
    PROVE  TypeOK'
<1>1. {"markEcho"} \in SUBSET Timers /\ turnTranscripts \in Seq(Nat)
  BY DEF Timers, TypeOK
<1>2. completeTurn(turnTranscripts, off, {"markEcho"})
  BY DEF terminateWithClip
<1>3. marks' \in Seq({"farewell", "response"})
  BY AppendProperties DEF TypeOK, terminateWithClip
<1>4. state' \in States /\ clip' \in {"none", "farewell", "forcedStop"}
  BY DEF terminateWithClip, States
<1> QED
  BY <1>1, <1>2, <1>3, <1>4, CompleteTurnType DEF TypeOK, sttVars, vadVars

\* A turn that goes to the agent.
LEMMA AwaitResponseType ==
    ASSUME TypeOK, NEW texts \in Seq(Nat), enterAwaitingResponse(texts)
    PROVE  /\ state' \in States
           /\ armed' \subseteq Timers
           /\ turnActive' \in BOOLEAN
           /\ turnEndPending' \in BOOLEAN
           /\ turnTranscripts' \in Seq(Nat)
           /\ turn' \in Nat
           /\ owed' \subseteq Nat
<1>1. {"response", "bedTick"} \in SUBSET Timers
  BY DEF Timers
<1> QED
  BY <1>1, CompleteTurnType DEF enterAwaitingResponse, States

\* A turn that an STT result completes.
LEMMA ResultType ==
    ASSUME TypeOK, NEW texts \in Seq(Nat), completeByResult(texts)
    PROVE  /\ state' \in States
           /\ armed' \subseteq Timers
           /\ turnActive' \in BOOLEAN
           /\ turnEndPending' \in BOOLEAN
           /\ turnTranscripts' \in Seq(Nat)
           /\ turn' \in Nat
           /\ owed' \subseteq Nat
<1>1. CASE state = "AwaitingFullResult"
  BY <1>1, AwaitResponseType DEF completeByResult
<1>2. CASE state # "AwaitingFullResult"
  BY <1>2, CompleteTurnType DEF completeByResult, TypeOK
<1> QED
  BY <1>1, <1>2

(***************************************************************************)
(* Type correctness, the capacities of the three channels included.        *)
(***************************************************************************)
THEOREM TypeCorrect == Spec => []TypeOK
<1>1. Init => TypeOK
  <2> SUFFICES ASSUME Init PROVE TypeOK
    OBVIOUS
  <2>1. /\ turnTranscripts \in Seq(Nat)
        /\ sttDispatchCh \in Seq(Request) /\ Len(sttDispatchCh) <= SttDispatchDepth
        /\ responseIn \in Seq(Response) /\ Len(responseIn) <= ResponseInDepth
        /\ vadOut \in Seq(VADKinds) /\ Len(vadOut) <= VadOutDepth
        /\ marks \in Seq({"farewell", "response"})
    BY SessionConstants DEF Init
  <2>2. state \in States /\ armed \subseteq Timers
    BY DEF Init, States, Timers
  <2> QED
    BY <2>1, <2>2 DEF Init, TypeOK
<1>2. TypeOK /\ [Next]_vars => TypeOK'
  <2> SUFFICES ASSUME TypeOK, [Next]_vars PROVE TypeOK'
    OBVIOUS
  <2>1. CASE CarrierInput
    <3>1. CASE handleDataFrame
      BY <3>1 DEF TypeOK, handleDataFrame, States, turnVars, sttVars, vadVars, callVars
    <3>2. CASE handleStop
      <4>1. turnTranscripts \in Seq(Nat) /\ completeTurn(turnTranscripts, {}, {})
        BY <3>2 DEF handleStop, TypeOK
      <4> QED
        BY <3>2, <4>1, CompleteTurnType DEF TypeOK, handleStop, States, sttVars, vadVars
    <3>3. CASE ignoreStop
      BY <3>3 DEF TypeOK, ignoreStop, turnVars, sttVars, vadVars
    <3>4. CASE handleResponsePlayoutEcho
      <4>1. marks' \in Seq({"farewell", "response"})
        BY <3>4, HeadTailProperties DEF TypeOK, handleResponsePlayoutEcho
      <4> QED
        BY <3>4, <4>1 DEF TypeOK, handleResponsePlayoutEcho, States, Timers, turnVars,
                          sttVars, vadVars, callVars
    <3>5. CASE handleMarkEchoControlEvent
      <4>1. marks' \in Seq({"farewell", "response"})
        BY <3>5, HeadTailProperties DEF TypeOK, handleMarkEchoControlEvent
      <4> QED
        BY <3>5, <4>1 DEF TypeOK, handleMarkEchoControlEvent, States, turnVars, sttVars,
                          vadVars, callVars
    <3>6. CASE ignoreMarkEcho
      <4>1. marks' \in Seq({"farewell", "response"})
        BY <3>6, HeadTailProperties DEF TypeOK, ignoreMarkEcho
      <4> QED
        BY <3>6, <4>1 DEF TypeOK, ignoreMarkEcho, turnVars, sttVars, vadVars, callVars
    <3> QED
      BY <2>1, <3>1, <3>2, <3>3, <3>4, <3>5, <3>6 DEF CarrierInput
  <2>2. CASE VADInput
    <3>1. ASSUME NEW kind, VADEvent(kind)
          PROVE  /\ vadOut' \in Seq(VADKinds) /\ Len(vadOut') <= VadOutDepth
                 /\ hearing' \in BOOLEAN
      BY <3>1, RecvType, SessionConstants DEF VADEvent, TypeOK
    <3>2. CASE handleSpeechOnset
      BY <3>1, <3>2 DEF TypeOK, handleSpeechOnset, Timers, sttVars, vadVars, callVars
    <3>3. CASE dispatchFullPass
      <4>1. [id |-> sttReqID + 1, turn |-> turn] \in Request
        BY DEF TypeOK, Request
      <4>2. /\ sttReqID' \in Nat /\ passes' \subseteq Request
            /\ sttDispatchCh' \in Seq(Request) /\ Len(sttDispatchCh') <= SttDispatchDepth
        BY <3>3, <4>1, SendType, SessionConstants DEF TypeOK, dispatchFullPass, dispatchSTT
      <4> QED
        BY <3>1, <3>3, <4>2 DEF TypeOK, dispatchFullPass, onUtteranceEnd, States, Timers,
                                turnVars, vadVars, callVars
    <3>4. CASE handleAwaitingFullResultVADEvent
      BY <3>1, <3>4 DEF TypeOK, handleAwaitingFullResultVADEvent, onUtteranceEnd, Timers,
                        turnVars, sttVars, vadVars, callVars
    <3>5. CASE handleTurnEnd
      <4>1. turnTranscripts \in Seq(Nat) /\ enterAwaitingResponse(turnTranscripts)
        BY <3>5 DEF handleTurnEnd, TypeOK
      <4> QED
        BY <3>1, <3>5, <4>1, AwaitResponseType DEF TypeOK, handleTurnEnd, sttVars,
                                                   vadVars, callVars
    <3>6. CASE deferTurnEnd
      BY <3>1, <3>6 DEF TypeOK, deferTurnEnd, sttVars, vadVars, callVars
    <3>7. CASE dropVADEvent
      BY <3>1, <3>7 DEF TypeOK, dropVADEvent, turnVars, sttVars, vadVars, callVars
    <3> QED
      BY <2>2, <3>2, <3>3, <3>4, <3>5, <3>6, <3>7 DEF VADInput
  <2>3. CASE STTInput
    <3> SUFFICES ASSUME NEW p \in passes,
                        \/ handleSTTStopword(p) \/ handleSTTText(p)
                        \/ discardSTTResult(p) \/ PassLost(p)
                 PROVE  TypeOK'
      BY <2>3 DEF STTInput
    <3>1. CASE handleSTTStopword(p)
      <4>1. turnTranscripts \in Seq(Nat) /\ completeByResult(turnTranscripts)
        BY <3>1 DEF handleSTTStopword, TypeOK
      <4> QED
        BY <3>1, <4>1, ResultType DEF TypeOK, handleSTTStopword, Answered, vadVars, callVars
    <3>2. CASE handleSTTText(p)
      <4> DEFINE texts == Append(turnTranscripts, p.turn)
      <4>1. texts \in Seq(Nat)
        BY AppendProperties DEF TypeOK, Request
      <4>2. CASE completeByResult(texts)
        BY <3>2, <4>1, <4>2, ResultType DEF TypeOK, handleSTTText, Answered, vadVars, callVars
      <4>3. CASE /\ turnTranscripts' = texts
                 /\ state' = IF state = "AwaitingFullResult" THEN "Listening" ELSE state
                 /\ UNCHANGED <<armed, turnActive, turnEndPending, turn, owed>>
        BY <3>2, <4>1, <4>3 DEF TypeOK, handleSTTText, Answered, States, vadVars, callVars
      <4> QED
        BY <3>2, <4>2, <4>3 DEF handleSTTText
    <3>3. CASE discardSTTResult(p)
      BY <3>3 DEF TypeOK, discardSTTResult, Answered, turnVars, vadVars, callVars
    <3>4. CASE PassLost(p)
      BY <3>4 DEF TypeOK, PassLost, turnVars, vadVars, callVars
    <3> QED
      BY <3>1, <3>2, <3>3, <3>4
  <2>4. CASE ResponseInput
    <3>1. /\ responseIn' \in Seq(Response) /\ Len(responseIn') <= ResponseInDepth
      BY <2>4, RecvType, SessionConstants
         DEF TypeOK, ResponseInput, handleResponseReady, dropResponse
    <3>2. CASE handleResponseReady
      <4>1. marks' \in Seq({"farewell", "response"})
        <5>1. Append(marks, "response") \in Seq({"farewell", "response"})
          BY AppendProperties DEF TypeOK
        <5> QED
          BY <3>2, <5>1 DEF TypeOK, handleResponseReady
      <4> QED
        BY <3>1, <3>2, <4>1 DEF TypeOK, handleResponseReady, States, Timers, turnVars,
                                sttVars, vadVars, callVars
    <3>3. CASE dropResponse
      BY <3>1, <3>3 DEF TypeOK, dropResponse, turnVars, sttVars, vadVars, callVars
    <3> QED
      BY <2>4, <3>2, <3>3 DEF ResponseInput
  <2>5. CASE TimerInput
    <3>1. CASE handleIdleTimer
      BY <3>1, TerminateType DEF handleIdleTimer
    <3>2. CASE handleResponseTimeout
      BY <3>2, TerminateType DEF handleResponseTimeout
    <3>3. ASSUME NEW n \in {"utterance", "turn"}, handleCapTimeout(n) PROVE TypeOK'
      BY <3>3, TerminateType DEF handleCapTimeout
    <3>4. CASE handleResponsePlayoutBackstop
      BY <3>4 DEF TypeOK, handleResponsePlayoutBackstop, States, Timers, turnVars, sttVars,
                  vadVars, callVars
    <3>5. CASE handleMarkEchoTimeout
      BY <3>5 DEF TypeOK, handleMarkEchoTimeout, States, turnVars, sttVars, vadVars, callVars
    <3>6. ASSUME NEW n \in Timers, ignoreTimer(n) PROVE TypeOK'
      BY <3>6 DEF TypeOK, ignoreTimer, turnVars, sttVars, vadVars, callVars
    <3> QED
      BY <2>5, <3>1, <3>2, <3>3, <3>4, <3>5, <3>6 DEF TimerInput
  <2>6. CASE Environment
    <3>1. ASSUME NEW kind \in VADKinds, VADReports(kind),
                 speaking' \in BOOLEAN, turnEndFired' \in BOOLEAN
          PROVE  TypeOK'
      <4>1. vadOut' \in Seq(VADKinds) /\ Len(vadOut') <= VadOutDepth
        BY <3>1, SendType, SessionConstants DEF TypeOK, VADReports
      <4> QED
        BY <3>1, <4>1 DEF TypeOK, VADReports, turnVars, sttVars, callVars
    <3>2. CASE SpeechStarts
      BY <3>1, <3>2 DEF SpeechStarts, VADKinds
    <3>3. CASE UtteranceEnds
      BY <3>1, <3>3 DEF UtteranceEnds, VADKinds, TypeOK
    <3>4. CASE SilenceEndsTurn
      BY <3>1, <3>4 DEF SilenceEndsTurn, VADKinds, TypeOK
    <3>5. CASE drainSTTDispatch
      <4>1. /\ Head(sttDispatchCh) \in Request
            /\ sttDispatchCh' \in Seq(Request) /\ Len(sttDispatchCh') <= SttDispatchDepth
        BY <3>5, RecvType, SessionConstants DEF TypeOK, drainSTTDispatch
      <4> QED
        BY <3>5, <4>1 DEF TypeOK, drainSTTDispatch, turnVars, vadVars, callVars
    <3>6. ASSUME NEW t \in owed, NEW ok \in BOOLEAN, ConsumerAnswers(t, ok) PROVE TypeOK'
      <4>1. [turn |-> t, ok |-> ok] \in Response
        BY DEF TypeOK, Response
      <4>2. responseIn' \in Seq(Response) /\ Len(responseIn') <= ResponseInDepth
        BY <3>6, <4>1, SendType, SessionConstants DEF TypeOK, ConsumerAnswers
      <4> QED
        BY <3>6, <4>2 DEF TypeOK, ConsumerAnswers, sttVars, vadVars, callVars
    <3>7. CASE Close \/ MutualWait
      BY <3>7 DEF TypeOK, Close, MutualWait, turnVars, sttVars, vadVars, callVars
    <3> QED
      BY <2>6, <3>2, <3>3, <3>4, <3>5, <3>6, <3>7 DEF Environment
  <2>7. CASE UNCHANGED vars
    BY <2>7 DEF TypeOK, vars, turnVars, sttVars, vadVars, callVars
  <2> QED
    BY <2>1, <2>2, <2>3, <2>4, <2>5, <2>6, <2>7 DEF Next
<1> QED
  BY <1>1, <1>2, PTL DEF Spec

----------------------------------------------------------------------------
(* Every wait is bounded. *)

\* For each live state, a clock that leads out of it is running.
ClockRunning ==
    running =>
        /\ state = "Idle" => "idle" \in armed
        /\ state \in VADStates => "idle" \in armed \/ "utterance" \in armed
        /\ state = "AwaitingResponse" => "response" \in armed
        /\ state \in {"AwaitingResponsePlayout", "AwaitingMarkEcho"} => "markEcho" \in armed

(***************************************************************************)
(* Whatever the caller, the carrier, the STT service and the consumer do   *)
(* or fail to do, the session is never in a live state without an armed    *)
(* timer that the transition table wires to a way out of it.               *)
(***************************************************************************)
THEOREM WaitsAreBounded == Spec => []EveryWaitIsBounded
<1>1. Init => ClockRunning
  BY DEF Init, ClockRunning, VADStates
<1>2. TypeOK /\ ClockRunning /\ [Next]_vars => ClockRunning'
  <2> SUFFICES ASSUME TypeOK, ClockRunning, [Next]_vars PROVE ClockRunning'
    OBVIOUS
  <2> USE DEF ClockRunning, VADStates
  <2>1. CASE CarrierInput
    BY <2>1 DEF CarrierInput, handleDataFrame, handleStop, ignoreStop,
                handleResponsePlayoutEcho, handleMarkEchoControlEvent, ignoreMarkEcho
  <2>2. CASE VADInput
    BY <2>2 DEF VADInput, handleSpeechOnset, dispatchFullPass,
                handleAwaitingFullResultVADEvent, handleTurnEnd, deferTurnEnd, dropVADEvent,
                onUtteranceEnd, enterAwaitingResponse, completeTurn
  <2>3. CASE STTInput
    BY <2>3 DEF STTInput, handleSTTStopword, handleSTTText, discardSTTResult, PassLost,
                completeByResult, enterAwaitingResponse, completeTurn
  <2>4. CASE ResponseInput
    BY <2>4 DEF ResponseInput, handleResponseReady, dropResponse
  <2>5. CASE TimerInput
    <3>1. CASE handleIdleTimer \/ handleResponseTimeout
      BY <3>1 DEF handleIdleTimer, handleResponseTimeout, terminateWithClip, completeTurn
    <3>2. ASSUME NEW n \in {"utterance", "turn"}, handleCapTimeout(n) PROVE ClockRunning'
      BY <3>2 DEF handleCapTimeout, terminateWithClip, completeTurn
    <3>3. CASE handleResponsePlayoutBackstop \/ handleMarkEchoTimeout
      BY <3>3 DEF handleResponsePlayoutBackstop, handleMarkEchoTimeout
    <3>4. ASSUME NEW n \in Timers, ignoreTimer(n) PROVE ClockRunning'
      BY <3>4 DEF ignoreTimer, Wired, InProgress
    <3> QED
      BY <2>5, <3>1, <3>2, <3>3, <3>4 DEF TimerInput
  <2>6. CASE Environment
    BY <2>6 DEF Environment, SpeechStarts, UtteranceEnds, SilenceEndsTurn, VADReports,
                drainSTTDispatch, ConsumerAnswers, MutualWait, Close
  <2>7. CASE UNCHANGED vars
    BY <2>7 DEF vars
  <2> QED
    BY <2>1, <2>2, <2>3, <2>4, <2>5, <2>6, <2>7 DEF Next
<1>3. TypeOK /\ ClockRunning => EveryWaitIsBounded
  BY DEF TypeOK, ClockRunning, EveryWaitIsBounded, Wired, States, VADStates, InProgress
<1> QED
  BY <1>1, <1>2, <1>3, TypeCorrect, PTL DEF Spec

----------------------------------------------------------------------------
(* The max-turn cap. *)

\* A turn is open only where its cap is wired, so the cap is never spent for
\* nothing.
TurnInv == TurnCapCoversTurn /\ (running /\ turnActive => state \in VADStates)

\* Every way a turn can end goes through completeTurn, and no way out of the
\* listening states leaves a turn open.
LEMMA TurnInvInductive == Spec => []TurnInv
<1>1. Init => TurnInv
  BY DEF Init, TurnInv, TurnCapCoversTurn
<1>2. TypeOK /\ TurnInv /\ [Next]_vars => TurnInv'
  <2> SUFFICES ASSUME TypeOK, TurnInv, [Next]_vars PROVE TurnInv'
    OBVIOUS
  <2> USE DEF TurnInv, TurnCapCoversTurn, VADStates
  <2>1. CASE CarrierInput
    BY <2>1 DEF CarrierInput, handleDataFrame, handleStop, ignoreStop,
                handleResponsePlayoutEcho, handleMarkEchoControlEvent, ignoreMarkEcho,
                completeTurn, turnVars
  <2>2. CASE VADInput
    <3>1. CASE handleSpeechOnset
      BY <3>1 DEF handleSpeechOnset, TypeOK
    <3>2. CASE dispatchFullPass \/ handleAwaitingFullResultVADEvent
      BY <3>2 DEF dispatchFullPass, handleAwaitingFullResultVADEvent, onUtteranceEnd,
                  turnVars
    <3>3. CASE handleTurnEnd
      BY <3>3 DEF handleTurnEnd, enterAwaitingResponse, completeTurn
    <3>4. CASE deferTurnEnd \/ dropVADEvent
      BY <3>4 DEF deferTurnEnd, dropVADEvent, turnVars
    <3> QED
      BY <2>2, <3>1, <3>2, <3>3, <3>4 DEF VADInput
  <2>3. CASE STTInput
    BY <2>3 DEF STTInput, handleSTTStopword, handleSTTText, discardSTTResult, PassLost,
                completeByResult, enterAwaitingResponse, completeTurn, turnVars
  <2>4. CASE ResponseInput
    BY <2>4 DEF ResponseInput, handleResponseReady, dropResponse, turnVars
  <2>5. CASE TimerInput
    <3>1. CASE handleIdleTimer \/ handleResponseTimeout
      BY <3>1 DEF handleIdleTimer, handleResponseTimeout, terminateWithClip, completeTurn
    <3>2. ASSUME NEW n \in {"utterance", "turn"}, handleCapTimeout(n) PROVE TurnInv'
      BY <3>2 DEF handleCapTimeout, terminateWithClip, completeTurn
    <3>3. CASE handleResponsePlayoutBackstop \/ handleMarkEchoTimeout
      BY <3>3 DEF handleResponsePlayoutBackstop, handleMarkEchoTimeout, turnVars
    <3>4. ASSUME NEW n \in Timers, ignoreTimer(n) PROVE TurnInv'
      BY <3>4 DEF ignoreTimer, Fires, Wired, InProgress, turnVars
    <3> QED
      BY <2>5, <3>1, <3>2, <3>3, <3>4 DEF TimerInput
  <2>6. CASE Environment
    <3>1. CASE SpeechStarts \/ UtteranceEnds \/ SilenceEndsTurn \/ drainSTTDispatch
      BY <3>1 DEF SpeechStarts, UtteranceEnds, SilenceEndsTurn, VADReports,
                  drainSTTDispatch, turnVars
    <3>2. ASSUME NEW t \in owed, NEW ok \in BOOLEAN, ConsumerAnswers(t, ok) PROVE TurnInv'
      BY <3>2 DEF ConsumerAnswers
    <3>3. CASE Close \/ MutualWait
      BY <3>3 DEF Close, MutualWait, turnVars
    <3> QED
      BY <2>6, <3>1, <3>2, <3>3 DEF Environment
  <2>7. CASE UNCHANGED vars
    BY <2>7 DEF vars, turnVars
  <2> QED
    BY <2>1, <2>2, <2>3, <2>4, <2>5, <2>6, <2>7 DEF Next
<1> QED
  BY <1>1, <1>2, TypeCorrect, PTL DEF Spec

(***************************************************************************)
(* The max-turn cap is armed exactly while a turn is open: every way a     *)
(* turn can end goes through completeTurn, which cancels it, and no way    *)
(* out of the listening states leaves a turn open.                         *)
(***************************************************************************)
THEOREM TurnIsCapped == Spec => []TurnCapCoversTurn
<1>1. TurnInv => TurnCapCoversTurn
  BY DEF TurnInv
<1> QED
  BY <1>1, TurnInvInductive, PTL

----------------------------------------------------------------------------
(* One pass in flight, and its text in the right turn. *)

NoPass == sttDispatchCh = << >> /\ passes = {}

\* The awaited pass waits for drainSTTDispatch ...
QueuedPass == /\ Len(sttDispatchCh) = 1 /\ passes = {}
              /\ sttDispatchCh[1].id = sttReqID
              /\ state \in STTStates => sttDispatchCh[1].turn = turn

\* ... or is with the STT service.
ServedPass == /\ sttDispatchCh = << >>
              /\ \E p \in passes : /\ passes = {p}
                                   /\ p.id = sttReqID
                                   /\ state \in STTStates => p.turn = turn

TextsOfTurn == state \in STTStates =>
    \A i \in 1..Len(turnTranscripts) : turnTranscripts[i] = turn

\* Only AwaitingFullResult, and the states that end the call, have a pass in
\* flight; so whatever completes a turn either consumed its pass or ends the
\* call.
PassInv ==
    /\ NoPass \/ QueuedPass \/ ServedPass
    /\ state \in STTStates \ {"AwaitingFullResult"} => NoPass
    /\ TextsOfTurn

\* A step that ends the call, or leaves the passes, the turn and its texts
\* alone and does not leave AwaitingFullResult for another live state.
LEMMA PassInvKept ==
    ASSUME TypeOK, PassInv, UNCHANGED sttVars,
           \/ state' \notin STTStates
           \/ /\ UNCHANGED <<turn, turnTranscripts>>
              /\ state \in STTStates
              /\ state' \in STTStates
              /\ state = "AwaitingFullResult" => state' = "AwaitingFullResult"
              /\ state' = "AwaitingFullResult" => state = "AwaitingFullResult"
    PROVE  PassInv'
  BY DEF PassInv, NoPass, QueuedPass, ServedPass, TextsOfTurn, sttVars, STTStates, InProgress

\* A step that closes the turn of a state that has no pass in flight.
LEMMA PassInvNewTurn ==
    ASSUME NoPass, UNCHANGED sttVars, turnTranscripts' = << >>
    PROVE  PassInv'
  BY EmptySeq DEF PassInv, NoPass, TextsOfTurn, sttVars

\* PassInv is inductive.
LEMMA PassInvInductive == Spec => []PassInv
<1>1. Init => PassInv
  BY EmptySeq DEF Init, PassInv, NoPass, TextsOfTurn
<1>2. TypeOK /\ PassInv /\ [Next]_vars => PassInv'
  <2> SUFFICES ASSUME TypeOK, PassInv, [Next]_vars PROVE PassInv'
    OBVIOUS
  <2> USE DEF STTStates, InProgress
  <2>1. CASE CarrierInput
    BY <2>1, PassInvKept
       DEF CarrierInput, handleDataFrame, handleStop, ignoreStop, handleResponsePlayoutEcho,
           handleMarkEchoControlEvent, ignoreMarkEcho, turnVars
  <2>2. CASE VADInput
    <3>1. CASE handleSpeechOnset \/ handleAwaitingFullResultVADEvent \/ deferTurnEnd
               \/ dropVADEvent
      BY <3>1, PassInvKept
         DEF handleSpeechOnset, handleAwaitingFullResultVADEvent, deferTurnEnd, dropVADEvent,
             VADStates, turnVars
    <3>2. CASE dispatchFullPass
      <4> DEFINE r == [id |-> sttReqID + 1, turn |-> turn]
      <4>1. NoPass /\ TextsOfTurn
        BY <3>2 DEF dispatchFullPass, PassInv
      <4>2. r \in Request
        BY DEF TypeOK, Request
      <4>3. sttDispatchCh' = Append(<< >>, r) /\ sttReqID' = sttReqID + 1 /\ passes' = {}
        BY <3>2, <4>1, SessionConstants DEF dispatchFullPass, dispatchSTT, NoPass
      <4>4. sttDispatchCh' = <<r>>
        BY <4>3
      <4>5. QueuedPass'
        BY <3>2, <4>3, <4>4 DEF QueuedPass, dispatchFullPass, turnVars
      <4> QED
        BY <3>2, <4>1, <4>5 DEF PassInv, TextsOfTurn, dispatchFullPass, turnVars
    <3>3. CASE handleTurnEnd
      <4>1. NoPass
        BY <3>3 DEF handleTurnEnd, PassInv
      <4> QED
        BY <3>3, <4>1, PassInvNewTurn DEF handleTurnEnd, enterAwaitingResponse, completeTurn
    <3> QED
      BY <2>2, <3>1, <3>2, <3>3 DEF VADInput
  <2>3. CASE STTInput
    <3> SUFFICES ASSUME NEW p \in passes,
                        \/ handleSTTStopword(p) \/ handleSTTText(p)
                        \/ discardSTTResult(p) \/ PassLost(p)
                 PROVE  PassInv'
      BY <2>3 DEF STTInput
    <3>1. /\ sttDispatchCh = << >> /\ passes = {p}
          /\ p.id = sttReqID
          /\ state \in STTStates => p.turn = turn
      BY DEF PassInv, NoPass, QueuedPass, ServedPass
    <3>2. NoPass'
      BY <3>1 DEF NoPass, handleSTTStopword, handleSTTText, discardSTTResult, PassLost, Answered
    <3>3. TextsOfTurn'
      <4>1. CASE turnTranscripts' = << >>
        BY <4>1, EmptySeq DEF TextsOfTurn
      <4>2. CASE UNCHANGED <<state, turn, turnTranscripts>>
        BY <4>2 DEF TextsOfTurn, PassInv
      <4>3. CASE /\ handleSTTText(p)
                 /\ turnTranscripts' = Append(turnTranscripts, p.turn)
                 /\ turn' = turn
        <5>1. state \in STTStates
          BY <4>3 DEF handleSTTText
        <5>2. p.turn = turn /\ turn \in Nat /\ turnTranscripts \in Seq(Nat)
          BY <3>1, <5>1 DEF TypeOK
        <5>3. \A i \in 1..Len(turnTranscripts) : turnTranscripts[i] = turn
          BY <5>1 DEF PassInv, TextsOfTurn
        <5> QED
          BY <4>3, <5>2, <5>3, AppendProperties, LenProperties DEF TextsOfTurn
      <4> QED
        BY <4>1, <4>2, <4>3
           DEF handleSTTStopword, handleSTTText, discardSTTResult, PassLost, completeByResult,
               enterAwaitingResponse, completeTurn, turnVars
    <3> QED
      BY <3>2, <3>3 DEF PassInv
  <2>4. CASE ResponseInput
    BY <2>4, PassInvKept DEF ResponseInput, handleResponseReady, dropResponse, turnVars
  <2>5. CASE TimerInput
    BY <2>5, PassInvKept
       DEF TimerInput, handleIdleTimer, handleResponseTimeout, handleCapTimeout,
           terminateWithClip, handleResponsePlayoutBackstop, handleMarkEchoTimeout,
           ignoreTimer, turnVars
  <2>6. CASE Environment
    <3>1. CASE SpeechStarts \/ UtteranceEnds \/ SilenceEndsTurn \/ MutualWait \/ Close
      BY <3>1, PassInvKept
         DEF SpeechStarts, UtteranceEnds, SilenceEndsTurn, VADReports, MutualWait, Close, turnVars
    <3>2. ASSUME NEW t \in owed, NEW ok \in BOOLEAN, ConsumerAnswers(t, ok) PROVE PassInv'
      BY <3>2, PassInvKept DEF ConsumerAnswers
    <3>3. CASE drainSTTDispatch
      <4>1. QueuedPass /\ sttDispatchCh \in Seq(Request) /\ sttDispatchCh # << >>
        BY <3>3 DEF PassInv, NoPass, ServedPass, drainSTTDispatch, TypeOK
      <4>2. Len(sttDispatchCh') = 0 /\ sttDispatchCh' \in Seq(Request)
        BY <3>3, <4>1, HeadTailProperties DEF drainSTTDispatch, QueuedPass
      <4>3. sttDispatchCh' = << >>
        BY <4>2, EmptySeq
      <4>4. passes' = {sttDispatchCh[1]}
        BY <3>3, <4>1 DEF drainSTTDispatch, QueuedPass
      <4>5. ServedPass'
        BY <3>3, <4>1, <4>3, <4>4 DEF ServedPass, QueuedPass, drainSTTDispatch, turnVars
      <4>6. ~NoPass
        BY <4>1 DEF NoPass
      <4> QED
        BY <3>3, <4>5, <4>6 DEF PassInv, TextsOfTurn, drainSTTDispatch, turnVars
    <3> QED
      BY <2>6, <3>1, <3>2, <3>3 DEF Environment
  <2>7. CASE UNCHANGED vars
    BY <2>7 DEF vars, turnVars, sttVars, PassInv, NoPass, QueuedPass, ServedPass, TextsOfTurn
  <2> QED
    BY <2>1, <2>2, <2>3, <2>4, <2>5, <2>6, <2>7 DEF Next
<1> QED
  BY <1>1, <1>2, TypeCorrect, PTL DEF Spec

(***************************************************************************)
(* "At most one FullPass is ever pending", for every buffer capacity: so   *)
(* dispatchSTT never drops a request and handleSTTResult never sees a      *)
(* superseded one in a live session.                                       *)
(***************************************************************************)
THEOREM OnePass == Spec => []OnePassInFlight
<1>1. PassInv /\ TypeOK => OnePassInFlight
  <2> SUFFICES ASSUME PassInv, TypeOK PROVE OnePassInFlight
    OBVIOUS
  <2>1. CASE NoPass
    BY <2>1, EmptySeq, FS_EmptySet DEF NoPass, OnePassInFlight
  <2>2. CASE QueuedPass /\ ~NoPass
    BY <2>2, FS_EmptySet DEF QueuedPass, OnePassInFlight, PassInv
  <2>3. CASE ServedPass /\ ~NoPass
    <3>1. PICK p \in passes : passes = {p} /\ p.id = sttReqID
      BY <2>3 DEF ServedPass
    <3>2. Cardinality(passes) = 1 /\ Len(sttDispatchCh) = 0
      BY <2>3, <3>1, FS_Singleton, EmptySeq DEF ServedPass
    <3> QED
      BY <2>3, <3>1, <3>2 DEF ServedPass, OnePassInFlight, PassInv
  <2> QED
    BY <2>1, <2>2, <2>3 DEF PassInv
<1> QED
  BY <1>1, PassInvInductive, TypeCorrect, PTL

(***************************************************************************)
(* A text is never delivered with a later turn than the one it was spoken  *)
(* in: completing a turn waits for the pass in flight (turnEndPending), or *)
(* ends the call.                                                          *)
(***************************************************************************)
THEOREM TextIsInItsTurn == Spec => []TextStaysInTurn
<1>1. PassInv /\ TypeOK => TextStaysInTurn
  BY EmptySeq DEF PassInv, NoPass, QueuedPass, ServedPass, TextsOfTurn, TextStaysInTurn
<1> QED
  BY <1>1, PassInvInductive, TypeCorrect, PTL

----------------------------------------------------------------------------
(* The clocks of whoever has the turn. *)

\* ClocksFollowTheTurn, timer by timer, with the state it leaves out: a session
\* that has seen no frame yet runs no clock of the agent's either.
ClockInv ==
    /\ running /\ state \in {"AwaitingResponse", "AwaitingResponsePlayout"} =>
          /\ "idle" \notin armed /\ "turn" \notin armed
          /\ ~turnActive /\ ~turnEndPending /\ turnTranscripts = << >>
    /\ running /\ state \in InProgress \cup {"AwaitingResponsePlayout"} =>
          "response" \notin armed /\ "bedTick" \notin armed
    /\ running /\ state \in InProgress /\ turnActive /\ hearing => "idle" \notin armed

(***************************************************************************)
(* The clocks that run are those of whoever has the turn, and the silence  *)
(* clock never runs over the caller's speech within a turn.  What is       *)
(* needed besides: no turn is open before the first frame (TurnInv), and   *)
(* no result can reach a session that is not waiting for one               *)
(* (OnePassInFlight), so none reopens a turn that was handed to the agent. *)
(***************************************************************************)
THEOREM ClocksAreTheTurns == Spec => []ClocksFollowTheTurn
<1>1. Init => ClockInv
  BY DEF Init, ClockInv, InProgress
<1>2. TypeOK /\ TurnInv /\ OnePassInFlight /\ ClockInv /\ [Next]_vars => ClockInv'
  <2> SUFFICES ASSUME TypeOK, TurnInv, OnePassInFlight, ClockInv, [Next]_vars
               PROVE  ClockInv'
    OBVIOUS
  <2>0. /\ running /\ turnActive => state \in VADStates
        /\ state \in STTStates \ {"AwaitingFullResult"} => passes = {}
    BY DEF TurnInv, OnePassInFlight
  <2> USE DEF ClockInv, InProgress, VADStates
  <2>1. CASE CarrierInput
    BY <2>0, <2>1 DEF CarrierInput, handleDataFrame, handleStop, ignoreStop,
                handleResponsePlayoutEcho, handleMarkEchoControlEvent, ignoreMarkEcho,
                completeTurn, turnVars
  <2>2. CASE VADInput
    <3>1. CASE handleSpeechOnset
      BY <3>1 DEF handleSpeechOnset, VADEvent, TypeOK
    <3>2. CASE dispatchFullPass \/ handleAwaitingFullResultVADEvent
      BY <3>2 DEF dispatchFullPass, handleAwaitingFullResultVADEvent, onUtteranceEnd,
                  VADEvent, turnVars
    <3>3. CASE handleTurnEnd
      BY <3>3 DEF handleTurnEnd, enterAwaitingResponse, completeTurn, VADEvent
    <3>4. CASE deferTurnEnd
      BY <3>4 DEF deferTurnEnd, VADEvent
    <3>5. CASE dropVADEvent
      BY <2>0, <3>5 DEF dropVADEvent, VADEvent, turnVars
    <3> QED
      BY <2>2, <3>1, <3>2, <3>3, <3>4, <3>5 DEF VADInput
  <2>3. CASE STTInput
    <3>1. PICK p \in passes :
             handleSTTStopword(p) \/ handleSTTText(p) \/ discardSTTResult(p) \/ PassLost(p)
      BY <2>3 DEF STTInput
    <3>2. state \notin STTStates \/ state = "AwaitingFullResult"
      BY <2>0, <3>1
    <3>3. CASE handleSTTStopword(p)
      BY <3>2, <3>3 DEF handleSTTStopword, completeByResult, enterAwaitingResponse,
                        completeTurn
    <3>4. CASE handleSTTText(p)
      BY <3>2, <3>4 DEF handleSTTText, completeByResult, enterAwaitingResponse,
                        completeTurn
    <3>5. CASE discardSTTResult(p) \/ PassLost(p)
      BY <3>5 DEF discardSTTResult, PassLost, turnVars
    <3> QED
      BY <3>1, <3>3, <3>4, <3>5
  <2>4. CASE ResponseInput
    BY <2>4 DEF ResponseInput, handleResponseReady, dropResponse, turnVars
  <2>5. CASE TimerInput
    <3>1. CASE handleIdleTimer \/ handleResponseTimeout
      BY <3>1 DEF handleIdleTimer, handleResponseTimeout, terminateWithClip
    <3>2. ASSUME NEW n \in {"utterance", "turn"}, handleCapTimeout(n) PROVE ClockInv'
      BY <3>2 DEF handleCapTimeout, terminateWithClip
    <3>3. CASE handleResponsePlayoutBackstop \/ handleMarkEchoTimeout
      BY <3>3 DEF handleResponsePlayoutBackstop, handleMarkEchoTimeout, turnVars
    <3>4. ASSUME NEW n \in Timers, ignoreTimer(n) PROVE ClockInv'
      BY <3>4 DEF ignoreTimer, turnVars
    <3> QED
      BY <2>5, <3>1, <3>2, <3>3, <3>4 DEF TimerInput
  <2>6. CASE Environment
    <3>1. CASE SpeechStarts \/ UtteranceEnds \/ SilenceEndsTurn \/ drainSTTDispatch
      BY <3>1 DEF SpeechStarts, UtteranceEnds, SilenceEndsTurn, VADReports,
                  drainSTTDispatch, turnVars
    <3>2. ASSUME NEW t \in owed, NEW ok \in BOOLEAN, ConsumerAnswers(t, ok) PROVE ClockInv'
      BY <3>2 DEF ConsumerAnswers
    <3>3. CASE Close \/ MutualWait
      BY <3>3 DEF Close, MutualWait, turnVars
    <3> QED
      BY <2>6, <3>1, <3>2, <3>3 DEF Environment
  <2>7. CASE UNCHANGED vars
    BY <2>7 DEF vars, turnVars
  <2> QED
    BY <2>1, <2>2, <2>3, <2>4, <2>5, <2>6, <2>7 DEF Next
<1>3. ClockInv => ClocksFollowTheTurn
  BY DEF ClockInv, ClocksFollowTheTurn, AgentHasTheTurn, IdleNeverMidUtterance, InProgress
<1> QED
  BY <1>1, <1>2, <1>3, TypeCorrect, TurnInvInductive, OnePass, PTL DEF Spec

----------------------------------------------------------------------------
(* Answers and the turns they answer. *)

NoAnswerDue == owed = {} /\ responseIn = << >>

\* The consumer has the turn just completed ...
TurnOwed == /\ state = "AwaitingResponse"
            /\ owed = {turn - 1} /\ responseIn = << >>

\* ... or has answered it, and the sequencer has not taken the answer yet.
AnswerQueued == /\ state = "AwaitingResponse"
                /\ owed = {} /\ Len(responseIn) = 1
                /\ responseIn[1].turn = turn - 1

AnswerInv == state \in STTStates => NoAnswerDue \/ TurnOwed \/ AnswerQueued

\* A step that ends the call, or leaves the turns and the answers alone and
\* does not leave AwaitingResponse.
LEMMA AnswerInvKept ==
    ASSUME AnswerInv,
           \/ state' \notin STTStates
           \/ /\ UNCHANGED <<turn, owed, responseIn>>
              /\ state \in STTStates
              /\ state = "AwaitingResponse" => state' = "AwaitingResponse"
    PROVE  AnswerInv'
  BY DEF AnswerInv, NoAnswerDue, TurnOwed, AnswerQueued

\* The turn that goes to the agent leaves no other one unanswered.
LEMMA AnswerInvNewTurn ==
    ASSUME TypeOK, AnswerInv, state \in STTStates \ {"AwaitingResponse"}, NEW texts,
           enterAwaitingResponse(texts), UNCHANGED responseIn
    PROVE  AnswerInv'
<1>1. NoAnswerDue
  BY DEF AnswerInv, TurnOwed, AnswerQueued
<1>2. turn' - 1 = turn
  BY DEF TypeOK, enterAwaitingResponse, completeTurn
<1> QED
  BY <1>1, <1>2 DEF AnswerInv, NoAnswerDue, TurnOwed, enterAwaitingResponse, completeTurn

\* AnswerInv is inductive.
LEMMA AnswerInvInductive == Spec => []AnswerInv
<1>1. Init => AnswerInv
  BY DEF Init, AnswerInv, NoAnswerDue
<1>2. TypeOK /\ OnePassInFlight /\ AnswerInv /\ [Next]_vars => AnswerInv'
  <2> SUFFICES ASSUME TypeOK, OnePassInFlight, AnswerInv, [Next]_vars PROVE AnswerInv'
    OBVIOUS
  <2>1. CASE CarrierInput
    BY <2>1, AnswerInvKept
       DEF CarrierInput, handleDataFrame, handleStop, ignoreStop, handleResponsePlayoutEcho,
           handleMarkEchoControlEvent, ignoreMarkEcho, STTStates, InProgress, turnVars
  <2>2. CASE VADInput
    <3>1. CASE handleSpeechOnset \/ handleAwaitingFullResultVADEvent \/ deferTurnEnd
               \/ dropVADEvent \/ dispatchFullPass
      BY <3>1, AnswerInvKept
         DEF handleSpeechOnset, handleAwaitingFullResultVADEvent, deferTurnEnd, dropVADEvent,
             dispatchFullPass, VADStates, STTStates, InProgress, turnVars
    <3>2. CASE handleTurnEnd
      BY <3>2, AnswerInvNewTurn DEF handleTurnEnd, STTStates, InProgress
    <3> QED
      BY <2>2, <3>1, <3>2 DEF VADInput
  <2>3. CASE STTInput
    <3>1. PICK p \in passes :
             handleSTTStopword(p) \/ handleSTTText(p) \/ discardSTTResult(p) \/ PassLost(p)
      BY <2>3 DEF STTInput
    <3>2. state \notin STTStates \/ state = "AwaitingFullResult"
      BY <3>1 DEF OnePassInFlight
    <3>3. CASE discardSTTResult(p) \/ PassLost(p)
      BY <3>3, AnswerInvKept DEF discardSTTResult, PassLost, turnVars
    <3>4. ASSUME NEW texts, state = "AwaitingFullResult", completeByResult(texts),
                 UNCHANGED responseIn
          PROVE  AnswerInv'
      BY <3>4, AnswerInvNewTurn DEF completeByResult, STTStates, InProgress
    <3>5. CASE handleSTTStopword(p)
      BY <3>2, <3>4, <3>5 DEF handleSTTStopword
    <3>6. CASE handleSTTText(p)
      BY <3>2, <3>4, <3>6, AnswerInvKept DEF handleSTTText, STTStates, InProgress
    <3> QED
      BY <3>1, <3>3, <3>5, <3>6
  <2>4. CASE ResponseInput
    <3>1. CASE handleResponseReady
      <4>1. AnswerQueued
        BY <3>1 DEF handleResponseReady, AnswerInv, NoAnswerDue, TurnOwed, STTStates
      <4>2. responseIn' \in Seq(Response) /\ Len(responseIn') = 0
        BY <3>1, <4>1, HeadTailProperties DEF handleResponseReady, AnswerQueued, TypeOK
      <4>3. responseIn' = << >>
        BY <4>2, EmptySeq
      <4> QED
        BY <3>1, <4>1, <4>3 DEF handleResponseReady, AnswerInv, NoAnswerDue, AnswerQueued, turnVars
    <3>2. CASE dropResponse
      BY <3>2 DEF dropResponse, AnswerInv, NoAnswerDue, TurnOwed, AnswerQueued
    <3> QED
      BY <2>4, <3>1, <3>2 DEF ResponseInput
  <2>5. CASE TimerInput
    BY <2>5, AnswerInvKept
       DEF TimerInput, handleIdleTimer, handleResponseTimeout, handleCapTimeout,
           terminateWithClip, handleResponsePlayoutBackstop, handleMarkEchoTimeout,
           ignoreTimer, STTStates, InProgress, turnVars
  <2>6. CASE Environment
    <3>1. CASE SpeechStarts \/ UtteranceEnds \/ SilenceEndsTurn \/ MutualWait \/ Close
               \/ drainSTTDispatch
      BY <3>1, AnswerInvKept
         DEF SpeechStarts, UtteranceEnds, SilenceEndsTurn, VADReports, MutualWait, Close,
             drainSTTDispatch, turnVars
    <3>2. ASSUME NEW t \in owed, NEW ok \in BOOLEAN, ConsumerAnswers(t, ok)
          PROVE  AnswerInv'
      <4> SUFFICES ASSUME state \in STTStates PROVE AnswerInv'
        BY <3>2 DEF ConsumerAnswers, AnswerInv
      <4> DEFINE r == [turn |-> t, ok |-> ok]
      <4>1. TurnOwed
        BY DEF AnswerInv, NoAnswerDue, AnswerQueued
      <4>2. responseIn' = <<r>>
        BY <3>2, <4>1 DEF ConsumerAnswers, TurnOwed
      <4>3. owed' = {} /\ t = turn - 1
        BY <3>2, <4>1 DEF ConsumerAnswers, TurnOwed
      <4>4. AnswerQueued'
        BY <3>2, <4>1, <4>2, <4>3 DEF ConsumerAnswers, TurnOwed, AnswerQueued
      <4> QED
        BY <4>4 DEF AnswerInv
    <3> QED
      BY <2>6, <3>1, <3>2 DEF Environment
  <2>7. CASE UNCHANGED vars
    BY <2>7 DEF vars, turnVars, AnswerInv, NoAnswerDue, TurnOwed, AnswerQueued
  <2> QED
    BY <2>1, <2>2, <2>3, <2>4, <2>5, <2>6, <2>7 DEF Next
<1> QED
  BY <1>1, <1>2, TypeCorrect, OnePass, PTL DEF Spec

(***************************************************************************)
(* "At most one response is ever pending per turn", for every capacity of  *)
(* the answer channel: while the call is not ending, the one turn the      *)
(* consumer owes, or its one queued answer, is the turn just completed and *)
(* finds handleResponseReady's row.  No answer is ever dropped, played to  *)
(* a later turn, or awaited behind another one.                            *)
(***************************************************************************)
THEOREM AnswersFindTheirTurn == Spec => []AnswerFindsItsTurn
<1>1. AnswerInv => AnswerFindsItsTurn
  BY EmptySeq DEF AnswerInv, NoAnswerDue, TurnOwed, AnswerQueued, AnswerFindsItsTurn
<1> QED
  BY <1>1, AnswerInvInductive, PTL

----------------------------------------------------------------------------
(* Refinement of CallLifecycle. *)

\* The lifecycle's view of the call: what its `unanswered` stands for.
Unanswered == state = "AwaitingResponse" /\ (owed # {} \/ responseIn # << >>)

\* Every step of the session is a step of the lifecycle or leaves its view of
\* the call alone.
LEMMA LifecycleStep ==
    ASSUME TypeOK, OnePassInFlight, [Next]_vars
    PROVE  [Lifecycle!Next]_(Lifecycle!vars)
<1> USE DEF PhaseOf, InProgress
<1>0. state \in States
  BY DEF TypeOK
<1>s. ASSUME UNCHANGED <<running, PhaseOf[state], Unanswered>>
      PROVE  UNCHANGED Lifecycle!vars
  BY <1>s DEF Lifecycle!vars, Unanswered
<1>1. CASE CarrierInput
  <2>1. CASE handleDataFrame \/ ignoreStop \/ ignoreMarkEcho
    BY <1>s, <2>1 DEF handleDataFrame, ignoreStop, ignoreMarkEcho, turnVars, Unanswered
  <2>2. CASE handleStop
    BY <2>2 DEF handleStop, Lifecycle!Next, Lifecycle!HangUp
  <2>3. CASE handleResponsePlayoutEcho
    BY <2>3 DEF handleResponsePlayoutEcho, Lifecycle!Next, Lifecycle!Heard
  <2>4. CASE handleMarkEchoControlEvent
    BY <2>4 DEF handleMarkEchoControlEvent, Lifecycle!Next, Lifecycle!HangUp
  <2> QED
    BY <1>1, <2>1, <2>2, <2>3, <2>4 DEF CarrierInput
<1>2. CASE VADInput
  <2>1. CASE handleSpeechOnset \/ handleAwaitingFullResultVADEvent \/ deferTurnEnd
             \/ dropVADEvent \/ dispatchFullPass
    BY <1>s, <2>1
       DEF handleSpeechOnset, handleAwaitingFullResultVADEvent, deferTurnEnd, dropVADEvent,
           dispatchFullPass, turnVars, Unanswered, VADEvent, VADStates
  <2>2. CASE handleTurnEnd
    BY <2>2 DEF handleTurnEnd, VADEvent, enterAwaitingResponse, Lifecycle!Next,
                Lifecycle!TakeTurn
  <2> QED
    BY <1>2, <2>1, <2>2 DEF VADInput
<1>3. CASE STTInput
  <2>1. PICK p \in passes :
           handleSTTStopword(p) \/ handleSTTText(p) \/ discardSTTResult(p) \/ PassLost(p)
    BY <1>3 DEF STTInput
  <2>2. state \notin STTStates \/ state = "AwaitingFullResult"
    BY <2>1 DEF OnePassInFlight
  <2>3. CASE discardSTTResult(p) \/ PassLost(p)
    BY <1>s, <2>3 DEF discardSTTResult, PassLost, turnVars, Unanswered
  <2>4. ASSUME NEW texts, state = "AwaitingFullResult", completeByResult(texts),
               running, UNCHANGED running
        PROVE  Lifecycle!Next
    BY <2>4 DEF completeByResult, enterAwaitingResponse, Lifecycle!Next, Lifecycle!TakeTurn
  <2>5. CASE handleSTTStopword(p)
    BY <2>2, <2>4, <2>5 DEF handleSTTStopword, Answered
  <2>6. CASE handleSTTText(p)
    <3>1. CASE turnEndPending
      BY <2>2, <2>4, <2>6, <3>1 DEF handleSTTText, Answered
    <3>2. CASE ~turnEndPending
      BY <1>s, <2>2, <2>6, <3>2 DEF handleSTTText, Unanswered
    <3> QED
      BY <3>1, <3>2
  <2> QED
    BY <2>1, <2>3, <2>5, <2>6
<1>4. CASE ResponseInput
  <2>1. CASE handleResponseReady
    BY <2>1 DEF handleResponseReady, Lifecycle!Next, Lifecycle!Answer, Lifecycle!Decline
  <2>2. CASE dropResponse
    BY <1>s, <2>2 DEF dropResponse, Unanswered
  <2> QED
    BY <1>4, <2>1, <2>2 DEF ResponseInput
<1>5. CASE TimerInput
  <2>1. CASE handleIdleTimer \/ handleResponseTimeout
             \/ \E n \in {"utterance", "turn"} : handleCapTimeout(n)
    BY <2>1 DEF handleIdleTimer, handleResponseTimeout, handleCapTimeout, Fires,
                terminateWithClip, Lifecycle!Next, Lifecycle!SayGoodbye
  <2>2. CASE handleResponsePlayoutBackstop
    BY <2>2 DEF handleResponsePlayoutBackstop, Fires, Lifecycle!Next, Lifecycle!Heard
  <2>3. CASE handleMarkEchoTimeout
    BY <2>3 DEF handleMarkEchoTimeout, Fires, Lifecycle!Next, Lifecycle!HangUp
  <2>4. CASE \E n \in Timers : ignoreTimer(n)
    BY <1>s, <2>4 DEF ignoreTimer, turnVars, Unanswered
  <2> QED
    BY <1>5, <2>1, <2>2, <2>3, <2>4 DEF TimerInput
<1>6. CASE Environment
  <2>1. CASE SpeechStarts \/ UtteranceEnds \/ SilenceEndsTurn \/ MutualWait \/ drainSTTDispatch
    BY <1>s, <2>1 DEF SpeechStarts, UtteranceEnds, SilenceEndsTurn, VADReports, MutualWait,
                      drainSTTDispatch, turnVars, Unanswered
  <2>2. ASSUME NEW t \in owed, NEW ok \in BOOLEAN, ConsumerAnswers(t, ok)
        PROVE  UNCHANGED Lifecycle!vars
    <3>1. responseIn' # << >>
      BY <2>2, AppendProperties DEF ConsumerAnswers, TypeOK, Response
    <3>2. UNCHANGED Unanswered
      BY <2>2, <3>1 DEF ConsumerAnswers, Unanswered
    <3> QED
      BY <1>s, <2>2, <3>2 DEF ConsumerAnswers
  <2>3. CASE Close
    BY <2>3 DEF Close, turnVars, Lifecycle!Next, Lifecycle!TearDown
  <2> QED
    BY <1>6, <2>1, <2>2, <2>3 DEF Environment
<1>7. CASE UNCHANGED vars
  BY <1>s, <1>7 DEF vars, turnVars, Unanswered
<1> QED
  BY <1>1, <1>2, <1>3, <1>4, <1>5, <1>6, <1>7 DEF Next

(***************************************************************************)
(* The session implements the call's protocol, for every channel capacity: *)
(* caller and agent alternate, an answer is played only to a turn the      *)
(* agent was given and once, the caller's stop never closes the session    *)
(* while an answer plays, and nothing follows Closed.                      *)
(***************************************************************************)
THEOREM RefinesLifecycle == Spec => ImplementsLifecycle
<1>1. Init => Lifecycle!Init
  BY DEF Init, PhaseOf, Lifecycle!Init
<1>2. TypeOK /\ OnePassInFlight /\ [Next]_vars => [Lifecycle!Next]_(Lifecycle!vars)
  BY LifecycleStep
<1> QED
  BY <1>1, <1>2, TypeCorrect, OnePass, PTL
     DEF Spec, ImplementsLifecycle, Lifecycle!Spec
============================================================================
