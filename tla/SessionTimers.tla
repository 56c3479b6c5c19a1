--------------------------- MODULE SessionTimers ---------------------------
(***************************************************************************)
(* The timer commands of every session handler (telephony/state.go), as    *)
(* the client of TimerFacility: which named timers each transition arms    *)
(* and cancels, in the order the code calls the facility.  What a handler  *)
(* does besides is Session's subject; here an input may arrive whenever    *)
(* the transition table wires it in the current state.                     *)
(***************************************************************************)
EXTENDS Sequences

TimerNames == {"idle", "markEcho", "utterance", "response", "turn", "bedTick"}

SessionStates == {"Idle", "Listening", "AwaitingFullResult", "AwaitingResponse",
                  "AwaitingResponsePlayout", "AwaitingMarkEcho", "Closed"}

arm(n) == [op |-> "arm", name |-> n]
cancel(n) == [op |-> "cancel", name |-> n]

On(on, from, to, cmds) == [on |-> on, from |-> from, to |-> to, cmds |-> cmds]

VADStates == {"Listening", "AwaitingFullResult"}

\* inProgressStates.
InProgress == VADStates \cup {"Idle"}

handleDataFrame == {On("input", "Idle", "Listening", << >>)}

handleSpeechOnset ==
    {On("input", s, s, <<cancel("idle"), arm("utterance")>> \o turn) :
        s \in VADStates, turn \in {<< >>, <<arm("turn")>>}}

onUtteranceEnd ==
    {On("input", s, "AwaitingFullResult", <<cancel("utterance"), arm("idle")>>) :
        s \in VADStates}

\* completeTurn, then enterAwaitingResponse.
turnTaken ==
    {On("input", s, "AwaitingResponse",
        <<cancel("turn"), cancel("idle"), arm("response"), arm("bedTick")>>) :
        s \in VADStates}

fullResult == {On("input", "AwaitingFullResult", "Listening", << >>)}

handleControlEvent ==
    {On("input", s, "Closed", <<cancel("turn")>>) : s \in InProgress \cup {"AwaitingResponse"}}

\* handleIdleTimer, handleUtteranceTimeout and handleTurnTimeout.
terminationTimers ==
    {On(n, s, "AwaitingMarkEcho", <<cancel("turn"), arm("markEcho")>>) :
        n \in {"idle", "utterance", "turn"}, s \in InProgress}

handleResponseReady ==
    {On("input", "AwaitingResponse", "Listening",
        <<cancel("response"), cancel("bedTick"), arm("idle")>>),
     On("input", "AwaitingResponse", "AwaitingResponsePlayout",
        <<cancel("response"), cancel("bedTick"), arm("markEcho")>>)}

handleResponseTimeout ==
    {On("response", "AwaitingResponse", "AwaitingMarkEcho",
        <<cancel("bedTick"), cancel("turn"), arm("markEcho")>>)}

handleBedTick == {On("bedTick", "AwaitingResponse", "AwaitingResponse", <<arm("bedTick")>>)}

handleResponsePlayout ==
    {On("input", "AwaitingResponsePlayout", "Listening", <<cancel("markEcho"), arm("idle")>>),
     On("markEcho", "AwaitingResponsePlayout", "Listening", <<arm("idle")>>)}

closeTransport ==
    {On(n, "AwaitingMarkEcho", "Closed", <<cancel("markEcho")>>) : n \in {"input", "markEcho"}}

SessionHandlers ==
    handleDataFrame \cup handleSpeechOnset \cup onUtteranceEnd \cup turnTaken \cup fullResult
    \cup handleControlEvent \cup terminationTimers \cup handleResponseReady
    \cup handleResponseTimeout \cup handleBedTick \cup handleResponsePlayout
    \cup closeTransport
============================================================================
