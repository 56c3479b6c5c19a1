--------------------------- MODULE StreamTeardown ---------------------------
(***************************************************************************)
(* telephony/twilio/session.go and demux.go: how one media stream is read, *)
(* demultiplexed, relayed into the session and torn down.                  *)
(*                                                                         *)
(*  carrier --> handleStream --> data plane    --> data pump    --> dataIn    *)
(*              (read loop) --> control plane --> control pump --> controlIn *)
(*                                                                         *)
(* and behind both inputs the session's sequencer, reduced to what it does *)
(* to them: it takes frames and events one at a time, may reach Closed on  *)
(* a stop event or by its own termination flow, which closes the           *)
(* connection, and exits with its context.  A media frame is its chunk     *)
(* number, a control event is "mark" or "stop".                            *)
(***************************************************************************)
EXTENDS Integers, Sequences, SequencesExt

CONSTANTS
    DataDepth,     \* capacity of the drop-oldest data plane
    InDepth,       \* capacity of the session's data input
    ControlDepth,  \* controlPlaneDepth, of the control plane and the session's input
    MaxChunks,     \* bound: media frames the carrier sends
    MaxMarks       \* bound: mark echoes the carrier sends

ASSUME TeardownConstants ==
    /\ DataDepth \in Nat \ {0}
    /\ InDepth \in Nat \ {0}
    /\ ControlDepth \in Nat \ {0}
    /\ MaxChunks \in Nat
    /\ MaxMarks \in Nat

VARIABLES
    pc,          \* the handleStream goroutine: see Stages
    arrived,     \* media frames read so far; the last one's chunk number
    echoes,      \* mark echoes read so far
    data,        \* dropOldestPlane.ch
    dataClosed,  \* dropOldestPlane.closed
    evicted,     \* history: frames dropped to make room
    control,     \* controlPlaneInput.ch
    overflowed,  \* controlPlaneInput.teardown is closed
    dataPump,    \* pumpDataPlane: "recv", "tap", "send" or "exited"
    dataHand,    \* << >> or the frame it holds
    ctrlPump,    \* pumpControlPlane: "recv", "send" or "exited"
    ctrlHand,    \* << >> or the event it holds
    dataIn,      \* the session's data input, a BufferedChan
    controlIn,   \* the session's control input
    tapIn,       \* frames the tap recorded
    tapClosed,   \* Tap.closed
    heard,       \* history: frames the sequencer took
    sequencer,   \* "running" or "exited"
    closedCh,    \* the session has reached StateClosed
    connDead,    \* the connection is closed or reset
    ctxDone,     \* the stream's context is cancelled
    ctrlDone,    \* the control pump's own context is cancelled
    sessDone     \* the session's own context is cancelled

readVars == <<arrived, echoes, evicted, overflowed>>
pumpVars == <<dataPump, dataHand, ctrlPump, ctrlHand>>
tapVars  == <<tapIn, tapClosed>>
sessVars == <<heard, sequencer, closedCh>>
ctxVars  == <<connDead, ctxDone, ctrlDone, sessDone>>
vars == <<pc, readVars, data, dataClosed, control, pumpVars, dataIn, controlIn,
          tapVars, sessVars, ctxVars>>

\* The read loop ("reading"; "evicting" inside Send once it found the plane
\* full; "waiting" in waitForClosed), then the deferred teardown.
Stages == <<"reading", "evicting", "waiting", "closeData", "cancelControl", "join",
            "closeTap", "closeSession", "sessionExit", "done">>

----------------------------------------------------------------------------
(* handleStream: the read loop. *)

\* conn.Read succeeds.
Reads == pc = "reading" /\ ~ctxDone /\ ~connDead

\* A media frame into a plane with room: dropOldestPlane.Send's first select.
SendMedia ==
    /\ Reads /\ arrived < MaxChunks
    /\ Len(data) < DataDepth
    /\ arrived' = arrived + 1
    /\ data' = Append(data, arrived + 1)
    /\ UNCHANGED <<pc, echoes, evicted, overflowed, dataClosed, control, pumpVars,
                   dataIn, controlIn, tapVars, sessVars, ctxVars>>

\* The first select finds the plane full.
SendFindsFull ==
    /\ Reads /\ arrived < MaxChunks
    /\ Len(data) = DataDepth
    /\ arrived' = arrived + 1
    /\ pc' = "evicting"
    /\ UNCHANGED <<echoes, evicted, overflowed, data, dataClosed, control, pumpVars,
                   dataIn, controlIn, tapVars, sessVars, ctxVars>>

\* Fault: the new frame takes the slot the oldest one left.
reuseOldestSlot ==
    /\ pc = "evicting"
    /\ pc' = "reading"
    /\ data' = <<arrived>> \o (IF data = << >> THEN << >> ELSE Tail(data))
    /\ evicted' = IF data = << >> THEN evicted ELSE evicted \cup {Head(data)}
    /\ UNCHANGED <<arrived, echoes, overflowed, dataClosed, control, pumpVars,
                   dataIn, controlIn, tapVars, sessVars, ctxVars>>

\* The second select drops the oldest frame of whatever the plane holds by
\* now; then there is room.
EvictOldest ==
    /\ pc = "evicting"
    /\ pc' = "reading"
    /\ data' = Append(IF data = << >> THEN << >> ELSE Tail(data), arrived)
    /\ evicted' = IF data = << >> THEN evicted ELSE evicted \cup {Head(data)}
    /\ UNCHANGED <<arrived, echoes, overflowed, dataClosed, control, pumpVars,
                   dataIn, controlIn, tapVars, sessVars, ctxVars>>

\* controlPlaneInput.Send: a full plane signals teardown and returns an error,
\* which the read loop logs.
SendControl(ev) ==
    IF Len(control) < ControlDepth
    THEN control' = Append(control, ev) /\ UNCHANGED overflowed
    ELSE overflowed' = TRUE /\ UNCHANGED control

ReadMark ==
    /\ Reads /\ echoes < MaxMarks
    /\ echoes' = echoes + 1
    /\ SendControl("mark")
    /\ UNCHANGED <<pc, arrived, evicted, data, dataClosed, pumpVars, dataIn,
                   controlIn, tapVars, sessVars, ctxVars>>

ReadStop ==
    /\ Reads
    /\ SendControl("stop")
    /\ pc' = "waiting"
    /\ UNCHANGED <<arrived, echoes, evicted, data, dataClosed, pumpVars, dataIn,
                   controlIn, tapVars, sessVars, ctxVars>>

\* conn.Read fails: the carrier reset the connection, the session closed it,
\* or the context was cancelled.
ReadError ==
    /\ pc = "reading"
    /\ pc' = "closeData"
    /\ UNCHANGED <<readVars, data, dataClosed, control, pumpVars, dataIn, controlIn,
                   tapVars, sessVars, ctxVars>>

\* waitForClosed: the session closes, or stopDrainTimeout passes, at any time.
WaitForClosed ==
    /\ pc = "waiting"
    /\ pc' = "closeData"
    /\ UNCHANGED <<readVars, data, dataClosed, control, pumpVars, dataIn, controlIn,
                   tapVars, sessVars, ctxVars>>

----------------------------------------------------------------------------
(* handleStream: the deferred teardown. *)

\* Fault: the pump is cancelled where the plane should be closed.
cancelInsteadOfClose ==
    /\ pc = "closeData"
    /\ pc' = "cancelControl"
    /\ UNCHANGED <<readVars, data, dataClosed, control, pumpVars, dataIn, controlIn,
                   tapVars, sessVars, ctxVars>>

CloseData ==
    /\ pc = "closeData"
    /\ dataClosed' = TRUE
    /\ pc' = "cancelControl"
    /\ UNCHANGED <<readVars, data, control, pumpVars, dataIn, controlIn, tapVars,
                   sessVars, ctxVars>>

CancelControl ==
    /\ pc = "cancelControl"
    /\ ctrlDone' = TRUE
    /\ pc' = "join"
    /\ UNCHANGED <<readVars, data, dataClosed, control, pumpVars, dataIn, controlIn,
                   tapVars, sessVars, connDead, ctxDone, sessDone>>

\* pumpWG.Wait.
JoinPumps ==
    /\ pc = "join"
    /\ dataPump = "exited" /\ ctrlPump = "exited"
    /\ pc' = "closeTap"
    /\ UNCHANGED <<readVars, data, dataClosed, control, pumpVars, dataIn, controlIn,
                   tapVars, sessVars, ctxVars>>

CloseTap ==
    /\ pc = "closeTap"
    /\ tapClosed' = TRUE
    /\ pc' = "closeSession"
    /\ UNCHANGED <<readVars, data, dataClosed, control, pumpVars, dataIn, controlIn,
                   tapIn, sessVars, ctxVars>>

\* Session.Close cancels the session's context ...
CloseSession ==
    /\ pc = "closeSession"
    /\ sessDone' = TRUE
    /\ pc' = "sessionExit"
    /\ UNCHANGED <<readVars, data, dataClosed, control, pumpVars, dataIn, controlIn,
                   tapVars, sessVars, connDead, ctxDone, ctrlDone>>

\* ... and waits for its goroutines.
SessionExited ==
    /\ pc = "sessionExit"
    /\ sequencer = "exited"
    /\ pc' = "done"
    /\ UNCHANGED <<readVars, data, dataClosed, control, pumpVars, dataIn, controlIn,
                   tapVars, sessVars, ctxVars>>

----------------------------------------------------------------------------
(* pumpDataPlane. *)

dataPumpOthers == <<pc, readVars, dataClosed, control, ctrlPump, ctrlHand, controlIn,
                    sessVars, ctxVars>>

DataRecv ==
    /\ dataPump = "recv" /\ data # << >>
    /\ dataHand' = <<Head(data)>>
    /\ data' = Tail(data)
    /\ dataPump' = "tap"
    /\ UNCHANGED <<dataPumpOthers, dataIn, tapVars>>

\* Fault: the pump ends on the close and leaves what is buffered.
exitOnClose ==
    /\ dataPump = "recv" /\ dataClosed
    /\ dataPump' = "exited"
    /\ UNCHANGED <<dataPumpOthers, data, dataHand, dataIn, tapVars>>

\* Recv on a closed and empty channel: errPlaneClosed.
DataDrained ==
    /\ dataPump = "recv" /\ data = << >> /\ dataClosed
    /\ dataPump' = "exited"
    /\ UNCHANGED <<dataPumpOthers, data, dataHand, dataIn, tapVars>>

\* tap.WriteIn and DrainOut.
TapWriteIn ==
    /\ dataPump = "tap"
    /\ tapIn' = IF tapClosed THEN tapIn ELSE tapIn \o dataHand
    /\ dataPump' = "send"
    /\ UNCHANGED <<dataPumpOthers, data, dataHand, dataIn, tapClosed>>

\* dataIn.Send waits for room.
DataSend ==
    /\ dataPump = "send" /\ Len(dataIn) < InDepth
    /\ dataIn' = dataIn \o dataHand
    /\ dataHand' = << >>
    /\ dataPump' = "recv"
    /\ UNCHANGED <<dataPumpOthers, data, tapVars>>

\* Recv or Send sees the cancelled context; a frame in hand is lost.
DataAbort ==
    /\ dataPump \in {"recv", "send"} /\ ctxDone
    /\ dataPump' = "exited"
    /\ dataHand' = << >>
    /\ UNCHANGED <<dataPumpOthers, data, dataIn, tapVars>>

----------------------------------------------------------------------------
(* pumpControlPlane. *)

ctrlPumpOthers == <<pc, readVars, data, dataClosed, dataPump, dataHand, dataIn,
                    tapVars, sessVars, ctxVars>>

ControlRecv ==
    /\ ctrlPump = "recv" /\ control # << >>
    /\ ctrlHand' = <<Head(control)>>
    /\ control' = Tail(control)
    /\ ctrlPump' = "send"
    /\ UNCHANGED <<ctrlPumpOthers, controlIn>>

ControlSend ==
    /\ ctrlPump = "send" /\ Len(controlIn) < ControlDepth
    /\ controlIn' = controlIn \o ctrlHand
    /\ ctrlHand' = << >>
    /\ ctrlPump' = "recv"
    /\ UNCHANGED <<ctrlPumpOthers, control>>

ControlAbort ==
    /\ ctrlPump \in {"recv", "send"} /\ (ctxDone \/ ctrlDone)
    /\ ctrlPump' = "exited"
    /\ ctrlHand' = << >>
    /\ UNCHANGED <<ctrlPumpOthers, control, controlIn>>

----------------------------------------------------------------------------
(* The sequencer and the world. *)

sequencerOthers == <<pc, readVars, data, dataClosed, control, pumpVars, tapVars>>

TakeData ==
    /\ sequencer = "running" /\ dataIn # << >>
    /\ heard' = Append(heard, Head(dataIn))
    /\ dataIn' = Tail(dataIn)
    /\ UNCHANGED <<sequencerOthers, controlIn, sequencer, closedCh, ctxVars>>

\* A stop closes the session, except where a mark's echo owns the control row.
TakeControl ==
    /\ sequencer = "running" /\ controlIn # << >>
    /\ controlIn' = Tail(controlIn)
    /\ closedCh' \in {closedCh, closedCh \/ Head(controlIn) = "stop"}
    /\ UNCHANGED <<sequencerOthers, dataIn, heard, sequencer, ctxVars>>

\* closeTransport, at the end of the session's own termination flow.
Terminate ==
    /\ sequencer = "running" /\ ~closedCh
    /\ closedCh' = TRUE
    /\ connDead' = TRUE
    /\ UNCHANGED <<sequencerOthers, dataIn, controlIn, heard, sequencer, ctxDone,
                   ctrlDone, sessDone>>

SequencerExit ==
    /\ sequencer = "running" /\ (ctxDone \/ sessDone)
    /\ sequencer' = "exited"
    /\ UNCHANGED <<sequencerOthers, dataIn, controlIn, heard, closedCh, ctxVars>>

CancelContext ==
    /\ ~ctxDone
    /\ ctxDone' = TRUE
    /\ UNCHANGED <<sequencerOthers, dataIn, controlIn, sessVars, connDead, ctrlDone, sessDone>>

----------------------------------------------------------------------------

Init ==
    /\ pc = "reading"
    /\ arrived = 0
    /\ echoes = 0
    /\ data = << >> /\ dataClosed = FALSE /\ evicted = {}
    /\ control = << >> /\ overflowed = FALSE
    /\ dataPump = "recv" /\ dataHand = << >>
    /\ ctrlPump = "recv" /\ ctrlHand = << >>
    /\ dataIn = << >> /\ controlIn = << >>
    /\ tapIn = << >> /\ tapClosed = FALSE
    /\ heard = << >> /\ sequencer = "running" /\ closedCh = FALSE
    /\ connDead = FALSE /\ ctxDone = FALSE /\ ctrlDone = FALSE /\ sessDone = FALSE

ReadLoop == SendMedia \/ SendFindsFull \/ ReadMark \/ ReadStop \/ ReadError

\* What handleStream does without waiting for the carrier.
Teardown == EvictOldest \/ WaitForClosed \/ CloseData \/ CancelControl \/ JoinPumps
    \/ CloseTap \/ CloseSession \/ SessionExited

DataPump == DataRecv \/ DataDrained \/ TapWriteIn \/ DataSend \/ DataAbort

ControlPump == ControlRecv \/ ControlSend \/ ControlAbort

Sequencer == TakeData \/ TakeControl \/ SequencerExit

Next == ReadLoop \/ Teardown \/ DataPump \/ ControlPump \/ Sequencer \/ Terminate
        \/ CancelContext

Spec == Init /\ [][Next]_vars

\* Go runs the handler and both pumps, and a Read on a closed connection or
\* with a cancelled context returns; the carrier owes nothing.
ReadFails == (ctxDone \/ connDead) /\ ReadError

PumpFairness == /\ WF_vars(ReadFails)
                /\ WF_vars(Teardown)
                /\ WF_vars(DataPump)
                /\ WF_vars(ControlPump)

\* The sequencer runs too.  Its select takes both inputs and its context in turn.
FairSpec == /\ Spec
            /\ PumpFairness
            /\ WF_vars(TakeData)
            /\ WF_vars(TakeControl)
            /\ WF_vars(SequencerExit)

----------------------------------------------------------------------------
(* Properties. *)

\* Types, with every plane and input within the depth handleStream makes it
\* with, and at most one item in a pump's hand.
TypeOK ==
    /\ pc \in Range(Stages)
    /\ arrived \in 0..MaxChunks
    /\ echoes \in 0..MaxMarks
    /\ data \in Seq(Nat) /\ Len(data) <= DataDepth
    /\ dataClosed \in BOOLEAN
    /\ evicted \subseteq Nat
    /\ control \in Seq({"mark", "stop"}) /\ Len(control) <= ControlDepth
    /\ overflowed \in BOOLEAN
    /\ dataPump \in {"recv", "tap", "send", "exited"}
    /\ dataHand \in Seq(Nat) /\ Len(dataHand) <= 1
    /\ ctrlPump \in {"recv", "send", "exited"}
    /\ ctrlHand \in Seq({"mark", "stop"}) /\ Len(ctrlHand) <= 1
    /\ dataIn \in Seq(Nat) /\ Len(dataIn) <= InDepth
    /\ controlIn \in Seq({"mark", "stop"}) /\ Len(controlIn) <= ControlDepth
    /\ tapIn \in Seq(Nat)
    /\ tapClosed \in BOOLEAN
    /\ heard \in Seq(Nat)
    /\ sequencer \in {"running", "exited"}
    /\ closedCh \in BOOLEAN
    /\ connDead \in BOOLEAN /\ ctxDone \in BOOLEAN
    /\ ctrlDone \in BOOLEAN /\ sessDone \in BOOLEAN

(***************************************************************************)
(* "Every pre-stop item is processed before close": on every exit but a    *)
(* cancelled context, when the tap closes each frame that was read is in   *)
(* the recording or was evicted earlier, and the session was given exactly *)
(* what was recorded.                                                      *)
(***************************************************************************)
DrainedBeforeClose ==
    tapClosed /\ ~ctxDone =>
        /\ 1..arrived = Range(tapIn) \cup evicted
        /\ tapIn = heard \o dataIn

(***************************************************************************)
(* Audio keeps its order end to end: what the sequencer took, what waits   *)
(* for it, the frame in the pump's hand and what the plane still holds     *)
(* are strictly increasing chunks, none twice, whatever was evicted while  *)
(* the pump was receiving.                                                 *)
(***************************************************************************)
AudioInOrder ==
    LET stream == heard \o dataIn \o dataHand \o data
    IN  \A i \in 1..Len(stream) - 1 : stream[i] < stream[i + 1]

(***************************************************************************)
(* "Close runs only after the drain-complete barrier": once the tap is     *)
(* closed no pump is alive to write to it, and the session outlives the    *)
(* pumps that feed it.                                                     *)
(***************************************************************************)
NoUseAfterClose ==
    tapClosed \/ sessDone => dataPump = "exited" /\ ctrlPump = "exited"

(***************************************************************************)
(* The barrier of handleStream's deferred teardown holds: tap and session  *)
(* close behind the pumps, and behind everything the pumps had to deliver. *)
(***************************************************************************)
CloseFollowsDrain == DrainedBeforeClose /\ NoUseAfterClose

(***************************************************************************)
(* Once the read loop ends, the connection dies or the context is          *)
(* cancelled, the call is torn down completely, whatever each goroutine    *)
(* was doing.                                                              *)
(***************************************************************************)
Ending == ctxDone \/ connDead \/ pc \notin {"reading", "evicting"}
TeardownCompletes == Ending ~> pc = "done"
============================================================================
