---------------------------- MODULE CarrierRelay ----------------------------
(***************************************************************************)
(* telephony/twilio/realtime.go and realtime_filler.go: what a realtime    *)
(* call writes to the carrier.  Three goroutines write, through one slot:  *)
(*                                                                         *)
(*   Bridge.Run     the backend's audio (Media) and barge-in clears (Clear) *)
(*   filler.play    the hold loop, while the backend is silent             *)
(*   select loop    the farewell clip and its mark, when a timer ends the  *)
(*                  call                                                   *)
(*                                                                         *)
(* A fourth, the server-event drain, arms the filler; a timer starts it.   *)
(* A write takes the slot, decides inside it whether it is still wanted    *)
(* (build), and only then reaches the wire: two steps here, because the    *)
(* filler's own lock is not the slot.  The carrier is a buffer that plays  *)
(* from its head and that a clear empties.                                 *)
(***************************************************************************)
EXTENDS Integers, Sequences

CONSTANTS
    EventDepth,  \* capacity of Bridge.events
    ClipFrames,  \* frames of the farewell clip; 0 is no clip
    MaxEvents,   \* bound: server events the backend sends
    MaxQueued    \* bound: frames at the carrier when the loop writes another

ASSUME RelayConstants ==
    /\ EventDepth \in Nat \ {0}
    /\ ClipFrames \in Nat
    /\ MaxEvents \in Nat
    /\ MaxQueued \in Nat \ {0}

VARIABLES
    run,        \* Bridge.Run: see RunStages
    sent,       \* server events read so far
    events,     \* Bridge.events, the lossy feed of the drain
    gen,        \* filler.gen
    timer,      \* filler.timer: 0 is nil, else the generation it carries
    firing,     \* generations whose timer function has begun: Stop is too late
    playing,    \* filler.playing
    stopped,    \* filler.stopped, with filler.ctx cancelled
    plays,      \* generations of the play goroutines at their ticker
    writing,    \* 0, or the one of them that holds the write slot
    ending,     \* those that have left their loop and owe endEpisode
    slot,       \* writeSem: "free", or who holds it
    msg,        \* what the holder has decided to write; "none" while it is free
    buffer,     \* what the carrier holds, oldest first
    connOK,     \* the carrier connection accepts writes
    loop,       \* the select loop: see LoopStages
    clip,       \* farewell frames written
    farewelling,\* carrierMediaSink.farewelling
    rearmed,    \* history: the filler was armed after Media last stopped it
    left        \* history: a response.done stopped the loop, and no clear since

fillVars == <<gen, timer, firing, playing, stopped, plays, writing, ending>>
wireVars == <<slot, msg, buffer, connOK>>
loopVars == <<loop, clip, farewelling>>
histVars == <<rearmed, left>>
vars == <<run, sent, events, fillVars, wireVars, loopVars, histVars>>

\* speech_started and turn.resumed are "speech", speech_stopped and turn.ended
\* "stopped"; a response.done is told apart by ResponseEndedInFunctionCall.
ServerEvents == {"delta", "speech", "stopped", "toolDone", "done"}

\* "delta" and "speech" are dispatch about to call Media and Clear; the rest
\* wait for the slot: Media's own clear, its frame, Clear's clear.
RunStages == {"read", "delta", "speech", "ownClear", "ownClearWrite", "mediaWrite",
              "clearWrite", "exited"}

LoopStages == {"select", "stopFiller", "clear", "clearWrite", "claim", "latch", "clip",
               "mark", "wait", "return", "ended"}

----------------------------------------------------------------------------
(* filler: every operation is one critical section of filler.mu. *)

\* cancelPendingLocked.
cancelPendingLocked == gen' = gen + 1 /\ timer' = 0

\* Fault: stopping leaves the generation alone.
stopKeepingGeneration ==
    /\ playing' = FALSE
    /\ timer' = 0
    /\ UNCHANGED gen

\* stop, without its report of whether the loop was playing.
stop ==
    /\ playing' = FALSE
    /\ cancelPendingLocked

\* Fault: a re-arm invalidates whatever runs, a playing loop included.
armOverPlaying ==
    IF stopped \/ timer # 0
    THEN UNCHANGED <<gen, timer, rearmed>>
    ELSE gen' = gen + 1 /\ timer' = gen + 1 /\ rearmed' = TRUE

\* arm: a wait already pending or playing is left alone.
arm ==
    IF stopped \/ timer # 0 \/ playing
    THEN UNCHANGED <<gen, timer, rearmed>>
    ELSE gen' = gen + 1 /\ timer' = gen + 1 /\ rearmed' = TRUE

\* shutdown latches the machine off and cancels its context.
shutdown ==
    /\ stopped' = TRUE
    /\ playing' = FALSE
    /\ cancelPendingLocked

\* The delay has passed; the timer's function now waits for the lock.
DelayElapses ==
    /\ timer # 0 /\ timer \notin firing
    /\ firing' = firing \cup {timer}
    /\ UNCHANGED <<run, sent, events, gen, timer, playing, stopped, plays, writing, ending,
                   wireVars, loopVars, histVars>>

\* start, and the goroutine it launches.
start(g) ==
    /\ g \in firing
    /\ firing' = firing \ {g}
    /\ IF stopped \/ gen # g \/ playing
       THEN UNCHANGED <<timer, playing, plays>>
       ELSE timer' = 0 /\ playing' = TRUE /\ plays' = plays \cup {g}
    /\ UNCHANGED <<run, sent, events, gen, stopped, writing, ending, wireVars, loopVars,
                   histVars>>

\* The deferred receive from writeSem.
release == slot' = "free" /\ msg' = "none"

\* writeFrame's decision, taken inside the slot.
wanted(g) == ~stopped /\ gen = g /\ playing

\* play's tick: the frame takes the slot and is built there.
PlayTakesSlot(g) ==
    /\ g \in plays /\ slot = "free" /\ wanted(g)
    /\ Len(buffer) < MaxQueued
    /\ slot' = "play" /\ msg' = "filler"
    /\ plays' = plays \ {g} /\ writing' = g
    /\ UNCHANGED <<run, sent, events, gen, timer, firing, playing, stopped, ending,
                   buffer, connOK, loopVars, histVars>>

\* play leaves its loop: the frame is no longer wanted, or the context is done.
PlayLeaves(g) ==
    /\ g \in plays
    /\ stopped \/ (slot = "free" /\ ~wanted(g))
    /\ plays' = plays \ {g}
    /\ ending' = ending \cup {g}
    /\ UNCHANGED <<run, sent, events, gen, timer, firing, playing, stopped, writing,
                   wireVars, loopVars, histVars>>

\* conn.Write, afterWrite, and the slot released.
PlayWrites ==
    /\ slot = "play" /\ connOK
    /\ buffer' = Append(buffer, msg)
    /\ release
    /\ plays' = plays \cup {writing} /\ writing' = 0
    /\ UNCHANGED <<run, sent, events, gen, timer, firing, playing, stopped, ending,
                   connOK, loopVars, histVars>>

\* conn.Write fails, and every later write with it; cancelling the context of a
\* write in flight closes the connection too.
PlayWriteFails ==
    /\ slot = "play"
    /\ connOK' = FALSE
    /\ release
    /\ ending' = ending \cup {writing} /\ writing' = 0
    /\ UNCHANGED <<run, sent, events, gen, timer, firing, playing, stopped, plays,
                   buffer, loopVars, histVars>>

\* endEpisode, deferred by play: a generation that has moved on is left alone.
endEpisode(g) ==
    /\ g \in ending
    /\ ending' = ending \ {g}
    /\ IF gen = g
       THEN playing' = FALSE /\ gen' = gen + 1
       ELSE UNCHANGED <<playing, gen>>
    /\ UNCHANGED <<run, sent, events, timer, firing, stopped, plays, writing, wireVars,
                   loopVars, histVars>>

----------------------------------------------------------------------------
(* The server-event drain. *)

\* filler.observe.
observe(ev) ==
    \/ /\ ev \in {"stopped", "toolDone"}
       /\ arm
       /\ UNCHANGED <<playing, left>>
    \/ /\ ev = "done"
       /\ stop
       /\ left' = (left \/ playing \/ slot = "play")
       /\ UNCHANGED rearmed
    \/ /\ ev \in {"delta", "speech"}
       /\ UNCHANGED <<gen, timer, playing, rearmed, left>>

Drain ==
    /\ events # << >>
    /\ observe(Head(events))
    /\ events' = Tail(events)
    /\ UNCHANGED <<run, sent, firing, stopped, plays, writing, ending, wireVars, loopVars>>

----------------------------------------------------------------------------
(* Bridge.Run and the sink it drives. *)

\* Run reads an event, publishes it without blocking, and turns to dispatch it.
ReadEvent(ev) ==
    /\ run = "read" /\ loop # "ended" /\ sent < MaxEvents
    /\ sent' = sent + 1
    /\ events' = IF Len(events) < EventDepth THEN Append(events, ev) ELSE events
    /\ run' = IF ev \in {"delta", "speech"} THEN ev ELSE "read"
    /\ UNCHANGED <<fillVars, wireVars, loopVars, histVars>>

\* Media: stopFillerAndClear stops the loop and owes a clear if it was playing.
Media ==
    /\ run = "delta"
    /\ IF farewelling
       THEN run' = "read" /\ UNCHANGED <<gen, timer, playing, rearmed>>
       ELSE /\ stop
            /\ rearmed' = FALSE
            /\ run' = IF playing THEN "ownClear" ELSE "mediaWrite"
    /\ UNCHANGED <<sent, events, firing, stopped, plays, writing, ending, wireVars,
                   loopVars, left>>

\* clear, up to the slot, with the stage after it when the goodbye owns the
\* carrier, and the stage that waits for the slot.
clear(skip, wait) ==
    /\ IF farewelling
       THEN run' = skip /\ UNCHANGED <<gen, timer, playing>>
       ELSE run' = wait /\ stop
    /\ UNCHANGED <<sent, events, firing, stopped, plays, writing, ending, wireVars,
                   loopVars, histVars>>

OwnClear == run = "ownClear" /\ clear("mediaWrite", "ownClearWrite")

\* Clear: the barge-in signal.
Clear == run = "speech" /\ clear("read", "clearWrite")

\* What Run goes on to when the write it waits for is done or declined.
afterWrite(stage) == IF stage = "ownClearWrite" THEN "mediaWrite" ELSE "read"

RunWrites == {"ownClearWrite", "mediaWrite", "clearWrite"}

\* Fault: the gate is tested before the slot only.
takeSlotUngated ==
    /\ run \in RunWrites /\ slot = "free"
    /\ slot' = "run"
    /\ msg' = IF run = "mediaWrite" THEN "reply" ELSE "clear"
    /\ UNCHANGED <<run, sent, events, fillVars, buffer, connOK, loopVars, histVars>>

\* gatedMessage: Run has the slot, and writes unless the goodbye has taken the
\* carrier since.
RunTakesSlot ==
    /\ run \in RunWrites /\ slot = "free"
    /\ IF farewelling
       THEN run' = afterWrite(run) /\ UNCHANGED <<slot, msg>>
       ELSE /\ slot' = "run"
            /\ msg' = IF run = "mediaWrite" THEN "reply" ELSE "clear"
            /\ UNCHANGED run
    /\ UNCHANGED <<sent, events, fillVars, buffer, connOK, loopVars, histVars>>

\* The carrier after a message: a clear empties its buffer.
put(m) == buffer' = IF m = "clear" THEN << >> ELSE Append(buffer, m)

RunWritesMessage ==
    /\ slot = "run" /\ connOK
    /\ put(msg)
    /\ left' = (left /\ msg # "clear")
    /\ release
    /\ run' = afterWrite(run)
    /\ UNCHANGED <<sent, events, fillVars, connOK, loopVars, rearmed>>

\* A failed write, or a context that ends in the wait for the slot, ends Run.
RunWriteFails ==
    /\ slot = "run" \/ (run \in RunWrites /\ loop = "ended")
    /\ run' = "exited"
    /\ connOK' = (connOK /\ slot # "run")
    /\ IF slot = "run" THEN release ELSE UNCHANGED <<slot, msg>>
    /\ UNCHANGED <<sent, events, fillVars, buffer, loopVars, histVars>>

\* The backend goes away, or Run's context is cancelled: Read fails.
RunEnds ==
    /\ run = "read"
    /\ run' = "exited"
    /\ UNCHANGED <<sent, events, fillVars, wireVars, loopVars, histVars>>

----------------------------------------------------------------------------
(* The select loop. *)

unlessLoop == <<run, sent, events, firing, plays, writing, ending>>

\* The idle guard or the caller-silence bound runs out: endWithFarewell.
TimerExpires ==
    /\ loop = "select"
    /\ loop' = IF ClipFrames = 0 THEN "return" ELSE "stopFiller"
    /\ UNCHANGED <<unlessLoop, gen, timer, playing, stopped, wireVars, clip, farewelling,
                   histVars>>

\* backendDone, carrierDone or a failed send: no farewell.
CallEnds ==
    /\ loop = "select"
    /\ loop' = "return"
    /\ UNCHANGED <<unlessLoop, gen, timer, playing, stopped, wireVars, clip, farewelling,
                   histVars>>

\* playFarewell's own filler.stop, then the one inside clear.
FarewellStops ==
    /\ loop \in {"stopFiller", "clear"}
    /\ loop' = IF loop = "stopFiller" THEN "clear" ELSE "clearWrite"
    /\ stop
    /\ UNCHANGED <<unlessLoop, stopped, wireVars, clip, farewelling, histVars>>

\* The loop's writes, each under its own deadline.
LoopWrites == {"clearWrite", "clip", "mark"}

LoopTakesSlot ==
    /\ loop \in LoopWrites /\ slot = "free"
    /\ slot' = "loop"
    /\ msg' = CASE loop = "clearWrite" -> "clear"
                [] loop = "clip" -> "farewell"
                [] loop = "mark" -> "mark"
    /\ UNCHANGED <<unlessLoop, gen, timer, playing, stopped, buffer, connOK, loopVars,
                   histVars>>

LoopWritesMessage ==
    /\ slot = "loop" /\ connOK
    /\ put(msg)
    /\ left' = (left /\ msg # "clear")
    /\ release
    /\ clip' = IF msg = "farewell" THEN clip + 1 ELSE clip
    /\ loop' = CASE loop = "clearWrite" -> "claim"
                 [] loop = "clip" -> IF clip + 1 < ClipFrames THEN "clip" ELSE "mark"
                 [] loop = "mark" -> "wait"
    /\ UNCHANGED <<unlessLoop, gen, timer, playing, stopped, connOK, farewelling,
                   rearmed>>

\* Fault: the loop's writes have no deadline, only the connection's failure.
failWithoutDeadline ==
    /\ loop \in LoopWrites /\ ~connOK
    /\ loop' = "return"
    /\ IF slot = "loop" THEN release ELSE UNCHANGED <<slot, msg>>
    /\ UNCHANGED <<unlessLoop, gen, timer, playing, stopped, buffer, connOK, clip,
                   farewelling, histVars>>

\* A failed write, or the deadline of boundedWrite in the wait for the slot or
\* in the write itself, ends the attempt.
LoopWriteFails ==
    /\ loop \in LoopWrites
    /\ loop' = "return"
    /\ IF slot = "loop" THEN release ELSE UNCHANGED <<slot, msg>>
    /\ connOK' = (connOK /\ slot # "loop")
    /\ UNCHANGED <<unlessLoop, gen, timer, playing, stopped, buffer, clip,
                   farewelling, histVars>>

\* The clip takes the carrier: farewelling is set, then the filler latched off.
ClaimCarrier ==
    /\ loop \in {"claim", "latch"}
    /\ loop' = IF loop = "claim" THEN "latch" ELSE "clip"
    /\ farewelling' = TRUE
    /\ IF loop = "latch" THEN shutdown ELSE UNCHANGED <<gen, timer, playing, stopped>>
    /\ UNCHANGED <<unlessLoop, wireVars, clip, histVars>>

\* The farewell mark resolves: the carrier echoes it, or its bound, the playout
\* queued ahead of it plus a grace, passes.
MarkResolves ==
    /\ loop = "wait"
    /\ \A i \in DOMAIN buffer : buffer[i] = "mark"
    /\ loop' = "return"
    /\ UNCHANGED <<unlessLoop, gen, timer, playing, stopped, wireVars, clip, farewelling,
                   histVars>>

\* The defers of HandleStreamRealtime: cancelRun, fill.shutdown, CloseNow.
Return ==
    /\ loop = "return"
    /\ loop' = "ended"
    /\ shutdown
    /\ connOK' = FALSE
    /\ UNCHANGED <<unlessLoop, slot, msg, buffer, clip, farewelling, histVars>>

----------------------------------------------------------------------------
(* The carrier. *)

CarrierPlays ==
    /\ buffer # << >>
    /\ buffer' = Tail(buffer)
    /\ UNCHANGED <<run, sent, events, fillVars, slot, msg, connOK, loopVars, histVars>>

----------------------------------------------------------------------------

\* The call is open and nothing said: HandleStreamRealtime arms the filler.
Init ==
    /\ run = "read" /\ sent = 0 /\ events = << >>
    /\ gen = 1 /\ timer = 1 /\ firing = {} /\ playing = FALSE /\ stopped = FALSE
    /\ plays = {} /\ writing = 0 /\ ending = {}
    /\ slot = "free" /\ msg = "none" /\ buffer = << >> /\ connOK = TRUE
    /\ loop = "select" /\ clip = 0 /\ farewelling = FALSE
    /\ rearmed = TRUE /\ left = FALSE

RunStep ==
    \/ \E ev \in ServerEvents : ReadEvent(ev)
    \/ Media \/ OwnClear \/ Clear
    \/ RunTakesSlot \/ RunWritesMessage \/ RunWriteFails \/ RunEnds

FillerStep ==
    \/ DelayElapses
    \/ \E g \in firing : start(g)
    \/ \E g \in plays : PlayTakesSlot(g) \/ PlayLeaves(g)
    \/ PlayWrites \/ PlayWriteFails
    \/ \E g \in ending : endEpisode(g)

LoopStep ==
    \/ TimerExpires \/ CallEnds
    \/ FarewellStops \/ LoopTakesSlot \/ LoopWritesMessage \/ LoopWriteFails
    \/ ClaimCarrier \/ MarkResolves \/ Return

Next == RunStep \/ FillerStep \/ Drain \/ LoopStep \/ CarrierPlays

Spec == Init /\ [][Next]_vars


\* Every goroutine runs; a write may block for as long as the carrier likes,
\* but the select loop's own writes have a deadline, a cancelled context ends
\* the others, and the carrier plays in real time.
FairSpec ==
    /\ Spec
    /\ WF_vars(LoopStep /\ loop # "select")
    /\ WF_vars(Media \/ OwnClear \/ Clear \/ RunTakesSlot)
    /\ WF_vars((RunWriteFails \/ RunEnds) /\ loop = "ended")
    /\ WF_vars(\E g \in plays : PlayLeaves(g))
    /\ WF_vars(PlayWriteFails /\ stopped)
    /\ WF_vars(\E g \in ending : endEpisode(g))
    /\ WF_vars(CarrierPlays)

----------------------------------------------------------------------------

\* Every variable has its type.
TypeOK ==
    /\ run \in RunStages
    /\ sent \in 0..MaxEvents
    /\ events \in Seq(ServerEvents) /\ Len(events) <= EventDepth
    /\ gen \in Nat /\ timer \in Nat /\ firing \subseteq Nat
    /\ playing \in BOOLEAN /\ stopped \in BOOLEAN
    /\ plays \subseteq Nat /\ writing \in Nat /\ ending \subseteq Nat
    /\ slot \in {"free", "run", "play", "loop"}
    /\ msg \in {"none", "clear", "reply", "filler", "farewell", "mark"}
    /\ buffer \in Seq({"reply", "filler", "farewell", "mark"})
    /\ connOK \in BOOLEAN
    /\ loop \in LoopStages /\ clip \in 0..ClipFrames /\ farewelling \in BOOLEAN
    /\ rearmed \in BOOLEAN /\ left \in BOOLEAN

\* The filler is never dead: while it says it is playing, the goroutine of that
\* very episode is there to play or to end it, and while it says a start is
\* pending, that start will be accepted (realtime_filler.go: arm returns early
\* on either).
MachineAlive ==
    /\ playing => gen \in plays \cup {writing} \cup ending
    /\ timer # 0 => timer = gen /\ ~playing

\* Once Media has put the reply on the wire, and until the filler is armed
\* again, the carrier holds no frame of the loop, ahead of the reply or behind
\* it (Media's order: stop, clear, write).  A loop that a response.done stopped
\* is the exception the code accepts: that stop sends no clear.
LoopGoneAfterReply ==
    (run \in {"read", "delta", "speech"} /\ ~rearmed /\ ~left /\ loop = "select")
        => \A i \in DOMAIN buffer : buffer[i] # "filler"

\* From its first frame on, the goodbye owns the carrier: nothing is written
\* behind it but the rest of it and its mark, and nothing clears it away
\* (gatedMessage, playFarewell).
FarewellOwnsCarrier ==
    [][clip > 0 => \/ buffer' = buffer
                   \/ buffer # << >> /\ buffer' = Tail(buffer)
                   \/ \E m \in {"farewell", "mark"} : buffer' = Append(buffer, m)]_vars

\* Once a timer has decided to end the call it ends, whatever the carrier does
\* with its writes, and nothing outlives it (playFarewell's deadlines, the
\* defers of HandleStreamRealtime).
TimerEndsCall ==
    loop = "stopFiller" ~>
        loop = "ended" /\ run = "exited" /\ plays = {} /\ writing = 0 /\ ending = {}
============================================================================
