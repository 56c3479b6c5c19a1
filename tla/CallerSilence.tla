--------------------------- MODULE CallerSilence ----------------------------
(***************************************************************************)
(* telephony/twilio/realtime_callersilence.go, with the parts of           *)
(* realtime.go, realtime_marks.go and realtime/bridge.go that drive it: the *)
(* bound on how long a caller may say nothing once the agent's audio has   *)
(* finished playing.                                                       *)
(*                                                                         *)
(* Bridge.Run stops the count without loss, from Clear and from inside     *)
(* Media's write slot; the server-event drain, which loses events, asks    *)
(* for the playout mark whose echo starts it; the select loop writes that  *)
(* mark and acts when the count runs out; the tracker resolves the mark,   *)
(* on the carrier's echo or on its bound; the count is a timer whose       *)
(* function may already have begun when it is stopped.  Every playout mark *)
(* has its own name, so a mark is the number nextMarkName gave it.         *)
(***************************************************************************)
EXTENDS Integers, Sequences, FiniteSets

CONSTANTS
    EventDepth,  \* capacity of Bridge.events
    MaxEvents    \* bound: server events the backend sends

ASSUME SilenceConstants ==
    /\ EventDepth \in Nat \ {0}
    /\ MaxEvents \in Nat

VARIABLES
    run,        \* Bridge.Run: "read", "delta", "account", "speech", "clear"
    sent,       \* server events read so far
    events,     \* Bridge.events
    starts,     \* callerSilence.starts: speech starts the sink saw
    heard,      \* callerSilence.heard: speech starts the drain saw
    wantHeard,  \* callerSilence.wantHeard
    gen,        \* callerSilence.gen
    seq,        \* callerSilence.seq
    speaking,   \* callerSilence.speaking, the drain's latch
    audio,      \* callerSilence.audio: agent audio no mark follows yet
    pending,    \* callerSilence.pending: a tool round trip is under way
    want,       \* callerSilence.want
    count,      \* 0, or the generation of the running countdown (running, timer)
    firing,     \* generations whose timer function has begun
    due,        \* callerSilence.due
    dueCh,      \* a signal is waiting in dueCh
    firedCh,    \* a signal is waiting in firedCh
    loop,       \* the select loop: "select", "claim", "write", "arm" or "ended"
    mark,       \* the mark in hand: its tag, then its generation
    slot,       \* writeSem: "free", "run" or "loop"
    tracked,    \* markTracker.outstanding: mark -> the generation it carries
    marks,      \* the carrier: marks it has not reached
    audioLeft,  \* the carrier: agent audio to play, by the last mark ahead of it
    cause,      \* why the call ended: "none", "silence" or "other"
    talking,    \* history: the caller is speaking, by what the sink was told
    fresh,      \* history: agent audio since the caller or a tool call came in
    lost,       \* history: the drain has lost an event other than audio
    tooled,     \* history: a response has ended in a function call
    owed        \* history: the agent has finished its turn, and the drain knows

carrier   == <<marks, audioLeft>>
drainVars == <<heard, wantHeard, speaking, pending, want>>
timeVars  == <<count, firing, due, firedCh>>
loopVars  == <<loop, mark, seq, cause>>
histVars  == <<talking, fresh, lost, tooled, owed>>
vars == <<run, sent, events, starts, drainVars, gen, audio, timeVars, dueCh, loopVars,
          slot, tracked, carrier, histVars>>

\* speech_started and turn.resumed are "speech"; turn.ended means nothing here.
ServerEvents == {"delta", "speech", "stopped", "toolDone", "done"}

latched == loop = "ended"

\* stopTimerLocked: a function that has begun is not stopped by it.
stopTimerLocked == count' = 0 /\ due' = FALSE

----------------------------------------------------------------------------
(* Bridge.Run. *)

\* What the event means for the histories.
remember(ev, dropped) ==
    /\ talking' = (talking /\ ev # "stopped")
    /\ fresh' = (ev = "delta" \/ (fresh /\ ev \notin {"speech", "toolDone"}))
    /\ lost' = (lost \/ (dropped /\ ev # "delta"))
    /\ tooled' = (tooled \/ ev = "toolDone")
    /\ owed' = (~lost' /\ \/ ev = "done" /\ fresh /\ ~talking
                          \/ ev = "stopped" /\ owed)

\* Run reads an event, publishes it without blocking, and turns to dispatch it.
ReadEvent(ev) ==
    /\ run = "read" /\ ~latched /\ sent < MaxEvents
    /\ sent' = sent + 1
    /\ events' = IF Len(events) < EventDepth THEN Append(events, ev) ELSE events
    /\ run' = IF ev \in {"delta", "speech"} THEN ev ELSE "read"
    /\ remember(ev, Len(events) = EventDepth)
    /\ UNCHANGED <<starts, drainVars, gen, audio, timeVars, dueCh, loopVars, slot,
                   tracked, carrier>>

\* The last mark written, or a number between it and the one being claimed.
lastMark == IF loop = "claim" THEN seq - 1 ELSE seq

\* Media takes the slot and writes the frame.
Media ==
    /\ run = "delta" /\ slot = "free" /\ ~latched
    /\ run' = "account" /\ slot' = "run"
    /\ audioLeft' = audioLeft \cup {lastMark}
    /\ UNCHANGED <<sent, events, starts, drainVars, gen, audio, timeVars, dueCh, loopVars,
                   tracked, marks, histVars>>

\* agentAudio, inside the slot as the frame's afterWrite.
agentAudio ==
    /\ run = "account"
    /\ run' = "read" /\ slot' = "free"
    /\ audio' = TRUE
    /\ gen' = gen + 1
    /\ stopTimerLocked
    /\ UNCHANGED <<sent, events, starts, drainVars, firing, firedCh, dueCh, loopVars,
                   tracked, carrier, histVars>>

\* Clear: callerSpoke, before the clear is written.
callerSpoke ==
    /\ run = "speech" /\ ~latched
    /\ run' = "clear"
    /\ starts' = starts + 1
    /\ audio' = FALSE
    /\ gen' = gen + 1
    /\ stopTimerLocked
    /\ talking' = TRUE
    /\ UNCHANGED <<sent, events, drainVars, firing, firedCh, dueCh, loopVars, slot,
                   tracked, carrier, fresh, lost, tooled, owed>>

\* The clear itself: the carrier drops its audio and keeps its marks, to echo.
WriteClear ==
    /\ run = "clear" /\ slot = "free" /\ ~latched
    /\ run' = "read"
    /\ audioLeft' = {}
    /\ UNCHANGED <<sent, events, starts, drainVars, gen, audio, timeVars, dueCh, loopVars,
                   slot, tracked, marks, histVars>>

----------------------------------------------------------------------------
(* The server-event drain: callerSilence.observe. *)

observeSpeech ==
    /\ heard' = heard + 1
    /\ speaking' = TRUE
    /\ UNCHANGED <<wantHeard, pending, want, count, due, dueCh>>

observeStopped ==
    /\ speaking' = FALSE
    /\ UNCHANGED <<heard, wantHeard, pending, want, count, due, dueCh>>

observeToolDone ==
    /\ pending' = TRUE
    /\ want' = FALSE
    /\ stopTimerLocked
    /\ UNCHANGED <<heard, wantHeard, speaking, dueCh>>

observeDone ==
    /\ pending' = FALSE
    /\ IF speaking
       THEN UNCHANGED <<want, wantHeard, dueCh>>
       ELSE want' = TRUE /\ wantHeard' = heard /\ dueCh' = TRUE
    /\ UNCHANGED <<heard, speaking, count, due>>

observe(ev) ==
    \/ ev = "speech" /\ observeSpeech
    \/ ev = "stopped" /\ observeStopped
    \/ ev = "toolDone" /\ observeToolDone
    \/ ev = "done" /\ observeDone
    \/ ev = "delta" /\ UNCHANGED <<drainVars, count, due, dueCh>>

Drain ==
    /\ events # << >> /\ ~latched
    /\ observe(Head(events))
    /\ events' = Tail(events)
    /\ UNCHANGED <<run, sent, starts, gen, audio, firing, firedCh, loopVars, slot, tracked, carrier, histVars>>

----------------------------------------------------------------------------
(* The select loop. *)

\* markDue: handlePlayoutMark takes the request, if it still stands, and names
\* the mark.
MarkDue ==
    /\ loop = "select" /\ dueCh
    /\ dueCh' = FALSE
    /\ want' = FALSE
    /\ IF want
       THEN loop' = "claim" /\ mark' = wantHeard /\ seq' = seq + 1
       ELSE UNCHANGED <<loop, mark, seq>>
    /\ UNCHANGED <<run, sent, events, starts, heard, wantHeard, speaking, pending, gen,
                   audio, timeVars, cause, slot, tracked, carrier, histVars>>

\* playoutMark has the slot and claims there: the mark is written only if the
\* sink has counted no speech start the drain had not seen, and agent audio
\* reached the carrier that no mark follows.
claim ==
    /\ loop = "claim" /\ slot = "free"
    /\ IF starts = mark /\ audio
       THEN loop' = "write" /\ slot' = "loop" /\ audio' = FALSE /\ mark' = gen
       ELSE loop' = "select" /\ mark' = 0 /\ UNCHANGED <<slot, audio>>
    /\ UNCHANGED <<run, sent, events, starts, drainVars, gen, timeVars, dueCh, seq, cause,
                   tracked, carrier, histVars>>

WriteMark ==
    /\ loop = "write"
    /\ loop' = "arm"
    /\ marks' = marks \cup {seq}
    /\ UNCHANGED <<run, sent, events, starts, drainVars, gen, audio, timeVars, dueCh, mark,
                   seq, cause, slot, tracked, audioLeft, histVars>>

\* armPlayout, inside the slot as the mark's afterWrite.
armPlayout ==
    /\ loop = "arm"
    /\ loop' = "select" /\ slot' = "free" /\ mark' = 0
    /\ tracked' = [m \in DOMAIN tracked \cup {seq} |-> IF m = seq THEN mark ELSE tracked[m]]
    /\ UNCHANGED <<run, sent, events, starts, drainVars, gen, audio, timeVars, dueCh, seq,
                   cause, carrier, histVars>>

\* Fault: the signal alone ends the call.
endOnSignal ==
    /\ loop = "select" /\ firedCh
    /\ firedCh' = FALSE
    /\ loop' = "ended" /\ cause' = "silence"
    /\ stopTimerLocked
    /\ UNCHANGED <<run, sent, events, starts, drainVars, gen, audio, firing, dueCh, mark,
                   seq, slot, tracked, carrier, histVars>>

\* expired: end re-checks under the lock that the count still stands.
end ==
    /\ loop = "select" /\ firedCh
    /\ firedCh' = FALSE
    /\ IF due
       THEN loop' = "ended" /\ cause' = "silence" /\ stopTimerLocked
       ELSE UNCHANGED <<loop, cause, count, due>>
    /\ UNCHANGED <<run, sent, events, starts, drainVars, gen, audio, firing, dueCh, mark,
                   seq, slot, tracked, carrier, histVars>>

\* The call ends another way, a failed mark write included: silence.stop.
CallEnds ==
    /\ ~latched
    /\ loop' = "ended" /\ cause' = "other"
    /\ stopTimerLocked
    /\ UNCHANGED <<run, sent, events, starts, drainVars, gen, audio, firing, firedCh, dueCh,
                   mark, seq, slot, tracked, carrier, histVars>>

----------------------------------------------------------------------------
(* The carrier, the tracker and the countdown. *)

\* Fault: a mark's echo starts the count whatever followed the mark.
playedRegardless(g) ==
    IF pending \/ count # 0
    THEN UNCHANGED <<count, due>>
    ELSE count' = gen /\ due' = FALSE

\* played: the count starts if nothing has happened since the mark was written,
\* no reply is pending and no count runs.
played(g) ==
    IF g # gen \/ pending \/ count # 0
    THEN UNCHANGED <<count, due>>
    ELSE count' = gen /\ due' = FALSE

\* The mark leaves the tracker and its generation is reported.
resolve(m) ==
    /\ played(tracked[m])
    /\ tracked' = [k \in DOMAIN tracked \ {m} |-> tracked[k]]

\* The carrier plays and echoes in the order it was written to.
nextIsAudio(a) == (\A m \in marks : a < m) /\ (\A b \in audioLeft : a <= b)
nextIsMark(m)  == (\A n \in marks : m <= n) /\ (\A a \in audioLeft : m <= a)

CarrierPlays ==
    /\ \E a \in audioLeft : nextIsAudio(a) /\ audioLeft' = audioLeft \ {a}
    /\ UNCHANGED <<run, sent, events, starts, drainVars, gen, audio, timeVars, dueCh,
                   loopVars, slot, tracked, marks, histVars>>

\* The carrier reaches a mark and echoes it; the echo matches an outstanding
\* mark or is dropped.
EchoMark(m) ==
    /\ m \in marks /\ nextIsMark(m) /\ ~latched
    /\ marks' = marks \ {m}
    /\ IF m \in DOMAIN tracked
       THEN resolve(m)
       ELSE UNCHANGED <<count, due, tracked>>
    /\ UNCHANGED <<run, sent, events, starts, drainVars, gen, audio, firing, firedCh, dueCh,
                   loopVars, slot, audioLeft, histVars>>

\* A carrier that does not honor the mark protocol.
IgnoreMark(m) ==
    /\ m \in marks /\ nextIsMark(m)
    /\ marks' = marks \ {m}
    /\ UNCHANGED <<run, sent, events, starts, drainVars, gen, audio, timeVars, dueCh,
                   loopVars, slot, tracked, audioLeft, histVars>>

\* markEchoBound is the playout queued ahead of the mark plus a grace, so it
\* passes after that audio has played.
playedOut(m) == \A a \in audioLeft : m <= a

\* Fault: a mark the carrier never echoes does not count as played.
expireUnplayed(m) ==
    /\ m \in DOMAIN tracked /\ playedOut(m) /\ ~latched
    /\ tracked' = [k \in DOMAIN tracked \ {m} |-> tracked[k]]
    /\ UNCHANGED <<run, sent, events, starts, drainVars, gen, audio, timeVars, dueCh,
                   loopVars, slot, carrier, histVars>>

\* The bound of the mark passes without an echo, which counts as played.
expire(m) ==
    /\ m \in DOMAIN tracked /\ playedOut(m) /\ ~latched
    /\ resolve(m)
    /\ UNCHANGED <<run, sent, events, starts, drainVars, gen, audio, firing, firedCh, dueCh,
                   loopVars, slot, carrier, histVars>>

\* The countdown's time is up; its function now waits for the lock.
CountElapses ==
    /\ count # 0 /\ count \notin firing /\ ~latched
    /\ firing' = firing \cup {count}
    /\ UNCHANGED <<run, sent, events, starts, drainVars, gen, audio, count, due, firedCh,
                   dueCh, loopVars, slot, tracked, carrier, histVars>>

fire(g) ==
    /\ g \in firing /\ ~latched
    /\ firing' = firing \ {g}
    /\ IF g # gen \/ count = 0
       THEN UNCHANGED <<count, due, firedCh>>
       ELSE count' = 0 /\ due' = TRUE /\ firedCh' = TRUE
    /\ UNCHANGED <<run, sent, events, starts, drainVars, gen, audio, dueCh, loopVars, slot,
                   tracked, carrier, histVars>>

----------------------------------------------------------------------------

Init ==
    /\ run = "read" /\ sent = 0 /\ events = << >>
    /\ starts = 0 /\ heard = 0 /\ wantHeard = 0 /\ gen = 0 /\ seq = 0
    /\ speaking = FALSE /\ audio = FALSE /\ pending = FALSE /\ want = FALSE
    /\ count = 0 /\ firing = {} /\ due = FALSE /\ dueCh = FALSE /\ firedCh = FALSE
    /\ loop = "select" /\ mark = 0 /\ cause = "none"
    /\ slot = "free" /\ tracked = << >> /\ marks = {} /\ audioLeft = {}
    /\ talking = FALSE /\ fresh = FALSE /\ lost = FALSE
    /\ tooled = FALSE /\ owed = FALSE

SilenceStep ==
    \/ Media \/ agentAudio \/ callerSpoke \/ WriteClear
    \/ Drain
    \/ MarkDue \/ claim \/ WriteMark \/ armPlayout \/ end
    \/ \E m \in DOMAIN tracked : expire(m)
    \/ CarrierPlays \/ \E m \in marks : EchoMark(m) \/ IgnoreMark(m)
    \/ CountElapses \/ \E g \in firing : fire(g)

Next ==
    \/ \E ev \in ServerEvents : ReadEvent(ev)
    \/ SilenceStep
    \/ CallEnds

Spec == Init /\ [][Next]_vars

\* Every goroutine and every timer runs, the select serves each ready case in
\* the end, and the carrier plays in real time.
FairSpec ==
    /\ Spec
    /\ WF_vars(Media \/ agentAudio \/ callerSpoke \/ WriteClear)
    /\ WF_vars(Drain)
    /\ WF_vars(MarkDue) /\ WF_vars(end)
    /\ WF_vars(claim \/ WriteMark \/ armPlayout)
    /\ WF_vars(\E m \in DOMAIN tracked : expire(m))
    /\ WF_vars(CarrierPlays) /\ WF_vars(\E m \in marks : EchoMark(m) \/ IgnoreMark(m))
    /\ WF_vars(CountElapses) /\ WF_vars(\E g \in firing : fire(g))

----------------------------------------------------------------------------

\* Every variable has its type.
TypeOK ==
    /\ run \in {"read", "delta", "account", "speech", "clear"}
    /\ sent \in 0..MaxEvents
    /\ events \in Seq(ServerEvents) /\ Len(events) <= EventDepth
    /\ starts \in Nat /\ heard \in Nat /\ wantHeard \in Nat
    /\ gen \in Nat /\ seq \in Nat /\ count \in Nat /\ mark \in Nat
    /\ speaking \in BOOLEAN /\ audio \in BOOLEAN /\ pending \in BOOLEAN /\ want \in BOOLEAN
    /\ due \in BOOLEAN /\ dueCh \in BOOLEAN /\ firedCh \in BOOLEAN
    /\ firing \subseteq Nat
    /\ loop \in {"select", "claim", "write", "arm", "ended"}
    /\ slot \in {"free", "run", "loop"}
    /\ DOMAIN tracked \subseteq 1..seq /\ \A m \in DOMAIN tracked : tracked[m] \in Nat
    /\ marks \subseteq Nat /\ audioLeft \subseteq Nat
    /\ cause \in {"none", "silence", "other"}
    /\ talking \in BOOLEAN /\ fresh \in BOOLEAN /\ lost \in BOOLEAN
    /\ tooled \in BOOLEAN /\ owed \in BOOLEAN

\* The call is never ended for silence while the caller is speaking, by what
\* the sink has been told, however far the lossy drain is behind
\* (realtime_callersilence.go: "A stop missed there would hang up on a talking
\* caller").
NeverHangUpOnCaller == cause = "silence" => ~talking

\* The count never runs, and is never due, while agent audio is still to be
\* played: a reply sent in a burst is not counted as the caller's silence.  A
\* frame still inside its write slot has not stopped the count yet.
CountFollowsPlayout ==
    (count # 0 \/ due) => run = "account" \/ audioLeft = {}

\* A caller who stays silent after the agent's turn is hung up on: once a turn
\* that played audio has ended, with nothing since and no event lost on the way
\* to the drain, the call ends or something happens.  This is the promise of
\* WithCallerSilenceTimeout, for a call without tool calls.
\* Left out are the cases the code itself calls FAIL-OPEN: a lost event, and a
\* caller's turn without audio in answer.  Its comment lists one case more, the
\* echo that overtakes the arming of its own mark.  That one is NOT left out,
\* for the code does not fail open there: the echo finds nothing tracked and is
\* dropped, armPlayout then tracks the mark all the same, and expire takes it
\* for played when its bound has passed (realtime_marks.go:342-364), so that
\* the count starts late and the call ends.
SilentCallEnds == (owed /\ ~tooled) ~> (~owed \/ loop = "ended")
============================================================================
