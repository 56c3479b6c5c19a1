------------------------- MODULE CarrierRelayProofs -------------------------
(***************************************************************************)
(* TLAPS proofs about CarrierRelay, for any number of server events, any   *)
(* depth of the event feed and any length of the farewell clip.            *)
(***************************************************************************)
EXTENDS CarrierRelay, SequenceTheorems, TLAPS

\* MachineAlive strengthened: generations are handed out in order and never
\* twice, the slot knows which play goroutine holds it, and a pending start
\* belongs to a generation no goroutine has played under, so that no
\* endEpisode can invalidate it.
FillerInv ==
    /\ gen \in Nat \ {0} /\ timer \in Nat
    /\ playing \in BOOLEAN /\ stopped \in BOOLEAN
    /\ plays \subseteq Nat \ {0} /\ ending \subseteq Nat \ {0} /\ writing \in Nat
    /\ \A g \in plays \cup ending : g <= gen
    /\ writing <= gen
    /\ writing # 0 <=> slot = "play"
    /\ timer # 0 => gen \notin plays \cup {writing} \cup ending
    /\ MachineAlive

\* The goodbye's hold on the carrier: the flag and the latch are set before its
\* first frame, so that nobody else is inside the slot then or takes it later.
FarewellInv ==
    /\ clip \in Nat
    /\ farewelling \in BOOLEAN
    /\ loop \in {"latch", "clip", "mark", "wait"} => farewelling
    /\ loop \in {"clip", "mark", "wait"} => stopped
    /\ slot = "loop" => \/ loop = "clearWrite" /\ msg = "clear"
                        \/ loop = "clip" /\ msg = "farewell"
                        \/ loop = "mark" /\ msg = "mark"
    /\ clip > 0 => /\ farewelling /\ stopped
                   /\ loop \in {"clip", "mark", "wait", "return", "ended"}
                   /\ slot \in {"free", "loop"}

\* The operations that stop the filler keep its invariant: whatever ran under
\* the old generation is in the past of the new one.
LEMMA StopKeepsFillerInv ==
    ASSUME FillerInv,
           gen' = gen + 1, timer' = 0, playing' = FALSE, stopped' \in BOOLEAN,
           UNCHANGED <<plays, writing, ending, slot>>
    PROVE  FillerInv'
<1>1. ~playing' /\ playing' \in BOOLEAN
  OBVIOUS
<1>2. gen' \in Nat \ {0} /\ timer' \in Nat /\ gen < gen'
  BY DEF FillerInv
<1>3. \A g \in plays' \cup ending' : g <= gen'
  BY <1>2 DEF FillerInv
<1>4. writing' <= gen'
  BY <1>2 DEF FillerInv
<1>5. MachineAlive'
  BY <1>1 DEF MachineAlive
<1> QED
  BY <1>1, <1>2, <1>3, <1>4, <1>5 DEF FillerInv

\* A step that leaves the filler and the holder of the slot alone, or passes
\* the slot between the other two writers, keeps the filler's invariant.
LEMMA OthersKeepFillerInv ==
    ASSUME FillerInv,
           UNCHANGED <<gen, timer, playing, stopped, plays, writing, ending>>,
           slot' = "play" <=> slot = "play"
    PROVE  FillerInv'
  BY DEF FillerInv, MachineAlive

\* Every step keeps the filler's invariant.
LEMMA FillerInvInductive == FillerInv /\ [Next]_vars => FillerInv'
<1> SUFFICES ASSUME FillerInv, [Next]_vars PROVE FillerInv'
  OBVIOUS
<1>1. CASE RunStep
  <2>1. ASSUME NEW ev \in ServerEvents, ReadEvent(ev) PROVE FillerInv'
    BY <2>1, OthersKeepFillerInv DEF ReadEvent, fillVars, wireVars
  <2>2. CASE Media
    BY <2>2, StopKeepsFillerInv, OthersKeepFillerInv
       DEF Media, stop, cancelPendingLocked, wireVars, FillerInv
  <2>3. CASE OwnClear \/ Clear
    BY <2>3, StopKeepsFillerInv, OthersKeepFillerInv
       DEF OwnClear, Clear, clear, stop, cancelPendingLocked, wireVars, FillerInv
  <2>4. CASE RunTakesSlot
    BY <2>4, OthersKeepFillerInv DEF RunTakesSlot, fillVars
  <2>5. CASE RunWritesMessage
    BY <2>5, OthersKeepFillerInv DEF RunWritesMessage, release, fillVars
  <2>6. CASE RunWriteFails
    BY <2>6, OthersKeepFillerInv DEF RunWriteFails, release, fillVars
  <2>7. CASE RunEnds
    BY <2>7, OthersKeepFillerInv DEF RunEnds, fillVars, wireVars
  <2> QED
    BY <1>1, <2>1, <2>2, <2>3, <2>4, <2>5, <2>6, <2>7 DEF RunStep
<1>2. CASE FillerStep
  <2> USE DEF FillerInv, MachineAlive
  <2>1. CASE DelayElapses
    BY <2>1 DEF DelayElapses, wireVars
  <2>2. ASSUME NEW g \in firing, start(g) PROVE FillerInv'
    <3>1. CASE stopped \/ gen # g \/ playing
      BY <2>2, <3>1 DEF start, wireVars
    <3>2. CASE ~(stopped \/ gen # g \/ playing)
      <4>1. timer' = 0 /\ plays' = plays \cup {gen} /\ playing'
        BY <2>2, <3>2 DEF start
      <4>2. playing' \in BOOLEAN
        BY <2>2, <3>2 DEF start
      <4>3. UNCHANGED <<gen, stopped, writing, ending, slot>>
        BY <2>2 DEF start, wireVars
      <4> QED
        BY <4>1, <4>2, <4>3
    <3> QED
      BY <3>1, <3>2
  <2>3. ASSUME NEW g \in plays, PlayTakesSlot(g) PROVE FillerInv'
    BY <2>3 DEF PlayTakesSlot, wanted
  <2>4. ASSUME NEW g \in plays, PlayLeaves(g) PROVE FillerInv'
    BY <2>4 DEF PlayLeaves, wireVars
  <2>5. CASE PlayWrites
    BY <2>5 DEF PlayWrites, release
  <2>6. CASE PlayWriteFails
    BY <2>6 DEF PlayWriteFails, release
  <2>7. ASSUME NEW g \in ending, endEpisode(g) PROVE FillerInv'
    <3>1. UNCHANGED <<timer, stopped, plays, writing, slot>> /\ ending' = ending \ {g}
      BY <2>7 DEF endEpisode, wireVars
    <3>2. CASE gen = g
      <4>1. ~playing' /\ playing' \in BOOLEAN
        BY <2>7, <3>2 DEF endEpisode
      <4>2. gen' = gen + 1
        BY <2>7, <3>2 DEF endEpisode
      <4>3. timer = 0
        BY <2>7, <3>2
      <4> QED
        BY <3>1, <4>1, <4>2, <4>3
    <3>3. CASE gen # g
      BY <2>7, <3>1, <3>3 DEF endEpisode
    <3> QED
      BY <3>2, <3>3
  <2> QED
    BY <1>2, <2>1, <2>2, <2>3, <2>4, <2>5, <2>6, <2>7 DEF FillerStep
<1>3. CASE Drain
  <2> DEFINE ev == Head(events)
  <2>1. UNCHANGED <<stopped, plays, writing, ending, slot>> /\ observe(ev)
    BY <1>3 DEF Drain, wireVars
  <2>2. CASE arm /\ UNCHANGED playing
    BY <2>1, <2>2 DEF arm, FillerInv, MachineAlive
  <2>3. CASE stop
    BY <2>1, <2>3, StopKeepsFillerInv DEF stop, cancelPendingLocked, FillerInv
  <2>4. CASE UNCHANGED <<gen, timer, playing>>
    BY <2>1, <2>4, OthersKeepFillerInv
  <2> QED
    BY <2>1, <2>2, <2>3, <2>4 DEF observe
<1>4. CASE LoopStep
  <2>1. CASE TimerExpires \/ CallEnds \/ MarkResolves
    BY <2>1, OthersKeepFillerInv
       DEF TimerExpires, CallEnds, MarkResolves, unlessLoop, wireVars
  <2>2. CASE FarewellStops
    BY <2>2, StopKeepsFillerInv
       DEF FarewellStops, stop, cancelPendingLocked, unlessLoop, wireVars, FillerInv
  <2>3. CASE LoopTakesSlot
    BY <2>3, OthersKeepFillerInv DEF LoopTakesSlot, unlessLoop
  <2>4. CASE LoopWritesMessage
    BY <2>4, OthersKeepFillerInv DEF LoopWritesMessage, release, unlessLoop
  <2>5. CASE LoopWriteFails
    BY <2>5, OthersKeepFillerInv DEF LoopWriteFails, release, unlessLoop
  <2>6. CASE ClaimCarrier
    BY <2>6, StopKeepsFillerInv, OthersKeepFillerInv
       DEF ClaimCarrier, shutdown, cancelPendingLocked, unlessLoop, wireVars, FillerInv
  <2>7. CASE Return
    BY <2>7, StopKeepsFillerInv
       DEF Return, shutdown, cancelPendingLocked, unlessLoop, FillerInv
  <2> QED
    BY <1>4, <2>1, <2>2, <2>3, <2>4, <2>5, <2>6, <2>7 DEF LoopStep
<1>5. CASE CarrierPlays
  BY <1>5, OthersKeepFillerInv DEF CarrierPlays, fillVars
<1>6. CASE UNCHANGED vars
  BY <1>6, OthersKeepFillerInv DEF vars, fillVars, wireVars
<1> QED
  BY <1>1, <1>2, <1>3, <1>4, <1>5, <1>6 DEF Next

(***************************************************************************)
(* The filler is never dead (realtime_filler.go): arm may return early     *)
(* because the loop plays or a start is pending, since then a goroutine of *)
(* that episode, or an acceptable start, is there.                         *)
(***************************************************************************)
THEOREM FillerIsAlive == Spec => []MachineAlive
<1>1. Init => FillerInv
  <2> SUFFICES ASSUME Init PROVE FillerInv
    OBVIOUS
  <2>1. ~playing /\ playing \in BOOLEAN /\ stopped \in BOOLEAN
    BY DEF Init
  <2> QED
    BY <2>1 DEF Init, FillerInv, MachineAlive
<1>2. FillerInv => MachineAlive
  BY DEF FillerInv
<1> QED
  BY <1>1, <1>2, FillerInvInductive, PTL DEF Spec

\* Every step keeps the farewell's invariant.
LEMMA FarewellInvInductive == FarewellInv /\ [Next]_vars => FarewellInv'
<1> SUFFICES ASSUME FarewellInv, [Next]_vars PROVE FarewellInv'
  OBVIOUS
<1> USE DEF FarewellInv
<1>1. CASE RunStep
  <2> USE DEF fillVars, wireVars, loopVars, release
  <2>1. ASSUME NEW ev \in ServerEvents, ReadEvent(ev) PROVE FarewellInv'
    BY <2>1 DEF ReadEvent
  <2>2. CASE Media
    BY <2>2 DEF Media
  <2>3. CASE OwnClear \/ Clear
    BY <2>3 DEF OwnClear, Clear, clear
  <2>4. CASE RunTakesSlot
    BY <2>4 DEF RunTakesSlot
  <2>5. CASE RunWritesMessage
    BY <2>5 DEF RunWritesMessage
  <2>6. CASE RunWriteFails
    BY <2>6 DEF RunWriteFails
  <2>7. CASE RunEnds
    BY <2>7 DEF RunEnds
  <2> QED
    BY <1>1, <2>1, <2>2, <2>3, <2>4, <2>5, <2>6, <2>7 DEF RunStep
<1>2. CASE FillerStep
  <2> USE DEF wireVars, loopVars, release
  <2>1. CASE DelayElapses
    BY <2>1 DEF DelayElapses
  <2>2. ASSUME NEW g \in firing, start(g) PROVE FarewellInv'
    BY <2>2 DEF start
  <2>3. ASSUME NEW g \in plays, PlayTakesSlot(g) PROVE FarewellInv'
    BY <2>3 DEF PlayTakesSlot, wanted
  <2>4. ASSUME NEW g \in plays, PlayLeaves(g) PROVE FarewellInv'
    BY <2>4 DEF PlayLeaves
  <2>5. CASE PlayWrites
    BY <2>5 DEF PlayWrites
  <2>6. CASE PlayWriteFails
    BY <2>6 DEF PlayWriteFails
  <2>7. ASSUME NEW g \in ending, endEpisode(g) PROVE FarewellInv'
    BY <2>7 DEF endEpisode
  <2> QED
    BY <1>2, <2>1, <2>2, <2>3, <2>4, <2>5, <2>6, <2>7 DEF FillerStep
<1>3. CASE Drain
  BY <1>3 DEF Drain, wireVars, loopVars
<1>4. CASE LoopStep
  <2> USE DEF unlessLoop, wireVars, loopVars, release
  <2>1. CASE TimerExpires \/ CallEnds \/ MarkResolves
    BY <2>1 DEF TimerExpires, CallEnds, MarkResolves
  <2>2. CASE FarewellStops
    BY <2>2 DEF FarewellStops
  <2>3. CASE LoopTakesSlot
    BY <2>3 DEF LoopTakesSlot, LoopWrites
  <2>4. CASE LoopWritesMessage
    BY <2>4 DEF LoopWritesMessage
  <2>5. CASE LoopWriteFails
    BY <2>5 DEF LoopWriteFails, LoopWrites
  <2>6. CASE ClaimCarrier
    BY <2>6 DEF ClaimCarrier, shutdown
  <2>7. CASE Return
    BY <2>7 DEF Return, shutdown
  <2> QED
    BY <1>4, <2>1, <2>2, <2>3, <2>4, <2>5, <2>6, <2>7 DEF LoopStep
<1>5. CASE CarrierPlays
  BY <1>5 DEF CarrierPlays, fillVars, loopVars
<1>6. CASE UNCHANGED vars
  BY <1>6 DEF vars, fillVars, wireVars, loopVars
<1> QED
  BY <1>1, <1>2, <1>3, <1>4, <1>5, <1>6 DEF Next

(***************************************************************************)
(* The goodbye owns the carrier (gatedMessage, playFarewell): from its     *)
(* first frame on nothing else is written and nothing clears it, whatever  *)
(* was inside the slot or waiting for it when the call was ended.          *)
(***************************************************************************)
THEOREM GoodbyeOwnsCarrier == Spec => FarewellOwnsCarrier
<1> DEFINE Owned ==
      clip > 0 => \/ buffer' = buffer
                  \/ buffer # << >> /\ buffer' = Tail(buffer)
                  \/ \E m \in {"farewell", "mark"} : buffer' = Append(buffer, m)
<1>1. Init => FarewellInv
  <2> SUFFICES ASSUME Init PROVE FarewellInv
    OBVIOUS
  <2>1. farewelling \in BOOLEAN
    BY DEF Init
  <2> QED
    BY <2>1 DEF Init, FarewellInv
<1>2. FarewellInv /\ [Next]_vars => [Owned]_vars
  <2> SUFFICES ASSUME FarewellInv, Next, clip > 0 PROVE Owned
    OBVIOUS
  <2>1. slot \in {"free", "loop"} /\ loop # "clearWrite"
    BY DEF FarewellInv
  <2>2. CASE RunStep
    <3>1. ~RunWritesMessage
      BY <2>1 DEF RunWritesMessage
    <3>2. \A ev \in ServerEvents : ReadEvent(ev) => buffer' = buffer
      BY DEF ReadEvent, wireVars
    <3>3. Media \/ OwnClear \/ Clear => buffer' = buffer
      BY DEF Media, OwnClear, Clear, clear, wireVars
    <3>4. RunTakesSlot \/ RunWriteFails \/ RunEnds => buffer' = buffer
      BY DEF RunTakesSlot, RunWriteFails, RunEnds, wireVars
    <3> QED
      BY <2>2, <3>1, <3>2, <3>3, <3>4 DEF RunStep
  <2>3. CASE FillerStep
    <3>1. ~PlayWrites
      BY <2>1 DEF PlayWrites
    <3>2. DelayElapses \/ PlayWriteFails => buffer' = buffer
      BY DEF DelayElapses, PlayWriteFails, wireVars
    <3>3. \A g : start(g) \/ endEpisode(g) => buffer' = buffer
      BY DEF start, endEpisode, wireVars
    <3>4. \A g : PlayTakesSlot(g) \/ PlayLeaves(g) => buffer' = buffer
      BY DEF PlayTakesSlot, PlayLeaves, wireVars
    <3> QED
      BY <2>3, <3>1, <3>2, <3>3, <3>4 DEF FillerStep
  <2>4. CASE Drain
    BY <2>4 DEF Drain, wireVars
  <2>5. CASE LoopStep
    <3>1. CASE LoopWritesMessage
      <4>1. msg \in {"farewell", "mark"}
        BY <2>1, <3>1 DEF LoopWritesMessage, FarewellInv
      <4> QED
        BY <3>1, <4>1 DEF LoopWritesMessage, put
    <3>2. TimerExpires \/ CallEnds \/ MarkResolves => buffer' = buffer
      BY DEF TimerExpires, CallEnds, MarkResolves, wireVars
    <3>3. FarewellStops \/ ClaimCarrier \/ Return => buffer' = buffer
      BY DEF FarewellStops, ClaimCarrier, Return, wireVars
    <3>4. LoopTakesSlot \/ LoopWriteFails => buffer' = buffer
      BY DEF LoopTakesSlot, LoopWriteFails
    <3> QED
      BY <2>5, <3>1, <3>2, <3>3, <3>4 DEF LoopStep
  <2>6. CASE CarrierPlays
    BY <2>6 DEF CarrierPlays
  <2> QED
    BY <2>2, <2>3, <2>4, <2>5, <2>6 DEF Next
<1> QED
  BY <1>1, <1>2, FarewellInvInductive, PTL DEF Spec, FarewellOwnsCarrier

----------------------------------------------------------------------------
(* The hold loop is gone once the reply is on the wire. *)

\* A frame of the loop is at the carrier, or inside the slot on its way there.
Looped == slot = "play" \/ \E i \in DOMAIN buffer : buffer[i] = "filler"

\* Episodes and their arming: the current generation was armed after Media last
\* stopped the loop, and its goroutine gives up by itself only when the
\* connection, or the filler, is finished.
EpisodeInv ==
    /\ \A g \in firing : g \in Nat /\ g <= gen
    /\ (playing \/ timer # 0 \/ gen \in firing) => rearmed
    /\ gen \in plays \cup ending \cup {writing} => playing
    /\ gen \in ending => ~connOK \/ stopped

\* What each holder of the slot is about to write.
SlotInv ==
    /\ buffer \in Seq({"reply", "filler", "farewell", "mark"})
    /\ slot = "run" => run \in RunWrites /\ msg = IF run = "mediaWrite" THEN "reply" ELSE "clear"
    /\ slot = "play" => msg = "filler"
    /\ loop = "select" => ~stopped /\ ~farewelling

\* LoopGoneAfterReply strengthened: a frame of a loop that no longer plays is
\* about to be cleared, unless nothing can be written any more; and Run is
\* behind Media with such a frame only on its way to that clear, or to the
\* write that will fail.
ReplyInv ==
    loop = "select" /\ Looped /\ ~left =>
        /\ ~playing => ~connOK \/ run \in {"clearWrite", "ownClear", "ownClearWrite", "exited"}
        /\ ~rearmed => \/ run \in {"ownClear", "ownClearWrite", "exited"}
                       \/ ~connOK /\ run = "mediaWrite"

\* Stopping the filler moves every episode into the past.
LEMMA StopKeepsEpisodes ==
    ASSUME FillerInv, EpisodeInv,
           gen' = gen + 1, timer' = 0, ~playing', UNCHANGED <<firing, plays, writing, ending>>
    PROVE  EpisodeInv'
<1>1. gen \in Nat /\ \A g \in plays \cup ending \cup {writing} : g \in Nat /\ g <= gen
  BY DEF FillerInv
<1>2. gen' \notin plays \cup ending \cup {writing} /\ gen' \notin firing
  BY <1>1 DEF EpisodeInv
<1> QED
  BY <1>1, <1>2 DEF EpisodeInv

\* A step that leaves the filler alone keeps its episodes.
LEMMA OthersKeepEpisodes ==
    ASSUME EpisodeInv,
           UNCHANGED <<gen, timer, firing, playing, plays, writing, ending>>,
           rearmed => rearmed', connOK' => connOK, stopped => stopped'
    PROVE  EpisodeInv'
  BY DEF EpisodeInv

\* Every step keeps the invariant of the episodes.
LEMMA EpisodeInvInductive ==
    ASSUME FillerInv, EpisodeInv, [Next]_vars
    PROVE  EpisodeInv'
<1>1. CASE RunStep
  <2>1. ASSUME NEW ev \in ServerEvents, ReadEvent(ev) PROVE EpisodeInv'
    BY <2>1, OthersKeepEpisodes DEF ReadEvent, fillVars, wireVars, histVars
  <2>2. CASE Media
    <3>1. CASE farewelling
      BY <2>2, <3>1, OthersKeepEpisodes DEF Media, wireVars
    <3>2. CASE ~farewelling
      BY <2>2, <3>2, StopKeepsEpisodes DEF Media, stop, cancelPendingLocked
    <3> QED
      BY <3>1, <3>2
  <2>3. CASE OwnClear \/ Clear
    <3>1. CASE farewelling
      BY <2>3, <3>1, OthersKeepEpisodes DEF OwnClear, Clear, clear, wireVars, histVars
    <3>2. CASE ~farewelling
      BY <2>3, <3>2, StopKeepsEpisodes DEF OwnClear, Clear, clear, stop, cancelPendingLocked
    <3> QED
      BY <3>1, <3>2
  <2>4. CASE RunTakesSlot
    BY <2>4, OthersKeepEpisodes DEF RunTakesSlot, fillVars, histVars
  <2>5. CASE RunWritesMessage
    BY <2>5, OthersKeepEpisodes DEF RunWritesMessage, fillVars
  <2>6. CASE RunWriteFails
    <3>1. connOK' => connOK
      BY <2>6, Zenon DEF RunWriteFails
    <3> QED
      BY <2>6, <3>1, OthersKeepEpisodes DEF RunWriteFails, fillVars, histVars
  <2>7. CASE RunEnds
    BY <2>7, OthersKeepEpisodes DEF RunEnds, fillVars, wireVars, histVars
  <2> QED
    BY <1>1, <2>1, <2>2, <2>3, <2>4, <2>5, <2>6, <2>7 DEF RunStep
<1>2. CASE FillerStep
  <2> USE DEF EpisodeInv
  <2>1. CASE DelayElapses
    BY <2>1 DEF DelayElapses, wireVars, histVars, FillerInv, MachineAlive
  <2>2. ASSUME NEW g \in firing, start(g) PROVE EpisodeInv'
    <3>0. UNCHANGED <<gen, stopped, writing, ending, connOK, rearmed>> /\ firing' = firing \ {g}
      BY <2>2 DEF start, wireVars, histVars
    <3>1. CASE stopped \/ gen # g \/ playing
      BY <2>2, <3>0, <3>1 DEF start
    <3>2. CASE ~(stopped \/ gen # g \/ playing)
      BY <2>2, <3>0, <3>2 DEF start
    <3> QED
      BY <3>1, <3>2
  <2>3. ASSUME NEW g \in plays, PlayTakesSlot(g) PROVE EpisodeInv'
    BY <2>3 DEF PlayTakesSlot, wanted, histVars
  <2>4. ASSUME NEW g \in plays, PlayLeaves(g) PROVE EpisodeInv'
    BY <2>4 DEF PlayLeaves, wanted, wireVars, histVars
  <2>5. CASE PlayWrites
    BY <2>5 DEF PlayWrites, histVars, FillerInv
  <2>6. CASE PlayWriteFails
    BY <2>6 DEF PlayWriteFails, histVars, FillerInv
  <2>7. ASSUME NEW g \in ending, endEpisode(g) PROVE EpisodeInv'
    <3>0. UNCHANGED <<timer, firing, stopped, plays, writing, connOK, rearmed>>
          /\ ending' = ending \ {g}
      BY <2>7 DEF endEpisode, wireVars, histVars
    <3>1. CASE gen = g
      <4>1. gen' = gen + 1 /\ ~playing' /\ timer = 0
        BY <2>7, <3>1 DEF endEpisode, FillerInv
      <4>2. gen \in Nat /\ \A h \in plays \cup ending \cup {writing} : h \in Nat /\ h <= gen
        BY DEF FillerInv
      <4>3. gen' \notin plays \cup ending \cup {writing} /\ gen' \notin firing
        BY <4>1, <4>2
      <4> QED
        BY <3>0, <4>1, <4>2, <4>3
    <3>2. CASE gen # g
      BY <2>7, <3>0, <3>2 DEF endEpisode
    <3> QED
      BY <3>1, <3>2
  <2> QED
    BY <1>2, <2>1, <2>2, <2>3, <2>4, <2>5, <2>6, <2>7 DEF FillerStep
<1>3. CASE Drain
  <2> DEFINE ev == Head(events)
  <2>1. UNCHANGED <<firing, stopped, plays, writing, ending, connOK>> /\ observe(ev)
    BY <1>3 DEF Drain, wireVars
  <2>2. CASE arm /\ UNCHANGED playing
    <3>1. CASE stopped \/ timer # 0 \/ playing
      BY <2>1, <2>2, <3>1, OthersKeepEpisodes DEF arm
    <3>2. CASE ~(stopped \/ timer # 0 \/ playing)
      <4>1. gen' = gen + 1 /\ rearmed' /\ ~playing'
        BY <2>2, <3>2 DEF arm
      <4>2. gen \in Nat /\ \A h \in plays \cup ending \cup {writing} : h \in Nat /\ h <= gen
        BY DEF FillerInv
      <4>3. gen' \notin plays \cup ending \cup {writing}
        BY <4>1, <4>2
      <4> QED
        BY <2>1, <4>1, <4>2, <4>3 DEF EpisodeInv
    <3> QED
      BY <3>1, <3>2
  <2>3. CASE stop
    BY <2>1, <2>3, StopKeepsEpisodes DEF stop, cancelPendingLocked
  <2>4. CASE UNCHANGED <<gen, timer, playing, rearmed, left>>
    BY <2>1, <2>4, OthersKeepEpisodes
  <2> QED
    BY <2>1, <2>2, <2>3, <2>4 DEF observe
<1>4. CASE LoopStep
  <2>1. CASE TimerExpires \/ CallEnds \/ MarkResolves
    BY <2>1, OthersKeepEpisodes
       DEF TimerExpires, CallEnds, MarkResolves, unlessLoop, wireVars, histVars
  <2>2. CASE FarewellStops
    BY <2>2, StopKeepsEpisodes DEF FarewellStops, stop, cancelPendingLocked, unlessLoop
  <2>3. CASE LoopTakesSlot
    BY <2>3, OthersKeepEpisodes DEF LoopTakesSlot, unlessLoop, histVars
  <2>4. CASE LoopWritesMessage
    BY <2>4, OthersKeepEpisodes DEF LoopWritesMessage, unlessLoop
  <2>5. CASE LoopWriteFails
    <3>1. connOK' => connOK
      BY <2>5, Zenon DEF LoopWriteFails
    <3> QED
      BY <2>5, <3>1, OthersKeepEpisodes DEF LoopWriteFails, unlessLoop, histVars
  <2>6. CASE ClaimCarrier
    <3>1. CASE loop = "latch"
      BY <2>6, <3>1, StopKeepsEpisodes DEF ClaimCarrier, shutdown, cancelPendingLocked, unlessLoop
    <3>2. CASE loop # "latch"
      BY <2>6, <3>2, OthersKeepEpisodes DEF ClaimCarrier, unlessLoop, wireVars, histVars
    <3> QED
      BY <3>1, <3>2
  <2>7. CASE Return
    BY <2>7, StopKeepsEpisodes DEF Return, shutdown, cancelPendingLocked, unlessLoop
  <2> QED
    BY <1>4, <2>1, <2>2, <2>3, <2>4, <2>5, <2>6, <2>7 DEF LoopStep
<1>5. CASE CarrierPlays
  BY <1>5, OthersKeepEpisodes DEF CarrierPlays, fillVars, histVars
<1>6. CASE UNCHANGED vars
  BY <1>6, OthersKeepEpisodes DEF vars, fillVars, wireVars, histVars
<1> QED
  BY <1>1, <1>2, <1>3, <1>4, <1>5, <1>6 DEF Next

\* The wire: what is appended, cleared or played keeps the buffer's type, and
\* only a frame of the loop adds one.
LEMMA PutEffect ==
    ASSUME SlotInv, NEW m \in {"clear", "reply", "farewell", "mark"}, put(m)
    PROVE  /\ buffer' \in Seq({"reply", "filler", "farewell", "mark"})
           /\ (\E i \in DOMAIN buffer' : buffer'[i] = "filler")
                 => (\E i \in DOMAIN buffer : buffer[i] = "filler") /\ m # "clear"
<1>1. CASE m = "clear"
  <2>1. buffer' = << >>
    BY <1>1 DEF put
  <2> QED
    BY <2>1
<1>2. CASE m # "clear"
  <2> DEFINE a == Append(buffer, m)
  <2>1. buffer' = a
    BY <1>2 DEF put
  <2>2. a \in Seq({"reply", "filler", "farewell", "mark"}) /\ DOMAIN a = 1..(Len(buffer) + 1)
        /\ a[Len(buffer) + 1] = m /\ \A i \in 1..Len(buffer) : a[i] = buffer[i]
    BY <1>2, AppendProperties, LenProperties DEF SlotInv
  <2>3. Len(buffer) \in Nat /\ DOMAIN buffer = 1..Len(buffer)
    BY LenProperties DEF SlotInv
  <2> HIDE DEF a
  <2> QED
    BY <1>2, <2>1, <2>2, <2>3
<1> QED
  BY <1>1, <1>2

\* What a play goroutine's step changes.
LEMMA PlayEffect ==
    ASSUME SlotInv, CarrierPlays
    PROVE  /\ buffer' \in Seq({"reply", "filler", "farewell", "mark"})
           /\ Looped' => Looped
<1>1. buffer # << >> /\ buffer' = Tail(buffer) /\ slot' = slot
  BY DEF CarrierPlays
<1>2. /\ buffer' \in Seq({"reply", "filler", "farewell", "mark"})
      /\ Len(buffer') = Len(buffer) - 1
      /\ \A i \in 1..Len(buffer') : buffer'[i] = buffer[i + 1]
  BY <1>1, HeadTailProperties DEF SlotInv
<1>3. Len(buffer) \in Nat /\ DOMAIN buffer = 1..Len(buffer) /\ DOMAIN buffer' = 1..Len(buffer')
  BY <1>2, LenProperties DEF SlotInv
<1>4. \A i \in DOMAIN buffer' : i + 1 \in DOMAIN buffer
  BY <1>2, <1>3
<1> QED
  BY <1>1, <1>2, <1>3, <1>4 DEF Looped

\* Every step keeps the invariant of the slot.
LEMMA SlotInvInductive ==
    ASSUME FarewellInv, SlotInv, [Next]_vars
    PROVE  SlotInv'
<1> USE DEF RunWrites
<1>1. CASE RunStep
  <2> USE DEF fillVars, wireVars, loopVars, release
  <2>1. ASSUME NEW ev \in ServerEvents, ReadEvent(ev) PROVE SlotInv'
    BY <2>1 DEF ReadEvent, SlotInv
  <2>2. CASE Media
    BY <2>2 DEF Media, SlotInv
  <2>3. CASE OwnClear \/ Clear
    BY <2>3 DEF OwnClear, Clear, clear, SlotInv
  <2>4. CASE RunTakesSlot
    BY <2>4 DEF RunTakesSlot, SlotInv
  <2>5. CASE RunWritesMessage
    <3>1. msg \in {"reply", "clear"} /\ put(msg)
      BY <2>5 DEF RunWritesMessage, SlotInv
    <3>2. buffer' \in Seq({"reply", "filler", "farewell", "mark"})
      BY <3>1, PutEffect
    <3> QED
      BY <2>5, <3>2 DEF RunWritesMessage, SlotInv
  <2>6. CASE RunWriteFails
    BY <2>6 DEF RunWriteFails, SlotInv
  <2>7. CASE RunEnds
    BY <2>7 DEF RunEnds, SlotInv
  <2> QED
    BY <1>1, <2>1, <2>2, <2>3, <2>4, <2>5, <2>6, <2>7 DEF RunStep
<1>2. CASE FillerStep
  <2> USE DEF wireVars, loopVars, release
  <2>1. CASE DelayElapses
    BY <2>1 DEF DelayElapses, SlotInv
  <2>2. ASSUME NEW g \in firing, start(g) PROVE SlotInv'
    BY <2>2 DEF start, SlotInv
  <2>3. ASSUME NEW g \in plays, PlayTakesSlot(g) PROVE SlotInv'
    BY <2>3 DEF PlayTakesSlot, SlotInv
  <2>4. ASSUME NEW g \in plays, PlayLeaves(g) PROVE SlotInv'
    BY <2>4 DEF PlayLeaves, SlotInv
  <2>5. CASE PlayWrites
    <3>1. buffer' \in Seq({"reply", "filler", "farewell", "mark"})
      BY <2>5, AppendProperties DEF PlayWrites, SlotInv
    <3> QED
      BY <2>5, <3>1 DEF PlayWrites, SlotInv
  <2>6. CASE PlayWriteFails
    BY <2>6 DEF PlayWriteFails, SlotInv
  <2>7. ASSUME NEW g \in ending, endEpisode(g) PROVE SlotInv'
    BY <2>7 DEF endEpisode, SlotInv
  <2> QED
    BY <1>2, <2>1, <2>2, <2>3, <2>4, <2>5, <2>6, <2>7 DEF FillerStep
<1>3. CASE Drain
  BY <1>3 DEF Drain, wireVars, loopVars, SlotInv
<1>4. CASE LoopStep
  <2> USE DEF unlessLoop, wireVars, loopVars, release
  <2>1. CASE TimerExpires \/ CallEnds \/ MarkResolves
    BY <2>1 DEF TimerExpires, CallEnds, MarkResolves, SlotInv
  <2>2. CASE FarewellStops
    BY <2>2 DEF FarewellStops, SlotInv
  <2>3. CASE LoopTakesSlot
    BY <2>3 DEF LoopTakesSlot, LoopWrites, SlotInv
  <2>4. CASE LoopWritesMessage
    <3>1. msg \in {"clear", "farewell", "mark"} /\ put(msg) /\ loop \in LoopWrites
      BY <2>4 DEF LoopWritesMessage, FarewellInv, LoopWrites
    <3>2. buffer' \in Seq({"reply", "filler", "farewell", "mark"})
      BY <3>1, PutEffect
    <3>3. loop' # "select"
      BY <2>4, <3>1 DEF LoopWritesMessage, LoopWrites
    <3> QED
      BY <2>4, <3>2, <3>3 DEF LoopWritesMessage, SlotInv
  <2>5. CASE LoopWriteFails
    BY <2>5 DEF LoopWriteFails, LoopWrites, SlotInv
  <2>6. CASE ClaimCarrier
    BY <2>6 DEF ClaimCarrier, SlotInv
  <2>7. CASE Return
    BY <2>7 DEF Return, SlotInv
  <2> QED
    BY <1>4, <2>1, <2>2, <2>3, <2>4, <2>5, <2>6, <2>7 DEF LoopStep
<1>5. CASE CarrierPlays
  BY <1>5, PlayEffect DEF CarrierPlays, fillVars, loopVars, SlotInv
<1>6. CASE UNCHANGED vars
  BY <1>6 DEF vars, fillVars, wireVars, loopVars, SlotInv
<1> QED
  BY <1>1, <1>2, <1>3, <1>4, <1>5, <1>6 DEF Next

\* A step that brings no frame of the loop and leaves Run where it is.
LEMMA OthersKeepReplyInv ==
    ASSUME ReplyInv,
           UNCHANGED <<run, loop, left, rearmed>>,
           Looped' => Looped, playing => playing', connOK' => connOK
    PROVE  ReplyInv'
  BY DEF ReplyInv

\* Every step keeps the invariant of the reply.
LEMMA ReplyInvInductive ==
    ASSUME FillerInv, FarewellInv, EpisodeInv, SlotInv, ReplyInv, [Next]_vars
    PROVE  ReplyInv'
<1>1. CASE loop' # "select"
  BY <1>1 DEF ReplyInv
<1>2. CASE loop' = "select" /\ RunStep
  <2> USE <1>2
  <2>1. ASSUME NEW ev \in ServerEvents, ReadEvent(ev) PROVE ReplyInv'
    BY <2>1 DEF ReadEvent, fillVars, wireVars, loopVars, histVars, Looped, ReplyInv
  <2>2. CASE Media
    <3>1. /\ UNCHANGED <<slot, buffer, connOK, loop, left>> /\ run = "delta" /\ ~farewelling
      BY <2>2 DEF Media, wireVars, loopVars, SlotInv
    <3>2. Looped' <=> Looped
      BY <3>1 DEF Looped
    <3>3. CASE playing
      BY <2>2, <3>1, <3>3 DEF Media, ReplyInv
    <3>4. CASE ~playing
      BY <2>2, <3>1, <3>2, <3>4 DEF Media, ReplyInv
    <3> QED
      BY <3>3, <3>4
  <2>3. CASE OwnClear \/ Clear
    <3>1. /\ UNCHANGED <<slot, buffer, connOK, loop, left, rearmed>> /\ ~farewelling
      BY <2>3 DEF OwnClear, Clear, clear, wireVars, loopVars, histVars, SlotInv
    <3>2. Looped' <=> Looped
      BY <3>1 DEF Looped
    <3> QED
      BY <2>3, <3>1, <3>2 DEF OwnClear, Clear, clear, ReplyInv
  <2>4. CASE RunTakesSlot
    <3>1. ~farewelling
      BY <2>4 DEF RunTakesSlot, loopVars, SlotInv
    <3>2. Looped' <=> Looped
      BY <2>4, <3>1 DEF RunTakesSlot, Looped
    <3> QED
      BY <2>4, <3>1, <3>2, OthersKeepReplyInv DEF RunTakesSlot, fillVars, loopVars, histVars
  <2>5. CASE RunWritesMessage
    <3>1. /\ run \in RunWrites /\ msg = IF run = "mediaWrite" THEN "reply" ELSE "clear"
          /\ put(msg) /\ slot' # "play" /\ slot # "play" /\ connOK
      BY <2>5 DEF RunWritesMessage, release, SlotInv
    <3>2. msg \in {"clear", "reply", "farewell", "mark"}
      BY <3>1
    <3>3. Looped' => Looped /\ msg # "clear"
      BY <3>1, <3>2, PutEffect DEF Looped
    <3>4. CASE run = "mediaWrite"
      <4>1. left' <=> left
        BY <2>5, <3>1, <3>4, Zenon DEF RunWritesMessage
      <4> QED
        BY <2>5, <3>1, <3>3, <3>4, <4>1 DEF RunWritesMessage, fillVars, loopVars, ReplyInv
    <3>5. CASE run # "mediaWrite"
      BY <3>1, <3>3, <3>5 DEF ReplyInv
    <3> QED
      BY <3>4, <3>5
  <2>6. CASE RunWriteFails
    BY <2>6 DEF RunWriteFails, ReplyInv
  <2>7. CASE RunEnds
    BY <2>7 DEF RunEnds, ReplyInv
  <2> QED
    BY <1>2, <2>1, <2>2, <2>3, <2>4, <2>5, <2>6, <2>7 DEF RunStep
<1>3. CASE loop' = "select" /\ FillerStep
  <2> USE <1>3
  <2>1. CASE DelayElapses
    BY <2>1, OthersKeepReplyInv DEF DelayElapses, wireVars, loopVars, histVars, Looped
  <2>2. ASSUME NEW g \in firing, start(g) PROVE ReplyInv'
    <3>1. playing => playing'
      BY <2>2 DEF start
    <3> QED
      BY <2>2, <3>1, OthersKeepReplyInv DEF start, wireVars, loopVars, histVars, Looped
  <2>3. ASSUME NEW g \in plays, PlayTakesSlot(g) PROVE ReplyInv'
    <3>1. playing' /\ rearmed'
      BY <2>3 DEF PlayTakesSlot, wanted, histVars, EpisodeInv
    <3> QED
      BY <3>1 DEF ReplyInv
  <2>4. ASSUME NEW g \in plays, PlayLeaves(g) PROVE ReplyInv'
    BY <2>4, OthersKeepReplyInv DEF PlayLeaves, wireVars, loopVars, histVars, Looped
  <2>5. CASE PlayWrites
    <3>1. Looped
      BY <2>5 DEF PlayWrites, Looped
    <3> QED
      BY <2>5, <3>1, OthersKeepReplyInv DEF PlayWrites, loopVars, histVars
  <2>6. CASE PlayWriteFails
    <3>1. Looped
      BY <2>6 DEF PlayWriteFails, Looped
    <3> QED
      BY <2>6, <3>1, OthersKeepReplyInv DEF PlayWriteFails, loopVars, histVars
  <2>7. ASSUME NEW g \in ending, endEpisode(g) PROVE ReplyInv'
    <3>1. /\ UNCHANGED <<run, loop, slot, buffer, connOK, stopped, left, rearmed>>
      BY <2>7 DEF endEpisode, wireVars, loopVars, histVars
    <3>2. Looped' <=> Looped
      BY <3>1 DEF Looped
    <3>3. CASE gen = g
      <4>1. ~connOK
        BY <2>7, <3>1, <3>3 DEF EpisodeInv, SlotInv
      <4> QED
        BY <3>1, <3>2, <4>1 DEF ReplyInv
    <3>4. CASE gen # g
      BY <2>7, <3>1, <3>2, <3>4, OthersKeepReplyInv DEF endEpisode
    <3> QED
      BY <3>3, <3>4
  <2> QED
    BY <1>3, <2>1, <2>2, <2>3, <2>4, <2>5, <2>6, <2>7 DEF FillerStep
<1>4. CASE loop' = "select" /\ Drain
  <2> DEFINE ev == Head(events)
  <2>1. UNCHANGED <<run, loop, slot, buffer, connOK>> /\ observe(ev)
    BY <1>4 DEF Drain, wireVars, loopVars
  <2>2. Looped' <=> Looped
    BY <2>1 DEF Looped
  <2>3. CASE arm /\ UNCHANGED <<playing, left>>
    <3>1. rearmed => rearmed'
      BY <2>3 DEF arm
    <3> QED
      BY <2>1, <2>2, <2>3, <3>1 DEF ReplyInv
  <2>4. CASE /\ stop /\ UNCHANGED rearmed
             /\ left' = (left \/ playing \/ slot = "play")
    <3>1. (left => left') /\ (playing => left')
      BY <2>4, Zenon
    <3> QED
      BY <2>1, <2>2, <2>4, <3>1 DEF ReplyInv
  <2>5. CASE UNCHANGED <<gen, timer, playing, rearmed, left>>
    BY <2>1, <2>2, <2>5, OthersKeepReplyInv
  <2> QED
    BY <2>1, <2>3, <2>4, <2>5 DEF observe
<1>5. CASE loop' = "select" /\ LoopStep
  <2>1. loop' # "select"
    BY <1>5 DEF LoopStep, TimerExpires, CallEnds, FarewellStops, LoopTakesSlot, LoopWrites,
                LoopWritesMessage, LoopWriteFails, ClaimCarrier, MarkResolves, Return, loopVars,
                FarewellInv
  <2> QED
    BY <1>5, <2>1
<1>6. CASE CarrierPlays
  BY <1>6, PlayEffect, OthersKeepReplyInv DEF CarrierPlays, fillVars, loopVars, histVars
<1>7. CASE UNCHANGED vars
  BY <1>7, OthersKeepReplyInv DEF vars, fillVars, wireVars, loopVars, histVars, Looped
<1> QED
  BY <1>1, <1>2, <1>3, <1>4, <1>5, <1>6, <1>7 DEF Next

(***************************************************************************)
(* No frame of the hold loop stands ahead of the reply or behind it        *)
(* (Media's order: stop, clear, write): a loop that was playing is stopped *)
(* and cleared before the reply is written, a frame inside the slot is     *)
(* cleared with the rest, and nothing plays again until the filler is      *)
(* armed.                                                                  *)
(***************************************************************************)
THEOREM LoopIsGoneAfterReply == Spec => []LoopGoneAfterReply
<1> DEFINE Inv == FillerInv /\ FarewellInv /\ EpisodeInv /\ SlotInv /\ ReplyInv
<1>1. Init => Inv
  <2> SUFFICES ASSUME Init PROVE Inv
    OBVIOUS
  <2>1. /\ ~playing /\ playing \in BOOLEAN /\ ~stopped /\ stopped \in BOOLEAN
        /\ ~farewelling /\ farewelling \in BOOLEAN /\ rearmed
    BY DEF Init
  <2>2. FillerInv /\ FarewellInv
    BY <2>1 DEF Init, FillerInv, FarewellInv, MachineAlive
  <2>3. EpisodeInv
    BY <2>1 DEF Init, EpisodeInv
  <2>4. SlotInv /\ ~Looped
    BY <2>1 DEF Init, SlotInv, Looped
  <2> QED
    BY <2>2, <2>3, <2>4 DEF ReplyInv
<1>2. Inv /\ [Next]_vars => Inv'
  BY FillerInvInductive, FarewellInvInductive, EpisodeInvInductive, SlotInvInductive,
     ReplyInvInductive
<1>3. Inv => LoopGoneAfterReply
  BY DEF ReplyInv, LoopGoneAfterReply, Looped
<1> QED
  BY <1>1, <1>2, <1>3, PTL DEF Spec

----------------------------------------------------------------------------
(* Types, the feed's depth and the length of the clip. *)

BridgeTypes ==
    run \in RunStages /\ sent \in 0..MaxEvents /\ events \in Seq(ServerEvents) /\ Len(events) <= EventDepth

FillTypes ==
    /\ gen \in Nat /\ timer \in Nat /\ firing \subseteq Nat
    /\ plays \subseteq Nat /\ writing \in Nat /\ ending \subseteq Nat

FlagTypes ==
    /\ playing \in BOOLEAN /\ stopped \in BOOLEAN /\ connOK \in BOOLEAN /\ farewelling \in BOOLEAN
    /\ rearmed \in BOOLEAN /\ left \in BOOLEAN

SlotTypes ==
    /\ slot \in {"free", "run", "play", "loop"}
    /\ msg \in {"none", "clear", "reply", "filler", "farewell", "mark"}

\* A frame of the clip is written only when one is left: the loop comes to the
\* clip with a clip to play and nothing of it written.
ClipInv ==
    /\ loop \in LoopStages /\ clip \in 0..ClipFrames
    /\ loop \notin {"select", "return", "ended"} => ClipFrames > 0
    /\ loop \in {"stopFiller", "clear", "clearWrite", "claim", "latch"} => clip = 0
    /\ loop = "clip" => clip < ClipFrames

\* Bridge.Run and its feed, which drops what does not fit.
LEMMA BridgeTyped == BridgeTypes /\ [Next]_vars => BridgeTypes'
<1> SUFFICES ASSUME BridgeTypes, [Next]_vars PROVE BridgeTypes'
  OBVIOUS
<1>0. /\ events \in Seq(ServerEvents) /\ Len(events) \in Nat /\ sent \in Nat /\ run \in RunStages
  BY RelayConstants, LenProperties DEF BridgeTypes
<1>1. ASSUME NEW ev \in ServerEvents, ReadEvent(ev) PROVE BridgeTypes'
  <2>1. sent' \in 0..MaxEvents /\ run' \in RunStages
    BY <1>0, <1>1, RelayConstants DEF ReadEvent, RunStages
  <2>2. Append(events, ev) \in Seq(ServerEvents) /\ Len(Append(events, ev)) = Len(events) + 1
    BY <1>0, AppendProperties
  <2>3. events' \in Seq(ServerEvents) /\ Len(events') <= EventDepth
    BY <1>0, <1>1, <2>2, RelayConstants DEF ReadEvent, BridgeTypes
  <2> QED
    BY <2>1, <2>3 DEF BridgeTypes
<1>2. ASSUME run' \in RunStages, UNCHANGED <<sent, events>> PROVE BridgeTypes'
  BY <1>2 DEF BridgeTypes
<1>3. CASE Media \/ OwnClear \/ Clear \/ RunTakesSlot \/ RunWritesMessage \/ RunWriteFails \/ RunEnds
  <2>1. run' \in RunStages
    BY <1>0, <1>3 DEF Media, OwnClear, Clear, clear, RunTakesSlot, RunWritesMessage, RunWriteFails,
                      RunEnds, afterWrite, RunStages
  <2>2. UNCHANGED <<sent, events>>
    BY <1>3 DEF Media, OwnClear, Clear, clear, RunTakesSlot, RunWritesMessage, RunWriteFails, RunEnds
  <2> QED
    BY <1>2, <2>1, <2>2
<1>4. CASE FillerStep
  BY <1>0, <1>2, <1>4 DEF FillerStep, DelayElapses, start, PlayTakesSlot, PlayLeaves, PlayWrites,
                          PlayWriteFails, endEpisode
<1>5. CASE Drain
  <2>1. events # << >> /\ events' = Tail(events) /\ UNCHANGED <<run, sent>>
    BY <1>5 DEF Drain
  <2>2. events' \in Seq(ServerEvents) /\ Len(events') = Len(events) - 1
    BY <1>0, <2>1, HeadTailProperties
  <2> QED
    BY <1>0, <2>1, <2>2, RelayConstants DEF BridgeTypes
<1>6. CASE LoopStep
  BY <1>0, <1>2, <1>6 DEF LoopStep, TimerExpires, CallEnds, FarewellStops, LoopTakesSlot,
     LoopWritesMessage, LoopWriteFails, ClaimCarrier, MarkResolves, Return, unlessLoop
<1>7. CASE CarrierPlays \/ UNCHANGED vars
  BY <1>0, <1>2, <1>7 DEF CarrierPlays, vars
<1> QED
  BY <1>1, <1>3, <1>4, <1>5, <1>6, <1>7 DEF Next, RunStep

\* The filler's generations.
LEMMA FillTyped == FillTypes /\ [Next]_vars => FillTypes'
<1> SUFFICES ASSUME FillTypes, [Next]_vars PROVE FillTypes'
  OBVIOUS
<1>1. ASSUME gen' \in {gen, gen + 1}, timer' \in {timer, 0, gen + 1},
             UNCHANGED <<firing, plays, writing, ending>>
      PROVE  FillTypes'
  BY <1>1 DEF FillTypes
<1>2. ASSUME UNCHANGED fillVars PROVE FillTypes'
  BY <1>2 DEF FillTypes, fillVars
<1>3. CASE RunStep
  <2>1. ASSUME NEW ev \in ServerEvents, ReadEvent(ev) PROVE FillTypes'
    BY <1>2, <2>1 DEF ReadEvent
  <2>2. CASE Media \/ OwnClear \/ Clear
    BY <1>1, <2>2 DEF Media, OwnClear, Clear, clear, stop, cancelPendingLocked
  <2>3. CASE RunTakesSlot \/ RunWritesMessage \/ RunWriteFails \/ RunEnds
    BY <1>2, <2>3 DEF RunTakesSlot, RunWritesMessage, RunWriteFails, RunEnds
  <2> QED
    BY <1>3, <2>1, <2>2, <2>3 DEF RunStep
<1>4. CASE FillerStep
  <2>1. CASE DelayElapses
    BY <2>1 DEF DelayElapses, FillTypes
  <2>2. ASSUME NEW g \in firing, start(g) PROVE FillTypes'
    <3>1. /\ firing' = firing \ {g} /\ UNCHANGED <<gen, writing, ending>> /\ timer' \in {timer, 0}
          /\ plays' = plays \/ plays' = plays \cup {g}
      BY <2>2 DEF start
    <3>2. g \in Nat /\ plays' \subseteq Nat
      BY <3>1 DEF FillTypes
    <3>3. firing' \subseteq Nat
      BY <3>1 DEF FillTypes
    <3> QED
      BY <3>1, <3>2, <3>3 DEF FillTypes
  <2>3. ASSUME NEW g \in plays, PlayTakesSlot(g) \/ PlayLeaves(g) PROVE FillTypes'
    BY <2>3 DEF PlayTakesSlot, PlayLeaves, FillTypes
  <2>4. CASE PlayWrites \/ PlayWriteFails
    <3>1. /\ UNCHANGED <<gen, timer, firing>> /\ writing' = 0
          /\ \/ plays' = plays \cup {writing} /\ ending' = ending
             \/ plays' = plays /\ ending' = ending \cup {writing}
      BY <2>4 DEF PlayWrites, PlayWriteFails
    <3> QED
      BY <3>1 DEF FillTypes
  <2>5. ASSUME NEW g \in ending, endEpisode(g) PROVE FillTypes'
    BY <2>5 DEF endEpisode, FillTypes
  <2> QED
    BY <1>4, <2>1, <2>2, <2>3, <2>4, <2>5 DEF FillerStep
<1>5. CASE Drain
  BY <1>1, <1>5 DEF Drain, observe, arm, stop, cancelPendingLocked
<1>6. CASE LoopStep
  BY <1>1, <1>6 DEF LoopStep, TimerExpires, CallEnds, FarewellStops, LoopTakesSlot,
     LoopWritesMessage, LoopWriteFails, ClaimCarrier, MarkResolves, Return, unlessLoop, stop, shutdown,
     cancelPendingLocked
<1>7. CASE CarrierPlays \/ UNCHANGED vars
  BY <1>2, <1>7 DEF CarrierPlays, vars
<1> QED
  BY <1>3, <1>4, <1>5, <1>6, <1>7 DEF Next

\* Flags stay flags.
LEMMA FlagsTyped == FlagTypes /\ [Next]_vars => FlagTypes'
<1> SUFFICES ASSUME FlagTypes, [Next]_vars PROVE FlagTypes'
  OBVIOUS
<1> USE DEF FlagTypes
<1>1. CASE RunStep
  BY <1>1, Zenon DEF RunStep, ReadEvent, Media, OwnClear, Clear, clear, RunTakesSlot, RunWritesMessage,
     RunWriteFails, RunEnds, stop, fillVars, wireVars, loopVars, histVars
<1>2. CASE FillerStep
  BY <1>2 DEF FillerStep, DelayElapses, start, PlayTakesSlot, PlayLeaves, PlayWrites,
     PlayWriteFails, endEpisode, wireVars, loopVars, histVars
<1>3. CASE Drain
  BY <1>3 DEF Drain, observe, arm, stop, wireVars, loopVars
<1>4. CASE LoopStep
  BY <1>4 DEF LoopStep, TimerExpires, CallEnds, FarewellStops, LoopTakesSlot,
     LoopWritesMessage, LoopWriteFails, ClaimCarrier, MarkResolves, Return, stop, shutdown,
     wireVars, loopVars, histVars
<1>5. CASE CarrierPlays \/ UNCHANGED vars
  BY <1>5 DEF CarrierPlays, vars, fillVars, wireVars, loopVars, histVars
<1> QED
  BY <1>1, <1>2, <1>3, <1>4, <1>5 DEF Next

\* The slot has one holder, with one message.
LEMMA SlotTyped == SlotTypes /\ [Next]_vars => SlotTypes'
<1> SUFFICES ASSUME SlotTypes, [Next]_vars PROVE SlotTypes'
  OBVIOUS
<1>1. ASSUME UNCHANGED <<slot, msg>> \/ release PROVE SlotTypes'
  BY <1>1 DEF SlotTypes, release
<1>2. CASE RunStep
  BY <1>1, <1>2 DEF RunStep, ReadEvent, Media, OwnClear, Clear, clear, RunTakesSlot, RunWritesMessage,
     RunWriteFails, RunEnds, wireVars, SlotTypes
<1>3. CASE FillerStep
  BY <1>1, <1>3 DEF FillerStep, DelayElapses, start, PlayTakesSlot, PlayLeaves, PlayWrites,
     PlayWriteFails, endEpisode, wireVars, SlotTypes
<1>4. CASE LoopTakesSlot
  BY <1>4 DEF LoopTakesSlot, LoopWrites, SlotTypes
<1>5. CASE \/ TimerExpires \/ CallEnds \/ FarewellStops \/ LoopWritesMessage \/ LoopWriteFails
           \/ ClaimCarrier \/ MarkResolves \/ Return
  BY <1>1, <1>5 DEF TimerExpires, CallEnds, FarewellStops, LoopWritesMessage, LoopWriteFails,
     ClaimCarrier, MarkResolves, Return, wireVars
<1>6. CASE Drain \/ CarrierPlays \/ UNCHANGED vars
  BY <1>1, <1>6 DEF Drain, CarrierPlays, vars, wireVars
<1> QED
  BY <1>2, <1>3, <1>4, <1>5, <1>6 DEF Next, LoopStep

\* The loop's stages and the clip.
LEMMA ClipInvInductive ==
    ASSUME FarewellInv, ClipInv, [Next]_vars
    PROVE  ClipInv'
<1>0. clip \in Nat /\ ClipFrames \in Nat
  BY RelayConstants DEF ClipInv
<1>1. ASSUME UNCHANGED <<loop, clip>> PROVE ClipInv'
  BY <1>1 DEF ClipInv
<1>2. CASE RunStep
  BY <1>1, <1>2 DEF RunStep, ReadEvent, Media, OwnClear, Clear, clear, RunTakesSlot, RunWritesMessage,
     RunWriteFails, RunEnds, loopVars
<1>3. CASE FillerStep \/ Drain
  BY <1>1, <1>3 DEF FillerStep, DelayElapses, start, PlayTakesSlot, PlayLeaves, PlayWrites,
     PlayWriteFails, endEpisode, Drain, loopVars
<1>4. CASE TimerExpires \/ CallEnds
  <2>1. clip = 0
    BY <1>0, <1>4 DEF TimerExpires, CallEnds, FarewellInv
  <2> QED
    BY <1>0, <1>4, <2>1 DEF TimerExpires, CallEnds, ClipInv, LoopStages
<1>5. CASE FarewellStops \/ ClaimCarrier
  BY <1>0, <1>5 DEF FarewellStops, ClaimCarrier, ClipInv, LoopStages
<1>6. CASE LoopTakesSlot
  BY <1>1, <1>6 DEF LoopTakesSlot, loopVars
<1>7. CASE LoopWriteFails \/ MarkResolves \/ Return
  BY <1>7 DEF LoopWriteFails, MarkResolves, Return, ClipInv, LoopStages
<1>8. CASE LoopWritesMessage
  <2>1. \/ loop = "clearWrite" /\ msg = "clear"
        \/ loop = "clip" /\ msg = "farewell"
        \/ loop = "mark" /\ msg = "mark"
    BY <1>8 DEF LoopWritesMessage, FarewellInv
  <2> QED
    BY <1>0, <1>8, <2>1 DEF LoopWritesMessage, ClipInv, LoopStages
<1>9. CASE CarrierPlays \/ UNCHANGED vars
  BY <1>1, <1>9 DEF CarrierPlays, vars, loopVars
<1> QED
  BY <1>2, <1>3, <1>4, <1>5, <1>6, <1>7, <1>8, <1>9 DEF Next, LoopStep

(***************************************************************************)
(* The state has its type: the feed keeps to its depth, the slot has one   *)
(* holder, what is at the carrier is audio or a mark, and no more of the   *)
(* farewell is written than its clip has, however its writes fail and      *)
(* whoever holds the slot (playFarewell).                                  *)
(***************************************************************************)
THEOREM TypeCorrect == Spec => []TypeOK
<1> DEFINE Inv == /\ BridgeTypes /\ FillTypes /\ FlagTypes /\ SlotTypes
                  /\ FarewellInv /\ SlotInv /\ ClipInv
<1>1. Init => Inv
  <2> SUFFICES ASSUME Init PROVE Inv
    OBVIOUS
  <2>1. BridgeTypes
    BY RelayConstants, EmptySeq DEF Init, BridgeTypes, RunStages
  <2>2. FillTypes /\ SlotTypes
    BY DEF Init, FillTypes, SlotTypes
  <2>3. FlagTypes /\ ~stopped /\ ~farewelling
    BY DEF Init, FlagTypes
  <2>4. ClipInv
    BY RelayConstants DEF Init, ClipInv, LoopStages
  <2>5. FarewellInv
    <3>1. farewelling \in BOOLEAN /\ clip = 0 /\ loop = "select" /\ slot = "free"
      BY <2>3 DEF Init, FlagTypes
    <3> QED
      BY <3>1 DEF FarewellInv
  <2>6. SlotInv
    BY <2>3 DEF Init, SlotInv
  <2> QED
    BY <2>1, <2>2, <2>3, <2>4, <2>5, <2>6
<1>2. Inv /\ [Next]_vars => Inv'
  BY BridgeTyped, FillTyped, FlagsTyped, SlotTyped, FarewellInvInductive, SlotInvInductive,
     ClipInvInductive
<1>3. Inv => TypeOK
  BY DEF BridgeTypes, FillTypes, FlagTypes, SlotTypes, SlotInv, ClipInv, TypeOK
<1> QED
  BY <1>1, <1>2, <1>3, PTL DEF Spec
============================================================================
