------------------------ MODULE CallerSilenceProofs -------------------------
(***************************************************************************)
(* TLAPS proofs about CallerSilence, for any capacity of the event channel *)
(* and any number of server events.                                        *)
(***************************************************************************)
EXTENDS CallerSilence, SequenceTheorems, FiniteSetTheorems, TLAPS

----------------------------------------------------------------------------
(* Type correctness. *)

\* The type invariant in two parts, the flags and the rest.
Flags ==
    /\ speaking \in BOOLEAN /\ audio \in BOOLEAN /\ pending \in BOOLEAN /\ want \in BOOLEAN
    /\ due \in BOOLEAN /\ dueCh \in BOOLEAN /\ firedCh \in BOOLEAN
    /\ talking \in BOOLEAN /\ fresh \in BOOLEAN /\ lost \in BOOLEAN
    /\ tooled \in BOOLEAN /\ owed \in BOOLEAN

Shape ==
    /\ run \in {"read", "delta", "account", "speech", "clear"}
    /\ sent \in 0..MaxEvents
    /\ events \in Seq(ServerEvents) /\ Len(events) <= EventDepth
    /\ starts \in Nat /\ heard \in Nat /\ wantHeard \in Nat
    /\ gen \in Nat /\ seq \in Nat /\ count \in Nat /\ mark \in Nat
    /\ firing \subseteq Nat
    /\ loop \in {"select", "claim", "write", "arm", "ended"}
    /\ slot \in {"free", "run", "loop"}
    /\ DOMAIN tracked \subseteq 1..seq /\ \A m \in DOMAIN tracked : tracked[m] \in Nat
    /\ marks \subseteq Nat /\ audioLeft \subseteq Nat
    /\ cause \in {"none", "silence", "other"}

\* The two parts are the type invariant.
LEMMA TypeParts == TypeOK <=> Shape /\ Flags
  BY DEF TypeOK, Shape, Flags

\* A mark in hand has been named.
Named == loop \in {"claim", "write", "arm"} => seq > 0

\* The flags stay flags.
LEMMA FlagsKept ==
    ASSUME Flags, [Next]_vars
    PROVE  Flags'
<1> USE DEF Flags
<1>1. ASSUME NEW ev \in ServerEvents, ReadEvent(ev) PROVE Flags'
  BY <1>1, Zenon DEF ReadEvent, remember, drainVars, timeVars
<1>2. CASE Media \/ WriteClear \/ WriteMark \/ armPlayout \/ CarrierPlays \/ CountElapses
  <2>1. UNCHANGED <<drainVars, histVars, due, dueCh, firedCh>> /\ (UNCHANGED audio)
    <3>1. CASE Media \/ WriteClear
      BY <3>1 DEF Media, WriteClear, timeVars
    <3>2. CASE WriteMark \/ armPlayout
      BY <3>2 DEF WriteMark, armPlayout, timeVars
    <3>3. CASE CarrierPlays \/ CountElapses
      BY <3>3 DEF CarrierPlays, CountElapses, timeVars
    <3> QED
      BY <1>2, <3>1, <3>2, <3>3
  <2> QED
    BY <2>1, Zenon DEF drainVars, histVars
<1>3. CASE agentAudio \/ callerSpoke \/ CallEnds
  <2>1. CASE agentAudio
    BY <2>1, Zenon DEF agentAudio, stopTimerLocked, drainVars, histVars
  <2>2. CASE callerSpoke
    BY <2>2, Zenon DEF callerSpoke, stopTimerLocked, drainVars
  <2>3. CASE CallEnds
    BY <2>3, Zenon DEF CallEnds, stopTimerLocked, drainVars, histVars
  <2> QED
    BY <1>3, <2>1, <2>2, <2>3
<1>4. CASE Drain
  <2>1. PICK ev : observe(ev)
    BY <1>4, Zenon DEF Drain
  <2>2. speaking' \in BOOLEAN /\ pending' \in BOOLEAN /\ want' \in BOOLEAN
        /\ due' \in BOOLEAN /\ dueCh' \in BOOLEAN
    BY <2>1, Zenon DEF observe, observeSpeech, observeStopped, observeToolDone, observeDone,
                       stopTimerLocked, drainVars
  <2> QED
    BY <1>4, <2>2, Zenon DEF Drain, histVars
<1>5. CASE MarkDue \/ claim \/ end
  <2>1. CASE MarkDue
    BY <2>1, Zenon DEF MarkDue, timeVars, histVars
  <2>2. CASE claim
    BY <2>2, Zenon DEF claim, drainVars, timeVars, histVars
  <2>3. CASE end
    BY <2>3, Zenon DEF end, stopTimerLocked, drainVars, histVars
  <2> QED
    BY <1>5, <2>1, <2>2, <2>3
<1>6. ASSUME NEW m \in DOMAIN tracked, expire(m) PROVE Flags'
  BY <1>6, Zenon DEF expire, resolve, played, drainVars, histVars
<1>7. ASSUME NEW m \in marks, EchoMark(m) \/ IgnoreMark(m) PROVE Flags'
  <2>1. CASE EchoMark(m)
    BY <2>1, Zenon DEF EchoMark, resolve, played, drainVars, histVars
  <2>2. CASE IgnoreMark(m)
    BY <2>2, Zenon DEF IgnoreMark, drainVars, timeVars, histVars
  <2> QED
    BY <1>7, <2>1, <2>2
<1>8. ASSUME NEW g \in firing, fire(g) PROVE Flags'
  BY <1>8, Zenon DEF fire, drainVars, histVars
<1>9. CASE UNCHANGED vars
  BY <1>9, Zenon DEF vars, drainVars, timeVars, histVars
<1> HIDE DEF Flags
<1> QED
  BY <1>1, <1>2, <1>3, <1>4, <1>5, <1>6, <1>7, <1>8, <1>9 DEF Next, SilenceStep

\* Resolving a mark keeps the types of what it touches.
LEMMA ResolveType ==
    ASSUME Shape, NEW m \in DOMAIN tracked, resolve(m)
    PROVE  /\ count' \in Nat
           /\ DOMAIN tracked' \subseteq DOMAIN tracked
           /\ \A k \in DOMAIN tracked' : tracked'[k] = tracked[k]
<1>1. count' \in Nat
  BY DEF resolve, played, Shape
<1>2. tracked' = [k \in DOMAIN tracked \ {m} |-> tracked[k]]
  BY DEF resolve
<1> QED
  BY <1>1, <1>2

(***************************************************************************)
(* Every variable has its type: the event channel is within its depth, and *)
(* the tracker holds marks that were named.                                *)
(***************************************************************************)
THEOREM TypeCorrect == Spec => [](TypeOK /\ Named)
<1>1. Init => Shape /\ Flags /\ Named
  <2> SUFFICES ASSUME Init PROVE Shape /\ Flags /\ Named
    OBVIOUS
  <2>0. Flags
    BY Zenon DEF Init, Flags
  <2>1. events \in Seq(ServerEvents) /\ Len(events) = 0
    BY DEF Init
  <2>2. DOMAIN tracked = {}
    BY DEF Init
  <2> QED
    BY <2>0, <2>1, <2>2, SilenceConstants DEF Init, Shape, Named
<1>2. Shape /\ Named /\ [Next]_vars => Shape' /\ Named'
  <2> SUFFICES ASSUME Shape, Named, [Next]_vars PROVE Shape' /\ Named'
    OBVIOUS
  <2> DEFINE Good == Shape' /\ Named'
  <2> USE DEF Named, Shape
  <2>1. ASSUME NEW ev \in ServerEvents, ReadEvent(ev) PROVE Good
    <3>1. events' \in Seq(ServerEvents) /\ Len(events') <= EventDepth
      <4>1. CASE Len(events) < EventDepth
        <5>1. events' = Append(events, ev)
          BY <2>1, <4>1 DEF ReadEvent
        <5> QED
          BY <4>1, <5>1, AppendProperties, LenProperties, SilenceConstants
      <4>2. CASE ~(Len(events) < EventDepth)
        BY <2>1, <4>2 DEF ReadEvent
      <4> QED
        BY <4>1, <4>2
    <3>2. sent' \in 0..MaxEvents
      BY <2>1, SilenceConstants DEF ReadEvent
    <3>3. run' \in {"read", "delta", "account", "speech", "clear"}
      BY <2>1 DEF ReadEvent
    <3> QED
      BY <2>1, <3>1, <3>2, <3>3
         DEF ReadEvent, drainVars, timeVars, loopVars, carrier
  <2>2. CASE Media
    <3>1. lastMark \in Nat
      BY DEF lastMark
    <3> QED
      BY <2>2, <3>1 DEF Media, drainVars, timeVars, loopVars, histVars
  <2>3. CASE agentAudio
    BY <2>3 DEF agentAudio, stopTimerLocked, drainVars, loopVars, histVars, carrier
  <2>4. CASE callerSpoke
    BY <2>4 DEF callerSpoke, stopTimerLocked, drainVars, loopVars, carrier
  <2>5. CASE WriteClear
    BY <2>5 DEF WriteClear, drainVars, timeVars, loopVars, histVars
  <2>6. CASE Drain
    <3>1. /\ events' \in Seq(ServerEvents) /\ Len(events') <= EventDepth
      <4>1. events # << >> /\ events' = Tail(events)
        BY <2>6 DEF Drain
      <4> QED
        BY <4>1, HeadTailProperties, LenProperties, SilenceConstants
    <3>2. heard' \in Nat /\ wantHeard' \in Nat /\ count' \in Nat
      <4> DEFINE ev == Head(events)
      <4>0. observe(ev)
        BY <2>6 DEF Drain
      <4> HIDE DEF ev
      <4>1. CASE observeSpeech
        BY <4>1 DEF observeSpeech
      <4>2. CASE observeStopped
        BY <4>2 DEF observeStopped
      <4>3. CASE observeToolDone
        BY <4>3 DEF observeToolDone, stopTimerLocked
      <4>4. CASE observeDone
        BY <4>4 DEF observeDone
      <4>5. CASE UNCHANGED <<drainVars, count, due, dueCh>>
        BY <4>5 DEF drainVars
      <4> QED
        BY <4>0, <4>1, <4>2, <4>3, <4>4, <4>5 DEF observe
    <3>3. UNCHANGED <<run, sent, starts, gen, audio, firing, firedCh, loop, mark, seq, cause,
                      slot, tracked, marks, audioLeft, talking, fresh, lost, tooled, owed>>
      BY <2>6 DEF Drain, loopVars, carrier, histVars
    <3> QED
      BY <3>1, <3>2, <3>3
  <2>7. CASE MarkDue
    <3>1. loop' \in {"select", "claim"} /\ mark' \in Nat /\ seq' \in {seq, seq + 1}
          /\ (loop' = "claim" => seq' = seq + 1)
      BY <2>7 DEF MarkDue
    <3>2. DOMAIN tracked \subseteq 1..seq'
      BY <3>1
    <3> QED
      BY <2>7, <3>1, <3>2 DEF MarkDue, timeVars, carrier, histVars
  <2>8. CASE claim
    <3>1. loop' \in {"write", "select"} /\ mark' \in Nat /\ slot' \in {"loop", slot}
      BY <2>8 DEF claim
    <3> QED
      BY <2>8, <3>1 DEF claim, drainVars, timeVars, carrier, histVars
  <2>9. CASE WriteMark
    BY <2>9 DEF WriteMark, drainVars, timeVars, histVars
  <2>10. CASE armPlayout
    <3>1. seq \in 1..seq
      BY <2>10 DEF armPlayout
    <3>2. DOMAIN tracked' \subseteq 1..seq /\ \A m \in DOMAIN tracked' : tracked'[m] \in Nat
      BY <2>10, <3>1 DEF armPlayout
    <3> QED
      BY <2>10, <3>2 DEF armPlayout, drainVars, timeVars, carrier, histVars
  <2>11. CASE end
    <3>1. loop' \in {"select", "ended"} /\ cause' \in {cause, "silence"} /\ count' \in Nat
      BY <2>11 DEF end, stopTimerLocked
    <3> QED
      BY <2>11, <3>1 DEF end, drainVars, carrier, histVars
  <2>12. CASE CallEnds
    BY <2>12 DEF CallEnds, stopTimerLocked, drainVars, carrier, histVars
  <2>13. ASSUME NEW m \in DOMAIN tracked, expire(m) PROVE Good
    BY <2>13, ResolveType DEF expire, drainVars, loopVars, carrier, histVars
  <2>14. CASE CarrierPlays
    <3>1. audioLeft' \subseteq Nat
      BY <2>14 DEF CarrierPlays
    <3> QED
      BY <2>14, <3>1 DEF CarrierPlays, drainVars, timeVars, loopVars, histVars
  <2>15. ASSUME NEW m \in marks, EchoMark(m) PROVE Good
    <3>1. /\ count' \in Nat
          /\ DOMAIN tracked' \subseteq DOMAIN tracked
          /\ \A k \in DOMAIN tracked' : tracked'[k] = tracked[k]
      BY <2>15, ResolveType DEF EchoMark
    <3> QED
      BY <2>15, <3>1 DEF EchoMark, drainVars, loopVars, histVars
  <2>16. ASSUME NEW m \in marks, IgnoreMark(m) PROVE Good
    BY <2>16 DEF IgnoreMark, drainVars, timeVars, loopVars, histVars
  <2>17. CASE CountElapses
    BY <2>17 DEF CountElapses, drainVars, loopVars, carrier, histVars
  <2>18. ASSUME NEW g \in firing, fire(g) PROVE Good
    <3>1. count' \in Nat /\ firing' \subseteq Nat
      BY <2>18 DEF fire
    <3> QED
      BY <2>18, <3>1 DEF fire, drainVars, loopVars, carrier, histVars
  <2>19. CASE UNCHANGED vars
    BY <2>19 DEF vars, drainVars, timeVars, loopVars, carrier, histVars
  <2> QED
    BY <2>1, <2>2, <2>3, <2>4, <2>5, <2>6, <2>7, <2>8, <2>9, <2>10, <2>11, <2>12,
       <2>13, <2>14, <2>15, <2>16, <2>17, <2>18, <2>19 DEF Next, SilenceStep
<1> QED
  BY <1>1, <1>2, FlagsKept, TypeParts, PTL DEF Spec

----------------------------------------------------------------------------
(* Speech starts on their way to the drain. *)

\* The speech starts among the first n events of a queue.
Places(q, n) == {j \in 1..n : q[j] = "speech"}
Speeches(q, n) == Cardinality(Places(q, n))

Bit(b) == IF b THEN 1 ELSE 0

\* A count of places is a natural.
LEMMA SpeechesType ==
    ASSUME NEW q, NEW n \in Nat
    PROVE  IsFiniteSet(Places(q, n)) /\ Speeches(q, n) \in Nat
<1>1. IsFiniteSet(1..n) /\ Places(q, n) \in SUBSET (1..n)
  BY FS_Interval DEF Places
<1> QED
  BY <1>1, FS_Subset, FS_CardinalityType DEF Speeches

\* An event joins the queue.
LEMMA SpeechesAppend ==
    ASSUME NEW q \in Seq(ServerEvents), NEW e \in ServerEvents
    PROVE  /\ \A n \in 0..Len(q) : Speeches(Append(q, e), n) = Speeches(q, n)
           /\ Speeches(Append(q, e), Len(q) + 1) = Speeches(q, Len(q)) + Bit(e = "speech")
<1> DEFINE a == Append(q, e)
           k == Len(q) + 1
<1>1. Len(q) \in Nat /\ a[k] = e /\ \A i \in 1..Len(q) : a[i] = q[i]
  BY AppendProperties, LenProperties
<1> HIDE DEF a
<1>2. \A n \in 0..Len(q) : Places(a, n) = Places(q, n)
  BY <1>1 DEF Places
<1>3. CASE e = "speech"
  <2>1. Places(a, k) = Places(q, Len(q)) \cup {k} /\ k \notin Places(q, Len(q))
    BY <1>1, <1>3 DEF Places
  <2>2. Cardinality(Places(a, k)) = Cardinality(Places(q, Len(q))) + 1
    BY <1>1, <2>1, SpeechesType, FS_AddElement
  <2> QED
    BY <1>2, <1>3, <2>2 DEF Speeches, Bit, a
<1>4. CASE e # "speech"
  <2>1. Places(a, k) = Places(q, Len(q))
    BY <1>1, <1>4 DEF Places
  <2>2. Speeches(q, Len(q)) \in Nat
    BY <1>1, SpeechesType
  <2> QED
    BY <1>2, <1>4, <2>1, <2>2 DEF Speeches, Bit, a
<1> QED
  BY <1>3, <1>4

\* An event leaves it.
LEMMA SpeechesTail ==
    ASSUME NEW q \in Seq(ServerEvents), q # << >>, NEW n \in 0..(Len(q) - 1)
    PROVE  Speeches(Tail(q), n) + Bit(Head(q) = "speech") <= Speeches(q, n + 1)
<1> DEFINE P == Places(q, n + 1)
           Q == Places(Tail(q), n)
           R == P \ {1}
           f == [i \in Q |-> i + 1]
<1>1. /\ Len(Tail(q)) = Len(q) - 1 /\ Len(q) \in Nat /\ n \in Nat /\ n + 1 \in Nat
      /\ \A i \in 1..Len(Tail(q)) : Tail(q)[i] = q[i + 1]
      /\ Len(q) # 0 /\ q[1] = Head(q)
  BY HeadTailProperties, LenProperties, EmptySeq
<1>2. /\ IsFiniteSet(P) /\ Cardinality(P) \in Nat
      /\ IsFiniteSet(Q) /\ Cardinality(Q) \in Nat
  BY <1>1, SpeechesType DEF Speeches
<1>3. IsFiniteSet(R) /\ Cardinality(R) = IF 1 \in P THEN Cardinality(P) - 1 ELSE Cardinality(P)
  BY <1>2, FS_RemoveElement
<1>4. 1 \in P <=> Head(q) = "speech"
  BY <1>1 DEF Places
<1>5. f \in Injection(Q, R)
  <2>1. \A i \in Q : i \in Nat /\ i + 1 \in R
    BY <1>1 DEF Places
  <2>2. f \in [Q -> R]
    BY <2>1
  <2>3. \A a, b \in Q : f[a] = f[b] => a = b
    BY <2>1
  <2> HIDE DEF f
  <2> QED
    BY <2>2, <2>3 DEF Injection, IsInjective
<1>6. Cardinality(Q) <= Cardinality(R)
  BY <1>3, <1>5, FS_Injection
<1> HIDE DEF P, Q, R
<1>7. Cardinality(Q) + Bit(Head(q) = "speech") <= Cardinality(P)
  BY <1>2, <1>3, <1>4, <1>6 DEF Bit
<1> QED
  BY <1>7 DEF P, Q, Speeches

(***************************************************************************)
(* What the drain has seen and has still to see never runs ahead of what   *)
(* the sink has counted, but for the start the sink is about to count.  A  *)
(* drain that believes the caller silent, now or when it reaches a stop in *)
(* its queue, has not seen the start of what the caller is saying.         *)
(***************************************************************************)
SpeechInv ==
    /\ heard + Speeches(events, Len(events)) <= starts + Bit(run = "speech")
    /\ ~speaking => heard + Bit(talking) <= starts
    /\ \A i \in 1..Len(events) : events[i] = "stopped" =>
          heard + Speeches(events, i) + Bit(talking) <= starts
    /\ want => wantHeard + Bit(talking) <= starts
    /\ loop = "claim" => mark + Bit(talking) <= starts

\* A bit is a number.
LEMMA BitType == \A b : Bit(b) \in {0, 1}
  BY DEF Bit

\* The steps of everyone but Bridge.Run and the drain.
LEMMA SpeechStutter ==
    ASSUME Shape, SpeechInv,
           UNCHANGED <<events, starts, heard, speaking, talking, wantHeard>>,
           (run' = "speech") <=> (run = "speech"),
           UNCHANGED want \/ ~want',
           loop' = "claim" => \/ loop = "claim" /\ mark' = mark
                              \/ want /\ mark' = wantHeard
    PROVE  SpeechInv'
<1>1. Bit(run' = "speech") = Bit(run = "speech")
  BY DEF Bit
<1>2. want' => want
  BY Zenon
<1> QED
  BY <1>1, <1>2 DEF SpeechInv

\* SpeechInv depends on these variables only.
LEMMA SpeechKept ==
    ASSUME Shape, SpeechInv,
           UNCHANGED <<events, starts, heard, speaking, talking, wantHeard, want, loop, mark>>,
           (run' = "speech") <=> (run = "speech")
    PROVE  SpeechInv'
<1>1. loop' = "claim" => loop = "claim" /\ mark' = mark
  OBVIOUS
<1>2. UNCHANGED want
  OBVIOUS
<1> QED
  BY <1>1, <1>2, SpeechStutter

\* A bit follows its condition.
LEMMA BitMonotone ==
    ASSUME NEW b, NEW c, b => c
    PROVE  Bit(b) <= Bit(c)
  BY DEF Bit

\* What a read event does to the queue and to the history of the caller.
LEMMA ReadKeepsSpeech ==
    ASSUME Shape, Flags, SpeechInv, NEW ev \in ServerEvents, ReadEvent(ev)
    PROVE  SpeechInv'
<1>1. /\ Bit(talking) \in {0, 1} /\ Bit(talking') \in {0, 1}
      /\ Bit(talking') <= Bit(talking)
      /\ ev = "stopped" => Bit(talking') = 0
  <2>1. (talking' => talking) /\ (ev = "stopped" => ~talking')
    BY Zenon DEF ReadEvent, remember
  <2>2. Bit(talking') <= Bit(talking)
    BY <2>1, BitMonotone
  <2>3. ev = "stopped" => Bit(talking') = 0
    BY <2>1 DEF Bit
  <2> QED
    BY <2>2, <2>3, BitType
<1>2. /\ UNCHANGED <<starts, heard, wantHeard, speaking, want, loop, mark>>
      /\ run = "read"
  BY DEF ReadEvent, drainVars, loopVars
<1>3. Bit(run = "speech") = 0 /\ Bit(run' = "speech") = Bit(ev = "speech")
      /\ Bit(ev = "speech") \in {0, 1}
  BY <1>2 DEF ReadEvent, Bit
<1>4. Len(events) \in Nat /\ Speeches(events, Len(events)) \in Nat
  BY SpeechesType, LenProperties DEF Shape
<1>5. /\ heard' + Speeches(events', Len(events')) <= starts' + Bit(run' = "speech")
      /\ \A i \in 1..Len(events') : events'[i] = "stopped" =>
            heard' + Speeches(events', i) + Bit(talking') <= starts'
  <2>1. CASE Len(events) < EventDepth
    <3> DEFINE a == Append(events, ev)
    <3>1. events' = a
      BY <2>1 DEF ReadEvent
    <3>2. Len(a) = Len(events) + 1 /\ a[Len(events) + 1] = ev
          /\ \A i \in 1..Len(events) : a[i] = events[i]
      BY AppendProperties DEF Shape
    <3>3. /\ \A n \in 0..Len(events) : Speeches(a, n) = Speeches(events, n)
          /\ Speeches(a, Len(events) + 1) = Speeches(events, Len(events)) + Bit(ev = "speech")
      BY SpeechesAppend DEF Shape
    <3> HIDE DEF a
    <3>4. heard + Speeches(a, Len(events) + 1) <= starts + Bit(ev = "speech")
      BY <1>3, <1>4, <3>3 DEF SpeechInv, Shape
    <3>5. ASSUME NEW i \in 1..(Len(events) + 1), a[i] = "stopped"
          PROVE  heard + Speeches(a, i) + Bit(talking') <= starts
      <4>1. CASE i = Len(events) + 1
        <5>1. ev = "stopped" /\ Bit(ev = "speech") = 0 /\ Bit(talking') = 0
          BY <1>1, <3>2, <3>5, <4>1 DEF Bit
        <5>2. Speeches(a, i) = Speeches(events, Len(events))
          BY <1>4, <3>3, <4>1, <5>1
        <5> QED
          BY <1>4, <3>4, <4>1, <5>1, <5>2 DEF Shape
      <4>2. CASE i # Len(events) + 1
        <5>1. i \in 1..Len(events)
          BY <1>4, <4>2
        <5>2. heard + Speeches(events, i) + Bit(talking) <= starts
              /\ Speeches(a, i) = Speeches(events, i)
          BY <1>4, <3>2, <3>3, <3>5, <5>1 DEF SpeechInv
        <5>3. Speeches(events, i) \in Nat
          BY SpeechesType
        <5> QED
          BY <1>1, <5>2, <5>3 DEF Shape
      <4> QED
        BY <4>1, <4>2
    <3> QED
      BY <1>2, <1>3, <3>1, <3>2, <3>4, <3>5
  <2>2. CASE ~(Len(events) < EventDepth)
    <3>1. events' = events
      BY <2>2 DEF ReadEvent
    <3>2. \A i \in 1..Len(events) : Speeches(events, i) \in Nat
      BY <1>4, SpeechesType
    <3> QED
      BY <1>1, <1>2, <1>3, <1>4, <3>1, <3>2 DEF SpeechInv, Shape
  <2> QED
    BY <2>1, <2>2
<1>6. /\ ~speaking' => heard' + Bit(talking') <= starts'
      /\ want' => wantHeard' + Bit(talking') <= starts'
      /\ loop' = "claim" => mark' + Bit(talking') <= starts'
  BY <1>1, <1>2 DEF SpeechInv, Shape
<1> QED
  BY <1>5, <1>6 DEF SpeechInv

\* An event leaves the queue, for observe.
LEMMA DrainKeepsSpeech ==
    ASSUME Shape, Flags, SpeechInv, Drain
    PROVE  SpeechInv'
<1> DEFINE ev == Head(events)
<1>1. /\ events # << >> /\ events' = Tail(events) /\ observe(ev)
      /\ UNCHANGED <<run, starts, talking, loop, mark>>
  BY DEF Drain, loopVars, histVars
<1>2. /\ Len(events) \in Nat \ {0} /\ Len(events') = Len(events) - 1
      /\ \A i \in 1..Len(events') : events'[i] = events[i + 1]
      /\ events[1] = ev
  BY <1>1, HeadTailProperties, LenProperties, EmptySeq DEF Shape
<1>3. \A n \in 0..Len(events') :
         Speeches(events', n) + Bit(ev = "speech") <= Speeches(events, n + 1)
  BY <1>1, <1>2, SpeechesTail DEF Shape
<1>4. /\ \A n \in 0..Len(events') : Speeches(events', n) \in Nat
                                   /\ Speeches(events, n + 1) \in Nat
      /\ Speeches(events, 1) \in Nat
      /\ Bit(talking) \in {0, 1} /\ Bit(ev = "speech") \in {0, 1}
      /\ Bit(run = "speech") \in {0, 1}
  BY <1>2, SpeechesType, BitType
<1> HIDE DEF ev
<1>5. /\ heard' \in Nat /\ heard' <= heard + Bit(ev = "speech")
      /\ ~speaking' => heard' + Bit(talking) <= starts
      /\ want' => wantHeard' + Bit(talking) <= starts
  <2>1. CASE ev = "speech" /\ observeSpeech
    <3>1. speaking' /\ heard' = heard + 1 /\ want' = want /\ wantHeard' = wantHeard
      BY <2>1, Zenon DEF observeSpeech
    <3>2. Bit(ev = "speech") = 1
      BY <2>1 DEF Bit
    <3> QED
      BY <3>1, <3>2 DEF SpeechInv, Shape
  <2>2. CASE ev = "stopped" /\ observeStopped
    <3>1. heard' = heard /\ want' = want /\ wantHeard' = wantHeard
      BY <2>2 DEF observeStopped
    <3>2. heard + Speeches(events, 1) + Bit(talking) <= starts
      BY <1>2, <2>2 DEF SpeechInv
    <3> QED
      BY <1>4, <3>1, <3>2 DEF SpeechInv, Shape
  <2>3. CASE ev = "toolDone" /\ observeToolDone
    <3>1. heard' = heard /\ speaking' = speaking /\ ~want'
      BY <2>3, Zenon DEF observeToolDone
    <3> QED
      BY <1>4, <3>1 DEF SpeechInv, Shape
  <2>4. CASE ev = "done" /\ observeDone
    <3>1. heard' = heard /\ speaking' = speaking
      BY <2>4 DEF observeDone
    <3>2. CASE speaking
      <4>1. want' = want /\ wantHeard' = wantHeard
        BY <2>4, <3>2 DEF observeDone
      <4> QED
        BY <1>4, <3>1, <4>1 DEF SpeechInv, Shape
    <3>3. CASE ~speaking
      <4>1. wantHeard' = heard
        BY <2>4, <3>3 DEF observeDone
      <4> QED
        BY <1>4, <3>1, <3>3, <4>1 DEF SpeechInv, Shape
    <3> QED
      BY <3>2, <3>3
  <2>5. CASE ev = "delta" /\ UNCHANGED <<drainVars, count, due, dueCh>>
    <3>1. heard' = heard /\ speaking' = speaking /\ want' = want /\ wantHeard' = wantHeard
      BY <2>5 DEF drainVars
    <3> QED
      BY <1>4, <3>1 DEF SpeechInv, Shape
  <2> QED
    BY <1>1, <2>1, <2>2, <2>3, <2>4, <2>5 DEF observe
<1>6. heard' + Speeches(events', Len(events')) <= starts + Bit(run = "speech")
  <2>1. Speeches(events', Len(events')) + Bit(ev = "speech") <= Speeches(events, Len(events))
        /\ Speeches(events', Len(events')) \in Nat /\ Speeches(events, Len(events)) \in Nat
    <3>1. Len(events') \in 0..Len(events') /\ Len(events') + 1 = Len(events)
      BY <1>2
    <3> QED
      BY <1>3, <1>4, <3>1
  <2>2. heard + Speeches(events, Len(events)) <= starts + Bit(run = "speech")
    BY DEF SpeechInv
  <2> QED
    BY <1>4, <1>5, <2>1, <2>2 DEF Shape
<1>7. ASSUME NEW i \in 1..Len(events'), events'[i] = "stopped"
      PROVE  heard' + Speeches(events', i) + Bit(talking) <= starts
  <2>1. events[i + 1] = "stopped" /\ i + 1 \in 1..Len(events) /\ i \in 0..Len(events')
    BY <1>2, <1>7
  <2>2. heard + Speeches(events, i + 1) + Bit(talking) <= starts
    BY <2>1 DEF SpeechInv
  <2>3. Speeches(events', i) + Bit(ev = "speech") <= Speeches(events, i + 1)
        /\ Speeches(events', i) \in Nat /\ Speeches(events, i + 1) \in Nat
    BY <1>3, <1>4, <2>1
  <2> QED
    BY <1>4, <1>5, <2>2, <2>3 DEF Shape
<1> QED
  BY <1>1, <1>5, <1>6, <1>7 DEF SpeechInv

\* Every step keeps the account of speech starts.
LEMMA SpeechInvInductive ==
    ASSUME Shape, Flags, SpeechInv, [Next]_vars
    PROVE  SpeechInv'
<1>1. ASSUME NEW ev \in ServerEvents, ReadEvent(ev) PROVE SpeechInv'
  BY <1>1, ReadKeepsSpeech
<1>2. CASE Drain
  BY <1>2, DrainKeepsSpeech
<1>3. CASE callerSpoke
  <2>1. /\ UNCHANGED <<events, heard, wantHeard, speaking, want, loop, mark>>
        /\ run = "speech" /\ run' = "clear" /\ starts' = starts + 1
    BY <1>3 DEF callerSpoke, drainVars, loopVars
  <2>2. Bit(run = "speech") = 1 /\ Bit(run' = "speech") = 0
        /\ Bit(talking) \in {0, 1} /\ Bit(talking') \in {0, 1}
    BY <2>1, BitType DEF Bit
  <2>3. Len(events) \in Nat /\ \A i \in 0..Len(events) : Speeches(events, i) \in Nat
    BY SpeechesType, LenProperties DEF Shape
  <2> QED
    BY <2>1, <2>2, <2>3 DEF SpeechInv, Shape
<1>4. CASE Media \/ agentAudio \/ WriteClear
  BY <1>4, SpeechKept
     DEF Media, agentAudio, WriteClear, drainVars, loopVars, histVars
<1>5. CASE MarkDue
  <2>1. loop' = "claim" => want /\ mark' = wantHeard
    BY <1>5 DEF MarkDue
  <2> QED
    BY <1>5, <2>1, SpeechStutter DEF MarkDue, histVars
<1>6. CASE claim \/ WriteMark \/ armPlayout
  <2>1. loop' # "claim"
    BY <1>6 DEF claim, WriteMark, armPlayout
  <2> QED
    BY <1>6, <2>1, SpeechStutter DEF claim, WriteMark, armPlayout, drainVars, histVars
<1>7. CASE end \/ CallEnds
  <2>1. loop' # "claim"
    BY <1>7 DEF end, CallEnds
  <2> QED
    BY <1>7, <2>1, SpeechStutter DEF end, CallEnds, drainVars, histVars
<1>8. ASSUME NEW m \in DOMAIN tracked, expire(m) PROVE SpeechInv'
  BY <1>8, SpeechKept DEF expire, drainVars, loopVars, histVars
<1>9. ASSUME NEW m \in marks, EchoMark(m) \/ IgnoreMark(m) PROVE SpeechInv'
  BY <1>9, SpeechKept DEF EchoMark, IgnoreMark, drainVars, loopVars, histVars
<1>10. CASE CarrierPlays \/ CountElapses
  BY <1>10, SpeechKept DEF CarrierPlays, CountElapses, drainVars, loopVars, histVars
<1>11. ASSUME NEW g \in firing, fire(g) PROVE SpeechInv'
  BY <1>11, SpeechKept DEF fire, drainVars, loopVars, histVars
<1>12. CASE UNCHANGED vars
  BY <1>12, SpeechKept DEF vars, drainVars, loopVars, histVars
<1> QED
  BY <1>1, <1>2, <1>3, <1>4, <1>5, <1>6, <1>7, <1>8, <1>9, <1>10, <1>11, <1>12
     DEF Next, SilenceStep

----------------------------------------------------------------------------
(* The write slot and the tokens it hands out. *)

\* A writer that is between its write and what follows it holds the slot.
SlotInv ==
    /\ run = "account" => slot = "run"
    /\ loop \in {"write", "arm"} => slot = "loop"

\* No audio is left behind mark m but a frame that has still to be accounted.
Ahead(m) == run = "account" \/ \A a \in audioLeft : a < m

\* No audio is left but such a frame.
Quiet == run = "account" \/ audioLeft = {}

(***************************************************************************)
(* A generation is a token.  The mark being written, a mark the tracker    *)
(* holds and the running count each carry one, and while it is still       *)
(* current the caller has not spoken since it was taken, and no frame was  *)
(* sent behind the mark.                                                   *)
(***************************************************************************)
TokenInv ==
    /\ loop \in {"write", "arm"} => mark <= gen /\ (mark = gen => ~talking)
    /\ \A m \in DOMAIN tracked : tracked[m] <= gen
    /\ \A m \in DOMAIN tracked : tracked[m] = gen => ~talking /\ Ahead(m)
    /\ (count # 0 \/ due) => ~talking /\ Quiet
    /\ cause = "silence" => ~talking /\ loop = "ended"
    /\ \A a \in audioLeft : a <= seq
    /\ loop \in {"claim", "write", "arm"} => \A a \in audioLeft : a < seq

\* Every step keeps the slot with its holder.
LEMMA SlotInvInductive ==
    ASSUME Shape, SlotInv, [Next]_vars
    PROVE  SlotInv'
<1> USE DEF SlotInv, Shape
<1>1. ASSUME NEW ev \in ServerEvents, ReadEvent(ev) PROVE SlotInv'
  BY <1>1 DEF ReadEvent, ServerEvents, loopVars
<1>2. CASE Media \/ agentAudio
  BY <1>2 DEF Media, agentAudio, loopVars
<1>3. CASE callerSpoke \/ WriteClear
  BY <1>3 DEF callerSpoke, WriteClear, loopVars
<1>4. CASE Drain
  BY <1>4 DEF Drain, loopVars
<1>5. CASE MarkDue \/ claim \/ WriteMark \/ armPlayout
  BY <1>5 DEF MarkDue, claim, WriteMark, armPlayout
<1>6. CASE end \/ CallEnds
  BY <1>6 DEF end, CallEnds
<1>7. ASSUME NEW m \in DOMAIN tracked, expire(m) PROVE SlotInv'
  BY <1>7 DEF expire, loopVars
<1>8. ASSUME NEW m \in marks, EchoMark(m) \/ IgnoreMark(m) PROVE SlotInv'
  BY <1>8 DEF EchoMark, IgnoreMark, loopVars
<1>9. CASE CarrierPlays \/ CountElapses
  BY <1>9 DEF CarrierPlays, CountElapses, loopVars
<1>10. ASSUME NEW g \in firing, fire(g) PROVE SlotInv'
  BY <1>10 DEF fire, loopVars
<1>11. CASE UNCHANGED vars
  BY <1>11 DEF vars, loopVars
<1> QED
  BY <1>1, <1>2, <1>3, <1>4, <1>5, <1>6, <1>7, <1>8, <1>9, <1>10, <1>11
     DEF Next, SilenceStep

\* The steps that take no token, start no count, send no audio and bring no
\* speech.
LEMMA TokenKept ==
    ASSUME Shape, TokenInv,
           UNCHANGED <<gen, seq, loop, mark, cause, tracked>>,
           audioLeft' \subseteq audioLeft,
           run' = "account" <=> run = "account",
           talking' => talking,
           (count' # 0 \/ due') => (count # 0 \/ due)
    PROVE  TokenInv'
  BY DEF TokenInv, Ahead, Quiet, Shape

\* A mark resolved while its generation is current finds the audio played.
LEMMA ResolveQuiet ==
    ASSUME Shape, TokenInv, NEW m \in DOMAIN tracked, playedOut(m), resolve(m)
    PROVE  (count' # 0 \/ due') => ~talking /\ Quiet
<1>1. CASE tracked[m] = gen
  <2>1. ~talking /\ Ahead(m)
    BY <1>1 DEF TokenInv
  <2>2. m \in Nat /\ audioLeft \subseteq Nat
    BY DEF Shape
  <2> QED
    BY <2>1, <2>2 DEF Ahead, Quiet, playedOut
<1>2. CASE tracked[m] # gen
  BY <1>2 DEF resolve, played, TokenInv
<1> QED
  BY <1>1, <1>2

\* Every step keeps the tokens honest.
LEMMA TokenInvInductive ==
    ASSUME Shape, Flags, Named, SpeechInv, SlotInv, TokenInv, [Next]_vars
    PROVE  TokenInv'
<1>1. ASSUME NEW ev \in ServerEvents, ReadEvent(ev) PROVE TokenInv'
  <2>1. talking' => talking
    BY <1>1, Zenon DEF ReadEvent, remember
  <2>2. UNCHANGED <<gen, seq, loop, mark, cause, tracked, audioLeft, count, due>>
    BY <1>1 DEF ReadEvent, loopVars, timeVars, carrier
  <2>3. run' # "account" /\ run # "account"
    BY <1>1 DEF ReadEvent
  <2> QED
    BY <2>1, <2>2, <2>3, TokenKept
<1>2. CASE Media
  <2>1. /\ UNCHANGED <<gen, seq, loop, mark, cause, tracked, count, due, talking>>
        /\ run' = "account" /\ audioLeft' = audioLeft \cup {lastMark}
    BY <1>2 DEF Media, loopVars, timeVars, histVars
  <2>2. loop \notin {"write", "arm"}
    BY <1>2 DEF Media, SlotInv
  <2>3. lastMark <= seq /\ (loop = "claim" => lastMark < seq)
    BY DEF lastMark, Shape
  <2> QED
    BY <2>1, <2>2, <2>3 DEF TokenInv, Ahead, Quiet
<1>3. CASE agentAudio
  <2>1. /\ UNCHANGED <<seq, loop, mark, cause, tracked, audioLeft, talking>>
        /\ gen' = gen + 1 /\ count' = 0 /\ ~due'
    BY <1>3 DEF agentAudio, stopTimerLocked, loopVars, carrier, histVars
  <2>2. loop \notin {"write", "arm"}
    BY <1>3 DEF agentAudio, SlotInv
  <2> QED
    BY <2>1, <2>2 DEF TokenInv, Shape
<1>4. CASE callerSpoke
  <2>1. /\ UNCHANGED <<seq, loop, mark, cause, tracked, audioLeft>>
        /\ gen' = gen + 1 /\ count' = 0 /\ ~due' /\ loop # "ended"
    BY <1>4 DEF callerSpoke, stopTimerLocked, loopVars, carrier, latched
  <2> QED
    BY <2>1 DEF TokenInv, Shape
<1>5. CASE WriteClear
  BY <1>5, TokenKept DEF WriteClear, loopVars, timeVars, histVars
<1>6. CASE Drain
  <2>1. UNCHANGED <<gen, seq, loop, mark, cause, tracked, audioLeft, run, talking>>
    BY <1>6 DEF Drain, loopVars, carrier, histVars
  <2>2. PICK ev : observe(ev)
    BY <1>6, Zenon DEF Drain
  <2>3. \/ count' = 0 /\ ~due'
        \/ UNCHANGED <<count, due>>
    BY <2>2, Zenon DEF observe, observeSpeech, observeStopped, observeToolDone, observeDone,
                       stopTimerLocked
  <2> QED
    BY <2>1, <2>3, TokenKept
<1>7. CASE MarkDue
  <2>1. /\ UNCHANGED <<gen, cause, tracked, audioLeft, count, due, run, talking>>
        /\ loop = "select"
        /\ \/ UNCHANGED <<loop, mark, seq>>
           \/ loop' = "claim" /\ seq' = seq + 1
    BY <1>7 DEF MarkDue, timeVars, carrier, histVars
  <2>2. CASE UNCHANGED <<loop, mark, seq>>
    BY <2>1, <2>2, TokenKept
  <2>3. CASE loop' = "claim" /\ seq' = seq + 1
    <3>1. (\A a \in audioLeft : a < seq') /\ (\A a \in audioLeft : a <= seq')
      BY <2>3 DEF TokenInv, Shape
    <3> QED
      BY <2>1, <2>3, <3>1 DEF TokenInv, Ahead, Quiet
  <2> QED
    BY <2>1, <2>2, <2>3
<1>8. CASE claim
  <2>1. /\ UNCHANGED <<gen, seq, cause, tracked, audioLeft, count, due, run, talking>>
        /\ loop = "claim"
        /\ \/ loop' = "select"
           \/ loop' = "write" /\ mark' = gen /\ starts = mark
    BY <1>8 DEF claim, timeVars, carrier, histVars
  <2>2. starts = mark => ~talking
    <3>1. mark + Bit(talking) <= starts
      BY <2>1 DEF SpeechInv
    <3> QED
      BY <3>1 DEF Bit, Shape
  <2>3. CASE loop' = "select"
    BY <2>1, <2>3 DEF TokenInv, Ahead, Quiet
  <2>4. CASE loop' = "write" /\ mark' = gen /\ starts = mark
    BY <2>1, <2>2, <2>4 DEF TokenInv, Ahead, Quiet, Shape
  <2> QED
    BY <2>1, <2>3, <2>4
<1>9. CASE WriteMark
  <2>1. /\ UNCHANGED <<gen, seq, mark, cause, tracked, audioLeft, count, due, run, talking>>
        /\ loop = "write" /\ loop' = "arm"
    BY <1>9 DEF WriteMark, timeVars, histVars
  <2> QED
    BY <2>1 DEF TokenInv, Ahead, Quiet
<1>10. CASE armPlayout
  <2>1. /\ UNCHANGED <<gen, seq, cause, audioLeft, count, due, run, talking>>
        /\ loop = "arm" /\ loop' = "select"
        /\ tracked' = [m \in DOMAIN tracked \cup {seq} |-> IF m = seq THEN mark ELSE tracked[m]]
    BY <1>10 DEF armPlayout, timeVars, carrier, histVars
  <2>2. mark <= gen /\ (mark = gen => ~talking) /\ \A a \in audioLeft : a < seq
    BY <2>1 DEF TokenInv
  <2>3. ASSUME NEW m \in DOMAIN tracked'
        PROVE  tracked'[m] <= gen /\ (tracked'[m] = gen => ~talking /\ Ahead(m))
    <3>1. CASE m = seq
      BY <2>1, <2>2, <3>1 DEF Ahead
    <3>2. CASE m # seq
      BY <2>1, <3>2 DEF TokenInv
    <3> QED
      BY <3>1, <3>2
  <2>4. \A m : Ahead(m)' <=> Ahead(m)
    BY <2>1 DEF Ahead
  <2>5. Quiet' <=> Quiet
    BY <2>1 DEF Quiet
  <2> QED
    BY <2>1, <2>3, <2>4, <2>5 DEF TokenInv
<1>11. CASE end
  <2>1. /\ UNCHANGED <<gen, seq, mark, tracked, audioLeft, run, talking>>
        /\ \/ UNCHANGED <<loop, cause, count, due>>
           \/ due /\ loop' = "ended" /\ count' = 0 /\ ~due'
    BY <1>11 DEF end, stopTimerLocked, carrier, histVars
  <2>2. CASE UNCHANGED <<loop, cause, count, due>>
    BY <2>1, <2>2, TokenKept
  <2>3. CASE due /\ loop' = "ended" /\ count' = 0 /\ ~due'
    BY <2>1, <2>3 DEF TokenInv, Ahead, Quiet
  <2> QED
    BY <2>1, <2>2, <2>3
<1>12. CASE CallEnds
  <2>1. /\ UNCHANGED <<gen, seq, mark, tracked, audioLeft, run, talking>>
        /\ loop' = "ended" /\ count' = 0 /\ ~due' /\ cause' # "silence"
    BY <1>12 DEF CallEnds, stopTimerLocked, carrier, histVars
  <2> QED
    BY <2>1 DEF TokenInv, Ahead, Quiet
<1>13. ASSUME NEW m \in DOMAIN tracked, playedOut(m), resolve(m),
              UNCHANGED <<gen, seq, loop, mark, cause, audioLeft, run, talking>>
       PROVE  TokenInv'
  <2>1. (count' # 0 \/ due') => ~talking /\ Quiet
    BY <1>13, ResolveQuiet
  <2>2. DOMAIN tracked' \subseteq DOMAIN tracked
        /\ \A k \in DOMAIN tracked' : tracked'[k] = tracked[k]
    BY <1>13, ResolveType
  <2>3. \A k : Ahead(k)' <=> Ahead(k)
    BY <1>13 DEF Ahead
  <2>4. Quiet' <=> Quiet
    BY <1>13 DEF Quiet
  <2> QED
    BY <1>13, <2>1, <2>2, <2>3, <2>4 DEF TokenInv
<1>14. ASSUME NEW m \in DOMAIN tracked, expire(m) PROVE TokenInv'
  BY <1>13, <1>14 DEF expire, loopVars, carrier, histVars
<1>15. ASSUME NEW m \in marks, EchoMark(m) PROVE TokenInv'
  <2>1. UNCHANGED <<gen, seq, loop, mark, cause, audioLeft, run, talking>>
    BY <1>15 DEF EchoMark, loopVars, histVars
  <2>2. CASE m \in DOMAIN tracked
    BY <1>13, <1>15, <2>1, <2>2 DEF EchoMark, nextIsMark, playedOut
  <2>3. CASE m \notin DOMAIN tracked
    BY <1>15, <2>1, <2>3, TokenKept DEF EchoMark
  <2> QED
    BY <2>2, <2>3
<1>16. ASSUME NEW m \in marks, IgnoreMark(m) PROVE TokenInv'
  BY <1>16, TokenKept DEF IgnoreMark, loopVars, timeVars, histVars
<1>17. CASE CarrierPlays
  <2>1. audioLeft' \subseteq audioLeft
    BY <1>17 DEF CarrierPlays
  <2> QED
    BY <1>17, <2>1, TokenKept DEF CarrierPlays, loopVars, timeVars, histVars
<1>18. CASE CountElapses
  BY <1>18, TokenKept DEF CountElapses, loopVars, carrier, histVars
<1>19. ASSUME NEW g \in firing, fire(g) PROVE TokenInv'
  <2>1. (count' # 0 \/ due') => (count # 0 \/ due)
    BY <1>19 DEF fire
  <2> QED
    BY <1>19, <2>1, TokenKept DEF fire, loopVars, carrier, histVars
<1>20. CASE UNCHANGED vars
  BY <1>20, TokenKept DEF vars, loopVars, timeVars, carrier, histVars
<1> QED
  BY <1>1, <1>2, <1>3, <1>4, <1>5, <1>6, <1>7, <1>8, <1>9, <1>10, <1>11, <1>12,
     <1>14, <1>15, <1>16, <1>17, <1>18, <1>19, <1>20 DEF Next, SilenceStep

\* The three invariants hold in every behaviour.
LEMMA TokensHonest == Spec => [](SpeechInv /\ SlotInv /\ TokenInv)
<1>1. Init => SpeechInv /\ SlotInv /\ TokenInv
  <2> SUFFICES ASSUME Init PROVE SpeechInv /\ SlotInv /\ TokenInv
    OBVIOUS
  <2>1. Len(events) = 0 /\ Speeches(events, 0) = 0
    <3>1. Len(events) = 0
      BY DEF Init
    <3>2. Places(events, 0) = {}
      BY DEF Places
    <3> QED
      BY <3>1, <3>2, FS_EmptySet DEF Speeches
  <2>2. Bit(talking) = 0 /\ Bit(run = "speech") = 0
    BY DEF Init, Bit
  <2>3. SpeechInv
    BY <2>1, <2>2 DEF Init, SpeechInv
  <2>4. SlotInv /\ TokenInv
    BY DEF Init, SlotInv, TokenInv
  <2> QED
    BY <2>3, <2>4
<1>2. Shape /\ Flags /\ Named /\ SpeechInv /\ SlotInv /\ TokenInv /\ [Next]_vars
      => SpeechInv' /\ SlotInv' /\ TokenInv'
  BY SpeechInvInductive, SlotInvInductive, TokenInvInductive
<1> QED
  BY <1>1, <1>2, TypeCorrect, TypeParts, PTL DEF Spec

(***************************************************************************)
(* A call is never ended for silence while its caller is speaking.  The    *)
(* drain that asks for the mark may have lost any event, but what it has   *)
(* counted never exceeds what the sink has, so its tag matches the sink's  *)
(* count only when it has seen the last start; and a start that comes      *)
(* later makes the mark's generation stale.                                *)
(***************************************************************************)
THEOREM NeverHangsUpOnCaller == Spec => []NeverHangUpOnCaller
<1>1. TokenInv => NeverHangUpOnCaller
  BY DEF TokenInv, NeverHangUpOnCaller
<1> QED
  BY <1>1, TokensHonest, PTL

(***************************************************************************)
(* The count neither runs nor comes due while agent audio is still to be   *)
(* played: a mark whose generation is current had all the audio ahead of   *)
(* it, so its echo, or its bound, says that all of it has played.          *)
(***************************************************************************)
THEOREM CountsAfterPlayout == Spec => []CountFollowsPlayout
<1>1. TokenInv => CountFollowsPlayout
  BY DEF TokenInv, CountFollowsPlayout, Quiet
<1> QED
  BY <1>1, TokensHonest, PTL
============================================================================
