------------------------ MODULE TimerFacilityProofs ------------------------
(***************************************************************************)
(* TLAPS proofs about TimerFacility, for any timer names, any client, any  *)
(* capacity of the completion channel and any eviction bound.              *)
(***************************************************************************)
EXTENDS TimerFacility, SequenceTheorems, TLAPS

\* The first element of a queue, and the rest of it.
LEMMA FirstAndRest ==
    ASSUME NEW S, NEW s \in Seq(S), s # << >>
    PROVE  /\ s[1] \in S
           /\ Head(s) = s[1]
           /\ Tail(s) \in Seq(S)
  BY HeadTailProperties, EmptySeq, ElementOfSeq

\* A queue of one element.
LEMMA OneElement ==
    ASSUME NEW S, NEW e \in S
    PROVE  /\ <<e>> \in Seq(S)
           /\ <<e>> # << >>
           /\ <<e>>[1] = e
  OBVIOUS

(***************************************************************************)
(* Type correctness of the facility's maps and queues and of the client's  *)
(* program counter: a completion is in hand wherever one is used.          *)
(***************************************************************************)
THEOREM TypeCorrect == Spec => []TypeOK
<1>1. Init => TypeOK
  <2>1. SUFFICES ASSUME Init PROVE TypeOK
    OBVIOUS
  <2>2. todo \in Seq(Command)
    <3>1. \A i \in 1..Len(InitiallyArmed) :
             [op |-> "arm", name |-> InitiallyArmed[i]] \in Command
      BY TimerConstants DEF Command
    <3> QED
      BY <2>1, <3>1, TimerConstants DEF Init
  <2> QED
    BY <2>1, <2>2, TimerConstants, EmptySeq DEF Init, TypeOK
<1>2. TypeOK /\ [Next]_vars => TypeOK'
  <2> SUFFICES ASSUME TypeOK, [Next]_vars PROVE TypeOK'
    OBVIOUS
  <2> USE DEF TypeOK
  <2>1. CASE SendCompletion
    <3>1. sending[1] \in Completion
      BY <2>1, FirstAndRest DEF SendCompletion
    <3>2. completions' \in Seq(Completion)
      BY <2>1, <3>1, AppendProperties DEF SendCompletion
    <3> QED
      BY <2>1, <3>2, EmptySeq DEF SendCompletion, clientVars
  <2>2. CASE AbandonCompletion
    BY <2>2, EmptySeq DEF AbandonCompletion, clientVars
  <2>3. CASE RunExit
    BY <2>3 DEF RunExit, clientVars
  <2>4. ASSUME NEW g \in goroutines, Elapse(g) PROVE TypeOK'
    BY <2>4 DEF Elapse, Goroutine, clientVars
  <2>5. ASSUME NEW g \in goroutines, GoroutineExit(g) PROVE TypeOK'
    BY <2>5 DEF GoroutineExit, clientVars
  <2>6. ASSUME NEW g \in goroutines, handleFireTimerIfCurrent(g) PROVE TypeOK'
    <3> DEFINE c == [name |-> g.name, gen |-> g.gen]
               settled == Append(settledTimers, c)
    <3>1. c \in Completion
      BY <2>6 DEF Completion, Goroutine
    <3>2. goroutines' \subseteq Goroutine
      BY <2>6 DEF handleFireTimerIfCurrent
    <3>3. CASE activeTimers[g.name] = g.gen
      <4>1. settled \in Seq(Completion) /\ settled # << >>
        <5>1. settledTimers \in Seq(Completion)
          OBVIOUS
        <5> HIDE DEF c, TypeOK
        <5> QED
          BY <3>1, <5>1, AppendProperties, Zenon
      <4>2. Tail(settled) \in Seq(Completion)
        BY <4>1, FirstAndRest
      <4>3. settledTimers' \in Seq(Completion)
        BY <2>6, <3>3, <4>1, <4>2
           DEF handleFireTimerIfCurrent, evictSettledTimers, Trimmed
      <4>4. sending' \in Seq(Completion) /\ sending' # << >> /\ run' = "sending"
        BY <2>6, <3>1, <3>3, OneElement DEF handleFireTimerIfCurrent
      <4>5. activeTimers' \in [Names -> Nat] /\ cancelFuncs' \in [Names -> Nat]
        <5>1. PICK E : activeTimers' = [n \in Names |->
                 IF [name |-> n, gen |-> activeTimers[n]] \in E
                 THEN 0 ELSE activeTimers[n]]
          BY <2>6, <3>3, Zenon DEF handleFireTimerIfCurrent, evictSettledTimers
        <5>2. cancelFuncs' = [cancelFuncs EXCEPT ![g.name] = 0]
          BY <2>6, <3>3 DEF handleFireTimerIfCurrent
        <5> QED
          BY <5>1, <5>2
      <4> QED
        BY <2>6, <3>2, <4>3, <4>4, <4>5 DEF handleFireTimerIfCurrent, clientVars
    <3>4. CASE activeTimers[g.name] # g.gen
      BY <2>6, <3>2, <3>4 DEF handleFireTimerIfCurrent, clientVars
    <3> QED
      BY <3>3, <3>4
  <2>7. ASSUME NEW h \in Handlers, InputArrives(h) PROVE TypeOK'
    BY <2>7, TimerConstants, EmptySeq DEF InputArrives, Enter, HandlerType, facilityVars
  <2>8. CASE ReceiveCompletion
    <3>1. Head(completions) \in Completion /\ completions' \in Seq(Completion)
      BY <2>8, FirstAndRest DEF ReceiveCompletion
    <3>2. held' \in Seq(Completion) /\ held' # << >>
      BY <2>8, <3>1, OneElement DEF ReceiveCompletion
    <3> QED
      BY <2>8, <3>1, <3>2 DEF ReceiveCompletion
  <2>9. CASE IsCurrent
    BY <2>9, EmptySeq DEF IsCurrent, facilityVars
  <2>10. CASE DispatchTimer
    <3>1. held[1] \in Completion
      BY <2>10, FirstAndRest DEF DispatchTimer
    <3>2. dispatched' \subseteq Nat
      BY <2>10, <3>1 DEF DispatchTimer, Completion
    <3>3. CASE pc' = "select" /\ held' = << >> /\ UNCHANGED <<todo, mode>>
      BY <2>10, <3>2, <3>3, EmptySeq DEF DispatchTimer, facilityVars
    <3>4. ASSUME NEW h \in Handlers, Enter(h) PROVE TypeOK'
      BY <2>10, <3>2, <3>4, TimerConstants, EmptySeq
         DEF DispatchTimer, Enter, HandlerType, facilityVars
    <3> QED
      BY <2>10, <3>3, <3>4 DEF DispatchTimer
  <2>11. CASE Arm
    <3>1. todo[1] \in Command /\ todo' \in Seq(Command)
      BY <2>11, FirstAndRest DEF Arm
    <3>2. todo[1].name \in Names
      BY <3>1 DEF Command
    <3>3. goroutines' \subseteq Goroutine
      BY <2>11, <3>2 DEF Arm, handleArm, Goroutine
    <3> QED
      BY <2>11, <3>1, <3>2, <3>3 DEF Arm, handleArm
  <2>12. CASE Cancel
    <3>1. todo[1] \in Command /\ todo' \in Seq(Command)
      BY <2>12, FirstAndRest DEF Cancel
    <3>2. todo[1].name \in Names
      BY <3>1 DEF Command
    <3> QED
      BY <2>12, <3>1, <3>2 DEF Cancel, handleCancel
  <2>13. CASE HandlerReturns
    BY <2>13 DEF HandlerReturns, facilityVars
  <2>14. CASE CommandAbandoned
    <3>1. todo' \in Seq(Command)
      BY <2>14, FirstAndRest DEF CommandAbandoned
    <3> QED
      BY <2>14, <3>1, EmptySeq DEF CommandAbandoned, facilityVars
  <2>15. CASE ClientStops
    BY <2>15 DEF ClientStops, facilityVars
  <2>16. CASE CancelContext
    BY <2>16 DEF CancelContext, facilityVars, clientVars
  <2>17. CASE UNCHANGED vars
    BY <2>17 DEF vars, facilityVars, clientVars
  <2> QED
    BY <2>1, <2>2, <2>3, <2>4, <2>5, <2>6, <2>7, <2>8, <2>9, <2>10, <2>11, <2>12,
       <2>13, <2>14, <2>15, <2>16, <2>17
       DEF Next, RunStep, GoroutineStep, ClientStep
<1> QED
  BY <1>1, <1>2, PTL DEF Spec

----------------------------------------------------------------------------
(* No stale dispatch. *)

\* Generation 0 stands for a missing map entry, so no completion carries it.
GenerationsNonzero ==
    /\ \A g \in goroutines : g.gen # 0
    /\ \A i \in 1..Len(sending) : sending[i].gen # 0
    /\ \A i \in 1..Len(completions) : completions[i].gen # 0
    /\ \A i \in 1..Len(held) : held[i].gen # 0

\* The facility never holds a generation the sequencer has given up.
ActiveIsWanted == \A n \in Names : activeTimers[n] \in {0, wanted[n]}

StaleInv == GenerationsNonzero /\ ActiveIsWanted /\ NoStaleDispatch

\* Taking the first element of a queue keeps the generations in it nonzero, ...
LEMMA TailNonzero ==
    ASSUME NEW q \in Seq(Completion), q # << >>,
           \A i \in 1..Len(q) : q[i].gen # 0
    PROVE  /\ q[1].gen # 0
           /\ \A i \in 1..Len(Tail(q)) : Tail(q)[i].gen # 0
<1>1. Len(q) \in Nat \ {0}
  BY EmptySeq
<1>2. /\ Len(Tail(q)) = Len(q) - 1
      /\ \A i \in 1..Len(Tail(q)) : Tail(q)[i] = q[i + 1]
  BY HeadTailProperties
<1> QED
  BY <1>1, <1>2

\* ... and so does adding a nonzero one at its end.
LEMMA AppendNonzero ==
    ASSUME NEW q \in Seq(Completion), NEW c \in Completion, c.gen # 0,
           \A i \in 1..Len(q) : q[i].gen # 0
    PROVE  \A i \in 1..Len(Append(q, c)) : Append(q, c)[i].gen # 0
<1>1. /\ Len(Append(q, c)) = Len(q) + 1
      /\ \A i \in 1..Len(q) : Append(q, c)[i] = q[i]
      /\ Append(q, c)[Len(q) + 1] = c
  BY AppendProperties
<1>2. Len(q) \in Nat
  BY LenProperties
<1> QED
  BY <1>1, <1>2

(***************************************************************************)
(* Whatever order a timer's fire, its cancellation and its re-arming fall  *)
(* in, a completion that the sequencer dispatches is the one it last armed *)
(* under that name and has not cancelled (dispatchTimerCompletion asks     *)
(* IsCurrent at the point of use).                                         *)
(***************************************************************************)
THEOREM DispatchIsCurrent == Spec => []NoStaleDispatch
<1>1. Init => StaleInv
  BY EmptySeq DEF Init, StaleInv, GenerationsNonzero, ActiveIsWanted, NoStaleDispatch
<1>2. TypeOK /\ StaleInv /\ [Next]_vars => StaleInv'
  <2> SUFFICES ASSUME TypeOK, StaleInv, [Next]_vars PROVE StaleInv'
    OBVIOUS
  <2> USE DEF StaleInv, GenerationsNonzero, ActiveIsWanted, NoStaleDispatch
  <2>1. CASE SendCompletion
    <3>1. sending[1] \in Completion /\ sending[1].gen # 0
      BY <2>1, FirstAndRest, TailNonzero DEF SendCompletion, TypeOK
    <3>2. \A i \in 1..Len(completions') : completions'[i].gen # 0
      BY <2>1, <3>1, AppendNonzero DEF SendCompletion, TypeOK
    <3> QED
      BY <2>1, <3>2, EmptySeq DEF SendCompletion, clientVars
  <2>2. CASE AbandonCompletion
    BY <2>2, EmptySeq DEF AbandonCompletion, clientVars
  <2>3. CASE RunExit
    BY <2>3 DEF RunExit, clientVars
  <2>4. ASSUME NEW g \in goroutines, Elapse(g) PROVE StaleInv'
    BY <2>4 DEF Elapse, clientVars, TypeOK, Goroutine
  <2>5. ASSUME NEW g \in goroutines, GoroutineExit(g) PROVE StaleInv'
    BY <2>5 DEF GoroutineExit, clientVars
  <2>6. ASSUME NEW g \in goroutines, handleFireTimerIfCurrent(g) PROVE StaleInv'
    <3>1. GenerationsNonzero'
      BY <2>6, OneElement DEF handleFireTimerIfCurrent, clientVars
    <3>2. ActiveIsWanted'
      BY <2>6 DEF handleFireTimerIfCurrent, evictSettledTimers, clientVars, TypeOK
    <3> QED
      BY <2>6, <3>1, <3>2 DEF handleFireTimerIfCurrent, clientVars
  <2>7. ASSUME NEW h \in Handlers, InputArrives(h) PROVE StaleInv'
    BY <2>7, EmptySeq DEF InputArrives, Enter, facilityVars
  <2>8. CASE ReceiveCompletion
    <3>1. Head(completions) = completions[1]
      BY <2>8, FirstAndRest DEF ReceiveCompletion, TypeOK
    <3>2. /\ completions[1].gen # 0
          /\ \A i \in 1..Len(completions') : completions'[i].gen # 0
      BY <2>8, TailNonzero DEF ReceiveCompletion, TypeOK
    <3> QED
      BY <2>8, <3>1, <3>2 DEF ReceiveCompletion
  <2>9. CASE IsCurrent
    <3>1. CASE activeTimers[held[1].name] = held[1].gen
      <4>1. held[1] \in Completion /\ held[1].gen # 0
        BY <2>9, FirstAndRest, TailNonzero DEF IsCurrent, TypeOK
      <4>2. held[1].name \in Names
        BY <4>1 DEF Completion
      <4> QED
        BY <2>9, <3>1, <4>1, <4>2 DEF IsCurrent, facilityVars
    <3>2. CASE activeTimers[held[1].name] # held[1].gen
      BY <2>9, <3>2, EmptySeq DEF IsCurrent, facilityVars
    <3> QED
      BY <3>1, <3>2
  <2>10. CASE DispatchTimer
    BY <2>10, EmptySeq DEF DispatchTimer, Enter, facilityVars
  <2>11. CASE Arm
    <3>1. todo[1].name \in Names
      <4>1. todo[1] \in Command
        BY <2>11, FirstAndRest DEF Arm, TypeOK
      <4> QED
        BY <4>1 DEF Command
    <3>2. GenerationsNonzero'
      BY <2>11 DEF Arm, handleArm, TypeOK
    <3>3. ActiveIsWanted'
      BY <2>11, <3>1 DEF Arm, handleArm, TypeOK
    <3> QED
      BY <2>11, <3>2, <3>3 DEF Arm
  <2>12. CASE Cancel
    BY <2>12 DEF Cancel, handleCancel, TypeOK
  <2>13. CASE HandlerReturns
    BY <2>13 DEF HandlerReturns, facilityVars
  <2>14. CASE CommandAbandoned
    BY <2>14, EmptySeq DEF CommandAbandoned, facilityVars
  <2>15. CASE ClientStops
    BY <2>15 DEF ClientStops, facilityVars
  <2>16. CASE CancelContext
    BY <2>16 DEF CancelContext, facilityVars, clientVars
  <2>17. CASE UNCHANGED vars
    BY <2>17 DEF vars, facilityVars, clientVars
  <2> QED
    BY <2>1, <2>2, <2>3, <2>4, <2>5, <2>6, <2>7, <2>8, <2>9, <2>10, <2>11, <2>12,
       <2>13, <2>14, <2>15, <2>16, <2>17
       DEF Next, RunStep, GoroutineStep, ClientStep
<1>3. StaleInv => NoStaleDispatch
  BY DEF StaleInv
<1> QED
  BY <1>1, <1>2, <1>3, TypeCorrect, PTL DEF Spec

----------------------------------------------------------------------------
(* Each generation is in one place. *)

\* The generations in a queue, and no generation twice in it.
Gens(q) == {q[i].gen : i \in 1..Len(q)}
Distinct(q) == \A i, j \in 1..Len(q) : i # j => q[i].gen # q[j].gen

\* The generations of the goroutines.
Live == {g.gen : g \in goroutines}

\* An empty queue, ...
LEMMA EmptyQueue == Len(<< >>) = 0 /\ Gens(<< >>) = {} /\ Distinct(<< >>)
<1>1. Len(<< >>) = 0
  OBVIOUS
<1>2. 1..Len(<< >>) = {}
  BY <1>1
<1> QED
  BY <1>1, <1>2 DEF Gens, Distinct

\* ... and a queue of one.
LEMMA SingleQueue ==
    ASSUME NEW c
    PROVE  Len(<<c>>) = 1 /\ Gens(<<c>>) = {c.gen} /\ Distinct(<<c>>)
<1>1. Len(<<c>>) = 1 /\ <<c>>[1] = c
  OBVIOUS
<1>2. Gens(<<c>>) = {c.gen}
  BY <1>1 DEF Gens
<1> QED
  BY <1>1, <1>2 DEF Distinct

\* Taking the first element of a queue.
LEMMA GensTail ==
    ASSUME NEW q \in Seq(Completion), q # << >>
    PROVE  /\ Gens(q) = {q[1].gen} \cup Gens(Tail(q))
           /\ Distinct(q) => Distinct(Tail(q)) /\ q[1].gen \notin Gens(Tail(q))
<1> DEFINE t == Tail(q)
<1>1. Len(q) \in Nat \ {0} /\ 1 \in 1..Len(q)
  BY EmptySeq
<1>2. /\ Len(t) = Len(q) - 1
      /\ \A i \in 1..Len(t) : t[i] = q[i + 1]
  BY HeadTailProperties
<1>3. \A i \in 1..Len(t) : i + 1 \in 1..Len(q) /\ i + 1 # 1 /\ t[i] = q[i + 1]
  BY <1>1, <1>2
<1>4. ASSUME NEW i \in 1..Len(q), i # 1 PROVE i - 1 \in 1..Len(t) /\ t[i - 1] = q[i]
  <2>1. i - 1 \in 1..Len(t) /\ (i - 1) + 1 = i
    BY <1>1, <1>2, <1>4
  <2> QED
    BY <1>2, <2>1
<1>5. \A i, j \in 1..Len(t) : i # j => i + 1 # j + 1
  BY <1>1, <1>2
<1> HIDE DEF t
<1>6. Gens(q) = {q[1].gen} \cup Gens(t)
  <2>1. ASSUME NEW i \in 1..Len(q) PROVE q[i].gen \in {q[1].gen} \cup Gens(t)
    BY <1>4 DEF Gens
  <2>2. ASSUME NEW i \in 1..Len(t) PROVE t[i].gen \in Gens(q)
    BY <1>3 DEF Gens
  <2> QED
    BY <1>1, <2>1, <2>2 DEF Gens
<1>7. ASSUME Distinct(q) PROVE Distinct(t) /\ q[1].gen \notin Gens(t)
  <2>1. ASSUME NEW i \in 1..Len(t), NEW j \in 1..Len(t), i # j PROVE t[i].gen # t[j].gen
    <3>1. q[i+1].gen # q[j+1].gen
      BY <1>3, <1>5, <1>7, <2>1 DEF Distinct
    <3> QED
      BY <1>3, <3>1
  <2>2. ASSUME NEW i \in 1..Len(t) PROVE q[1].gen # t[i].gen
    <3>1. q[1].gen # q[i+1].gen
      BY <1>1, <1>3, <1>7 DEF Distinct
    <3> QED
      BY <1>3, <3>1
  <2> QED
    BY <2>1, <2>2 DEF Distinct, Gens
<1> QED
  BY <1>6, <1>7 DEF t

\* Adding an element at the end of a queue.
LEMMA GensAppend ==
    ASSUME NEW q \in Seq(Completion), NEW c \in Completion
    PROVE  /\ Gens(Append(q, c)) = Gens(q) \cup {c.gen}
           /\ Distinct(q) /\ c.gen \notin Gens(q) => Distinct(Append(q, c))
<1> DEFINE t == Append(q, c)
<1>1. /\ Len(t) = Len(q) + 1 /\ Len(q) \in Nat /\ t[Len(q) + 1] = c
      /\ \A i \in 1..Len(q) : t[i] = q[i]
  BY AppendProperties, LenProperties
<1>2. \A i \in 1..Len(t) : (i \in 1..Len(q) /\ t[i] = q[i]) \/ (i = Len(q) + 1 /\ t[i] = c)
  BY <1>1
<1>3. \A i \in 1..Len(q) : i \in 1..Len(t) /\ Len(q) + 1 \in 1..Len(t)
  BY <1>1
<1>4. Len(q) + 1 \in 1..Len(t)
  BY <1>1
<1> HIDE DEF t
<1>5. Gens(t) = Gens(q) \cup {c.gen}
  <2>1. ASSUME NEW i \in 1..Len(t) PROVE t[i].gen \in Gens(q) \cup {c.gen}
    BY <1>2 DEF Gens
  <2>2. ASSUME NEW i \in 1..Len(q) PROVE q[i].gen \in Gens(t)
    BY <1>1, <1>3 DEF Gens
  <2>3. c.gen \in Gens(t)
    BY <1>1, <1>4 DEF Gens
  <2> QED
    BY <2>1, <2>2, <2>3 DEF Gens
<1>6. ASSUME Distinct(q), c.gen \notin Gens(q) PROVE Distinct(t)
  <2>1. \A i \in 1..Len(q) : q[i].gen # c.gen
    BY <1>6 DEF Gens
  <2> QED
    BY <1>2, <1>6, <2>1 DEF Distinct
<1> QED
  BY <1>5, <1>6 DEF t

\* A generation belongs to one goroutine, or is in one place on its way to the
\* client, or has been dispatched; none is newer than the counter.
OneGoroutine == \A g, h \in goroutines : g.gen = h.gen => g = h

PlaceInv ==
    /\ OneGoroutine
    /\ Distinct(completions) /\ Len(sending) <= 1 /\ Len(held) <= 1
    /\ Gens(held) \cap Gens(completions) = {}
    /\ Gens(held) \cap Gens(sending) = {}
    /\ Gens(completions) \cap Gens(sending) = {}
    /\ Live \cap (Gens(held) \cup Gens(completions) \cup Gens(sending) \cup dispatched) = {}
    /\ dispatched \cap (Gens(held) \cup Gens(completions) \cup Gens(sending)) = {}
    /\ \A x \in Live \cup Gens(held) \cup Gens(completions) \cup Gens(sending)
                 \cup dispatched : x <= nextTimerID

\* A queue with something in it and at most one element is that element.
LEMMA OneInQueue ==
    ASSUME NEW q \in Seq(Completion), q # << >>, Len(q) <= 1
    PROVE  q = <<q[1]>> /\ Gens(q) = {q[1].gen} /\ q[1] \in Completion
<1>1. Len(q) = 1 /\ q[1] \in Completion
  <2>1. Len(q) \in Nat /\ Len(q) # 0
    BY LenProperties, EmptySeq
  <2> QED
    BY <2>1, FirstAndRest
<1>2. q = <<q[1]>>
  <2>1. /\ <<q[1]>> \in Seq(Completion) /\ Len(<<q[1]>>) = Len(q)
        /\ \A i \in 1..Len(q) : q[i] = <<q[1]>>[i]
    BY <1>1
  <2> QED
    BY <2>1, SeqEqual, Zenon
<1>3. Gens(q) = {q[1].gen}
  BY <1>1 DEF Gens
<1> QED
  BY <1>1, <1>2, <1>3

\* The generations of a queue of completions are naturals.
LEMMA GensAreNat ==
    ASSUME NEW q \in Seq(Completion)
    PROVE  Gens(q) \subseteq Nat
<1>1. \A i \in 1..Len(q) : q[i] \in Completion
  BY ElementOfSeq
<1> QED
  BY <1>1 DEF Gens, Completion

\* PlaceInv is inductive.
LEMMA PlaceInvInductive == Spec => []PlaceInv
<1>1. Init => PlaceInv
  <2> SUFFICES ASSUME Init PROVE PlaceInv
    OBVIOUS
  <2>1. Live = {} /\ OneGoroutine /\ dispatched = {}
    BY DEF Init, Live, OneGoroutine
  <2>2. /\ Gens(held) = {} /\ Gens(completions) = {} /\ Gens(sending) = {}
        /\ Distinct(completions) /\ Len(sending) = 0 /\ Len(held) = 0
    BY EmptyQueue DEF Init
  <2> QED
    BY <2>1, <2>2 DEF PlaceInv
<1>2. TypeOK /\ TypeOK' /\ PlaceInv /\ [Next]_vars => PlaceInv'
  <2> SUFFICES ASSUME TypeOK, TypeOK', PlaceInv, [Next]_vars PROVE PlaceInv'
    OBVIOUS
  <2>a. ASSUME UNCHANGED <<sending, completions, held, dispatched>>,
               nextTimerID' = nextTimerID, Live' \subseteq Live, OneGoroutine'
        PROVE  PlaceInv'
    BY <2>a DEF PlaceInv
  <2>0. ASSUME UNCHANGED <<goroutines, sending, completions, dispatched, nextTimerID>>,
               UNCHANGED held \/ held' = << >>
        PROVE  PlaceInv'
    <3>1. UNCHANGED <<Live, OneGoroutine>>
      BY <2>0 DEF Live, OneGoroutine
    <3>2. CASE UNCHANGED held
      BY <2>0, <3>1, <3>2 DEF PlaceInv
    <3>3. CASE held' = << >>
      <4>1. Gens(held') = {} /\ Len(held') = 0
        BY <3>3, EmptyQueue
      <4> QED
        BY <2>0, <3>1, <4>1 DEF PlaceInv
    <3> QED
      BY <2>0, <3>2, <3>3
  <2>1. CASE SendCompletion
    <3> DEFINE c == sending[1]
    <3>1. /\ c \in Completion /\ Gens(sending) = {c.gen} /\ sending' = << >>
          /\ completions' = Append(completions, c)
          /\ UNCHANGED <<goroutines, held, dispatched, nextTimerID>>
      BY <2>1, OneInQueue DEF SendCompletion, TypeOK, PlaceInv, clientVars
    <3>2. UNCHANGED <<Live, OneGoroutine>>
      BY <3>1 DEF Live, OneGoroutine
    <3>3. completions \in Seq(Completion)
      BY DEF TypeOK
    <3> HIDE DEF c
    <3>4. Gens(completions') = Gens(completions) \cup {c.gen} /\ Distinct(completions')
      BY <3>1, <3>3, GensAppend DEF PlaceInv
    <3>5. Gens(sending') = {} /\ Len(sending') = 0
      BY <3>1, EmptyQueue
    <3> QED
      BY <3>1, <3>2, <3>4, <3>5 DEF PlaceInv
  <2>2. CASE AbandonCompletion
    <3>1. sending' = << >> /\ UNCHANGED <<goroutines, completions, held, dispatched, nextTimerID>>
      BY <2>2 DEF AbandonCompletion, clientVars
    <3>2. UNCHANGED <<Live, OneGoroutine>>
      BY <3>1 DEF Live, OneGoroutine
    <3>3. Gens(sending') = {} /\ Len(sending') = 0
      BY <3>1, EmptyQueue
    <3> QED
      BY <3>1, <3>2, <3>3 DEF PlaceInv
  <2>3. CASE RunExit
    BY <2>0, <2>3 DEF RunExit, clientVars
  <2>4. ASSUME NEW g \in goroutines, Elapse(g) PROVE PlaceInv'
    <3> DEFINE f == [g EXCEPT !.pc = "firing"]
    <3>1. goroutines' = (goroutines \ {g}) \cup {f} /\ f.gen = g.gen
      BY <2>4 DEF Elapse, TypeOK, Goroutine
    <3> HIDE DEF f
    <3>2. Live' \subseteq Live
      BY <3>1 DEF Live
    <3>3. OneGoroutine'
      BY <3>1 DEF PlaceInv, OneGoroutine
    <3> QED
      BY <2>4, <2>a, <3>2, <3>3 DEF Elapse, clientVars
  <2>5. ASSUME NEW g \in goroutines, GoroutineExit(g) PROVE PlaceInv'
    <3>1. goroutines' = goroutines \ {g}
      BY <2>5 DEF GoroutineExit
    <3>2. Live' \subseteq Live /\ OneGoroutine'
      BY <3>1 DEF PlaceInv, OneGoroutine, Live
    <3> QED
      BY <2>5, <2>a, <3>2 DEF GoroutineExit, clientVars
  <2>6. ASSUME NEW g \in goroutines, handleFireTimerIfCurrent(g) PROVE PlaceInv'
    <3>1. /\ goroutines' = goroutines \ {g}
          /\ UNCHANGED <<completions, held, dispatched, nextTimerID>>
      BY <2>6 DEF handleFireTimerIfCurrent, clientVars
    <3>2. Live' \subseteq Live \ {g.gen} /\ OneGoroutine' /\ g.gen \in Live
      BY <3>1 DEF PlaceInv, OneGoroutine, Live
    <3>3. CASE activeTimers[g.name] = g.gen
      <4>1. sending' = <<[name |-> g.name, gen |-> g.gen]>>
        BY <2>6, <3>3 DEF handleFireTimerIfCurrent
      <4>2. Gens(sending') = {g.gen} /\ Len(sending') = 1
        BY <4>1, SingleQueue
      <4> QED
        BY <3>1, <3>2, <4>2 DEF PlaceInv
    <3>4. CASE activeTimers[g.name] # g.gen
      <4>1. UNCHANGED sending
        BY <2>6, <3>4 DEF handleFireTimerIfCurrent
      <4> QED
        BY <2>a, <3>1, <3>2, <4>1
    <3> QED
      BY <3>3, <3>4
  <2>7. ASSUME NEW h \in Handlers, InputArrives(h) PROVE PlaceInv'
    BY <2>0, <2>7 DEF InputArrives, Enter, facilityVars
  <2>8. CASE ReceiveCompletion
    <3> DEFINE c == completions[1]
    <3>1. /\ completions \in Seq(Completion) /\ completions # << >>
          /\ held' = <<c>> /\ completions' = Tail(completions)
          /\ UNCHANGED <<goroutines, sending, dispatched, nextTimerID>>
      BY <2>8, FirstAndRest DEF ReceiveCompletion, TypeOK
    <3>2. UNCHANGED <<Live, OneGoroutine>>
      BY <3>1 DEF Live, OneGoroutine
    <3>3. /\ Gens(completions) = {c.gen} \cup Gens(completions')
          /\ Distinct(completions') /\ c.gen \notin Gens(completions')
      BY <3>1, GensTail DEF PlaceInv
    <3> HIDE DEF c
    <3>4. Gens(held') = {c.gen} /\ Len(held') = 1
      BY <3>1, SingleQueue
    <3> QED
      BY <3>1, <3>2, <3>3, <3>4 DEF PlaceInv
  <2>9. CASE IsCurrent
    BY <2>0, <2>9 DEF IsCurrent, facilityVars
  <2>10. CASE DispatchTimer
    <3>1. /\ held' = << >> /\ dispatched' = dispatched \cup {held[1].gen}
          /\ UNCHANGED <<goroutines, sending, completions, nextTimerID>>
      BY <2>10 DEF DispatchTimer, Enter, facilityVars
    <3>2. UNCHANGED <<Live, OneGoroutine>>
      BY <3>1 DEF Live, OneGoroutine
    <3>3. Gens(held) = {held[1].gen}
      BY <2>10, OneInQueue DEF DispatchTimer, TypeOK, PlaceInv
    <3>4. Gens(held') = {} /\ Len(held') = 0
      BY <3>1, EmptyQueue
    <3> QED
      BY <3>1, <3>2, <3>3, <3>4 DEF PlaceInv
  <2>11. CASE Arm
    <3> DEFINE id == nextTimerID + 1
               f == [name |-> todo[1].name, gen |-> id, pc |-> "waiting"]
    <3>1. /\ goroutines' = goroutines \cup {f} /\ nextTimerID' = id
          /\ UNCHANGED <<sending, completions, held, dispatched>>
      BY <2>11 DEF Arm, handleArm
    <3>2. f.gen = id /\ nextTimerID \in Nat
      BY DEF TypeOK
    <3>3. \A x \in Live \cup Gens(held) \cup Gens(completions) \cup Gens(sending)
                   \cup dispatched : x <= nextTimerID
      BY DEF PlaceInv
    <3>4. /\ Live \subseteq Nat /\ Gens(held) \subseteq Nat /\ Gens(completions) \subseteq Nat
          /\ Gens(sending) \subseteq Nat /\ dispatched \subseteq Nat
      <4>1. Live \subseteq Nat
        BY DEF Live, TypeOK, Goroutine
      <4> QED
        BY <4>1, GensAreNat DEF TypeOK
    <3>5. \A x \in Live \cup Gens(held) \cup Gens(completions) \cup Gens(sending)
                   \cup dispatched : x <= id /\ x # id
      BY <3>2, <3>3, <3>4
    <3> HIDE DEF f, id
    <3>6. Live' = Live \cup {id}
      BY <3>1, <3>2 DEF Live
    <3>7. \A g \in goroutines : g.gen # id
      BY <3>5 DEF Live
    <3>8. OneGoroutine'
      BY <3>1, <3>2, <3>7 DEF PlaceInv, OneGoroutine
    <3>9. id <= id
      BY <3>2 DEF id
    <3> QED
      BY <3>1, <3>5, <3>6, <3>8, <3>9 DEF PlaceInv
  <2>12. CASE Cancel
    BY <2>0, <2>12 DEF Cancel, handleCancel
  <2>13. CASE HandlerReturns
    BY <2>0, <2>13 DEF HandlerReturns, facilityVars
  <2>14. CASE CommandAbandoned
    BY <2>0, <2>14 DEF CommandAbandoned, facilityVars
  <2>15. CASE ClientStops
    BY <2>0, <2>15 DEF ClientStops, facilityVars
  <2>16. CASE CancelContext
    BY <2>0, <2>16 DEF CancelContext, facilityVars, clientVars
  <2>17. CASE UNCHANGED vars
    BY <2>0, <2>17 DEF vars, facilityVars, clientVars
  <2> QED
    BY <2>1, <2>2, <2>3, <2>4, <2>5, <2>6, <2>7, <2>8, <2>9, <2>10, <2>11, <2>12,
       <2>13, <2>14, <2>15, <2>16, <2>17
       DEF Next, RunStep, GoroutineStep, ClientStep
<1> QED
  BY <1>1, <1>2, TypeCorrect, PTL DEF Spec

----------------------------------------------------------------------------
(* No armed timer is lost. *)

(***************************************************************************)
(* The completions on their way are the last entries of the settled queue, *)
(* in the order they were fired: an entry is evicted only once its         *)
(* completion has reached the client.                                      *)
(***************************************************************************)
SettledTail ==
    LET L == Len(settledTimers) - Len(sending) - Len(completions)
    IN  /\ L >= Len(held)
        /\ \A i \in 1..Len(held) : held[i] = settledTimers[L]
        /\ \A i \in 1..Len(completions) : completions[i] = settledTimers[L + i]
        /\ \A i \in 1..Len(sending) : sending[i] = settledTimers[Len(settledTimers)]

SettledInv ==
    /\ Len(completions) <= CompletionDepth
    /\ held # << >> => pc \in {"check", "dispatch"}
    /\ Len(settledTimers) <= MaxSettled
    /\ Distinct(settledTimers)
    /\ Gens(settledTimers) \cap Live = {}
    /\ \A x \in Gens(settledTimers) : x <= nextTimerID
    /\ SettledTail

LostInv == ~ctxDone => SettledInv /\ ArmedTimerNotLost

\* The first entry of a full settled queue is of a timer that is not on its way.
LEMMA EvictionIsSafe ==
    ASSUME CompletionDepth + 2 <= MaxSettled,
           TypeOK, PlaceInv, LostInv, ~ctxDone, run = "select",
           Len(settledTimers) = MaxSettled,
           NEW n \in Names, wanted[n] # 0, wanted[n] \notin dispatched
    PROVE  settledTimers[1].gen # activeTimers[n]
<1> DEFINE w == wanted[n]
           st == settledTimers
<1>1. /\ SettledInv /\ Pending(n, w) /\ activeTimers[n] = w
  BY DEF LostInv, ArmedTimerNotLost
<1>2. sending = << >> /\ Len(sending) = 0
  BY EmptyQueue DEF TypeOK
<1>3. /\ Len(st) \in Nat /\ Len(completions) \in Nat /\ Len(held) \in Nat
      /\ CompletionDepth \in Nat /\ MaxSettled \in Nat
      /\ Len(completions) <= CompletionDepth
  BY <1>1, LenProperties, TimerConstants DEF TypeOK, SettledInv
<1>4. 1 \in 1..Len(st) /\ st[1].gen \in Gens(st)
  BY <1>3 DEF Gens
<1>5. CASE \E r \in goroutines : r.name = n /\ r.gen = w /\ ~Cancelled(r)
  <2>1. w \in Live
    BY <1>5 DEF Live
  <2> QED
    BY <1>1, <1>4, <2>1 DEF SettledInv
<1>6. CASE \E i \in 1..Len(completions) : completions[i] = [name |-> n, gen |-> w]
  <2>1. PICK i \in 1..Len(completions) : completions[i] = [name |-> n, gen |-> w]
    BY <1>6
  <2>2. /\ Len(st) - 0 - Len(completions) + i \in 1..Len(st)
        /\ Len(st) - 0 - Len(completions) + i # 1
    BY <1>3
  <2>3. completions[i] = st[Len(st) - 0 - Len(completions) + i]
    BY <1>1, <1>2 DEF SettledInv, SettledTail
  <2>4. st[Len(st) - 0 - Len(completions) + i].gen # st[1].gen
    BY <1>1, <1>4, <2>2 DEF SettledInv, Distinct
  <2> QED
    BY <1>1, <2>1, <2>3, <2>4
<1>7. CASE \E i \in 1..Len(held) : held[i] = [name |-> n, gen |-> w]
  <2>1. PICK i \in 1..Len(held) : held[i] = [name |-> n, gen |-> w]
    BY <1>7
  <2>2. /\ Len(st) - 0 - Len(completions) \in 1..Len(st)
        /\ Len(st) - 0 - Len(completions) # 1
    BY <1>3
  <2>3. held[i] = st[Len(st) - 0 - Len(completions)]
    BY <1>1, <1>2 DEF SettledInv, SettledTail
  <2>4. st[Len(st) - 0 - Len(completions)].gen # st[1].gen
    BY <1>1, <1>4, <2>2 DEF SettledInv, Distinct
  <2> QED
    BY <1>1, <2>1, <2>3, <2>4
<1> QED
  BY <1>1, <1>2, <1>5, <1>6, <1>7 DEF Pending

\* A fire, as far as the settled queue goes.
LEMMA FireSettles ==
    ASSUME CompletionDepth + 2 <= MaxSettled,
           TypeOK, PlaceInv, LostInv, ~ctxDone,
           NEW g \in goroutines, handleFireTimerIfCurrent(g)
    PROVE  SettledInv'
<1> DEFINE c == [name |-> g.name, gen |-> g.gen]
           st == settledTimers
           ap == Append(st, c)
<1>0. /\ SettledInv /\ sending = << >> /\ Len(sending) = 0
      /\ goroutines' = goroutines \ {g}
      /\ UNCHANGED <<completions, held, pc, nextTimerID>>
  BY EmptyQueue DEF LostInv, handleFireTimerIfCurrent, TypeOK, clientVars
<1>1. Live' \subseteq Live \ {g.gen} /\ g.gen \in Live
  BY <1>0 DEF PlaceInv, OneGoroutine, Live
<1>2. CASE activeTimers[g.name] # g.gen
  <2>1. UNCHANGED <<settledTimers, sending>>
    BY <1>2 DEF handleFireTimerIfCurrent
  <2>2. SettledTail'
    BY <1>0, <2>1 DEF SettledInv, SettledTail
  <2> QED
    BY <1>0, <1>1, <2>1, <2>2 DEF SettledInv
<1>3. CASE activeTimers[g.name] = g.gen
  <2>1. settledTimers' = Trimmed(ap) /\ sending' = <<c>>
    BY <1>3 DEF handleFireTimerIfCurrent, evictSettledTimers
  <2>2. c \in Completion /\ c.gen = g.gen /\ st \in Seq(Completion) /\ g.gen \in Nat
    BY DEF TypeOK, Goroutine, Completion
  <2>3. /\ Len(st) \in Nat /\ Len(completions) \in Nat /\ Len(held) \in Nat
        /\ CompletionDepth \in Nat /\ MaxSettled \in Nat
        /\ Len(completions) <= CompletionDepth /\ Len(held) <= 1
        /\ Len(st) <= MaxSettled
    BY <1>0, LenProperties, TimerConstants DEF TypeOK, SettledInv, PlaceInv
  <2>4. /\ g.gen \notin Gens(st) /\ g.gen <= nextTimerID
    BY <1>0, <1>1 DEF SettledInv, PlaceInv
  <2> HIDE DEF c
  <2>5. /\ ap \in Seq(Completion) /\ Len(ap) = Len(st) + 1 /\ ap[Len(st) + 1] = c
        /\ \A i \in 1..Len(st) : ap[i] = st[i]
    BY <2>2, AppendProperties
  <2>6. Gens(ap) = Gens(st) \cup {g.gen} /\ Distinct(ap)
    BY <1>0, <2>2, <2>4, GensAppend DEF SettledInv
  <2> HIDE DEF ap
  <2>7. Len(sending') = 1 /\ sending'[1] = c /\ \A i \in 1..Len(sending') : i = 1
    BY <2>1, SingleQueue
  <2>8. SettledTail' /\ Gens(settledTimers') \subseteq Gens(ap) /\ Distinct(settledTimers')
        /\ Len(settledTimers') <= MaxSettled
    <3> DEFINE L == Len(st) - 0 - Len(completions)
    <3>1. /\ L >= Len(held)
          /\ \A i \in 1..Len(held) : held[i] = st[L]
          /\ \A i \in 1..Len(completions) : completions[i] = st[L + i]
      BY <1>0 DEF SettledInv, SettledTail
    <3>2. CASE Len(ap) <= MaxSettled
      <4>1. settledTimers' = ap
        BY <2>1, <2>3, <2>5, <3>2 DEF Trimmed
      <4>2. L = Len(ap) - 1 - Len(completions)
        BY <2>3, <2>5
      <4>3. \A i \in 1..Len(held) : L \in 1..Len(st)
        BY <2>3, <3>1
      <4>4. \A i \in 1..Len(completions) : L + i \in 1..Len(st)
        BY <2>3, <3>1
      <4>5. SettledTail'
        <5> DEFINE M == Len(settledTimers') - Len(sending') - Len(completions')
        <5>1. M = L
          BY <1>0, <2>7, <4>1, <4>2
        <5>2. /\ L >= Len(held')
              /\ \A i \in 1..Len(held') : held'[i] = settledTimers'[L]
              /\ \A i \in 1..Len(completions') : completions'[i] = settledTimers'[L + i]
              /\ \A i \in 1..Len(sending') : sending'[i] = settledTimers'[Len(settledTimers')]
          BY <1>0, <2>5, <2>7, <3>1, <4>1, <4>3, <4>4
        <5> HIDE DEF L
        <5> QED
          BY <5>1, <5>2 DEF SettledTail
      <4> QED
        BY <2>6, <3>2, <4>1, <4>5
    <3>3. CASE ~(Len(ap) <= MaxSettled)
      <4>1. settledTimers' = Tail(ap) /\ ap # << >>
        BY <2>1, <2>3, <2>5, <3>3, EmptySeq DEF Trimmed
      <4>2. /\ Len(settledTimers') = Len(st)
            /\ \A i \in 1..Len(st) : settledTimers'[i] = ap[i + 1]
        BY <2>3, <2>5, <4>1, HeadTailProperties
      <4>3. Len(st) = MaxSettled /\ L > 1
        BY <2>3, <2>5, <3>3
      <4>4. L - 1 = Len(settledTimers') - 1 - Len(completions)
        BY <2>3, <4>2
      <4>5. L - 1 >= Len(held) /\ settledTimers'[L - 1] = st[L]
        <5>1. L - 1 \in 1..Len(st) /\ (L - 1) + 1 = L /\ L \in 1..Len(st)
          BY <2>3, <4>3
        <5> QED
          BY <2>3, <2>5, <4>2, <4>3, <5>1
      <4>6. ASSUME NEW i \in 1..Len(completions)
            PROVE  settledTimers'[(L - 1) + i] = st[L + i]
        <5>1. (L - 1) + i \in 1..Len(st) /\ ((L - 1) + i) + 1 = L + i /\ L + i \in 1..Len(st)
          BY <2>3, <4>3
        <5> QED
          BY <2>5, <4>2, <5>1
      <4>7. settledTimers'[Len(settledTimers')] = c
        <5>1. Len(st) \in 1..Len(st)
          BY <2>3, <4>3, TimerConstants
        <5> QED
          BY <2>5, <4>2, <5>1
      <4>8. SettledTail'
        <5> DEFINE M == Len(settledTimers') - Len(sending') - Len(completions')
        <5>1. M = L - 1
          BY <1>0, <2>7, <4>4
        <5>2. /\ L - 1 >= Len(held')
              /\ \A i \in 1..Len(held') : held'[i] = settledTimers'[L - 1]
              /\ \A i \in 1..Len(completions') : completions'[i] = settledTimers'[(L - 1) + i]
              /\ \A i \in 1..Len(sending') : sending'[i] = settledTimers'[Len(settledTimers')]
          BY <1>0, <2>7, <3>1, <4>5, <4>6, <4>7
        <5> HIDE DEF L
        <5> QED
          BY <5>1, <5>2 DEF SettledTail
      <4>9. Gens(settledTimers') \subseteq Gens(ap) /\ Distinct(settledTimers')
        BY <2>5, <2>6, <4>1, GensTail
      <4> QED
        BY <4>2, <4>3, <4>8, <4>9
    <3> QED
      BY <3>2, <3>3
  <2> QED
    BY <1>0, <1>1, <2>3, <2>4, <2>6, <2>8 DEF SettledInv
<1> QED
  BY <1>2, <1>3

\* A fire moves a timer from its goroutine to the completion being sent.
LEMMA FireLosesNothing ==
    ASSUME CompletionDepth + 2 <= MaxSettled,
           TypeOK, PlaceInv, LostInv, ~ctxDone,
           NEW g \in goroutines, handleFireTimerIfCurrent(g)
    PROVE  ArmedTimerNotLost'
<1> DEFINE c == [name |-> g.name, gen |-> g.gen]
<1>0. /\ goroutines' = goroutines \ {g} /\ run = "select" /\ sending = << >>
      /\ UNCHANGED <<completions, held, wanted, dispatched, ctxDone>>
      /\ g.name \in Names /\ g.gen \in Nat
  BY DEF handleFireTimerIfCurrent, TypeOK, clientVars, Goroutine
<1> SUFFICES ASSUME NEW n \in Names, wanted[n] # 0, wanted[n] \notin dispatched
             PROVE  Pending(n, wanted[n])' /\ activeTimers'[n] = wanted[n]
  BY <1>0 DEF ArmedTimerNotLost
<1>1. Pending(n, wanted[n]) /\ activeTimers[n] = wanted[n]
  BY DEF LostInv, ArmedTimerNotLost
<1>2. CASE activeTimers[g.name] # g.gen
  <2>1. UNCHANGED <<activeTimers, cancelFuncs, sending>>
    BY <1>2 DEF handleFireTimerIfCurrent
  <2>2. ~(g.name = n /\ g.gen = wanted[n])
    BY <1>1, <1>2
  <2> QED
    BY <1>0, <1>1, <2>1, <2>2 DEF Pending, Cancelled
<1>3. CASE activeTimers[g.name] = g.gen
  <2>1. /\ sending' = <<c>> /\ cancelFuncs' = [cancelFuncs EXCEPT ![g.name] = 0]
        /\ settledTimers' = Trimmed(Append(settledTimers, c))
        /\ activeTimers' = [m \in Names |->
              IF [name |-> m, gen |-> activeTimers[m]] \in Evicted(Append(settledTimers, c))
              THEN 0 ELSE activeTimers[m]]
    BY <1>3 DEF handleFireTimerIfCurrent, evictSettledTimers
  <2>2. activeTimers'[n] = activeTimers[n]
    <3>1. /\ c \in Completion /\ settledTimers \in Seq(Completion)
      BY <1>0 DEF Completion, TypeOK
    <3>2. /\ Len(settledTimers) \in Nat /\ CompletionDepth \in Nat /\ MaxSettled \in Nat
          /\ Len(settledTimers) <= MaxSettled
      BY <3>1, LenProperties, TimerConstants DEF LostInv, SettledInv
    <3> HIDE DEF c
    <3>3. /\ Len(Append(settledTimers, c)) = Len(settledTimers) + 1
          /\ \A i \in 1..Len(settledTimers) : Append(settledTimers, c)[i] = settledTimers[i]
      BY <3>1, AppendProperties
    <3>4. CASE Len(settledTimers) < MaxSettled
      <4>1. Evicted(Append(settledTimers, c)) = {}
        BY <3>2, <3>3, <3>4 DEF Evicted
      <4> QED
        BY <2>1, <4>1
    <3>5. CASE Len(settledTimers) = MaxSettled
      <4>1. 1 \in 1..Len(settledTimers)
        BY <3>2, <3>5
      <4>2. Evicted(Append(settledTimers, c)) \subseteq {settledTimers[1]}
        BY <3>3, <4>1 DEF Evicted
      <4>3. settledTimers[1].gen # activeTimers[n]
        BY <1>0, <3>5, EvictionIsSafe
      <4>4. [name |-> n, gen |-> activeTimers[n]] # settledTimers[1]
        BY <4>3
      <4> QED
        BY <2>1, <4>2, <4>4
    <3> QED
      BY <3>2, <3>4, <3>5
  <2>3. Pending(n, wanted[n])'
    <3>1. CASE g.name = n /\ g.gen = wanted[n]
      <4>1. \E i \in 1..Len(sending') : sending'[i] = [name |-> n, gen |-> wanted[n]]
        BY <2>1, <3>1
      <4> QED
        BY <1>0, <4>1 DEF Pending
    <3>2. CASE g.name # n
      <4>1. cancelFuncs'[n] = cancelFuncs[n]
        BY <2>1, <3>2 DEF TypeOK
      <4>2. CASE \E r \in goroutines : r.name = n /\ r.gen = wanted[n] /\ ~Cancelled(r)
        BY <1>0, <3>2, <4>1, <4>2 DEF Pending, Cancelled
      <4> QED
        BY <1>0, <1>1, <4>2, EmptyQueue DEF Pending
    <3>3. CASE g.name = n /\ g.gen # wanted[n]
      BY <1>1, <1>3, <3>3
    <3> QED
      BY <3>1, <3>2, <3>3
  <2> QED
    BY <1>1, <2>2, <2>3
<1> QED
  BY <1>2, <1>3

\* The completion in the run loop's hand reaches the channel.
LEMMA SendKeepsSettled ==
    ASSUME TypeOK, PlaceInv, LostInv, ~ctxDone, SendCompletion
    PROVE  SettledInv' /\ ArmedTimerNotLost'
<1> DEFINE c == sending[1]
           st == settledTimers
<1>1. /\ sending = <<c>> /\ sending' = << >> /\ c \in Completion
      /\ completions' = Append(completions, c) /\ Len(completions) < CompletionDepth
      /\ UNCHANGED <<goroutines, held, dispatched, nextTimerID, settledTimers, pc,
                     activeTimers, cancelFuncs, wanted, ctxDone>>
  BY OneInQueue DEF SendCompletion, TypeOK, PlaceInv, clientVars
<1>2. UNCHANGED Live /\ SettledInv /\ ArmedTimerNotLost
  BY <1>1 DEF Live, LostInv
<1>3. /\ completions \in Seq(Completion) /\ Len(completions) \in Nat /\ Len(st) \in Nat
      /\ CompletionDepth \in Nat /\ Len(sending) = 1 /\ Len(sending') = 0 /\ sending[1] = c
  <2>1. /\ completions \in Seq(Completion) /\ Len(completions) \in Nat /\ Len(st) \in Nat
        /\ CompletionDepth \in Nat
    BY LenProperties, TimerConstants DEF TypeOK
  <2> HIDE DEF c
  <2>2. Len(sending) = 1 /\ Len(sending') = 0
    BY <1>1, EmptyQueue, SingleQueue
  <2> QED
    BY <2>1, <2>2 DEF c
<1> HIDE DEF c
<1>4. /\ Len(completions') = Len(completions) + 1
      /\ \A i \in 1..Len(completions) : completions'[i] = completions[i]
      /\ completions'[Len(completions) + 1] = c
  BY <1>1, <1>3, AppendProperties
<1>5. SettledTail'
  <2> DEFINE L == Len(st) - Len(sending) - Len(completions)
             M == Len(settledTimers') - Len(sending') - Len(completions')
  <2>1. /\ L >= Len(held)
        /\ \A i \in 1..Len(held) : held[i] = st[L]
        /\ \A i \in 1..Len(completions) : completions[i] = st[L + i]
        /\ \A i \in 1..Len(sending) : sending[i] = st[Len(st)]
    BY <1>2 DEF SettledInv, SettledTail
  <2>2. M = L /\ L + (Len(completions) + 1) = Len(st)
    BY <1>1, <1>3, <1>4
  <2>3. c = st[Len(st)]
    BY <1>3, <2>1
  <2>4. ASSUME NEW i \in 1..Len(completions') PROVE completions'[i] = st[L + i]
    <3>1. CASE i \in 1..Len(completions)
      BY <1>4, <2>1, <3>1
    <3>2. CASE i = Len(completions) + 1
      BY <1>4, <2>2, <2>3, <3>2
    <3> QED
      BY <1>3, <1>4, <3>1, <3>2
  <2>5. \A i \in 1..Len(sending') : FALSE
    BY <1>3
  <2> HIDE DEF L
  <2> QED
    BY <1>1, <2>1, <2>2, <2>4, <2>5 DEF SettledTail
<1>6. SettledInv'
  BY <1>1, <1>2, <1>3, <1>4, <1>5 DEF SettledInv
<1>7. ArmedTimerNotLost'
  <2> SUFFICES ASSUME NEW n \in Names, wanted[n] # 0, wanted[n] \notin dispatched
               PROVE  Pending(n, wanted[n])' /\ activeTimers'[n] = wanted[n]
    BY <1>1 DEF ArmedTimerNotLost
  <2>1. Pending(n, wanted[n]) /\ activeTimers[n] = wanted[n]
    BY <1>2 DEF ArmedTimerNotLost
  <2>2. CASE \E i \in 1..Len(sending) : sending[i] = [name |-> n, gen |-> wanted[n]]
    <3>1. c = [name |-> n, gen |-> wanted[n]]
      BY <1>3, <2>2
    <3>2. Len(completions) + 1 \in 1..Len(completions')
      BY <1>3, <1>4
    <3> QED
      BY <1>1, <1>4, <2>1, <3>1, <3>2 DEF Pending
  <2>3. CASE \E i \in 1..Len(completions) : completions[i] = [name |-> n, gen |-> wanted[n]]
    <3>1. \A i \in 1..Len(completions) : i \in 1..Len(completions')
      BY <1>3, <1>4
    <3> QED
      BY <1>1, <1>4, <2>1, <2>3, <3>1 DEF Pending
  <2> QED
    BY <1>1, <2>1, <2>2, <2>3 DEF Pending, Cancelled
<1> QED
  BY <1>6, <1>7

\* The client receives the oldest completion.
LEMMA ReceiveKeepsSettled ==
    ASSUME TypeOK, PlaceInv, LostInv, ~ctxDone, ReceiveCompletion
    PROVE  SettledInv' /\ ArmedTimerNotLost'
<1> DEFINE c == completions[1]
           st == settledTimers
<1>1. /\ completions \in Seq(Completion) /\ completions # << >> /\ pc' = "check"
      /\ held' = <<c>> /\ completions' = Tail(completions) /\ held = << >>
      /\ UNCHANGED <<goroutines, sending, dispatched, nextTimerID, settledTimers,
                     activeTimers, cancelFuncs, wanted, ctxDone>>
  BY FirstAndRest DEF ReceiveCompletion, TypeOK, LostInv, SettledInv
<1>2. UNCHANGED Live /\ SettledInv /\ ArmedTimerNotLost
  BY <1>1 DEF Live, LostInv
<1>3. /\ Len(completions) \in Nat /\ Len(st) \in Nat /\ Len(sending) \in Nat
      /\ CompletionDepth \in Nat /\ 1 \in 1..Len(completions)
      /\ Len(completions') = Len(completions) - 1
      /\ \A i \in 1..Len(completions') : completions'[i] = completions[i + 1]
  BY <1>1, LenProperties, HeadTailProperties, EmptySeq, TimerConstants DEF TypeOK
<1> HIDE DEF c
<1>4. Len(held') = 1 /\ held'[1] = c /\ \A i \in 1..Len(held') : i = 1
  BY <1>1, SingleQueue
<1>5. SettledTail'
  <2> DEFINE L == Len(st) - Len(sending) - Len(completions)
             M == Len(settledTimers') - Len(sending') - Len(completions')
  <2>1. /\ L >= Len(held)
        /\ \A i \in 1..Len(completions) : completions[i] = st[L + i]
        /\ \A i \in 1..Len(sending) : sending[i] = st[Len(st)]
    BY <1>2 DEF SettledInv, SettledTail
  <2>2. M = L + 1 /\ M >= Len(held')
    BY <1>1, <1>3, <1>4, <2>1, EmptyQueue
  <2>3. c = st[L + 1]
    BY <1>3, <2>1 DEF c
  <2>4. ASSUME NEW i \in 1..Len(completions') PROVE completions'[i] = st[(L + 1) + i]
    <3>1. i + 1 \in 1..Len(completions) /\ L + (i + 1) = (L + 1) + i
      BY <1>3
    <3>2. completions[i + 1] = st[L + (i + 1)]
      BY <2>1, <3>1
    <3> QED
      BY <1>3, <3>1, <3>2
  <2> HIDE DEF L
  <2> QED
    BY <1>1, <1>4, <2>1, <2>2, <2>3, <2>4 DEF SettledTail
<1>6. SettledInv'
  BY <1>1, <1>2, <1>3, <1>5 DEF SettledInv
<1>7. ArmedTimerNotLost'
  <2> SUFFICES ASSUME NEW n \in Names, wanted[n] # 0, wanted[n] \notin dispatched
               PROVE  Pending(n, wanted[n])' /\ activeTimers'[n] = wanted[n]
    BY <1>1 DEF ArmedTimerNotLost
  <2>1. Pending(n, wanted[n]) /\ activeTimers[n] = wanted[n]
    BY <1>2 DEF ArmedTimerNotLost
  <2>2. CASE \E i \in 1..Len(completions) : completions[i] = [name |-> n, gen |-> wanted[n]]
    <3>1. PICK i \in 1..Len(completions) : completions[i] = [name |-> n, gen |-> wanted[n]]
      BY <2>2
    <3>2. CASE i = 1
      BY <1>1, <1>4, <2>1, <3>1, <3>2 DEF Pending, c
    <3>3. CASE i # 1
      <4>1. i - 1 \in 1..Len(completions') /\ (i - 1) + 1 = i
        BY <1>3, <3>3
      <4>2. completions'[i - 1] = [name |-> n, gen |-> wanted[n]]
        BY <1>3, <3>1, <4>1
      <4> QED
        BY <1>1, <2>1, <4>1, <4>2 DEF Pending
    <3> QED
      BY <3>2, <3>3
  <2> QED
    BY <1>1, <2>1, <2>2, EmptyQueue DEF Pending, Cancelled
<1> QED
  BY <1>6, <1>7

\* The client lets go of the completion it holds, or keeps it.
LEMMA LetGo ==
    ASSUME TypeOK, PlaceInv, LostInv, ~ctxDone,
           UNCHANGED <<goroutines, sending, completions, nextTimerID, settledTimers,
                       activeTimers, cancelFuncs, wanted, ctxDone>>,
           dispatched \subseteq dispatched',
           \/ held' = << >> /\ \A i \in 1..Len(held) :
                 held[i].gen \in dispatched' \/ activeTimers[held[i].name] # held[i].gen
           \/ UNCHANGED held /\ (held # << >> => pc' \in {"check", "dispatch"})
    PROVE  SettledInv' /\ ArmedTimerNotLost'
<1>1. SettledInv /\ ArmedTimerNotLost /\ UNCHANGED Live
  BY DEF LostInv, Live
<1>2. /\ Len(completions) \in Nat /\ Len(settledTimers) \in Nat /\ Len(sending) \in Nat
      /\ Len(held) \in Nat
  BY LenProperties DEF TypeOK
<1>3. SettledTail'
  <2>1. CASE UNCHANGED held
    BY <1>1, <2>1 DEF SettledInv, SettledTail
  <2>2. CASE held' = << >>
    <3>1. Len(held') = 0 /\ \A i \in 1..Len(held') : FALSE
      BY <2>2, EmptyQueue
    <3> QED
      BY <1>1, <1>2, <3>1 DEF SettledInv, SettledTail
  <2> QED
    BY <2>1, <2>2
<1>4. SettledInv'
  BY <1>1, <1>3 DEF SettledInv
<1>5. ArmedTimerNotLost'
  <2> SUFFICES ASSUME NEW n \in Names, wanted[n] # 0, wanted[n] \notin dispatched'
               PROVE  Pending(n, wanted[n])' /\ activeTimers'[n] = wanted[n]
    BY DEF ArmedTimerNotLost
  <2>1. Pending(n, wanted[n]) /\ activeTimers[n] = wanted[n]
    BY <1>1 DEF ArmedTimerNotLost
  <2>2. CASE UNCHANGED held
    BY <2>1, <2>2 DEF Pending, Cancelled
  <2>3. CASE held' = << >> /\ \A i \in 1..Len(held) :
                 held[i].gen \in dispatched' \/ activeTimers[held[i].name] # held[i].gen
    <3>1. \A i \in 1..Len(held) : held[i] # [name |-> n, gen |-> wanted[n]]
      BY <2>1, <2>3
    <3> QED
      BY <2>1, <2>3, <3>1 DEF Pending, Cancelled
  <2> QED
    BY <2>2, <2>3
<1> QED
  BY <1>4, <1>5

\* A goroutine moves on or exits.
LEMMA GoroutineKeeps ==
    ASSUME TypeOK, PlaceInv, LostInv, ~ctxDone, NEW g \in goroutines,
           Elapse(g) \/ GoroutineExit(g)
    PROVE  SettledInv' /\ ArmedTimerNotLost'
<1> DEFINE f == [g EXCEPT !.pc = "firing"]
<1>1. /\ UNCHANGED <<sending, completions, nextTimerID, settledTimers, activeTimers,
                     cancelFuncs, wanted, ctxDone, held, pc, dispatched>>
      /\ \/ goroutines' = (goroutines \ {g}) \cup {f}
         \/ goroutines' = goroutines \ {g} /\ Cancelled(g)
  BY DEF Elapse, GoroutineExit, clientVars
<1>2. f.gen = g.gen /\ f.name = g.name
  BY DEF TypeOK, Goroutine
<1>3. SettledInv /\ ArmedTimerNotLost
  BY DEF LostInv
<1> HIDE DEF f
<1>4. Live' \subseteq Live
  BY <1>1, <1>2 DEF Live
<1>5. SettledTail'
  BY <1>1, <1>3 DEF SettledInv, SettledTail
<1>6. SettledInv'
  BY <1>1, <1>3, <1>4, <1>5 DEF SettledInv
<1>7. ASSUME NEW n \in Names, wanted[n] # 0, wanted[n] \notin dispatched
      PROVE  Pending(n, wanted[n])' /\ activeTimers'[n] = wanted[n]
  <2>1. Pending(n, wanted[n]) /\ activeTimers[n] = wanted[n]
    BY <1>3, <1>7 DEF ArmedTimerNotLost
  <2>2. CASE \E r \in goroutines : r.name = n /\ r.gen = wanted[n] /\ ~Cancelled(r)
    <3>1. PICK r \in goroutines : r.name = n /\ r.gen = wanted[n] /\ ~Cancelled(r)
      BY <2>2
    <3>2. \E q \in goroutines' : q.name = n /\ q.gen = wanted[n]
      BY <1>1, <1>2, <3>1
    <3>3. ~ctxDone' /\ cancelFuncs'[n] = wanted[n]
      BY <1>1, <3>1 DEF Cancelled
    <3> QED
      BY <1>1, <2>1, <3>2, <3>3 DEF Pending, Cancelled
  <2> QED
    BY <1>1, <2>1, <2>2 DEF Pending
<1> QED
  BY <1>1, <1>6, <1>7 DEF ArmedTimerNotLost

\* A name is armed under a new generation, or cancelled.
LEMMA CommandKeeps ==
    ASSUME TypeOK, PlaceInv, LostInv, ~ctxDone, Arm \/ Cancel
    PROVE  SettledInv' /\ ArmedTimerNotLost'
<1> DEFINE a == todo[1].name
           id == nextTimerID + 1
           f == [name |-> a, gen |-> id, pc |-> "waiting"]
<1>1. /\ UNCHANGED <<sending, completions, settledTimers, ctxDone, held, pc, dispatched>>
      /\ a \in Names /\ id \in Nat /\ id # 0 /\ f.gen = id /\ f.name = a
      /\ SettledInv /\ ArmedTimerNotLost
  <2>1. todo[1] \in Command
    BY FirstAndRest DEF Arm, Cancel, TypeOK
  <2> QED
    BY <2>1 DEF Arm, Cancel, handleArm, handleCancel, TypeOK, LostInv, Command
<1>2. SettledTail'
  BY <1>1 DEF SettledInv, SettledTail
<1>3. CASE Arm
  <2>1. /\ goroutines' = goroutines \cup {f} /\ nextTimerID' = id
        /\ activeTimers' = [activeTimers EXCEPT ![a] = id]
        /\ cancelFuncs' = [cancelFuncs EXCEPT ![a] = id]
        /\ wanted' = [wanted EXCEPT ![a] = id]
    BY <1>3 DEF Arm, handleArm
  <2>2. \A x \in Gens(settledTimers) : x <= id /\ x # id
    <3>1. Gens(settledTimers) \subseteq Nat /\ nextTimerID \in Nat
      BY GensAreNat DEF TypeOK
    <3> QED
      BY <1>1, <3>1 DEF SettledInv
  <2> HIDE DEF f, id, a
  <2>3. Live' = Live \cup {id}
    BY <1>1, <2>1 DEF Live
  <2>4. SettledInv'
    BY <1>1, <1>2, <2>1, <2>2, <2>3 DEF SettledInv
  <2>5. ASSUME NEW n \in Names, wanted'[n] # 0, wanted'[n] \notin dispatched
        PROVE  Pending(n, wanted[n])' /\ activeTimers'[n] = wanted'[n]
    <3>1. CASE n = a
      <4>1. wanted'[n] = id /\ activeTimers'[n] = id /\ cancelFuncs'[n] = id
        BY <2>1, <3>1 DEF TypeOK
      <4>2. f \in goroutines' /\ f.name = n /\ f.gen = id /\ ~ctxDone'
        BY <1>1, <2>1, <3>1
      <4> QED
        BY <4>1, <4>2 DEF Pending, Cancelled
    <3>2. CASE n # a
      <4>1. /\ wanted'[n] = wanted[n] /\ activeTimers'[n] = activeTimers[n]
            /\ cancelFuncs'[n] = cancelFuncs[n]
        BY <2>1, <3>2 DEF TypeOK
      <4>2. Pending(n, wanted[n]) /\ activeTimers[n] = wanted[n]
        BY <1>1, <2>5, <4>1 DEF ArmedTimerNotLost
      <4> QED
        BY <1>1, <2>1, <4>1, <4>2 DEF Pending, Cancelled
    <3> QED
      BY <3>1, <3>2
  <2> QED
    BY <1>1, <2>4, <2>5 DEF ArmedTimerNotLost
<1>4. CASE Cancel
  <2>1. /\ UNCHANGED <<goroutines, nextTimerID>>
        /\ activeTimers' = [activeTimers EXCEPT ![a] = 0]
        /\ cancelFuncs' = [cancelFuncs EXCEPT ![a] = 0]
        /\ wanted' = [wanted EXCEPT ![a] = 0]
    BY <1>4 DEF Cancel, handleCancel
  <2> HIDE DEF a
  <2>2. UNCHANGED Live
    BY <2>1 DEF Live
  <2>3. SettledInv'
    BY <1>1, <1>2, <2>1, <2>2 DEF SettledInv
  <2>4. ASSUME NEW n \in Names, wanted'[n] # 0, wanted'[n] \notin dispatched
        PROVE  Pending(n, wanted[n])' /\ activeTimers'[n] = wanted'[n]
    <3>1. n # a
      BY <2>1, <2>4 DEF TypeOK
    <3>2. /\ wanted'[n] = wanted[n] /\ activeTimers'[n] = activeTimers[n]
          /\ cancelFuncs'[n] = cancelFuncs[n]
      BY <2>1, <3>1 DEF TypeOK
    <3>3. Pending(n, wanted[n]) /\ activeTimers[n] = wanted[n]
      BY <1>1, <2>4, <3>2 DEF ArmedTimerNotLost
    <3> QED
      BY <1>1, <2>1, <3>2, <3>3 DEF Pending, Cancelled
  <2> QED
    BY <1>1, <2>3, <2>4 DEF ArmedTimerNotLost
<1> QED
  BY <1>3, <1>4

(***************************************************************************)
(* One arming drives one dispatch.  The settled queue has to outlast the   *)
(* completions on their way (one in the run loop's hand, CompletionDepth   *)
(* in the channel, one in the sequencer's): timer.go keeps 1024 entries    *)
(* for a channel of one.                                                   *)
(***************************************************************************)
THEOREM OneDispatchPerArming ==
    ASSUME CompletionDepth + 2 <= MaxSettled
    PROVE  Spec => []ArmingDrivesOneDispatch
<1>1. Init => LostInv
  <2> SUFFICES ASSUME Init PROVE SettledInv /\ ArmedTimerNotLost
    BY DEF LostInv
  <2>1. /\ Len(completions) = 0 /\ Len(sending) = 0 /\ Len(held) = 0 /\ held = << >>
        /\ Len(settledTimers) = 0 /\ Gens(settledTimers) = {} /\ Distinct(settledTimers)
    BY EmptyQueue DEF Init
  <2>2. SettledTail
    BY <2>1 DEF SettledTail
  <2>3. ArmedTimerNotLost
    BY DEF Init, ArmedTimerNotLost
  <2> QED
    BY <2>1, <2>2, <2>3, TimerConstants DEF SettledInv
<1>2. TypeOK /\ PlaceInv /\ LostInv /\ [Next]_vars => LostInv'
  <2> SUFFICES ASSUME TypeOK, PlaceInv, LostInv, [Next]_vars, ~ctxDone, ~ctxDone'
               PROVE  SettledInv' /\ ArmedTimerNotLost'
    <3>1. ctxDone => ctxDone' \/ ~[Next]_vars
      BY DEF Next, RunStep, GoroutineStep, ClientStep, SendCompletion, AbandonCompletion,
             RunExit, Elapse, GoroutineExit, handleFireTimerIfCurrent, InputArrives,
             ReceiveCompletion, IsCurrent, DispatchTimer, Arm, Cancel, HandlerReturns,
             CommandAbandoned, ClientStops, CancelContext, vars
    <3> QED
      BY <3>1 DEF LostInv
  <2> DEFINE Goal == SettledInv' /\ ArmedTimerNotLost'
  <2>1. CASE SendCompletion
    BY <2>1, SendKeepsSettled
  <2>2. CASE AbandonCompletion \/ RunExit \/ CommandAbandoned \/ ClientStops \/ CancelContext
    BY <2>2 DEF AbandonCompletion, RunExit, CommandAbandoned, ClientStops, CancelContext
  <2>3. ASSUME NEW g \in goroutines,
               Elapse(g) \/ GoroutineExit(g) \/ handleFireTimerIfCurrent(g)
        PROVE  Goal
    BY <2>3, GoroutineKeeps, FireSettles, FireLosesNothing
  <2>4. ASSUME NEW h \in Handlers, InputArrives(h) PROVE Goal
    <3>1. held = << >> /\ \A i \in 1..Len(held) : FALSE
      BY <2>4, EmptyQueue DEF InputArrives, LostInv, SettledInv
    <3> QED
      BY <2>4, <3>1, LetGo DEF InputArrives, Enter, facilityVars
  <2>5. CASE ReceiveCompletion
    BY <2>5, ReceiveKeepsSettled
  <2>6. CASE IsCurrent
    <3>1. \A i \in 1..Len(held) : i = 1
      BY LenProperties DEF TypeOK, PlaceInv
    <3> QED
      BY <2>6, <3>1, LetGo DEF IsCurrent, facilityVars
  <2>7. CASE DispatchTimer
    <3>1. \A i \in 1..Len(held) : i = 1
      BY LenProperties DEF TypeOK, PlaceInv
    <3>2. held' = << >> /\ dispatched' = dispatched \cup {held[1].gen}
      BY <2>7 DEF DispatchTimer, Enter
    <3> QED
      BY <2>7, <3>1, <3>2, LetGo DEF DispatchTimer, facilityVars
  <2>8. CASE Arm \/ Cancel
    BY <2>8, CommandKeeps
  <2>9. CASE HandlerReturns
    BY <2>9, LetGo DEF HandlerReturns, facilityVars, LostInv, SettledInv
  <2>10. CASE UNCHANGED vars
    BY <2>10, LetGo DEF vars, facilityVars, clientVars, LostInv, SettledInv
  <2> QED
    BY <2>1, <2>2, <2>3, <2>4, <2>5, <2>6, <2>7, <2>8, <2>9, <2>10
       DEF Next, RunStep, GoroutineStep, ClientStep
<1>3. TypeOK /\ PlaceInv /\ LostInv => ArmingDrivesOneDispatch
  <2> SUFFICES ASSUME TypeOK, PlaceInv, LostInv PROVE ArmingDrivesOneDispatch
    OBVIOUS
  <2>1. DispatchedAtMostOnce
    <3> SUFFICES ASSUME pc = "dispatch" PROVE held[1].gen \notin dispatched
      BY DEF DispatchedAtMostOnce
    <3>1. Gens(held) = {held[1].gen}
      BY OneInQueue DEF TypeOK, PlaceInv
    <3> QED
      BY <3>1 DEF PlaceInv
  <2>2. ArmedTimerNotLost
    BY DEF LostInv, ArmedTimerNotLost
  <2> QED
    BY <2>1, <2>2 DEF ArmingDrivesOneDispatch
<1> QED
  BY <1>1, <1>2, <1>3, TypeCorrect, PlaceInvInductive, PTL DEF Spec
============================================================================
