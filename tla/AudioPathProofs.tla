-------------------------- MODULE AudioPathProofs --------------------------
(***************************************************************************)
(* TLAPS proofs about the caller's audio on its way to the sequencer.      *)
(*                                                                         *)
(* StreamTeardown, for every depth of the planes and of the session's      *)
(* inputs and any number of frames and marks.  VADMachine, for every frame *)
(* size, window size and window duration, every pair of thresholds that    *)
(* validateOrdering accepts and a stream of any length.                    *)
(***************************************************************************)
EXTENDS StreamTeardown, VADMachine, SequenceTheorems, TLAPS

----------------------------------------------------------------------------
(* Sequences of chunks. *)

\* Strictly increasing, and everything in one sequence before everything in
\* another.
Inc(s) == \A i, j \in 1..Len(s) : i < j => s[i] < s[j]
Before(s, t) == \A i \in 1..Len(s), j \in 1..Len(t) : s[i] < t[j]

\* The elements of a concatenation are those of its parts.
LEMMA ConcatElements ==
    ASSUME NEW s \in Seq(Nat), NEW t \in Seq(Nat)
    PROVE  /\ s \o t \in Seq(Nat)
           /\ Len(s \o t) = Len(s) + Len(t)
           /\ \A i \in 1..Len(s) : (s \o t)[i] = s[i]
           /\ \A j \in 1..Len(t) : (s \o t)[Len(s) + j] = t[j]
           /\ \A k \in 1..Len(s \o t) : \/ k \in 1..Len(s)
                                        \/ \E j \in 1..Len(t) : k = Len(s) + j
<1>1. /\ s \o t \in Seq(Nat) /\ Len(s \o t) = Len(s) + Len(t)
      /\ Len(s) \in Nat /\ Len(t) \in Nat
  BY ConcatProperties, LenProperties
<1>2. \A i \in 1..Len(s) + Len(t) : (s \o t)[i] =
         IF i <= Len(s) THEN s[i] ELSE t[i - Len(s)]
  BY ConcatProperties
<1>3. ASSUME NEW j \in 1..Len(t) PROVE (s \o t)[Len(s) + j] = t[j]
  <2>1. Len(s) + j \in 1..Len(s) + Len(t) /\ ~(Len(s) + j <= Len(s)) /\ (Len(s) + j) - Len(s) = j
    BY <1>1
  <2> QED
    BY <1>2, <2>1
<1>4. ASSUME NEW k \in 1..Len(s \o t), k \notin 1..Len(s)
      PROVE  \E j \in 1..Len(t) : k = Len(s) + j
  <2>1. k - Len(s) \in 1..Len(t) /\ k = Len(s) + (k - Len(s))
    BY <1>1, <1>4
  <2> QED
    BY <2>1
<1> QED
  BY <1>1, <1>2, <1>3, <1>4

\* A concatenation is increasing when its parts are, one before the other.
LEMMA IncConcat ==
    ASSUME NEW s \in Seq(Nat), NEW t \in Seq(Nat)
    PROVE  Inc(s \o t) <=> Inc(s) /\ Inc(t) /\ Before(s, t)
<1> DEFINE u == s \o t
<1>0. /\ Len(s) \in Nat /\ Len(t) \in Nat /\ Len(u) = Len(s) + Len(t)
      /\ \A i \in 1..Len(s) : i \in 1..Len(u) /\ u[i] = s[i]
      /\ \A j \in 1..Len(t) : Len(s) + j \in 1..Len(u) /\ u[Len(s) + j] = t[j]
      /\ \A k \in 1..Len(u) : \/ k \in 1..Len(s)
                              \/ \E j \in 1..Len(t) : k = Len(s) + j
  <2>1. Len(s) \in Nat /\ Len(t) \in Nat /\ Len(u) = Len(s) + Len(t)
    BY LenProperties, ConcatElements
  <2>2. \A i \in 1..Len(s) : i \in 1..Len(u) /\ u[i] = s[i]
    BY <2>1, ConcatElements
  <2>3. \A j \in 1..Len(t) : Len(s) + j \in 1..Len(u) /\ u[Len(s) + j] = t[j]
    BY <2>1, ConcatElements
  <2> QED
    BY <2>1, <2>2, <2>3, ConcatElements
<1> HIDE DEF u
<1>1. ASSUME Inc(u) PROVE Inc(s) /\ Inc(t) /\ Before(s, t)
  <2>1. ASSUME NEW i \in 1..Len(s), NEW j \in 1..Len(s), i < j PROVE s[i] < s[j]
    <3>1. u[i] < u[j]
      BY <1>0, <1>1, <2>1 DEF Inc
    <3> QED
      BY <1>0, <3>1
  <2>2. ASSUME NEW i \in 1..Len(t), NEW j \in 1..Len(t), i < j PROVE t[i] < t[j]
    <3>0. Len(s) + i \in 1..Len(u) /\ Len(s) + j \in 1..Len(u) /\ Len(s) + i < Len(s) + j
      BY <1>0, <2>2
    <3>1. u[Len(s) + i] < u[Len(s) + j]
      BY <1>1, <3>0 DEF Inc
    <3> QED
      BY <1>0, <3>1
  <2>3. ASSUME NEW i \in 1..Len(s), NEW j \in 1..Len(t) PROVE s[i] < t[j]
    <3>1. u[i] < u[Len(s) + j]
      BY <1>0, <1>1, <2>3 DEF Inc
    <3> QED
      BY <1>0, <3>1
  <2> QED
    BY <2>1, <2>2, <2>3 DEF Inc, Before
<1>2. ASSUME Inc(s), Inc(t), Before(s, t) PROVE Inc(u)
  <2> SUFFICES ASSUME NEW i \in 1..Len(u), NEW j \in 1..Len(u), i < j PROVE u[i] < u[j]
    BY DEF Inc
  <2>1. CASE i \in 1..Len(s) /\ j \in 1..Len(s)
    BY <1>0, <1>2, <2>1 DEF Inc
  <2>2. CASE i \in 1..Len(s) /\ j \notin 1..Len(s)
    BY <1>0, <1>2, <2>2 DEF Before
  <2>3. CASE i \notin 1..Len(s)
    <3>1. PICK a \in 1..Len(t) : i = Len(s) + a
      BY <1>0, <2>3
    <3>2. j \notin 1..Len(s)
      BY <1>0, <2>3
    <3>3. PICK b \in 1..Len(t) : j = Len(s) + b
      BY <1>0, <3>2
    <3>4. a < b
      BY <1>0, <3>1, <3>3
    <3> QED
      BY <1>0, <1>2, <3>1, <3>3, <3>4 DEF Inc
  <2> QED
    BY <2>1, <2>2, <2>3
<1> QED
  BY <1>1, <1>2 DEF u

\* What precedes or follows a concatenation precedes or follows both parts.
LEMMA BeforeConcat ==
    ASSUME NEW s \in Seq(Nat), NEW t \in Seq(Nat), NEW u \in Seq(Nat)
    PROVE  /\ Before(s \o t, u) <=> Before(s, u) /\ Before(t, u)
           /\ Before(u, s \o t) <=> Before(u, s) /\ Before(u, t)
<1> DEFINE v == s \o t
<1>0. /\ Len(s) \in Nat /\ Len(t) \in Nat /\ Len(v) = Len(s) + Len(t)
      /\ \A i \in 1..Len(s) : i \in 1..Len(v) /\ v[i] = s[i]
      /\ \A j \in 1..Len(t) : Len(s) + j \in 1..Len(v) /\ v[Len(s) + j] = t[j]
      /\ \A k \in 1..Len(v) : \/ k \in 1..Len(s)
                              \/ \E j \in 1..Len(t) : k = Len(s) + j
  <2>1. Len(s) \in Nat /\ Len(t) \in Nat /\ Len(v) = Len(s) + Len(t)
    BY LenProperties, ConcatElements
  <2>2. \A i \in 1..Len(s) : i \in 1..Len(v) /\ v[i] = s[i]
    BY <2>1, ConcatElements
  <2>3. \A j \in 1..Len(t) : Len(s) + j \in 1..Len(v) /\ v[Len(s) + j] = t[j]
    BY <2>1, ConcatElements
  <2> QED
    BY <2>1, <2>2, <2>3, ConcatElements
<1> HIDE DEF v
<1>1. Before(v, u) => Before(s, u) /\ Before(t, u)
  BY <1>0 DEF Before
<1>2. Before(s, u) /\ Before(t, u) => Before(v, u)
  BY <1>0 DEF Before
<1>3. Before(u, v) => Before(u, s) /\ Before(u, t)
  BY <1>0 DEF Before
<1>4. Before(u, s) /\ Before(u, t) => Before(u, v)
  BY <1>0 DEF Before
<1> QED
  BY <1>1, <1>2, <1>3, <1>4 DEF v

\* A sequence is its head before its tail, and Append adds a sequence of one.
LEMMA HeadThenTail ==
    ASSUME NEW s \in Seq(Nat), s # << >>
    PROVE  /\ s = <<Head(s)>> \o Tail(s)
           /\ <<Head(s)>> \in Seq(Nat) /\ Tail(s) \in Seq(Nat)
           /\ Len(Tail(s)) = Len(s) - 1
<1>1. /\ Head(s) \in Nat /\ Tail(s) \in Seq(Nat) /\ Len(Tail(s)) = Len(s) - 1
      /\ \A i \in 1..Len(Tail(s)) : Tail(s)[i] = s[i+1]
  BY HeadTailProperties
<1>2. <<Head(s)>> \in Seq(Nat) /\ Len(<<Head(s)>>) = 1 /\ <<Head(s)>>[1] = Head(s)
  BY <1>1
<1>3. s[1] = Head(s) /\ Len(s) \in Nat
  BY LenProperties
<1>4. /\ <<Head(s)>> \o Tail(s) \in Seq(Nat) /\ Len(<<Head(s)>> \o Tail(s)) = Len(s)
  BY <1>1, <1>2, <1>3, ConcatElements
<1>5. ASSUME NEW i \in 1..Len(s) PROVE s[i] = (<<Head(s)>> \o Tail(s))[i]
  <2>1. CASE i = 1
    BY <1>2, <1>1, <1>3, <2>1, ConcatElements
  <2>2. CASE i # 1
    <3>1. i - 1 \in 1..Len(Tail(s)) /\ 1 + (i - 1) = i /\ (i - 1) + 1 = i
      BY <1>1, <1>3, <2>2
    <3>2. (<<Head(s)>> \o Tail(s))[1 + (i - 1)] = Tail(s)[i - 1]
      BY <1>1, <1>2, <3>1, ConcatElements
    <3> QED
      BY <1>1, <3>1, <3>2
  <2> QED
    BY <2>1, <2>2
<1> QED
  BY <1>1, <1>2, <1>4, <1>5, SeqEqual

----------------------------------------------------------------------------
(* Type correctness. *)

\* The stages by name.
LEMMA StageNames ==
    Range(Stages) = {"reading", "evicting", "waiting", "closeData", "cancelControl",
                     "join", "closeTap", "closeSession", "sessionExit", "done"}
  BY DEF Range, Stages

\* Passing one item from a queue to a hand, and from a hand to a queue.
LEMMA HandType ==
    ASSUME NEW S, NEW ch \in Seq(S), NEW hand \in Seq(S), Len(hand) <= 1,
           NEW depth \in Nat
    PROVE  /\ ch # << >> /\ Len(ch) <= depth =>
                 /\ <<Head(ch)>> \in Seq(S) /\ Len(<<Head(ch)>>) <= 1
                 /\ Tail(ch) \in Seq(S) /\ Len(Tail(ch)) <= depth
           /\ Len(ch) < depth => ch \o hand \in Seq(S) /\ Len(ch \o hand) <= depth
<1>1. ASSUME ch # << >>, Len(ch) <= depth
      PROVE  /\ <<Head(ch)>> \in Seq(S) /\ Len(<<Head(ch)>>) <= 1
             /\ Tail(ch) \in Seq(S) /\ Len(Tail(ch)) <= depth
  BY <1>1, HeadTailProperties, LenProperties
<1>2. ASSUME Len(ch) < depth PROVE ch \o hand \in Seq(S) /\ Len(ch \o hand) <= depth
  BY <1>2, ConcatProperties, LenProperties
<1> QED
  BY <1>1, <1>2

(***************************************************************************)
(* Type correctness, with every plane and input within the depth that      *)
(* handleStream makes it with: drop-oldest never overfills the data plane, *)
(* and a full control plane signals teardown instead of growing.           *)
(***************************************************************************)
THEOREM TypeCorrect == Spec => []TypeOK
<1> USE TeardownConstants
<1>1. Init => TypeOK
  <2> SUFFICES ASSUME Init PROVE TypeOK
    OBVIOUS
  <2>1. /\ data \in Seq(Nat) /\ Len(data) <= DataDepth
        /\ dataHand \in Seq(Nat) /\ Len(dataHand) <= 1
        /\ dataIn \in Seq(Nat) /\ Len(dataIn) <= InDepth
        /\ tapIn \in Seq(Nat) /\ heard \in Seq(Nat)
    BY DEF Init
  <2>2. /\ control \in Seq({"mark", "stop"}) /\ Len(control) <= ControlDepth
        /\ ctrlHand \in Seq({"mark", "stop"}) /\ Len(ctrlHand) <= 1
        /\ controlIn \in Seq({"mark", "stop"}) /\ Len(controlIn) <= ControlDepth
    BY DEF Init
  <2>3. pc \in Range(Stages) /\ arrived \in 0..MaxChunks /\ echoes \in 0..MaxMarks
    BY StageNames DEF Init
  <2> QED
    BY <2>1, <2>2, <2>3 DEF Init, TypeOK
<1>2. TypeOK /\ [Next]_vars => TypeOK'
  <2> SUFFICES ASSUME TypeOK, [Next]_vars PROVE TypeOK'
    OBVIOUS
  <2>1. CASE ReadLoop
    <3>1. CASE SendMedia
      <4>1. arrived' \in 0..MaxChunks /\ arrived + 1 \in Nat
        BY <3>1 DEF SendMedia, TypeOK
      <4>2. data' \in Seq(Nat) /\ Len(data') <= DataDepth
        BY <3>1, <4>1, AppendProperties DEF SendMedia, TypeOK
      <4> QED
        BY <3>1, <4>1, <4>2
           DEF SendMedia, TypeOK, pumpVars, tapVars, sessVars, ctxVars
    <3>2. CASE SendFindsFull
      <4>1. arrived' \in 0..MaxChunks /\ pc' \in Range(Stages)
        BY <3>2, StageNames DEF SendFindsFull, TypeOK
      <4> QED
        BY <3>2, <4>1 DEF SendFindsFull, TypeOK, pumpVars, tapVars, sessVars, ctxVars
    <3>3. ASSUME NEW ev \in {"mark", "stop"}, SendControl(ev)
          PROVE  /\ control' \in Seq({"mark", "stop"}) /\ Len(control') <= ControlDepth
                 /\ overflowed' \in BOOLEAN
      <4>1. CASE Len(control) < ControlDepth
        <5>1. control' = Append(control, ev) /\ overflowed' = overflowed
          BY <3>3, <4>1 DEF SendControl
        <5>2. control' \in Seq({"mark", "stop"}) /\ Len(control') = Len(control) + 1
          BY <5>1, AppendProperties DEF TypeOK
        <5> QED
          BY <4>1, <5>1, <5>2, LenProperties DEF TypeOK
      <4>2. CASE ~(Len(control) < ControlDepth)
        BY <3>3, <4>2 DEF SendControl, TypeOK
      <4> QED
        BY <4>1, <4>2
    <3>4. CASE ReadMark
      <4>1. echoes' \in 0..MaxMarks
        BY <3>4 DEF ReadMark, TypeOK
      <4> QED
        BY <3>3, <3>4, <4>1 DEF ReadMark, TypeOK, pumpVars, tapVars, sessVars, ctxVars
    <3>5. CASE ReadStop
      BY <3>3, <3>5, StageNames DEF ReadStop, TypeOK, pumpVars, tapVars, sessVars, ctxVars
    <3>6. CASE ReadError
      BY <3>6, StageNames DEF ReadError, TypeOK, readVars, pumpVars, tapVars, sessVars, ctxVars
    <3> QED
      BY <2>1, <3>1, <3>2, <3>4, <3>5, <3>6 DEF ReadLoop
  <2>2. CASE Teardown
    <3>1. CASE EvictOldest
      <4> DEFINE rest == IF data = << >> THEN << >> ELSE Tail(data)
      <4>1. arrived \in Nat /\ rest \in Seq(Nat) /\ Len(rest) < DataDepth
        <5>1. CASE data = << >>
          BY <5>1 DEF TypeOK
        <5>2. CASE data # << >>
          BY <5>2, HeadTailProperties DEF TypeOK
        <5> QED
          BY <5>1, <5>2
      <4>2. data' \in Seq(Nat) /\ Len(data') <= DataDepth
        <5>1. data' = Append(rest, arrived)
          BY <3>1 DEF EvictOldest
        <5> HIDE DEF rest
        <5> QED
          BY <4>1, <5>1, AppendProperties, LenProperties
      <4>3. evicted' \subseteq Nat
        BY <3>1, HeadTailProperties DEF EvictOldest, TypeOK
      <4> QED
        BY <3>1, <4>2, <4>3, StageNames
           DEF EvictOldest, TypeOK, pumpVars, tapVars, sessVars, ctxVars
    <3> USE StageNames DEF TypeOK, readVars, pumpVars, tapVars, sessVars, ctxVars
    <3>2. CASE WaitForClosed
      BY <3>2 DEF WaitForClosed
    <3>7. CASE JoinPumps
      BY <3>7 DEF JoinPumps
    <3>8. CASE SessionExited
      BY <3>8 DEF SessionExited
    <3>3. CASE CloseData
      BY <3>3 DEF CloseData
    <3>4. CASE CancelControl
      BY <3>4 DEF CancelControl
    <3>5. CASE CloseTap
      BY <3>5 DEF CloseTap
    <3>6. CASE CloseSession
      BY <3>6 DEF CloseSession
    <3> QED
      BY <2>2, <3>1, <3>2, <3>3, <3>4, <3>5, <3>6, <3>7, <3>8
         DEF Teardown
  <2>3. CASE DataPump
    <3> USE DEF dataPumpOthers, readVars, tapVars, sessVars, ctxVars
    <3>1. CASE DataRecv
      BY <3>1, HandType DEF DataRecv, TypeOK
    <3>2. CASE DataDrained
      BY <3>2 DEF DataDrained, TypeOK
    <3>5. CASE DataAbort
      BY <3>5, EmptySeq DEF DataAbort, TypeOK
    <3>3. CASE TapWriteIn
      BY <3>3, ConcatProperties DEF TapWriteIn, TypeOK
    <3>4. CASE DataSend
      BY <3>4, HandType, EmptySeq DEF DataSend, TypeOK
    <3> QED
      BY <2>3, <3>1, <3>2, <3>3, <3>4, <3>5 DEF DataPump
  <2>4. CASE ControlPump
    <3> USE DEF ctrlPumpOthers, readVars, tapVars, sessVars, ctxVars
    <3>1. CASE ControlRecv
      BY <3>1, HandType DEF ControlRecv, TypeOK
    <3>2. CASE ControlSend
      BY <3>2, HandType, EmptySeq DEF ControlSend, TypeOK
    <3>3. CASE ControlAbort
      BY <3>3, EmptySeq DEF ControlAbort, TypeOK
    <3> QED
      BY <2>4, <3>1, <3>2, <3>3 DEF ControlPump
  <2>5. CASE Sequencer \/ Terminate \/ CancelContext
    <3> USE DEF sequencerOthers, readVars, pumpVars, tapVars, sessVars, ctxVars
    <3>1. CASE TakeData
      <4>1. heard' \in Seq(Nat) /\ dataIn' \in Seq(Nat) /\ Len(dataIn') <= InDepth
        BY <3>1, HeadTailProperties, AppendProperties DEF TakeData, TypeOK
      <4> QED
        BY <3>1, <4>1 DEF TakeData, TypeOK
    <3>2. CASE TakeControl
      <4>1. controlIn' \in Seq({"mark", "stop"}) /\ Len(controlIn') <= ControlDepth
        BY <3>2, HeadTailProperties DEF TakeControl, TypeOK
      <4>2. closedCh' \in BOOLEAN
        BY <3>2, Zenon DEF TakeControl, TypeOK
      <4> QED
        BY <3>2, <4>1, <4>2 DEF TakeControl, TypeOK
    <3>3. CASE SequencerExit
      BY <3>3 DEF SequencerExit, TypeOK
    <3>4. CASE Terminate
      BY <3>4 DEF Terminate, TypeOK
    <3>5. CASE CancelContext
      BY <3>5 DEF CancelContext, TypeOK
    <3> QED
      BY <2>5, <3>1, <3>2, <3>3, <3>4, <3>5 DEF Sequencer
  <2>6. CASE UNCHANGED vars
    BY <2>6 DEF vars, TypeOK, readVars, pumpVars, tapVars, sessVars, ctxVars
  <2> QED
    BY <2>1, <2>2, <2>3, <2>4, <2>5, <2>6 DEF Next
<1> QED
  BY <1>1, <1>2, PTL DEF Spec

----------------------------------------------------------------------------
(* Audio keeps its order. *)

\* The frame just read: still in Send's hand while it evicts.
Fresh == IF pc = "evicting" THEN <<arrived>> ELSE <<arrived + 1>>

\* Every part of the stream is increasing, and before the parts behind it; the
\* next frame to enter the plane is behind them all.  Only a pump that has
\* received and not yet sent holds a frame.
OrderInv ==
    /\ Inc(heard) /\ Inc(dataIn) /\ Inc(dataHand) /\ Inc(data)
    /\ Before(heard, dataIn) /\ Before(heard, dataHand) /\ Before(heard, data)
    /\ Before(dataIn, dataHand) /\ Before(dataIn, data)
    /\ Before(dataHand, data)
    /\ Before(heard, Fresh) /\ Before(dataIn, Fresh) /\ Before(dataHand, Fresh)
    /\ Before(data, Fresh)
    /\ dataPump \in {"recv", "exited"} => dataHand = << >>

\* Sequences of no element and of one.
LEMMA ShortSequences ==
    /\ Inc(<< >>)
    /\ \A s : Before(<< >>, s) /\ Before(s, << >>)
    /\ \A n \in Nat : Inc(<<n>>)
    /\ \A m, n \in Nat : Before(<<m>>, <<n>>) <=> m < n
  BY EmptySeq DEF Inc, Before

\* What is before a frame is before the next one.
LEMMA BeforeLater ==
    ASSUME NEW s \in Seq(Nat), NEW m \in Nat, NEW n \in Nat, m <= n, Before(s, <<m>>)
    PROVE  Before(s, <<n>>)
<1>1. \A i \in 1..Len(s) : s[i] \in Nat /\ s[i] < m
  BY ElementOfSeq DEF Before
<1> QED
  BY <1>1 DEF Before

\* Dropping the oldest frame keeps the order of the rest.
LEMMA TailOrder ==
    ASSUME NEW s \in Seq(Nat), s # << >>
    PROVE  /\ Inc(s) => Inc(Tail(s)) /\ Before(<<Head(s)>>, Tail(s))
           /\ \A u \in Seq(Nat) : Before(u, s) => Before(u, <<Head(s)>>) /\ Before(u, Tail(s))
           /\ \A u \in Seq(Nat) : Before(s, u) => Before(<<Head(s)>>, u) /\ Before(Tail(s), u)
<1> DEFINE h == <<Head(s)>>
           t == Tail(s)
<1>1. s = h \o t /\ h \in Seq(Nat) /\ t \in Seq(Nat)
  BY HeadThenTail
<1> HIDE DEF h, t
<1>2. Inc(s) => Inc(t) /\ Before(h, t)
  BY <1>1, IncConcat
<1>3. ASSUME NEW u \in Seq(Nat)
      PROVE  /\ Before(u, s) => Before(u, h) /\ Before(u, t)
             /\ Before(s, u) => Before(h, u) /\ Before(t, u)
  BY <1>1, BeforeConcat
<1> QED
  BY <1>2, <1>3 DEF h, t

\* The fresh frame enters the plane behind `rest`, what the plane kept.
LEMMA EnterPlane ==
    ASSUME TypeOK, OrderInv, NEW rest \in Seq(Nat), NEW m \in Nat,
           Fresh = <<m>>, Fresh' = <<m + 1>>, data' = Append(rest, m),
           Inc(rest), Before(heard, rest), Before(dataIn, rest), Before(dataHand, rest),
           Before(rest, Fresh),
           UNCHANGED <<heard, dataIn, dataHand, dataPump>>
    PROVE  OrderInv'
<1>1. data' = rest \o <<m>> /\ <<m>> \in Seq(Nat)
  BY AppendIsConcat
<1>2. heard \in Seq(Nat) /\ dataIn \in Seq(Nat) /\ dataHand \in Seq(Nat)
  BY DEF TypeOK
<1> DEFINE one == <<m>>
           two == <<m + 1>>
<1>f. /\ Before(heard, one) /\ Before(dataIn, one) /\ Before(dataHand, one)
      /\ Before(rest, one)
  BY DEF OrderInv
<1>3. Inc(data')
  BY <1>1, IncConcat, ShortSequences
<1>4. Before(heard, data') /\ Before(dataIn, data') /\ Before(dataHand, data')
  <2>1. data' = rest \o one /\ one \in Seq(Nat)
    BY <1>1
  <2> HIDE DEF one
  <2>2. /\ Before(heard, rest \o one) /\ Before(dataIn, rest \o one)
        /\ Before(dataHand, rest \o one)
    BY <1>2, <1>f, <2>1, BeforeConcat
  <2> QED
    BY <2>1, <2>2
<1>5. Before(heard, <<m + 1>>) /\ Before(dataIn, <<m + 1>>) /\ Before(dataHand, <<m + 1>>)
      /\ Before(rest, <<m + 1>>)
  BY <1>2, BeforeLater DEF OrderInv
<1>6. Before(data', <<m + 1>>)
  <2>1. Before(one, two) /\ one \in Seq(Nat) /\ two \in Seq(Nat) /\ data' = rest \o one
    BY <1>1, ShortSequences
  <2>2. Before(rest, two)
    BY <1>5
  <2> HIDE DEF one, two
  <2>3. Before(rest \o one, two)
    BY <2>1, <2>2, BeforeConcat
  <2> QED
    BY <2>1, <2>3 DEF two
<1> QED
  BY <1>3, <1>4, <1>5, <1>6 DEF OrderInv

\* A step that touches neither the stream nor the frame being read.
LEMMA OrderKept ==
    ASSUME OrderInv, UNCHANGED <<heard, dataIn, dataHand, data, Fresh>>,
           dataPump' \in {"recv", "exited"} => dataHand' = << >>
    PROVE  OrderInv'
  BY DEF OrderInv

\* OrderInv is inductive.
LEMMA OrderInvInductive == Spec => []OrderInv
<1>1. Init => OrderInv
  BY ShortSequences DEF Init, OrderInv
<1>2. TypeOK /\ OrderInv /\ [Next]_vars => OrderInv'
  <2> SUFFICES ASSUME TypeOK, OrderInv, [Next]_vars PROVE OrderInv'
    OBVIOUS
  <2>0. /\ heard \in Seq(Nat) /\ dataIn \in Seq(Nat) /\ dataHand \in Seq(Nat)
        /\ data \in Seq(Nat) /\ arrived \in Nat
        /\ Fresh \in Seq(Nat)
    BY DEF TypeOK, Fresh
  <2>r. dataPump \in {"recv", "exited"} => dataHand = << >>
    BY DEF OrderInv
  <2>1. CASE ReadLoop
    <3>1. CASE SendMedia
      <4>1. /\ Fresh = <<arrived + 1>> /\ Fresh' = <<arrived + 1 + 1>>
            /\ data' = Append(data, arrived + 1)
            /\ UNCHANGED <<heard, dataIn, dataHand, dataPump>>
        BY <3>1 DEF SendMedia, Reads, Fresh, pumpVars, sessVars
      <4> QED
        <5>1. arrived + 1 \in Nat /\ Inc(data) /\ Before(heard, data) /\ Before(dataIn, data)
              /\ Before(dataHand, data) /\ Before(data, Fresh)
          BY <2>0 DEF OrderInv
        <5> QED
          BY <2>0, <4>1, <5>1, EnterPlane
    <3>2. CASE SendFindsFull
      BY <2>r, <3>2, OrderKept DEF SendFindsFull, Reads, Fresh, pumpVars, sessVars
    <3>3. CASE ReadMark \/ ReadStop \/ ReadError
      BY <2>r, <3>3, OrderKept
         DEF ReadMark, ReadStop, ReadError, Reads, Fresh, readVars, pumpVars, sessVars
    <3> QED
      BY <2>1, <3>1, <3>2, <3>3 DEF ReadLoop
  <2>2. CASE Teardown
    <3>1. CASE EvictOldest
      <4> DEFINE rest == IF data = << >> THEN << >> ELSE Tail(data)
      <4>1. /\ Fresh = <<arrived>> /\ Fresh' = <<arrived + 1>>
            /\ data' = Append(rest, arrived)
            /\ UNCHANGED <<heard, dataIn, dataHand, dataPump>>
        BY <3>1 DEF EvictOldest, Fresh, pumpVars, sessVars
      <4>2. /\ rest \in Seq(Nat) /\ Inc(rest) /\ Before(heard, rest) /\ Before(dataIn, rest)
            /\ Before(dataHand, rest) /\ Before(rest, Fresh)
        <5>1. CASE data = << >>
          BY <2>0, <5>1 DEF OrderInv
        <5>2. CASE data # << >>
          BY <2>0, <5>2, TailOrder, HeadThenTail DEF OrderInv
        <5> QED
          BY <5>1, <5>2
      <4> HIDE DEF rest
      <4> QED
        BY <2>0, <4>1, <4>2, EnterPlane
    <3>2. CASE \/ WaitForClosed \/ CloseData \/ CancelControl \/ JoinPumps
               \/ CloseTap \/ CloseSession \/ SessionExited
      BY <2>r, <3>2, OrderKept
         DEF WaitForClosed, CloseData, CancelControl, JoinPumps, CloseTap, CloseSession,
             SessionExited, Fresh, readVars, pumpVars, sessVars
    <3> QED
      BY <2>2, <3>1, <3>2 DEF Teardown
  <2>3. CASE DataPump
    <3>0. UNCHANGED Fresh /\ UNCHANGED heard
      BY <2>3 DEF DataPump, DataRecv, DataDrained, TapWriteIn, DataSend, DataAbort,
                  dataPumpOthers, Fresh, readVars, sessVars
    <3>1. CASE DataRecv
      <4> DEFINE h == <<Head(data)>>
                 t == Tail(data)
      <4>1. data # << >> /\ dataHand' = h /\ data' = t /\ dataPump' = "tap"
            /\ UNCHANGED dataIn
        BY <3>1 DEF DataRecv
      <4>2. h \in Seq(Nat) /\ t \in Seq(Nat) /\ Inc(h)
        BY <2>0, <4>1, HeadThenTail, HeadTailProperties, ShortSequences
      <4>3. /\ Inc(t) /\ Before(h, t)
            /\ Before(heard, h) /\ Before(heard, t) /\ Before(dataIn, h) /\ Before(dataIn, t)
            /\ Before(h, Fresh) /\ Before(t, Fresh)
        BY <2>0, <4>1, TailOrder DEF OrderInv
      <4> HIDE DEF h, t
      <4> QED
        BY <3>0, <4>1, <4>2, <4>3 DEF OrderInv
    <3>2. CASE DataDrained
      BY <2>r, <3>0, <3>2, OrderKept DEF DataDrained
    <3>3. CASE TapWriteIn
      BY <3>0, <3>3, OrderKept DEF TapWriteIn
    <3>4. CASE DataSend
      <4>1. dataIn' = dataIn \o dataHand /\ dataHand' = << >> /\ UNCHANGED data
        BY <3>4 DEF DataSend
      <4>2. Inc(dataIn') /\ Before(heard, dataIn') /\ Before(dataIn', data)
            /\ Before(dataIn', Fresh)
        BY <2>0, <4>1, IncConcat, BeforeConcat DEF OrderInv
      <4> QED
        BY <3>0, <4>1, <4>2, ShortSequences DEF OrderInv
    <3>5. CASE DataAbort
      BY <3>0, <3>5, ShortSequences DEF DataAbort, OrderInv
    <3> QED
      BY <2>3, <3>1, <3>2, <3>3, <3>4, <3>5 DEF DataPump
  <2>4. CASE ControlPump
    BY <2>r, <2>4, OrderKept
       DEF ControlPump, ControlRecv, ControlSend, ControlAbort, ctrlPumpOthers, Fresh,
           readVars, sessVars
  <2>5. CASE Sequencer \/ Terminate \/ CancelContext
    <3>1. CASE TakeData
      <4> DEFINE h == <<Head(dataIn)>>
                 t == Tail(dataIn)
      <4>1. /\ dataIn # << >> /\ heard' = Append(heard, Head(dataIn)) /\ dataIn' = t
            /\ UNCHANGED <<dataHand, data, dataPump, Fresh>>
        BY <3>1 DEF TakeData, sequencerOthers, pumpVars, readVars, Fresh
      <4>2. h \in Seq(Nat) /\ t \in Seq(Nat) /\ Inc(h) /\ heard' = heard \o h
        BY <2>0, <4>1, HeadThenTail, HeadTailProperties, ShortSequences, AppendIsConcat
      <4>3. /\ Inc(t) /\ Before(h, t) /\ Before(heard, h) /\ Before(heard, t)
            /\ Before(h, dataHand) /\ Before(t, dataHand) /\ Before(h, data) /\ Before(t, data)
            /\ Before(h, Fresh) /\ Before(t, Fresh)
        BY <2>0, <4>1, TailOrder DEF OrderInv
      <4> HIDE DEF h, t
      <4>4. /\ Inc(heard') /\ Before(heard', t) /\ Before(heard', dataHand)
            /\ Before(heard', data) /\ Before(heard', Fresh)
        BY <2>0, <4>2, <4>3, IncConcat, BeforeConcat DEF OrderInv
      <4> QED
        BY <4>1, <4>3, <4>4 DEF OrderInv
    <3>2. CASE TakeControl \/ SequencerExit \/ Terminate \/ CancelContext
      BY <2>r, <3>2, OrderKept
         DEF TakeControl, SequencerExit, Terminate, CancelContext, sequencerOthers, Fresh,
             readVars, pumpVars, sessVars
    <3> QED
      BY <2>5, <3>1, <3>2 DEF Sequencer
  <2>6. CASE UNCHANGED vars
    BY <2>r, <2>6, OrderKept DEF vars, Fresh, readVars, pumpVars, sessVars
  <2> QED
    BY <2>1, <2>2, <2>3, <2>4, <2>5, <2>6 DEF Next
<1> QED
  BY <1>1, <1>2, TypeCorrect, PTL DEF Spec

(***************************************************************************)
(* Audio keeps its order end to end, for every depth: from the sequencer   *)
(* back to the plane, chunk numbers strictly increase, none twice, though  *)
(* eviction and the pump race for the oldest frame.                        *)
(***************************************************************************)
THEOREM AudioIsInOrder == Spec => []AudioInOrder
<1>1. TypeOK /\ OrderInv => AudioInOrder
  <2> SUFFICES ASSUME TypeOK, OrderInv PROVE AudioInOrder
    OBVIOUS
  <2> DEFINE a == heard \o dataIn
             b == a \o dataHand
             c == b \o data
  <2>0. /\ heard \in Seq(Nat) /\ dataIn \in Seq(Nat) /\ dataHand \in Seq(Nat)
        /\ data \in Seq(Nat)
    BY DEF TypeOK
  <2>1. a \in Seq(Nat) /\ Inc(a) /\ Before(a, dataHand) /\ Before(a, data)
    BY <2>0, ConcatElements, IncConcat, BeforeConcat DEF OrderInv
  <2> HIDE DEF a
  <2>2. b \in Seq(Nat) /\ Inc(b) /\ Before(b, data)
    BY <2>0, <2>1, ConcatElements, IncConcat, BeforeConcat DEF OrderInv
  <2> HIDE DEF b
  <2>3. c \in Seq(Nat) /\ Inc(c)
    BY <2>0, <2>2, ConcatElements, IncConcat DEF OrderInv
  <2> HIDE DEF c
  <2>4. \A i \in 1..Len(c) - 1 : c[i] < c[i + 1]
    BY <2>3, LenProperties DEF Inc
  <2> QED
    BY <2>4 DEF AudioInOrder, a, b, c
<1> QED
  BY <1>1, TypeCorrect, OrderInvInductive, PTL

----------------------------------------------------------------------------
(* The teardown barrier. *)

\* Where handleStream is when something has been closed, and what it has
\* waited for by then.
StageInv ==
    /\ pc = "evicting" => arrived > 0
    /\ dataClosed => pc \in {"cancelControl", "join", "closeTap", "closeSession",
                             "sessionExit", "done"}
    /\ pc \in {"closeTap", "closeSession", "sessionExit", "done"} =>
          dataPump = "exited" /\ ctrlPump = "exited"
    /\ tapClosed => pc \in {"closeSession", "sessionExit", "done"}
    /\ sessDone => pc \in {"sessionExit", "done"}

\* StageInv is inductive.
LEMMA StageInvInductive == Spec => []StageInv
<1>1. Init => StageInv
  BY DEF Init, StageInv
<1>2. TypeOK /\ StageInv /\ [Next]_vars => StageInv'
  <2> SUFFICES ASSUME TypeOK, StageInv, [Next]_vars PROVE StageInv'
    OBVIOUS
  <2> USE DEF StageInv
  <2>1. CASE ReadLoop
    <3>1. CASE SendFindsFull
      BY <3>1 DEF SendFindsFull, Reads, TypeOK, pumpVars, tapVars, ctxVars
    <3>2. CASE SendMedia \/ ReadMark \/ ReadStop \/ ReadError
      BY <3>2 DEF SendMedia, ReadMark, ReadStop, ReadError, Reads, readVars, pumpVars,
                  tapVars, ctxVars
    <3> QED
      BY <2>1, <3>1, <3>2 DEF ReadLoop
  <2>2. CASE Teardown
    BY <2>2 DEF Teardown, EvictOldest, WaitForClosed, CloseData, CancelControl, JoinPumps,
                CloseTap, CloseSession, SessionExited, readVars, pumpVars, tapVars, ctxVars
  <2>3. CASE DataPump
    BY <2>3 DEF DataPump, DataRecv, DataDrained, TapWriteIn, DataSend, DataAbort,
                dataPumpOthers, readVars, tapVars, ctxVars
  <2>4. CASE ControlPump
    BY <2>4 DEF ControlPump, ControlRecv, ControlSend, ControlAbort, ctrlPumpOthers,
                readVars, tapVars, ctxVars
  <2>5. CASE Sequencer \/ Terminate \/ CancelContext
    BY <2>5 DEF Sequencer, TakeData, TakeControl, SequencerExit, Terminate, CancelContext,
                sequencerOthers, readVars, pumpVars, tapVars, ctxVars
  <2>6. CASE UNCHANGED vars
    BY <2>6 DEF vars, readVars, pumpVars, tapVars, ctxVars
  <2> QED
    BY <2>1, <2>2, <2>3, <2>4, <2>5, <2>6 DEF Next
<1> QED
  BY <1>1, <1>2, TypeCorrect, PTL DEF Spec

\* The frames that Send has disposed of.
Entered == IF pc = "evicting" THEN 1..arrived - 1 ELSE 1..arrived

\* Where they can be: recorded, evicted, in the plane, or in the pump's hand
\* on their way to the tap.
Somewhere == Range(tapIn) \cup evicted \cup Range(data)
             \cup (IF dataPump = "tap" THEN Range(dataHand) ELSE {})

\* What the session was given, and the recorded frame it is still to be given.
Given == IF dataPump = "send" THEN (heard \o dataIn) \o dataHand ELSE heard \o dataIn

\* Unless the context was cancelled, the pump ends only on a closed and empty
\* plane, and no frame is lost on the way.
DrainInv == ~ctxDone =>
    /\ dataPump = "exited" => data = << >> /\ dataClosed
    /\ Entered = Somewhere
    /\ tapIn = Given

\* What a concatenation, a frame and a plane without its oldest frame hold.
LEMMA RangeFacts ==
    /\ Range(<< >>) = {}
    /\ \A n \in Nat : Range(<<n>>) = {n}
    /\ \A s, t \in Seq(Nat) : Range(s \o t) = Range(s) \cup Range(t)
    /\ \A s \in Seq(Nat), n \in Nat : Range(Append(s, n)) = Range(s) \cup {n}
    /\ \A s \in Seq(Nat) : s # << >> => Range(s) = {Head(s)} \cup Range(Tail(s))
<1>1. Range(<< >>) = {} /\ \A n \in Nat : Range(<<n>>) = {n}
  BY DEF Range
<1>2. \A s, t \in Seq(Nat) : Range(s \o t) = Range(s) \cup Range(t)
  BY RangeConcatenation
<1>3. ASSUME NEW s \in Seq(Nat), s # << >> PROVE Range(s) = {Head(s)} \cup Range(Tail(s))
  <2> DEFINE h == <<Head(s)>>
             t == Tail(s)
  <2>1. s = h \o t /\ h \in Seq(Nat) /\ t \in Seq(Nat) /\ Range(h) = {Head(s)}
    BY <1>1, <1>3, HeadThenTail, HeadTailProperties
  <2> HIDE DEF h, t
  <2>2. Range(h \o t) = Range(h) \cup Range(t)
    BY <1>2, <2>1
  <2> QED
    BY <2>1, <2>2 DEF t
<1>4. ASSUME NEW s \in Seq(Nat), NEW n \in Nat
      PROVE  Range(Append(s, n)) = Range(s) \cup {n}
  <2> DEFINE h == <<n>>
  <2>1. Append(s, n) = s \o h /\ h \in Seq(Nat) /\ Range(h) = {n}
    BY <1>1, AppendIsConcat
  <2> HIDE DEF h
  <2>2. Range(s \o h) = Range(s) \cup Range(h)
    BY <1>2, <2>1
  <2> QED
    BY <2>1, <2>2
<1> QED
  BY <1>1, <1>2, <1>3, <1>4

\* Concatenation is associative.
LEMMA Associative ==
    \A s, t, u \in Seq(Nat) : (s \o t) \o u = s \o (t \o u)
  BY ConcatAssociative

\* A step of someone else.
LEMMA DrainKept ==
    ASSUME DrainInv, UNCHANGED <<data, evicted, tapIn, dataPump, dataHand, heard, dataIn, Entered>>,
           ctxDone => ctxDone', dataClosed => dataClosed'
    PROVE  DrainInv'
  BY DEF DrainInv, Somewhere, Given

\* DrainInv is inductive.
LEMMA DrainInvInductive == Spec => []DrainInv
<1>1. Init => DrainInv
  <2>1. << >> \o << >> = << >> /\ 1..0 = {}
    BY ConcatEmptySeq, EmptySeq
  <2> QED
    BY <2>1, RangeFacts DEF Init, DrainInv, Entered, Somewhere, Given
<1>2. TypeOK /\ StageInv /\ DrainInv /\ [Next]_vars => DrainInv'
  <2> SUFFICES ASSUME TypeOK, StageInv, DrainInv, [Next]_vars, ~ctxDone'
               PROVE  DrainInv'
    BY DEF DrainInv
  <2>0. /\ heard \in Seq(Nat) /\ dataIn \in Seq(Nat) /\ dataHand \in Seq(Nat)
        /\ data \in Seq(Nat) /\ tapIn \in Seq(Nat) /\ arrived \in Nat
    BY DEF TypeOK
  <2>d. /\ ~ctxDone
        /\ dataPump = "exited" => data = << >> /\ dataClosed
        /\ Entered = Somewhere
        /\ tapIn = Given
    BY DEF DrainInv, Next, ReadLoop, Teardown, DataPump, ControlPump, Sequencer, SendMedia,
           SendFindsFull, ReadMark, ReadStop, ReadError, EvictOldest, WaitForClosed,
           CloseData, CancelControl, JoinPumps, CloseTap, CloseSession, SessionExited,
           DataRecv, DataDrained, TapWriteIn, DataSend, DataAbort, ControlRecv, ControlSend,
           ControlAbort, TakeData, TakeControl, SequencerExit, Terminate, CancelContext,
           dataPumpOthers, ctrlPumpOthers, sequencerOthers, ctxVars, vars
  <2>1. CASE ReadLoop
    <3>1. CASE SendMedia
      <4>1. /\ pc = "reading" /\ pc' = "reading" /\ arrived' = arrived + 1
            /\ data' = Append(data, arrived + 1)
            /\ UNCHANGED <<evicted, tapIn, dataPump, dataHand, heard, dataIn, dataClosed>>
        BY <3>1 DEF SendMedia, Reads, pumpVars, tapVars, sessVars
      <4>2. Range(data') = Range(data) \cup {arrived + 1}
        BY <2>0, <4>1, RangeFacts
      <4>3. Entered' = Entered \cup {arrived + 1}
        <5>1. 1..arrived + 1 = (1..arrived) \cup {arrived + 1}
          BY <2>0
        <5>2. Entered = 1..arrived /\ Entered' = 1..arrived + 1
          BY <4>1 DEF Entered
        <5> QED
          BY <5>1, <5>2
      <4>4. dataPump # "exited"
        BY <2>d, <4>1 DEF StageInv
      <4> QED
        BY <2>d, <4>1, <4>2, <4>3, <4>4 DEF DrainInv, Somewhere, Given
    <3>2. CASE SendFindsFull
      <4>1. UNCHANGED Entered
        BY <2>0, <3>2 DEF SendFindsFull, Reads, Entered
      <4> QED
        BY <3>2, <4>1, DrainKept DEF SendFindsFull, pumpVars, tapVars, sessVars, ctxVars
    <3>3. CASE ReadMark \/ ReadStop \/ ReadError
      BY <3>3, DrainKept
         DEF ReadMark, ReadStop, ReadError, Reads, Entered, readVars, pumpVars, tapVars,
             sessVars, ctxVars
    <3> QED
      BY <2>1, <3>1, <3>2, <3>3 DEF ReadLoop
  <2>2. CASE Teardown
    <3>1. CASE EvictOldest
      <4> DEFINE rest == IF data = << >> THEN << >> ELSE Tail(data)
      <4>1. /\ pc = "evicting" /\ pc' = "reading" /\ arrived > 0 /\ arrived' = arrived
            /\ data' = Append(rest, arrived)
            /\ evicted' = IF data = << >> THEN evicted ELSE evicted \cup {Head(data)}
            /\ UNCHANGED <<tapIn, dataPump, dataHand, heard, dataIn, dataClosed>>
        BY <3>1 DEF EvictOldest, StageInv, pumpVars, tapVars, sessVars
      <4>2. rest \in Seq(Nat) /\ evicted' \cup Range(rest) = evicted \cup Range(data)
        <5>1. CASE data = << >>
          BY <2>0, <4>1, <5>1
        <5>2. CASE data # << >>
          BY <2>0, <4>1, <5>2, HeadThenTail, RangeFacts
        <5> QED
          BY <5>1, <5>2
      <4> HIDE DEF rest
      <4>3. Range(data') = Range(rest) \cup {arrived}
        BY <2>0, <4>1, <4>2, RangeFacts
      <4>4. Entered' = Entered \cup {arrived}
        BY <2>0, <4>1 DEF Entered
      <4>5. dataPump # "exited"
        BY <2>d, <4>1 DEF StageInv
      <4>6. Entered' = Somewhere'
        BY <2>d, <4>1, <4>2, <4>3, <4>4 DEF Somewhere
      <4> QED
        BY <2>d, <4>1, <4>5, <4>6 DEF DrainInv, Given
    <3>2. CASE \/ WaitForClosed \/ CloseData \/ CancelControl \/ JoinPumps
               \/ CloseTap \/ CloseSession \/ SessionExited
      BY <3>2, DrainKept
         DEF WaitForClosed, CloseData, CancelControl, JoinPumps, CloseTap, CloseSession,
             SessionExited, Entered, readVars, pumpVars, tapVars, sessVars, ctxVars
    <3> QED
      BY <2>2, <3>1, <3>2 DEF Teardown
  <2>3. CASE DataPump
    <3>0. UNCHANGED <<Entered, evicted, heard, dataClosed>>
      BY <2>3 DEF DataPump, DataRecv, DataDrained, TapWriteIn, DataSend, DataAbort,
                  dataPumpOthers, Entered, readVars, sessVars
    <3>1. CASE DataRecv
      <4>1. /\ dataPump = "recv" /\ dataPump' = "tap" /\ data # << >>
            /\ dataHand' = <<Head(data)>> /\ data' = Tail(data) /\ UNCHANGED <<dataIn, tapIn>>
        BY <3>1 DEF DataRecv, tapVars
      <4>2. Range(data) = Range(dataHand') \cup Range(data')
        BY <2>0, <4>1, RangeFacts, HeadTailProperties
      <4> QED
        BY <2>d, <3>0, <4>1, <4>2 DEF DrainInv, Somewhere, Given
    <3>2. CASE DataDrained
      BY <2>d, <3>0, <3>2 DEF DataDrained, tapVars, DrainInv, Somewhere, Given
    <3>3. CASE TapWriteIn
      <4>1. /\ dataPump = "tap" /\ dataPump' = "send" /\ tapIn' = tapIn \o dataHand
            /\ UNCHANGED <<data, dataHand, dataIn>>
        BY <3>3 DEF TapWriteIn, StageInv
      <4>2. Range(tapIn') = Range(tapIn) \cup Range(dataHand)
        BY <2>0, <4>1, RangeFacts
      <4> QED
        BY <2>d, <3>0, <4>1, <4>2 DEF DrainInv, Somewhere, Given
    <3>4. CASE DataSend
      <4>1. /\ dataPump = "send" /\ dataPump' = "recv" /\ dataIn' = dataIn \o dataHand
            /\ UNCHANGED <<data, tapIn>>
        BY <3>4 DEF DataSend, tapVars
      <4>2. (heard \o dataIn) \o dataHand = heard \o dataIn'
        BY <2>0, <4>1, Associative, Zenon
      <4> QED
        BY <2>d, <3>0, <4>1, <4>2 DEF DrainInv, Somewhere, Given
    <3>5. CASE DataAbort
      BY <2>d, <3>5 DEF DataAbort
    <3> QED
      BY <2>3, <3>1, <3>2, <3>3, <3>4, <3>5 DEF DataPump
  <2>4. CASE ControlPump
    BY <2>4, DrainKept
       DEF ControlPump, ControlRecv, ControlSend, ControlAbort, ctrlPumpOthers, Entered,
           readVars, tapVars, sessVars, ctxVars
  <2>5. CASE Sequencer \/ Terminate \/ CancelContext
    <3>1. CASE TakeData
      <4> DEFINE h == <<Head(dataIn)>>
                 t == Tail(dataIn)
      <4>1. /\ dataIn # << >> /\ heard' = Append(heard, Head(dataIn)) /\ dataIn' = t
            /\ UNCHANGED <<dataHand, data, dataPump, tapIn, evicted, dataClosed, Entered>>
        BY <3>1 DEF TakeData, sequencerOthers, pumpVars, readVars, tapVars, Entered
      <4>2. dataIn = h \o t /\ h \in Seq(Nat) /\ t \in Seq(Nat) /\ heard' = heard \o h
        BY <2>0, <4>1, HeadThenTail, HeadTailProperties, AppendIsConcat
      <4> HIDE DEF h, t
      <4>3. heard' \o dataIn' = heard \o dataIn
        <5>1. (heard \o h) \o t = heard \o (h \o t)
          <6>1. heard \in Seq(Nat) /\ h \in Seq(Nat) /\ t \in Seq(Nat)
            BY <2>0, <4>2
          <6> QED
            BY ONLY <6>1, Associative, Zenon
        <5> QED
          BY <4>1, <4>2, <5>1, Zenon
      <4> QED
        BY <2>d, <4>1, <4>3 DEF DrainInv, Somewhere, Given
    <3>2. CASE TakeControl \/ SequencerExit \/ Terminate \/ CancelContext
      BY <3>2, DrainKept
         DEF TakeControl, SequencerExit, Terminate, CancelContext, sequencerOthers, Entered,
             readVars, pumpVars, tapVars, sessVars, ctxVars
    <3> QED
      BY <2>5, <3>1, <3>2 DEF Sequencer
  <2>6. CASE UNCHANGED vars
    BY <2>6, DrainKept DEF vars, Entered, readVars, pumpVars, tapVars, sessVars, ctxVars
  <2> QED
    BY <2>1, <2>2, <2>3, <2>4, <2>5, <2>6 DEF Next
<1> QED
  BY <1>1, <1>2, TypeCorrect, StageInvInductive, PTL DEF Spec

(***************************************************************************)
(* handleStream's deferred teardown is a barrier, for every depth: tap and *)
(* session close only behind both pumps, and on every exit but a cancelled *)
(* context every frame that was read is by then in the recording or was    *)
(* evicted, and the session was given exactly what was recorded.           *)
(***************************************************************************)
THEOREM ClosesBehindTheDrain == Spec => []CloseFollowsDrain
<1>1. StageInv /\ DrainInv => CloseFollowsDrain
  <2> SUFFICES ASSUME StageInv, DrainInv PROVE CloseFollowsDrain
    OBVIOUS
  <2>1. tapClosed => pc # "evicting" /\ dataPump = "exited"
    BY DEF StageInv
  <2>2. DrainedBeforeClose
    BY <2>1, RangeFacts DEF DrainInv, DrainedBeforeClose, Entered, Somewhere, Given
  <2>3. NoUseAfterClose
    BY DEF StageInv, NoUseAfterClose
  <2> QED
    BY <2>2, <2>3 DEF CloseFollowsDrain
<1> QED
  BY <1>1, StageInvInductive, DrainInvInductive, PTL

----------------------------------------------------------------------------
(* VADMachine. *)

(* Arithmetic of windower.push and windowsToCross. *)

\* A longer run of windows is at least as long in milliseconds or samples.
LEMMA MulMono ==
    ASSUME NEW a \in Int, NEW b \in Int, NEW w \in Nat, a <= b
    PROVE  a * w <= b * w
<1>1. (b - a) * w >= 0
  OBVIOUS
<1>2. (b - a) * w = b * w - a * w
  OBVIOUS
<1> QED
  BY <1>1, <1>2

\* Quotient and remainder.
LEMMA DivBounds ==
    ASSUME NEW a \in Nat, NEW w \in Nat \ {0}
    PROVE  /\ a \div w \in Nat
           /\ a % w \in 0..w-1
           /\ a = (a \div w) * w + (a % w)
  OBVIOUS

\* windowsToCross is the ceiling: a run of n windows is shorter than the
\* threshold exactly when n is less than the number of windows to cross it.
LEMMA Crossing ==
    ASSUME NEW n \in Int, NEW t \in Nat, NEW w \in Nat \ {0}
    PROVE  n * w < t <=> n < windowsToCross(t, w)
<1> DEFINE q == windowsToCross(t, w)
           s == t + w - 1
<1>1. s \in Nat
  OBVIOUS
<1>2. q \in Nat /\ q * w <= s /\ s < q * w + w
  <2>1. q = s \div w
    BY DEF windowsToCross
  <2>2. /\ s \div w \in Nat
        /\ s % w \in 0..w-1
        /\ s = (s \div w) * w + (s % w)
    BY <1>1, DivBounds
  <2> QED
    BY <1>1, <2>1, <2>2
<1>3. ASSUME n < q PROVE n * w < t
  <2>1. (n + 1) * w <= q * w
    BY <1>2, <1>3, MulMono
  <2>2. (n + 1) * w = n * w + w
    OBVIOUS
  <2> QED
    BY <1>2, <2>1, <2>2
<1>4. ASSUME ~(n < q) PROVE ~(n * w < t)
  <2>1. q * w <= n * w
    BY <1>2, <1>4, MulMono
  <2> QED
    BY <1>2, <2>1
<1> QED
  BY <1>3, <1>4

\* Thresholds in order cross in order, though perhaps in the same window, and
\* no threshold is crossed by no silence at all.
LEMMA CrossingOrder ==
    ASSUME NEW t \in Nat \ {0}, NEW u \in Nat, t <= u, NEW w \in Nat \ {0}
    PROVE  /\ windowsToCross(t, w) \in Nat \ {0}
           /\ windowsToCross(u, w) \in Nat
           /\ windowsToCross(t, w) <= windowsToCross(u, w)
<1> DEFINE p == windowsToCross(t, w)
           q == windowsToCross(u, w)
<1>1. p \in Nat /\ q \in Nat
  BY DivBounds DEF windowsToCross
<1>2. 0 < p
  BY Crossing
<1>3. ASSUME q < p PROVE FALSE
  <2>1. q * w < t
    BY <1>1, <1>3, Crossing
  <2>2. q * w < u
    BY <1>1, <2>1
  <2> QED
    BY <1>1, <2>2, Crossing
<1> QED
  BY <1>1, <1>2, <1>3

----------------------------------------------------------------------------
(* Type correctness, and the windower. *)

\* The windower and the machine keep their types; no whole window is kept back.
LEMMA VADTypeCorrect == VADSpec => []VADTypeOK
<1>1. VADInit => VADTypeOK
  <2> SUFFICES ASSUME VADInit PROVE VADTypeOK
    OBVIOUS
  <2>1. cfg \in [EndSilenceMS : Nat \ {0}, TurnEndSilenceMS : Nat \ {0}]
    BY VADConstants DEF VADInit
  <2>2. 0 \in 0..WindowSize - 1
    BY VADConstants
  <2> QED
    BY <2>1, <2>2 DEF VADInit, VADTypeOK
<1>2. VADTypeOK /\ [VADNext]_vadVars => VADTypeOK'
  <2> SUFFICES ASSUME VADTypeOK, [VADNext]_vadVars PROVE VADTypeOK'
    OBVIOUS
  <2>1. CASE push
    <3>1. buf + FrameSize \in Nat
      BY VADConstants DEF VADTypeOK
    <3>2. pending' \in Nat /\ buf' \in 0..WindowSize - 1
      BY <2>1, <3>1, VADConstants, DivBounds DEF push
    <3> QED
      BY <2>1, <3>2, VADConstants DEF push, VADTypeOK, machineVars
  <2>2. ASSUME NEW level \in Levels, Window(level)
        PROVE  /\ pending' \in Nat /\ streamWindow' \in Nat /\ spoken' \in BOOLEAN
               /\ quiet' \in Nat
               /\ UNCHANGED <<cfg, buf, fed>>
    BY <2>2 DEF Window, VADTypeOK, Levels
  <2>3. ASSUME NEW kind \in Boundaries \cup {"none", "VADSilence"}, Emit(kind)
        PROVE  /\ event' \in Boundaries \cup {"none", "VADSilence"}
               /\ last' \in Boundaries \cup {"none"}
               /\ reports' \in Nat
    BY <2>3 DEF Emit, VADTypeOK
  <2> USE DEF Levels, Boundaries
  <2>4. CASE onset
    BY <2>2, <2>3, <2>4 DEF onset, VADTypeOK
  <2>5. CASE ignoredWindow
    BY <2>2, <2>3, <2>5 DEF ignoredWindow, VADTypeOK, machineVars
  <2>6. CASE trailingSilence
    BY <2>2, <2>3, <2>6 DEF trailingSilence, VADTypeOK
  <2>7. CASE voiced
    BY <2>2, <2>3, <2>7 DEF voiced, VADTypeOK
  <2>8. CASE hysteresis
    BY <2>2, <2>3, <2>8 DEF hysteresis, VADTypeOK
  <2>9. CASE pause
    <3>1. PICK kind \in Boundaries \cup {"none", "VADSilence"} : Emit(kind)
      BY <2>9 DEF pause
    <3>2. /\ speaking' \in BOOLEAN /\ silenceCount' \in Nat /\ voicedCount' \in Nat
          /\ turnEndFired' \in BOOLEAN /\ windowIndex' \in Nat
      <4>1. /\ speaking' = FALSE \/ speaking' = speaking
            /\ voicedCount' = 0 \/ voicedCount' = voicedCount
        BY <2>9 DEF pause
      <4>2. turnEndFired' = turnEndFired /\ silenceCount' = silenceCount + 1
            /\ windowIndex' = windowIndex + 1
        BY <2>9 DEF pause
      <4>3. speaking' \in BOOLEAN /\ turnEndFired' \in BOOLEAN
        BY <4>1, <4>2, Zenon DEF VADTypeOK
      <4>4. silenceCount' \in Nat /\ voicedCount' \in Nat /\ windowIndex' \in Nat
        BY <4>1, <4>2 DEF VADTypeOK
      <4> QED
        BY <4>3, <4>4
    <3>3. Window("silence")
      BY <2>9 DEF pause
    <3> QED
      BY <2>2, <2>3, <3>1, <3>2, <3>3 DEF VADTypeOK
  <2>10. CASE UNCHANGED vadVars
    BY <2>10 DEF vadVars, machineVars, VADTypeOK
  <2> QED
    BY <2>1, <2>4, <2>5, <2>6, <2>7, <2>8, <2>9, <2>10 DEF VADNext
<1> QED
  BY <1>1, <1>2, PTL DEF VADSpec

\* A window moves one window's samples from the frame to the stream.
LEMMA WindowCounts ==
    ASSUME VADTypeOK, StreamWindowIsAudioPosition, NEW level, Window(level)
    PROVE  StreamWindowIsAudioPosition'
<1>1. streamWindow' + pending' = streamWindow + pending
  BY DEF Window, VADTypeOK
<1> QED
  BY <1>1 DEF StreamWindowIsAudioPosition, Window

\* Every sample received is in a window that was cut or in the remainder.
LEMMA AudioPosition == VADSpec => []StreamWindowIsAudioPosition
<1>1. VADInit => StreamWindowIsAudioPosition
  BY VADConstants DEF VADInit, StreamWindowIsAudioPosition
<1>2. VADTypeOK /\ StreamWindowIsAudioPosition /\ [VADNext]_vadVars => StreamWindowIsAudioPosition'
  <2> SUFFICES ASSUME VADTypeOK, StreamWindowIsAudioPosition, [VADNext]_vadVars
               PROVE  StreamWindowIsAudioPosition'
    OBVIOUS
  <2>1. CASE push
    <3> DEFINE b == buf + FrameSize
               q == b \div WindowSize
    <3>1. b \in Nat
      BY VADConstants DEF VADTypeOK
    <3>2. q \in Nat /\ b = q * WindowSize + (b % WindowSize)
      BY <3>1, VADConstants, DivBounds
    <3>3. (streamWindow + q) * WindowSize = streamWindow * WindowSize + q * WindowSize
      BY <3>2, VADConstants DEF VADTypeOK
    <3>4. fed = streamWindow * WindowSize + buf
      BY <2>1 DEF push, StreamWindowIsAudioPosition, VADTypeOK
    <3>5. fed' = streamWindow * WindowSize + b
      BY <2>1, <3>4, VADConstants DEF push, VADTypeOK
    <3>6. b % WindowSize \in Nat
      BY <3>1, VADConstants, DivBounds
    <3>7. fed' = (streamWindow + q) * WindowSize + (b % WindowSize)
      <4> HIDE DEF b, q
      <4> QED
        BY <3>1, <3>2, <3>3, <3>5, <3>6, VADConstants DEF VADTypeOK
    <3> QED
      BY <2>1, <3>7 DEF push, StreamWindowIsAudioPosition
  <2>2. CASE \E level \in Levels : Window(level)
    BY <2>2, WindowCounts
  <2>3. CASE UNCHANGED vadVars
    BY <2>3 DEF vadVars, StreamWindowIsAudioPosition
  <2> QED
    BY <2>1, <2>2, <2>3 DEF VADNext, onset, ignoredWindow, trailingSilence, voiced, hysteresis,
                            pause, Levels
<1> QED
  BY <1>1, <1>2, VADTypeCorrect, PTL DEF VADSpec

----------------------------------------------------------------------------
(* Both silence thresholds, counted in windows. *)

\* silenceCount is the silence since the last speech window, carried through
\* the end of the utterance; it has not reached the threshold it is next
\* compared with, except that the end of an utterance may already bring it to
\* the turn's.
CountInv ==
    /\ EndWindows \in Nat \ {0} /\ TurnEndWindows \in Nat /\ EndWindows <= TurnEndWindows
    /\ speaking => silenceCount = quiet /\ quiet < EndWindows /\ spoken
    /\ ~speaking /\ ~turnEndFired => /\ silenceCount = quiet
                                     /\ quiet <= TurnEndWindows
                                     /\ ~spoken => quiet < TurnEndWindows
    /\ event = "VADEndOfUtterance" => quiet = EndWindows
    /\ event = "VADTurnEnd" => /\ quiet >= TurnEndWindows
                               /\ quiet <= TurnEndWindows + 1
                               /\ ~spoken => quiet <= TurnEndWindows

\* CountInv is inductive.
LEMMA CountInvInductive == VADSpec => []CountInv
<1>1. VADInit => CountInv
  <2> SUFFICES ASSUME VADInit PROVE CountInv
    OBVIOUS
  <2>1. /\ cfg.EndSilenceMS \in Nat \ {0} /\ cfg.TurnEndSilenceMS \in Nat \ {0}
        /\ cfg.EndSilenceMS <= cfg.TurnEndSilenceMS
    BY VADConstants DEF VADInit, validateOrdering
  <2>2. EndWindows \in Nat \ {0} /\ TurnEndWindows \in Nat /\ EndWindows <= TurnEndWindows
    BY <2>1, VADConstants, CrossingOrder DEF EndWindows, TurnEndWindows
  <2> QED
    BY <2>2 DEF VADInit, CountInv
<1>2. VADTypeOK /\ CountInv /\ [VADNext]_vadVars => CountInv'
  <2> SUFFICES ASSUME VADTypeOK, CountInv, [VADNext]_vadVars PROVE CountInv'
    OBVIOUS
  <2>1. UNCHANGED <<EndWindows, TurnEndWindows>>
    BY DEF VADNext, push, onset, ignoredWindow, trailingSilence, voiced, hysteresis, pause,
           Window, vadVars, EndWindows, TurnEndWindows
  <2>w. /\ Window("speech") => quiet' = 0 /\ spoken' = TRUE
        /\ Window("silence") => quiet' = quiet + 1 /\ spoken' = spoken
        /\ Window("dead") => quiet' = quiet /\ spoken' = spoken
    BY DEF Window, VADTypeOK
  <2> USE DEF CountInv, VADTypeOK
  <2>2. CASE push
    BY <2>1, <2>2 DEF push, machineVars
  <2>3. CASE onset
    BY <2>1, <2>w, <2>3 DEF onset, Emit
  <2>4. CASE ignoredWindow
    BY <2>1, <2>w, <2>4 DEF ignoredWindow, Emit, machineVars
  <2>5. CASE trailingSilence
    <3>1. /\ ~speaking' /\ ~speaking /\ ~turnEndFired
          /\ silenceCount' = quiet' /\ quiet' = quiet + 1 /\ spoken' = spoken
      BY <2>w, <2>5 DEF trailingSilence
    <3>2. CASE silenceCount' >= TurnEndWindows
      <4>1. turnEndFired' /\ event' = "VADTurnEnd"
        BY <2>5, <3>2 DEF trailingSilence, Emit
      <4> QED
        BY <2>1, <3>1, <3>2, <4>1
    <3>3. CASE ~(silenceCount' >= TurnEndWindows)
      <4>1. ~turnEndFired' /\ event' = "none"
        BY <2>5, <3>3 DEF trailingSilence, Emit
      <4> QED
        BY <2>1, <3>1, <3>3, <4>1
    <3> QED
      BY <3>2, <3>3
  <2>6. CASE voiced
    BY <2>1, <2>w, <2>6 DEF voiced, Emit
  <2>7. CASE hysteresis
    BY <2>1, <2>w, <2>7 DEF hysteresis, Emit
  <2>8. CASE pause
    <3>1. /\ speaking /\ silenceCount' = quiet' /\ quiet' = quiet + 1 /\ spoken' = spoken
      BY <2>w, <2>8 DEF pause
    <3>2. CASE silenceCount' >= EndWindows
      <4>1. ~speaking' /\ event' = "VADEndOfUtterance"
        BY <2>8, <3>2 DEF pause, Emit
      <4> QED
        BY <2>1, <3>1, <3>2, <4>1
    <3>3. CASE ~(silenceCount' >= EndWindows)
      <4>1. speaking' /\ event' \in {"none", "VADSilence"}
        BY <2>8, <3>3 DEF pause, Emit
      <4> QED
        BY <2>1, <3>1, <3>3, <4>1
    <3> QED
      BY <3>2, <3>3
  <2>9. CASE UNCHANGED vadVars
    BY <2>1, <2>9 DEF vadVars, machineVars
  <2> QED
    BY <2>2, <2>3, <2>4, <2>5, <2>6, <2>7, <2>8, <2>9 DEF VADNext
<1> QED
  BY <1>1, <1>2, VADTypeCorrect, PTL DEF VADSpec

(***************************************************************************)
(* Boundaries come on time in the audio itself, whatever the sizes and     *)
(* thresholds: no sample is lost or counted twice at a frame boundary; an  *)
(* utterance ends at exactly the window that brings the silence to         *)
(* EndSilenceMS; a turn ends never before TurnEndSilenceMS and at most one *)
(* window late.                                                            *)
(***************************************************************************)
THEOREM BoundariesAreOnTime == VADSpec => []BoundariesOnTime
<1>1. VADTypeOK /\ CountInv => EndOfUtteranceOnTime /\ TurnEndOnTime
  <2> SUFFICES ASSUME VADTypeOK, CountInv PROVE EndOfUtteranceOnTime /\ TurnEndOnTime
    OBVIOUS
  <2> DEFINE E == cfg.EndSilenceMS
             T == cfg.TurnEndSilenceMS
  <2>1. E \in Nat /\ T \in Nat /\ quiet \in Nat /\ WindowMS \in Nat \ {0}
    BY VADConstants DEF VADTypeOK
  <2>2. \A n \in Int : /\ n * WindowMS < E <=> n < EndWindows
                       /\ n * WindowMS < T <=> n < TurnEndWindows
    BY <2>1, Crossing DEF EndWindows, TurnEndWindows
  <2>3. /\ EndWindows \in Nat /\ TurnEndWindows \in Nat
        /\ quiet \in Int /\ quiet - 1 \in Int /\ quiet - 2 \in Int
    BY <2>1 DEF CountInv
  <2>4. \A n \in Int : n * WindowMS \in Int
    BY <2>1
  <2>5. /\ quiet * WindowMS < E <=> quiet < EndWindows
        /\ (quiet - 1) * WindowMS < E <=> quiet - 1 < EndWindows
        /\ quiet * WindowMS < T <=> quiet < TurnEndWindows
        /\ (quiet - 1) * WindowMS < T <=> quiet - 1 < TurnEndWindows
        /\ (quiet - 2) * WindowMS < T <=> quiet - 2 < TurnEndWindows
    BY <2>2, <2>3
  <2>6. (quiet - 1) * WindowMS = quiet * WindowMS - WindowMS
    BY <2>1
  <2>7. quiet * WindowMS \in Int /\ (quiet - 1) * WindowMS \in Int
        /\ (quiet - 2) * WindowMS \in Int
    BY <2>3, <2>4
  <2>8. EndOfUtteranceOnTime
    BY <2>1, <2>3, <2>5, <2>7 DEF EndOfUtteranceOnTime, CountInv
  <2>9. TurnEndOnTime
    <3>1. ASSUME event = "VADTurnEnd"
          PROVE  /\ quiet * WindowMS >= T
                 /\ (quiet - 2) * WindowMS < T
                 /\ ~spoken => (quiet - 1) * WindowMS < T
      BY <2>1, <2>3, <2>5, <2>7, <3>1 DEF CountInv
    <3>2. ASSUME ~speaking, ~turnEndFired
          PROVE  quiet * WindowMS < T + WindowMS
      <4>1. quiet - 1 < TurnEndWindows
        BY <2>3, <3>2 DEF CountInv
      <4> QED
        BY <2>1, <2>5, <2>6, <2>7, <4>1
    <3> QED
      BY <3>1, <3>2 DEF TurnEndOnTime
  <2> QED
    BY <2>8, <2>9
<1> QED
  BY <1>1, VADTypeCorrect, CountInvInductive, AudioPosition, PTL DEF BoundariesOnTime

----------------------------------------------------------------------------
(* Refinement of VADSource. *)

\* The machine's two flags are the last boundary it emitted.
BoundaryInv ==
    /\ speaking <=> last = "VADSpeech"
    /\ turnEndFired <=> last = "VADTurnEnd"

(***************************************************************************)
(* The machine emits its boundaries in the order the session relies on:    *)
(* onsets and ends of utterance alternate, and a turn end comes only after *)
(* the end of its utterance and once per silence, or once before any       *)
(* speech.  That is why Session may take VADSource for its VAD.            *)
(***************************************************************************)
THEOREM RefinesSource == VADSpec => ImplementsSource
<1>1. VADInit => BoundaryInv /\ Source!Init
  BY DEF VADInit, BoundaryInv, Source!Init
<1>2. VADTypeOK /\ BoundaryInv /\ [VADNext]_vadVars => BoundaryInv' /\ [Source!Next]_(Source!vars)
  <2> SUFFICES ASSUME VADTypeOK, BoundaryInv, [VADNext]_vadVars
               PROVE  BoundaryInv' /\ [Source!Next]_(Source!vars)
    OBVIOUS
  <2> USE DEF BoundaryInv, VADTypeOK, Boundaries, Source!Next, Source!vars, Source!Report
  <2>1. CASE push
    BY <2>1 DEF push, machineVars
  <2>2. CASE onset
    BY <2>2 DEF onset, Emit, Source!SpeechStarts
  <2>3. CASE ignoredWindow
    BY <2>3 DEF ignoredWindow, Emit, machineVars
  <2>4. CASE trailingSilence
    BY <2>4 DEF trailingSilence, Emit, Source!SilenceEndsTurn
  <2>5. CASE voiced \/ hysteresis
    BY <2>5 DEF voiced, hysteresis, Emit
  <2>6. CASE pause
    BY <2>6 DEF pause, Emit, Source!UtteranceEnds
  <2>7. CASE UNCHANGED vadVars
    BY <2>7 DEF vadVars, machineVars
  <2> QED
    BY <2>1, <2>2, <2>3, <2>4, <2>5, <2>6, <2>7 DEF VADNext
<1> QED
  BY <1>1, <1>2, VADTypeCorrect, PTL DEF VADSpec, ImplementsSource, Source!Spec
============================================================================
