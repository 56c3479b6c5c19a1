------------------------- MODULE CallRoutingProofs -------------------------
(***************************************************************************)
(* TLAPS proofs about CallRouting: the registries, the cancels and the     *)
(* pipeline of results, for any number of calls, any assignment of session *)
(* ids to them and every depth of the channels.                            *)
(***************************************************************************)
EXTENDS CallRouting, SequenceTheorems, FiniteSetTheorems, TLAPS

\* The types of what the registries and their users hold.
RegistryTypes ==
    /\ life \in [Call -> {"new", "routed", "live", "closing", "ended"}]
    /\ routes \in [Sid -> Call \cup {None}]
    /\ sinks \in [Sid -> Call \cup {None}]
    /\ newest \in [Sid -> [route : Call \cup {None}, sink : Call \cup {None}]]

\* Whoever registered last under an id carries that id, and has registered.
\* Without this another id's call could end and take the entry with it.
NewestRegistered ==
    \A s \in Sid :
        /\ newest[s].route # None =>
              CallSid[newest[s].route] = s /\ life[newest[s].route] # "new"
        /\ newest[s].sink # None =>
              CallSid[newest[s].sink] = s /\ life[newest[s].sink] \notin {"new", "routed"}

RegistryInv == RegistryTypes /\ NewestRegistered /\ NewestCallIsReachable

\* What the four registration steps change.
registryVars == <<life, routes, sinks, newest>>

\* Steps of the service, of the router and of repliers leave the registries alone.
LEMMA RegistryStutter ==
    ASSUME RegistryInv, UNCHANGED registryVars PROVE RegistryInv'
  BY DEF RegistryInv, RegistryTypes, NewestRegistered, NewestCallIsReachable, registryVars

\* A new route replaces what was there and is its id's newest.
LEMMA RegisterKeeps ==
    ASSUME RegistryInv, NEW c \in Call, Register(c) PROVE RegistryInv'
<1> USE RoutingAssumption DEF RegistryInv, RegistryTypes
<1>0. CallSid[c] \in Sid /\ c # None /\ sinks' = sinks
  BY DEF Register, replyVars
<1>1. RegistryTypes'
  BY <1>0 DEF Register
<1>2. NewestRegistered'
  BY <1>0 DEF Register, NewestRegistered
<1>3. NewestCallIsReachable'
  BY <1>0 DEF Register, NewestRegistered, NewestCallIsReachable
<1> QED
  BY <1>1, <1>2, <1>3

\* So does a new sink.
LEMMA RegisterSinkKeeps ==
    ASSUME RegistryInv, NEW c \in Call, RegisterSink(c) PROVE RegistryInv'
<1> USE RoutingAssumption DEF RegistryInv, RegistryTypes
<1>0. CallSid[c] \in Sid /\ c # None
  OBVIOUS
<1>1. RegistryTypes'
  BY <1>0 DEF RegisterSink
<1>2. NewestRegistered'
  BY <1>0 DEF RegisterSink, NewestRegistered
<1>3. NewestCallIsReachable'
  BY <1>0 DEF RegisterSink, NewestRegistered, NewestCallIsReachable
<1> QED
  BY <1>1, <1>2, <1>3

\* A closing sink removes its own entry, never a newer one.
LEMMA CloseSinkKeeps ==
    ASSUME RegistryInv, NEW c \in Call, CloseSink(c) PROVE RegistryInv'
<1> USE RoutingAssumption DEF RegistryInv, RegistryTypes
<1>0. CallSid[c] \in Sid /\ c # None
  OBVIOUS
<1>1. RegistryTypes'
  BY <1>0 DEF CloseSink, Close, DeregisterSink
<1>2. NewestRegistered'
  BY <1>0 DEF CloseSink, NewestRegistered
<1>3. NewestCallIsReachable'
  BY <1>0 DEF CloseSink, Close, DeregisterSink, NewestRegistered, NewestCallIsReachable
<1> QED
  BY <1>1, <1>2, <1>3

\* A call that has ended removes its own route, never a newer one.
LEMMA DeregisterKeeps ==
    ASSUME RegistryInv, NEW c \in Call, Deregister(c) PROVE RegistryInv'
<1> USE RoutingAssumption DEF RegistryInv, RegistryTypes
<1>0. CallSid[c] \in Sid /\ c # None /\ sinks' = sinks
  BY DEF Deregister, replyVars
<1>1. RegistryTypes'
  BY <1>0 DEF Deregister
<1>2. NewestRegistered'
  BY <1>0 DEF Deregister, NewestRegistered
<1>3. NewestCallIsReachable'
  BY <1>0 DEF Deregister, NewestRegistered, NewestCallIsReachable
<1> QED
  BY <1>1, <1>2, <1>3

(***************************************************************************)
(* A session id leads to the call that registered it last until that call  *)
(* goes itself (sttrouter.go's Deregister and reply_router.go's Close      *)
(* remove only their own entry), for any number of calls sharing any ids.  *)
(***************************************************************************)
THEOREM NewestIsReachable == Spec => []NewestCallIsReachable
<1>1. Init => RegistryInv
  BY RoutingAssumption
     DEF Init, RegistryInv, RegistryTypes, NewestRegistered, NewestCallIsReachable
<1>2. RegistryInv /\ [Next]_vars => RegistryInv'
  <2> SUFFICES ASSUME RegistryInv, [Next]_vars PROVE RegistryInv'
    OBVIOUS
  <2>1. ASSUME NEW c \in Call,
               Register(c) \/ RegisterSink(c) \/ CloseSink(c) \/ Deregister(c)
        PROVE  RegistryInv'
    BY <2>1, RegisterKeeps, RegisterSinkKeeps, CloseSinkKeeps, DeregisterKeeps
  <2>2. ASSUME NEW c \in Call, Drain(c) PROVE RegistryInv'
    BY <2>2, RegistryStutter DEF Drain, callVars, replyVars, registryVars
  <2>3. ASSUME NEW c \in Call, NEW clip \in Clips, Ask(c, clip) PROVE RegistryInv'
    BY <2>3, RegistryStutter DEF Ask, replyVars, registryVars
  <2>4. ASSUME NEW c \in Call, NEW id \in Id, Cancel(c, id) PROVE RegistryInv'
    BY <2>4, RegistryStutter DEF Cancel, callVars, replyVars, registryVars
  <2>5. CASE Service
    BY <2>5, RegistryStutter
       DEF Service, DrainCancels, RecvRequest, TranscribeChunk, ChunkFails, Transcribe,
           SendResult, ServiceReturns, callVars, replyVars, registryVars
  <2>6. CASE Router
    BY <2>6, RegistryStutter
       DEF Router, RouteLookup, Deliver, RouterReturns, callVars, replyVars, registryVars
  <2>7. ASSUME NEW p \in Replier, ReplySend(p) \/ ReplyGivesUp(p) PROVE RegistryInv'
    BY <2>7, RegistryStutter DEF ReplySend, ReplyGivesUp, callVars, registryVars
  <2>8. ASSUME NEW p \in Replier, NEW s \in Sid, ReplyLookup(p, s) PROVE RegistryInv'
    BY <2>8, RegistryStutter DEF ReplyLookup, callVars, registryVars
  <2>9. CASE Stop \/ UNCHANGED vars
    BY <2>9, RegistryStutter DEF Stop, vars, callVars, replyVars, registryVars
  <2> QED
    BY <2>1, <2>2, <2>3, <2>4, <2>5, <2>6, <2>7, <2>8, <2>9 DEF Next
<1>3. RegistryInv => NewestCallIsReachable
  BY DEF RegistryInv
<1> QED
  BY <1>1, <1>2, <1>3, PTL DEF Spec

----------------------------------------------------------------------------
(* The cancels: sttService.run's abandoned set and its list. *)

\* Cancels of a key that still wait in the channel.
Places(s, k) == {i \in 1..Len(s) : s[i] = k}
Waiting(k) == Cardinality(Places(cancels, k))

\* The set holds only keys of the list, which is within its bound; every cancel
\* in the channel and every key of the set is a cancel not yet spent.
CancelInv ==
    /\ cancels \in Seq(Key)
    /\ abandoned \subseteq Key
    /\ order \in Seq(Key) /\ Len(order) <= MaxAbandoned
    /\ abandoned \subseteq ToSet(order)
    /\ credit \in [Key -> Int]
    /\ \A k \in Key : credit[k] >= Waiting(k) + (IF k \in abandoned THEN 1 ELSE 0)

\* A sequence has finitely many places.
LEMMA PlacesFinite ==
    ASSUME NEW S, NEW s \in Seq(S), NEW k
    PROVE  IsFiniteSet(Places(s, k)) /\ Cardinality(Places(s, k)) \in Nat
<1>1. IsFiniteSet(1..Len(s)) /\ Places(s, k) \in SUBSET (1..Len(s))
  BY FS_Interval, LenProperties DEF Places
<1> QED
  BY <1>1, FS_Subset, FS_CardinalityType

\* One more cancel of a key waits after it was sent.
LEMMA PlacesAppend ==
    ASSUME NEW S, NEW s \in Seq(S), NEW e \in S, NEW k
    PROVE  Cardinality(Places(Append(s, e), k))
              = Cardinality(Places(s, k)) + (IF e = k THEN 1 ELSE 0)
<1> DEFINE n == Len(s) + 1
<1>1. /\ Len(s) \in Nat /\ Len(Append(s, e)) = n
      /\ \A i \in 1..Len(s) : Append(s, e)[i] = s[i]
      /\ Append(s, e)[n] = e
  BY AppendProperties, LenProperties
<1>2. CASE e = k
  <2>1. Places(Append(s, e), k) = Places(s, k) \cup {n} /\ n \notin Places(s, k)
    BY <1>1, <1>2 DEF Places
  <2> QED
    BY <1>2, <2>1, PlacesFinite, FS_AddElement
<1>3. CASE e # k
  <2>1. Places(Append(s, e), k) = Places(s, k)
    BY <1>1, <1>3 DEF Places
  <2> QED
    BY <1>3, <2>1, PlacesFinite
<1> QED
  BY <1>2, <1>3

\* One less waits after the first was received.
LEMMA PlacesTail ==
    ASSUME NEW S, NEW s \in Seq(S), s # << >>, NEW k
    PROVE  Cardinality(Places(Tail(s), k)) + (IF Head(s) = k THEN 1 ELSE 0)
              <= Cardinality(Places(s, k))
<1> DEFINE P == Places(s, k)
           Q == Places(Tail(s), k)
           R == P \ {1}
           f == [i \in Q |-> i + 1]
<1>1. /\ Tail(s) \in Seq(S) /\ Len(Tail(s)) = Len(s) - 1 /\ Len(s) \in Nat
      /\ \A i \in 1..Len(Tail(s)) : Tail(s)[i] = s[i + 1]
      /\ Len(s) # 0 /\ s[1] = Head(s)
  BY HeadTailProperties, LenProperties, EmptySeq
<1>2. /\ IsFiniteSet(P) /\ Cardinality(P) \in Nat
      /\ IsFiniteSet(Q) /\ Cardinality(Q) \in Nat
  BY <1>1, PlacesFinite
<1>3. IsFiniteSet(R) /\ Cardinality(R) = IF 1 \in P THEN Cardinality(P) - 1 ELSE Cardinality(P)
  BY <1>2, FS_RemoveElement
<1>4. 1 \in P <=> Head(s) = k
  BY <1>1 DEF Places
<1>5. f \in Injection(Q, R)
  <2>1. \A i \in Q : i \in Nat /\ i + 1 \in R
    BY <1>1 DEF Places
  <2>2. f \in [Q -> R]
    BY <2>1
  <2>3. \A a, b \in Q : f[a] = f[b] => a = b
    BY <2>1
  <2> HIDE DEF f
  <2> QED
    BY <2>2, <2>3 DEF Injection, IsInjective
<1>6. Cardinality(Q) <= Cardinality(R)
  BY <1>3, <1>5, FS_Injection
<1> HIDE DEF P, Q, R
<1>7. Cardinality(Q) + (IF Head(s) = k THEN 1 ELSE 0) <= Cardinality(P)
  BY <1>2, <1>3, <1>4, <1>6
<1> QED
  BY <1>7 DEF P, Q

\* The elements of a list are at most as many as its places.
LEMMA ElementsBounded ==
    ASSUME NEW S, NEW s \in Seq(S)
    PROVE  IsFiniteSet(ToSet(s)) /\ Cardinality(ToSet(s)) <= Len(s)
<1>1. Len(s) \in Nat /\ DOMAIN s = 1..Len(s)
  BY LenProperties
<1>2. IsFiniteSet(1..Len(s)) /\ Cardinality(1..Len(s)) = Len(s)
  BY <1>1, FS_Interval
<1>3. s \in Surjection(1..Len(s), ToSet(s))
  <2>1. s \in [1..Len(s) -> ToSet(s)]
    BY <1>1 DEF ToSet
  <2>2. \A t \in ToSet(s) : \E i \in 1..Len(s) : s[i] = t
    BY <1>1 DEF ToSet
  <2> QED
    BY <2>1, <2>2 DEF Surjection
<1> QED
  BY <1>2, <1>3, FS_Surjection

\* A key that joins a full list pushes the oldest out of both.
LEMMA AbandonKeepsBound ==
    ASSUME order \in Seq(Key), Len(order) <= MaxAbandoned, abandoned \subseteq Key,
           abandoned \subseteq ToSet(order), NEW k \in Key, Abandon(k)
    PROVE  /\ order' \in Seq(Key) /\ Len(order') <= MaxAbandoned
           /\ abandoned' \subseteq abandoned \cup {k}
           /\ abandoned' \subseteq ToSet(order')
<1> DEFINE o == Append(order, k)
<1>0. MaxAbandoned \in Nat
  BY RoutingAssumption
<1>1. /\ o \in Seq(Key) /\ o # << >> /\ Len(o) = Len(order) + 1 /\ Len(order) \in Nat
      /\ \A i \in 1..Len(order) : o[i] = order[i]
      /\ o[Len(order) + 1] = k
  BY AppendProperties, LenProperties
<1>2. DOMAIN order = 1..Len(order) /\ DOMAIN o = 1..Len(o)
  BY <1>1, LenProperties
<1>3. abandoned \cup {k} \subseteq ToSet(o)
  BY <1>1, <1>2 DEF ToSet
<1>4. CASE Len(o) > MaxAbandoned
  <2>1. order' = Tail(o) /\ abandoned' = (abandoned \cup {k}) \ {Head(o)}
    BY <1>4 DEF Abandon
  <2> HIDE DEF o
  <2>2. /\ Tail(o) \in Seq(Key) /\ Len(Tail(o)) = Len(o) - 1
        /\ \A i \in 1..Len(Tail(o)) : Tail(o)[i] = o[i + 1]
        /\ Head(o) = o[1]
    BY <1>1, HeadTailProperties
  <2>3. DOMAIN Tail(o) = 1..Len(Tail(o))
    BY <2>2, LenProperties
  <2>4. ASSUME NEW x \in ToSet(o), x # Head(o) PROVE x \in ToSet(Tail(o))
    <3>1. PICK i \in 1..Len(o) : o[i] = x
      BY <1>2 DEF ToSet
    <3>2. i # 1
      BY <2>2, <2>4, <3>1
    <3>3. i - 1 \in 1..Len(Tail(o)) /\ Tail(o)[i - 1] = o[i]
      BY <1>1, <2>2, <3>2
    <3> QED
      BY <2>3, <3>1, <3>3 DEF ToSet
  <2> QED
    BY <1>0, <1>1, <1>3, <2>1, <2>2, <2>4
<1>5. CASE ~(Len(o) > MaxAbandoned)
  <2>1. order' = o /\ abandoned' = abandoned \cup {k}
    BY <1>5 DEF Abandon
  <2> QED
    BY <1>0, <1>1, <1>3, <1>5, <2>1
<1> QED
  BY <1>4, <1>5

\* Steps that have nothing to do with the cancels.
LEMMA CancelStutter ==
    ASSUME CancelInv, UNCHANGED <<cancels, abandoned, order, credit>> PROVE CancelInv'
  BY DEF CancelInv, Waiting

\* A new cancel is one more to spend, and waits in the channel.
LEMMA CancelKeeps ==
    ASSUME CancelInv, NEW c \in Call, NEW id \in Id, Cancel(c, id) PROVE CancelInv'
<1> DEFINE key == <<CallSid[c], id>>
<1>1. key \in Key
  BY RoutingAssumption DEF Key
<1>2. /\ cancels' = Append(cancels, key) /\ credit' = [credit EXCEPT ![key] = @ + 1]
      /\ UNCHANGED <<abandoned, order>>
  BY DEF Cancel, serviceVars
<1> HIDE DEF key
<1>3. cancels' \in Seq(Key) /\ credit' \in [Key -> Int]
  BY <1>1, <1>2, AppendProperties DEF CancelInv
<1>4. ASSUME NEW k \in Key
      PROVE  credit'[k] >= Waiting(k)' + (IF k \in abandoned' THEN 1 ELSE 0)
  <2>1. Waiting(k)' = Waiting(k) + (IF key = k THEN 1 ELSE 0) /\ Waiting(k) \in Nat
    BY <1>1, <1>2, PlacesAppend, PlacesFinite DEF Waiting, CancelInv
  <2>2. credit'[k] = credit[k] + (IF key = k THEN 1 ELSE 0) /\ credit[k] \in Int
    BY <1>1, <1>2 DEF CancelInv
  <2>3. credit[k] >= Waiting(k) + (IF k \in abandoned THEN 1 ELSE 0)
    BY DEF CancelInv
  <2> QED
    BY <1>2, <2>1, <2>2, <2>3
<1> QED
  BY <1>2, <1>3, <1>4 DEF CancelInv

\* A cancel moves from the channel to the set, where it counts once.
LEMMA DrainCancelsKeeps ==
    ASSUME CancelInv, DrainCancels PROVE CancelInv'
<1>1. CASE cancels = << >>
  BY <1>1, CancelStutter DEF DrainCancels
<1>2. CASE cancels # << >>
  <2> DEFINE h == Head(cancels)
  <2>1. h \in Key /\ cancels' = Tail(cancels) /\ cancels' \in Seq(Key) /\ UNCHANGED credit
    BY <1>2, HeadTailProperties DEF CancelInv, DrainCancels
  <2>2. /\ order' \in Seq(Key) /\ Len(order') <= MaxAbandoned
        /\ abandoned' \subseteq abandoned \cup {h}
        /\ abandoned' \subseteq ToSet(order')
    <3>1. CASE h \in abandoned
      BY <1>2, <3>1 DEF DrainCancels, CancelInv
    <3>2. CASE h \notin abandoned
      <4>1. Abandon(h)
        BY <1>2, <3>2 DEF DrainCancels
      <4> QED
        BY <2>1, <4>1, AbandonKeepsBound DEF CancelInv
    <3> QED
      BY <3>1, <3>2
  <2>3. ASSUME NEW k \in Key
        PROVE  credit'[k] >= Waiting(k)' + (IF k \in abandoned' THEN 1 ELSE 0)
    <3>1. Waiting(k)' + (IF h = k THEN 1 ELSE 0) <= Waiting(k)
      BY <1>2, <2>1, PlacesTail DEF Waiting, CancelInv
    <3>2. Waiting(k)' \in Nat /\ Waiting(k) \in Nat /\ credit[k] \in Int
      BY <2>1, PlacesFinite DEF Waiting, CancelInv
    <3>3. credit[k] >= Waiting(k) + (IF k \in abandoned THEN 1 ELSE 0)
      BY DEF CancelInv
    <3>4. k \in abandoned' => k \in abandoned \/ h = k
      BY <2>2
    <3> QED
      BY <2>1, <3>1, <3>2, <3>3, <3>4
  <2> QED
    BY <2>1, <2>2, <2>3 DEF CancelInv
<1> QED
  BY <1>1, <1>2

\* A skip spends one cancel of the key it skips.
LEMMA RecvRequestKeeps ==
    ASSUME CancelInv, RecvRequest PROVE CancelInv'
<1> DEFINE key == KeyOf(Head(requests))
<1>1. UNCHANGED <<cancels, order>>
  BY DEF RecvRequest
<1>2. CASE key \notin abandoned
  BY <1>1, <1>2, CancelStutter DEF RecvRequest
<1>3. CASE key \in abandoned
  <2>1. key \in Key /\ abandoned' = abandoned \ {key} /\ credit' = [credit EXCEPT ![key] = @ - 1]
    BY <1>3 DEF RecvRequest, spend, CancelInv
  <2> HIDE DEF key
  <2>2. ASSUME NEW k \in Key
        PROVE  credit'[k] >= Waiting(k)' + (IF k \in abandoned' THEN 1 ELSE 0)
    <3>1. Waiting(k)' = Waiting(k) /\ Waiting(k) \in Nat /\ credit[k] \in Int
      BY <1>1, PlacesFinite DEF Waiting, CancelInv
    <3>2. credit'[k] = credit[k] - (IF k = key THEN 1 ELSE 0)
      BY <2>1, <3>1 DEF CancelInv
    <3>3. credit[k] >= Waiting(k) + (IF k \in abandoned THEN 1 ELSE 0)
      BY DEF CancelInv
    <3> QED
      BY <1>3, <2>1, <3>1, <3>2, <3>3
  <2> QED
    BY <1>1, <2>1, <2>2 DEF CancelInv
<1> QED
  BY <1>2, <1>3

(***************************************************************************)
(* sttService.run's abandoned set never outgrows maxAbandoned, holds only  *)
(* keys its list can still evict, and skips at most one request for each   *)
(* cancel, whatever is cancelled, when and how often, and though requests  *)
(* of different calls may carry one key.                                   *)
(***************************************************************************)
THEOREM AbandonedSetIsSound == Spec => []AbandonedIsSound
<1>1. Init => CancelInv
  <2> SUFFICES ASSUME Init PROVE CancelInv
    OBVIOUS
  <2>1. \A k \in Key : Waiting(k) = 0
    BY EmptySeq, FS_EmptySet DEF Init, Waiting, Places
  <2>2. cancels \in Seq(Key) /\ order \in Seq(Key) /\ Len(order) <= MaxAbandoned
    BY RoutingAssumption DEF Init
  <2> QED
    BY <2>1, <2>2 DEF Init, CancelInv
<1>2. CancelInv /\ [Next]_vars => CancelInv'
  <2> SUFFICES ASSUME CancelInv, [Next]_vars PROVE CancelInv'
    OBVIOUS
  <2>1. CASE \E c \in Call : Register(c) \/ RegisterSink(c) \/ CloseSink(c) \/ Deregister(c)
                             \/ Drain(c)
    BY <2>1, CancelStutter
       DEF Register, RegisterSink, CloseSink, Deregister, Drain, serviceVars
  <2>2. CASE \E c \in Call, clip \in Clips : Ask(c, clip)
    BY <2>2, CancelStutter DEF Ask
  <2>3. CASE \E c \in Call, id \in Id : Cancel(c, id)
    BY <2>3, CancelKeeps
  <2>4. CASE Service
    BY <2>4, CancelStutter, DrainCancelsKeeps, RecvRequestKeeps
       DEF Service, TranscribeChunk, ChunkFails, Transcribe, SendResult, ServiceReturns
  <2>5. CASE Router
    BY <2>5, CancelStutter DEF Router, RouteLookup, Deliver, RouterReturns, serviceVars
  <2>6. CASE \/ \E p \in Replier : ReplySend(p) \/ ReplyGivesUp(p)
             \/ \E p \in Replier, s \in Sid : ReplyLookup(p, s)
    BY <2>6, CancelStutter DEF ReplySend, ReplyGivesUp, ReplyLookup, serviceVars
  <2>7. CASE Stop \/ UNCHANGED vars
    BY <2>7, CancelStutter DEF Stop, vars, serviceVars
  <2> QED
    BY <2>1, <2>2, <2>3, <2>4, <2>5, <2>6, <2>7 DEF Next
<1>3. CancelInv => AbandonedIsSound
  <2> SUFFICES ASSUME CancelInv PROVE AbandonedIsSound
    OBVIOUS
  <2>1. IsFiniteSet(ToSet(order)) /\ Cardinality(ToSet(order)) <= Len(order)
    BY ElementsBounded DEF CancelInv
  <2>2. /\ Cardinality(abandoned) <= Cardinality(ToSet(order))
        /\ IsFiniteSet(abandoned)
    BY <2>1, FS_Subset DEF CancelInv
  <2>3. Cardinality(abandoned) <= MaxAbandoned
    <3>1. /\ Cardinality(abandoned) \in Nat /\ Cardinality(ToSet(order)) \in Nat
          /\ Len(order) \in Nat /\ MaxAbandoned \in Nat
      BY <2>1, <2>2, FS_CardinalityType, LenProperties, RoutingAssumption DEF CancelInv
    <3> QED
      BY <2>1, <2>2, <3>1 DEF CancelInv
  <2>4. ASSUME NEW k \in Key PROVE credit[k] >= 0
    <3>1. Waiting(k) \in Nat /\ credit[k] \in Int
      BY PlacesFinite DEF Waiting, CancelInv
    <3> QED
      BY <3>1 DEF CancelInv
  <2> QED
    BY <2>3, <2>4 DEF CancelInv, AbandonedIsSound, AbandonedIsBounded, CancelSkipsOnce
<1> QED
  BY <1>1, <1>2, <1>3, PTL DEF Spec

----------------------------------------------------------------------------
(* The pipeline: types, with request ids any naturals. *)

Asked == [call : Call, id : Nat, clip : Clips]
Given == [call : Call, id : Nat, clip : Clips, text : Nat]
Item  == Asked \cup Given

PipeTypes ==
    /\ asked \in [Call -> Nat]
    /\ requests \in Seq(Asked)
    /\ svc \in [pc : {"drain", "recv", "done"}]
               \cup [pc : {"work", "send"}, req : Asked, text : Nat]
    /\ results \in Seq(Given)
    /\ router \in [pc : {"recv", "done"}] \cup [pc : {"send"}, res : Given, to : Call]
    /\ routes \in [Sid -> Call \cup {None}]
    /\ inbox \in [Call -> Seq(Given)]

\* What the pipeline's steps do to the pieces it is made of.
pipeVars == <<asked, requests, svc, results, router, routes, inbox>>

\* The two goroutines' records by their program counters.
LEMMA HandTypes ==
    ASSUME PipeTypes
    PROVE  /\ svc.pc \in {"drain", "recv", "done", "work", "send"}
           /\ svc.pc \in {"work", "send"} =>
                 svc \in [pc : {"work", "send"}, req : Asked, text : Nat]
           /\ router.pc \in {"recv", "done", "send"}
           /\ router.pc = "send" => router \in [pc : {"send"}, res : Given, to : Call]
  BY DEF PipeTypes

\* What Ask changes, without its guard, which folds a function.
LEMMA AskEffect ==
    ASSUME NEW c \in Call, NEW clip \in Clips, Ask(c, clip)
    PROVE  /\ asked' = [asked EXCEPT ![c] = asked[c] + 1]
           /\ requests' = Append(requests, [call |-> c, id |-> asked[c] + 1, clip |-> clip])
           /\ UNCHANGED <<svc, results, router, routes, inbox>>
  BY Zenon DEF Ask, routerVars

\* PipeTypes is inductive.
LEMMA PipeTyped == Spec => []PipeTypes
<1>1. Init => PipeTypes
  <2> SUFFICES ASSUME Init PROVE PipeTypes
    OBVIOUS
  <2>1. requests \in Seq(Asked) /\ results \in Seq(Given) /\ inbox \in [Call -> Seq(Given)]
    BY DEF Init
  <2> QED
    BY <2>1 DEF Init, Idle, PipeTypes
<1>2. PipeTypes /\ [Next]_vars => PipeTypes'
  <2> SUFFICES ASSUME PipeTypes, [Next]_vars PROVE PipeTypes'
    OBVIOUS
  <2>0. ASSUME UNCHANGED pipeVars PROVE PipeTypes'
    BY <2>0 DEF PipeTypes, pipeVars
  <2>1. ASSUME NEW c \in Call,
               Register(c) \/ RegisterSink(c) \/ CloseSink(c) \/ Deregister(c) \/ Drain(c)
        PROVE  PipeTypes'
    <3>1. CASE Register(c) \/ Deregister(c)
      <4>1. CallSid[c] \in Sid
        BY RoutingAssumption
      <4>2. \/ routes' = [routes EXCEPT ![CallSid[c]] = c]
            \/ routes' = [routes EXCEPT ![CallSid[c]] = None]
            \/ routes' = routes
        BY <3>1 DEF Register, Deregister
      <4>3. routes' \in [Sid -> Call \cup {None}]
        BY <4>1, <4>2 DEF PipeTypes
      <4>4. UNCHANGED <<asked, requests, svc, results, router, inbox>>
        BY <3>1 DEF Register, Deregister, serviceVars, routerVars
      <4> QED
        BY <4>3, <4>4 DEF PipeTypes
    <3>2. CASE RegisterSink(c) \/ CloseSink(c)
      BY <2>0, <3>2 DEF RegisterSink, CloseSink, pipeVars, serviceVars, routerVars
    <3>3. CASE Drain(c)
      <4>1. Tail(inbox[c]) \in Seq(Given)
        BY <3>3, HeadTailProperties DEF Drain, PipeTypes
      <4> QED
        BY <3>3, <4>1 DEF Drain, PipeTypes, callVars, serviceVars, routerVars
    <3> QED
      BY <2>1, <3>1, <3>2, <3>3
  <2>2. ASSUME NEW c \in Call, NEW clip \in Clips, Ask(c, clip) PROVE PipeTypes'
    <3>0. /\ asked' = [asked EXCEPT ![c] = asked[c] + 1]
          /\ requests' = Append(requests, [call |-> c, id |-> asked[c] + 1, clip |-> clip])
          /\ UNCHANGED <<svc, results, router, routes, inbox>>
      BY <2>2, AskEffect, Zenon
    <3>1. [call |-> c, id |-> asked[c] + 1, clip |-> clip] \in Asked
      BY DEF Asked, PipeTypes
    <3>2. requests' \in Seq(Asked)
      BY <3>0, <3>1, AppendProperties DEF PipeTypes
    <3>3. asked' \in [Call -> Nat]
      BY <3>0 DEF PipeTypes
    <3> QED
      BY <3>0, <3>2, <3>3 DEF PipeTypes
  <2>3. ASSUME NEW c \in Call, NEW id \in Id, Cancel(c, id) PROVE PipeTypes'
    BY <2>0, <2>3 DEF Cancel, pipeVars, callVars, serviceVars, routerVars
  <2>4. CASE Service
    <3>1. CASE DrainCancels
      BY <3>1 DEF DrainCancels, PipeTypes, callVars, routerVars
    <3>2. CASE RecvRequest
      <4>1. Head(requests) \in Asked /\ Tail(requests) \in Seq(Asked)
        BY <3>2, HeadTailProperties DEF RecvRequest, PipeTypes
      <4>2. svc' = Idle \/ svc' = [pc |-> "work", req |-> Head(requests), text |-> 0]
        BY <3>2 DEF RecvRequest
      <4> QED
        BY <3>2, <4>1, <4>2 DEF RecvRequest, Idle, PipeTypes, callVars, routerVars
    <3>3. CASE TranscribeChunk
      <4>1. svc' \in [pc : {"work", "send"}, req : Asked, text : Nat]
        BY <3>3, HandTypes DEF TranscribeChunk
      <4> QED
        BY <3>3, <4>1 DEF TranscribeChunk, PipeTypes, callVars, routerVars
    <3>4. CASE ChunkFails
      BY <3>4 DEF ChunkFails, Idle, PipeTypes, callVars, routerVars
    <3>5. CASE Transcribe
      <4>1. svc' \in [pc : {"work", "send"}, req : Asked, text : Nat]
        BY <3>5, HandTypes DEF Transcribe
      <4> QED
        BY <3>5, <4>1 DEF Transcribe, PipeTypes, callVars, routerVars
    <3>6. CASE SendResult
      <4>1. [call |-> svc.req.call, id |-> svc.req.id, clip |-> svc.req.clip,
             text |-> svc.text] \in Given
        BY <3>6, HandTypes DEF SendResult, Asked, Given
      <4>2. results' \in Seq(Given)
        BY <3>6, <4>1, AppendProperties DEF SendResult, PipeTypes
      <4> QED
        BY <3>6, <4>2 DEF SendResult, Idle, PipeTypes, callVars
    <3>7. CASE ServiceReturns
      BY <3>7 DEF ServiceReturns, PipeTypes, callVars, routerVars
    <3> QED
      BY <2>4, <3>1, <3>2, <3>3, <3>4, <3>5, <3>6, <3>7 DEF Service
  <2>5. CASE Router
    <3>1. CASE RouteLookup
      <4>1. Head(results) \in Given /\ Tail(results) \in Seq(Given)
        BY <3>1, HeadTailProperties DEF RouteLookup, PipeTypes
      <4>2. routes[CallSid[Head(results).call]] \in Call \cup {None}
        BY <4>1, RoutingAssumption DEF PipeTypes, Given
      <4> QED
        BY <3>1, <4>1, <4>2 DEF RouteLookup, PipeTypes, callVars, serviceVars
    <3>2. CASE Deliver
      <4>1. Append(inbox[router.to], router.res) \in Seq(Given) /\ router.to \in Call
        BY <3>2, HandTypes, AppendProperties DEF Deliver, PipeTypes
      <4> QED
        BY <3>2, <4>1 DEF Deliver, PipeTypes, callVars, serviceVars
    <3>3. CASE RouterReturns
      BY <3>3 DEF RouterReturns, PipeTypes, callVars, serviceVars
    <3> QED
      BY <2>5, <3>1, <3>2, <3>3 DEF Router
  <2>6. CASE \/ \E p \in Replier : ReplySend(p) \/ ReplyGivesUp(p)
             \/ \E p \in Replier, s \in Sid : ReplyLookup(p, s)
    BY <2>0, <2>6 DEF ReplySend, ReplyGivesUp, ReplyLookup, pipeVars, callVars, serviceVars,
                      routerVars
  <2>7. CASE Stop \/ UNCHANGED vars
    BY <2>0, <2>7 DEF Stop, vars, pipeVars, callVars, serviceVars, routerVars
  <2> QED
    BY <2>1, <2>2, <2>3, <2>4, <2>5, <2>6, <2>7 DEF Next
<1> QED
  BY <1>1, <1>2, PTL DEF Spec

----------------------------------------------------------------------------
(* The pipeline: order. *)

\* Of two items of one call the first was asked for first.
Precedes(a, b) == a.call = b.call => a.id < b.id

Inc(s) == \A i, j \in 1..Len(s) : i < j => Precedes(s[i], s[j])
Before(s, t) == \A i \in 1..Len(s), j \in 1..Len(t) : Precedes(s[i], t[j])

\* Every item has been asked for already.
Known(s, a) == \A i \in 1..Len(s) : s[i].id <= a[s[i].call]

\* Nothing has an order to keep with nothing.
LEMMA EmptyOrder ==
    ASSUME NEW s, NEW a
    PROVE  /\ Inc(<< >>) /\ Before(<< >>, s) /\ Before(s, << >>) /\ Known(<< >>, a)
           /\ \A e : Inc(<<e>>)
  BY DEF Inc, Before, Known

\* Taking the head of a channel leaves both it and the rest in their order.
LEMMA TakeHead ==
    ASSUME NEW s \in Seq(Item), s # << >>, NEW a
    PROVE  /\ <<Head(s)>> \in Seq(Item) /\ Tail(s) \in Seq(Item)
           /\ Inc(s) => Inc(Tail(s)) /\ Before(<<Head(s)>>, Tail(s))
           /\ \A u : Before(s, u) => Before(<<Head(s)>>, u) /\ Before(Tail(s), u)
           /\ \A u : Before(u, s) => Before(u, <<Head(s)>>) /\ Before(u, Tail(s))
           /\ Known(s, a) => Known(<<Head(s)>>, a) /\ Known(Tail(s), a)
<1> DEFINE h == <<Head(s)>>
           t == Tail(s)
<1>1. /\ h \in Seq(Item) /\ Len(h) = 1 /\ h[1] = s[1] /\ 1 \in 1..Len(s)
      /\ t \in Seq(Item)
  BY HeadTailProperties, LenProperties, EmptySeq
<1>2. \A i \in 1..Len(t) : i + 1 \in 1..Len(s) /\ t[i] = s[i+1] /\ 1 < i + 1
  BY HeadTailProperties, LenProperties
<1>3. \A i \in 1..Len(h) : i = 1
  BY <1>1
<1>a. \A i, j \in 1..Len(t) : i < j => i + 1 < j + 1
  OBVIOUS
<1> HIDE DEF h, t
<1>4. Inc(s) => Inc(t) /\ Before(h, t)
  <2> SUFFICES ASSUME Inc(s) PROVE Inc(t) /\ Before(h, t)
    OBVIOUS
  <2>1. ASSUME NEW i \in 1..Len(t), NEW j \in 1..Len(t), i < j PROVE Precedes(t[i], t[j])
    <3>1. Precedes(s[i+1], s[j+1])
      BY <1>2, <1>a, <2>1 DEF Inc
    <3> QED
      BY <1>2, <3>1
  <2>2. ASSUME NEW j \in 1..Len(t) PROVE Precedes(h[1], t[j])
    <3>1. Precedes(s[1], s[j+1])
      BY <1>1, <1>2 DEF Inc
    <3> QED
      BY <1>1, <1>2, <3>1
  <2> QED
    BY <1>3, <2>1, <2>2 DEF Inc, Before
<1>5. ASSUME NEW u, Before(s, u) PROVE Before(h, u) /\ Before(t, u)
  BY <1>1, <1>2, <1>3, <1>5, Zenon DEF Before
<1>6. ASSUME NEW u, Before(u, s) PROVE Before(u, h) /\ Before(u, t)
  BY <1>1, <1>2, <1>3, <1>6, Zenon DEF Before
<1>7. ASSUME Known(s, a) PROVE Known(h, a) /\ Known(t, a)
  BY <1>1, <1>2, <1>3, <1>7 DEF Known
<1> QED
  BY <1>1, <1>4, <1>5, <1>6, <1>7 DEF h, t

\* Adding an item at the end of a channel.
LEMMA AddLast ==
    ASSUME NEW s \in Seq(Item), NEW e \in Item, NEW a
    PROVE  /\ Append(s, e) \in Seq(Item)
           /\ Inc(s) /\ Before(s, <<e>>) => Inc(Append(s, e))
           /\ \A u : Before(s, u) /\ Before(<<e>>, u) => Before(Append(s, e), u)
           /\ \A u : Before(u, s) /\ Before(u, <<e>>) => Before(u, Append(s, e))
           /\ Known(s, a) /\ Known(<<e>>, a) => Known(Append(s, e), a)
<1> DEFINE h == <<e>>
           t == Append(s, e)
<1>1. /\ Len(h) = 1 /\ h[1] = e /\ 1 \in 1..Len(h)
      /\ t \in Seq(Item) /\ Len(t) = Len(s) + 1 /\ Len(s) \in Nat
      /\ t[Len(s) + 1] = e
  BY AppendProperties, LenProperties
<1>2. \A i \in 1..Len(s) : t[i] = s[i]
  BY AppendProperties
<1>3. \A i \in 1..Len(t) : \/ i \in 1..Len(s) /\ t[i] = s[i]
                           \/ i = Len(s) + 1 /\ t[i] = h[1]
  BY <1>1, <1>2
<1> HIDE DEF h, t
<1>4. ASSUME Inc(s), Before(s, h) PROVE Inc(t)
  <2> SUFFICES ASSUME NEW i \in 1..Len(t), NEW j \in 1..Len(t), i < j
               PROVE  Precedes(t[i], t[j])
    BY DEF Inc
  <2>0. i \in 1..Len(s) /\ t[i] = s[i]
    BY <1>1, <1>3
  <2>1. CASE j \in 1..Len(s)
    BY <1>2, <1>4, <2>0, <2>1 DEF Inc
  <2>2. CASE j = Len(s) + 1
    BY <1>1, <1>4, <2>0, <2>2 DEF Before
  <2> QED
    BY <1>3, <2>1, <2>2
<1>5. ASSUME NEW u, Before(s, u), Before(h, u) PROVE Before(t, u)
  BY <1>1, <1>3, <1>5, Zenon DEF Before
<1>6. ASSUME NEW u, Before(u, s), Before(u, h) PROVE Before(u, t)
  BY <1>1, <1>3, <1>6, Zenon DEF Before
<1>7. ASSUME Known(s, a), Known(h, a) PROVE Known(t, a)
  BY <1>1, <1>3, <1>7, Zenon DEF Known
<1> QED
  BY <1>1, <1>4, <1>5, <1>6, <1>7 DEF h, t

\* Order is about the call and the id alone.
LEMMA SameTag ==
    ASSUME NEW e, NEW f, e.call = f.call, e.id = f.id, NEW a
    PROVE  /\ \A u : Before(<<e>>, u) => Before(<<f>>, u)
           /\ \A u : Before(u, <<e>>) => Before(u, <<f>>)
           /\ Known(<<e>>, a) => Known(<<f>>, a)
<1>1. /\ Len(<<e>>) = 1 /\ Len(<<f>>) = 1 /\ <<e>>[1] = e /\ <<f>>[1] = f
  OBVIOUS
<1>2. \A x : Precedes(e, x) <=> Precedes(f, x)
  BY Zenon DEF Precedes
<1>3. \A x : Precedes(x, e) <=> Precedes(x, f)
  BY Zenon DEF Precedes
<1> QED
  BY <1>1, <1>2, <1>3 DEF Before, Known

\* The two hands and the two channels are in order, and nothing in them is newer
\* than what its call has asked for.
Ordered(R, r, W, q, a) ==
    /\ Inc(r) /\ Inc(q)
    /\ Before(R, r) /\ Before(R, W) /\ Before(R, q)
    /\ Before(r, W) /\ Before(r, q)
    /\ Before(W, q)
    /\ Known(R, a) /\ Known(r, a) /\ Known(W, a) /\ Known(q, a)

\* A route is in order and ahead of everything under way.
Ahead(b, R, r, W, q, a) ==
    /\ Inc(b) /\ Before(b, R) /\ Before(b, r) /\ Before(b, W) /\ Before(b, q)
    /\ Known(b, a)

OrderInv ==
    /\ PipeTypes
    /\ Ordered(Routing, results, Working, requests, asked)
    /\ \A to \in Call : Ahead(inbox[to], Routing, results, Working, requests, asked)

\* The pieces of the pipeline are sequences of items.
LEMMA PieceTypes ==
    ASSUME PipeTypes
    PROVE  /\ Routing \in Seq(Item) /\ results \in Seq(Item) /\ Working \in Seq(Item)
           /\ requests \in Seq(Item) /\ \A to \in Call : inbox[to] \in Seq(Item)
<1>1. Routing \in Seq(Item)
  <2>1. router.pc = "send" => router.res \in Item
    BY HandTypes DEF Item
  <2> QED
    BY <2>1 DEF Routing
<1>2. Working \in Seq(Item)
  <2>1. svc.pc \in {"work", "send"} => svc.req \in Item
    BY HandTypes DEF Item
  <2> QED
    BY <2>1 DEF Working
<1>3. results \in Seq(Item) /\ requests \in Seq(Item)
      /\ \A to \in Call : inbox[to] \in Seq(Item)
  BY DEF PipeTypes, Item
<1> QED
  BY <1>1, <1>2, <1>3

\* A call asks: the new request is newer than everything of its call.
LEMMA AskOrder ==
    ASSUME OrderInv, PipeTypes', NEW c \in Call, NEW clip \in Clips, Ask(c, clip)
    PROVE  OrderInv'
<1> DEFINE e == [call |-> c, id |-> asked[c] + 1, clip |-> clip]
<1>0. /\ asked' = [asked EXCEPT ![c] = asked[c] + 1]
      /\ requests' = Append(requests, e)
      /\ UNCHANGED <<svc, results, router, routes, inbox>>
  BY AskEffect, Zenon
<1>1. UNCHANGED <<Routing, Working>>
  BY <1>0 DEF Routing, Working
<1>t. asked \in [Call -> Nat]
  BY DEF OrderInv, PipeTypes
<1>2. e \in Item /\ e.call = c /\ e.id = asked[c] + 1
  <2>1. asked[c] + 1 \in Nat
    BY <1>t
  <2> QED
    BY <2>1, Zenon DEF Item, Asked
<1>i. ASSUME NEW x \in Item PROVE x.call \in Call /\ x.id \in Nat
  BY DEF Item, Asked, Given
<1> HIDE DEF e
<1>3. ASSUME NEW s \in Seq(Item), Known(s, asked)
      PROVE  Known(s, asked') /\ Before(s, <<e>>)
  <2>1. ASSUME NEW i \in 1..Len(s)
        PROVE  s[i].id <= asked'[s[i].call] /\ Precedes(s[i], e)
    <3>1. s[i] \in Item
      BY ElementOfSeq
    <3>2. s[i].call \in Call /\ s[i].id \in Nat /\ s[i].id <= asked[s[i].call]
      BY <1>3, <1>i, <3>1 DEF Known
    <3>3. CASE s[i].call = c
      BY <1>0, <1>2, <1>t, <3>2, <3>3 DEF Precedes
    <3>4. CASE s[i].call # c
      BY <1>0, <1>2, <1>t, <3>2, <3>4 DEF Precedes
    <3> QED
      BY <3>3, <3>4
  <2>2. Len(<<e>>) = 1 /\ <<e>>[1] = e
    OBVIOUS
  <2> QED
    BY <2>1, <2>2 DEF Known, Before
<1>4. Known(<<e>>, asked')
  BY <1>0, <1>2, <1>t DEF Known
<1>5. Ordered(Routing, results, Working, requests, asked')
      /\ Before(Routing, <<e>>) /\ Before(results, <<e>>) /\ Before(Working, <<e>>)
      /\ Before(requests, <<e>>)
  BY <1>3, PieceTypes DEF OrderInv, Ordered
<1>6. Ordered(Routing, results, Working, requests', asked')
  BY <1>0, <1>2, <1>4, <1>5, AddLast, PieceTypes DEF OrderInv, Ordered
<1>7. ASSUME NEW to \in Call
      PROVE  Ahead(inbox[to], Routing, results, Working, requests', asked')
  <2>1. Ahead(inbox[to], Routing, results, Working, requests, asked') /\ Before(inbox[to], <<e>>)
    BY <1>3, PieceTypes DEF OrderInv, Ahead
  <2> QED
    BY <1>0, <1>2, <2>1, AddLast, PieceTypes DEF OrderInv, Ahead
<1> QED
  BY <1>0, <1>1, <1>6, <1>7 DEF OrderInv

\* Recv: the head of the requests goes to the service's hand, or nowhere.
LEMMA RecvOrder ==
    ASSUME OrderInv, PipeTypes', RecvRequest
    PROVE  OrderInv'
<1>1. /\ requests # << >> /\ requests' = Tail(requests) /\ Working = << >>
      /\ UNCHANGED <<asked, results, router, inbox, Routing>>
  BY DEF RecvRequest, Working, Routing, callVars, routerVars
<1>2. Working' = << >> \/ Working' = <<Head(requests)>>
  BY DEF RecvRequest, Working, Idle
<1>3. requests \in Seq(Item)
  BY PieceTypes DEF OrderInv
<1>4. Ordered(Routing, results, Working', requests', asked)
  <2>1. CASE Working' = << >>
    BY <1>1, <1>3, <2>1, TakeHead, EmptyOrder DEF OrderInv, Ordered
  <2>2. CASE Working' = <<Head(requests)>>
    BY <1>1, <1>3, <2>2, TakeHead DEF OrderInv, Ordered
  <2> QED
    BY <1>2, <2>1, <2>2
<1>5. ASSUME NEW to \in Call
      PROVE  Ahead(inbox[to], Routing, results, Working', requests', asked)
  <2>1. CASE Working' = << >>
    BY <1>1, <1>3, <2>1, TakeHead, EmptyOrder DEF OrderInv, Ahead
  <2>2. CASE Working' = <<Head(requests)>>
    BY <1>1, <1>3, <2>2, TakeHead DEF OrderInv, Ahead
  <2> QED
    BY <1>2, <2>1, <2>2
<1> QED
  BY <1>1, <1>4, <1>5 DEF OrderInv

\* The service's hand is emptied or keeps its request.
LEMMA WorkOrder ==
    ASSUME OrderInv, PipeTypes', Working' \in {<< >>, Working},
           UNCHANGED <<asked, requests, results, router, inbox>>
    PROVE  OrderInv'
<1>1. UNCHANGED Routing
  BY DEF Routing
<1>2. CASE Working' = Working
  BY <1>1, <1>2 DEF OrderInv
<1>3. CASE Working' = << >>
  BY <1>1, <1>3, EmptyOrder DEF OrderInv, Ordered, Ahead
<1> QED
  BY <1>2, <1>3

\* The blocking send: the service's hand goes to the end of the results.
LEMMA SendOrder ==
    ASSUME OrderInv, PipeTypes', SendResult
    PROVE  OrderInv'
<1> DEFINE e == [call |-> svc.req.call, id |-> svc.req.id,
                 clip |-> svc.req.clip, text |-> svc.text]
<1>1. /\ results' = Append(results, e) /\ Working = <<svc.req>> /\ Working' = << >>
      /\ UNCHANGED <<asked, requests, router, inbox, Routing>>
  BY DEF SendResult, Working, Routing, Idle, callVars
<1>2. e \in Item /\ e.call = svc.req.call /\ e.id = svc.req.id
  BY HandTypes DEF SendResult, OrderInv, Item, Asked, Given
<1>3. results \in Seq(Item)
  BY PieceTypes DEF OrderInv
<1> HIDE DEF e
<1>4. /\ \A u : Before(Working, u) => Before(<<e>>, u)
      /\ \A u : Before(u, Working) => Before(u, <<e>>)
      /\ Known(Working, asked) => Known(<<e>>, asked)
  BY <1>1, <1>2, SameTag
<1>5. Ordered(Routing, results', Working', requests, asked)
  BY <1>1, <1>2, <1>3, <1>4, AddLast, EmptyOrder DEF OrderInv, Ordered
<1>6. ASSUME NEW to \in Call
      PROVE  Ahead(inbox[to], Routing, results', Working', requests, asked)
  BY <1>1, <1>2, <1>3, <1>4, AddLast, EmptyOrder DEF OrderInv, Ahead
<1> QED
  BY <1>1, <1>5, <1>6 DEF OrderInv

\* The router takes the head of the results in its hand, or drops it.
LEMMA LookupOrder ==
    ASSUME OrderInv, PipeTypes', RouteLookup
    PROVE  OrderInv'
<1>1. /\ results # << >> /\ results' = Tail(results) /\ Routing = << >>
      /\ UNCHANGED <<asked, requests, svc, inbox, Working>>
  BY DEF RouteLookup, Working, Routing, callVars, serviceVars
<1>2. Routing' = << >> \/ Routing' = <<Head(results)>>
  BY DEF RouteLookup, Routing
<1>3. results \in Seq(Item)
  BY PieceTypes DEF OrderInv
<1>4. Ordered(Routing', results', Working, requests, asked)
  <2>1. CASE Routing' = << >>
    BY <1>1, <1>3, <2>1, TakeHead, EmptyOrder DEF OrderInv, Ordered
  <2>2. CASE Routing' = <<Head(results)>>
    BY <1>1, <1>3, <2>2, TakeHead DEF OrderInv, Ordered
  <2> QED
    BY <1>2, <2>1, <2>2
<1>5. ASSUME NEW to \in Call
      PROVE  Ahead(inbox[to], Routing', results', Working, requests, asked)
  <2>1. CASE Routing' = << >>
    BY <1>1, <1>3, <2>1, TakeHead, EmptyOrder DEF OrderInv, Ahead
  <2>2. CASE Routing' = <<Head(results)>>
    BY <1>1, <1>3, <2>2, TakeHead DEF OrderInv, Ahead
  <2> QED
    BY <1>2, <2>1, <2>2
<1> QED
  BY <1>1, <1>4, <1>5 DEF OrderInv

\* The non-blocking send: the router's hand goes to the end of a route, or nowhere.
LEMMA DeliverOrder ==
    ASSUME OrderInv, PipeTypes', Deliver
    PROVE  OrderInv'
<1>1. /\ Routing = <<router.res>> /\ Routing' = << >>
      /\ UNCHANGED <<asked, requests, svc, results, Working>>
  BY DEF Deliver, Working, Routing, callVars, serviceVars
<1>2. router.res \in Item /\ router.to \in Call
  BY HandTypes DEF Deliver, OrderInv, Item
<1>3. Ordered(Routing', results, Working, requests, asked)
  BY <1>1, EmptyOrder DEF OrderInv, Ordered
<1>4. ASSUME NEW to \in Call
      PROVE  Ahead(inbox'[to], Routing', results, Working, requests, asked)
  <2>1. inbox'[to] = inbox[to] \/ inbox'[to] = Append(inbox[to], router.res)
    BY <1>2 DEF Deliver, OrderInv, PipeTypes
  <2>2. Ahead(inbox[to], Routing', results, Working, requests, asked)
    BY <1>1, EmptyOrder DEF OrderInv, Ahead
  <2>3. Ahead(Append(inbox[to], router.res), Routing', results, Working, requests, asked)
    BY <1>1, <1>2, AddLast, EmptyOrder, PieceTypes DEF OrderInv, Ordered, Ahead
  <2> QED
    BY <2>1, <2>2, <2>3
<1> QED
  BY <1>1, <1>3, <1>4 DEF OrderInv

\* The session reads the oldest result of its route.
LEMMA DrainOrder ==
    ASSUME OrderInv, PipeTypes', NEW c \in Call, Drain(c)
    PROVE  OrderInv'
<1>1. /\ inbox[c] # << >> /\ inbox' = [inbox EXCEPT ![c] = Tail(inbox[c])]
      /\ UNCHANGED <<asked, requests, results, Working, Routing>>
  BY DEF Drain, Working, Routing, callVars, serviceVars, routerVars
<1>2. ASSUME NEW to \in Call
      PROVE  Ahead(inbox'[to], Routing, results, Working, requests, asked)
  <2>1. CASE to = c
    <3>1. inbox'[to] = Tail(inbox[to]) /\ inbox[to] \in Seq(Item)
      BY <1>1, <2>1, PieceTypes DEF OrderInv, PipeTypes
    <3> QED
      BY <1>1, <2>1, <3>1, TakeHead DEF OrderInv, Ahead
  <2>2. CASE to # c
    <3>1. inbox'[to] = inbox[to]
      BY <1>1, <2>2 DEF OrderInv, PipeTypes
    <3> QED
      BY <3>1 DEF OrderInv
  <2> QED
    BY <2>1, <2>2
<1> QED
  BY <1>1, <1>2 DEF OrderInv

\* OrderInv is inductive.
LEMMA OrderInvInductive == Spec => []OrderInv
<1>1. Init => OrderInv
  <2> SUFFICES ASSUME Init PROVE OrderInv
    OBVIOUS
  <2>1. PipeTypes
    <3>1. requests \in Seq(Asked) /\ results \in Seq(Given)
          /\ inbox \in [Call -> Seq(Given)]
      BY DEF Init
    <3> QED
      BY <3>1 DEF Init, Idle, PipeTypes
  <2>2. /\ Routing = << >> /\ results = << >> /\ Working = << >> /\ requests = << >>
        /\ \A to \in Call : inbox[to] = << >>
    BY DEF Init, Idle, Routing, Working
  <2> QED
    BY <2>1, <2>2, EmptyOrder DEF OrderInv, Ordered, Ahead
<1>2. OrderInv /\ PipeTypes' /\ [Next]_vars => OrderInv'
  <2> SUFFICES ASSUME OrderInv, PipeTypes', [Next]_vars PROVE OrderInv'
    OBVIOUS
  <2>0. ASSUME UNCHANGED <<asked, requests, svc, results, router, inbox>> PROVE OrderInv'
    <3>1. UNCHANGED <<Routing, Working>>
      BY <2>0 DEF Routing, Working
    <3> QED
      BY <2>0, <3>1 DEF OrderInv
  <2>1. ASSUME NEW c \in Call,
               Register(c) \/ RegisterSink(c) \/ CloseSink(c) \/ Deregister(c) \/ Drain(c)
        PROVE  OrderInv'
    BY <2>0, <2>1, DrainOrder
       DEF Register, RegisterSink, CloseSink, Deregister, callVars, serviceVars, routerVars
  <2>2. ASSUME NEW c \in Call, NEW clip \in Clips, Ask(c, clip) PROVE OrderInv'
    BY <2>2, AskOrder, Zenon
  <2>3. ASSUME NEW c \in Call, NEW id \in Id, Cancel(c, id) PROVE OrderInv'
    BY <2>0, <2>3 DEF Cancel, callVars, serviceVars, routerVars
  <2>4. CASE Service
    <3>1. ASSUME DrainCancels \/ TranscribeChunk \/ ChunkFails \/ Transcribe \/ ServiceReturns
          PROVE  /\ Working' \in {<< >>, Working}
                 /\ UNCHANGED <<asked, requests, results, router, inbox>>
      <4>1. CASE DrainCancels
        BY <4>1 DEF DrainCancels, Working, callVars, routerVars
      <4>2. CASE TranscribeChunk
        BY <4>2, HandTypes DEF TranscribeChunk, OrderInv, Working, callVars, routerVars
      <4>3. CASE ChunkFails
        BY <4>3 DEF ChunkFails, Idle, Working, callVars, routerVars
      <4>4. CASE Transcribe
        BY <4>4, HandTypes DEF Transcribe, OrderInv, Working, callVars, routerVars
      <4>5. CASE ServiceReturns
        BY <4>5 DEF ServiceReturns, Working, callVars, routerVars
      <4> QED
        BY <3>1, <4>1, <4>2, <4>3, <4>4, <4>5
    <3> QED
      BY <2>4, <3>1, WorkOrder, RecvOrder, SendOrder DEF Service
  <2>5. CASE Router
    <3>1. CASE RouterReturns
      <4>1. /\ Routing' = Routing /\ Working' = Working
            /\ UNCHANGED <<asked, requests, results, inbox>>
        BY <3>1 DEF RouterReturns, Routing, Working, callVars, serviceVars
      <4> QED
        BY <4>1 DEF OrderInv
    <3> QED
      BY <2>5, <3>1, LookupOrder, DeliverOrder DEF Router
  <2>6. CASE \/ \E p \in Replier : ReplySend(p) \/ ReplyGivesUp(p)
             \/ \E p \in Replier, s \in Sid : ReplyLookup(p, s)
    BY <2>0, <2>6 DEF ReplySend, ReplyGivesUp, ReplyLookup, callVars, serviceVars, routerVars
  <2>7. CASE Stop \/ UNCHANGED vars
    BY <2>0, <2>7 DEF Stop, vars, callVars, serviceVars, routerVars
  <2> QED
    BY <2>1, <2>2, <2>3, <2>4, <2>5, <2>6, <2>7 DEF Next
<1> QED
  BY <1>1, <1>2, PipeTyped, PTL DEF Spec

----------------------------------------------------------------------------
(* Whole clips: nothing leaves the service's hand before all its chunks are *)
(* joined.                                                                  *)

Whole(x) == x.text = x.clip

WholeInv ==
    /\ svc.pc = "send" => svc.text = svc.req.clip
    /\ \A i \in 1..Len(results) : Whole(results[i])
    /\ router.pc = "send" => Whole(router.res)
    /\ \A c \in Call : \A i \in 1..Len(inbox[c]) : Whole(inbox[c][i])

\* WholeInv is inductive.
LEMMA WholeInvInductive == Spec => []WholeInv
<1>1. Init => WholeInv
  BY DEF Init, Idle, WholeInv
<1>2. PipeTypes /\ WholeInv /\ [Next]_vars => WholeInv'
  <2> SUFFICES ASSUME PipeTypes, WholeInv, [Next]_vars PROVE WholeInv'
    OBVIOUS
  <2>0. ASSUME UNCHANGED <<svc, results, router, inbox>> PROVE WholeInv'
    BY <2>0 DEF WholeInv
  <2>a. ASSUME UNCHANGED <<results, router, inbox>>, svc'.pc # "send" PROVE WholeInv'
    BY <2>a DEF WholeInv
  <2>1. ASSUME NEW c \in Call,
               Register(c) \/ RegisterSink(c) \/ CloseSink(c) \/ Deregister(c)
        PROVE  WholeInv'
    BY <2>0, <2>1
       DEF Register, RegisterSink, CloseSink, Deregister, serviceVars, routerVars
  <2>2. ASSUME NEW c \in Call, Drain(c) PROVE WholeInv'
    <3>1. /\ inbox' = [inbox EXCEPT ![c] = Tail(inbox[c])] /\ inbox[c] # << >>
          /\ UNCHANGED <<svc, results, router>>
      BY <2>2 DEF Drain, serviceVars, routerVars
    <3>2. ASSUME NEW to \in Call, NEW i \in 1..Len(inbox'[to]) PROVE Whole(inbox'[to][i])
      <4>1. CASE to = c
        <5>1. inbox'[to] = Tail(inbox[c]) /\ inbox[c] \in Seq(Given)
          BY <3>1, <4>1 DEF PipeTypes
        <5>2. /\ i \in 1..Len(Tail(inbox[c])) /\ Len(Tail(inbox[c])) = Len(inbox[c]) - 1
              /\ Len(inbox[c]) \in Nat
          BY <3>1, <3>2, <5>1, HeadTailProperties, LenProperties
        <5>3. Tail(inbox[c])[i] = inbox[c][i+1]
          BY <3>1, <5>1, <5>2, HeadTailProperties
        <5>4. i + 1 \in 1..Len(inbox[c]) /\ inbox'[to][i] = inbox[c][i+1]
          BY <5>1, <5>2, <5>3
        <5> QED
          BY <5>4 DEF WholeInv
      <4>2. CASE to # c
        BY <3>1, <4>2 DEF WholeInv, PipeTypes
      <4> QED
        BY <4>1, <4>2
    <3> QED
      BY <3>1, <3>2 DEF WholeInv
  <2>3. ASSUME NEW c \in Call, NEW clip \in Clips, Ask(c, clip) PROVE WholeInv'
    <3>1. UNCHANGED <<svc, results, router, inbox>>
      BY <2>3, AskEffect, Zenon
    <3> QED
      BY <2>0, <3>1
  <2>4. ASSUME NEW c \in Call, NEW id \in Id, Cancel(c, id) PROVE WholeInv'
    BY <2>0, <2>4 DEF Cancel, serviceVars, routerVars
  <2>5. CASE Service
    <3>1. CASE DrainCancels
      BY <2>0, <2>a, <3>1 DEF DrainCancels, routerVars
    <3>2. CASE RecvRequest
      BY <2>a, <3>2 DEF RecvRequest, Idle, routerVars
    <3>3. CASE TranscribeChunk
      <4>1. svc'.pc = "work"
        BY <3>3, HandTypes DEF TranscribeChunk
      <4> QED
        BY <2>a, <3>3, <4>1 DEF TranscribeChunk, routerVars
    <3>4. CASE ChunkFails
      BY <2>a, <3>4 DEF ChunkFails, Idle, routerVars
    <3>5. CASE Transcribe
      <4>1. svc'.text = svc'.req.clip
        BY <3>5, HandTypes DEF Transcribe
      <4> QED
        BY <3>5, <4>1 DEF Transcribe, WholeInv, routerVars
    <3>6. CASE SendResult
      <4>1. /\ results' = Append(results, [call |-> svc.req.call, id |-> svc.req.id,
                                           clip |-> svc.req.clip, text |-> svc.text])
            /\ svc'.pc # "send" /\ svc.text = svc.req.clip
            /\ UNCHANGED <<router, inbox>>
        BY <3>6 DEF SendResult, Idle, WholeInv
      <4>2. /\ Len(results') = Len(results) + 1 /\ Len(results) \in Nat
            /\ \A i \in 1..Len(results) : results'[i] = results[i]
            /\ Whole(results'[Len(results) + 1])
        BY <4>1, AppendProperties, LenProperties DEF PipeTypes, Whole
      <4>3. \A i \in 1..Len(results') : Whole(results'[i])
        BY <4>2 DEF WholeInv
      <4> QED
        BY <4>1, <4>3 DEF WholeInv
    <3>7. CASE ServiceReturns
      BY <2>a, <3>7 DEF ServiceReturns, routerVars
    <3> QED
      BY <2>5, <3>1, <3>2, <3>3, <3>4, <3>5, <3>6, <3>7 DEF Service
  <2>6. CASE Router
    <3>1. CASE RouteLookup
      <4>1. /\ results # << >> /\ results' = Tail(results) /\ UNCHANGED <<svc, inbox>>
            /\ router'.pc = "send" => router'.res = Head(results)
        BY <3>1 DEF RouteLookup, serviceVars
      <4>2. /\ Head(results) = results[1] /\ 1 \in 1..Len(results)
            /\ \A i \in 1..Len(results') :
                  i + 1 \in 1..Len(results) /\ results'[i] = results[i+1]
        BY <4>1, HeadTailProperties, LenProperties, EmptySeq DEF PipeTypes
      <4> QED
        BY <4>1, <4>2 DEF WholeInv
    <3>2. CASE Deliver
      <4>1. /\ UNCHANGED <<svc, results>> /\ router'.pc # "send" /\ Whole(router.res)
        BY <3>2 DEF Deliver, serviceVars, WholeInv
      <4>2. router.to \in Call
        BY <3>2, HandTypes DEF Deliver
      <4>3. ASSUME NEW c \in Call, NEW i \in 1..Len(inbox'[c]) PROVE Whole(inbox'[c][i])
        <5>1. inbox'[c] = inbox[c] \/ inbox'[c] = Append(inbox[c], router.res)
          <6>1. \/ inbox' = inbox
                \/ inbox' = [inbox EXCEPT ![router.to] = Append(inbox[router.to], router.res)]
            BY <3>2 DEF Deliver
          <6> QED
            BY <4>2, <6>1 DEF PipeTypes
        <5>2. CASE inbox'[c] = inbox[c]
          BY <4>3, <5>2 DEF WholeInv
        <5>3. CASE inbox'[c] = Append(inbox[c], router.res)
          <6>1. inbox[c] \in Seq(Given)
            BY DEF PipeTypes
          <6>2. \/ i \in 1..Len(inbox[c]) /\ inbox'[c][i] = inbox[c][i]
                \/ inbox'[c][i] = router.res
            BY <4>3, <5>3, <6>1, AppendProperties, LenProperties
          <6> QED
            BY <4>1, <6>2 DEF WholeInv
        <5> QED
          BY <5>1, <5>2, <5>3
      <4> QED
        BY <4>1, <4>3 DEF WholeInv
    <3>3. CASE RouterReturns
      BY <3>3 DEF RouterReturns, WholeInv, serviceVars
    <3> QED
      BY <2>6, <3>1, <3>2, <3>3 DEF Router
  <2>7. CASE \/ \E p \in Replier : ReplySend(p) \/ ReplyGivesUp(p)
             \/ \E p \in Replier, s \in Sid : ReplyLookup(p, s)
    BY <2>0, <2>7 DEF ReplySend, ReplyGivesUp, ReplyLookup, serviceVars, routerVars
  <2>8. CASE Stop \/ UNCHANGED vars
    BY <2>0, <2>8 DEF Stop, vars, serviceVars, routerVars
  <2> QED
    BY <2>1, <2>2, <2>3, <2>4, <2>5, <2>6, <2>7, <2>8 DEF Next
<1> QED
  BY <1>1, <1>2, PipeTyped, PTL DEF Spec

----------------------------------------------------------------------------
(* From the pieces to the whole pipeline. *)

\* The items of a concatenation are those of its parts.
LEMMA ConcatElements ==
    ASSUME NEW s \in Seq(Item), NEW t \in Seq(Item)
    PROVE  /\ s \o t \in Seq(Item)
           /\ Len(s \o t) = Len(s) + Len(t) /\ Len(s) \in Nat /\ Len(t) \in Nat
           /\ \A k \in 1..Len(s \o t) :
                 \/ k \in 1..Len(s) /\ (s \o t)[k] = s[k]
                 \/ k - Len(s) \in 1..Len(t) /\ (s \o t)[k] = t[k - Len(s)]
<1>1. /\ s \o t \in Seq(Item) /\ Len(s \o t) = Len(s) + Len(t)
      /\ Len(s) \in Nat /\ Len(t) \in Nat
  BY ConcatProperties, LenProperties
<1>2. \A i \in 1..Len(s) + Len(t) : (s \o t)[i] =
         IF i <= Len(s) THEN s[i] ELSE t[i - Len(s)]
  BY ConcatProperties
<1> QED
  BY <1>1, <1>2

\* Two pieces in order, the first before the second, are in order together.
LEMMA JoinPieces ==
    ASSUME NEW s \in Seq(Item), NEW t \in Seq(Item)
    PROVE  /\ s \o t \in Seq(Item)
           /\ Inc(s) /\ Inc(t) /\ Before(s, t) => Inc(s \o t)
           /\ \A u : Before(s, u) /\ Before(t, u) => Before(s \o t, u)
<1> DEFINE v == s \o t
<1>1. /\ v \in Seq(Item)
      /\ Len(v) = Len(s) + Len(t) /\ Len(s) \in Nat /\ Len(t) \in Nat
      /\ \A k \in 1..Len(v) : \/ k \in 1..Len(s) /\ v[k] = s[k]
                              \/ k - Len(s) \in 1..Len(t) /\ v[k] = t[k - Len(s)]
  BY ConcatElements
<1> HIDE DEF v
<1>2. ASSUME Inc(s), Inc(t), Before(s, t) PROVE Inc(v)
  <2> SUFFICES ASSUME NEW i \in 1..Len(v), NEW j \in 1..Len(v), i < j
               PROVE  Precedes(v[i], v[j])
    BY DEF Inc
  <2>1. CASE i \in 1..Len(s) /\ v[i] = s[i] /\ j \in 1..Len(s) /\ v[j] = s[j]
    BY <1>2, <2>1 DEF Inc
  <2>2. CASE /\ i \in 1..Len(s) /\ v[i] = s[i]
             /\ j - Len(s) \in 1..Len(t) /\ v[j] = t[j - Len(s)]
    BY <1>2, <2>2 DEF Before
  <2>3. CASE /\ i - Len(s) \in 1..Len(t) /\ v[i] = t[i - Len(s)]
             /\ j - Len(s) \in 1..Len(t) /\ v[j] = t[j - Len(s)]
    <3>1. i - Len(s) < j - Len(s)
      BY <1>1
    <3> QED
      BY <1>2, <2>3, <3>1 DEF Inc
  <2>4. ~(i - Len(s) \in 1..Len(t) /\ j \in 1..Len(s))
    BY <1>1
  <2> QED
    BY <1>1, <2>1, <2>2, <2>3, <2>4
<1>3. ASSUME NEW u, Before(s, u), Before(t, u) PROVE Before(v, u)
  BY <1>1, <1>3 DEF Before
<1> QED
  BY <1>1, <1>2, <1>3 DEF v

(***************************************************************************)
(* A call gets whole transcriptions in the order it asked for them: the    *)
(* pieces of the pipeline (stt.go's two channels and the clip in hand,     *)
(* sttrouter.go's result in hand and the routes) are each in order and one *)
(* before the other, whatever is skipped, fails or is dropped, for any     *)
(* number of calls, also calls that share a session id.                    *)
(***************************************************************************)
THEOREM ResultsFaithful == Spec => []ResultsAreFaithful
<1>1. OrderInv => ResultsInOrder
  <2> SUFFICES ASSUME OrderInv, NEW to \in Call
               PROVE  Inc(Pipeline(to)) /\ Pipeline(to) \in Seq(Item)
    <3>1. ASSUME NEW to \in Call, NEW i \in DOMAIN Pipeline(to), NEW j \in DOMAIN Pipeline(to),
                 i < j, Pipeline(to)[i].call = Pipeline(to)[j].call,
                 Inc(Pipeline(to)), Pipeline(to) \in Seq(Item)
          PROVE  Pipeline(to)[i].id < Pipeline(to)[j].id
      <4>1. DOMAIN Pipeline(to) = 1..Len(Pipeline(to))
        BY <3>1, LenProperties
      <4> QED
        BY <3>1, <4>1 DEF Inc, Precedes
    <3> QED
      BY <3>1 DEF ResultsInOrder
  <2> DEFINE b == inbox[to]
             R == Routing
             r == results
             W == Working
             q == requests
  <2>1. /\ b \in Seq(Item) /\ R \in Seq(Item) /\ r \in Seq(Item) /\ W \in Seq(Item)
        /\ q \in Seq(Item)
    BY PieceTypes DEF OrderInv
  <2>2. Ordered(R, r, W, q, asked) /\ Ahead(b, R, r, W, q, asked)
    BY DEF OrderInv
  <2>3. Inc(R) /\ Inc(W)
    BY EmptyOrder DEF Routing, Working
  <2>4. Pipeline(to) = (((b \o R) \o r) \o W) \o q
    BY DEF Pipeline
  <2> HIDE DEF b, R, r, W, q
  <2>5. b \o R \in Seq(Item) /\ Inc(b \o R) /\ Before(b \o R, r) /\ Before(b \o R, W)
        /\ Before(b \o R, q)
    BY <2>1, <2>2, <2>3, JoinPieces DEF Ordered, Ahead
  <2> DEFINE x == b \o R
  <2> HIDE DEF x
  <2>6. x \in Seq(Item) /\ Inc(x) /\ Before(x, r) /\ Before(x, W) /\ Before(x, q)
    BY <2>5 DEF x
  <2>7. x \o r \in Seq(Item) /\ Inc(x \o r) /\ Before(x \o r, W) /\ Before(x \o r, q)
    BY <2>1, <2>2, <2>6, JoinPieces DEF Ordered
  <2> DEFINE y == x \o r
  <2> HIDE DEF y
  <2>8. y \in Seq(Item) /\ Inc(y) /\ Before(y, W) /\ Before(y, q)
    BY <2>7 DEF y
  <2>9. y \o W \in Seq(Item) /\ Inc(y \o W) /\ Before(y \o W, q)
    BY <2>1, <2>2, <2>3, <2>8, JoinPieces DEF Ordered
  <2> DEFINE z == y \o W
  <2> HIDE DEF z
  <2>10. z \in Seq(Item) /\ Inc(z) /\ Before(z, q)
    BY <2>9 DEF z
  <2>11. z \o q \in Seq(Item) /\ Inc(z \o q)
    BY <2>1, <2>2, <2>10, JoinPieces DEF Ordered
  <2> QED
    BY <2>4, <2>11 DEF x, y, z
<1>2. PipeTypes /\ WholeInv => ResultIsWhole
  <2> SUFFICES ASSUME PipeTypes, WholeInv, NEW c \in Call, NEW i \in DOMAIN inbox[c]
               PROVE  Whole(inbox[c][i])
    BY DEF ResultIsWhole, Whole
  <2>1. inbox[c] \in Seq(Given) /\ DOMAIN inbox[c] = 1..Len(inbox[c])
    BY LenProperties DEF PipeTypes
  <2> QED
    BY <2>1 DEF WholeInv
<1> QED
  BY <1>1, <1>2, OrderInvInductive, WholeInvInductive, PipeTyped, PTL DEF ResultsAreFaithful
============================================================================
