---------------------------- MODULE CallRouting ----------------------------
(***************************************************************************)
(* The services all calls of one process share: the one sttService that    *)
(* transcribes clips in turn (telephony/stt.go), the STTRouter that hands  *)
(* each result to the call it belongs to (telephony/sttrouter.go), and the *)
(* ReplyRouter through which a consumer hands a reply to a call            *)
(* (telephony/reply_router.go, registered and closed by                    *)
(* telephony/twilio/session.go).                                           *)
(*                                                                         *)
(* A call is the identity of the route and of the sink it registered; two  *)
(* calls may carry one session id (twilio-cli mints its own CallSIDs), so  *)
(* requests of different calls may carry one key.  A clip is the number of *)
(* 30 s chunks it is cut into, a transcription the number of chunks joined.*)
(***************************************************************************)
EXTENDS Integers, Sequences, FiniteSets, SequencesExt

CONSTANTS Call,          \* the calls of the process
          Sid,           \* session ids
          CallSid,       \* the session id each call carries
          Replier,       \* consumer goroutines that call Route or Fail
          RequestDepth,  \* depth of the request channel
          ResultDepth,   \* depth of the result channel
          RouteDepth,    \* sttRouteDepth
          CancelDepth,   \* depth of CancelChan
          MaxAbandoned,  \* maxAbandoned
          Clips,         \* bound: the clips calls send, by number of chunks
          MaxRequests,   \* bound: requests of all calls
          MaxCancels,    \* bound: unspent cancels of a key
          None           \* no call

ASSUME RoutingAssumption ==
    /\ CallSid \in [Call -> Sid]
    /\ None \notin Call
    /\ \A n \in {RequestDepth, ResultDepth, RouteDepth, CancelDepth, MaxAbandoned} :
          n \in Nat \ {0}
    /\ \A n \in Clips \cup {MaxRequests, MaxCancels} : n \in Nat

VARIABLES life,       \* life[c]: where the call is between Register and Deregister
          routes,     \* STTRouter.routes
          sinks,      \* ReplyRouter.sinks
          newest,     \* history: the call that last registered a route, a sink
          asked,      \* asked[c]: requests the call has sent
          requests,   \* the service's input channel
          cancels,    \* CancelChan
          abandoned,  \* run's abandoned set
          order,      \* run's list of the keys it added, oldest first
          credit,     \* history: cancels of a key not yet spent on a skip
          svc,        \* the service goroutine
          results,    \* the service's output channel
          router,     \* the router goroutine
          inbox,      \* inbox[c]: the call's route channel
          reply,      \* reply[p]: the sink a Route or Fail has looked up
          stopped     \* the process context is done

vars == <<life, routes, sinks, newest, asked, requests, cancels, abandoned, order,
          credit, svc, results, router, inbox, reply, stopped>>

callVars    == <<life, newest, asked>>
serviceVars == <<requests, abandoned, order, svc>>
routerVars  == <<results, router>>
replyVars   == <<sinks, reply>>

Id  == 1..MaxRequests
Key == Sid \X Id

Request == [call : Call, id : Id, clip : Clips]
Result  == [call : Call, id : Id, clip : Clips, text : Nat]

\* The correlation key: the session id and the request id, never the call.
KeyOf(r) == <<CallSid[r.call], r.id>>

Idle == [pc |-> "drain"]

Init ==
    /\ life = [c \in Call |-> "new"]
    /\ routes = [s \in Sid |-> None]
    /\ sinks = [s \in Sid |-> None]
    /\ newest = [s \in Sid |-> [route |-> None, sink |-> None]]
    /\ asked = [c \in Call |-> 0]
    /\ requests = <<>>
    /\ cancels = <<>>
    /\ abandoned = {}
    /\ order = <<>>
    /\ credit = [k \in Key |-> 0]
    /\ svc = Idle
    /\ results = <<>>
    /\ router = [pc |-> "recv"]
    /\ inbox = [c \in Call |-> <<>>]
    /\ reply = [p \in Replier |-> None]
    /\ stopped = FALSE

-----------------------------------------------------------------------------
(* Calls come and go.                                                      *)

\* STTRouter.Register: a route already under the id is replaced.
Register(c) ==
    /\ life[c] = "new"
    /\ life' = [life EXCEPT ![c] = "routed"]
    /\ routes' = [routes EXCEPT ![CallSid[c]] = c]
    /\ newest' = [newest EXCEPT ![CallSid[c]].route = c]
    /\ UNCHANGED <<asked, cancels, credit, inbox, stopped>>
    /\ UNCHANGED <<serviceVars, routerVars, replyVars>>

\* ReplyRouter.Register, once the session has started.
RegisterSink(c) ==
    /\ life[c] = "routed"
    /\ life' = [life EXCEPT ![c] = "live"]
    /\ sinks' = [sinks EXCEPT ![CallSid[c]] = c]
    /\ newest' = [newest EXCEPT ![CallSid[c]].sink = c]
    /\ UNCHANGED <<routes, asked, cancels, credit, inbox, reply, stopped>>
    /\ UNCHANGED <<serviceVars, routerVars>>

\* ReplyRouter.Deregister: by key alone.  Nothing in the repository but a test
\* calls it, and Close says why.
DeregisterSink(c) == [sinks EXCEPT ![CallSid[c]] = None]

\* ReplySink.Close: only the sink still registered under its id is removed.
Close(c) == IF sinks[CallSid[c]] = c THEN DeregisterSink(c) ELSE sinks

\* The first deferred call of a stream's teardown.
CloseSink(c) ==
    /\ life[c] = "live"
    /\ life' = [life EXCEPT ![c] = "closing"]
    /\ sinks' = Close(c)
    /\ UNCHANGED <<routes, newest, asked, cancels, credit, inbox, reply, stopped>>
    /\ UNCHANGED <<serviceVars, routerVars>>

\* STTRouter.Deregister, after the call ended: only its own route.
Deregister(c) ==
    /\ life[c] = "closing"
    /\ life' = [life EXCEPT ![c] = "ended"]
    /\ routes' = IF routes[CallSid[c]] = c
                 THEN [routes EXCEPT ![CallSid[c]] = None] ELSE routes
    /\ UNCHANGED <<newest, asked, cancels, credit, inbox, stopped>>
    /\ UNCHANGED <<serviceVars, routerVars, replyVars>>

\* dispatchSTT numbers the session's next clip and drainSTTDispatch sends it,
\* waiting while the channel is full.  The buffer between the two is left out:
\* a clip dropped there is one that was never asked for.
Ask(c, clip) ==
    /\ life[c] \in {"routed", "live"}
    /\ FoldFunction(+, 0, asked) < MaxRequests
    /\ Len(requests) < RequestDepth
    /\ asked' = [asked EXCEPT ![c] = @ + 1]
    /\ requests' = Append(requests, [call |-> c, id |-> asked[c] + 1, clip |-> clip])
    /\ UNCHANGED <<life, routes, newest, cancels, abandoned, order, credit, svc,
                   inbox, stopped>>
    /\ UNCHANGED <<routerVars, replyVars>>

\* External: a request is given up, whether it is queued, in flight or answered.
Cancel(c, id) ==
    /\ id <= asked[c]
    /\ Len(cancels) < CancelDepth
    /\ credit[<<CallSid[c], id>>] < MaxCancels
    /\ cancels' = Append(cancels, <<CallSid[c], id>>)
    /\ credit' = [credit EXCEPT ![<<CallSid[c], id>>] = @ + 1]
    /\ UNCHANGED <<callVars, routes, inbox, stopped>>
    /\ UNCHANGED <<serviceVars, routerVars, replyVars>>

\* The session reads its route, for as long as it cares to.
Drain(c) ==
    /\ life[c] \in {"routed", "live"}
    /\ inbox[c] # <<>>
    /\ inbox' = [inbox EXCEPT ![c] = Tail(@)]
    /\ UNCHANGED <<callVars, routes, cancels, credit, stopped>>
    /\ UNCHANGED <<serviceVars, routerVars, replyVars>>

-----------------------------------------------------------------------------
(* sttService.run.                                                         *)

\* A key joins the set; past the cap the oldest entry of the list leaves both.
Abandon(k) ==
    LET o == Append(order, k)
        full == Len(o) > MaxAbandoned
    IN  /\ abandoned' = (abandoned \cup {k}) \ (IF full THEN {Head(o)} ELSE {})
        /\ order' = IF full THEN Tail(o) ELSE o

\* The loop top takes every pending cancel before it looks for work.
DrainCancels ==
    /\ svc.pc = "drain"
    /\ \/ /\ cancels = <<>>
          /\ svc' = [pc |-> "recv"]
          /\ UNCHANGED <<cancels, abandoned, order>>
       \/ /\ cancels # <<>>
          /\ cancels' = Tail(cancels)
          /\ IF Head(cancels) \in abandoned
             THEN UNCHANGED <<abandoned, order>> ELSE Abandon(Head(cancels))
          /\ UNCHANGED svc
    /\ UNCHANGED <<callVars, routes, requests, credit, inbox, stopped>>
    /\ UNCHANGED <<routerVars, replyVars>>

\* Fault: a skipped key stays in the set.
keepSkipped(k) == abandoned

\* A skip spends the cancel.
spend(k) == abandoned \ {k}

\* Recv, and the skip of an abandoned request.  A cancel that arrives while the
\* goroutine waits here is seen only after the request it is for.
RecvRequest ==
    /\ svc.pc = "recv"
    /\ requests # <<>>
    /\ LET req == Head(requests)
           skip == KeyOf(req) \in abandoned
       IN  /\ requests' = Tail(requests)
           /\ abandoned' = IF skip THEN spend(KeyOf(req)) ELSE abandoned
           /\ credit' = IF skip THEN [credit EXCEPT ![KeyOf(req)] = @ - 1] ELSE credit
           /\ svc' = IF skip THEN Idle ELSE [pc |-> "work", req |-> req, text |-> 0]
    /\ UNCHANGED <<callVars, routes, cancels, order, inbox, stopped>>
    /\ UNCHANGED <<routerVars, replyVars>>

\* transcribeChunk: one POST succeeds, the id it echoes the one that was sent.
TranscribeChunk ==
    /\ svc.pc = "work"
    /\ svc.text < svc.req.clip
    /\ svc' = [svc EXCEPT !.text = @ + 1]
    /\ UNCHANGED <<callVars, routes, requests, cancels, abandoned, order, credit,
                   inbox, stopped>>
    /\ UNCHANGED <<routerVars, replyVars>>

\* Fault: a clip that failed is asked for again, behind the others.
retryClip ==
    /\ svc.pc = "work"
    /\ svc.text < svc.req.clip
    /\ svc' = Idle
    /\ requests' = Append(requests, svc.req)
    /\ UNCHANGED <<callVars, routes, cancels, abandoned, order, credit,
                   inbox, stopped>>
    /\ UNCHANGED <<routerVars, replyVars>>

\* A POST fails, times out, answers badly or echoes another id: the clip has no
\* result, the chunks already joined are dropped, and nobody is told.
ChunkFails ==
    /\ svc.pc = "work"
    /\ svc.text < svc.req.clip
    /\ svc' = Idle
    /\ UNCHANGED <<callVars, routes, requests, cancels, abandoned, order, credit,
                   inbox, stopped>>
    /\ UNCHANGED <<routerVars, replyVars>>

\* Transcribe returns; an empty clip returns at once.
Transcribe ==
    /\ svc.pc = "work"
    /\ svc.text = svc.req.clip
    /\ svc' = [svc EXCEPT !.pc = "send"]
    /\ UNCHANGED <<callVars, routes, requests, cancels, abandoned, order, credit,
                   inbox, stopped>>
    /\ UNCHANGED <<routerVars, replyVars>>

\* The blocking send of the correlated result.
SendResult ==
    /\ svc.pc = "send"
    /\ Len(results) < ResultDepth
    /\ results' = Append(results, [call |-> svc.req.call, id |-> svc.req.id,
                                   clip |-> svc.req.clip, text |-> svc.text])
    /\ svc' = Idle
    /\ UNCHANGED <<callVars, routes, requests, cancels, abandoned, order, credit,
                   router, inbox, stopped>>
    /\ UNCHANGED replyVars

-----------------------------------------------------------------------------
(* STTRouter.Run.                                                          *)

\* A result is taken and its route looked up; the lock is released with it.
RouteLookup ==
    /\ router.pc = "recv"
    /\ results # <<>>
    /\ results' = Tail(results)
    /\ LET to == routes[CallSid[Head(results).call]]
       IN  router' = IF to = None THEN router
                     ELSE [pc |-> "send", res |-> Head(results), to |-> to]
    /\ UNCHANGED <<callVars, routes, cancels, credit, inbox, stopped>>
    /\ UNCHANGED <<serviceVars, replyVars>>

\* Fault: a full route is waited for.
deliverBlocking ==
    /\ router.pc = "send"
    /\ Len(inbox[router.to]) < RouteDepth
    /\ inbox' = [inbox EXCEPT ![router.to] = Append(@, router.res)]
    /\ router' = [pc |-> "recv"]
    /\ UNCHANGED <<callVars, routes, cancels, credit, results, stopped>>
    /\ UNCHANGED <<serviceVars, replyVars>>

\* The send does not wait: a full route drops the result.
Deliver ==
    /\ router.pc = "send"
    /\ inbox' = IF Len(inbox[router.to]) < RouteDepth
                THEN [inbox EXCEPT ![router.to] = Append(@, router.res)] ELSE inbox
    /\ router' = [pc |-> "recv"]
    /\ UNCHANGED <<callVars, routes, cancels, credit, results, stopped>>
    /\ UNCHANGED <<serviceVars, replyVars>>

-----------------------------------------------------------------------------
(* ReplyRouter.Route and Fail, which differ in the event they carry.       *)

\* The sink is looked up under the read lock; an unknown session is an error.
ReplyLookup(p, s) ==
    /\ reply[p] = None
    /\ reply' = [reply EXCEPT ![p] = sinks[s]]
    /\ UNCHANGED <<callVars, routes, sinks, cancels, credit, inbox, stopped>>
    /\ UNCHANGED <<serviceVars, routerVars>>

\* The lock is gone and the send goes to the sink that was found, if the
\* session, or the room left in its channel, takes it.  What a session makes of
\* the event is Session's part: here only who was found, and when, matters.
ReplySend(p) ==
    /\ reply[p] # None
    /\ reply' = [reply EXCEPT ![p] = None]
    /\ UNCHANGED <<callVars, routes, sinks, cancels, credit, inbox, stopped>>
    /\ UNCHANGED <<serviceVars, routerVars>>

\* The caller's context is done first.
ReplyGivesUp(p) ==
    /\ reply[p] # None
    /\ reply' = [reply EXCEPT ![p] = None]
    /\ UNCHANGED <<callVars, routes, sinks, cancels, credit, inbox, stopped>>
    /\ UNCHANGED <<serviceVars, routerVars>>

-----------------------------------------------------------------------------
(* The process context ends, and with it the two loops, each where a       *)
(* channel operation of it sees the context.                               *)

Stop ==
    /\ ~stopped
    /\ stopped' = TRUE
    /\ UNCHANGED <<callVars, routes, cancels, credit, inbox>>
    /\ UNCHANGED <<serviceVars, routerVars, replyVars>>

ServiceReturns ==
    /\ stopped
    /\ svc.pc \in {"recv", "send"}
    /\ svc' = [pc |-> "done"]
    /\ UNCHANGED <<callVars, routes, requests, cancels, abandoned, order, credit,
                   inbox, stopped>>
    /\ UNCHANGED <<routerVars, replyVars>>

RouterReturns ==
    /\ stopped
    /\ router.pc = "recv"
    /\ router' = [pc |-> "done"]
    /\ UNCHANGED <<callVars, routes, cancels, credit, results, inbox, stopped>>
    /\ UNCHANGED <<serviceVars, replyVars>>

-----------------------------------------------------------------------------
Service == DrainCancels \/ RecvRequest \/ TranscribeChunk \/ ChunkFails
           \/ Transcribe \/ SendResult \/ ServiceReturns
Router  == RouteLookup \/ Deliver \/ RouterReturns

Next ==
    \/ \E c \in Call : Register(c) \/ RegisterSink(c) \/ CloseSink(c) \/ Deregister(c)
                       \/ Drain(c)
    \/ \E c \in Call, clip \in Clips : Ask(c, clip)
    \/ \E c \in Call, id \in Id : Cancel(c, id)
    \/ Service
    \/ Router
    \/ \E p \in Replier : ReplySend(p) \/ ReplyGivesUp(p)
    \/ \E p \in Replier, s \in Sid : ReplyLookup(p, s)
    \/ Stop

Spec == Init /\ [][Next]_vars

\* The two goroutines keep running: a POST ends by the client's timeout, and a
\* send or receive that can proceed does.  No call is assumed to drain.
FairSpec == Spec /\ WF_vars(Service) /\ WF_vars(Router)

-----------------------------------------------------------------------------
(* The channels stay within their depths and every piece of the shared      *)
(* state has its type: stt.go's and sttrouter.go's channels, the abandoned  *)
(* set and its list, at most maxAbandoned long.                             *)
TypeOK ==
    /\ life \in [Call -> {"new", "routed", "live", "closing", "ended"}]
    /\ routes \in [Sid -> Call \cup {None}]
    /\ sinks \in [Sid -> Call \cup {None}]
    /\ newest \in [Sid -> [route : Call \cup {None}, sink : Call \cup {None}]]
    /\ asked \in [Call -> 0..MaxRequests]
    /\ requests \in Seq(Request) /\ Len(requests) <= RequestDepth
    /\ cancels \in Seq(Key) /\ Len(cancels) <= CancelDepth
    /\ abandoned \subseteq Key
    /\ order \in Seq(Key) /\ Len(order) <= MaxAbandoned
    /\ credit \in [Key -> Int]
    /\ svc \in [pc : {"drain", "recv", "done"}]
               \cup [pc : {"work", "send"}, req : Request, text : Nat]
    /\ results \in Seq(Result) /\ Len(results) <= ResultDepth
    /\ router \in [pc : {"recv", "done"}]
                  \cup [pc : {"send"}, res : Result, to : Call]
    /\ inbox \in [Call -> Seq(Result)]
    /\ \A c \in Call : Len(inbox[c]) <= RouteDepth
    /\ reply \in [Replier -> Call \cup {None}]
    /\ stopped \in BOOLEAN

\* The registries tell who is there: a session id leads to the call that
\* registered it last until that call goes itself, however many older calls of
\* the same id end meanwhile, and to nobody after that (sttrouter.go's
\* Deregister, reply_router.go's Close).
NewestCallIsReachable ==
    \A s \in Sid :
        LET r == newest[s].route
            k == newest[s].sink
        IN  /\ routes[s] = IF r # None /\ life[r] # "ended" THEN r ELSE None
            /\ sinks[s]  = IF k # None /\ life[k] = "live" THEN k ELSE None

\* The abandoned set never holds more than maxAbandoned keys, and only keys its
\* list can still evict (stt.go's run).
AbandonedIsBounded ==
    /\ Cardinality(abandoned) <= MaxAbandoned
    /\ abandoned \subseteq ToSet(order)

\* A cancel costs one request at most: no request is skipped on a cancel that
\* was already spent on another of the same key (stt.go's run).
CancelSkipsOnce == \A k \in Key : credit[k] >= 0

\* The abandoned set is a record of the cancels still to be honoured, each worth
\* one request, that never outgrows its bound (stt.go's run).
AbandonedIsSound == AbandonedIsBounded /\ CancelSkipsOnce

\* A result that reaches a call transcribes the whole clip: a clip one of whose
\* chunks failed has no result (stt.go's Transcribe).
ResultIsWhole ==
    \A c \in Call : \A i \in DOMAIN inbox[c] : inbox[c][i].text = inbox[c][i].clip

\* The result in the router's hand and the request in the service's, if any.
Routing == IF router.pc = "send" THEN <<router.res>> ELSE <<>>
Working == IF svc.pc \in {"work", "send"} THEN <<svc.req>> ELSE <<>>

\* What waits in a route and what is under way to it, the furthest first.
Pipeline(to) == inbox[to] \o Routing \o results \o Working \o requests

\* One call's clips stay in the order it asked for them from the request channel
\* to the route, whatever is skipped, fails or is dropped between (stt.go's run,
\* sttrouter.go's Run): a session never sees an answer overtake an earlier one.
ResultsInOrder ==
    \A to \in Call :
        LET p == Pipeline(to)
        IN  \A i, j \in DOMAIN p : i < j /\ p[i].call = p[j].call => p[i].id < p[j].id

\* A call gets whole transcriptions, in the order it asked for them.
ResultsAreFaithful == ResultIsWhole /\ ResultsInOrder

\* The request c made with that id is somewhere between its send and its route.
Pending(c, id) ==
    LET is(r) == r.call = c /\ r.id = id
    IN  \/ \E i \in DOMAIN requests : is(requests[i])
        \/ svc.pc \in {"work", "send"} /\ is(svc.req)
        \/ \E i \in DOMAIN results : is(results[i])
        \/ router.pc = "send" /\ is(router.res)

\* Every request leaves the pipeline (answered, skipped, failed or dropped) while
\* the process runs, even if some call never reads its results (sttrouter.go's
\* non-blocking send).
RequestsResolve ==
    \A c \in Call, id \in Id : Pending(c, id) ~> (~Pending(c, id) \/ stopped)
=============================================================================
