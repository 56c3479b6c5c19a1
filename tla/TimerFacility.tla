--------------------------- MODULE TimerFacility ---------------------------
(***************************************************************************)
(* telephony/timer.go: the named timers of one call, and the sequencer     *)
(* goroutine of telephony/session.go as their only client.                 *)
(*                                                                         *)
(* Three kinds of goroutine run here:                                      *)
(*   - the facility's run loop, which owns every map and serves one        *)
(*     command at a time from an unbuffered channel;                       *)
(*   - one goroutine per armed timer, which waits out its duration and     *)
(*     then asks the run loop to fire it;                                  *)
(*   - the sequencer, which issues Arm and Cancel from inside a handler    *)
(*     and IsCurrent for each completion it receives.                      *)
(*                                                                         *)
(* A command on the unbuffered channel and its reply are one step: the     *)
(* run loop does nothing else between receiving and answering.  A fire     *)
(* takes two steps, because the run loop can block on the completion       *)
(* channel in between.  Durations are left out: a timer may elapse at any  *)
(* moment after it is armed.                                               *)
(***************************************************************************)
EXTENDS Integers, Sequences, FiniteSets

CONSTANTS
    Names,             \* timer names
    Modes,             \* the client's states, for choosing its next handler
    InitialMode,
    InitiallyArmed,    \* names armed before the client starts to select
    Handlers,          \* what the client does: see HandlerType
    CompletionDepth,   \* capacity of the completion channel (1 in the code)
    MaxSettled,        \* maxSettledTimers
    MaxTimerID         \* bound: past this id no input arrives and no timer elapses

Command == [op : {"arm", "cancel"}, name : Names]

\* A handler runs on an outside input ("input") or on a timer's completion,
\* in mode `from`, issues its commands in order and leaves the client in `to`.
HandlerType ==
    [on : Names \cup {"input"}, from : Modes, to : Modes, cmds : Seq(Command)]

ASSUME TimerConstants ==
    /\ CompletionDepth \in Nat \ {0}
    /\ MaxSettled \in Nat
    /\ MaxTimerID \in Nat
    /\ IsFiniteSet(Names)
    /\ InitiallyArmed \in Seq(Names)
    /\ InitialMode \in Modes
    /\ Handlers \subseteq HandlerType
    /\ "input" \notin Names

VARIABLES
    nextTimerID,   \* generation counter, never reused
    activeTimers,  \* [Names -> generation], 0 for a missing entry
    cancelFuncs,   \* [Names -> generation whose context is still live], 0 for none
    settledTimers, \* FIFO of fired [name, gen]
    goroutines,    \* timer goroutines: [name, gen, pc]
    run,           \* the run loop: "select", "sending" or "exited"
    sending,       \* <<completion>> while run = "sending", else << >>
    completions,   \* the completion channel
    ctxDone,       \* the session's context has been cancelled
    pc,            \* the client: "select", "check", "dispatch", "handler", "stopped"
    held,          \* <<completion>> the client received, while it handles it
    todo,          \* commands the running handler has still to issue
    mode,          \* the client's state once the running handler returns
    wanted,        \* history: [Names -> generation the client last armed], 0 after Cancel
    dispatched     \* history: generations whose completion drove a dispatch

facilityVars == <<nextTimerID, activeTimers, cancelFuncs, settledTimers,
                  goroutines, run, sending, completions>>
clientVars == <<pc, held, todo, mode, wanted, dispatched>>
vars == <<facilityVars, ctxDone, clientVars>>

Completion == [name : Names, gen : Nat]

Goroutine == [name : Names, gen : Nat, pc : {"waiting", "firing"}]

----------------------------------------------------------------------------
(* The facility's maps. *)

\* A timer goroutine's own context is cancelled: its cancel func was called
\* (and dropped from the map), or the parent context is done.
Cancelled(g) == ctxDone \/ cancelFuncs[g.name] # g.gen

\* handleArm: supersede the old generation, register the new one, start its
\* goroutine.  The old goroutine's context is cancelled by losing its entry.
handleArm(n) ==
    LET id == nextTimerID + 1
    IN  /\ nextTimerID' = id
        /\ activeTimers' = [activeTimers EXCEPT ![n] = id]
        /\ cancelFuncs' = [cancelFuncs EXCEPT ![n] = id]
        /\ goroutines' = goroutines \cup {[name |-> n, gen |-> id, pc |-> "waiting"]}
        /\ wanted' = [wanted EXCEPT ![n] = id]
        /\ UNCHANGED settledTimers

\* handleCancel: stop the goroutine and forget the name.
handleCancel(n) ==
    /\ cancelFuncs' = [cancelFuncs EXCEPT ![n] = 0]
    /\ activeTimers' = [activeTimers EXCEPT ![n] = 0]
    /\ wanted' = [wanted EXCEPT ![n] = 0]
    /\ UNCHANGED <<nextTimerID, settledTimers, goroutines>>

\* evictSettledTimers, after one append: the queue is at most one too long, so
\* its loop runs at most once.  A name re-armed since keeps its newer entry.
Evicted(settled) == IF Len(settled) > MaxSettled THEN {settled[1]} ELSE {}

Trimmed(settled) == IF Len(settled) > MaxSettled THEN Tail(settled) ELSE settled

\* Fault: evict by name alone, a re-armed name included.
evictByName(settled) ==
    /\ settledTimers' = Trimmed(settled)
    /\ activeTimers' = [n \in Names |->
          IF \E e \in Evicted(settled) : e.name = n THEN 0 ELSE activeTimers[n]]

evictSettledTimers(settled) ==
    /\ settledTimers' = Trimmed(settled)
    /\ activeTimers' = [n \in Names |->
          IF [name |-> n, gen |-> activeTimers[n]] \in Evicted(settled)
          THEN 0 ELSE activeTimers[n]]

----------------------------------------------------------------------------
(* Timer goroutines. *)

\* Generations are unbounded in the code; this keeps the model finite.
WithinBound == nextTimerID <= MaxTimerID

\* The duration elapses: the goroutine goes on to offer its fire command.
Elapse(g) ==
    /\ g.pc = "waiting"
    /\ WithinBound
    /\ goroutines' = (goroutines \ {g}) \cup {[g EXCEPT !.pc = "firing"]}
    /\ UNCHANGED <<nextTimerID, activeTimers, cancelFuncs, settledTimers, run,
                   sending, completions, ctxDone, clientVars>>

\* Its context is cancelled: it exits without firing, from either select.
GoroutineExit(g) ==
    /\ Cancelled(g)
    /\ goroutines' = goroutines \ {g}
    /\ UNCHANGED <<nextTimerID, activeTimers, cancelFuncs, settledTimers, run,
                   sending, completions, ctxDone, clientVars>>

\* handleFireTimerIfCurrent.  A cancelled goroutine's command may still win
\* the select, so the generation is compared here.
handleFireTimerIfCurrent(g) ==
    /\ run = "select"
    /\ g.pc = "firing"
    /\ goroutines' = goroutines \ {g}
    /\ IF activeTimers[g.name] = g.gen
       THEN /\ evictSettledTimers(Append(settledTimers, [name |-> g.name, gen |-> g.gen]))
            /\ cancelFuncs' = [cancelFuncs EXCEPT ![g.name] = 0]
            /\ run' = "sending"
            /\ sending' = <<[name |-> g.name, gen |-> g.gen]>>
       ELSE UNCHANGED <<activeTimers, settledTimers, cancelFuncs, run, sending>>
    /\ UNCHANGED <<nextTimerID, completions, ctxDone, clientVars>>

----------------------------------------------------------------------------
(* The run loop, outside the commands. *)

\* The send inside handleFireTimerIfCurrent: it waits for a free slot.
SendCompletion ==
    /\ run = "sending"
    /\ Len(completions) < CompletionDepth
    /\ completions' = Append(completions, sending[1])
    /\ run' = "select"
    /\ sending' = << >>
    /\ UNCHANGED <<nextTimerID, activeTimers, cancelFuncs, settledTimers,
                   goroutines, ctxDone, clientVars>>

\* Fault: a plain channel send, which the context does not interrupt.
neverAbandon == FALSE /\ UNCHANGED vars

\* Fault: the abandoned completion is left in place.
abandonButKeep ==
    /\ run = "sending"
    /\ ctxDone
    /\ run' = "select"
    /\ UNCHANGED <<nextTimerID, activeTimers, cancelFuncs, settledTimers,
                   goroutines, sending, completions, ctxDone, clientVars>>

\* ... or is abandoned when the context is done.
AbandonCompletion ==
    /\ run = "sending"
    /\ ctxDone
    /\ run' = "select"
    /\ sending' = << >>
    /\ UNCHANGED <<nextTimerID, activeTimers, cancelFuncs, settledTimers,
                   goroutines, completions, ctxDone, clientVars>>

RunExit ==
    /\ run = "select"
    /\ ctxDone
    /\ run' = "exited"
    /\ cancelFuncs' = [n \in Names |-> 0]
    /\ UNCHANGED <<nextTimerID, activeTimers, settledTimers, goroutines,
                   sending, completions, ctxDone, clientVars>>

----------------------------------------------------------------------------
(* The client. *)

\* Start running handler h.
Enter(h) == /\ todo' = h.cmds
            /\ mode' = h.to
            /\ pc' = "handler"
            /\ held' = << >>

\* step(): an input other than a timer is selected and dispatched.
InputArrives(h) ==
    /\ pc = "select"
    /\ h.on = "input" /\ h.from = mode
    /\ WithinBound
    /\ Enter(h)
    /\ UNCHANGED <<facilityVars, ctxDone, wanted, dispatched>>

\* step(): a completion is received; dispatchTimerCompletion asks IsCurrent.
ReceiveCompletion ==
    /\ pc = "select"
    /\ completions # << >>
    /\ held' = <<Head(completions)>>
    /\ completions' = Tail(completions)
    /\ pc' = "check"
    /\ UNCHANGED <<nextTimerID, activeTimers, cancelFuncs, settledTimers,
                   goroutines, run, sending, ctxDone, todo, mode, wanted, dispatched>>

\* Fault: a received completion is dispatched without asking.
assumeCurrent ==
    /\ pc = "check"
    /\ run = "select"
    /\ pc' = "dispatch"
    /\ UNCHANGED <<facilityVars, ctxDone, held, todo, mode, wanted, dispatched>>

\* handleIsCurrent, and dispatchTimerCompletion dropping a superseded one.
IsCurrent ==
    /\ pc = "check"
    /\ run = "select"
    /\ IF activeTimers[held[1].name] = held[1].gen
       THEN /\ pc' = "dispatch"
            /\ UNCHANGED held
       ELSE /\ pc' = "select"
            /\ held' = << >>
    /\ UNCHANGED <<facilityVars, ctxDone, todo, mode, wanted, dispatched>>

\* dispatch: the handler for (mode, timer), or the no-op of handleUnexpected,
\* handleNotImplemented, handleAbsorb and handleClosed when none is wired.
DispatchTimer ==
    /\ pc = "dispatch"
    /\ dispatched' = dispatched \cup {held[1].gen}
    /\ LET wired == {h \in Handlers : h.on = held[1].name /\ h.from = mode}
       IN  \/ /\ wired = {}
              /\ pc' = "select"
              /\ held' = << >>
              /\ UNCHANGED <<todo, mode>>
           \/ \E h \in wired : Enter(h)
    /\ UNCHANGED <<facilityVars, ctxDone, wanted>>

\* Arm: the handler's next command, in lockstep with the run loop.
Arm ==
    /\ pc = "handler" /\ todo # << >> /\ todo[1].op = "arm"
    /\ run = "select"
    /\ handleArm(todo[1].name)
    /\ todo' = Tail(todo)
    /\ UNCHANGED <<run, sending, completions, ctxDone, pc, held, mode, dispatched>>

Cancel ==
    /\ pc = "handler" /\ todo # << >> /\ todo[1].op = "cancel"
    /\ run = "select"
    /\ handleCancel(todo[1].name)
    /\ todo' = Tail(todo)
    /\ UNCHANGED <<run, sending, completions, ctxDone, pc, held, mode, dispatched>>

\* The handler returns and the sequencer goes back to its select.
HandlerReturns ==
    /\ pc = "handler" /\ todo = << >>
    /\ pc' = "select"
    /\ UNCHANGED <<facilityVars, ctxDone, held, todo, mode, wanted, dispatched>>

\* Arm, Cancel and IsCurrent return at once when the context is done.
CommandAbandoned ==
    /\ ctxDone
    /\ \/ /\ pc = "handler" /\ todo # << >>
          /\ todo' = Tail(todo)
          /\ UNCHANGED <<pc, held>>
       \/ /\ pc = "check"
          /\ pc' = "select"
          /\ held' = << >>
          /\ UNCHANGED todo
    /\ UNCHANGED <<facilityVars, ctxDone, mode, wanted, dispatched>>

\* step() selects ctx.Done(): the sequencer returns.
ClientStops ==
    /\ pc = "select"
    /\ ctxDone
    /\ pc' = "stopped"
    /\ UNCHANGED <<facilityVars, ctxDone, held, todo, mode, wanted, dispatched>>

\* Session.Close, from another goroutine.
CancelContext ==
    /\ ~ctxDone
    /\ ctxDone' = TRUE
    /\ UNCHANGED <<facilityVars, clientVars>>

----------------------------------------------------------------------------

\* Start: the client's first Arm calls are served before it selects.
Init ==
    /\ nextTimerID = 1
    /\ activeTimers = [n \in Names |-> 0]
    /\ cancelFuncs = [n \in Names |-> 0]
    /\ settledTimers = << >>
    /\ goroutines = {}
    /\ run = "select"
    /\ sending = << >>
    /\ completions = << >>
    /\ ctxDone = FALSE
    /\ pc = "handler"
    /\ held = << >>
    /\ todo = [i \in 1..Len(InitiallyArmed) |-> [op |-> "arm", name |-> InitiallyArmed[i]]]
    /\ mode = InitialMode
    /\ wanted = [n \in Names |-> 0]
    /\ dispatched = {}

RunStep == SendCompletion \/ AbandonCompletion \/ RunExit

GoroutineStep == \E g \in goroutines :
    Elapse(g) \/ GoroutineExit(g) \/ handleFireTimerIfCurrent(g)

ClientStep ==
    \/ \E h \in Handlers : InputArrives(h)
    \/ ReceiveCompletion \/ IsCurrent \/ DispatchTimer
    \/ Arm \/ Cancel \/ HandlerReturns
    \/ CommandAbandoned \/ ClientStops

Next == RunStep \/ GoroutineStep \/ ClientStep \/ CancelContext

Spec == Init /\ [][Next]_vars

\* Go schedules every runnable goroutine: the run loop, each timer goroutine
\* and the sequencer keep making the steps they can make.  A select chooses at
\* random among its ready cases, so one that is ready again and again, as
\* ctx.Done() is once closed, is taken in the end: strong fairness.  Nothing
\* obliges an input to arrive or anyone to close the session.
ClientProgress ==
    ReceiveCompletion \/ IsCurrent \/ DispatchTimer \/ Arm \/ Cancel
    \/ HandlerReturns \/ CommandAbandoned

FairSpec ==
    /\ Spec
    /\ WF_vars(SendCompletion \/ AbandonCompletion)
    /\ WF_vars(GoroutineStep)
    /\ WF_vars(ClientProgress)
    /\ SF_vars(RunExit)
    /\ SF_vars(ClientStops)

----------------------------------------------------------------------------
(* Properties. *)

\* Types: the run loop holds a completion exactly while it is sending one, and
\* the client holds one while it decides what to do with it.
TypeOK ==
    /\ nextTimerID \in Nat
    /\ activeTimers \in [Names -> Nat]
    /\ cancelFuncs \in [Names -> Nat]
    /\ settledTimers \in Seq(Completion)
    /\ goroutines \subseteq Goroutine
    /\ run \in {"select", "sending", "exited"}
    /\ sending \in Seq(Completion)
    /\ (run = "sending") <=> (sending # << >>)
    /\ completions \in Seq(Completion)
    /\ ctxDone \in BOOLEAN
    /\ pc \in {"select", "check", "dispatch", "handler", "stopped"}
    /\ held \in Seq(Completion)
    /\ pc \in {"check", "dispatch"} => held # << >>
    /\ todo \in Seq(Command)
    /\ mode \in Modes
    /\ wanted \in [Names -> Nat]
    /\ dispatched \subseteq Nat

(***************************************************************************)
(* A completion that drives a handler is the one the sequencer is waiting  *)
(* for: the timer it last armed under that name and has not cancelled      *)
(* since, however the fire, the cancel and the re-arm interleaved.         *)
(***************************************************************************)
NoStaleDispatch ==
    pc = "dispatch" => wanted[held[1].name] = held[1].gen

(***************************************************************************)
(* One arming drives at most one dispatch: a generation being dispatched   *)
(* has not been dispatched before.                                         *)
(***************************************************************************)
DispatchedAtMostOnce ==
    pc = "dispatch" => held[1].gen \notin dispatched

\* Generation g of name n is somewhere on its way to the sequencer.
Pending(n, g) ==
    \/ \E r \in goroutines : r.name = n /\ r.gen = g /\ ~Cancelled(r)
    \/ \E i \in 1..Len(sending) : sending[i] = [name |-> n, gen |-> g]
    \/ \E i \in 1..Len(completions) : completions[i] = [name |-> n, gen |-> g]
    \/ \E i \in 1..Len(held) : held[i] = [name |-> n, gen |-> g]

(***************************************************************************)
(* An armed timer is never lost: until it drives a dispatch it has a live  *)
(* goroutine or a completion in flight, and the facility still reports it  *)
(* current, the eviction of settled entries notwithstanding.               *)
(***************************************************************************)
ArmedTimerNotLost ==
    \A n \in Names :
        (wanted[n] # 0 /\ wanted[n] \notin dispatched /\ ~ctxDone) =>
            Pending(n, wanted[n]) /\ activeTimers[n] = wanted[n]

(***************************************************************************)
(* One arming, one dispatch: a timer that is armed and not cancelled or    *)
(* re-armed drives the sequencer once, neither lost on its way (timer.go's *)
(* run loop and its eviction of settled entries) nor delivered twice.      *)
(***************************************************************************)
ArmingDrivesOneDispatch == DispatchedAtMostOnce /\ ArmedTimerNotLost

(***************************************************************************)
(* "When the context is cancelled, all armed timers' goroutines will       *)
(* exit": and so do the run loop and the sequencer, whatever each was      *)
(* blocked on.                                                             *)
(***************************************************************************)
AllExit == run = "exited" /\ goroutines = {} /\ pc = "stopped"
CloseUnblocksEveryone == ctxDone ~> AllExit

(***************************************************************************)
(* "must never block": a handler's Arm or Cancel, or an IsCurrent, never   *)
(* finds the run loop waiting on a completion channel that only this same  *)
(* sequencer can drain.                                                    *)
(***************************************************************************)
SequencerBlocked == (pc = "handler" /\ todo # << >>) \/ pc = "check"
RunLoopBlocked == run = "sending" /\ Len(completions) = CompletionDepth
NoMutualWait == ctxDone \/ ~(SequencerBlocked /\ RunLoopBlocked)

============================================================================
