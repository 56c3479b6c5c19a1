-------------------------- MODULE SupervisorProofs --------------------------
(***************************************************************************)
(* TLAPS proofs about Supervisor, for any fleet, any set of ports and of   *)
(* configurations, and any number of children, commands and sessions.      *)
(***************************************************************************)
EXTENDS Supervisor, TLAPS

----------------------------------------------------------------------------
(* Type correctness. *)

Lives == {"unborn", "run", "workers", "gone"}
Task  == [pc : Pcs, pid : Pid \cup {None, Alien}, ret : Rets]
Walk  == [pc : {"idle", "kill", "exit"}, snap : [Server -> Pid \cup {None}], todo : SUBSET Server]

\* The type invariant but for the processes that tasks hold, in two parts.
HostShape ==
    /\ life \in [Pid -> Lives] /\ owner \in [Pid -> Server \cup {None}]
    /\ reaped \in [Pid -> BOOLEAN] /\ listen \in [Pid -> SUBSET Port]
    /\ foreign \subseteq Port /\ service \subseteq Detached /\ stale \subseteq Source

EngineShape ==
    /\ cfg \in Configs /\ disk \in Configs \cup {None, Bad}
    /\ procs \in [Server -> Pid \cup {None}]
    /\ phase \in {"off", "prompt", "verb", "parked", "bye"} /\ mode \in {"repl", "auto"}
    /\ task \in [Server -> Task]
    /\ all \in [{"main", "sig"} -> Walk]
    /\ mine \subseteq Pid

\* The stages at which a task holds a process.
Handles == {"register", "probe", "warm", "health", "ports", "stop"}

\* A task moves on.
LEMMA NextMoves ==
    ASSUME task \in [Server -> Task], NEW s \in Server, NEW pc \in Pcs, next(s, pc)
    PROVE  /\ task' \in [Server -> Task]
           /\ task'[s].pc = pc /\ task'[s].pid = task[s].pid /\ task'[s].ret = task[s].ret
           /\ \A t \in Server \ {s} : task'[t] = task[t]
  BY DEF next, Task

\* A task moves on with another process or purpose.
LEMMA GoMoves ==
    ASSUME task \in [Server -> Task], NEW s \in Server, NEW pc \in Pcs,
           NEW pid \in Pid \cup {None, Alien}, NEW ret \in Rets, go(s, pc, pid, ret)
    PROVE  /\ task' \in [Server -> Task]
           /\ task'[s].pc = pc /\ task'[s].pid = pid /\ task'[s].ret = ret
           /\ \A t \in Server \ {s} : task'[t] = task[t]
  BY DEF go, Task

\* A new verb's tasks.
LEMMA DispatchType ==
    ASSUME NEW op, NEW arg, NEW c
    PROVE  /\ dispatch(op, arg, c) \in [Server -> Task]
           /\ \A s \in Server : dispatch(op, arg, c)[s].pc \in {"idle", "up", "build", "queued", "down"}
           /\ \A s \in Server : dispatch(op, arg, c)[s].pc = firstPc(op, arg, c, s)
<1>1. \A s \in Server : firstPc(op, arg, c, s) \in {"idle", "up", "build", "queued", "down"}
  BY DEF firstPc
<1> QED
  BY <1>1 DEF dispatch, Idle, Task, Pcs, Rets

\* The tasks of no verb.
LEMMA IdleType == [s \in Server |-> Idle] \in [Server -> Task]
  BY DEF Idle, Task, Pcs, Rets

\* No shutdown.
LEMMA QuietType ==
    /\ Quiet \in Walk
    /\ [x \in {"main", "sig"} |-> Quiet] \in [{"main", "sig"} -> Walk]
  BY DEF Quiet, Walk

\* What the host does by itself.
HostMove == HostStep \/ \E p \in Pid : Reap(p)

\* The host keeps its shape.
LEMMA HostMoveKeepsHost ==
    ASSUME HostShape, HostMove
    PROVE  HostShape'
<1> USE SupervisorConstants DEF HostShape, Lives
<1>1. ASSUME NEW p \in Pid, ChildExits(p) PROVE HostShape'
  BY <1>1 DEF ChildExits, leaderEnds
<1>2. ASSUME NEW p \in Pid, ServiceStarts(p) PROVE HostShape'
  BY <1>2 DEF ServiceStarts
<1>3. ASSUME NEW p \in Pid, NEW port \in Port, ChildListens(p, port) PROVE HostShape'
  BY <1>3 DEF ChildListens
<1>4. ASSUME NEW s \in Server, ServiceDies(s) \/ EditSource(s) PROVE HostShape'
  BY <1>4 DEF ServiceDies, EditSource, hostVars
<1>5. ASSUME NEW s \in Server, ColdDown(s) PROVE HostShape'
  <2>1. CASE s \in Detached
    BY <1>5, <2>1 DEF ColdDown
  <2>2. CASE s \notin Detached
    BY <1>5, <2>2 DEF ColdDown, killGroup
  <2> QED
    BY <2>1, <2>2
<1>6. ASSUME NEW port \in Port, ForeignTakes(port) \/ ForeignLeaves(port) PROVE HostShape'
  BY <1>6 DEF ForeignTakes, ForeignLeaves
<1>7. ASSUME NEW c \in Configs \cup {Bad}, EditConfig(c) PROVE HostShape'
  BY <1>7 DEF EditConfig, hostVars
<1>8. ASSUME NEW p \in Pid, Reap(p) PROVE HostShape'
  BY <1>8 DEF Reap
<1> QED
  BY <1>1, <1>2, <1>3, <1>4, <1>5, <1>6, <1>7, <1>8 DEF HostMove, HostStep

\* The engine takes no part in it, but for the edit of its file.
LEMMA HostMoveEngine ==
    ASSUME HostMove
    PROVE  /\ UNCHANGED <<cfg, procs, replVars, task, all, mine, strays, left, typed, sessions>>
           /\ disk' = disk \/ disk' \in Configs \cup {Bad}
<1> USE DEF engineVars, cfgVars
<1>1. ASSUME NEW p \in Pid, ChildExits(p) \/ ServiceStarts(p)
      PROVE  UNCHANGED engineVars
  BY <1>1 DEF ChildExits, ServiceStarts
<1>2. ASSUME NEW p \in Pid, NEW port \in Port, ChildListens(p, port)
      PROVE  UNCHANGED engineVars
  BY <1>2 DEF ChildListens
<1>3. ASSUME NEW s \in Server, ServiceDies(s) \/ EditSource(s) \/ ColdDown(s)
      PROVE  UNCHANGED engineVars
  BY <1>3 DEF ServiceDies, EditSource, ColdDown
<1>4. ASSUME NEW port \in Port, ForeignTakes(port) \/ ForeignLeaves(port)
      PROVE  UNCHANGED engineVars
  BY <1>4 DEF ForeignTakes, ForeignLeaves
<1>5. ASSUME NEW c \in Configs \cup {Bad}, EditConfig(c)
      PROVE  /\ UNCHANGED <<cfg, procs, replVars, task, all, mine, strays, left, typed, sessions>>
             /\ disk' \in Configs \cup {Bad}
  BY <1>5 DEF EditConfig
<1>6. ASSUME NEW p \in Pid, Reap(p)
      PROVE  UNCHANGED engineVars
  BY <1>6 DEF Reap
<1> QED
  BY <1>1, <1>2, <1>3, <1>4, <1>5, <1>6 DEF HostMove, HostStep

----------------------------------------------------------------------------
(* The tasks of a verb. *)

\* A stray may be signalled in the name of this server.
allowed(s) ==
    \/ verb.op = "dead"
    \/ verb.op \in {"down", "bounce"} /\ (verb.arg # All \/ cfg[s] = "enabled")

\* The task stands before the teardown of the registered child, or before its
\* verdict, with the process it took from procs.
holds(s) ==
    \/ task[s].pc = "perform" /\ task[s].ret = "build"
    \/ task[s].pc \in {"stop", "verify"} /\ task[s].ret # "foreign"

\* The task has seen that its server has no live child.
cleared(s) ==
    \/ task[s].pc \in {"conflict", "staleCold", "launch"}
    \/ task[s].pc = "perform" /\ task[s].ret \notin {"owned", "build", "down"}
    \/ task[s].pc = "replace" /\ task[s].ret # "down"

\* What each stage of a task says of its server and of its verb.
staged(s) ==
    /\ task[s].pc \in Handles \/ holds(s) => task[s].pid # None
    /\ task[s].pc \in {"command", "wait"} => s \in Detached
    /\ task[s].pc = "teardownOne" => task[s].ret # "foreign"
    /\ task[s].pc = "queued" => verb.op \in {"down", "dead", "bounce"}
    /\ task[s].pc \in {"down", "observe"} => allowed(s)
    /\ task[s].pc = "stop" /\ task[s].ret = "foreign" => allowed(s)

StageInv == \A s \in Server : staged(s)

\* The parts make up the type invariant.
LEMMA TypeParts == HostShape /\ EngineShape /\ StageInv => TypeOK
  BY DEF TypeOK, HostShape, EngineShape, StageInv, staged, Handles, Lives, Task, Walk

\* No live child of the server is known of here.
bare(s) == s \in Detached \/ ~Ours(s) \/ cleared(s)

(***************************************************************************)
(* The steps of a task but Launch, Register, Teardown, SignalFails and      *)
(* Verify start and end no process.  Such a step drops the registration, or *)
(* comes to a stage that relies on there being no live child, only where   *)
(* there is none.                                                          *)
(***************************************************************************)
soft(s) ==
    /\ phase = "verb"
    /\ UNCHANGED <<life, owner, reaped, mine, strays, left, cfgVars, replVars, all>>
    /\ task' \in [Server -> Task] /\ \A t \in Server \ {s} : task'[t] = task[t]
    /\ \/ procs' = procs
       \/ procs' = [procs EXCEPT ![s] = None] /\ bare(s) /\ ~holds(s)'
    /\ cleared(s)' => bare(s)
    /\ task[s].pc # "register" /\ task'[s].pc # "register"
    /\ holds(s)' => \/ task'[s].pid = procs[s] /\ procs[s] # None
                    \/ task'[s].pid = task[s].pid /\ holds(s)
    /\ staged(s)'

\* A step that only moves the task.
LEMMA SoftMoves ==
    ASSUME EngineShape, NEW s \in Server, phase = "verb",
           UNCHANGED <<life, owner, reaped, mine, strays, left, procs>>, taskFrame,
           task' \in [Server -> Task], \A t \in Server \ {s} : task'[t] = task[t],
           task[s].pc # "register", task'[s].pc # "register",
           cleared(s)' => bare(s),
           holds(s)' => \/ task'[s].pid = procs[s] /\ procs[s] # None
                        \/ task'[s].pid = task[s].pid /\ holds(s),
           staged(s)'
    PROVE  soft(s)
  BY DEF soft, taskFrame, cfgVars

\* The ones that end there.
LEMMA SoftEnds ==
    ASSUME EngineShape, NEW s \in Server, phase = "verb",
           UNCHANGED <<life, owner, reaped, mine, strays, left, procs>>, taskFrame,
           task' \in [Server -> Task], \A t \in Server \ {s} : task'[t] = task[t],
           task[s].pc # "register", task'[s].pc \in {"ok", "err"}
    PROVE  soft(s)
<1>1. staged(s)' /\ ~holds(s)' /\ ~cleared(s)' /\ task'[s].pc # "register"
  BY DEF staged, holds, cleared, Handles
<1> QED
  BY <1>1, SoftMoves

\* The steps of up and of build.
LEMMA UpIsSoft ==
    ASSUME EngineShape, StageInv, NEW s \in Server,
           \/ UpOne(s) \/ CheckPortConflict(s) \/ RebuildIfStale(s) \/ BuildVerb(s)
           \/ PerformBuild(s) \/ ReplaceBinary(s) \/ LaunchFails(s)
           \/ EnsureHealthProbeBuilt(s) \/ WarmUp(s) \/ PollReady(s) \/ PortsVerdict(s)
    PROVE  soft(s)
<1>0. task \in [Server -> Task] /\ staged(s) /\ task[s] \in Task
      /\ procs[s] \in Pid \cup {None} /\ task[s].pid \in Pid \cup {None, Alien}
      /\ task[s].ret \in Rets
  BY DEF EngineShape, StageInv, Task
<1> USE DEF at
<1>1. CASE UpOne(s)
  <2>1. PICK pc \in {"staleOwned", "ok", "conflict"} : next(s, pc) /\ (pc = "conflict" => ~Ours(s))
    BY <1>1 DEF UpOne
  <2>2. /\ task' \in [Server -> Task] /\ task'[s].pc = pc
        /\ \A t \in Server \ {s} : task'[t] = task[t]
    BY <1>0, <2>1, NextMoves DEF Pcs
  <2>3. staged(s)' /\ ~holds(s)' /\ (cleared(s)' => bare(s))
    BY <2>1, <2>2 DEF staged, holds, cleared, bare, Handles
  <2> QED
    BY <1>1, <2>1, <2>2, <2>3, SoftMoves DEF UpOne, hostVars
<1>2. CASE CheckPortConflict(s)
  <2>1. PICK pc \in {"err", "staleCold", "launch"} : next(s, pc)
    BY <1>2 DEF CheckPortConflict
  <2>2. /\ task' \in [Server -> Task] /\ task'[s].pc = pc
        /\ \A t \in Server \ {s} : task'[t] = task[t]
    BY <1>0, <2>1, NextMoves DEF Pcs
  <2>3. staged(s)' /\ ~holds(s)' /\ bare(s)
    BY <1>2, <2>1, <2>2 DEF CheckPortConflict, staged, holds, cleared, bare, Handles
  <2> QED
    BY <1>2, <2>1, <2>2, <2>3, SoftMoves DEF CheckPortConflict, hostVars
<1>3. CASE RebuildIfStale(s)
  <2>1. CASE \E pc \in {"err", "ok"} : next(s, pc)
    <3>1. PICK pc \in {"err", "ok"} : next(s, pc)
      BY <2>1
    <3>2. /\ task' \in [Server -> Task] /\ task'[s].pc = pc
          /\ \A t \in Server \ {s} : task'[t] = task[t]
      BY <1>0, <3>1, NextMoves DEF Pcs
    <3> QED
      BY <1>3, <3>1, <3>2, SoftEnds DEF RebuildIfStale, hostVars
  <2>2. CASE task[s].pc = "staleCold" /\ next(s, "launch")
    <3>1. /\ task' \in [Server -> Task] /\ task'[s].pc = "launch"
          /\ \A t \in Server \ {s} : task'[t] = task[t]
      BY <1>0, <2>2, NextMoves DEF Pcs
    <3>2. staged(s)' /\ ~holds(s)' /\ bare(s)
      BY <2>2, <3>1 DEF staged, holds, cleared, bare, Handles
    <3> QED
      BY <1>3, <2>2, <3>1, <3>2, SoftMoves DEF RebuildIfStale, hostVars
  <2>3. CASE \E ret \in {"owned", "cold"} :
                 go(s, "perform", None, ret) /\ (ret = "cold" => task[s].pc = "staleCold")
    <3>1. PICK ret \in {"owned", "cold"} :
                 go(s, "perform", None, ret) /\ (ret = "cold" => task[s].pc = "staleCold")
      BY <2>3
    <3>2. /\ task' \in [Server -> Task] /\ task'[s].pc = "perform" /\ task'[s].ret = ret
          /\ \A t \in Server \ {s} : task'[t] = task[t]
      BY <1>0, <3>1, GoMoves DEF Pcs, Rets
    <3>3. staged(s)' /\ ~holds(s)' /\ (cleared(s)' => bare(s))
      BY <3>1, <3>2 DEF staged, holds, cleared, bare, Handles
    <3> QED
      BY <1>3, <3>1, <3>2, <3>3, SoftMoves DEF RebuildIfStale, hostVars
  <2> QED
    BY <1>3, <2>1, <2>2, <2>3 DEF RebuildIfStale
<1>4. CASE BuildVerb(s)
  <2>1. CASE Ours(s)
    <3>1. /\ task' \in [Server -> Task] /\ task'[s].pc = "perform" /\ task'[s].ret = "build"
          /\ task'[s].pid = procs[s] /\ procs[s] # None
          /\ \A t \in Server \ {s} : task'[t] = task[t]
      BY <1>0, <1>4, <2>1, GoMoves DEF BuildVerb, Pcs, Rets, Ours
    <3>2. staged(s)' /\ ~cleared(s)'
      BY <3>1 DEF staged, holds, cleared, Handles
    <3> QED
      BY <1>4, <3>1, <3>2, SoftMoves DEF BuildVerb, hostVars
  <2>2. CASE ~Ours(s)
    <3>1. /\ task' \in [Server -> Task] /\ task'[s].pc = "perform" /\ task'[s].ret = "down"
          /\ \A t \in Server \ {s} : task'[t] = task[t]
      BY <1>0, <1>4, <2>2, GoMoves DEF BuildVerb, Pcs, Rets
    <3>2. staged(s)' /\ ~cleared(s)' /\ ~holds(s)'
      BY <3>1 DEF staged, holds, cleared, Handles
    <3> QED
      BY <1>4, <3>1, <3>2, SoftMoves DEF BuildVerb, hostVars
  <2> QED
    BY <2>1, <2>2
<1>5. CASE PerformBuild(s)
  <2>1. PICK pc \in {"err", "ok", "teardownOne", "stop", "replace"} :
           /\ next(s, pc)
           /\ pc = "teardownOne" => task[s].ret = "owned"
           /\ pc = "stop" => task[s].ret = "build"
           /\ pc = "replace" => task[s].ret \notin {"owned", "build"}
    BY <1>5 DEF PerformBuild
  <2>2. /\ task' \in [Server -> Task] /\ task'[s].pc = pc /\ task'[s].ret = task[s].ret
        /\ task'[s].pid = task[s].pid /\ \A t \in Server \ {s} : task'[t] = task[t]
    BY <1>0, <2>1, NextMoves DEF Pcs
  <2>3. task[s].pc = "perform"
    BY <1>5 DEF PerformBuild
  <2>4. holds(s)' => holds(s)
    BY <2>1, <2>2, <2>3 DEF holds
  <2>5. cleared(s)' => bare(s)
    BY <2>1, <2>2, <2>3 DEF cleared, bare
  <2>6. staged(s)'
    BY <1>0, <2>1, <2>2, <2>3 DEF staged, holds, Handles
  <2> QED
    BY <1>5, <2>1, <2>2, <2>3, <2>4, <2>5, <2>6, SoftMoves DEF PerformBuild, hostVars
<1>6. CASE ReplaceBinary(s)
  <2>1. PICK pc \in {"err", "ok", "launch"} : next(s, pc) /\ (pc = "launch" => task[s].ret # "down")
    BY <1>6 DEF ReplaceBinary
  <2>2. /\ task' \in [Server -> Task] /\ task'[s].pc = pc
        /\ \A t \in Server \ {s} : task'[t] = task[t]
    BY <1>0, <2>1, NextMoves DEF Pcs
  <2>3. staged(s)' /\ ~holds(s)' /\ (cleared(s)' => bare(s))
    BY <1>6, <2>1, <2>2 DEF ReplaceBinary, staged, holds, cleared, bare, Handles
  <2> QED
    BY <1>6, <2>1, <2>2, <2>3, SoftMoves DEF ReplaceBinary, hostVars
<1>7. CASE LaunchFails(s)
  <2>1. /\ task' \in [Server -> Task] /\ task'[s].pc = "err"
        /\ \A t \in Server \ {s} : task'[t] = task[t]
    BY <1>0, <1>7, NextMoves DEF LaunchFails, Pcs
  <2> QED
    BY <1>7, <2>1, SoftEnds DEF LaunchFails, hostVars
<1>8. CASE EnsureHealthProbeBuilt(s)
  <2>1. PICK pc \in {"err", "warm"} : next(s, pc)
    BY <1>8 DEF EnsureHealthProbeBuilt
  <2>2. /\ task' \in [Server -> Task] /\ task'[s].pc = pc /\ task'[s].pid = task[s].pid
        /\ \A t \in Server \ {s} : task'[t] = task[t]
    BY <1>0, <2>1, NextMoves DEF Pcs
  <2>3. staged(s)' /\ ~holds(s)' /\ ~cleared(s)'
    BY <1>0, <1>8, <2>1, <2>2 DEF EnsureHealthProbeBuilt, staged, holds, cleared, Handles
  <2> QED
    BY <1>8, <2>1, <2>2, <2>3, SoftMoves DEF EnsureHealthProbeBuilt, hostVars
<1>9. CASE WarmUp(s) \/ PollReady(s)
  <2>1. task[s].pc \in {"warm", "health"}
    BY <1>9 DEF WarmUp, PollReady
  <2>2. /\ task' \in [Server -> Task] /\ task'[s].pc \in {"health", "ports"}
        /\ task'[s].pid = task[s].pid /\ \A t \in Server \ {s} : task'[t] = task[t]
    <3>1. CASE next(s, "health")
      BY <1>0, <3>1, NextMoves DEF Pcs
    <3>2. CASE \E ret \in {"ready", "notReady"} : go(s, "ports", task[s].pid, ret)
      BY <1>0, <3>2, GoMoves DEF Pcs, Rets
    <3> QED
      BY <1>9, <3>1, <3>2 DEF WarmUp, PollReady
  <2>3. staged(s)' /\ ~holds(s)' /\ ~cleared(s)'
    BY <1>0, <2>1, <2>2 DEF staged, holds, cleared, Handles
  <2> QED
    BY <1>9, <2>1, <2>2, <2>3, SoftMoves DEF WarmUp, PollReady, hostVars
<1>10. CASE PortsVerdict(s)
  <2>1. PICK pc \in {"err", "ok"} : next(s, pc)
    BY <1>10 DEF PortsVerdict
  <2>2. /\ task' \in [Server -> Task] /\ task'[s].pc = pc
        /\ \A t \in Server \ {s} : task'[t] = task[t]
    BY <1>0, <2>1, NextMoves DEF Pcs
  <2> QED
    BY <1>10, <2>1, <2>2, SoftEnds DEF PortsVerdict, hostVars
<1> QED
  BY <1>1, <1>2, <1>3, <1>4, <1>5, <1>6, <1>7, <1>8, <1>9, <1>10

\* What follows a teardown is soft, where the teardown was of nothing or has
\* been verified.
LEMMA SoftTeardown ==
    ASSUME EngineShape, NEW s \in Server, phase = "verb",
           UNCHANGED <<life, owner, reaped, mine, strays, left>>, taskFrame,
           NEW ok \in BOOLEAN, afterTeardown(s, ok),
           task[s].pc # "register", task[s].ret # "foreign" => bare(s)
    PROVE  soft(s)
<1>1. PICK pc \in {"err", "ok", "replace"} :
         next(s, pc) /\ (pc = "replace" => task[s].ret \in {"owned", "build"})
  BY DEF afterTeardown
<1>2. /\ task' \in [Server -> Task] /\ task'[s].pc = pc /\ task'[s].ret = task[s].ret
      /\ \A t \in Server \ {s} : task'[t] = task[t]
  BY <1>1, NextMoves DEF EngineShape, Pcs
<1>3. staged(s)' /\ ~holds(s)' /\ (cleared(s)' => task[s].ret # "foreign")
  BY <1>1, <1>2 DEF staged, holds, cleared, Handles
<1>4. \/ procs' = procs
      \/ procs' = [procs EXCEPT ![s] = None] /\ task[s].ret # "foreign"
  BY DEF afterTeardown
<1> QED
  BY <1>1, <1>2, <1>3, <1>4 DEF soft, taskFrame, cfgVars

\* The steps of down and of dead.
LEMMA DownIsSoft ==
    ASSUME EngineShape, StageInv, NEW s \in Server,
           \/ DownOne(s) \/ TeardownOne(s) \/ Observe(s) \/ FleetDown(s)
           \/ DetachedCommand(s) \/ DetachedWait(s)
    PROVE  soft(s)
<1>0. task \in [Server -> Task] /\ staged(s) /\ task[s] \in Task
      /\ procs[s] \in Pid \cup {None} /\ task[s].pid \in Pid \cup {None, Alien}
      /\ task[s].ret \in Rets
  BY DEF EngineShape, StageInv, Task
<1>a. ASSUME taskFrame PROVE allowed(s)' <=> allowed(s)
  BY <1>a DEF taskFrame, allowed, cfgVars, replVars
<1>b. \A h \in holderOf(s) : h \in Pid \cup {Alien} /\ h # None
  BY SupervisorConstants DEF holderOf, Pid
<1> USE DEF at
<1>1. CASE DownOne(s)
  <2>0. phase = "verb" /\ task[s].pc = "down" /\ taskFrame
        /\ UNCHANGED <<life, owner, reaped, mine, strays, left>>
    BY <1>1 DEF DownOne, hostVars
  <2>1. CASE ~Ours(s) /\ s \in Detached /\ go(s, "command", None, "leave") /\ UNCHANGED procs
    <3>1. /\ task' \in [Server -> Task] /\ task'[s].pc = "command"
          /\ \A t \in Server \ {s} : task'[t] = task[t]
      BY <1>0, <2>1, GoMoves DEF Pcs, Rets
    <3>2. staged(s)' /\ ~holds(s)' /\ ~cleared(s)'
      BY <2>1, <3>1 DEF staged, holds, cleared, Handles
    <3> QED
      BY <2>0, <2>1, <3>1, <3>2, SoftMoves
  <2>2. CASE ~Ours(s) /\ procs' = [procs EXCEPT ![s] = None] /\ next(s, "observe")
    <3>1. /\ task' \in [Server -> Task] /\ task'[s].pc = "observe"
          /\ \A t \in Server \ {s} : task'[t] = task[t]
      BY <1>0, <2>2, NextMoves DEF Pcs
    <3>2. staged(s)' /\ ~holds(s)' /\ ~cleared(s)' /\ bare(s)
      BY <1>0, <1>a, <2>0, <2>2, <3>1 DEF staged, holds, cleared, bare, Handles
    <3> QED
      BY <2>0, <2>2, <3>1, <3>2 DEF soft, taskFrame, cfgVars
  <2>3. CASE Ours(s) /\ go(s, "teardownOne", None, "forget") /\ UNCHANGED procs
    <3>1. /\ task' \in [Server -> Task] /\ task'[s].pc = "teardownOne" /\ task'[s].ret = "forget"
          /\ \A t \in Server \ {s} : task'[t] = task[t]
      BY <1>0, <2>3, GoMoves DEF Pcs, Rets
    <3>2. staged(s)' /\ ~holds(s)' /\ ~cleared(s)'
      BY <3>1 DEF staged, holds, cleared, Handles
    <3> QED
      BY <2>0, <2>3, <3>1, <3>2, SoftMoves
  <2> QED
    BY <1>1, <2>1, <2>2, <2>3 DEF DownOne
<1>2. CASE TeardownOne(s)
  <2>0. phase = "verb" /\ task[s].pc = "teardownOne" /\ taskFrame
        /\ UNCHANGED <<life, owner, reaped, mine, strays, left>>
    BY <1>2 DEF TeardownOne, hostVars
  <2>1. CASE ~Ours(s) /\ afterTeardown(s, TRUE)
    BY <2>0, <2>1, SoftTeardown DEF bare
  <2>2. CASE s \in Detached /\ next(s, "command") /\ UNCHANGED procs
    <3>1. /\ task' \in [Server -> Task] /\ task'[s].pc = "command"
          /\ \A t \in Server \ {s} : task'[t] = task[t]
      BY <1>0, <2>2, NextMoves DEF Pcs
    <3>2. staged(s)' /\ ~holds(s)' /\ ~cleared(s)'
      BY <2>2, <3>1 DEF staged, holds, cleared, Handles
    <3> QED
      BY <2>0, <2>2, <3>1, <3>2, SoftMoves
  <2>3. CASE Ours(s) /\ go(s, "stop", procs[s], task[s].ret) /\ UNCHANGED procs
    <3>1. /\ task' \in [Server -> Task] /\ task'[s].pc = "stop" /\ task'[s].ret = task[s].ret
          /\ task'[s].pid = procs[s] /\ procs[s] # None
          /\ \A t \in Server \ {s} : task'[t] = task[t]
      BY <1>0, <2>3, GoMoves DEF Pcs, Ours
    <3>2. staged(s)' /\ ~cleared(s)'
      BY <1>0, <2>0, <3>1 DEF staged, cleared
    <3> QED
      BY <2>0, <2>3, <3>1, <3>2, SoftMoves
  <2> QED
    BY <1>2, <2>1, <2>2, <2>3 DEF TeardownOne
<1>3. CASE Observe(s)
  <2>0. phase = "verb" /\ task[s].pc = "observe" /\ taskFrame
        /\ UNCHANGED <<life, owner, reaped, mine, strays, left, procs>>
    BY <1>3 DEF Observe, hostVars
  <2>1. CASE next(s, "ok")
    <3>1. /\ task' \in [Server -> Task] /\ task'[s].pc = "ok"
          /\ \A t \in Server \ {s} : task'[t] = task[t]
      BY <1>0, <2>1, NextMoves DEF Pcs
    <3> QED
      BY <2>0, <3>1, SoftEnds
  <2>2. ASSUME NEW h \in holderOf(s), go(s, "stop", h, "foreign") PROVE soft(s)
    <3>1. /\ task' \in [Server -> Task] /\ task'[s].pc = "stop" /\ task'[s].ret = "foreign"
          /\ task'[s].pid # None /\ \A t \in Server \ {s} : task'[t] = task[t]
      BY <1>0, <1>b, <2>2, GoMoves DEF Pcs, Rets
    <3>2. staged(s)' /\ ~holds(s)' /\ ~cleared(s)'
      BY <1>0, <1>a, <2>0, <3>1 DEF staged, holds, cleared
    <3> QED
      BY <2>0, <3>1, <3>2, SoftMoves
  <2> QED
    BY <1>3, <2>1, <2>2 DEF Observe
<1>4. CASE FleetDown(s)
  <2>0. phase = "verb" /\ task[s].pc = "queued" /\ taskFrame
        /\ UNCHANGED <<life, owner, reaped, mine, strays, left, procs>>
    BY <1>4 DEF FleetDown, hostVars
  <2>1. CASE next(s, "ok")
    <3>1. /\ task' \in [Server -> Task] /\ task'[s].pc = "ok"
          /\ \A t \in Server \ {s} : task'[t] = task[t]
      BY <1>0, <2>1, NextMoves DEF Pcs
    <3> QED
      BY <2>0, <3>1, SoftEnds
  <2>2. CASE cfg[s] = "enabled" /\ next(s, "down")
    <3>1. /\ task' \in [Server -> Task] /\ task'[s].pc = "down"
          /\ \A t \in Server \ {s} : task'[t] = task[t]
      BY <1>0, <2>2, NextMoves DEF Pcs
    <3>2. allowed(s)
      BY <1>0, <2>0, <2>2 DEF staged, allowed
    <3>3. staged(s)' /\ ~holds(s)' /\ ~cleared(s)'
      BY <1>a, <2>0, <3>1, <3>2 DEF staged, holds, cleared, Handles
    <3> QED
      BY <2>0, <3>1, <3>3, SoftMoves
  <2>3. CASE Ours(s) /\ go(s, "stop", procs[s], "killed")
    <3>1. /\ task' \in [Server -> Task] /\ task'[s].pc = "stop" /\ task'[s].ret = "killed"
          /\ task'[s].pid = procs[s] /\ procs[s] # None
          /\ \A t \in Server \ {s} : task'[t] = task[t]
      BY <1>0, <2>3, GoMoves DEF Pcs, Rets, Ours
    <3>2. staged(s)' /\ ~cleared(s)'
      BY <3>1 DEF staged, cleared
    <3> QED
      BY <2>0, <3>1, <3>2, SoftMoves
  <2>4. ASSUME verb.op = "dead", NEW h \in holderOf(s), go(s, "stop", h, "foreign") PROVE soft(s)
    <3>1. /\ task' \in [Server -> Task] /\ task'[s].pc = "stop" /\ task'[s].ret = "foreign"
          /\ task'[s].pid # None /\ \A t \in Server \ {s} : task'[t] = task[t]
      BY <1>0, <1>b, <2>4, GoMoves DEF Pcs, Rets
    <3>2. allowed(s)
      BY <2>4 DEF allowed
    <3>3. staged(s)' /\ ~holds(s)' /\ ~cleared(s)'
      BY <1>a, <2>0, <3>1, <3>2 DEF staged, holds, cleared
    <3> QED
      BY <2>0, <3>1, <3>3, SoftMoves
  <2> QED
    BY <1>4, <2>1, <2>2, <2>3, <2>4 DEF FleetDown
<1>5. CASE DetachedCommand(s)
  <2>0. task[s].pc = "command" /\ phase = "verb" /\ taskFrame
        /\ (UNCHANGED <<life, owner, reaped, mine, strays, left>>)
    BY <1>5 DEF DetachedCommand
  <2>1. CASE afterTeardown(s, FALSE)
    BY <1>0, <2>0, <2>1, SoftTeardown DEF bare, staged
  <2>2. CASE next(s, "wait") /\ UNCHANGED procs
    <3>1. /\ task' \in [Server -> Task] /\ task'[s].pc = "wait"
          /\ \A t \in Server \ {s} : task'[t] = task[t]
      BY <1>0, <2>2, NextMoves DEF Pcs
    <3>2. staged(s)' /\ ~holds(s)' /\ ~cleared(s)'
      BY <1>0, <2>0, <3>1 DEF staged, holds, cleared, Handles
    <3> QED
      BY <2>0, <2>2, <3>1, <3>2, SoftMoves
  <2> QED
    BY <1>5, <2>1, <2>2 DEF DetachedCommand
<1>6. CASE DetachedWait(s)
  <2>1. task[s].pc = "wait" /\ phase = "verb" /\ taskFrame
        /\ (UNCHANGED <<life, owner, reaped, mine, strays, left>>)
        /\ \E ok \in BOOLEAN : afterTeardown(s, ok)
    BY <1>6 DEF DetachedWait, hostVars
  <2>2. bare(s)
    BY <1>0, <2>1 DEF bare, staged
  <2> QED
    BY <2>1, <2>2, SoftTeardown
<1> QED
  BY <1>1, <1>2, <1>3, <1>4, <1>5, <1>6

\* A child is born.
born(s, p) ==
    /\ phase = "verb" /\ task[s].pc = "launch"
    /\ UNCHANGED <<reaped, procs, strays, left, cfgVars, replVars, all>>
    /\ life[p] = "unborn" /\ life'[p] = "run" /\ owner'[p] = s /\ mine' = mine \cup {p}
    /\ \A q \in Pid \ {p} : life'[q] = life[q] /\ owner'[q] = owner[q]
    /\ task' \in [Server -> Task] /\ \A t \in Server \ {s} : task'[t] = task[t]
    /\ task'[s].pc = "register" /\ task'[s].pid = p

\* That is what Launch does.
LEMMA LaunchEffect ==
    ASSUME HostShape, EngineShape, NEW s \in Server, Launch(s)
    PROVE  /\ \E p \in Pid : born(s, p)
           /\ HostShape'
<1>1. PICK p \in Pid :
          /\ life[p] = "unborn"
          /\ life' = [life EXCEPT ![p] = "run"]
          /\ owner' = [owner EXCEPT ![p] = s]
          /\ mine' = mine \cup {p}
          /\ task' = [task EXCEPT ![s].pc = "register", ![s].pid = p]
  BY DEF Launch
<1>2. /\ phase = "verb" /\ task[s].pc = "launch"
      /\ UNCHANGED <<reaped, listen, foreign, service, stale, procs, strays, left, cfgVars, replVars, all>>
  BY DEF Launch, at, taskFrame
<1>3. /\ task' \in [Server -> Task] /\ \A t \in Server \ {s} : task'[t] = task[t]
      /\ task'[s].pc = "register" /\ task'[s].pid = p
  BY <1>1 DEF EngineShape, Task, Pcs
<1>4. /\ life'[p] = "run" /\ owner'[p] = s
      /\ \A q \in Pid \ {p} : life'[q] = life[q] /\ owner'[q] = owner[q]
  BY <1>1 DEF HostShape
<1>5. HostShape'
  BY <1>1, <1>2 DEF HostShape, Lives
<1> QED
  BY <1>1, <1>2, <1>3, <1>4, <1>5 DEF born

\* It is registered.
registered(s) ==
    /\ phase = "verb" /\ task[s].pc = "register"
    /\ UNCHANGED <<life, owner, reaped, mine, strays, left, cfgVars, replVars, all>>
    /\ procs' = [procs EXCEPT ![s] = task[s].pid]
    /\ task' \in [Server -> Task] /\ \A t \in Server \ {s} : task'[t] = task[t]
    /\ task'[s].pc \in {"warm", "probe"} /\ task'[s].pid = task[s].pid

\* That is what Register does.
LEMMA RegisterEffect ==
    ASSUME EngineShape, NEW s \in Server, Register(s)
    PROVE  registered(s)
<1>1. PICK pc \in {"warm", "probe"} : next(s, pc)
  BY DEF Register
<1>2. /\ task' \in [Server -> Task] /\ task'[s].pc = pc /\ task'[s].pid = task[s].pid
      /\ \A t \in Server \ {s} : task'[t] = task[t]
  BY <1>1, NextMoves DEF EngineShape, Pcs
<1> QED
  BY <1>1, <1>2 DEF Register, registered, at, taskFrame, hostVars

\* A stray that is signalled is recorded.
strayNoted(s) ==
    \/ strays' = strays
    \/ /\ task[s].pc = "stop"
       /\ task[s].pid = Alien \/ task[s].pid \notin mine
       /\ strays' = strays \cup {[op |-> verb.op, arg |-> verb.arg, of |-> cfg[s]]}

\* It is signalled, and may be gone.
stopped(s) ==
    /\ phase = "verb" /\ task[s].pc = "stop"
    /\ UNCHANGED <<owner, reaped, procs, mine, left, cfgVars, replVars, all>>
    /\ \A p \in Pid : life'[p] = life[p] \/ (life[p] # "unborn" /\ life'[p] = "gone")
    /\ strayNoted(s)
    /\ task' \in [Server -> Task] /\ \A t \in Server \ {s} : task'[t] = task[t]
    /\ task'[s].pc = "verify" /\ task'[s].pid = task[s].pid /\ task'[s].ret = task[s].ret

\* That is what Teardown does.
LEMMA TeardownEffect ==
    ASSUME HostShape, EngineShape, NEW s \in Server, Teardown(s)
    PROVE  stopped(s) /\ HostShape'
<1> DEFINE p == task[s].pid
<1>1. /\ task' \in [Server -> Task] /\ task'[s].pc = "verify" /\ task'[s].ret = task[s].ret
      /\ task'[s].pid = task[s].pid
      /\ \A t \in Server \ {s} : task'[t] = task[t]
  BY NextMoves DEF Teardown, EngineShape, Pcs
<1>2. /\ phase = "verb" /\ task[s].pc = "stop"
      /\ UNCHANGED <<owner, reaped, stale, procs, mine, left, cfgVars, replVars, all>>
  BY DEF Teardown, at, taskFrame, killGroup, hostVars
<1>3. strayNoted(s)
  BY <1>2 DEF Teardown, straySignalled, strayNoted
<1>4. UNCHANGED <<life, listen>> \/ killGroup(p)
  BY DEF Teardown, hostVars
<1>5. foreign' \subseteq Port /\ service' \subseteq Detached
  BY DEF Teardown, HostShape, hostVars
<1>6. /\ \A q \in Pid : life'[q] = life[q] \/ (life[q] # "unborn" /\ life'[q] = "gone")
      /\ life' \in [Pid -> Lives] /\ listen' \in [Pid -> SUBSET Port]
  <2>1. CASE killGroup(p)
    BY <2>1 DEF killGroup, HostShape, Lives
  <2>2. CASE UNCHANGED <<life, listen>>
    BY <2>2 DEF HostShape
  <2> QED
    BY <1>4, <2>1, <2>2
<1>7. HostShape'
  BY <1>2, <1>5, <1>6 DEF HostShape
<1> QED
  BY <1>1, <1>2, <1>3, <1>6, <1>7 DEF stopped

\* The record of a teardown after which the engine forgets p (see lost).
losing(t, p) == t.pid = p /\ (t.ok \/ t.by \in {"build", "killed"})

\* Its teardown has a verdict: the registration goes, or the task comes to rely on
\* the child being gone, only where a child that lives is noted as lost.
judged(s) ==
    /\ phase = "verb" /\ task[s].pc \in {"stop", "verify"}
    /\ UNCHANGED <<life, owner, reaped, mine, cfgVars, replVars, all>>
    /\ left \subseteq left'
    /\ strayNoted(s)
    /\ task' \in [Server -> Task] /\ \A t \in Server \ {s} : task'[t] = task[t]
    /\ task'[s].pc \in {"err", "ok", "replace"}
    /\ \/ procs' = procs /\ task'[s].pc # "replace"
       \/ /\ procs' \in {procs, [procs EXCEPT ![s] = None]}
          /\ task[s].ret # "foreign"
          /\ task[s].pid \in mine /\ life[task[s].pid] = "run" => \E t \in left' : losing(t, task[s].pid)

\* That is what a verdict does.
LEMMA VerdictEffect ==
    ASSUME EngineShape, NEW s \in Server, phase = "verb", task[s].pc \in {"stop", "verify"},
           UNCHANGED <<life, owner, reaped, mine>>, taskFrame, strayNoted(s),
           NEW ok \in BOOLEAN, afterTeardown(s, ok), noteSurvivor(task[s].pid, task[s].ret, ok)
    PROVE  judged(s)
<1> DEFINE p   == task[s].pid
           ret == task[s].ret
           rec == [pid |-> p, by |-> ret, ok |-> ok]
<1>1. PICK pc \in {"err", "ok", "replace"} :
         next(s, pc) /\ (pc = "replace" => ok /\ ret \in {"owned", "build"})
  BY DEF afterTeardown
<1>2. /\ task' \in [Server -> Task] /\ task'[s].pc = pc
      /\ \A t \in Server \ {s} : task'[t] = task[t]
  BY <1>1, NextMoves DEF EngineShape, Pcs
<1>3. left \subseteq left'
  BY DEF noteSurvivor
<1>4. p \in mine /\ life[p] = "run" /\ ret # "foreign" => rec \in left'
  BY DEF noteSurvivor
<1>5. rec.pid = p /\ rec.by = ret /\ rec.ok = ok
  OBVIOUS
<1>6. CASE ok \/ ret \in {"build", "killed"}
  <2>1. losing(rec, p)
    BY <1>5, <1>6 DEF losing
  <2>2. p \in mine /\ life[p] = "run" /\ ret # "foreign" => \E t \in left' : losing(t, p)
    BY <1>4, <2>1
  <2>3. \/ procs' = procs
        \/ procs' = [procs EXCEPT ![s] = None] /\ ret # "foreign"
    BY DEF afterTeardown
  <2>4. ret = "foreign" => pc # "replace"
    BY <1>1
  <2> QED
    BY <1>2, <1>3, <2>2, <2>3, <2>4 DEF judged, taskFrame
<1>7. CASE ~ok /\ ret \notin {"build", "killed"}
  <2>1. procs' = procs /\ pc # "replace"
    BY <1>1, <1>7 DEF afterTeardown
  <2> QED
    BY <1>2, <1>3, <2>1 DEF judged, taskFrame
<1> QED
  BY <1>6, <1>7

\* The two ways to one.
LEMMA JudgedEffect ==
    ASSUME EngineShape, NEW s \in Server, SignalFails(s) \/ Verify(s)
    PROVE  judged(s)
<1>1. CASE SignalFails(s)
  <2>1. /\ phase = "verb" /\ task[s].pc = "stop" /\ taskFrame
        /\ UNCHANGED <<life, owner, reaped, mine>>
        /\ afterTeardown(s, FALSE) /\ noteSurvivor(task[s].pid, task[s].ret, FALSE)
    BY <1>1 DEF SignalFails, at, hostVars
  <2>2. strayNoted(s)
    BY <1>1, <2>1 DEF SignalFails, straySignalled, strayNoted
  <2> QED
    BY <2>1, <2>2, VerdictEffect
<1>2. CASE Verify(s)
  <2>1. /\ phase = "verb" /\ task[s].pc = "verify" /\ taskFrame
        /\ UNCHANGED <<life, owner, reaped, mine, strays>>
        /\ \E ok \in BOOLEAN : afterTeardown(s, ok) /\ noteSurvivor(task[s].pid, task[s].ret, ok)
    BY <1>2 DEF Verify, at, hostVars
  <2>2. strayNoted(s)
    BY <2>1 DEF strayNoted
  <2> QED
    BY <2>1, <2>2, VerdictEffect
<1> QED
  BY <1>1, <1>2

\* What the tasks' soft steps leave of the host.
LEMMA SoftHost ==
    ASSUME HostShape, EngineShape, NEW s \in Server, TaskStep(s)
    PROVE  HostShape'
<1>1. CASE Launch(s)
  BY <1>1, LaunchEffect
<1>2. CASE Teardown(s)
  BY <1>2, TeardownEffect
<1>3. CASE ReplaceBinary(s)
  BY <1>3 DEF ReplaceBinary, hostVars, HostShape
<1>4. CASE DetachedCommand(s)
  BY <1>4 DEF DetachedCommand, HostShape
<1>5. CASE UNCHANGED <<hostVars, stale>>
  BY <1>5 DEF hostVars, HostShape
<1>6. CASE UpOne(s) \/ CheckPortConflict(s) \/ RebuildIfStale(s) \/ BuildVerb(s) \/ PerformBuild(s)
  BY <1>5, <1>6 DEF UpOne, CheckPortConflict, RebuildIfStale, BuildVerb, PerformBuild
<1>7. CASE LaunchFails(s) \/ Register(s) \/ EnsureHealthProbeBuilt(s) \/ WarmUp(s) \/ PollReady(s)
           \/ PortsVerdict(s)
  BY <1>5, <1>7 DEF LaunchFails, Register, EnsureHealthProbeBuilt, WarmUp, PollReady, PortsVerdict
<1>8. CASE DownOne(s) \/ TeardownOne(s) \/ Observe(s) \/ FleetDown(s) \/ SignalFails(s) \/ Verify(s)
           \/ DetachedWait(s)
  BY <1>5, <1>8 DEF DownOne, TeardownOne, Observe, FleetDown, SignalFails, Verify, DetachedWait
<1> QED
  BY <1>1, <1>2, <1>3, <1>4, <1>6, <1>7, <1>8 DEF TaskStep

\* Every step of a task is one of the five.
LEMMA TaskCases ==
    ASSUME HostShape, EngineShape, StageInv, NEW s \in Server, TaskStep(s)
    PROVE  soft(s) \/ (\E p \in Pid : born(s, p)) \/ registered(s) \/ stopped(s) \/ judged(s)
  BY UpIsSoft, DownIsSoft, LaunchEffect, RegisterEffect, TeardownEffect, JudgedEffect DEF TaskStep

----------------------------------------------------------------------------
(* The verb, the shutdowns and the registrations. *)

\* Tasks run under a verb only, an instance that is not there has neither
\* children nor shutdowns, and main tears down only when it leaves.
PhaseInv ==
    /\ phase # "verb" => \A s \in Server : task[s].pc = "idle"
    /\ phase = "off" => \A s \in Server : procs[s] = None
    /\ phase = "off" => \A x \in {"main", "sig"} : all[x].pc = "idle"
    /\ all["main"].pc # "idle" => phase = "bye"

\* What is registered, or about to be, or about to be torn down as registered,
\* was launched by this session.
MineInv ==
    \A s \in Server :
        /\ procs[s] # None => procs[s] \in mine
        /\ task[s].pc = "register" \/ holds(s) => task[s].pid \in mine

CoreInv == HostShape /\ EngineShape /\ StageInv /\ PhaseInv /\ MineInv

\* An idle task is at no stage.
LEMMA IdleStaged ==
    ASSUME NEW s \in Server, task[s].pc \in {"idle", "up", "build"}
    PROVE  staged(s) /\ ~holds(s) /\ ~cleared(s)
  BY DEF staged, holds, cleared, Handles

\* A verb's tasks as they start.
LEMMA DispatchStages ==
    ASSUME NEW op, NEW arg \in Server \cup {All}, NEW c, NEW s \in Server
    PROVE  LET pc == firstPc(op, arg, c, s)
           IN  /\ pc \in {"idle", "up", "build", "queued", "down"}
               /\ pc \in {"queued", "down"} => op \notin {"up", "build"}
               /\ pc = "down" => arg # All
  BY DEF firstPc

\* A reload ends in a valid configuration.
LEMMA ReloadedType ==
    ASSUME EngineShape
    PROVE  reloaded \in Configs
  BY DEF EngineShape, reloaded

\* What a shutdown begins with.
LEMMA SnapshotType ==
    ASSUME EngineShape
    PROVE  snapshot \in Walk
  BY DEF EngineShape, snapshot, Walk

\* The supervisor is gone.
LEMMA StopKeepsCore ==
    ASSUME CoreInv, NEW why, stop(why), UNCHANGED <<hostVars, stale, cfgVars, mode, mine>>
    PROVE  CoreInv'
<1>1. /\ phase' = "off" /\ task' = [s \in Server |-> Idle] /\ procs' = [s \in Server |-> None]
      /\ all' = [x \in {"main", "sig"} |-> Quiet]
  BY DEF stop
<1>2. HostShape'
  BY DEF CoreInv, HostShape, hostVars
<1>3. EngineShape'
  BY <1>1, IdleType, QuietType DEF CoreInv, EngineShape, cfgVars
<1>4. \A s \in Server : task'[s].pc = "idle" /\ procs'[s] = None
  BY <1>1 DEF Idle
<1>5. \A x \in {"main", "sig"} : all'[x].pc = "idle"
  BY <1>1 DEF Quiet
<1>6. PhaseInv'
  BY <1>1, <1>4, <1>5 DEF PhaseInv
<1>7. \A s \in Server : staged(s)' /\ ~holds(s)'
  BY <1>4 DEF staged, holds, Handles
<1> QED
  BY <1>2, <1>3, <1>4, <1>6, <1>7 DEF CoreInv, StageInv, MineInv

\* The tasks are all at rest.
LEMMA RestKeepsCore ==
    ASSUME CoreInv, HostShape', EngineShape', PhaseInv',
           \A s \in Server : task'[s].pc \in {"idle", "up", "build"},
           UNCHANGED <<procs, mine>>
    PROVE  CoreInv'
<1>1. \A s \in Server : staged(s)' /\ ~holds(s)'
  BY DEF staged, holds, Handles
<1> QED
  BY <1>1 DEF CoreInv, StageInv, MineInv

\* The engine is only looked at.
LEMMA HostKeepsCore ==
    ASSUME CoreInv, HostShape', EngineShape',
           UNCHANGED <<cfg, procs, task, phase, verb, mine>>,
           \A x \in {"main", "sig"} : all'[x].pc = "idle" <=> all[x].pc = "idle"
    PROVE  CoreInv'
<1>1. \A s \in Server : (staged(s)' <=> staged(s)) /\ (holds(s)' <=> holds(s))
  BY DEF staged, holds, allowed
<1> QED
  BY <1>1 DEF CoreInv, StageInv, MineInv, PhaseInv

\* The steps of the tasks.
LEMMA TaskKeepsCore ==
    ASSUME CoreInv, NEW s \in Server, TaskStep(s)
    PROVE  CoreInv'
<1> USE DEF CoreInv
<1>1. HostShape'
  BY SoftHost
<1>2. CASE soft(s)
  <2>1. /\ UNCHANGED <<mine, cfg, disk, phase, mode, verb, all>> /\ phase = "verb"
        /\ task' \in [Server -> Task] /\ staged(s)'
        /\ \A t \in Server \ {s} : task'[t] = task[t]
        /\ task'[s].pc # "register"
    BY <1>2 DEF soft, cfgVars, replVars
  <2>2. procs' \in [Server -> Pid \cup {None}]
        /\ \A t \in Server : procs'[t] = procs[t] \/ procs'[t] = None
    BY <1>2 DEF soft, EngineShape
  <2>3. \A t \in Server \ {s} : (staged(t)' <=> staged(t)) /\ (holds(t)' <=> holds(t))
    BY <2>1 DEF staged, holds, allowed
  <2>4. EngineShape'
    BY <2>1, <2>2 DEF EngineShape
  <2>5. PhaseInv'
    BY <2>1 DEF PhaseInv
  <2>6. StageInv'
    BY <2>1, <2>3 DEF StageInv
  <2>7. holds(s)' => task'[s].pid \in mine
    BY <1>2 DEF soft, MineInv
  <2>8. MineInv'
    BY <2>1, <2>2, <2>3, <2>7 DEF MineInv
  <2> QED
    BY <1>1, <2>4, <2>5, <2>6, <2>8
<1>3. ASSUME NEW p \in Pid, born(s, p) PROVE CoreInv'
  <2>1. /\ UNCHANGED <<procs, cfg, disk, phase, mode, verb, all>> /\ phase = "verb"
        /\ mine' = mine \cup {p}
        /\ task' \in [Server -> Task] /\ task'[s].pc = "register" /\ task'[s].pid = p
        /\ \A t \in Server \ {s} : task'[t] = task[t]
    BY <1>3 DEF born, cfgVars, replVars
  <2>2. \A t \in Server \ {s} : (staged(t)' <=> staged(t)) /\ (holds(t)' <=> holds(t))
    BY <2>1 DEF staged, holds, allowed
  <2>3. p # None
    BY SupervisorConstants DEF Pid
  <2>4. staged(s)' /\ ~holds(s)'
    BY <2>1, <2>3 DEF staged, holds
  <2>5. EngineShape'
    BY <2>1 DEF EngineShape
  <2>6. PhaseInv' /\ StageInv'
    BY <2>1, <2>2, <2>4 DEF PhaseInv, StageInv
  <2>7. MineInv'
    BY <2>1, <2>2, <2>4 DEF MineInv
  <2> QED
    BY <1>1, <2>5, <2>6, <2>7
<1>4. CASE registered(s)
  <2>1. /\ UNCHANGED <<mine, cfg, disk, phase, mode, verb, all>> /\ phase = "verb"
        /\ task[s].pc = "register"
        /\ task' \in [Server -> Task] /\ task'[s].pc \in {"warm", "probe"}
        /\ task'[s].pid = task[s].pid
        /\ \A t \in Server \ {s} : task'[t] = task[t]
    BY <1>4 DEF registered, cfgVars, replVars
  <2>2. \A t \in Server \ {s} : (staged(t)' <=> staged(t)) /\ (holds(t)' <=> holds(t))
    BY <2>1 DEF staged, holds, allowed
  <2>3. task[s].pid \in mine /\ task[s].pid \in Pid
    BY <2>1 DEF MineInv, EngineShape
  <2>4. procs' \in [Server -> Pid \cup {None}] /\ procs'[s] = task[s].pid
        /\ \A t \in Server \ {s} : procs'[t] = procs[t]
    BY <1>4, <2>3 DEF registered, EngineShape
  <2>5. staged(s)' /\ ~holds(s)'
    BY <2>1 DEF staged, holds, StageInv, Handles
  <2>6. EngineShape'
    BY <2>1, <2>4 DEF EngineShape
  <2>7. PhaseInv' /\ StageInv'
    BY <2>1, <2>2, <2>5 DEF PhaseInv, StageInv
  <2>8. MineInv'
    BY <2>1, <2>2, <2>3, <2>4, <2>5 DEF MineInv
  <2> QED
    BY <1>1, <2>6, <2>7, <2>8
<1>5. CASE stopped(s)
  <2>1. /\ UNCHANGED <<procs, mine, cfg, disk, phase, mode, verb, all>> /\ phase = "verb"
        /\ task[s].pc = "stop"
        /\ task' \in [Server -> Task] /\ task'[s].pc = "verify"
        /\ task'[s].pid = task[s].pid /\ task'[s].ret = task[s].ret
        /\ \A t \in Server \ {s} : task'[t] = task[t]
    BY <1>5 DEF stopped, cfgVars, replVars
  <2>2. \A t \in Server \ {s} : (staged(t)' <=> staged(t)) /\ (holds(t)' <=> holds(t))
    BY <2>1 DEF staged, holds, allowed
  <2>3. staged(s)' /\ (holds(s)' => holds(s))
    BY <2>1 DEF staged, holds, Handles, StageInv
  <2>4. EngineShape'
    BY <2>1 DEF EngineShape
  <2>5. PhaseInv' /\ StageInv' /\ MineInv'
    BY <2>1, <2>2, <2>3 DEF PhaseInv, StageInv, MineInv
  <2> QED
    BY <1>1, <2>4, <2>5
<1>6. CASE judged(s)
  <2>1. /\ UNCHANGED <<mine, cfg, disk, phase, mode, verb, all>> /\ phase = "verb"
        /\ task' \in [Server -> Task] /\ task'[s].pc \in {"err", "ok", "replace"}
        /\ \A t \in Server \ {s} : task'[t] = task[t]
    BY <1>6 DEF judged, cfgVars, replVars
  <2>2. \A t \in Server \ {s} : (staged(t)' <=> staged(t)) /\ (holds(t)' <=> holds(t))
    BY <2>1 DEF staged, holds, allowed
  <2>3. staged(s)' /\ ~holds(s)'
    BY <2>1 DEF staged, holds, Handles
  <2>4. procs' \in [Server -> Pid \cup {None}]
        /\ \A t \in Server : procs'[t] = procs[t] \/ procs'[t] = None
    BY <1>6 DEF judged, EngineShape
  <2>5. EngineShape'
    BY <2>1, <2>4 DEF EngineShape
  <2>6. PhaseInv' /\ StageInv' /\ MineInv'
    BY <2>1, <2>2, <2>3, <2>4 DEF PhaseInv, StageInv, MineInv
  <2> QED
    BY <1>1, <2>5, <2>6
<1> QED
  BY <1>2, <1>3, <1>4, <1>5, <1>6, TaskCases

\* The steps of the REPL.
LEMMA ReplKeepsCore ==
    ASSUME CoreInv, ReplStep
    PROVE  CoreInv'
<1> USE DEF CoreInv
<1>1. ASSUME NEW op, NEW arg \in Server \cup {All}, Command(op, arg),
             op \in Fleet \cup {"build", "bounce"}
      PROVE  CoreInv'
  <2> DEFINE tasks == dispatch(op, arg, reloaded)
  <2>1. /\ UNCHANGED <<life, owner, reaped, listen, foreign, service, stale>>
        /\ UNCHANGED <<procs, mode, all, mine>>
        /\ cfg' = reloaded /\ disk' = None /\ phase = "prompt"
    BY <1>1 DEF Command, hostVars
  <2>2. HostShape'
    BY <2>1 DEF HostShape
  <2>3. CASE UNCHANGED <<phase, verb, task>>
    <3>1. EngineShape'
      BY <2>1, <2>3, ReloadedType DEF EngineShape
    <3>2. PhaseInv' /\ \A s \in Server : task'[s].pc = "idle"
      BY <2>1, <2>3 DEF PhaseInv
    <3> QED
      BY <2>1, <2>2, <3>1, <3>2, RestKeepsCore
  <2>4. CASE phase' = "verb" /\ verb' = [op |-> op, arg |-> arg] /\ task' = tasks
    <3>1. /\ task' \in [Server -> Task]
          /\ \A s \in Server : task'[s].pc = firstPc(op, arg, reloaded, s)
      BY <2>4, DispatchType
    <3>2. EngineShape'
      BY <2>1, <2>4, <3>1, ReloadedType DEF EngineShape
    <3>3. PhaseInv'
      BY <2>1, <2>4 DEF PhaseInv
    <3>4. ASSUME NEW s \in Server PROVE staged(s)' /\ ~holds(s)' /\ task'[s].pc # "register"
      <4>1. /\ task'[s].pc \in {"idle", "up", "build", "queued", "down"}
            /\ task'[s].pc \in {"queued", "down"} => op \notin {"up", "build"}
            /\ task'[s].pc = "down" => arg # All
        BY <3>1, DispatchStages
      <4>2. verb'.op = op /\ verb'.arg = arg
        BY <2>4
      <4>3. op \notin {"up", "build"} => op \in {"down", "dead", "bounce"}
        BY <1>1 DEF Fleet
      <4> QED
        BY <4>1, <4>2, <4>3 DEF staged, holds, allowed, Handles
    <3> QED
      BY <2>1, <2>2, <3>2, <3>3, <3>4 DEF StageInv, MineInv
  <2> QED
    BY <1>1, <2>3, <2>4 DEF Command
<1>2. CASE ReadOnlyCommand
  <2>1. /\ UNCHANGED <<life, owner, reaped, listen, foreign, service, stale>>
        /\ UNCHANGED <<procs, task, phase, mode, verb, all, mine>>
        /\ cfg' = reloaded /\ disk' = None /\ phase = "prompt"
    BY <1>2 DEF ReadOnlyCommand, hostVars, replVars
  <2>2. HostShape' /\ EngineShape'
    BY <2>1, ReloadedType DEF HostShape, EngineShape
  <2>3. PhaseInv' /\ \A s \in Server : task'[s].pc = "idle"
    BY <2>1 DEF PhaseInv
  <2> QED
    BY <2>1, <2>2, <2>3, RestKeepsCore
<1>3. CASE Report
  <2>0. /\ UNCHANGED <<hostVars, stale, cfgVars, mode, mine>> /\ phase = "verb"
    BY <1>3 DEF Report
  <2>1. HostShape'
    BY <2>0 DEF HostShape, hostVars
  <2>2. CASE stop("autofail")
    BY <2>0, <2>2, StopKeepsCore
  <2>3. CASE /\ phase' \in {"prompt", "parked"} /\ task' = [s \in Server |-> Idle]
             /\ UNCHANGED <<procs, all>>
    <3>1. EngineShape'
      BY <2>0, <2>3, IdleType DEF EngineShape, cfgVars
    <3>2. \A s \in Server : task'[s].pc = "idle"
      BY <2>3 DEF Idle
    <3>3. PhaseInv'
      BY <2>0, <2>3, <3>2 DEF PhaseInv
    <3> QED
      BY <2>0, <2>1, <2>3, <3>1, <3>2, <3>3, RestKeepsCore
  <2>4. CASE /\ task' = dispatch("up", verb.arg, cfg) /\ UNCHANGED <<phase, procs, all>>
    <3>1. task' \in [Server -> Task] /\ \A s \in Server : task'[s].pc = firstPc("up", verb.arg, cfg, s)
      BY <2>4, DispatchType
    <3>2. EngineShape'
      BY <2>0, <2>4, <3>1 DEF EngineShape, cfgVars
    <3>3. \A s \in Server : task'[s].pc \in {"idle", "up"}
      BY <3>1 DEF firstPc
    <3>4. PhaseInv'
      BY <2>0, <2>4 DEF PhaseInv
    <3> QED
      BY <2>0, <2>1, <2>4, <3>2, <3>3, <3>4, RestKeepsCore
  <2> QED
    BY <1>3, <2>2, <2>3, <2>4 DEF Report
<1>4. CASE Bye
  <2>1. /\ UNCHANGED <<life, owner, reaped, listen, foreign, service, stale>>
        /\ UNCHANGED <<procs, task, mode, verb, cfg, disk, mine>>
        /\ phase \in {"prompt", "parked"} /\ phase' = "bye"
        /\ all' = [all EXCEPT !["main"] = snapshot]
    BY <1>4 DEF Bye, hostVars, cfgVars
  <2>2. HostShape' /\ EngineShape'
    BY <2>1, SnapshotType DEF HostShape, EngineShape
  <2>3. PhaseInv' /\ \A s \in Server : task'[s].pc = "idle"
    BY <2>1 DEF PhaseInv
  <2> QED
    BY <2>1, <2>2, <2>3, RestKeepsCore
<1>5. ASSUME NEW m \in {"repl", "auto"}, Start(m) PROVE CoreInv'
  <2>1. /\ UNCHANGED <<life, owner, reaped, listen, foreign, service, stale>>
        /\ UNCHANGED <<procs, all>> /\ mine' = {} /\ mode' = m
        /\ cfg' = reloaded /\ disk' = None /\ phase = "off"
        /\ \/ phase' \in {"prompt", "parked"} /\ UNCHANGED task
           \/ phase' = "verb" /\ task' = dispatch("up", All, reloaded)
    BY <1>5 DEF Start, AcquireLock, hostVars
  <2>2. /\ task' \in [Server -> Task] /\ \A s \in Server : task'[s].pc \in {"idle", "up"}
        /\ phase' # "verb" => \A s \in Server : task'[s].pc = "idle"
    <3>1. CASE phase' \in {"prompt", "parked"} /\ UNCHANGED task
      BY <2>1, <3>1 DEF PhaseInv, EngineShape
    <3>2. CASE phase' = "verb" /\ task' = dispatch("up", All, reloaded)
      <4>1. task' \in [Server -> Task] /\ \A s \in Server : task'[s].pc = firstPc("up", All, reloaded, s)
        BY <3>2, DispatchType
      <4> QED
        BY <3>2, <4>1 DEF firstPc
    <3> QED
      BY <2>1, <3>1, <3>2
  <2>3. HostShape' /\ EngineShape'
    BY <2>1, <2>2, ReloadedType DEF HostShape, EngineShape
  <2>4. PhaseInv'
    BY <2>1, <2>2 DEF PhaseInv
  <2>5. \A s \in Server : staged(s)' /\ ~holds(s)' /\ task'[s].pc # "register" /\ procs'[s] = None
    BY <2>1, <2>2 DEF staged, holds, Handles, PhaseInv
  <2> QED
    BY <2>3, <2>4, <2>5 DEF StageInv, MineInv
<1>6. CASE Kill
  <2>1. /\ UNCHANGED <<service, stale, procs, task, phase, mode, verb, all, mine>>
        /\ cfg' = reloaded /\ disk' = None /\ phase = "prompt"
    BY <1>6 DEF Kill, replVars
  <2>2. HostShape'
    BY <1>6, <2>1 DEF Kill, leaderEnds, HostShape, Lives
  <2>3. EngineShape'
    BY <2>1, ReloadedType DEF EngineShape
  <2>4. PhaseInv' /\ \A s \in Server : task'[s].pc = "idle"
    BY <2>1 DEF PhaseInv
  <2> QED
    BY <2>1, <2>2, <2>3, <2>4, RestKeepsCore
<1> QED
  BY <1>1, <1>2, <1>3, <1>4, <1>5, <1>6 DEF ReplStep

\* A group is gone, and nothing else changes on the host.
LEMMA KillEffect ==
    ASSUME HostShape, NEW p, killGroup(p), UNCHANGED <<foreign, service, stale>>
    PROVE  /\ HostShape'
           /\ UNCHANGED <<owner, reaped>>
           /\ \A q \in Pid : life'[q] = life[q] \/ (life[q] # "unborn" /\ life'[q] = "gone")
           /\ p \in Pid => life'[p] # "run"
  BY DEF killGroup, HostShape, Lives

\* A child has outlived its teardown on the way out.
exitNoted(p) == \E t \in left : t.pid = p /\ t.by = "exit"

\* A walk over the fleet tears down the next server's child, or notes it.
walked(x, s) ==
    /\ s \in all[x].todo /\ all[x].pc = "kill"
    /\ UNCHANGED <<owner, reaped, cfgVars, procs, replVars, task, mine, strays>>
    /\ left \subseteq left'
    /\ \A q \in Pid : life'[q] = life[q] \/ (life[q] # "unborn" /\ life'[q] = "gone")
    /\ \A p \in Pid : p = all[x].snap[s] /\ p \in mine /\ life'[p] = "run" => exitNoted(p)'
    /\ all' \in [{"main", "sig"} -> Walk]
    /\ all'[x].pc = "kill" /\ all'[x].snap = all[x].snap /\ all'[x].todo = all[x].todo \ {s}
    /\ \A y \in {"main", "sig"} \ {x} : all'[y] = all[y]

\* That is what TeardownNext does.
LEMMA WalkEffect ==
    ASSUME HostShape, EngineShape, NEW x \in {"main", "sig"}, TeardownNext(x)
    PROVE  HostShape' /\ \E s \in Server : walked(x, s)
<1>1. PICK s \in all[x].todo :
         /\ \/ killGroup(all[x].snap[s]) /\ UNCHANGED left
            \/ noteSurvivor(all[x].snap[s], "exit", FALSE) /\ UNCHANGED <<life, owner, reaped, listen>>
         /\ all' = [all EXCEPT ![x].todo = @ \ {s}]
  BY DEF TeardownNext
<1>2. /\ all[x].pc = "kill"
      /\ UNCHANGED <<foreign, service, stale, cfgVars, procs, replVars, task, mine, strays>>
  BY DEF TeardownNext
<1>3. /\ HostShape' /\ UNCHANGED <<owner, reaped>> /\ left \subseteq left'
      /\ \A q \in Pid : life'[q] = life[q] \/ (life[q] # "unborn" /\ life'[q] = "gone")
      /\ \A p \in Pid : p = all[x].snap[s] /\ p \in mine /\ life'[p] = "run" => exitNoted(p)'
  <2>1. CASE killGroup(all[x].snap[s]) /\ UNCHANGED left
    BY <1>2, <2>1, KillEffect
  <2>2. CASE noteSurvivor(all[x].snap[s], "exit", FALSE) /\ UNCHANGED <<life, owner, reaped, listen>>
    <3>1. HostShape'
      BY <1>2, <2>2 DEF HostShape
    <3>2. left \subseteq left'
      BY <2>2 DEF noteSurvivor
    <3>3. ASSUME NEW p \in Pid, p = all[x].snap[s], p \in mine, life'[p] = "run"
          PROVE  exitNoted(p)'
      <4>1. [pid |-> p, by |-> "exit", ok |-> FALSE] \in left'
        BY <2>2, <3>3 DEF noteSurvivor
      <4> QED
        BY <4>1 DEF exitNoted
    <3> QED
      BY <2>2, <3>1, <3>2, <3>3
  <2> QED
    BY <1>1, <2>1, <2>2
<1>4. s \in Server
  BY <1>1 DEF EngineShape, Walk
<1>5. /\ all' \in [{"main", "sig"} -> Walk]
      /\ all'[x].pc = all[x].pc /\ all'[x].snap = all[x].snap /\ all'[x].todo = all[x].todo \ {s}
      /\ \A y \in {"main", "sig"} \ {x} : all'[y] = all[y]
  BY <1>1 DEF EngineShape, Walk
<1> QED
  BY <1>1, <1>2, <1>3, <1>4, <1>5 DEF walked

\* It deletes the names it took at its start, and is about to end the process.
dropped(x) ==
    /\ all[x].pc = "kill" /\ all[x].todo = {}
    /\ UNCHANGED <<hostVars, stale, cfgVars, replVars, task, mine, strays, left>>
    /\ procs' = [s \in Server |-> IF all[x].snap[s] # None THEN None ELSE procs[s]]
    /\ all' \in [{"main", "sig"} -> Walk]
    /\ all'[x].pc = "exit"
    /\ \A y \in {"main", "sig"} \ {x} : all'[y] = all[y]

\* That is what TeardownForget does.
LEMMA ForgetEffect ==
    ASSUME EngineShape, NEW x \in {"main", "sig"}, TeardownForget(x)
    PROVE  dropped(x)
<1>1. /\ all' \in [{"main", "sig"} -> Walk] /\ all'[x].pc = "exit"
      /\ \A y \in {"main", "sig"} \ {x} : all'[y] = all[y]
  BY DEF TeardownForget, EngineShape, Walk
<1> QED
  BY <1>1 DEF TeardownForget, dropped

\* The shutdowns.
LEMMA ExitKeepsCore ==
    ASSUME CoreInv, NEW x \in {"main", "sig"}, ExitStep(x)
    PROVE  CoreInv'
<1> USE DEF CoreInv
<1>1. ASSUME NEW s \in Server, walked(x, s), HostShape' PROVE CoreInv'
  <2>1. /\ UNCHANGED <<cfg, disk, procs, phase, mode, verb, task, mine>>
        /\ all' \in [{"main", "sig"} -> Walk]
        /\ \A y \in {"main", "sig"} : all'[y].pc = all[y].pc
    BY <1>1 DEF walked, cfgVars, replVars
  <2>2. EngineShape'
    BY <2>1 DEF EngineShape
  <2> QED
    BY <1>1, <2>1, <2>2, HostKeepsCore
<1>2. CASE dropped(x)
  <2>1. /\ UNCHANGED <<cfg, disk, phase, mode, verb, task, mine>>
        /\ all' \in [{"main", "sig"} -> Walk]
        /\ \A y \in {"main", "sig"} : all'[y].pc = "idle" <=> all[y].pc = "idle"
    BY <1>2 DEF dropped, cfgVars, replVars
  <2>2. /\ procs' \in [Server -> Pid \cup {None}]
        /\ \A s \in Server : procs'[s] = procs[s] \/ procs'[s] = None
    BY <1>2 DEF dropped, EngineShape
  <2>3. HostShape' /\ EngineShape'
    BY <1>2, <2>1, <2>2 DEF dropped, EngineShape, HostShape, hostVars
  <2>4. \A s \in Server : (staged(s)' <=> staged(s)) /\ (holds(s)' <=> holds(s))
    BY <2>1 DEF staged, holds, allowed
  <2>5. PhaseInv'
    BY <2>1, <2>2 DEF PhaseInv
  <2>6. StageInv' /\ MineInv'
    BY <2>1, <2>2, <2>4 DEF StageInv, MineInv
  <2> QED
    BY <2>3, <2>5, <2>6
<1>3. CASE Exit(x)
  <2>1. /\ UNCHANGED <<hostVars, stale, cfgVars, mode, mine>>
        /\ \E why : stop(why)
    BY <1>3 DEF Exit
  <2> QED
    BY <2>1, StopKeepsCore
<1> QED
  BY <1>1, <1>2, <1>3, WalkEffect, ForgetEffect DEF ExitStep

\* The triple interrupt.
LEMMA SigintKeepsCore ==
    ASSUME CoreInv, SigintBurst
    PROVE  CoreInv'
<1> USE DEF CoreInv
<1>1. /\ UNCHANGED <<hostVars, stale>> /\ UNCHANGED <<cfg, disk, procs, phase, mode, verb, task, mine>>
      /\ phase # "off" /\ all' = [all EXCEPT !["sig"] = snapshot]
  BY DEF SigintBurst, cfgVars, replVars
<1>2. HostShape' /\ EngineShape'
  BY <1>1, SnapshotType DEF HostShape, EngineShape, hostVars
<1>3. all'["main"] = all["main"]
  BY <1>1 DEF EngineShape
<1>4. \A s \in Server : (staged(s)' <=> staged(s)) /\ (holds(s)' <=> holds(s))
  BY <1>1 DEF staged, holds, allowed
<1>5. PhaseInv'
  BY <1>1, <1>3 DEF PhaseInv
<1>6. StageInv' /\ MineInv'
  BY <1>1, <1>4 DEF StageInv, MineInv
<1> QED
  BY <1>2, <1>5, <1>6

\* The first state.
LEMMA CoreInit == Init => CoreInv
<1> SUFFICES ASSUME Init PROVE CoreInv
  OBVIOUS
<1> USE DEF Init
<1>1. HostShape
  BY SupervisorConstants DEF HostShape, Lives
<1>2. EngineShape
  BY IdleType, QuietType DEF EngineShape
<1>3. \A s \in Server : task[s].pc = "idle" /\ procs[s] = None
  BY DEF Idle
<1>4. PhaseInv
  BY <1>3 DEF PhaseInv, Quiet
<1>5. \A s \in Server : staged(s) /\ ~holds(s)
  BY <1>3, IdleStaged
<1> QED
  BY <1>1, <1>2, <1>3, <1>4, <1>5 DEF CoreInv, StageInv, MineInv

\* Every step keeps it.
LEMMA CoreInductive == CoreInv /\ [Next]_vars => CoreInv'
<1> SUFFICES ASSUME CoreInv, [Next]_vars PROVE CoreInv'
  OBVIOUS
<1>1. CASE HostMove
  <2>1. /\ UNCHANGED <<cfg, procs, task, phase, mode, verb, mine, all>>
        /\ disk' = disk \/ disk' \in Configs \cup {Bad}
    BY <1>1, HostMoveEngine DEF replVars
  <2>2. HostShape'
    BY <1>1, HostMoveKeepsHost DEF CoreInv
  <2>3. EngineShape'
    BY <2>1 DEF CoreInv, EngineShape
  <2> QED
    BY <2>1, <2>2, <2>3, HostKeepsCore
<1>2. CASE Crash
  BY <1>2, StopKeepsCore DEF Crash
<1>3. CASE UNCHANGED vars
  <2>1. /\ UNCHANGED <<life, owner, reaped, listen, foreign, service, stale>>
        /\ UNCHANGED <<cfg, disk, procs, task, phase, mode, verb, mine, all>>
    BY <1>3 DEF vars, hostVars, engineVars, cfgVars, replVars
  <2>2. HostShape' /\ EngineShape'
    BY <2>1 DEF CoreInv, HostShape, EngineShape
  <2> QED
    BY <2>1, <2>2, HostKeepsCore
<1> QED
  BY <1>1, <1>2, <1>3, TaskKeepsCore, ReplKeepsCore, SigintKeepsCore, ExitKeepsCore
  DEF Next, HostMove

\* The shapes, stages and registrations are invariant.
LEMMA CoreHolds == Spec => []CoreInv
  BY CoreInit, CoreInductive, PTL DEF Spec

\* The state has its type in every reachable state, for any fleet and any
\* number of children, commands and sessions; a task that launches, polls or
\* stops a process always has one (the pid engine.go passes on).
THEOREM TypeCorrect == Spec => []TypeOK
<1>1. CoreInv => TypeOK
  BY TypeParts DEF CoreInv
<1> QED
  BY <1>1, CoreHolds, PTL

----------------------------------------------------------------------------
(* A stray is signalled only where the operator asked for it. *)

\* A process that is not ours never comes out of the registrations, so the task
\* that signals it found it at the ports, and was allowed to.
LEMMA StoppedStray ==
    ASSUME CoreInv, NEW s \in Server, strayNoted(s), strays' # strays
    PROVE  /\ allowed(s)
           /\ strays' = strays \cup {[op |-> verb.op, arg |-> verb.arg, of |-> cfg[s]]}
<1>1. /\ task[s].pid = Alien \/ task[s].pid \notin mine
      /\ strays' = strays \cup {[op |-> verb.op, arg |-> verb.arg, of |-> cfg[s]]}
      /\ task[s].pc = "stop"
  BY DEF strayNoted
<1>2. Alien \notin mine
  BY SupervisorConstants DEF CoreInv, EngineShape, Pid
<1>3. task[s].ret = "foreign"
  BY <1>1, <1>2 DEF CoreInv, MineInv, holds
<1> QED
  BY <1>1, <1>3 DEF CoreInv, StageInv, staged

\* Every step signals nobody but our own, or was allowed to, or is a kill.
LEMMA StraysKept ==
    ASSUME CoreInv, [Next]_vars
    PROVE  \/ strays' = strays
           \/ strays' = strays \cup {[op |-> "kill", arg |-> None, of |-> None]}
           \/ \E s \in Server :
                 /\ allowed(s)
                 /\ strays' = strays \cup {[op |-> verb.op, arg |-> verb.arg, of |-> cfg[s]]}
<1>1. CASE HostMove
  BY <1>1, HostMoveEngine
<1>2. ASSUME NEW s \in Server, TaskStep(s)
      PROVE  \/ strays' = strays
             \/ /\ allowed(s)
                /\ strays' = strays \cup {[op |-> verb.op, arg |-> verb.arg, of |-> cfg[s]]}
  <2>1. soft(s) \/ (\E p \in Pid : born(s, p)) \/ registered(s) \/ stopped(s) \/ judged(s)
    BY <1>2, TaskCases DEF CoreInv
  <2> QED
    BY <2>1, StoppedStray DEF soft, born, registered, stopped, judged
<1>3. CASE ReplStep
  <2>1. CASE Kill
    BY <2>1 DEF Kill
  <2> QED
    BY <1>3, <2>1 DEF ReplStep, Command, ReadOnlyCommand, Report, Bye, Start
<1>4. CASE SigintBurst \/ Crash
  BY <1>4 DEF SigintBurst, Crash
<1>5. ASSUME NEW x \in {"main", "sig"}, ExitStep(x) PROVE strays' = strays
  BY <1>5 DEF ExitStep, TeardownNext, TeardownForget, Exit
<1>6. CASE UNCHANGED vars
  BY <1>6 DEF vars, engineVars
<1> QED
  BY <1>1, <1>2, <1>3, <1>4, <1>5, <1>6 DEF Next, HostMove

\* A process the supervisor did not launch is signalled by the kill verb, by dead,
\* by a down or bounce that names the server, or in the place of an enabled
\* server's child that has just died, and else by no command of the engine, also
\* where a teardown fails or an edit changes the fleet (engine.go downOne,
\* downOrDead, Kill).
THEOREM StraysSpared == Spec => []StraysAreLeftAlone
<1>1. Init => StraysAreLeftAlone
  BY DEF Init, StraysAreLeftAlone
<1>2. StraysAreLeftAlone /\ CoreInv /\ [Next]_vars => StraysAreLeftAlone'
  <2> SUFFICES ASSUME StraysAreLeftAlone, CoreInv, [Next]_vars PROVE StraysAreLeftAlone'
    OBVIOUS
  <2> QED
    BY StraysKept DEF StraysAreLeftAlone, allowed
<1> QED
  BY <1>1, <1>2, CoreHolds, PTL DEF Spec

----------------------------------------------------------------------------
(* The children: one per server, and known. *)

\* A child that has been reaped is not running, and one that was ever launched
\* was launched for a server.
HostInv ==
    \A p \in Pid :
        /\ reaped[p] => life[p] \in {"workers", "gone"}
        /\ life[p] # "unborn" => owner[p] \in Server

\* Children only end.
wanes ==
    /\ owner' = owner
    /\ \A q \in Pid :
          /\ life'[q] = "unborn" <=> life[q] = "unborn"
          /\ life'[q] = "run" => life[q] = "run"
          /\ reaped'[q] => reaped[q] \/ life'[q] \in {"workers", "gone"}

\* A child that ends may be reaped.
LEMMA WaningKeepsHostInv ==
    ASSUME HostInv, HostShape, HostShape', wanes
    PROVE  HostInv'
<1> SUFFICES ASSUME NEW p \in Pid
             PROVE  /\ reaped'[p] => life'[p] \in {"workers", "gone"}
                    /\ life'[p] # "unborn" => owner'[p] \in Server
  BY DEF HostInv
<1>1. life'[p] \in {"unborn", "run", "workers", "gone"}
  BY DEF HostShape, Lives
<1>2. reaped[p] => life[p] \in {"workers", "gone"}
  BY DEF HostInv
<1>3. reaped'[p] => life'[p] \in {"workers", "gone"}
  BY <1>1, <1>2 DEF wanes
<1>4. life'[p] # "unborn" => owner'[p] \in Server
  BY DEF wanes, HostInv
<1> QED
  BY <1>3, <1>4

\* The host launches nothing.
LEMMA HostMoveWanes ==
    ASSUME HostShape, HostMove
    PROVE  wanes
<1> USE DEF HostShape, Lives
<1>1. ASSUME NEW p \in Pid, ChildExits(p) PROVE wanes
  BY <1>1 DEF ChildExits, leaderEnds, wanes
<1>2. CASE UNCHANGED <<life, owner, reaped>>
  BY <1>2 DEF wanes
<1>3. ASSUME NEW p \in Pid, Reap(p) PROVE wanes
  BY <1>3 DEF Reap, wanes
<1>4. ASSUME NEW p, killGroup(p) PROVE wanes
  BY <1>4 DEF killGroup, wanes
<1>5. ASSUME NEW s \in Server, ColdDown(s) PROVE wanes
  BY <1>2, <1>4, <1>5 DEF ColdDown
<1>6. ASSUME NEW p \in Pid, ServiceStarts(p) \/ \E port \in Port : ChildListens(p, port)
      PROVE  wanes
  BY <1>2, <1>6 DEF ServiceStarts, ChildListens
<1>7. ASSUME NEW s \in Server, ServiceDies(s) \/ EditSource(s) PROVE wanes
  BY <1>2, <1>7 DEF ServiceDies, EditSource, hostVars
<1>8. CASE \E port \in Port : ForeignTakes(port) \/ ForeignLeaves(port)
  BY <1>2, <1>8 DEF ForeignTakes, ForeignLeaves
<1>9. CASE \E c \in Configs \cup {Bad} : EditConfig(c)
  BY <1>2, <1>9 DEF EditConfig, hostVars
<1> QED
  BY <1>1, <1>3, <1>5, <1>6, <1>7, <1>8, <1>9 DEF HostMove, HostStep

\* The REPL, the signals, an exit and a crash leave the children as they are.
LEMMA ReplFrame ==
    ASSUME ReplStep \/ SigintBurst \/ Crash
    PROVE  Kill \/ UNCHANGED <<life, owner, reaped>>
  BY DEF ReplStep, Command, ReadOnlyCommand, Report, Bye, Start, SigintBurst, Crash, hostVars

\* But for the process that the operator names.
LEMMA KillWanes ==
    ASSUME HostShape, Kill
    PROVE  wanes
<1>1. CASE UNCHANGED <<life, owner, reaped>>
  BY <1>1 DEF wanes
<1>2. ASSUME NEW p \in Pid, leaderEnds(p) PROVE wanes
  BY <1>2 DEF leaderEnds, wanes, HostShape, Lives
<1> QED
  BY <1>1, <1>2 DEF Kill

\* Every step but a launch.
LEMMA NextWanes ==
    ASSUME CoreInv, [Next]_vars
    PROVE  wanes \/ \E s \in Server, p \in Pid : born(s, p)
<1>1. CASE HostMove
  BY <1>1, HostMoveWanes DEF CoreInv
<1>2. ASSUME UNCHANGED <<life, owner, reaped>> PROVE wanes
  BY <1>2 DEF wanes
<1>3. ASSUME NEW s \in Server, TaskStep(s)
      PROVE  wanes \/ \E p \in Pid : born(s, p)
  <2>1. soft(s) \/ (\E p \in Pid : born(s, p)) \/ registered(s) \/ stopped(s) \/ judged(s)
    BY <1>3, TaskCases DEF CoreInv
  <2>2. CASE soft(s) \/ registered(s)
    BY <1>2, <2>2 DEF soft, registered
  <2>3. CASE stopped(s)
    BY <2>3 DEF stopped, wanes
  <2>4. CASE judged(s)
    BY <1>2, <2>4 DEF judged
  <2> QED
    BY <2>1, <2>2, <2>3, <2>4
<1>4. ASSUME NEW x \in {"main", "sig"}, ExitStep(x) PROVE wanes
  <2>1. CASE \E s \in Server : walked(x, s)
    BY <2>1 DEF walked, wanes
  <2>2. CASE dropped(x) \/ Exit(x)
    BY <1>2, <2>2 DEF dropped, Exit, hostVars
  <2> QED
    BY <1>4, <2>1, <2>2, WalkEffect, ForgetEffect DEF ExitStep, CoreInv
<1>5. CASE UNCHANGED vars
  BY <1>2, <1>5 DEF vars, hostVars
<1> QED
  BY <1>1, <1>2, <1>3, <1>4, <1>5, ReplFrame, KillWanes DEF Next, HostMove, CoreInv

\* Every step keeps the host's invariant.
LEMMA HostInductive == HostInv /\ CoreInv /\ CoreInv' /\ [Next]_vars => HostInv'
<1> SUFFICES ASSUME HostInv, CoreInv, CoreInv', [Next]_vars PROVE HostInv'
  OBVIOUS
<1>1. CASE wanes
  BY <1>1, WaningKeepsHostInv DEF CoreInv
<1>2. ASSUME NEW s \in Server, NEW p \in Pid, born(s, p) PROVE HostInv'
  <2>1. /\ reaped' = reaped /\ life[p] = "unborn" /\ life'[p] = "run" /\ owner'[p] = s
        /\ \A q \in Pid \ {p} : life'[q] = life[q] /\ owner'[q] = owner[q]
    BY <1>2 DEF born
  <2>2. ~reaped[p]
    BY <2>1 DEF HostInv
  <2> QED
    BY <2>1, <2>2 DEF HostInv
<1> QED
  BY <1>1, <1>2, NextWanes

\* The process the engine takes for the child of s.
known(s) == IF task[s].pc = "register" THEN task[s].pid ELSE procs[s]

\* The live children of s that this session launched and has not lost.
kids(s) == {p \in Pid : p \in mine /\ life[p] = "run" /\ owner[p] = s /\ ~lost(p)}

\* Outside a shutdown a live child is the one the engine knows, its task does
\* not take the server for down, and a task that goes on to tear down the child
\* it once read from procs holds the child that is still there.
attended(s) ==
    /\ \A p \in kids(s) : p = known(s) /\ ~cleared(s)
    /\ holds(s) => task[s].pid = procs[s]

KnownInv == settled => \A s \in Server \ Detached : attended(s)

\* A registration that is gone or dead stands for no live child.
LEMMA BareHasNoKid ==
    ASSUME HostInv, CoreInv, NEW s \in Server \ Detached, attended(s), bare(s),
           task[s].pc # "register"
    PROVE  kids(s) = {}
<1> SUFFICES ASSUME NEW p \in kids(s) PROVE FALSE
  OBVIOUS
<1>1. p \in Pid /\ life[p] = "run" /\ p = procs[s] /\ ~cleared(s)
  BY DEF kids, attended, known
<1>2. ~reaped[p]
  BY <1>1 DEF HostInv
<1>3. p # None
  BY <1>1, SupervisorConstants DEF Pid
<1> QED
  BY <1>1, <1>2, <1>3 DEF bare, Ours

\* What a step of another task does not touch.
LEMMA OthersAttended ==
    ASSUME NEW t \in Server, attended(t), task'[t] = task[t], procs'[t] = procs[t],
           kids(t)' \subseteq kids(t)
    PROVE  attended(t)'
<1>1. (cleared(t)' <=> cleared(t)) /\ (holds(t)' <=> holds(t)) /\ known(t)' = known(t)
  BY DEF cleared, holds, known
<1> QED
  BY <1>1 DEF attended

\* Children only end.
LEMMA FewerKids ==
    ASSUME wanes, mine' \subseteq mine, left \subseteq left', NEW t
    PROVE  kids(t)' \subseteq kids(t)
  BY DEF wanes, kids, lost

\* Where the engine stands still, they stay known.
LEMMA WaningKeepsKnown ==
    ASSUME KnownInv, wanes, UNCHANGED <<procs, task, phase, all, mine, left>>
    PROVE  KnownInv'
<1>1. settled' <=> settled
  BY DEF settled
<1>2. \A t \in Server : kids(t)' \subseteq kids(t)
  BY FewerKids
<1> QED
  BY <1>1, <1>2, OthersAttended DEF KnownInv

\* The steps of the tasks.
LEMMA TaskKeepsKnown ==
    ASSUME KnownInv, HostInv, CoreInv, NEW s \in Server, TaskStep(s)
    PROVE  KnownInv'
<1> USE DEF CoreInv
<1>0. soft(s) \/ (\E p \in Pid : born(s, p)) \/ registered(s) \/ stopped(s) \/ judged(s)
  BY TaskCases
<1>1. phase' = phase /\ all' = all /\ \A t \in Server \ {s} : task'[t] = task[t]
  BY <1>0 DEF soft, born, registered, stopped, judged, replVars
<1> SUFFICES ASSUME settled, \A t \in Server \ Detached : attended(t),
                    NEW t \in Server \ Detached
             PROVE  attended(t)'
  BY <1>1 DEF KnownInv, settled
<1>2. CASE soft(s)
  <2>1. kids(t)' = kids(t)
    BY <1>2 DEF soft, kids, lost
  <2>2. CASE t # s
    <3>1. procs'[t] = procs[t]
      BY <1>2, <2>2 DEF soft, EngineShape
    <3> QED
      BY <1>1, <2>1, <2>2, <3>1, OthersAttended
  <2>3. CASE t = s /\ procs' = procs
    <3>1. cleared(s)' => kids(s) = {}
      BY <1>2, <2>3, BareHasNoKid DEF soft
    <3>2. known(s)' = known(s)
      BY <1>2, <2>3 DEF soft, known
    <3>3. holds(s)' => task'[s].pid = procs'[s]
      BY <1>2, <2>3 DEF soft, attended
    <3> QED
      BY <2>1, <2>3, <3>1, <3>2, <3>3 DEF attended
  <2>4. CASE t = s /\ bare(s) /\ ~holds(s)'
    <3>1. kids(s) = {}
      BY <1>2, <2>4, BareHasNoKid DEF soft
    <3> QED
      BY <2>1, <2>4, <3>1 DEF attended
  <2> QED
    BY <1>2, <2>2, <2>3, <2>4 DEF soft
<1>3. ASSUME NEW p \in Pid, born(s, p) PROVE attended(t)'
  <2>1. /\ procs' = procs /\ life'[p] = "run" /\ owner'[p] = s /\ mine' = mine \cup {p} /\ left' = left
        /\ \A q \in Pid \ {p} : life'[q] = life[q] /\ owner'[q] = owner[q]
        /\ task[s].pc = "launch" /\ task'[s].pc = "register" /\ task'[s].pid = p
    BY <1>3 DEF born
  <2>2. CASE t # s
    <3>1. kids(t)' \subseteq kids(t)
      BY <2>1, <2>2 DEF kids, lost
    <3> QED
      BY <1>1, <2>1, <2>2, <3>1, OthersAttended
  <2>3. CASE t = s
    <3>1. kids(s) = {}
      BY <2>1, <2>3 DEF attended, cleared
    <3>2. kids(s)' \subseteq {p}
      BY <2>1, <3>1 DEF kids, lost
    <3>3. known(s)' = p /\ ~cleared(s)' /\ ~holds(s)'
      BY <2>1 DEF known, cleared, holds
    <3> QED
      BY <2>3, <3>2, <3>3 DEF attended
  <2> QED
    BY <2>2, <2>3
<1>4. CASE registered(s)
  <2>1. kids(t)' = kids(t)
    BY <1>4 DEF registered, kids, lost
  <2>2. CASE t # s
    <3>1. procs'[t] = procs[t]
      BY <1>4, <2>2 DEF registered, EngineShape
    <3> QED
      BY <1>1, <2>1, <2>2, <3>1, OthersAttended
  <2>3. CASE t = s
    <3>1. known(s)' = known(s)
      BY <1>4 DEF registered, known, EngineShape
    <3>2. ~cleared(s)' /\ ~holds(s)'
      BY <1>4 DEF registered, cleared, holds
    <3> QED
      BY <2>1, <2>3, <3>1, <3>2 DEF attended
  <2> QED
    BY <2>2, <2>3
<1>5. CASE stopped(s)
  <2>1. kids(t)' \subseteq kids(t)
    BY <1>5 DEF stopped, kids, lost
  <2>2. CASE t # s
    BY <1>1, <1>5, <2>1, <2>2, OthersAttended DEF stopped
  <2>3. CASE t = s
    <3>1. known(s)' = known(s)
      BY <1>5 DEF stopped, known
    <3>2. ~cleared(s)' /\ (holds(s)' => holds(s))
      BY <1>5 DEF stopped, cleared, holds
    <3> QED
      BY <1>5, <2>1, <2>3, <3>1, <3>2 DEF attended, stopped
  <2> QED
    BY <2>2, <2>3
<1>6. CASE judged(s)
  <2>1. kids(t)' \subseteq kids(t)
    BY <1>6 DEF judged, kids, lost
  <2>2. CASE t # s
    <3>1. procs'[t] = procs[t]
      BY <1>6, <2>2 DEF judged, EngineShape
    <3> QED
      BY <1>1, <2>1, <2>2, <3>1, OthersAttended
  <2>3. CASE t = s /\ procs' = procs /\ task'[s].pc # "replace"
    <3>1. known(s)' = known(s) /\ ~cleared(s)' /\ ~holds(s)'
      BY <1>6, <2>3 DEF judged, known, cleared, holds
    <3> QED
      BY <2>1, <2>3, <3>1 DEF attended
  <2>4. CASE /\ t = s /\ task[s].ret # "foreign"
             /\ task[s].pid \in mine /\ life[task[s].pid] = "run" => \E r \in left' : losing(r, task[s].pid)
    <3>1. ~holds(s)' /\ task[s].pc # "register" /\ life' = life /\ mine' = mine
      BY <1>6 DEF judged, holds
    <3>2. task[s].pid = procs[s]
      BY <1>6, <2>4 DEF judged, attended, holds
    <3>3. ASSUME NEW p \in kids(s)' PROVE FALSE
      <4>1. p \in mine /\ life[p] = "run" /\ p = task[s].pid
        BY <2>1, <2>4, <3>1, <3>2 DEF attended, known, kids
      <4>2. \E r \in left' : losing(r, p)
        BY <2>4, <4>1
      <4> QED
        BY <4>2 DEF kids, lost, losing
    <3> QED
      BY <2>4, <3>1, <3>3 DEF attended
  <2> QED
    BY <1>6, <2>2, <2>3, <2>4 DEF judged
<1> QED
  BY <1>0, <1>2, <1>3, <1>4, <1>5, <1>6

\* The tasks end, and new ones begin: nothing happens to the children meanwhile.
LEMMA RestKeepsKnown ==
    ASSUME KnownInv, settled' => settled, UNCHANGED <<life, owner, mine, left, procs>>,
           \A s \in Server : /\ task[s].pc # "register"
                             /\ task'[s].pc \in {"idle", "up", "build", "queued", "down"}
    PROVE  KnownInv'
<1> SUFFICES ASSUME settled, NEW t \in Server \ Detached, attended(t) PROVE attended(t)'
  BY DEF KnownInv
<1>1. kids(t)' = kids(t) /\ known(t)' = known(t)
  BY DEF kids, known, lost
<1>2. ~cleared(t)' /\ ~holds(t)'
  BY DEF cleared, holds
<1> QED
  BY <1>1, <1>2 DEF attended

\* The steps of the REPL.
LEMMA ReplKeepsKnown ==
    ASSUME KnownInv, CoreInv, ReplStep
    PROVE  KnownInv'
<1> USE DEF CoreInv
<1>1. ASSUME NEW op, NEW arg \in Server \cup {All}, Command(op, arg)
      PROVE  KnownInv'
  <2>1. /\ UNCHANGED <<life, owner, mine, left, procs, all>> /\ phase = "prompt"
        /\ task' = task \/ task' = dispatch(op, arg, reloaded)
    BY <1>1 DEF Command, hostVars
  <2>2. settled' => settled
    BY <2>1 DEF settled
  <2>3. \A s \in Server : task[s].pc = "idle"
    BY <2>1 DEF PhaseInv
  <2>4. \A s \in Server : task'[s].pc \in {"idle", "up", "build", "queued", "down"}
    BY <2>1, <2>3, DispatchType
  <2> QED
    BY <2>1, <2>2, <2>3, <2>4, RestKeepsKnown
<1>2. CASE ReadOnlyCommand
  <2>1. UNCHANGED <<life, owner, mine, left, procs, all, task, phase>> /\ phase = "prompt"
    BY <1>2 DEF ReadOnlyCommand, hostVars, replVars
  <2>2. settled' => settled
    BY <2>1 DEF settled
  <2>3. \A s \in Server : task[s].pc = "idle" /\ task'[s].pc = "idle"
    BY <2>1 DEF PhaseInv
  <2> QED
    BY <2>1, <2>2, <2>3, RestKeepsKnown
<1>3. CASE Report
  <2>1. UNCHANGED <<life, owner, mine, left>> /\ phase = "verb"
        /\ \A s \in Server : task[s].pc # "register"
    BY <1>3 DEF Report, hostVars, busy
  <2>2. CASE stop("autofail")
    BY <2>2 DEF stop, settled, KnownInv
  <2>3. CASE /\ task' = [s \in Server |-> Idle] \/ task' = dispatch("up", verb.arg, cfg)
             /\ UNCHANGED <<procs, all>>
    <3>1. settled' => settled
      BY <2>1, <2>3 DEF settled
    <3>2. \A s \in Server : task'[s].pc \in {"idle", "up", "build", "queued", "down"}
      BY <2>3, DispatchType DEF Idle
    <3> QED
      BY <2>1, <2>3, <3>1, <3>2, RestKeepsKnown
  <2> QED
    BY <1>3, <2>2, <2>3 DEF Report
<1>4. CASE Bye
  <2>1. all'["main"].pc = "kill"
    BY <1>4 DEF Bye, EngineShape, snapshot
  <2> QED
    BY <2>1 DEF KnownInv, settled
<1>5. ASSUME NEW m \in {"repl", "auto"}, Start(m) PROVE KnownInv'
  <2>1. /\ mine' = {} /\ phase = "off"
        /\ task' = task \/ task' = dispatch("up", All, reloaded)
    BY <1>5 DEF Start, AcquireLock
  <2>2. \A s \in Server : task'[s].pc \in {"idle", "up", "build", "queued", "down"}
    BY <2>1, DispatchType DEF PhaseInv
  <2>3. \A s \in Server : kids(s)' = {} /\ ~holds(s)'
    BY <2>1, <2>2 DEF kids, holds
  <2> QED
    BY <2>3 DEF KnownInv, attended
<1>6. CASE Kill
  BY <1>6, KillWanes, WaningKeepsKnown DEF Kill, replVars
<1> QED
  BY <1>1, <1>2, <1>3, <1>4, <1>5, <1>6 DEF ReplStep

\* Every step keeps the children known.
LEMMA KnownInductive == KnownInv /\ HostInv /\ CoreInv /\ [Next]_vars => KnownInv'
<1> SUFFICES ASSUME KnownInv, HostInv, CoreInv, [Next]_vars PROVE KnownInv'
  OBVIOUS
<1>1. CASE HostMove
  BY <1>1, HostMoveWanes, HostMoveEngine, WaningKeepsKnown DEF CoreInv, replVars
<1>2. CASE UNCHANGED vars
  BY <1>2, WaningKeepsKnown DEF vars, hostVars, engineVars, replVars, wanes
<1>3. CASE SigintBurst
  <2>1. all'["sig"].pc = "kill"
    BY <1>3 DEF SigintBurst, CoreInv, EngineShape, snapshot
  <2> QED
    BY <2>1 DEF KnownInv, settled
<1>4. CASE Crash
  BY <1>4 DEF Crash, stop, KnownInv, settled
<1>5. ASSUME NEW x \in {"main", "sig"}, ExitStep(x) PROVE KnownInv'
  <2>1. CASE (\E s \in Server : walked(x, s)) \/ dropped(x)
    <3>1. all'[x].pc # "idle"
      BY <2>1 DEF walked, dropped
    <3> QED
      BY <3>1 DEF KnownInv, settled
  <2>2. CASE Exit(x)
    BY <2>2 DEF Exit, stop, KnownInv, settled
  <2> QED
    BY <1>5, <2>1, <2>2, WalkEffect, ForgetEffect DEF ExitStep, CoreInv
<1> QED
  BY <1>1, <1>2, <1>3, <1>4, <1>5, TaskKeepsKnown, ReplKeepsKnown DEF Next, HostMove

\* The inductive invariant of the children.
ChildInv == CoreInv /\ HostInv /\ KnownInv

\* It holds in every reachable state.
LEMMA ChildHolds == Spec => []ChildInv
<1>1. Init => ChildInv
  BY CoreInit DEF ChildInv, HostInv, KnownInv, settled, Init
<1>2. ChildInv /\ [Next]_vars => ChildInv'
  BY CoreInductive, HostInductive, KnownInductive DEF ChildInv
<1> QED
  BY <1>1, <1>2, PTL DEF Spec

\* Outside a shutdown no server has two live children of this session, and
\* every live child is in procs or about to be put there, whatever the operator
\* types and wherever a teardown, a rebuild or a bounce fails (engine.go upOne,
\* Build, downOne, teardownOne).  A child the engine is known to lose is excepted:
\* one that outlived its teardown by build or dead, which drop the entry all the
\* same, or that verify called gone.
THEOREM ChildIsKnown == Spec => []OneKnownChild
<1>1. ChildInv => OneKnownChild
  <2> SUFFICES ASSUME ChildInv, settled PROVE OneChildPerServer /\ NoForgottenChild
    BY DEF OneKnownChild, OneChildPerServer, NoForgottenChild
  <2>1. ASSUME NEW p \in Charges
        PROVE  owner[p] \in Server /\ p = known(owner[p])
    <3>1. p \in Pid
      BY DEF ChildInv, CoreInv, EngineShape, Charges
    <3>2. owner[p] \in Server
      BY <2>1, <3>1 DEF ChildInv, HostInv, Charges
    <3>3. p \in kids(owner[p]) /\ owner[p] \notin Detached
      BY <2>1, <3>1 DEF kids, Charges
    <3> QED
      BY <3>2, <3>3 DEF ChildInv, KnownInv, attended
  <2>2. OneChildPerServer
    BY <2>1 DEF OneChildPerServer
  <2>3. NoForgottenChild
    BY <2>1 DEF NoForgottenChild, known
  <2> QED
    BY <2>2, <2>3
<1> QED
  BY <1>1, ChildHolds, PTL

----------------------------------------------------------------------------
(* Leaving. *)

\* While main leaves and no signal interferes, every live child of a server
\* the configuration names is still to be torn down by its walk, or has outlived
\* it.
LeavingInv ==
    phase = "bye" /\ all["sig"].pc = "idle" =>
        \A s \in Server \ Detached : \A p \in kids(s) :
            \/ cfg[s] = "absent"
            \/ all["main"].pc = "kill" /\ s \in all["main"].todo /\ all["main"].snap[s] = p
            \/ exitNoted(p)

\* The snapshot main leaves with has every live child: no task is under way.
LEMMA ByeLeaves ==
    ASSUME ChildInv, Bye
    PROVE  LeavingInv'
<1> USE DEF ChildInv, CoreInv
<1>1. /\ UNCHANGED <<life, owner, mine, left, procs, task, cfg>> /\ phase \in {"prompt", "parked"}
      /\ all' = [all EXCEPT !["main"] = snapshot]
  BY DEF Bye, hostVars, cfgVars
<1>2. all'["main"] = snapshot /\ all'["sig"] = all["sig"]
  BY <1>1 DEF EngineShape
<1> SUFFICES ASSUME all["sig"].pc = "idle", NEW s \in Server \ Detached, NEW p \in kids(s)',
                    cfg[s] # "absent"
             PROVE  snapshot.pc = "kill" /\ s \in snapshot.todo /\ snapshot.snap[s] = p
  BY <1>1, <1>2 DEF LeavingInv
<1>3. settled
  BY <1>1 DEF settled, PhaseInv
<1>4. p \in kids(s)
  BY <1>1 DEF kids, lost
<1>5. task[s].pc = "idle"
  BY <1>1 DEF PhaseInv
<1>6. procs[s] = p
  BY <1>3, <1>4, <1>5 DEF KnownInv, attended, known
<1>7. p # None
  BY <1>4, SupervisorConstants DEF kids, Pid
<1> QED
  BY <1>6, <1>7 DEF snapshot

\* The walk of main.
LEMMA ExitLeaves ==
    ASSUME LeavingInv, CoreInv, NEW x \in {"main", "sig"}, ExitStep(x)
    PROVE  LeavingInv'
<1>1. ASSUME NEW s \in Server, walked(x, s) PROVE LeavingInv'
  <2>1. CASE x = "sig"
    BY <1>1, <2>1 DEF walked, LeavingInv
  <2>2. CASE x = "main"
    <3>1. /\ UNCHANGED <<owner, mine, cfg, phase>> /\ all'["sig"] = all["sig"]
          /\ all["main"].pc = "kill" /\ all'["main"].pc = "kill"
          /\ all'["main"].snap = all["main"].snap
          /\ all'["main"].todo = all["main"].todo \ {s}
          /\ left \subseteq left'
          /\ \A q \in Pid : life'[q] = "run" => life[q] = "run"
          /\ \A q \in Pid : q = all["main"].snap[s] /\ q \in mine /\ life'[q] = "run" => exitNoted(q)'
      BY <1>1, <2>2 DEF walked, cfgVars, replVars
    <3> SUFFICES ASSUME phase = "bye", all["sig"].pc = "idle",
                        NEW t \in Server \ Detached, NEW p \in kids(t)', cfg[t] # "absent",
                        ~exitNoted(p)'
                 PROVE  t \in all["main"].todo \ {s} /\ all["main"].snap[t] = p
      BY <3>1 DEF LeavingInv
    <3>2. p \in kids(t) /\ p \in Pid /\ life'[p] = "run" /\ p \in mine
      BY <3>1 DEF kids, lost
    <3>3. ~exitNoted(p)
      BY <3>1 DEF exitNoted
    <3>4. t \in all["main"].todo /\ all["main"].snap[t] = p
      BY <3>2, <3>3 DEF LeavingInv
    <3>5. t # s
      BY <3>1, <3>2, <3>4
    <3> QED
      BY <3>4, <3>5
  <2> QED
    BY <2>1, <2>2
<1>2. CASE dropped(x)
  <2>1. CASE x = "sig"
    BY <1>2, <2>1 DEF dropped, LeavingInv
  <2>2. CASE x = "main"
    <3>1. /\ UNCHANGED <<life, owner, mine, left, cfg, phase>> /\ all'["sig"] = all["sig"]
          /\ all["main"].todo = {}
      BY <1>2, <2>2 DEF dropped, cfgVars, replVars, hostVars
    <3>2. \A s \in Server : kids(s)' = kids(s)
      BY <3>1 DEF kids, lost
    <3> QED
      BY <3>1, <3>2 DEF LeavingInv, exitNoted
  <2> QED
    BY <2>1, <2>2
<1>3. CASE Exit(x)
  BY <1>3 DEF Exit, stop, LeavingInv
<1> QED
  BY <1>1, <1>2, <1>3, WalkEffect, ForgetEffect DEF ExitStep, CoreInv

\* Every step keeps what main still has to do.
LEMMA LeavingInductive == LeavingInv /\ ChildInv /\ [Next]_vars => LeavingInv'
<1> SUFFICES ASSUME LeavingInv, ChildInv, [Next]_vars PROVE LeavingInv'
  OBVIOUS
<1>1. ASSUME wanes, UNCHANGED <<cfg, phase, all, mine, left>> PROVE LeavingInv'
  <2>1. \A t \in Server : kids(t)' \subseteq kids(t)
    BY <1>1, FewerKids
  <2> QED
    BY <1>1, <2>1 DEF LeavingInv, exitNoted
<1>2. CASE HostMove
  BY <1>1, <1>2, HostMoveWanes, HostMoveEngine DEF ChildInv, CoreInv, replVars
<1>3. CASE UNCHANGED vars
  BY <1>1, <1>3 DEF vars, hostVars, engineVars, replVars, cfgVars, wanes
<1>4. ASSUME phase' # "bye" PROVE LeavingInv'
  BY <1>4 DEF LeavingInv
<1>5. ASSUME NEW s \in Server, TaskStep(s) PROVE LeavingInv'
  <2>1. soft(s) \/ (\E p \in Pid : born(s, p)) \/ registered(s) \/ stopped(s) \/ judged(s)
    BY <1>5, TaskCases DEF ChildInv, CoreInv
  <2>2. phase' = "verb"
    BY <2>1 DEF soft, born, registered, stopped, judged, replVars
  <2> QED
    BY <1>4, <2>2
<1>6. CASE ReplStep
  <2>1. CASE Bye
    BY <2>1, ByeLeaves
  <2>2. ASSUME NEW op, NEW arg, Command(op, arg) PROVE LeavingInv'
    BY <1>4, <2>2 DEF Command
  <2>3. CASE ReadOnlyCommand
    BY <1>4, <2>3 DEF ReadOnlyCommand, replVars
  <2>4. CASE Report
    BY <1>4, <2>4 DEF Report, stop
  <2>5. ASSUME NEW m, Start(m) PROVE LeavingInv'
    BY <1>4, <2>5 DEF Start
  <2>6. CASE Kill
    BY <1>4, <2>6 DEF Kill, replVars
  <2> QED
    BY <1>6, <2>1, <2>2, <2>3, <2>4, <2>5, <2>6 DEF ReplStep
<1>7. CASE SigintBurst
  <2>1. all'["sig"].pc = "kill"
    BY <1>7 DEF SigintBurst, ChildInv, CoreInv, EngineShape, snapshot
  <2> QED
    BY <2>1 DEF LeavingInv
<1>8. CASE Crash
  BY <1>4, <1>8 DEF Crash, stop
<1> QED
  BY <1>2, <1>3, <1>5, <1>6, <1>7, <1>8, ExitLeaves DEF Next, HostMove, ChildInv

\* The process ends by a quit only where main's walk is over and no signal came.
LEMMA QuitStep ==
    ASSUME LeavingInv, ChildInv, [Next]_vars, phase' = "off", how' = "quit"
    PROVE  \/ phase = "off" /\ how = "quit" /\ wanes /\ UNCHANGED <<cfg, mine, left>>
           \/ /\ phase = "bye" /\ all["sig"].pc = "idle" /\ all["main"].pc = "exit"
              /\ UNCHANGED <<life, owner, mine, left, cfg>>
<1>1. CASE HostMove
  BY <1>1, HostMoveWanes, HostMoveEngine DEF ChildInv, CoreInv, replVars
<1>2. CASE UNCHANGED vars
  BY <1>2 DEF vars, hostVars, engineVars, replVars, cfgVars, wanes
<1>3. ASSUME NEW s \in Server, TaskStep(s) PROVE FALSE
  <2>1. soft(s) \/ (\E p \in Pid : born(s, p)) \/ registered(s) \/ stopped(s) \/ judged(s)
    BY <1>3, TaskCases DEF ChildInv, CoreInv
  <2> QED
    BY <2>1 DEF soft, born, registered, stopped, judged, replVars
<1>4. CASE ReplStep
  <2>1. \A op, arg : ~Command(op, arg)
    BY DEF Command
  <2>2. ~ReadOnlyCommand /\ ~Kill /\ ~Bye
    BY DEF ReadOnlyCommand, Kill, Bye, replVars
  <2>3. ~Report
    BY DEF Report, stop
  <2>4. \A m : ~Start(m)
    BY DEF Start
  <2> QED
    BY <1>4, <2>1, <2>2, <2>3, <2>4 DEF ReplStep
<1>5. ~SigintBurst /\ ~Crash
  BY DEF SigintBurst, Crash, stop, replVars
<1>6. ASSUME NEW x \in {"main", "sig"}, ExitStep(x)
      PROVE  /\ phase = "bye" /\ all["sig"].pc = "idle" /\ all["main"].pc = "exit"
             /\ UNCHANGED <<life, owner, mine, left, cfg>>
  <2>1. CASE Exit(x)
    <3>1. x = "main" /\ all["sig"].pc = "idle"
      BY <2>1 DEF Exit, stop
    <3>2. phase = "bye"
      BY <2>1, <3>1 DEF Exit, ChildInv, CoreInv, PhaseInv
    <3> QED
      BY <2>1, <3>1, <3>2 DEF Exit, hostVars, cfgVars
  <2>2. ASSUME (\E s \in Server : walked(x, s)) \/ dropped(x) PROVE FALSE
    <3>1. phase = "off" /\ all[x].pc = "kill"
      BY <2>2 DEF walked, dropped, replVars
    <3> QED
      BY <3>1 DEF ChildInv, CoreInv, PhaseInv
  <2> QED
    BY <1>6, <2>1, <2>2, WalkEffect, ForgetEffect DEF ExitStep, ChildInv, CoreInv
<1> QED
  BY <1>1, <1>2, <1>3, <1>4, <1>5, <1>6 DEF Next, HostMove

\* Every step keeps the quit clean.
LEMMA QuitInductive ==
    ASSUME QuitLeavesNoChild, LeavingInv, ChildInv, [Next]_vars
    PROVE  QuitLeavesNoChild'
<1> SUFFICES ASSUME phase' = "off", how' = "quit", NEW p \in Charges'
             PROVE  cfg'[owner'[p]] = "absent" \/ exitNoted(p)'
  BY DEF QuitLeavesNoChild, exitNoted
<1>0. p \in mine' /\ life'[p] = "run" /\ owner'[p] \notin Detached /\ ~lost(p)'
  BY DEF Charges
<1>1. CASE phase = "off" /\ how = "quit" /\ wanes /\ UNCHANGED <<cfg, mine, left>>
  <2>1. p \in Pid /\ p \in mine
    BY <1>0, <1>1 DEF ChildInv, CoreInv, EngineShape
  <2>2. p \in Charges
    BY <1>0, <1>1, <2>1 DEF Charges, wanes, lost
  <2> QED
    BY <1>1, <2>2 DEF QuitLeavesNoChild, wanes, exitNoted
<1>2. CASE /\ phase = "bye" /\ all["sig"].pc = "idle" /\ all["main"].pc = "exit"
           /\ UNCHANGED <<life, owner, mine, left, cfg>>
  <2>1. p \in Pid /\ p \in mine /\ life[p] = "run" /\ owner[p] \notin Detached /\ ~lost(p)
    BY <1>0, <1>2 DEF ChildInv, CoreInv, EngineShape, lost
  <2>2. owner[p] \in Server \ Detached /\ p \in kids(owner[p])
    BY <2>1 DEF ChildInv, HostInv, kids
  <2> QED
    BY <1>2, <2>2 DEF LeavingInv, exitNoted
<1> QED
  BY <1>1, <1>2, QuitStep

\* Leaving by quit, by the end of the input or, in auto mode, by a signal leaves
\* no child behind of a server the configuration still names (engine.go
\* TeardownAll, lifecycle.TeardownAll), but for one that was lost before and one
\* whose own teardown failed on the way out: the failure of one teardown costs
\* no other child its own.
THEOREM QuitIsClean == Spec => []QuitLeavesNoChild
<1>1. Init => LeavingInv /\ QuitLeavesNoChild
  BY DEF Init, LeavingInv, QuitLeavesNoChild
<1>2. LeavingInv /\ QuitLeavesNoChild /\ ChildInv /\ [Next]_vars
         => (LeavingInv /\ QuitLeavesNoChild)'
  BY LeavingInductive, QuitInductive
<1> QED
  BY <1>1, <1>2, ChildHolds, PTL DEF Spec

----------------------------------------------------------------------------
(* The status row. *)

\* A read that does not return the ports a member holds degrades the look,
\* unless a host-wide scan that seemed to work has no row of the member.
LEMMA LostReadIsDegraded ==
    ASSUME NEW held, held # {}, NEW read \in Reads, NEW scan,
           listeningPorts(held, read) = {},
           ~(read = "empty" /\ scan.ok /\ held \cap scan.rows = {})
    PROVE  degradedRead(held, read, scan)
<1>1. read \in {"error", "empty"}
  BY DEF listeningPorts, Reads
<1>2. CASE read = "error"
  BY <1>2 DEF degradedRead
<1>3. CASE read = "empty"
  <2>1. holdsListen(held, scan) # "empty"
    BY <1>3 DEF holdsListen
  <2> QED
    BY <1>3, <2>1 DEF degradedRead, ambiguousEmptyReadIsDegraded
<1> QED
  BY <1>1, <1>2, <1>3

\* A look at the tree of a live child that listens finds a port or says that it
\* is not sure, unless it is blind.
LEMMA LookIsHonest ==
    ASSUME NEW p, NEW alive, alive, NEW look \in looks(p), ~blind(p, look)
    PROVE  LET obs == observeOwnedTree(alive, Tree(p), look)
           IN  obs.holders # {} \/ obs.unconfirmed \/ obs.degraded # {}
<1> DEFINE tree == Tree(p)
           obs  == treeListenSet(alive, tree, look)
<1>1. PICK m \in DOMAIN tree :
         /\ tree[m] # {} /\ m \in look.walk
         /\ ~(look.reads[m] = "empty" /\ look.scan.ok /\ tree[m] \cap look.scan.rows = {})
  BY DEF blind
<1>2. look.reads[m] \in Reads /\ look.root \in Roots
  BY DEF looks
<1>3. CASE look.root = "transient"
  <2>1. obs.err = "unconfirmed"
    BY <1>3 DEF treeListenSet
  <2> QED
    BY <2>1 DEF observeOwnedTree
<1>4. CASE look.root = "true"
  <2>1. obs.err = "none"
    BY <1>4 DEF treeListenSet
  <2>2. CASE listeningPorts(tree[m], look.reads[m]) # {}
    <3>1. obs.holders # {}
      BY <1>1, <2>2 DEF treeListenSet
    <3> QED
      BY <2>1, <3>1 DEF observeOwnedTree
  <2>3. CASE listeningPorts(tree[m], look.reads[m]) = {}
    <3>1. degradedRead(tree[m], look.reads[m], look.scan)
      BY <1>1, <1>2, <2>3, LostReadIsDegraded
    <3>2. m \in obs.degraded
      BY <1>1, <3>1 DEF treeListenSet
    <3> QED
      BY <2>1, <3>2 DEF observeOwnedTree
  <2> QED
    BY <2>2, <2>3
<1> QED
  BY <1>2, <1>3, <1>4 DEF Roots

\* A look that found a port, or is not sure, is not shown as down.
LEMMA NotShownDown ==
    ASSUME NEW declared, NEW obs, obs.holders # {} \/ obs.unconfirmed \/ obs.degraded # {}
    PROVE  statusState(declared, TRUE, FALSE, obs) # "down"
  BY DEF statusState, isUnconfirmedObservation, classifyOwned

\* Where the status table calls a server down while a child of ours holds one of
\* its ports, the look was blind: each port holder was missing from the walk of
\* the tree, or was read as empty while a scan that seemed to work lacked its
\* rows.  A read or a scan that fails, a scan without rows and a root that cannot
\* be looked up never end in "down" (observe.go treeListenSet, engine.go
\* statusForLocked).
THEOREM DownIsNeverGuessed == Spec => []DownIsConfirmed
<1>1. DownIsConfirmed
  <2> SUFFICES ASSUME NEW s \in Server \ Detached, Ours(s), life[procs[s]] = "run",
                      NEW look \in looks(procs[s]), ~blind(procs[s], look)
               PROVE  shown(s, look) # "down"
    BY DEF DownIsConfirmed
  <2> DEFINE obs == observeOwnedTree(life[procs[s]] = "run", Tree(procs[s]), look)
  <2>1. obs.holders # {} \/ obs.unconfirmed \/ obs.degraded # {}
    BY LookIsHonest
  <2>2. statusState(Declared[s], TRUE, FALSE, obs) # "down"
    BY <2>1, NotShownDown
  <2>3. Ours(s) = TRUE /\ (s \in Detached) = FALSE
    BY DEF Ours
  <2> QED
    BY <2>2, <2>3 DEF shown
<1> QED
  BY <1>1, PTL
============================================================================
