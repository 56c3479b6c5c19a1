----------------------------- MODULE Supervisor -----------------------------
(***************************************************************************)
(* The process supervisor: cmd/aa-server-status (engine, REPL, auto mode,   *)
(* signals, config reload, lock) over internal/lifecycle (launch, teardown, *)
(* build), internal/health and internal/observe.                            *)
(*                                                                         *)
(* The host: child processes with a process group each (a leader and, for  *)
(* a Forking server, a worker that holds the ports), services a detached   *)
(* launcher leaves behind, and processes nobody here launched.  Children   *)
(* exit, open ports and are reaped in their own time.                      *)
(*                                                                         *)
(* The supervisor: one REPL, whose verb runs one task per server (`up' runs *)
(* them concurrently, a fleet `down' one after the other), and a signal    *)
(* goroutine that may tear everything down while a verb is under way.      *)
(***************************************************************************)
EXTENDS Naturals, FiniteSets, Observation

CONSTANTS
    Server, Port,
    Declared,     \* [Server -> SUBSET Port]: {port} \cup listens
    Detached,     \* servers whose launcher exits and leaves a service behind
    Source,       \* servers built from source
    Forking,      \* servers whose ports are held by a child of the leader
    Prompted,     \* servers that declare [server.prompt]
    Configs,      \* the valid configurations the operator may write
    MaxPid,       \* bound: children launched
    MaxVerbs,     \* bound: commands typed
    MaxEvents,    \* bound: things that happen to the host on their own
    MaxSessions,  \* bound: times the supervisor is started
    None, All, Alien, Bad

Standing == {"absent", "disabled", "enabled"}

\* Ports of different servers are disjoint and an entry of procs is one process:
\* what validation ensures.  That a source server is not detached it does not
\* ensure (validateType asks that only of the teardown arguments of an exec
\* server): such a configuration is outside the model.
ASSUME SupervisorConstants ==
    /\ Declared \in [Server -> SUBSET Port]
    /\ \A s, t \in Server : s # t => Declared[s] \cap Declared[t] = {}
    /\ \A s \in Server : Declared[s] # {}
    /\ Detached \subseteq Server /\ Source \subseteq Server \ Detached
    /\ Forking \subseteq Server \ Detached /\ Prompted \subseteq Server
    /\ Configs \subseteq [Server -> Standing] /\ Configs # {}
    /\ MaxPid \in Nat /\ MaxVerbs \in Nat /\ MaxEvents \in Nat /\ MaxSessions \in Nat
    /\ {All, None, Alien, Bad} \cap Server = {}
    /\ None \notin Nat /\ Alien \notin Nat /\ None # Alien
    /\ Bad \notin Configs /\ None \notin Configs /\ None # Bad

Pid == 1..MaxPid

VARIABLES
    life,       \* [Pid -> "unborn" | "run" | "workers" | "gone"]: the group
    owner,      \* [Pid -> server it was launched for]
    reaped,     \* [Pid -> BOOLEAN]: Process.exited
    listen,     \* [Pid -> SUBSET Port]
    foreign,    \* ports held by processes nobody here launched
    service,    \* detached servers whose service is running
    stale,      \* source servers whose binary differs from a fresh build
    cfg,        \* RealEngine.cfg
    disk,       \* what an edit left in the config file, None once it is read
    procs,      \* RealEngine.procs
    phase,      \* "off", "prompt", "verb", "parked" or "bye"
    mode,       \* "repl" or "auto"
    verb,       \* the command in hand: [op, arg]
    task,       \* [Server -> [pc, pid, ret]]: what the verb does for each server
    all,        \* TeardownAll by the REPL ("main") and by the signal goroutine
    how,        \* how the supervisor last stopped
    mine,       \* history: children this session launched
    strays,     \* history: verbs under which a process not ours was signalled
    left,       \* history: teardowns that left a child of ours alive: [pid, by, ok]
    typed, events, sessions  \* the bounds' counters

hostVars == <<life, owner, reaped, listen, foreign, service>>
cfgVars  == <<cfg, disk>>
replVars == <<phase, mode, verb, how>>
engineVars == <<cfgVars, procs, replVars, task, all, mine, strays, left, typed, sessions>>
vars == <<hostVars, stale, events, engineVars>>

----------------------------------------------------------------------------
(* The host. *)

Alive(p) == life[p] \in {"run", "workers"}

\* The ports somebody listens on: what SystemListenSet returns when it works.
Listening ==
    foreign \cup UNION {listen[p] : p \in {q \in Pid : Alive(q)}}
            \cup UNION {Declared[s] : s \in service}

portsFree(s) == Declared[s] \cap Listening = {}

\* The members of a child's tree and the ports each of them holds.
Tree(p) ==
    IF owner[p] \in Forking THEN [m \in {"leader", "worker"} |-> IF m = "worker" THEN listen[p] ELSE {}]
    ELSE [m \in {"leader"} |-> listen[p]]

event == events < MaxEvents /\ events' = events + 1

\* A signal ends the whole group, and its sockets with it.
killGroup(p) ==
    /\ life' = [life EXCEPT ![p] = IF @ = "unborn" THEN @ ELSE "gone"]
    /\ listen' = [listen EXCEPT ![p] = {}]
    /\ UNCHANGED <<owner, reaped>>

\* A child opens a port: one it declares, or one it should not.
ChildListens(p, port) ==
    /\ life[p] = "run" /\ owner[p] \notin Detached
    /\ port \notin Listening
    /\ \/ port \in Declared[owner[p]] /\ UNCHANGED events
       \/ /\ \A s \in Server : port \notin Declared[s]
          /\ event
    /\ listen' = [listen EXCEPT ![p] = @ \cup {port}]
    /\ UNCHANGED <<life, owner, reaped, foreign, service, stale, engineVars>>

\* The leader of a group ends.  A worker may outlive it.
leaderEnds(p) ==
    /\ life[p] = "run"
    /\ \/ life' = [life EXCEPT ![p] = "gone"] /\ listen' = [listen EXCEPT ![p] = {}]
       \/ /\ owner[p] \in Forking
          /\ life' = [life EXCEPT ![p] = "workers"]
          /\ UNCHANGED listen
    /\ UNCHANGED <<owner, reaped>>

\* A child ends by itself: a detached launcher because it is done, any other
\* because it crashed.
ChildExits(p) ==
    /\ leaderEnds(p)
    /\ IF owner[p] \in Detached THEN UNCHANGED events ELSE event
    /\ UNCHANGED <<foreign, service, stale, engineVars>>

\* Launch's goroutine: Wait returns, and the exit is recorded.
Reap(p) ==
    /\ life[p] \in {"workers", "gone"} /\ ~reaped[p] /\ p \in mine
    /\ reaped' = [reaped EXCEPT ![p] = TRUE]
    /\ UNCHANGED <<life, owner, listen, foreign, service, stale, events, engineVars>>

\* A detached launcher has started its service; the service may die later.
ServiceStarts(p) ==
    /\ life[p] = "run" /\ owner[p] \in Detached \ service
    /\ portsFree(owner[p])
    /\ service' = service \cup {owner[p]}
    /\ UNCHANGED <<life, owner, reaped, listen, foreign, stale, events, engineVars>>

ServiceDies(s) ==
    /\ s \in service /\ event
    /\ service' = service \ {s}
    /\ UNCHANGED <<life, owner, reaped, listen, foreign, stale, engineVars>>

\* Somebody else takes a port, or gives it back.
ForeignTakes(port) ==
    /\ port \notin Listening /\ event
    /\ foreign' = foreign \cup {port}
    /\ UNCHANGED <<life, owner, reaped, listen, service, stale, engineVars>>

ForeignLeaves(port) ==
    /\ port \in foreign
    /\ foreign' = foreign \ {port}
    /\ UNCHANGED <<life, owner, reaped, listen, service, stale, events, engineVars>>

\* The operator edits the sources of a server, or the configuration file.
EditSource(s) ==
    /\ s \in Source /\ event
    /\ stale' = IF s \in stale THEN stale \ {s} ELSE stale \cup {s}
    /\ UNCHANGED <<hostVars, engineVars>>

EditConfig(c) ==
    /\ c # cfg /\ disk = None /\ event
    /\ disk' = c
    /\ UNCHANGED <<hostVars, stale, cfg, procs, replVars, task, all, mine, strays, left, typed, sessions>>

----------------------------------------------------------------------------
(* The engine: one task per server of the verb in hand. *)

Idle == [pc |-> "idle", pid |-> None, ret |-> "none"]

\* ownedPIDLocked: the one meaning of "ours".
Ours(s) == procs[s] # None /\ (s \in Detached \/ ~reaped[procs[s]])


busy(s) == task[s].pc \notin {"idle", "queued", "ok", "err"}

at(s, pc) == phase = "verb" /\ task[s].pc = pc

go(s, pc, pid, ret) == task' = [task EXCEPT ![s] = [pc |-> pc, pid |-> pid, ret |-> ret]]
next(s, pc) == task' = [task EXCEPT ![s].pc = pc]

\* What a task's step leaves alone besides the host, the sources and procs.
taskFrame == UNCHANGED <<events, cfgVars, replVars, all, typed, sessions>>

\* upOne: the registration is read once, before anything else.
UpOne(s) ==
    /\ at(s, "up")
    /\ \/ Ours(s) /\ next(s, IF s \in Source THEN "staleOwned" ELSE "ok")
       \/ ~Ours(s) /\ next(s, "conflict")
    /\ UNCHANGED <<hostVars, stale, procs, mine, strays, left>> /\ taskFrame

\* checkPortConflict: a scan that fails refuses too.
CheckPortConflict(s) ==
    /\ at(s, "conflict")
    /\ \/ next(s, "err")
       \/ /\ portsFree(s)
          /\ next(s, IF s \in Source THEN "staleCold" ELSE "launch")
    /\ UNCHANGED <<hostVars, stale, procs, mine, strays, left>> /\ taskFrame

\* ProbeStaleness: a fresh build is hashed against the binary on disk.
ProbeStaleness(s) == s \in stale

\* rebuildIfStaleOwned and rebuildIfStaleCold: the first of two builds.
RebuildIfStale(s) ==
    /\ task[s].pc \in {"staleOwned", "staleCold"} /\ phase = "verb"
    /\ \/ next(s, "err")
       \/ ~ProbeStaleness(s) /\ next(s, IF task[s].pc = "staleOwned" THEN "ok" ELSE "launch")
       \/ ProbeStaleness(s) /\ go(s, "perform", None, IF task[s].pc = "staleOwned" THEN "owned" ELSE "cold")
    /\ UNCHANGED <<hostVars, stale, procs, mine, strays, left>> /\ taskFrame

\* Build: whether the server is ours, and its PID, are read before the build.
BuildVerb(s) ==
    /\ at(s, "build")
    /\ IF Ours(s) THEN go(s, "perform", procs[s], "build") ELSE go(s, "perform", None, "down")
    /\ UNCHANGED <<hostVars, stale, procs, mine, strays, left>> /\ taskFrame

\* PerformBuild: builds again, and does nothing when the binary is current.
PerformBuild(s) ==
    /\ at(s, "perform")
    /\ \/ next(s, "err")
       \/ ~ProbeStaleness(s) /\ next(s, "ok")
       \/ /\ ProbeStaleness(s)
          /\ next(s, CASE task[s].ret = "owned" -> "teardownOne"
                       [] task[s].ret = "build" -> "stop"
                       [] OTHER -> "replace")
    /\ UNCHANGED <<hostVars, stale, procs, mine, strays, left>> /\ taskFrame

\* replaceBinary; a server that was down stays down.
ReplaceBinary(s) ==
    /\ at(s, "replace")
    /\ \/ next(s, "err") /\ UNCHANGED stale
       \/ /\ stale' = stale \ {s}
          /\ next(s, IF task[s].ret = "down" THEN "ok" ELSE "launch")
    /\ UNCHANGED <<hostVars, procs, mine, strays, left>> /\ taskFrame

\* The preflight of a launch, or the start itself, fails; for the build verb
\* also askPrompts, which it asks only now.
LaunchFails(s) ==
    /\ at(s, "launch") /\ next(s, "err")
    /\ UNCHANGED <<hostVars, stale, procs, mine, strays, left>> /\ taskFrame

\* Launch: a child in a process group of its own.
Launch(s) ==
    /\ at(s, "launch")
    /\ \E p \in Pid :
          /\ life[p] = "unborn" /\ \A q \in Pid : q < p => life[q] # "unborn"
          /\ life' = [life EXCEPT ![p] = "run"]
          /\ owner' = [owner EXCEPT ![p] = s]
          /\ mine' = mine \cup {p}
          /\ task' = [task EXCEPT ![s].pc = "register", ![s].pid = p]
    /\ UNCHANGED <<reaped, listen, foreign, service, stale, procs, strays, left>> /\ taskFrame

\* upOne and Build's Start put the child into procs.
Register(s) ==
    /\ at(s, "register")
    /\ procs' = [procs EXCEPT ![s] = task[s].pid]
    /\ next(s, IF task[s].ret = "build" THEN "warm" ELSE "probe")
    /\ UNCHANGED <<hostVars, stale, mine, strays, left>> /\ taskFrame

\* EnsureHealthProbeBuilt, which the build verb skips.
EnsureHealthProbeBuilt(s) ==
    /\ at(s, "probe")
    /\ next(s, "warm") \/ next(s, "err")
    /\ UNCHANGED <<hostVars, stale, procs, mine, strays, left>> /\ taskFrame

\* warmUp: nothing to warm, a request answered in time, or a failure, which is
\* kept: the ports are looked at all the same.
WarmUp(s) ==
    /\ at(s, "warm")
    /\ next(s, "health") \/ go(s, "ports", task[s].pid, "notReady")
    /\ UNCHANGED <<hostVars, stale, procs, mine, strays, left>> /\ taskFrame

\* The health stage, in what the warm-up left of the one deadline.
PollReady(s) ==
    /\ at(s, "health")
    /\ \E verdict \in {"ready", "notReady"} : go(s, "ports", task[s].pid, verdict)
    /\ UNCHANGED <<hostVars, stale, procs, mine, strays, left>> /\ taskFrame

\* One look of pollPortsReady that works; one that does not only costs time.
portsUp(s, p, reads) ==
    LET look == [walk |-> DOMAIN Tree(p), reads |-> reads, scan |-> wholeScan(listen[p]), root |-> "true"]
        obs  == IF s \in Detached THEN hostObservationFor(Declared[s], wholeScan(Listening))
                ELSE observeOwnedTree(life[p] = "run", Tree(p), look)
    IN  /\ Classify(Declared[s], obs) = "CandidateUp"
        /\ s \in Detached \/ obs.foreign = {}

\* pollPortsVerdict: a look that finds the ports up, or the deadline.
PortsVerdict(s) ==
    /\ at(s, "ports")
    /\ \/ next(s, "err")
       \/ /\ next(s, IF task[s].ret = "ready" THEN "ok" ELSE "err")
          /\ \E reads \in [DOMAIN Tree(task[s].pid) -> Reads] : portsUp(s, task[s].pid, reads)
    /\ UNCHANGED <<hostVars, stale, procs, mine, strays, left>> /\ taskFrame

----------------------------------------------------------------------------
(* down, dead and the teardown they share. *)

\* What follows a teardown, by what asked for it: "owned" is upOne's rebuild,
\* "build" the build verb, "forget" downOne, "killed" killForeignOrOwned.
afterTeardown(s, ok) ==
    LET ret == task[s].ret
    IN  /\ procs' = IF ret \in {"build", "killed"} \/ (ret = "forget" /\ ok)
                    THEN [procs EXCEPT ![s] = None] ELSE procs
        /\ next(s, IF ~ok THEN "err" ELSE IF ret \in {"owned", "build"} THEN "replace" ELSE "ok")

\* Fault: downOne forgets the child before it is known to be gone.
ForgetFirst(s) ==
    /\ at(s, "down")
    /\ procs' = [procs EXCEPT ![s] = None]
    /\ \/ ~Ours(s) /\ (IF s \in Detached THEN go(s, "command", None, "leave") ELSE next(s, "observe"))
       \/ Ours(s) /\ go(s, "teardownOne", None, "forget")
    /\ UNCHANGED <<hostVars, stale, mine, strays, left>> /\ taskFrame

\* downOne: a dead registration is dropped, and whoever holds the ports is found.
DownOne(s) ==
    /\ at(s, "down")
    /\ \/ ~Ours(s) /\ s \in Detached /\ go(s, "command", None, "leave") /\ UNCHANGED procs
       \/ /\ ~Ours(s) /\ s \notin Detached
          /\ procs' = [procs EXCEPT ![s] = None]
          /\ next(s, "observe")
       \/ Ours(s) /\ go(s, "teardownOne", None, "forget") /\ UNCHANGED procs
    /\ UNCHANGED <<hostVars, stale, mine, strays, left>> /\ taskFrame

\* teardownOne reads the registration again: a child that went in between needs
\* nothing.
TeardownOne(s) ==
    /\ at(s, "teardownOne")
    /\ \/ ~Ours(s) /\ afterTeardown(s, TRUE)
       \/ Ours(s) /\ s \in Detached /\ next(s, "command") /\ UNCHANGED procs
       \/ Ours(s) /\ s \notin Detached /\ go(s, "stop", procs[s], task[s].ret) /\ UNCHANGED procs
    /\ UNCHANGED <<hostVars, stale, mine, strays, left>> /\ taskFrame

\* observedRunningPID, for a server that is not ours: the holder of a declared
\* port, Alien when nobody here launched it.
holderOf(s) ==
    {p \in Pid : Alive(p) /\ listen[p] \cap Declared[s] # {}}
        \cup (IF s \in service \/ Declared[s] \cap foreign # {} THEN {Alien} ELSE {})

\* downOne's second half.  A scan that fails finds nobody.
Observe(s) ==
    /\ at(s, "observe")
    /\ \/ next(s, "ok")
       \/ \E h \in holderOf(s) : go(s, "stop", h, "foreign")
    /\ UNCHANGED <<hostVars, stale, procs, mine, strays, left>> /\ taskFrame

\* Fault: the fleet `down' takes the branch that only `dead' takes.
FleetKillsStrays(s) ==
    /\ at(s, "queued") /\ \A t \in Server : ~busy(t)
    /\ \/ cfg[s] = "enabled" /\ next(s, IF Ours(s) THEN "down" ELSE "ok")
       \/ cfg[s] = "disabled" /\ ~Ours(s) /\ next(s, "observe")
       \/ cfg[s] = "disabled" /\ Ours(s) /\ next(s, "ok")
    /\ UNCHANGED <<hostVars, stale, procs, mine, strays, left>> /\ taskFrame

\* downOrDead for the whole fleet, one server after the other: a disabled server
\* that runs is warned about by `down' and killed by `dead'.
FleetDown(s) ==
    /\ at(s, "queued") /\ \A t \in Server : ~busy(t)
    /\ \/ cfg[s] = "enabled" /\ next(s, IF Ours(s) THEN "down" ELSE "ok")
       \/ /\ cfg[s] = "disabled"
          /\ \/ next(s, "ok") /\ (verb.op = "down" \/ ~Ours(s))
             \/ verb.op = "dead" /\ Ours(s) /\ go(s, "stop", procs[s], "killed")
             \/ /\ verb.op = "dead" /\ ~Ours(s)
                /\ \E h \in holderOf(s) : go(s, "stop", h, "foreign")
    /\ UNCHANGED <<hostVars, stale, procs, mine, strays, left>> /\ taskFrame

\* A worker that holds the port of a stray is not the leader of its group.
leads(s) == task[s].ret = "foreign" /\ task[s].pid # Alien => owner[task[s].pid] \notin Forking

\* Whoever is signalled and not ours.
straySignalled(s) ==
    strays' = IF task[s].pid = Alien \/ task[s].pid \notin mine
              THEN strays \cup {[op |-> verb.op, arg |-> verb.arg, of |-> cfg[s]]} ELSE strays

\* A teardown asked for by `by' is over, and its verdict is ok: a child of ours
\* that lives all the same is noted.
noteSurvivor(p, by, ok) ==
    left' = IF p \in mine /\ life[p] = "run" /\ by # "foreign"
            THEN left \cup {[pid |-> p, by |-> by, ok |-> ok]} ELSE left

\* Teardown up to its verification: TERM, the grace period, KILL, two seconds.
\* The group is gone at the end of it, or it has outlived the KILL, or was never
\* found by the signal 0 that looks for it.  Whether somebody else's process
\* leads a group is not known here.
Teardown(s) ==
    LET p == task[s].pid
    IN  /\ at(s, "stop")
        /\ next(s, "verify")
        /\ straySignalled(s)
        /\ \/ /\ p = Alien
              /\ foreign' \in {foreign, foreign \ Declared[s]}
              /\ service' \in {service, service \ {s}}
              /\ UNCHANGED <<life, owner, reaped, listen>>
           \/ p # Alien /\ leads(s) /\ killGroup(p) /\ UNCHANGED <<foreign, service>>
           \/ p # Alien /\ UNCHANGED hostVars
        /\ UNCHANGED <<stale, procs, mine, left>> /\ taskFrame

\* Teardown's early returns: the TERM or the KILL itself is refused.
SignalFails(s) ==
    /\ at(s, "stop") /\ leads(s)
    /\ task[s].pid # Alien => Alive(task[s].pid)
    /\ straySignalled(s)
    /\ afterTeardown(s, FALSE) /\ noteSurvivor(task[s].pid, task[s].ret, FALSE)
    /\ UNCHANGED <<hostVars, stale, mine>> /\ taskFrame

\* verify: a port still held, a scan that fails or a health check that still
\* answers is an error.  Whether the group is gone is not asked again.
Verify(s) ==
    /\ at(s, "verify")
    /\ \E ok \in BOOLEAN :
          /\ ok => portsFree(s)
          /\ afterTeardown(s, ok) /\ noteSurvivor(task[s].pid, task[s].ret, ok)
    /\ UNCHANGED <<hostVars, stale, mine, strays>> /\ taskFrame

\* teardownDetached: the teardown command, then a wait for the ports.
DetachedCommand(s) ==
    /\ at(s, "command")
    /\ \/ afterTeardown(s, FALSE) /\ UNCHANGED service
       \/ next(s, "wait") /\ service' = service \ {s} /\ UNCHANGED procs
    /\ UNCHANGED <<life, owner, reaped, listen, foreign, stale, mine, strays, left>> /\ taskFrame

DetachedWait(s) ==
    /\ at(s, "wait")
    /\ \/ afterTeardown(s, FALSE)
       \/ portsFree(s) /\ afterTeardown(s, TRUE)
    /\ UNCHANGED <<hostVars, stale, mine, strays, left>> /\ taskFrame

TaskStep(s) ==
    \/ UpOne(s) \/ CheckPortConflict(s) \/ RebuildIfStale(s) \/ BuildVerb(s) \/ PerformBuild(s)
    \/ ReplaceBinary(s) \/ Launch(s) \/ LaunchFails(s) \/ Register(s) \/ EnsureHealthProbeBuilt(s) \/ WarmUp(s) \/ PollReady(s)
    \/ PortsVerdict(s)
    \/ DownOne(s) \/ TeardownOne(s) \/ Observe(s) \/ FleetDown(s) \/ Teardown(s) \/ SignalFails(s)
    \/ Verify(s)
    \/ DetachedCommand(s) \/ DetachedWait(s)

----------------------------------------------------------------------------
(* The REPL, auto mode, signals, and the life of the supervisor itself. *)

NoVerb == [op |-> "none", arg |-> All]
Quiet  == [pc |-> "idle", snap |-> [s \in Server |-> None], todo |-> {}]

\* maybeReload: a file that does not parse leaves the configuration as it was.
reloaded == IF disk \in Configs THEN disk ELSE cfg

\* resolveUpTargets, downOrDead's and Build's checks: the tasks a verb starts.
firstPc(op, arg, c, s) ==
    CASE c[s] = "absent" -> "idle"
      [] c[s] # "absent" /\ op = "up" ->
            IF arg = s \/ (arg = All /\ c[s] = "enabled") THEN "up" ELSE "idle"
      [] c[s] # "absent" /\ op = "build" -> IF arg = s /\ s \in Source THEN "build" ELSE "idle"
      [] OTHER -> IF arg = All THEN "queued" ELSE IF arg = s THEN "down" ELSE "idle"
dispatch(op, arg, c) == [s \in Server |-> [Idle EXCEPT !.pc = firstPc(op, arg, c, s)]]

\* askPrompts, before anything is launched: it fails when the input ends, and in
\* auto mode, which has no streams to ask on.
promptsFail(tasks) == \E s \in Prompted : tasks[s].pc = "up"

allIdle(tasks) == \A s \in Server : tasks[s].pc = "idle"

\* Run's loop: a reload, then the verb.
Command(op, arg) ==
    LET tasks == dispatch(op, arg, reloaded)
    IN  /\ phase = "prompt" /\ typed < MaxVerbs
        /\ typed' = typed + 1
        /\ cfg' = reloaded /\ disk' = None
        /\ \/ /\ allIdle(tasks) \/ promptsFail(tasks)
              /\ UNCHANGED <<phase, verb, task>>
           \/ /\ ~allIdle(tasks)
              /\ phase' = "verb" /\ verb' = [op |-> op, arg |-> arg] /\ task' = tasks
        /\ UNCHANGED <<hostVars, stale, events, procs, mode, how, all, mine, strays, left, sessions>>

\* What one look at the tree of a child may meet; the rows of a scan that are
\* not the child's own do not matter to it.
looks(p) == [walk : Walks(Tree(p)), reads : [DOMAIN Tree(p) -> Reads], scan : Scans(listen[p]), root : Roots]

\* The STATE a status row shows after it (statusForLocked): a detached server, or
\* one that is not ours, is seen by its ports.
shown(s, look) ==
    statusState(Declared[s], Ours(s), s \in Detached,
                IF s \in Detached \/ ~Ours(s) THEN hostObservationFor(Declared[s], look.scan)
                ELSE observeOwnedTree(life[procs[s]] = "run", Tree(procs[s]), look))

\* kill <pid>: one SIGTERM to a process the operator names, of ours or not, which
\* may ignore it or not be there.
Kill ==
    /\ phase = "prompt" /\ typed < MaxVerbs
    /\ typed' = typed + 1
    /\ cfg' = reloaded /\ disk' = None
    /\ \/ \E p \in Pid :
             /\ leaderEnds(p)
             /\ strays' = IF p \in mine THEN strays ELSE strays \cup {[op |-> "kill", arg |-> None, of |-> None]}
             /\ UNCHANGED foreign
       \/ /\ \E port \in foreign : foreign' = foreign \ {port}
          /\ strays' = strays \cup {[op |-> "kill", arg |-> None, of |-> None]}
          /\ UNCHANGED <<life, owner, reaped, listen>>
       \/ UNCHANGED <<life, owner, reaped, listen, foreign, strays>>
    /\ UNCHANGED <<service, stale, events, procs, replVars, task, all, mine, left, sessions>>

\* status, logs, view, command, help: a reload, and nothing else changes.
ReadOnlyCommand ==
    /\ phase = "prompt" /\ disk # None
    /\ cfg' = reloaded /\ disk' = None
    /\ UNCHANGED <<hostVars, stale, events, procs, replVars, task, all, mine, strays, left, typed, sessions>>

----------------------------------------------------------------------------
(* Every task of the verb has ended. *)

failed == \E s \in Server : task[s].pc = "err"

stop(why) ==
    /\ phase' = "off" /\ how' = why
    /\ verb' = NoVerb
    /\ task' = [s \in Server |-> Idle]
    /\ procs' = [s \in Server |-> None]
    /\ all' = [x \in {"main", "sig"} |-> Quiet]

\* The verb's report.  bounce goes on with up, unless down failed; auto mode
\* exits on a failed up, with nothing torn down, and parks on a good one.
Report ==
    LET again == dispatch("up", verb.arg, cfg)
        bounces == verb.op = "bounce" /\ ~failed
    IN  /\ phase = "verb" /\ \A s \in Server : ~busy(s) /\ task[s].pc # "queued"
        /\ \/ /\ bounces /\ ~allIdle(again)
              /\ verb' = [verb EXCEPT !.op = "up"] /\ task' = again
              /\ UNCHANGED <<phase, how, procs, all>>
           \/ /\ mode = "repl" /\ (bounces => promptsFail(again))
              /\ phase' = "prompt" /\ verb' = NoVerb /\ task' = [s \in Server |-> Idle]
              /\ UNCHANGED <<how, procs, all>>
           \/ /\ mode = "auto" /\ failed
              /\ stop("autofail")
           \/ /\ mode = "auto" /\ ~failed
              /\ phase' = "parked" /\ verb' = NoVerb /\ task' = [s \in Server |-> Idle]
              /\ UNCHANGED <<how, procs, all>>
        /\ UNCHANGED <<hostVars, stale, events, cfgVars, mode, mine, strays, left, typed, sessions>>

\* Fault: only the servers that up would start are torn down.
SnapshotEnabled == [pc |-> "kill", snap |-> procs,
                    todo |-> {s \in Server : procs[s] # None /\ cfg[s] = "enabled"}]

\* RealEngine.TeardownAll takes the registered children, then the configuration
\* whose servers lifecycle.TeardownAll walks.
snapshot == [pc |-> "kill", snap |-> procs,
             todo |-> {s \in Server : procs[s] # None /\ cfg[s] # "absent"}]

\* quit, exit, bye or the end of the input; a signal, in auto mode.
Bye ==
    /\ phase \in {"prompt", "parked"}
    /\ phase' = "bye" /\ all' = [all EXCEPT !["main"] = snapshot]
    /\ UNCHANGED <<hostVars, stale, events, cfgVars, procs, mode, verb, how, task, mine,
                   strays, left, typed, sessions>>

\* Three SIGINTs within the window (sigintCounter.register, handleSignal): the
\* signal goroutine tears down, whatever the REPL is doing.
SigintBurst ==
    /\ mode = "repl" /\ phase # "off" /\ all["sig"].pc = "idle"
    /\ all' = [all EXCEPT !["sig"] = snapshot]
    /\ UNCHANGED <<hostVars, stale, events, cfgVars, procs, replVars, task, mine, strays, left, typed, sessions>>

\* lifecycle.TeardownAll, one server: its group is gone, or its teardown failed,
\* which is printed at the end and stops nothing.
TeardownNext(x) ==
    /\ all[x].pc = "kill"
    /\ \E s \in all[x].todo :
         /\ \/ killGroup(all[x].snap[s]) /\ UNCHANGED left
            \/ noteSurvivor(all[x].snap[s], "exit", FALSE) /\ UNCHANGED <<life, owner, reaped, listen>>
         /\ all' = [all EXCEPT ![x].todo = @ \ {s}]
    /\ UNCHANGED <<foreign, service, stale, events, cfgVars, procs, replVars, task, mine, strays,
                   typed, sessions>>

\* The names of the snapshot are deleted, whatever they mean by now.
TeardownForget(x) ==
    /\ all[x].pc = "kill" /\ all[x].todo = {}
    /\ procs' = [s \in Server |-> IF all[x].snap[s] # None THEN None ELSE procs[s]]
    /\ all' = [all EXCEPT ![x].pc = "exit"]
    /\ UNCHANGED <<hostVars, stale, events, cfgVars, replVars, task, mine, strays, left, typed, sessions>>

\* main returns, or the signal goroutine calls os.Exit; the lock is dropped.
Exit(x) ==
    /\ all[x].pc = "exit"
    /\ stop(IF x = "sig" THEN "signal" ELSE IF all["sig"].pc # "idle" THEN "raced" ELSE "quit")
    /\ UNCHANGED <<hostVars, stale, events, cfgVars, mode, mine, strays, left, typed, sessions>>

\* The supervisor is killed; its children are not.
Crash ==
    /\ phase # "off" /\ event
    /\ stop("crash")
    /\ UNCHANGED <<hostVars, stale, cfgVars, mode, mine, strays, left, typed, sessions>>

\* coldDown (--auto down), from a process of its own that takes no lock and knows
\* no child: whoever holds the ports of an enabled server is torn down, be it
\* under the eyes of a running supervisor.  A worker is no group leader, and stays.
ColdDown(s) ==
    /\ disk # Bad /\ reloaded[s] = "enabled"
    /\ \/ /\ s \in Detached
          /\ service' = service \ {s}
          /\ UNCHANGED <<life, owner, reaped, listen, foreign>>
       \/ /\ s \notin Detached
          /\ \E h \in holderOf(s) :
                \/ /\ h = Alien
                   /\ foreign' = foreign \ Declared[s]
                   /\ UNCHANGED <<life, owner, reaped, listen>>
                \/ /\ h # Alien /\ owner[h] \notin Forking
                   /\ killGroup(h) /\ UNCHANGED foreign
          /\ UNCHANGED service
    /\ UNCHANGED <<stale, events, engineVars>>

\* AcquireLock: no other instance holds the lock, which dies with its holder.
AcquireLock == phase = "off"

\* main: AcquireLock lets one instance in; it knows no child of an earlier one.
\* Auto mode goes straight to up.
Start(m) ==
    LET tasks == dispatch("up", All, reloaded)
    IN  /\ AcquireLock /\ sessions < MaxSessions /\ disk # Bad
        /\ sessions' = sessions + 1
        /\ mode' = m /\ how' = "none"
        /\ cfg' = reloaded /\ disk' = None
        /\ mine' = {} /\ left' = {}
        /\ \/ m = "repl" /\ phase' = "prompt" /\ UNCHANGED <<verb, task>>
           \/ /\ m = "auto" /\ allIdle(tasks)
              /\ phase' = "parked" /\ UNCHANGED <<verb, task>>
           \/ /\ m = "auto" /\ ~allIdle(tasks) /\ ~promptsFail(tasks)
              /\ phase' = "verb" /\ verb' = [op |-> "up", arg |-> All] /\ task' = tasks
        /\ UNCHANGED <<hostVars, stale, events, procs, all, strays, typed>>

----------------------------------------------------------------------------
Init ==
    /\ life = [p \in Pid |-> "unborn"] /\ owner = [p \in Pid |-> None]
    /\ reaped = [p \in Pid |-> FALSE] /\ listen = [p \in Pid |-> {}]
    /\ foreign = {} /\ service = {} /\ stale = {}
    /\ cfg \in Configs /\ disk = None
    /\ procs = [s \in Server |-> None]
    /\ phase = "off" /\ mode = "repl" /\ verb = NoVerb /\ how = "none"
    /\ task = [s \in Server |-> Idle]
    /\ all = [x \in {"main", "sig"} |-> Quiet]
    /\ mine = {} /\ strays = {} /\ left = {}
    /\ typed = 0 /\ events = 0 /\ sessions = 0

Fleet == {"up", "down", "dead"}

HostStep ==
    \/ \E p \in Pid : ChildExits(p) \/ ServiceStarts(p) \/ \E port \in Port : ChildListens(p, port)
    \/ \E s \in Server : ServiceDies(s) \/ EditSource(s) \/ ColdDown(s)
    \/ \E port \in Port : ForeignTakes(port) \/ ForeignLeaves(port)
    \/ \E c \in Configs \cup {Bad} : EditConfig(c)

ReplStep ==
    \/ \E op \in Fleet \cup {"build", "bounce"}, s \in Server : Command(op, s)
    \/ \E op \in Fleet : Command(op, All)
    \/ Kill \/ ReadOnlyCommand \/ Report \/ Bye
    \/ \E m \in {"repl", "auto"} : Start(m)

ExitStep(x) == TeardownNext(x) \/ TeardownForget(x) \/ Exit(x)

Next ==
    \/ HostStep
    \/ \E p \in Pid : Reap(p)
    \/ \E s \in Server : TaskStep(s)
    \/ ReplStep
    \/ SigintBurst \/ Crash
    \/ \E x \in {"main", "sig"} : ExitStep(x)

Spec == Init /\ [][Next]_vars

\* The stages in which a task waits for something that has no deadline: go build
\* (of a server or of a health probe), the import check of a python server, the
\* answer to a prompt that the build verb asks before it launches, the teardown
\* command of a detached server.
External == {"staleOwned", "staleCold", "perform", "probe", "launch", "command"}

Waits(s) == phase = "verb" /\ task[s].pc \in External

\* The supervisor's goroutines run: the other loops of a task have a deadline and
\* a teardown its grace period, as has each server of an exit.  Nothing is
\* assumed of a task that waits for the host or for the operator.
Fairness ==
    WF_vars(\/ \E s \in Server : ~Waits(s) /\ TaskStep(s)
            \/ Report
            \/ \E x \in {"main", "sig"} : ExitStep(x))

FairSpec == Spec /\ Fairness

----------------------------------------------------------------------------
(* Properties. *)

Pcs == {"idle", "queued", "up", "conflict", "staleOwned", "staleCold", "build", "perform", "replace",
        "launch", "register", "probe", "warm", "health", "ports", "down", "teardownOne", "observe", "stop", "verify",
        "command", "wait", "ok", "err"}
Rets == {"none", "owned", "cold", "build", "down", "ready", "notReady", "forget", "leave", "foreign",
         "killed"}

\* The types of the supervisor's state and of the host's; a task that launches,
\* polls or stops a process has one.
TypeOK ==
    /\ life \in [Pid -> {"unborn", "run", "workers", "gone"}]
    /\ owner \in [Pid -> Server \cup {None}]
    /\ reaped \in [Pid -> BOOLEAN] /\ listen \in [Pid -> SUBSET Port]
    /\ foreign \subseteq Port /\ service \subseteq Detached /\ stale \subseteq Source
    /\ cfg \in Configs /\ disk \in Configs \cup {None, Bad}
    /\ procs \in [Server -> Pid \cup {None}]
    /\ phase \in {"off", "prompt", "verb", "parked", "bye"} /\ mode \in {"repl", "auto"}
    /\ task \in [Server -> [pc : Pcs, pid : Pid \cup {None, Alien}, ret : Rets]]
    /\ all \in [{"main", "sig"} -> [pc : {"idle", "kill", "exit"}, snap : [Server -> Pid \cup {None}],
                                    todo : SUBSET Server]]
    /\ \A s \in Server : task[s].pc \in {"register", "probe", "warm", "health", "ports", "stop"} => task[s].pid # None
    /\ mine \subseteq Pid

\* No shutdown is under way.
settled == phase # "off" /\ \A x \in {"main", "sig"} : all[x].pc = "idle"

\* The teardowns after which the engine forgets a child although it lives: build
\* and dead delete the entry even when the teardown reports an error (Build's
\* Stop, killForeignOrOwned), and verify, which looks at ports and health only,
\* may call a group clean that has outlived its KILL.
lost(p) == \E t \in left : t.pid = p /\ (t.ok \/ t.by \in {"build", "killed"})

\* The children whose server's entry in procs must stand for them.
Charges == {p \in mine : life[p] = "run" /\ owner[p] \notin Detached /\ ~lost(p)}

\* A server never has two live children: whatever the operator types, however
\* the children crash and however a rebuild or a bounce fails half way, the next
\* launch comes after the last child is gone (engine.go upOne, Build, downOne).
OneChildPerServer == settled => \A p, q \in Charges : owner[p] = owner[q] => p = q

\* A live child is never forgotten: it is in procs, where status, down and the
\* exit path look for it, or its launcher is about to put it there.
NoForgottenChild ==
    settled => \A p \in Charges :
        \/ procs[owner[p]] = p
        \/ task[owner[p]].pc = "register" /\ task[owner[p]].pid = p

\* Every live child is the one child its server's entry in procs stands for, also
\* after a down, a bounce or an up whose teardown of it has failed.  Excepted is
\* a child that the engine is known to forget: one that build or dead could not
\* end, and one that a teardown verified as clean though it lived.
OneKnownChild == OneChildPerServer /\ NoForgottenChild

\* Leaving by quit, by the end of the input or, in auto mode, by a signal leaves
\* no child behind of a server the configuration still names (TeardownAll), but
\* for a child that was forgotten before and one whose own teardown has failed
\* on the way out, which is printed and holds up neither the rest nor the exit.
QuitLeavesNoChild ==
    phase = "off" /\ how = "quit" =>
        \A p \in Charges :
            cfg[owner[p]] = "absent" \/ \E t \in left : t.pid = p /\ t.by = "exit"

\* A process the supervisor did not launch is signalled by the kill verb, whose
\* operator names the process itself, and else only by dead, by a down or bounce
\* that names the server, or in the place of an enabled server's child that has
\* just died: what occupies a disabled server is warned about, never killed
\* (engine.go Down).  An --auto down is a process of its own (ColdDown) and is
\* not part of this.
StraysAreLeftAlone ==
    \A v \in strays :
        \/ v.op \in {"kill", "dead"}
        \/ v.op \in {"down", "bounce"} /\ (v.arg # All \/ v.of = "enabled")

\* A look that cannot know better: each member of the tree that holds a port was
\* not reached by the walk, or its read came back empty and so did its rows in a
\* host-wide scan that seemed to work.
blind(p, look) ==
    \A m \in DOMAIN Tree(p) : Tree(p)[m] # {} =>
        \/ m \notin look.walk
        \/ look.reads[m] = "empty" /\ look.scan.ok /\ Tree(p)[m] \cap look.scan.rows = {}

\* The status table calls a server down while a child of ours holds one of its
\* ports only after a blind look: never for a read or a scan that fails, for a
\* scan without any row or for a root that could not be looked up (AATK-87).
\* The two ways to be blind are the ones the code leaves open: Children() fails
\* in collectTreeProcesses, and the partial scan of hostCorroboration's comment.
DownIsConfirmed ==
    phase # "off" => \A s \in Server \ Detached :
        Ours(s) /\ life[procs[s]] = "run" /\ listen[procs[s]] # {} =>
            \A look \in looks(procs[s]) : shown(s, look) = "down" => blind(procs[s], look)

\* A verb comes back to its operator (auto mode parks or exits), unless one of its
\* tasks waits for ever for a command or an answer that has no deadline.  A
\* shutdown that has begun ends the process even then, whatever the verb and the
\* other goroutine do meanwhile.
ShuttingDown == \E x \in {"main", "sig"} : all[x].pc # "idle"
Busy == phase = "verb" \/ ShuttingDown
============================================================================
