--------------------------- MODULE ProcessManager ---------------------------
(***************************************************************************)
(* The process manager of the daemon (pkg/daemon/process_manager.go) and   *)
(* the life cycle of the processes it manages.  Concurrent actors:         *)
(*                                                                         *)
(*  apply   applyNodePTPProfiles: stopAllProcesses, create, StartProcesses *)
(*  loop    processEvents: restarts dead processes, starts and stops the   *)
(*          ones that wait for a condition                                 *)
(*  runs    one goroutine per Start of a process (its run function)        *)
(*  plugin  ntpfailover, which sends events from the log of a process      *)
(*                                                                         *)
(* Three implementations of Start, run and Stop occur:                     *)
(*  "exec"    ptpProcess (ptp4l, phc2sys, ts2phc, synce4l, chronyd):       *)
(*            cmd.Start and the state change under one lock, Stop does not *)
(*            wait                                                         *)
(*  "child"   GPSD, GpsPipe: cmd.Start outside the lock, Stop waits        *)
(*  "session" PMCProcess, DpllConfig: no command, Stop waits               *)
(*                                                                         *)
(* A process object is <<name, generation>>: every apply creates new ones  *)
(* with the old names and config names, which is all that an event carries.*)
(* A run is [o, k, pc, term]: the k-th of its object; term:                *)
(* SIGTERM was sent or stopCh was closed.                                  *)
(***************************************************************************)
EXTENDS Naturals, Sequences, FiniteSets, SequencesExt

CONSTANTS
  Tree,       \* the profile: sequence of <<dependents..., process>>
  Kind,       \* Kind[n]: "exec", "child" or "session"
  StartCond,  \* StartCond[n]: set of alternative atoms; {} when there is none
  StopCond,   \* StopCond[n]: likewise
  Cap,        \* bound: free slots of eventsIn
  MaxApplies, \* bound: applied profiles
  MaxDeaths,  \* bound: commands that fail to start or exit by themselves
  MaxPlugin   \* bound: plugin events

Names == UNION {Range(Tree[i]) : i \in DOMAIN Tree}

\* Atoms of a condition: OnProcessUp, OnPluginEvent, and the conditions on the
\* clock snapshot (OnStateAndOffsetForCount, OnProcessState, All of them).
Up(n) == <<"up", n>>
Down(n) == <<"down", n>>
Plugin(e) == <<"plugin", e>>
Ready == <<"ready", "">>
PluginEvents == {"recovered", "failover"}
Atoms == {Up(n) : n \in Names} \cup {Plugin(e) : e \in PluginEvents} \cup {Ready}
Events == {Up(n) : n \in Names} \cup {Down(n) : n \in Names} \cup {Plugin(e) : e \in PluginEvents}

ASSUME ProcessAssumption ==
  /\ Tree \in Seq(Seq(Names) \ {<<>>}) /\ Tree # <<>>
  /\ Kind \in [Names -> {"exec", "child", "session"}]
  /\ StartCond \in [Names -> SUBSET Atoms] /\ StopCond \in [Names -> SUBSET Atoms]
  /\ Cap \in Nat \ {0} /\ MaxApplies \in Nat /\ MaxDeaths \in Nat /\ MaxPlugin \in Nat

VARIABLES
  gen,        \* number of profiles applied
  managed,    \* names reachable from pm.process; their objects are of gen
  state,      \* state[o]: process.State
  runs,       \* the run goroutines
  starts,     \* starts[o]: number of runs begun; the object holds the command
              \* and the stopCh of the latest
  apply,      \* the apply: its pc and its place in Tree
  loop,       \* the event loop
  eventsIn,   \* the channel eventsIn
  fsm,        \* pcfsmState of the ntpfailover plugin
  crashed,    \* the Go panic that ended the daemon
  deaths, plugins, \* counters of the bounds
  failed      \* history: objects whose ptpProcess command failed to start

applyVars == <<gen, managed, apply>>
procVars == <<state, runs, starts, deaths, failed, crashed>>
pluginVars == <<fsm, plugins>>
vars == <<applyVars, procVars, loop, eventsIn, pluginVars>>

States == {"Created", "Starting", "Running", "Stopping", "Stopped", "Dead"}
Objects == Names \X (1..MaxApplies)
Obj(n) == <<n, gen>>
Name(o) == o[1]

RunsOf(o) == {r \in runs : r.o = o}
Latest(r) == r.k = starts[r.o]
NewRun(o) == [o |-> o, k |-> starts[o] + 1, pc |-> "begin", term |-> FALSE]
SetPc(r, pc) == runs' = (runs \ {r}) \cup {[r EXCEPT !.pc = pc]}
Send(ev) == Len(eventsIn) < Cap /\ eventsIn' = Append(eventsIn, ev)
OK == crashed = ""

-----------------------------------------------------------------------------
(* Start and Stop of a process.  Start changes state, runs and starts, Stop *)
(* changes state, runs and crashed.                                        *)

\* Start is never called on a Stopping process here: every caller has seen a
\* state that only another Start leaves.
StartUnmarked(o) ==
  /\ runs' = runs \cup {NewRun(o)}
  /\ starts' = [starts EXCEPT ![o] = @ + 1]
  /\ UNCHANGED state
StartProc(o) ==
  IF state[o] \in {"Created", "Stopped", "Dead"}
  THEN /\ state' = [state EXCEPT ![o] = "Starting"]
       /\ starts' = [starts EXCEPT ![o] = @ + 1]
       /\ runs' = runs \cup {NewRun(o)}
  ELSE UNCHANGED <<state, runs, starts>>

\* SIGTERM to the command, or close(stopCh).  A ptpProcess that is Starting is
\* not signalled: its run will see Stopping.
Terminate(o) ==
  IF Kind[Name(o)] = "exec" /\ state[o] = "Starting" THEN UNCHANGED runs
  ELSE runs' = {IF r.o = o /\ Latest(r) THEN [r EXCEPT !.term = TRUE] ELSE r : r \in runs}

\* The command of a child has no process yet: cmd.Pid() dereferences nil.
NoPid(o) ==
  /\ Kind[Name(o)] = "child" /\ state[o] = "Starting"
  /\ \E r \in RunsOf(o) : Latest(r) /\ r.pc # "started"

Stoppable(o) == state[o] \in {"Starting", "Running"}
StopProc(o) ==
  IF Stoppable(o)
  THEN /\ state' = [state EXCEPT ![o] = "Stopping"]
       /\ Terminate(o)
       /\ crashed' = IF NoPid(o) THEN "pid" ELSE ""
  ELSE UNCHANGED <<state, runs, crashed>>

\* Stop goes on to wait for the run goroutines, unless there was nothing to
\* stop or the command has ended and cannot be signalled.
Waits(o) ==
  /\ Stoppable(o)
  /\ \/ Kind[Name(o)] = "session"
     \/ /\ Kind[Name(o)] = "child"
        /\ \E r \in RunsOf(o) : Latest(r) /\ r.pc \in {"started", "up", "running"}

-----------------------------------------------------------------------------
(* The run goroutine r of a process o, by kind.                            *)

MayDie == deaths < MaxDeaths /\ deaths' = deaths + 1

\* exec: under the lock, Stopping is seen, or the command is started.
ExecStart(r) ==
  /\ OK /\ Kind[Name(r.o)] = "exec" /\ r.pc = "begin"
  /\ \/ /\ state[r.o] = "Stopping"
        /\ SetPc(r, "exit") /\ UNCHANGED <<state, deaths, failed>>
     \/ /\ state[r.o] # "Stopping"
        /\ state' = [state EXCEPT ![r.o] = "Running"]
        /\ SetPc(r, "up") /\ UNCHANGED <<deaths, failed>>
     \/ /\ state[r.o] # "Stopping" /\ MayDie
        /\ state' = [state EXCEPT ![r.o] = "Dead"]
        /\ SetPc(r, "exit") /\ failed' = failed \cup {r.o}
  /\ UNCHANGED <<applyVars, starts, crashed, loop, eventsIn, pluginVars>>

\* child: the command is started, or fails to (mkFifo or cmd.Start).
ChildStart(r) ==
  /\ OK /\ Kind[Name(r.o)] = "child" /\ r.pc = "begin"
  /\ \/ SetPc(r, "started") /\ UNCHANGED deaths
     \/ MayDie /\ SetPc(r, "exit")
  /\ UNCHANGED <<applyVars, state, starts, failed, crashed, loop, eventsIn, pluginVars>>

\* child: then the lock is taken; a Stop seen here sends SIGTERM, without Up.
ChildRunning(r) ==
  /\ OK /\ r.pc = "started"
  /\ IF state[r.o] = "Stopping"
     THEN /\ runs' = (runs \ {r}) \cup {[r EXCEPT !.pc = "running", !.term = TRUE]}
          /\ UNCHANGED state
     ELSE SetPc(r, "up") /\ state' = [state EXCEPT ![r.o] = "Running"]
  /\ UNCHANGED <<applyVars, starts, deaths, failed, crashed, loop, eventsIn, pluginVars>>

\* session: Running is set without a look at the state.
SessionStart(r) ==
  /\ OK /\ Kind[Name(r.o)] = "session" /\ r.pc = "begin"
  /\ state' = [state EXCEPT ![r.o] = "Running"] /\ SetPc(r, "up")
  /\ UNCHANGED <<applyVars, starts, deaths, failed, crashed, loop, eventsIn, pluginVars>>

SendUp(r) ==
  /\ OK /\ r.pc = "up"
  /\ Send(Up(Name(r.o))) /\ SetPc(r, "running")
  /\ UNCHANGED <<applyVars, state, starts, deaths, failed, crashed, loop, pluginVars>>

\* cmd.Wait or Monitor returns: the process was told to end, or ends itself.
Exit(r) ==
  /\ OK /\ r.pc = "running"
  /\ \/ r.term /\ UNCHANGED deaths
     \/ ~r.term /\ MayDie
  /\ SetPc(r, "exit")
  /\ UNCHANGED <<applyVars, state, starts, failed, crashed, loop, eventsIn, pluginVars>>

\* exec: wg.Wait waits for the other runs of the object that are not done.
Done(r) == r.pc \in {"exit", "stopped", "dead", "down"}
ReadState(r) ==
  /\ OK /\ r.pc = "exit"
  /\ Kind[Name(r.o)] = "exec" => \A s \in RunsOf(r.o) : Done(s)
  /\ SetPc(r, IF state[r.o] = "Stopping" THEN "stopped" ELSE "dead")
  /\ UNCHANGED <<applyVars, state, starts, deaths, failed, crashed, loop, eventsIn, pluginVars>>

SetStopped(r) ==
  /\ OK /\ r.pc \in {"stopped", "dead"}
  /\ state' = IF r.pc = "stopped" THEN [state EXCEPT ![r.o] = "Stopped"] ELSE state
  /\ SetPc(r, "down")
  /\ UNCHANGED <<applyVars, starts, deaths, failed, crashed, loop, eventsIn, pluginVars>>
SetState(r) ==
  /\ OK /\ r.pc \in {"stopped", "dead"}
  /\ state' = [state EXCEPT ![r.o] = IF r.pc = "stopped" THEN "Stopped" ELSE "Dead"]
  /\ SetPc(r, "down")
  /\ UNCHANGED <<applyVars, starts, deaths, failed, crashed, loop, eventsIn, pluginVars>>

\* The blocking send is the last step of an exec run; the others then end
\* with wg.Done.
SendDownOrDrop(r) ==
  /\ OK /\ r.pc = "down"
  /\ \/ Send(Down(Name(r.o)))
     \/ Len(eventsIn) = Cap /\ UNCHANGED eventsIn
  /\ runs' = runs \ {r}
  /\ UNCHANGED <<applyVars, state, starts, deaths, failed, crashed, loop, pluginVars>>
SendDown(r) ==
  /\ OK /\ r.pc = "down"
  /\ Send(Down(Name(r.o)))
  /\ IF Kind[Name(r.o)] = "exec" THEN runs' = runs \ {r} ELSE SetPc(r, "done")
  /\ UNCHANGED <<applyVars, state, starts, deaths, failed, crashed, loop, pluginVars>>

Finish(r) ==
  /\ OK /\ r.pc = "done"
  /\ runs' = runs \ {r}
  /\ UNCHANGED <<applyVars, state, starts, deaths, failed, crashed, loop, eventsIn, pluginVars>>

RunStep(r) ==
  \/ ExecStart(r) \/ ChildStart(r) \/ ChildRunning(r) \/ SessionStart(r)
  \/ SendUp(r) \/ Exit(r) \/ ReadState(r) \/ SetState(r) \/ SendDown(r) \/ Finish(r)

-----------------------------------------------------------------------------
(* The ntpfailover plugin reads the log of the running commands.  The line *)
(* that ends a failover goes through the start-up state at once and sends  *)
(* a second event ("recovering").                                          *)

Logging(S) == \E r \in runs : r.pc = "running" /\ Kind[Name(r.o)] = "exec" /\ Name(r.o) \in S
PluginStep ==
  LET Emit(e, next) == Send(Plugin(e)) /\ fsm' = next
  IN /\ OK /\ plugins < MaxPlugin /\ plugins' = plugins + 1
     /\ \/ fsm = "startup" /\ Logging(Names) /\ Emit("recovered", "active")
        \/ fsm = "active" /\ Logging({"ts2phc"}) /\ Emit("failover", "failover")
        \/ fsm = "failover" /\ Logging({"ts2phc"}) /\ Emit("recovered", "recovering")
        \/ fsm = "recovering" /\ Emit("recovered", "active")
     /\ UNCHANGED <<applyVars, procVars, loop>>

-----------------------------------------------------------------------------
(* applyNodePTPProfiles.  Inside a group of Tree, stopAllProcesses takes   *)
(* the dependents from the last to the first, then the process.            *)

Idle == [pc |-> "idle", i |-> 0, j |-> 0]
At(pc, i, j) == [pc |-> pc, i |-> i, j |-> j]
Size(i) == Len(Tree[i])
FirstStop(i) == IF Size(i) = 1 THEN 1 ELSE Size(i) - 1
Here == Obj(Tree[apply.i][apply.j])

AfterStop ==
  CASE apply.j < Size(apply.i) /\ apply.j > 1 -> At("stopping", apply.i, apply.j - 1)
    [] apply.j < Size(apply.i) /\ apply.j = 1 -> At("stopping", apply.i, Size(apply.i))
    [] apply.j = Size(apply.i) /\ apply.i < Len(Tree) -> At("stopping", apply.i + 1, FirstStop(apply.i + 1))
    [] OTHER -> At("clear", 0, 0)
\* After the Stop of a process its depProcess becomes nil.
ManagedAfterStop == IF apply.j = Size(apply.i) THEN managed \ Range(Front(Tree[apply.i])) ELSE managed

ApplyBegin ==
  /\ OK /\ apply = Idle /\ gen < MaxApplies
  /\ apply' = IF managed = {} THEN At("clear", 0, 0) ELSE At("stopping", 1, FirstStop(1))
  /\ UNCHANGED <<procVars, gen, managed, loop, eventsIn, pluginVars>>

stopAllProcesses ==
  /\ OK /\ apply.pc = "stopping"
  /\ IF Name(Here) \in managed
     THEN /\ StopProc(Here)
          /\ IF Waits(Here)
             THEN apply' = [apply EXCEPT !.pc = "waiting"] /\ UNCHANGED managed
             ELSE apply' = AfterStop /\ managed' = ManagedAfterStop
     ELSE apply' = AfterStop /\ managed' = ManagedAfterStop /\ UNCHANGED <<state, runs, crashed>>
  /\ UNCHANGED <<gen, starts, deaths, failed, loop, eventsIn, pluginVars>>

\* wg.Wait of the Stop of a child or a session returns.
StopWaited ==
  /\ OK /\ apply.pc = "waiting" /\ RunsOf(Here) = {}
  /\ apply' = AfterStop /\ managed' = ManagedAfterStop
  /\ UNCHANGED <<procVars, gen, loop, eventsIn, pluginVars>>

ClearProcesses ==
  /\ OK /\ apply.pc = "clear"
  /\ managed' = {} /\ gen' = gen + 1 /\ apply' = At("create", 1, 1)
  /\ UNCHANGED <<procVars, loop, eventsIn, pluginVars>>

\* createProcesses appends one process with its dependents; an error ends the
\* apply without starting anything.
createProcesses ==
  /\ OK /\ apply.pc = "create"
  /\ \/ /\ managed' = managed \cup Range(Tree[apply.i])
        /\ apply' = IF apply.i < Len(Tree) THEN At("create", apply.i + 1, 1) ELSE At("start", 1, 1)
     \/ apply' = Idle /\ UNCHANGED managed
  /\ UNCHANGED <<procVars, gen, loop, eventsIn, pluginVars>>

\* StartProcesses starts what has no start condition; at the end it starts
\* the event loop, once.
StartProcesses ==
  LET last == apply.i = Len(Tree) /\ apply.j = Size(apply.i)
  IN /\ OK /\ apply.pc = "start"
     /\ IF state[Here] = "Created" /\ StartCond[Name(Here)] = {}
        THEN StartProc(Here) ELSE UNCHANGED <<state, runs, starts>>
     /\ apply' = CASE apply.j < Size(apply.i) -> At("start", apply.i, apply.j + 1)
                   [] apply.j = Size(apply.i) /\ ~last -> At("start", apply.i + 1, 1)
                   [] last -> Idle
     /\ loop' = IF last /\ loop.pc = "off" THEN [loop EXCEPT !.pc = "select"] ELSE loop
     /\ UNCHANGED <<gen, managed, deaths, failed, crashed, eventsIn, pluginVars>>

-----------------------------------------------------------------------------
(* processEvents.                                                          *)

NoEvent == <<"", "">>
NoObject == <<"", 0>>
LoopIdle == [pc |-> "select", ev |-> NoEvent, o |-> NoObject, ready |-> FALSE, todo |-> {}]

\* GetCondition: a missing Restart condition is the Start condition.
ConditionFor(n, s) == IF s \in {"Starting", "Running"} THEN StopCond[n] ELSE StartCond[n]
waitingToRestart(o) == state[o] # "Created" /\ ConditionFor(Name(o), state[o]) # {}
waitingOnCondition(o) == ConditionFor(Name(o), state[o]) # {}

\* forEachProcess goes over the managed processes in the order of Tree.
Place(o) == CHOOSE i \in DOMAIN FlattenSeq(Tree) : FlattenSeq(Tree)[i] = Name(o)
First(S) == {o \in S : \A p \in S : Place(o) <= Place(p)}
getWaitingProcesses == {Obj(n) : n \in {m \in managed : waitingOnCondition(Obj(m))}}

sourceProcessUp(n) == n \in managed /\ state[Obj(n)] \in {"Starting", "Running"}

\* Met: transient atoms by the event, the clock snapshot is empty.
\* MetByCurrentState: persistent atoms by the processes and the snapshot.
AtomMet(a) ==
  IF loop.ev # NoEvent THEN a = loop.ev
  ELSE \/ a[1] = "up" /\ sourceProcessUp(a[2])
       \/ a[1] = "ready" /\ loop.ready
\* stateTransitionAction: without a condition Created and Dead start at once,
\* Stopped and Running stay.
Met(o) ==
  LET c == ConditionFor(Name(o), state[o])
  IN IF c = {} THEN state[o] \in {"Created", "Dead"} ELSE \E a \in c : AtomMet(a)

Receive ==
  /\ OK /\ loop.pc = "select" /\ eventsIn # <<>>
  /\ eventsIn' = Tail(eventsIn)
  /\ loop' = [LoopIdle EXCEPT !.pc = IF Head(eventsIn)[1] = "down" THEN "down" ELSE "eval", !.ev = Head(eventsIn)]
  /\ UNCHANGED <<applyVars, procVars, pluginVars>>

\* handleProcessDown: findProcess by name, and its state.
handleProcessDown ==
  LET n == loop.ev[2]
  IN /\ OK /\ loop.pc = "down"
     /\ loop' = IF n \in managed /\ state[Obj(n)] = "Dead"
                THEN [loop EXCEPT !.pc = "restart", !.o = Obj(n)]
                ELSE [loop EXCEPT !.pc = "eval"]
     /\ UNCHANGED <<applyVars, procVars, eventsIn, pluginVars>>

\* startProcessWithRetry of the process that was found Dead.
RestartByCondition ==
  /\ OK /\ loop.pc = "restart"
  /\ loop' = [loop EXCEPT !.pc = "eval", !.o = NoObject]
  /\ UNCHANGED <<applyVars, procVars, eventsIn, pluginVars>>
Restart ==
  /\ OK /\ loop.pc = "restart"
  /\ StartProc(loop.o)
  /\ loop' = [loop EXCEPT !.pc = "eval", !.o = NoObject]
  /\ UNCHANGED <<applyVars, deaths, failed, crashed, eventsIn, pluginVars>>

\* evalActions, first part.
evalActions ==
  /\ OK /\ loop.pc = "eval"
  /\ loop' = [loop EXCEPT !.pc = "scan", !.todo = getWaitingProcesses]
  /\ UNCHANGED <<applyVars, procVars, eventsIn, pluginVars>>

\* reconcileWaiting, first part: at a tick or with a new clock snapshot, whose
\* verdict ready on the clock conditions, if there are any, is the clock
\* manager's.
ReadyValues == IF \E n \in Names : Ready \in StartCond[n] \cup StopCond[n] THEN BOOLEAN ELSE {FALSE}
reconcileWaiting ==
  /\ OK /\ loop.pc = "select"
  /\ \E ready \in ReadyValues :
       loop' = [LoopIdle EXCEPT !.pc = "scan", !.ready = ready, !.todo = getWaitingProcesses]
  /\ UNCHANGED <<applyVars, procVars, eventsIn, pluginVars>>

\* Both go over the waiting processes: Starting and Stopping are skipped, ...
Scan ==
  /\ OK /\ loop.pc = "scan"
  /\ \/ loop.todo = {} /\ loop' = LoopIdle
     \/ \E o \in First(loop.todo) :
          loop' = IF state[o] \in {"Starting", "Stopping"}
                  THEN [loop EXCEPT !.todo = @ \ {o}]
                  ELSE [loop EXCEPT !.pc = "decide", !.o = o, !.todo = @ \ {o}]
  /\ UNCHANGED <<applyVars, procVars, eventsIn, pluginVars>>

\* ... and then the state is read again: stateTransitionAction panics on
\* Starting and Stopping.
Decide ==
  LET o == loop.o
  IN /\ OK /\ loop.pc = "decide"
     /\ loop' = [loop EXCEPT !.pc = "scan", !.o = NoObject]
     /\ \/ /\ state[o] \in {"Starting", "Stopping"}
           /\ crashed' = "transition" /\ UNCHANGED <<state, runs, starts>>
        \/ /\ state[o] \in {"Created", "Stopped", "Dead"} /\ Met(o)
           /\ StartProc(o) /\ UNCHANGED crashed
        \/ /\ state[o] = "Running" /\ Met(o)
           /\ StopProc(o) /\ UNCHANGED starts
        \/ /\ state[o] \notin {"Starting", "Stopping"} /\ ~Met(o)
           /\ UNCHANGED <<state, runs, starts, crashed>>
     /\ UNCHANGED <<applyVars, deaths, failed, eventsIn, pluginVars>>

-----------------------------------------------------------------------------
Init ==
  /\ gen = 0 /\ managed = {}
  /\ state = [o \in Objects |-> "Created"]
  /\ runs = {} /\ starts = [o \in Objects |-> 0]
  /\ apply = Idle
  /\ loop = [LoopIdle EXCEPT !.pc = "off"]
  /\ eventsIn = <<>>
  /\ fsm = "startup"
  /\ crashed = ""
  /\ deaths = 0 /\ plugins = 0 /\ failed = {}

ApplyStep ==
  ApplyBegin \/ stopAllProcesses \/ StopWaited \/ ClearProcesses \/ createProcesses \/ StartProcesses
LoopStep ==
  handleProcessDown \/ Restart \/ evalActions \/ Scan \/ Decide

Next ==
  \/ \E r \in runs : RunStep(r)
  \/ PluginStep
  \/ ApplyStep
  \/ LoopStep \/ Receive \/ reconcileWaiting

Spec == Init /\ [][Next]_vars

\* The goroutines and the apply run; a command ends when it was told to, and
\* nothing forces it to die, to log or a profile to be applied.  Go's select
\* takes a ready case at random, so ticks do not starve the events.
FairSpec ==
  /\ Spec
  /\ WF_vars((\E r \in runs : RunStep(r)) /\ deaths' = deaths)
  /\ WF_vars(ApplyStep /\ ~ApplyBegin)
  /\ WF_vars(LoopStep) /\ SF_vars(Receive) /\ WF_vars(reconcileWaiting)

-----------------------------------------------------------------------------
RunPcs == {"begin", "started", "up", "running", "exit", "stopped", "dead", "down", "done"}
ApplyPcs == {"idle", "stopping", "waiting", "clear", "create", "start"}
LoopPcs == {"off", "select", "down", "restart", "eval", "scan", "decide"}

Runs == [o : Objects, k : Nat, pc : RunPcs, term : BOOLEAN]
Loops == [pc : LoopPcs, ev : Events \cup {NoEvent}, o : Objects \cup {NoObject},
          ready : BOOLEAN, todo : SUBSET Objects]

\* Where the apply is: its place in Tree, and the profile it works on.
ApplyOK ==
  /\ apply \in [pc : ApplyPcs, i : Nat, j : Nat]
  /\ apply.pc \in {"stopping", "waiting", "create", "start"} => apply.i \in 1..Len(Tree) /\ gen > 0
  /\ apply.pc \in {"stopping", "waiting", "start"} => apply.j \in 1..Size(apply.i)
  /\ apply.pc \in {"stopping", "waiting", "clear"} => gen < MaxApplies

\* Types and bounds of the variables; the runs of an object are numbered.
TypeOK ==
  /\ gen \in 0..MaxApplies /\ managed \subseteq Names /\ (managed # {} => gen > 0)
  /\ ApplyOK
  /\ state \in [Objects -> States]
  /\ starts \in [Objects -> Nat]
  /\ runs \subseteq Runs
  /\ \A r \in runs : r.k <= starts[r.o]
  /\ \A r, s \in runs : r.o = s.o /\ r.k = s.k => r = s
  /\ loop \in Loops
  /\ loop.pc \in {"restart", "decide"} => loop.o \in Objects
  /\ eventsIn \in Seq(Events) /\ Len(eventsIn) <= Cap
  /\ fsm \in {"startup", "active", "failover", "recovering"} /\ crashed \in {"", "pid", "transition"}
  /\ deaths \in 0..MaxDeaths /\ plugins \in 0..MaxPlugin /\ failed \subseteq Objects

\* A managed process that is Dead has its Down on the way to the restart: in
\* its run, in eventsIn or in the loop.  Nothing else restarts it for certain.
DeadReported ==
  \A n \in managed : state[Obj(n)] = "Dead" =>
    \/ \E r \in RunsOf(Obj(n)) : Done(r)
    \/ \E i \in DOMAIN eventsIn : eventsIn[i] = Down(n)
    \/ loop.pc = "down" /\ loop.ev = Down(n)
    \/ loop.pc = "restart" /\ loop.o = Obj(n)

\* A process object has at most one live command or session: no Start, by the
\* apply, the restart or a condition, doubles one.  The exception is a
\* ptpProcess whose command failed to start: it is Dead before its run has
\* reported, and a restart in between is declared Dead by the old run.
Alive(r) == r.pc \in {"started", "up", "running"}
OneChild ==
  \A r, s \in runs : r.o = s.o /\ Alive(r) /\ Alive(s) => r = s \/ r.o \in failed

\* A process that is Starting, Running or Stopping has a goroutine that will
\* report its end; otherwise Start would refuse it for ever.
LiveHasRun ==
  \A o \in Objects : state[o] \in {"Starting", "Running", "Stopping"} =>
    \E r \in RunsOf(o) : r.pc \notin {"down", "done"}

\* Dead processes are restarted: once they stop dying, none stays Dead while
\* its profile is in force, in whatever order events, ticks and Stops come.
DeadRestarted == []<>(~OK \/ \A n \in managed : state[Obj(n)] # "Dead")

\* A process that waits for another one to be up is started once that one is.
Waiting(n, m) ==
  /\ Up(m) \in StartCond[n] /\ {n, m} \subseteq managed
  /\ state[Obj(n)] = "Created" /\ state[Obj(m)] = "Running"
WaiterStarts == []<>(~OK \/ \A n, m \in Names : ~Waiting(n, m))

-----------------------------------------------------------------------------
(* Claims of comments and assertions that the code does not keep.          *)

\* "All process should have been stopped": no command of an earlier profile
\* runs on that nobody has told to end.
NoOrphan == \A r \in runs : Alive(r) /\ r.o[2] < gen => r.term

\* stateTransitionAction is called on no Starting or Stopping process.
NoPanic == crashed # "transition"

\* A Stop that waits for its goroutines returns.
StopReturns == (OK /\ apply.pc = "waiting") ~> (~OK \/ apply.pc # "waiting")
=============================================================================
