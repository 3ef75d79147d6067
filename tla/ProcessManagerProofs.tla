------------------------ MODULE ProcessManagerProofs ------------------------
(***************************************************************************)
(* Proofs about the process manager, for any profile, conditions, channel  *)
(* capacity and numbers of applied profiles and deaths: its type, that a   *)
(* live process always has a goroutine that will report its end, and that  *)
(* a dead one always has its Down on the way to the restart.               *)
(***************************************************************************)
EXTENDS ProcessManager, SequenceTheorems, TLAPS

\* An object nothing refers to yet.
Untouched(o) ==
  /\ state[o] = "Created"
  /\ \A r \in runs : r.o # o
  /\ loop.o # o /\ o \notin loop.todo

\* The objects of later profiles, and those of this one that are still to be
\* created, are untouched: a stale event or decision never reaches them.
Fresh(o) == o[2] > gen \/ (apply.pc = "create" /\ o[2] = gen /\ o[1] \notin managed)
FreshUntouched == \A o \in Objects : Fresh(o) => Untouched(o)

IInv == TypeOK /\ FreshUntouched /\ LiveHasRun /\ DeadReported

\* The part of TypeOK about state, runs and starts.
RunsOK ==
  /\ state \in [Objects -> States]
  /\ starts \in [Objects -> Nat]
  /\ runs \subseteq Runs
  /\ \A r \in runs : r.k <= starts[r.o]
  /\ \A r, s \in runs : r.o = s.o /\ r.k = s.k => r = s

-----------------------------------------------------------------------------
(* The operators the actions are built from.                               *)

\* A place in Tree holds a name.
LEMMA TreeNames ==
  ASSUME NEW i \in 1..Len(Tree)
  PROVE  /\ Tree[i] \in Seq(Names) /\ Size(i) \in Nat /\ Size(i) >= 1
         /\ Range(Tree[i]) \subseteq Names
         /\ \A j \in 1..Size(i) : Tree[i][j] \in Names
         /\ FirstStop(i) \in 1..Size(i)
<1>1. Tree[i] \in Seq(Names) \ {<<>>} /\ i \in DOMAIN Tree
  BY ProcessAssumption
<1>2. Size(i) \in Nat /\ Size(i) >= 1 /\ \A j \in 1..Size(i) : Tree[i][j] \in Names
  BY <1>1, EmptySeq DEF Size
<1>3. Range(Tree[i]) \subseteq Names
  BY <1>1 DEF Names
<1>4. FirstStop(i) \in 1..Size(i)
  BY <1>2 DEF FirstStop
<1> QED  BY <1>1, <1>2, <1>3, <1>4

\* r becomes q, the other goroutines stay.
Becomes(r, q) ==
  /\ q.o = r.o /\ q \in Runs
  /\ runs' = (runs \ {r}) \cup {q}

\* A goroutine that moves on keeps its object and number, so the runs stay
\* well-formed.
LEMMA BecomesKeeps ==
  ASSUME RunsOK, NEW r \in runs, NEW q, Becomes(r, q), q.k = r.k,
         starts' = starts, state' \in [Objects -> States]
  PROVE  RunsOK'
<1>1. \A s \in runs' : s = q \/ (s \in runs /\ s # r)
  BY DEF Becomes
<1>2. runs' \subseteq Runs
  BY DEF RunsOK, Becomes
<1>3. \A s \in runs' : s.k <= starts[s.o]
  BY <1>1 DEF RunsOK, Becomes
<1>4. ASSUME NEW s \in runs', NEW t \in runs', s.o = t.o, s.k = t.k PROVE s = t
  <2>1. CASE s = q /\ t = q
    BY <2>1
  <2>2. CASE s = q /\ t # q
    BY <1>1, <1>4, <2>2 DEF RunsOK, Becomes
  <2>3. CASE s # q /\ t = q
    BY <1>1, <1>4, <2>3 DEF RunsOK, Becomes
  <2>4. CASE s # q /\ t # q
    BY <1>1, <1>4, <2>4 DEF RunsOK
  <2> QED  BY <2>1, <2>2, <2>3, <2>4
<1> QED  BY <1>2, <1>3, <1>4 DEF RunsOK

\* What SetPc does.
LEMMA SetPcEffect ==
  ASSUME RunsOK, NEW r \in runs, NEW p \in RunPcs, SetPc(r, p),
         starts' = starts, state' \in [Objects -> States]
  PROVE  RunsOK' /\ \E q : q.pc = p /\ Becomes(r, q)
<1>1. r \in Runs
  BY DEF RunsOK
<1> DEFINE q == [r EXCEPT !.pc = p]
<1>2. q.o = r.o /\ q.k = r.k /\ q.pc = p /\ q \in Runs
  BY <1>1 DEF Runs
<1>3. runs' = (runs \ {r}) \cup {q}
  BY DEF SetPc
<1> HIDE DEF q
<1>4. Becomes(r, q)
  BY <1>2, <1>3 DEF Becomes
<1> QED  BY <1>2, <1>4, BecomesKeeps

\* Removing a goroutine keeps the runs well-formed.
LEMMA RemoveEffect ==
  ASSUME RunsOK, NEW r, runs' = runs \ {r}, starts' = starts, state' = state
  PROVE  RunsOK'
BY DEF RunsOK

\* What Start does to an object: nothing, or it begins a run.
LEMMA StartEffect ==
  ASSUME RunsOK, NEW o \in Objects, StartProc(o)
  PROVE  /\ RunsOK'
         /\ runs \subseteq runs' /\ \A s \in runs' : s \in runs \/ s.o = o
         /\ \A p \in Objects : p # o => state'[p] = state[p]
         /\ state'[o] # "Dead"
         /\ state'[o] # state[o] => \E s \in runs' : s.o = o /\ s.pc = "begin"
<1>1. CASE state[o] \notin {"Created", "Stopped", "Dead"}
  <2>1. UNCHANGED <<state, runs, starts>>
    BY <1>1 DEF StartProc
  <2> QED  BY <1>1, <2>1 DEF RunsOK
<1>2. CASE state[o] \in {"Created", "Stopped", "Dead"}
  <2> DEFINE n == NewRun(o)
  <2>1. /\ state' = [state EXCEPT ![o] = "Starting"]
        /\ starts' = [starts EXCEPT ![o] = @ + 1]
        /\ runs' = runs \cup {n}
    BY <1>2 DEF StartProc
  <2>2. n.o = o /\ n.k = starts[o] + 1 /\ n.pc = "begin" /\ n \in Runs
    BY DEF NewRun, Runs, RunsOK, RunPcs
  <2> HIDE DEF n
  <2>3. state' \in [Objects -> States] /\ starts' \in [Objects -> Nat] /\ runs' \subseteq Runs
    BY <2>1, <2>2 DEF RunsOK, States
  <2>4. /\ starts'[o] = starts[o] + 1 /\ starts[o] \in Nat
        /\ \A p \in Objects : p # o => starts'[p] = starts[p]
    BY <2>1 DEF RunsOK
  <2>5. \A r \in runs : r.o \in Objects /\ r.k \in Nat
    BY DEF RunsOK, Runs
  <2>6. \A r \in runs' : r.k <= starts'[r.o]
    <3> SUFFICES ASSUME NEW r \in runs' PROVE r.k <= starts'[r.o]
      OBVIOUS
    <3>1. CASE r = n
      BY <2>2, <2>4, <3>1
    <3>2. CASE r \in runs /\ r.o = o
      BY <2>4, <2>5, <3>2 DEF RunsOK
    <3>3. CASE r \in runs /\ r.o # o
      BY <2>4, <2>5, <3>3 DEF RunsOK
    <3> QED  BY <2>1, <3>1, <3>2, <3>3
  <2>7. ASSUME NEW r \in runs, r.o = o PROVE r.k # n.k
    BY <2>2, <2>4, <2>5, <2>7 DEF RunsOK
  <2>8. \A r, s \in runs' : r.o = s.o /\ r.k = s.k => r = s
    BY <2>1, <2>2, <2>7 DEF RunsOK
  <2>9. RunsOK'
    BY <2>3, <2>6, <2>8 DEF RunsOK
  <2>10. state'[o] = "Starting" /\ \A p \in Objects : p # o => state'[p] = state[p]
    BY <2>1 DEF RunsOK
  <2> QED  BY <2>1, <2>2, <2>9, <2>10
<1> QED  BY <1>1, <1>2

\* What Stop does to an object: nothing, or it marks it and tells a run to
\* end.  No run moves.
LEMMA StopEffect ==
  ASSUME RunsOK, NEW o \in Objects, StopProc(o), starts' = starts
  PROVE  /\ RunsOK'
         /\ \A s \in runs : \E t \in runs' : t.o = s.o /\ t.pc = s.pc
         /\ \A t \in runs' : \E s \in runs : t.o = s.o
         /\ \A p \in Objects : p # o => state'[p] = state[p]
         /\ state'[o] # state[o] => state'[o] = "Stopping" /\ Stoppable(o)
<1>1. CASE ~Stoppable(o)
  <2>1. UNCHANGED <<state, runs, starts>>
    BY <1>1 DEF StopProc
  <2> QED  BY <1>1, <2>1 DEF RunsOK
<1>2. CASE Stoppable(o)
  <2>1. state' = [state EXCEPT ![o] = "Stopping"] /\ Terminate(o)
    BY <1>2 DEF StopProc
  <2>2. /\ state' \in [Objects -> States] /\ state'[o] = "Stopping"
        /\ \A p \in Objects : p # o => state'[p] = state[p]
    BY <2>1 DEF RunsOK, States
  <2> DEFINE f(r) == IF r.o = o /\ Latest(r) THEN [r EXCEPT !.term = TRUE] ELSE r
  <2>3. CASE UNCHANGED runs
    BY <1>2, <2>2, <2>3 DEF RunsOK
  <2>4. CASE runs' = {f(r) : r \in runs}
    <3>1. \A r \in runs : f(r).o = r.o /\ f(r).k = r.k /\ f(r).pc = r.pc /\ f(r) \in Runs
      BY DEF RunsOK, Runs
    <3> HIDE DEF f
    <3>2. /\ \A s \in runs' : \E r \in runs : s = f(r)
          /\ \A r \in runs : f(r) \in runs'
      BY <2>4
    <3>3. runs' \subseteq Runs
      BY <3>1, <3>2
    <3>4. \A s \in runs' : s.k <= starts[s.o]
      BY <3>1, <3>2 DEF RunsOK
    <3>5. ASSUME NEW s \in runs', NEW t \in runs', s.o = t.o, s.k = t.k PROVE s = t
      <4>1. PICK x \in runs : s = f(x)
        BY <3>2
      <4>2. PICK y \in runs : t = f(y)
        BY <3>2
      <4>3. x.o = y.o /\ x.k = y.k
        BY <3>1, <3>5, <4>1, <4>2
      <4>4. x = y
        BY <4>3 DEF RunsOK
      <4> QED  BY <4>1, <4>2, <4>4
    <3>6. RunsOK'
      BY <2>2, <3>3, <3>4, <3>5 DEF RunsOK
    <3> QED  BY <1>2, <2>2, <3>1, <3>2, <3>6
  <2>5. \/ UNCHANGED runs \/ runs' = {f(r) : r \in runs}
    BY <2>1 DEF Terminate
  <2> QED  BY <2>3, <2>4, <2>5
<1> QED  BY <1>1, <1>2

\* A send that finds room appends an event.
LEMMA SendEffect ==
  ASSUME NEW ev \in Events, eventsIn \in Seq(Events), Send(ev)
  PROVE  /\ eventsIn' \in Seq(Events) /\ Len(eventsIn') <= Cap
         /\ \A i \in DOMAIN eventsIn : i \in DOMAIN eventsIn' /\ eventsIn'[i] = eventsIn[i]
         /\ \E i \in DOMAIN eventsIn' : eventsIn'[i] = ev
<1>1. /\ eventsIn' = Append(eventsIn, ev) /\ Len(eventsIn) < Cap
      /\ Cap \in Nat /\ Len(eventsIn) \in Nat
  BY ProcessAssumption DEF Send
<1>2. /\ eventsIn' \in Seq(Events) /\ Len(eventsIn') = Len(eventsIn) + 1
      /\ \A i \in 1..Len(eventsIn) : eventsIn'[i] = eventsIn[i]
      /\ eventsIn'[Len(eventsIn) + 1] = ev
      /\ DOMAIN eventsIn = 1..Len(eventsIn) /\ DOMAIN eventsIn' = 1..Len(eventsIn')
  BY <1>1
<1>3. Len(eventsIn') <= Cap /\ Len(eventsIn) + 1 \in DOMAIN eventsIn'
  BY <1>1, <1>2
<1>4. \A i \in DOMAIN eventsIn : i \in DOMAIN eventsIn'
  BY <1>1, <1>2
<1> QED  BY <1>2, <1>3, <1>4

-----------------------------------------------------------------------------
(* The steps of a run goroutine r, whatever its kind.                      *)

Live == {"Starting", "Running", "Stopping"}
RunEffect(r) ==
  /\ UNCHANGED <<applyVars, loop, pluginVars, crashed>>
  /\ RunsOK' /\ deaths' \in 0..MaxDeaths /\ failed' \subseteq Objects
  /\ eventsIn' \in Seq(Events) /\ Len(eventsIn') <= Cap
  /\ \A i \in DOMAIN eventsIn : i \in DOMAIN eventsIn' /\ eventsIn'[i] = eventsIn[i]
  /\ \A p \in Objects : p # r.o => state'[p] = state[p]
  /\ \A s \in runs : s = r \/ s \in runs'
  /\ \A s \in runs' : s \in runs \/ s.o = r.o
  \* it is there as long as its object is live, ...
  /\ state'[r.o] \in Live /\ (r.pc \notin {"down", "done"} \/ state'[r.o] # state[r.o]) =>
       \E s \in runs' : s.o = r.o /\ s.pc \notin {"down", "done"}
  \* ... and once it is done it goes on until it has sent Down.
  /\ Done(r) \/ (state'[r.o] = "Dead" /\ state[r.o] # "Dead") =>
       \/ \E s \in runs' : s.o = r.o /\ Done(s)
       \/ \E i \in DOMAIN eventsIn' : eventsIn'[i] = Down(Name(r.o))

\* The types a goroutine's step relies on.
LEMMA RunTypes ==
  ASSUME TypeOK, NEW r \in runs
  PROVE  /\ RunsOK /\ r \in Runs /\ r.o \in Objects /\ Name(r.o) \in Names /\ r.pc \in RunPcs
         /\ Up(Name(r.o)) \in Events /\ Down(Name(r.o)) \in Events
         /\ eventsIn \in Seq(Events) /\ Len(eventsIn) <= Cap
         /\ deaths \in 0..MaxDeaths /\ failed \subseteq Objects
<1>1. RunsOK /\ r \in Runs
  BY DEF TypeOK, RunsOK
<1>2. r.o \in Objects /\ r.pc \in RunPcs
  BY <1>1 DEF Runs
<1>3. Name(r.o) \in Names
  BY <1>2 DEF Objects, Name
<1> QED  BY <1>1, <1>2, <1>3 DEF TypeOK, Events

\* A step that moves r to p, leaves or sets the state of its object to x, and
\* sends nothing.
LEMMA QuietStep ==
  ASSUME TypeOK, NEW r \in runs, NEW q, Becomes(r, q), q.k = r.k, NEW x \in States,
         state' = [state EXCEPT ![r.o] = x],
         deaths' \in 0..MaxDeaths, failed' \subseteq Objects,
         UNCHANGED <<applyVars, starts, crashed, loop, eventsIn, pluginVars>>,
         x \in Live => q.pc \notin {"down", "done"},
         Done(r) \/ (x = "Dead" /\ state[r.o] # "Dead") => Done(q)
  PROVE  RunEffect(r)
<1>1. RunsOK /\ r.o \in Objects
  BY RunTypes
<1>2. /\ state' \in [Objects -> States] /\ state'[r.o] = x
      /\ \A p \in Objects : p # r.o => state'[p] = state[p]
  BY <1>1 DEF RunsOK
<1>3. RunsOK'
  BY <1>1, <1>2, BecomesKeeps
<1>4. /\ q \in runs' /\ q.o = r.o
      /\ \A s \in runs : s = r \/ s \in runs'
      /\ \A s \in runs' : s \in runs \/ s.o = r.o
  BY DEF Becomes
<1>5. eventsIn' = eventsIn /\ eventsIn \in Seq(Events) /\ Len(eventsIn) <= Cap
  BY RunTypes
<1> QED  BY <1>2, <1>3, <1>4, <1>5 DEF RunEffect

\* A step that moves r to p and leaves the states alone.
LEMMA QuietMove ==
  ASSUME TypeOK, NEW r \in runs, NEW p \in RunPcs, SetPc(r, p),
         deaths' \in 0..MaxDeaths, failed' \subseteq Objects,
         UNCHANGED <<applyVars, state, starts, crashed, loop, eventsIn, pluginVars>>,
         p \notin {"down", "done"},
         Done(r) => p \in {"exit", "stopped", "dead", "down"}
  PROVE  RunEffect(r)
<1>1. RunsOK /\ r.o \in Objects /\ r \in Runs
  BY RunTypes
<1> DEFINE q == [r EXCEPT !.pc = p]
<1>2. q.o = r.o /\ q.k = r.k /\ q.pc = p /\ q \in Runs /\ runs' = (runs \ {r}) \cup {q}
  BY <1>1 DEF Runs, SetPc
<1> HIDE DEF q
<1>3. state' = [state EXCEPT ![r.o] = state[r.o]] /\ state[r.o] \in States
  BY <1>1 DEF RunsOK
<1>4. Becomes(r, q) /\ (Done(r) => Done(q))
  BY <1>2 DEF Becomes, Done
<1> QED  BY <1>2, <1>3, <1>4, QuietStep

\* A step that moves r to p and sets the state of its object to x.
LEMMA QuietSet ==
  ASSUME TypeOK, NEW r \in runs, NEW p \in RunPcs, SetPc(r, p), NEW x \in States,
         state' = [state EXCEPT ![r.o] = x],
         deaths' \in 0..MaxDeaths, failed' \subseteq Objects,
         UNCHANGED <<applyVars, starts, crashed, loop, eventsIn, pluginVars>>,
         x \in Live => p \notin {"down", "done"},
         Done(r) \/ x = "Dead" => p \in {"exit", "stopped", "dead", "down"}
  PROVE  RunEffect(r)
<1>1. r \in Runs
  BY RunTypes
<1> DEFINE q == [r EXCEPT !.pc = p]
<1>2. q.o = r.o /\ q.k = r.k /\ q.pc = p /\ q \in Runs /\ runs' = (runs \ {r}) \cup {q}
  BY <1>1 DEF Runs, SetPc
<1> HIDE DEF q
<1>3. Becomes(r, q) /\ (Done(r) \/ x = "Dead" => Done(q))
  BY <1>2 DEF Becomes, Done
<1> QED  BY <1>2, <1>3, QuietStep

\* Every step of a run has the effect above.
LEMMA RunStepEffect ==
  ASSUME TypeOK, NEW r \in runs, RunStep(r)
  PROVE  RunEffect(r)
<1>0. /\ RunsOK /\ r \in Runs /\ r.o \in Objects /\ Name(r.o) \in Names
      /\ Up(Name(r.o)) \in Events /\ Down(Name(r.o)) \in Events
      /\ eventsIn \in Seq(Events) /\ Len(eventsIn) <= Cap
      /\ deaths \in 0..MaxDeaths /\ failed \subseteq Objects
  BY RunTypes
<1>d. MayDie => deaths' \in 0..MaxDeaths
  BY <1>0, ProcessAssumption DEF MayDie
<1>1. CASE ExecStart(r)
  <2>1. CASE state[r.o] = "Stopping" /\ SetPc(r, "exit") /\ UNCHANGED <<state, deaths, failed>>
    BY <1>0, <1>1, <2>1, QuietMove DEF ExecStart, RunPcs, Done
  <2>2. CASE /\ state' = [state EXCEPT ![r.o] = "Running"]
             /\ SetPc(r, "up") /\ UNCHANGED <<deaths, failed>>
    BY <1>0, <1>1, <2>2, QuietSet DEF ExecStart, RunPcs, Done, States
  <2>3. CASE /\ MayDie /\ state' = [state EXCEPT ![r.o] = "Dead"]
             /\ SetPc(r, "exit") /\ failed' = failed \cup {r.o}
    BY <1>0, <1>d, <1>1, <2>3, QuietSet DEF ExecStart, RunPcs, Live, States
  <2> QED  BY <1>1, <2>1, <2>2, <2>3 DEF ExecStart
<1>2. CASE ChildStart(r)
  <2>1. CASE SetPc(r, "started") /\ UNCHANGED deaths
    BY <1>0, <1>2, <2>1, QuietMove DEF ChildStart, RunPcs, Done
  <2>2. CASE MayDie /\ SetPc(r, "exit")
    BY <1>0, <1>d, <1>2, <2>2, QuietMove DEF ChildStart, RunPcs, Done
  <2> QED  BY <1>2, <2>1, <2>2 DEF ChildStart
<1>3. CASE ChildRunning(r)
  <2>1. CASE state[r.o] = "Stopping"
    <3> DEFINE q == [r EXCEPT !.pc = "running", !.term = TRUE]
    <3>1. q.o = r.o /\ q.k = r.k /\ q.pc = "running" /\ q \in Runs
      BY <1>0 DEF Runs, RunPcs
    <3>2. runs' = (runs \ {r}) \cup {q}
      BY <1>3, <2>1 DEF ChildRunning
    <3> HIDE DEF q
    <3>3. state' = [state EXCEPT ![r.o] = state[r.o]] /\ state[r.o] \in States
      BY <1>0, <1>3, <2>1 DEF ChildRunning, RunsOK
    <3>4. Becomes(r, q) /\ ~Done(r) /\ UNCHANGED <<applyVars, starts, deaths, failed, crashed, loop, eventsIn, pluginVars>>
      BY <1>3, <3>1, <3>2 DEF Becomes, ChildRunning, Done
    <3> QED  BY <1>0, <3>1, <3>3, <3>4, QuietStep
  <2>2. CASE state[r.o] # "Stopping"
    BY <1>0, <1>3, <2>2, QuietSet DEF ChildRunning, RunPcs, Done, States
  <2> QED  BY <2>1, <2>2
<1>4. CASE SessionStart(r)
  BY <1>0, <1>4, QuietSet DEF SessionStart, RunPcs, Done, States
<1>5. CASE SendUp(r)
  <2>1. SetPc(r, "running") /\ r.pc = "up" /\ Send(Up(Name(r.o)))
        /\ UNCHANGED <<applyVars, state, starts, deaths, failed, crashed, loop, pluginVars>>
    BY <1>5 DEF SendUp
  <2>2. RunsOK' /\ \E q : q.pc = "running" /\ Becomes(r, q)
    BY <1>0, <2>1, SetPcEffect DEF RunPcs, RunsOK
  <2>3. PICK q : q.pc = "running" /\ Becomes(r, q)
    BY <2>2
  <2>4. /\ q \in runs' /\ q.o = r.o
        /\ \A s \in runs : s = r \/ s \in runs'
        /\ \A s \in runs' : s \in runs \/ s.o = r.o
    BY <2>3 DEF Becomes
  <2>5. /\ eventsIn' \in Seq(Events) /\ Len(eventsIn') <= Cap
        /\ \A i \in DOMAIN eventsIn : i \in DOMAIN eventsIn' /\ eventsIn'[i] = eventsIn[i]
    BY <1>0, <2>1, SendEffect
  <2>6. ~Done(r) /\ state' = state
    BY <2>1 DEF Done
  <2> QED  BY <1>0, <2>1, <2>2, <2>3, <2>4, <2>5, <2>6 DEF RunEffect
<1>6. CASE Exit(r)
  BY <1>0, <1>d, <1>6, QuietMove DEF Exit, RunPcs, Done
<1>7. CASE ReadState(r)
  BY <1>0, <1>7, QuietMove DEF ReadState, RunPcs, Done
<1>8. CASE SetState(r)
  BY <1>0, <1>8, QuietSet DEF SetState, RunPcs, Live, States
<1>9. CASE SendDown(r)
  <2>1. /\ r.pc = "down" /\ Send(Down(Name(r.o)))
        /\ runs' = runs \ {r} \/ SetPc(r, "done")
        /\ UNCHANGED <<applyVars, state, starts, deaths, failed, crashed, loop, pluginVars>>
    BY <1>9 DEF SendDown
  <2>2. /\ RunsOK'
        /\ \A s \in runs : s = r \/ s \in runs'
        /\ \A s \in runs' : s \in runs \/ s.o = r.o
    <3>1. CASE runs' = runs \ {r}
      BY <1>0, <2>1, <3>1, RemoveEffect
    <3>2. CASE SetPc(r, "done")
      <4>1. RunsOK' /\ \E q : q.pc = "done" /\ Becomes(r, q)
        BY <1>0, <2>1, <3>2, SetPcEffect DEF RunPcs, RunsOK
      <4> QED  BY <4>1 DEF Becomes
    <3> QED  BY <2>1, <3>1, <3>2
  <2>3. /\ eventsIn' \in Seq(Events) /\ Len(eventsIn') <= Cap
        /\ \A i \in DOMAIN eventsIn : i \in DOMAIN eventsIn' /\ eventsIn'[i] = eventsIn[i]
        /\ \E i \in DOMAIN eventsIn' : eventsIn'[i] = Down(Name(r.o))
    BY <1>0, <2>1, SendEffect
  <2> QED  BY <1>0, <2>1, <2>2, <2>3 DEF RunEffect
<1>10. CASE Finish(r)
  <2>1. /\ r.pc = "done" /\ runs' = runs \ {r} /\ ~Done(r)
        /\ UNCHANGED <<applyVars, state, starts, deaths, failed, crashed, loop, eventsIn, pluginVars>>
    BY <1>10 DEF Finish, Done
  <2>2. RunsOK'
    BY <1>0, <2>1, RemoveEffect
  <2> QED  BY <1>0, <2>1, <2>2 DEF RunEffect
<1> QED  BY <1>1, <1>2, <1>3, <1>4, <1>5, <1>6, <1>7, <1>8, <1>9, <1>10 DEF RunStep

-----------------------------------------------------------------------------
(* Types.                                                                  *)

\* TypeOK by the variables its conjuncts are about.
ApplyTypes == gen \in 0..MaxApplies /\ managed \subseteq Names /\ (managed # {} => gen > 0) /\ ApplyOK
LoopTypes == loop \in Loops /\ (loop.pc \in {"restart", "decide"} => loop.o \in Objects)
OtherTypes ==
  /\ eventsIn \in Seq(Events) /\ Len(eventsIn) <= Cap
  /\ fsm \in {"startup", "active", "failover", "recovering"} /\ crashed \in {"", "pid", "transition"}
  /\ deaths \in 0..MaxDeaths /\ plugins \in 0..MaxPlugin /\ failed \subseteq Objects

\* TypeOK is the conjunction of its parts.
LEMMA TypeParts == TypeOK <=> ApplyTypes /\ RunsOK /\ LoopTypes /\ OtherTypes
BY DEF TypeOK, ApplyTypes, RunsOK, LoopTypes, OtherTypes

\* The parts in the next state.
LEMMA TypePartsNext == ApplyTypes' /\ RunsOK' /\ LoopTypes' /\ OtherTypes' => TypeOK'
BY DEF TypeOK, ApplyTypes, RunsOK, LoopTypes, OtherTypes

\* The object an apply that stops or starts is at, and the place it goes to.
LEMMA HereTypes ==
  ASSUME TypeOK, apply.pc \in {"stopping", "waiting", "start"}
  PROVE  /\ Here \in Objects /\ Name(Here) \in Names /\ Here[2] = gen
         /\ apply.i \in 1..Len(Tree) /\ apply.j \in 1..Size(apply.i)
         /\ gen \in 1..MaxApplies
<1>1. /\ apply.i \in 1..Len(Tree) /\ apply.j \in 1..Size(apply.i)
      /\ gen \in 0..MaxApplies /\ gen > 0 /\ MaxApplies \in Nat
  BY ProcessAssumption DEF TypeOK, ApplyOK
<1>2. Tree[apply.i][apply.j] \in Names
  BY <1>1, TreeNames
<1>3. gen \in 1..MaxApplies
  BY <1>1
<1> QED  BY <1>1, <1>2, <1>3 DEF Here, Obj, Objects, Name

\* After a Stop the apply is at another place of Tree, or clears the list.
LEMMA AfterStopTypes ==
  ASSUME TypeOK, apply.pc \in {"stopping", "waiting"}, gen' = gen,
         apply' = AfterStop, managed' = ManagedAfterStop
  PROVE  ApplyTypes' /\ managed' \subseteq managed /\ apply'.pc \in {"stopping", "clear"}
<1>0. /\ apply.i \in 1..Len(Tree) /\ apply.j \in 1..Size(apply.i)
      /\ gen \in 1..MaxApplies /\ gen < MaxApplies /\ MaxApplies \in Nat /\ Len(Tree) \in Nat
  <2>1. gen < MaxApplies
    BY DEF TypeOK, ApplyOK
  <2>2. MaxApplies \in Nat /\ Len(Tree) \in Nat
    BY ProcessAssumption
  <2> QED  BY <2>1, <2>2, HereTypes
<1>1. managed' \subseteq managed
  BY DEF ManagedAfterStop
<1>2. Size(apply.i) \in Nat
  BY <1>0, TreeNames
<1> DEFINE good(a) == /\ a \in [pc : ApplyPcs, i : Nat, j : Nat] /\ a.pc \in {"stopping", "clear"}
                      /\ a.pc = "stopping" => a.i \in 1..Len(Tree) /\ a.j \in 1..Size(a.i)
<1>3. good(apply')
  <2>1. CASE apply.j < Size(apply.i) /\ apply.j > 1
    <3>1. apply' = At("stopping", apply.i, apply.j - 1)
      BY <1>0, <1>2, <2>1 DEF AfterStop
    <3>2. apply.j - 1 \in 1..Size(apply.i) /\ apply.j - 1 \in Nat
      BY <1>0, <1>2, <2>1
    <3> QED  BY <1>0, <3>1, <3>2 DEF At, ApplyPcs
  <2>2. CASE apply.j < Size(apply.i) /\ apply.j = 1
    <3>1. apply' = At("stopping", apply.i, Size(apply.i))
      BY <2>2 DEF AfterStop
    <3>2. Size(apply.i) \in 1..Size(apply.i)
      BY <1>0, <1>2, <2>2
    <3> QED  BY <1>0, <1>2, <3>1, <3>2 DEF At, ApplyPcs
  <2>3. CASE apply.j = Size(apply.i) /\ apply.i < Len(Tree)
    <3>1. apply' = At("stopping", apply.i + 1, FirstStop(apply.i + 1))
      BY <1>0, <1>2, <2>3 DEF AfterStop
    <3>2. apply.i + 1 \in 1..Len(Tree)
      BY <1>0, <2>3
    <3>3. FirstStop(apply.i + 1) \in 1..Size(apply.i + 1) /\ Size(apply.i + 1) \in Nat
      BY <3>2, TreeNames
    <3> QED  BY <3>1, <3>2, <3>3 DEF At, ApplyPcs
  <2>4. CASE apply.j = Size(apply.i) /\ ~(apply.i < Len(Tree))
    <3>1. apply' = At("clear", 0, 0)
      BY <1>0, <1>2, <2>4 DEF AfterStop
    <3> QED  BY <3>1 DEF At, ApplyPcs
  <2> QED  BY <1>0, <1>2, <2>1, <2>2, <2>3, <2>4
<1> QED  BY <1>0, <1>1, <1>3 DEF ApplyTypes, ApplyOK, TypeOK

\* The waiting processes are objects of the profile in force.
LEMMA WaitingTypes ==
  ASSUME TypeOK
  PROVE  /\ \A n \in managed : Obj(n) \in Objects /\ Name(Obj(n)) = n /\ Obj(n)[2] = gen
         /\ getWaitingProcesses \subseteq {Obj(n) : n \in managed}
         /\ getWaitingProcesses \subseteq Objects
<1>1. ASSUME NEW n \in managed
      PROVE  Obj(n) \in Objects /\ Name(Obj(n)) = n /\ Obj(n)[2] = gen
  <2>1. gen \in 0..MaxApplies /\ n \in Names /\ gen > 0
    BY DEF TypeOK
  <2>2. gen \in 1..MaxApplies
    BY <2>1, ProcessAssumption
  <2> QED  BY <2>1, <2>2 DEF Obj, Objects, Name
<1>2. getWaitingProcesses \subseteq {Obj(n) : n \in managed}
  BY DEF getWaitingProcesses
<1> QED  BY <1>1, <1>2

\* The types of a step of the event loop.
LEMMA LoopStepTypes ==
  ASSUME TypeOK, LoopStep \/ Receive \/ reconcileWaiting
  PROVE  TypeOK'
<1>0. ApplyTypes /\ RunsOK /\ LoopTypes /\ OtherTypes
  BY TypeParts
<1>w. getWaitingProcesses \subseteq Objects
  BY WaitingTypes
<1>t. LoopIdle \in Loops
  BY DEF LoopIdle, Loops, LoopPcs
<1>u. UNCHANGED procVars => RunsOK'
  BY <1>0 DEF procVars, RunsOK
<1>1. CASE handleProcessDown
  <2>1. ApplyTypes' /\ RunsOK' /\ OtherTypes'
    BY <1>0, <1>1, <1>u DEF handleProcessDown, applyVars, pluginVars, procVars, ApplyTypes, ApplyOK, OtherTypes
  <2>2. LoopTypes'
    BY <1>0, <1>1, WaitingTypes DEF handleProcessDown, LoopTypes, Loops, LoopPcs
  <2> QED  BY <2>1, <2>2, TypePartsNext
<1>2. CASE Restart
  <2>1. ApplyTypes' /\ OtherTypes'
    BY <1>0, <1>2 DEF Restart, applyVars, pluginVars, ApplyTypes, ApplyOK, OtherTypes
  <2>2. RunsOK'
    <3>1. loop.o \in Objects /\ StartProc(loop.o)
      BY <1>0, <1>2 DEF Restart, LoopTypes
    <3> QED  BY <1>0, <3>1, StartEffect
  <2>3. LoopTypes'
    BY <1>0, <1>2 DEF Restart, LoopTypes, Loops, LoopPcs
  <2> QED  BY <2>1, <2>2, <2>3, TypePartsNext
<1>3. CASE evalActions
  <2>1. ApplyTypes' /\ RunsOK' /\ OtherTypes'
    BY <1>0, <1>3, <1>u DEF evalActions, applyVars, pluginVars, procVars, ApplyTypes, ApplyOK, OtherTypes
  <2>2. LoopTypes'
    BY <1>0, <1>w, <1>3 DEF evalActions, LoopTypes, Loops, LoopPcs
  <2> QED  BY <2>1, <2>2, TypePartsNext
<1>4. CASE Scan
  <2>1. ApplyTypes' /\ RunsOK' /\ OtherTypes'
    BY <1>0, <1>4, <1>u DEF Scan, applyVars, pluginVars, procVars, ApplyTypes, ApplyOK, OtherTypes
  <2>2. LoopTypes'
    <3>1. CASE loop' = LoopIdle
      BY <1>t, <3>1 DEF LoopTypes, LoopIdle
    <3>2. ASSUME NEW o \in loop.todo,
                 \/ loop' = [loop EXCEPT !.todo = @ \ {o}]
                 \/ loop' = [loop EXCEPT !.pc = "decide", !.o = o, !.todo = @ \ {o}]
          PROVE  LoopTypes'
      <4>1. o \in Objects
        BY <1>0, <3>2 DEF LoopTypes, Loops
      <4> QED  BY <1>0, <3>2, <4>1 DEF LoopTypes, Loops, LoopPcs
    <3> QED  BY <1>4, <3>1, <3>2 DEF Scan, First
  <2> QED  BY <2>1, <2>2, TypePartsNext
<1>5. CASE Decide
  <2>0. loop.o \in Objects
    BY <1>0, <1>5 DEF Decide, LoopTypes
  <2>1. ApplyTypes'
    BY <1>0, <1>5 DEF Decide, applyVars, ApplyTypes, ApplyOK
  <2>2. LoopTypes'
    BY <1>0, <1>5 DEF Decide, LoopTypes, Loops, LoopPcs
  <2>3. /\ UNCHANGED <<deaths, failed, eventsIn, pluginVars>>
        /\ \/ crashed' = "transition" /\ UNCHANGED <<state, runs, starts>>
           \/ StartProc(loop.o) /\ UNCHANGED crashed
           \/ StopProc(loop.o) /\ UNCHANGED starts
           \/ UNCHANGED <<state, runs, starts, crashed>>
    BY <1>5 DEF Decide
  <2>4. StopProc(loop.o) => crashed' \in {"pid", "", crashed}
    BY DEF StopProc
  <2>5. OtherTypes'
    BY <1>0, <2>3, <2>4 DEF OtherTypes, pluginVars
  <2>6. RunsOK'
    <3>1. CASE UNCHANGED <<state, runs, starts>>
      BY <1>0, <3>1 DEF RunsOK
    <3>2. CASE StartProc(loop.o)
      BY <1>0, <2>0, <3>2, StartEffect
    <3>3. CASE StopProc(loop.o) /\ UNCHANGED starts
      BY <1>0, <2>0, <3>3, StopEffect
    <3> QED  BY <2>3, <3>1, <3>2, <3>3
  <2> QED  BY <2>1, <2>2, <2>5, <2>6, TypePartsNext
<1>6. CASE Receive
  <2>1. ApplyTypes' /\ RunsOK'
    BY <1>0, <1>6, <1>u DEF Receive, applyVars, ApplyTypes, ApplyOK
  <2>2. /\ Head(eventsIn) \in Events /\ Tail(eventsIn) \in Seq(Events)
        /\ Len(Tail(eventsIn)) <= Cap
    <3>1. eventsIn \in Seq(Events) /\ eventsIn # <<>> /\ Len(eventsIn) <= Cap /\ Cap \in Nat
      BY <1>0, <1>6, ProcessAssumption DEF Receive, OtherTypes
    <3> QED  BY <3>1, HeadTailProperties
  <2>3. OtherTypes'
    BY <1>0, <1>6, <2>2 DEF Receive, OtherTypes, procVars, pluginVars
  <2>4. LoopTypes'
    BY <1>t, <1>6, <2>2 DEF Receive, LoopTypes, LoopIdle, Loops, LoopPcs
  <2> QED  BY <2>1, <2>3, <2>4, TypePartsNext
<1>7. CASE reconcileWaiting
  <2>1. ApplyTypes' /\ RunsOK' /\ OtherTypes'
    BY <1>0, <1>7, <1>u DEF reconcileWaiting, applyVars, pluginVars, procVars, ApplyTypes, ApplyOK, OtherTypes
  <2>2. LoopTypes'
    <3>1. PICK ready \in BOOLEAN :
            loop' = [LoopIdle EXCEPT !.pc = "scan", !.ready = ready, !.todo = getWaitingProcesses]
      BY <1>7 DEF reconcileWaiting, ReadyValues
    <3> QED  BY <1>t, <1>w, <3>1 DEF LoopTypes, LoopIdle, Loops, LoopPcs
  <2> QED  BY <2>1, <2>2, TypePartsNext
<1> QED  BY <1>1, <1>2, <1>3, <1>4, <1>5, <1>6, <1>7 DEF LoopStep

\* The types of a step of the apply.
LEMMA ApplyStepTypes ==
  ASSUME TypeOK, ApplyStep
  PROVE  TypeOK'
<1>0. ApplyTypes /\ RunsOK /\ LoopTypes /\ OtherTypes
  BY TypeParts
<1>a. Len(Tree) \in Nat /\ Len(Tree) >= 1 /\ MaxApplies \in Nat
  BY ProcessAssumption, EmptySeq
<1>u. UNCHANGED <<procVars, loop, eventsIn, pluginVars>> => RunsOK' /\ LoopTypes' /\ OtherTypes'
  BY <1>0 DEF procVars, pluginVars, RunsOK, LoopTypes, OtherTypes
<1>1. CASE ApplyBegin
  <2>1. FirstStop(1) \in 1..Size(1) /\ Size(1) \in Nat
    BY <1>a, TreeNames
  <2>2. ApplyTypes'
    <3>1. CASE managed = {}
      <4>1. apply' = At("clear", 0, 0) /\ gen' = gen /\ managed' = managed /\ gen < MaxApplies
        BY <1>1, <3>1 DEF ApplyBegin
      <4> QED  BY <1>0, <1>a, <4>1 DEF At, ApplyTypes, ApplyOK, ApplyPcs
    <3>2. CASE managed # {}
      <4>1. apply' = At("stopping", 1, FirstStop(1)) /\ gen' = gen /\ managed' = managed /\ gen < MaxApplies
        BY <1>1, <3>2 DEF ApplyBegin
      <4> QED  BY <1>0, <1>a, <2>1, <3>2, <4>1 DEF At, ApplyTypes, ApplyOK, ApplyPcs
    <3> QED  BY <3>1, <3>2
  <2> QED  BY <1>1, <1>u, <2>2, TypePartsNext DEF ApplyBegin
<1>2. CASE stopAllProcesses
  <2>0. /\ Here \in Objects /\ apply.pc = "stopping" /\ gen' = gen
        /\ UNCHANGED <<starts, deaths, failed, loop, eventsIn, pluginVars>>
    BY <1>2, HereTypes DEF stopAllProcesses
  <2>1. /\ StopProc(Here) \/ UNCHANGED <<state, runs, crashed>>
        /\ \/ apply' = AfterStop /\ managed' = ManagedAfterStop
           \/ apply' = [apply EXCEPT !.pc = "waiting"] /\ managed' = managed
    BY <1>2 DEF stopAllProcesses
  <2>2. ApplyTypes'
    <3>1. CASE apply' = AfterStop /\ managed' = ManagedAfterStop
      BY <2>0, <3>1, AfterStopTypes
    <3>2. CASE apply' = [apply EXCEPT !.pc = "waiting"] /\ managed' = managed
      BY <1>0, <2>0, <3>2 DEF ApplyTypes, ApplyOK, ApplyPcs
    <3> QED  BY <2>1, <3>1, <3>2
  <2>3. RunsOK'
    <3>1. CASE UNCHANGED <<state, runs, crashed>>
      BY <1>0, <2>0, <3>1 DEF RunsOK
    <3>2. CASE StopProc(Here)
      BY <1>0, <2>0, <3>2, StopEffect
    <3> QED  BY <2>1, <3>1, <3>2
  <2>4. StopProc(Here) => crashed' \in {"pid", "", crashed}
    BY DEF StopProc
  <2>5. LoopTypes' /\ OtherTypes'
    BY <1>0, <2>0, <2>1, <2>4 DEF LoopTypes, OtherTypes, pluginVars
  <2> QED  BY <2>2, <2>3, <2>5, TypePartsNext
<1>3. CASE StopWaited
  <2>1. ApplyTypes'
    BY <1>3, AfterStopTypes DEF StopWaited
  <2> QED  BY <1>3, <1>u, <2>1, TypePartsNext DEF StopWaited
<1>4. CASE ClearProcesses
  <2>1. /\ managed' = {} /\ gen' = gen + 1 /\ gen < MaxApplies /\ gen \in Nat
        /\ apply' = [pc |-> "create", i |-> 1, j |-> 1]
    BY <1>0, <1>4 DEF ClearProcesses, ApplyTypes, ApplyOK, At
  <2>2. ApplyTypes'
    BY <1>a, <2>1 DEF ApplyTypes, ApplyOK, ApplyPcs
  <2> QED  BY <1>4, <1>u, <2>2, TypePartsNext DEF ClearProcesses
<1>5. CASE createProcesses
  <2>0. apply.i \in 1..Len(Tree) /\ gen > 0 /\ gen' = gen
    BY <1>0, <1>5 DEF createProcesses, ApplyTypes, ApplyOK
  <2>1. Range(Tree[apply.i]) \subseteq Names
    BY <2>0, TreeNames
  <2>2. ApplyTypes'
    <3>1. CASE apply' = Idle /\ managed' = managed
      BY <1>0, <2>0, <3>1 DEF ApplyTypes, ApplyOK, ApplyPcs, Idle
    <3>2. CASE /\ managed' = managed \cup Range(Tree[apply.i]) /\ apply.i < Len(Tree)
               /\ apply' = At("create", apply.i + 1, 1)
      BY <1>0, <1>a, <2>0, <2>1, <3>2 DEF ApplyTypes, ApplyOK, ApplyPcs, At
    <3>3. CASE /\ managed' = managed \cup Range(Tree[apply.i])
               /\ apply' = At("start", 1, 1)
      <4>1. 1 \in 1..Size(1)
        BY <1>a, TreeNames
      <4> QED  BY <1>0, <1>a, <2>0, <2>1, <3>3, <4>1 DEF ApplyTypes, ApplyOK, ApplyPcs, At
    <3> QED  BY <1>5, <3>1, <3>2, <3>3 DEF createProcesses
  <2> QED  BY <1>5, <1>u, <2>2, TypePartsNext DEF createProcesses
<1>6. CASE StartProcesses
  <2>0. /\ Here \in Objects /\ apply.pc = "start"
        /\ apply.i \in 1..Len(Tree) /\ apply.j \in 1..Size(apply.i) /\ gen > 0
        /\ UNCHANGED <<gen, managed, deaths, failed, crashed, eventsIn, pluginVars>>
    BY <1>6, HereTypes DEF StartProcesses
  <2>1. Size(apply.i) \in Nat
    BY <2>0, TreeNames
  <2>2. ApplyTypes'
    <3>1. CASE apply.j < Size(apply.i)
      <4>1. apply' = At("start", apply.i, apply.j + 1)
        BY <1>6, <2>0, <2>1, <3>1 DEF StartProcesses
      <4> QED  BY <1>0, <2>0, <2>1, <3>1, <4>1 DEF ApplyTypes, ApplyOK, ApplyPcs, At
    <3>2. CASE apply.j = Size(apply.i) /\ apply.i # Len(Tree)
      <4>1. apply' = At("start", apply.i + 1, 1)
        BY <1>6, <2>0, <2>1, <3>2 DEF StartProcesses
      <4>2. apply.i + 1 \in 1..Len(Tree)
        BY <1>a, <2>0, <3>2
      <4>3. 1 \in 1..Size(apply.i + 1)
        BY <4>2, TreeNames
      <4> QED  BY <1>0, <2>0, <4>1, <4>2, <4>3 DEF ApplyTypes, ApplyOK, ApplyPcs, At
    <3>3. CASE apply.j = Size(apply.i) /\ apply.i = Len(Tree)
      <4>1. apply' = Idle
        BY <1>6, <2>0, <2>1, <3>3 DEF StartProcesses
      <4> QED  BY <1>0, <2>0, <4>1 DEF ApplyTypes, ApplyOK, ApplyPcs, Idle
    <3> QED  BY <2>0, <2>1, <3>1, <3>2, <3>3
  <2>3. RunsOK'
    <3>1. StartProc(Here) \/ UNCHANGED <<state, runs, starts>>
      BY <1>6 DEF StartProcesses
    <3>2. CASE UNCHANGED <<state, runs, starts>>
      BY <1>0, <3>2 DEF RunsOK
    <3> QED  BY <1>0, <2>0, <3>1, <3>2, StartEffect
  <2>4. LoopTypes'
    <3>1. loop' = loop \/ loop' = [loop EXCEPT !.pc = "select"]
      BY <1>6 DEF StartProcesses
    <3> QED  BY <1>0, <3>1 DEF LoopTypes, Loops, LoopPcs
  <2>5. OtherTypes'
    BY <1>0, <2>0 DEF OtherTypes, pluginVars
  <2> QED  BY <2>2, <2>3, <2>4, <2>5, TypePartsNext
<1> QED  BY <1>1, <1>2, <1>3, <1>4, <1>5, <1>6 DEF ApplyStep

\* The types of a step of the plugin, which sends an event.
LEMMA PluginStepTypes ==
  ASSUME TypeOK, PluginStep
  PROVE  /\ TypeOK'
         /\ \A i \in DOMAIN eventsIn : i \in DOMAIN eventsIn' /\ eventsIn'[i] = eventsIn[i]
<1>0. ApplyTypes /\ RunsOK /\ LoopTypes /\ OtherTypes
  BY TypeParts
<1>1. /\ plugins' \in 0..MaxPlugin /\ fsm' \in {"startup", "active", "failover", "recovering"}
      /\ UNCHANGED <<applyVars, procVars, loop>>
      /\ \E e \in PluginEvents : Send(Plugin(e))
  <2>1. plugins < MaxPlugin /\ plugins' = plugins + 1 /\ UNCHANGED <<applyVars, procVars, loop>>
    BY DEF PluginStep
  <2>2. plugins \in 0..MaxPlugin /\ MaxPlugin \in Nat
    BY <1>0, ProcessAssumption DEF OtherTypes
  <2>3. \/ Send(Plugin("recovered")) /\ fsm' = "active"
        \/ Send(Plugin("failover")) /\ fsm' = "failover"
        \/ Send(Plugin("recovered")) /\ fsm' = "recovering"
    BY DEF PluginStep
  <2>4. "recovered" \in PluginEvents /\ "failover" \in PluginEvents
    BY DEF PluginEvents
  <2> QED  BY <2>1, <2>2, <2>3, <2>4
<1>2. PICK e \in PluginEvents : Send(Plugin(e))
  BY <1>1
<1>3. Plugin(e) \in Events /\ eventsIn \in Seq(Events)
  BY <1>0 DEF Events, OtherTypes
<1>4. /\ eventsIn' \in Seq(Events) /\ Len(eventsIn') <= Cap
      /\ \A i \in DOMAIN eventsIn : i \in DOMAIN eventsIn' /\ eventsIn'[i] = eventsIn[i]
  BY <1>2, <1>3, SendEffect
<1>5. ApplyTypes' /\ RunsOK' /\ LoopTypes'
  BY <1>0, <1>1 DEF applyVars, procVars, ApplyTypes, ApplyOK, RunsOK, LoopTypes
<1>6. OtherTypes'
  BY <1>0, <1>1, <1>4 DEF OtherTypes, procVars
<1> QED  BY <1>4, <1>5, <1>6, TypePartsNext

\* The types of every step.
LEMMA TypeStep ==
  ASSUME TypeOK, [Next]_vars
  PROVE  TypeOK'
<1>1. ASSUME NEW r \in runs, RunStep(r) PROVE TypeOK'
  <2>1. RunEffect(r)
    BY <1>1, RunStepEffect
  <2>2. ApplyTypes /\ RunsOK /\ LoopTypes /\ OtherTypes
    BY TypeParts
  <2>3. ApplyTypes' /\ LoopTypes' /\ OtherTypes'
    BY <2>1, <2>2 DEF RunEffect, applyVars, pluginVars, ApplyTypes, ApplyOK, LoopTypes, OtherTypes
  <2> QED  BY <2>1, <2>3, TypePartsNext DEF RunEffect
<1>2. CASE PluginStep
  BY <1>2, PluginStepTypes
<1>3. CASE ApplyStep
  BY <1>3, ApplyStepTypes
<1>4. CASE LoopStep \/ Receive \/ reconcileWaiting
  BY <1>4, LoopStepTypes
<1>5. CASE UNCHANGED vars
  BY <1>5 DEF vars, applyVars, procVars, pluginVars, TypeOK, ApplyOK
<1> QED  BY <1>1, <1>2, <1>3, <1>4, <1>5 DEF Next

\* Initially nothing runs.
LEMMA TypeInit == Init => TypeOK
<1> SUFFICES ASSUME Init PROVE TypeOK
  OBVIOUS
<1>0. Cap \in Nat /\ MaxApplies \in Nat /\ MaxDeaths \in Nat /\ MaxPlugin \in Nat
  BY ProcessAssumption
<1>a. gen = 0 /\ managed = {} /\ apply = Idle
  BY Zenon DEF Init
<1>b. eventsIn = <<>>
  BY Zenon DEF Init
<1>c. fsm = "startup" /\ crashed \in {"", "pid", "transition"} /\ failed = {}
  BY Zenon DEF Init
<1>d. deaths = 0 /\ plugins = 0
  BY Zenon DEF Init
<1>1. ApplyTypes
  BY <1>0, <1>a DEF Idle, ApplyTypes, ApplyOK, ApplyPcs
<1>2. RunsOK
  BY DEF Init, RunsOK, States
<1>3. LoopTypes
  BY DEF Init, LoopIdle, LoopTypes, Loops, LoopPcs
<1>4. OtherTypes
  <2>1. <<>> \in Seq(Events) /\ Len(<<>>) = 0
    BY EmptySeq
  <2>2. eventsIn \in Seq(Events) /\ Len(eventsIn) <= Cap
    BY <1>0, <1>b, <2>1
  <2>3. deaths \in 0..MaxDeaths /\ plugins \in 0..MaxPlugin
    BY <1>0, <1>d
  <2> QED  BY <1>c, <2>2, <2>3, Zenon DEF OtherTypes
<1> QED  BY <1>1, <1>2, <1>3, <1>4, TypeParts

\* The apply stays inside the profile, eventsIn inside its capacity, and no two
\* goroutines of a process are the same run (ProcessManager, ptpProcess.Start).
THEOREM TypeCorrect == Spec => []TypeOK
<1>1. Init => TypeOK
  BY TypeInit
<1>2. TypeOK /\ [Next]_vars => TypeOK'
  BY TypeStep
<1> QED  BY <1>1, <1>2, PTL DEF Spec

-----------------------------------------------------------------------------
(* A live process has a goroutine, a dead one is reported.                 *)

\* What a step of another actor does to the processes, by its effect on the
\* goroutines.
LEMMA RunsInvariants ==
  ASSUME IInv, NEW r \in runs, RunStep(r)
  PROVE  FreshUntouched' /\ LiveHasRun' /\ DeadReported'
<1>0. TypeOK /\ FreshUntouched /\ LiveHasRun /\ DeadReported
  BY DEF IInv
<1>1. RunEffect(r) /\ r.o \in Objects
  BY <1>0, RunStepEffect, RunTypes
<1>2. gen' = gen /\ managed' = managed /\ apply' = apply /\ loop' = loop
  BY <1>1 DEF RunEffect, applyVars
<1>3. FreshUntouched'
  <2> SUFFICES ASSUME NEW o \in Objects, Fresh(o)' PROVE Untouched(o)'
    BY DEF FreshUntouched
  <2>1. Fresh(o) /\ Untouched(o)
    BY <1>0, <1>2 DEF FreshUntouched, Fresh
  <2>2. r.o # o
    BY <2>1 DEF Untouched
  <2>3. state'[o] = state[o] /\ \A s \in runs' : s.o # o
    BY <1>1, <2>1, <2>2 DEF RunEffect, Untouched
  <2> QED  BY <1>2, <2>1, <2>3 DEF Untouched
<1>4. LiveHasRun'
  <2> SUFFICES ASSUME NEW o \in Objects, state'[o] \in Live
               PROVE  \E s \in runs' : s.o = o /\ s.pc \notin {"down", "done"}
    BY DEF LiveHasRun, RunsOf, Live
  <2>1. CASE o # r.o
    <3>1. state[o] \in Live
      BY <1>1, <2>1 DEF RunEffect
    <3>2. PICK s \in runs : s.o = o /\ s.pc \notin {"down", "done"}
      BY <1>0, <3>1 DEF LiveHasRun, RunsOf, Live
    <3> QED  BY <1>1, <2>1, <3>2 DEF RunEffect
  <2>2. CASE o = r.o /\ (r.pc \notin {"down", "done"} \/ state'[o] # state[o])
    BY <1>1, <2>2 DEF RunEffect
  <2>3. CASE o = r.o /\ r.pc \in {"down", "done"} /\ state'[o] = state[o]
    <3>1. PICK s \in runs : s.o = o /\ s.pc \notin {"down", "done"}
      BY <1>0, <2>3 DEF LiveHasRun, RunsOf, Live
    <3> QED  BY <1>1, <2>3, <3>1 DEF RunEffect
  <2> QED  BY <2>1, <2>2, <2>3
<1>5. DeadReported'
  <2> SUFFICES ASSUME NEW n \in managed, state'[Obj(n)] = "Dead"
               PROVE  \/ \E s \in runs' : s.o = Obj(n) /\ Done(s)
                      \/ \E i \in DOMAIN eventsIn' : eventsIn'[i] = Down(n)
                      \/ loop.pc = "down" /\ loop.ev = Down(n)
                      \/ loop.pc = "restart" /\ loop.o = Obj(n)
    BY <1>2 DEF DeadReported, RunsOf, Obj, Done
  <2>0. Obj(n) \in Objects /\ Name(Obj(n)) = n
    BY <1>0, WaitingTypes
  <2>1. CASE r.o = Obj(n) /\ (Done(r) \/ state[Obj(n)] # "Dead")
    BY <1>1, <2>0, <2>1 DEF RunEffect
  <2>2. CASE ~(r.o = Obj(n) /\ (Done(r) \/ state[Obj(n)] # "Dead"))
    <3>1. state[Obj(n)] = "Dead"
      BY <1>1, <2>0, <2>2 DEF RunEffect
    <3>2. CASE \E s \in RunsOf(Obj(n)) : Done(s)
      <4>1. PICK s \in runs : s.o = Obj(n) /\ Done(s)
        BY <3>2 DEF RunsOf
      <4>2. s # r
        BY <2>2, <4>1
      <4> QED  BY <1>1, <4>1, <4>2 DEF RunEffect
    <3>3. CASE \E i \in DOMAIN eventsIn : eventsIn[i] = Down(n)
      BY <1>1, <3>3 DEF RunEffect
    <3> QED  BY <1>0, <3>1, <3>2, <3>3 DEF DeadReported
  <2> QED  BY <2>1, <2>2
<1> QED  BY <1>3, <1>4, <1>5

\* A step that touches no process but through the Start or the Stop of o,
\* which is not fresh, keeps live processes with their goroutines.
Touches(o) ==
  /\ RunsOK'
  /\ \A p \in Objects : p # o => state'[p] = state[p]
  /\ \A s \in runs : \E t \in runs' : t.o = s.o /\ t.pc = s.pc
  /\ \A t \in runs' : t.o = o \/ \E s \in runs : t.o = s.o
  /\ state'[o] = "Dead" => state[o] = "Dead"
  /\ state'[o] # state[o] => \E t \in runs' : t.o = o /\ t.pc \notin {"down", "done"}

\* Start touches its object.
LEMMA StartTouches ==
  ASSUME RunsOK, NEW o \in Objects, StartProc(o)
  PROVE  Touches(o) /\ state'[o] # "Dead"
<1>1. /\ RunsOK'
      /\ runs \subseteq runs' /\ \A s \in runs' : s \in runs \/ s.o = o
      /\ \A p \in Objects : p # o => state'[p] = state[p]
      /\ state'[o] # "Dead"
      /\ state'[o] # state[o] => \E s \in runs' : s.o = o /\ s.pc = "begin"
  BY StartEffect
<1> QED  BY <1>1 DEF Touches

\* Stop touches its object; its goroutine stays.
LEMMA StopTouches ==
  ASSUME RunsOK, LiveHasRun, NEW o \in Objects, StopProc(o), starts' = starts
  PROVE  Touches(o)
<1>1. /\ RunsOK'
      /\ \A s \in runs : \E t \in runs' : t.o = s.o /\ t.pc = s.pc
      /\ \A t \in runs' : \E s \in runs : t.o = s.o
      /\ \A p \in Objects : p # o => state'[p] = state[p]
      /\ state'[o] # state[o] => state'[o] = "Stopping" /\ Stoppable(o)
  BY StopEffect
<1>2. ASSUME state'[o] # state[o]
      PROVE  \E t \in runs' : t.o = o /\ t.pc \notin {"down", "done"}
  <2>1. PICK s \in runs : s.o = o /\ s.pc \notin {"down", "done"}
    BY <1>1, <1>2 DEF Stoppable, LiveHasRun, RunsOf
  <2> QED  BY <1>1, <2>1
<1>3. state'[o] = "Dead" => state[o] = "Dead"
  BY <1>1
<1> QED  BY <1>1, <1>2, <1>3 DEF Touches

\* A step that touches no process touches any one.
LEMMA NothingTouches ==
  ASSUME RunsOK, NEW o, UNCHANGED <<state, runs, starts>>
  PROVE  Touches(o)
BY DEF Touches, RunsOK

\* Live processes keep their goroutines when one is touched.
LEMMA TouchLive ==
  ASSUME LiveHasRun, NEW o, Touches(o)
  PROVE  LiveHasRun'
<1> SUFFICES ASSUME NEW p \in Objects, state'[p] \in Live
             PROVE  \E s \in runs' : s.o = p /\ s.pc \notin {"down", "done"}
  BY DEF LiveHasRun, RunsOf, Live
<1>1. CASE state'[p] # state[p]
  BY <1>1 DEF Touches
<1>2. CASE state'[p] = state[p]
  <2>1. PICK s \in runs : s.o = p /\ s.pc \notin {"down", "done"}
    BY <1>2 DEF LiveHasRun, RunsOf, Live
  <2> QED  BY <2>1 DEF Touches
<1> QED  BY <1>1, <1>2

\* Untouched objects stay so when another one is touched and the loop's
\* objects are old ones or not fresh.
LEMMA TouchFresh ==
  ASSUME FreshUntouched, NEW o, Touches(o), o \in Objects => ~Fresh(o)',
         \A p \in Objects : Fresh(p)' => Fresh(p),
         \A p \in Objects : p \in loop'.todo \/ p = loop'.o =>
           p \in loop.todo \/ p = loop.o \/ ~Fresh(p)'
  PROVE  FreshUntouched'
<1> SUFFICES ASSUME NEW p \in Objects, Fresh(p)' PROVE Untouched(p)'
  BY DEF FreshUntouched
<1>1. Untouched(p) /\ p # o
  BY DEF FreshUntouched
<1>2. state'[p] = state[p] /\ \A s \in runs' : s.o # p
  BY <1>1 DEF Touches, Untouched
<1>3. loop'.o # p /\ p \notin loop'.todo
  BY <1>1 DEF Untouched
<1> QED  BY <1>1, <1>2, <1>3 DEF Untouched

\* Dead processes stay reported when one is touched and the events, and what
\* the loop has taken of them, stay.
LEMMA TouchDead ==
  ASSUME TypeOK, DeadReported, NEW o, Touches(o),
         gen' = gen, managed' \subseteq managed, eventsIn' = eventsIn,
         loop.pc \notin {"down", "restart"} \/ (loop'.pc = loop.pc /\ loop'.ev = loop.ev /\ loop'.o = loop.o)
  PROVE  DeadReported'
<1> SUFFICES ASSUME NEW n \in managed', state'[Obj(n)] = "Dead"
             PROVE  \/ \E s \in runs' : s.o = Obj(n) /\ Done(s)
                    \/ \E i \in DOMAIN eventsIn : eventsIn[i] = Down(n)
                    \/ loop'.pc = "down" /\ loop'.ev = Down(n)
                    \/ loop'.pc = "restart" /\ loop'.o = Obj(n)
  BY DEF DeadReported, RunsOf, Obj, Done
<1>0. n \in managed /\ Obj(n) \in Objects
  BY WaitingTypes
<1>1. state[Obj(n)] = "Dead"
  BY <1>0 DEF Touches
<1>2. CASE \E s \in RunsOf(Obj(n)) : Done(s)
  <2>1. PICK s \in runs : s.o = Obj(n) /\ Done(s)
    BY <1>2 DEF RunsOf
  <2>2. PICK t \in runs' : t.o = s.o /\ t.pc = s.pc
    BY <2>1 DEF Touches
  <2> QED  BY <2>1, <2>2 DEF Done
<1> QED  BY <1>0, <1>1, <1>2 DEF DeadReported

\* An object of the profile in force is not fresh; neither is one the loop is
\* working on.
LEMMA NotFresh ==
  ASSUME TypeOK, FreshUntouched
  PROVE  /\ NoObject \notin Objects
         /\ \A n \in managed : ~Fresh(Obj(n))
         /\ \A o \in Objects : o = loop.o \/ o \in loop.todo => ~Fresh(o)
         /\ \A r \in runs : ~Fresh(r.o)
         /\ apply.pc # "create" => \A o \in Objects : o[2] = gen => ~Fresh(o)
<1>0. gen \in Nat /\ MaxApplies \in Nat
  <2>1. MaxApplies \in Nat
    BY ProcessAssumption
  <2>2. gen \in 0..MaxApplies
    BY DEF TypeOK
  <2> QED  BY <2>1, <2>2
<1>1. NoObject \notin Objects
  <2>1. \A o \in Objects : o[2] \in 1..MaxApplies
    BY DEF Objects
  <2>2. NoObject[2] = 0 /\ 0 \notin 1..MaxApplies
    BY <1>0 DEF NoObject
  <2> QED  BY <2>1, <2>2
<1>2. \A n \in managed : ~Fresh(Obj(n))
  BY <1>0 DEF Fresh, Obj
<1>3. \A o \in Objects : o = loop.o \/ o \in loop.todo => ~Fresh(o)
  BY DEF FreshUntouched, Untouched
<1>4. \A r \in runs : ~Fresh(r.o)
  BY RunTypes DEF FreshUntouched, Untouched
<1>5. apply.pc # "create" => \A o \in Objects : o[2] = gen => ~Fresh(o)
  BY <1>0 DEF Fresh
<1> QED  BY <1>1, <1>2, <1>3, <1>4, <1>5

\* The event loop.
LEMMA LoopInvariants ==
  ASSUME IInv, LoopStep \/ Receive \/ reconcileWaiting
  PROVE  FreshUntouched' /\ LiveHasRun' /\ DeadReported'
<1>0. TypeOK /\ FreshUntouched /\ LiveHasRun /\ DeadReported /\ RunsOK
  BY TypeParts DEF IInv
<1>a. UNCHANGED applyVars
  <2>1. handleProcessDown \/ Restart \/ evalActions => UNCHANGED applyVars
    BY DEF handleProcessDown, Restart, evalActions
  <2>2. Receive \/ reconcileWaiting => UNCHANGED applyVars
    BY DEF Receive, reconcileWaiting
  <2>3. Scan => UNCHANGED applyVars
    BY DEF Scan
  <2>4. Decide => UNCHANGED applyVars
    BY DEF Decide
  <2> QED  BY <2>1, <2>2, <2>3, <2>4 DEF LoopStep
<1>b. gen' = gen /\ managed' = managed /\ apply' = apply /\ \A o : Fresh(o)' <=> Fresh(o)
  <2>1. gen' = gen /\ managed' = managed /\ apply' = apply
    BY <1>a DEF applyVars
  <2> QED  BY <2>1, Zenon DEF Fresh
<1>w. \A o \in getWaitingProcesses : o \in Objects /\ ~Fresh(o)
  BY <1>0, WaitingTypes, NotFresh
<1>n. UNCHANGED procVars => Touches(NoObject)
  BY <1>0, NothingTouches DEF procVars
<1>t. /\ loop \in Loops /\ loop.todo \subseteq Objects /\ NoObject \notin Objects
      /\ \A o \in Objects : o = loop.o \/ o \in loop.todo => ~Fresh(o)
      /\ LoopIdle.o = NoObject /\ LoopIdle.todo = {} /\ LoopIdle \in Loops
  BY <1>0, NotFresh DEF TypeOK, Loops, LoopIdle, LoopPcs
<1>1. CASE handleProcessDown
  <2>0. Touches(NoObject) /\ eventsIn' = eventsIn /\ loop.pc = "down" /\ state' = state /\ runs' = runs
    BY <1>n, <1>1 DEF handleProcessDown, procVars
  <2>1. FreshUntouched'
    <3>1. \A p \in Objects : p \in loop'.todo \/ p = loop'.o => ~Fresh(p)
      BY <1>0, <1>t, <1>1, NotFresh DEF handleProcessDown, Loops
    <3> QED  BY <1>0, <1>b, <1>t, <2>0, <3>1, TouchFresh
  <2>2. LiveHasRun'
    BY <1>0, <2>0, TouchLive
  <2>3. ASSUME NEW n \in managed, state[Obj(n)] = "Dead", loop.ev = Down(n)
        PROVE  loop'.pc = "restart" /\ loop'.o = Obj(n)
    <3>1. loop.ev[2] = n
      BY <2>3 DEF Down
    <3> QED  BY <1>t, <1>1, <2>3, <3>1 DEF handleProcessDown, Loops
  <2>4. DeadReported'
    BY <1>0, <1>b, <2>0, <2>3 DEF DeadReported, RunsOf, Obj, Done
  <2> QED  BY <2>1, <2>2, <2>4
<1>2. CASE Restart
  <2>0. loop.o \in Objects /\ StartProc(loop.o) /\ eventsIn' = eventsIn /\ loop.pc = "restart"
    BY <1>0, <1>2 DEF Restart, TypeOK
  <2>1. Touches(loop.o) /\ state'[loop.o] # "Dead"
    BY <1>0, <2>0, StartTouches
  <2>2. FreshUntouched'
    <3>1. loop'.o = NoObject /\ loop'.todo = loop.todo
      BY <1>t, <1>2 DEF Restart, Loops
    <3> QED  BY <1>0, <1>b, <1>t, <2>0, <2>1, <3>1, TouchFresh
  <2>3. LiveHasRun'
    BY <1>0, <2>1, TouchLive
  <2>4. DeadReported'
    <3> SUFFICES ASSUME NEW n \in managed, state'[Obj(n)] = "Dead"
                 PROVE  \/ \E s \in runs' : s.o = Obj(n) /\ Done(s)
                        \/ \E i \in DOMAIN eventsIn : eventsIn[i] = Down(n)
      BY <1>b, <2>0 DEF DeadReported, RunsOf, Obj, Done
    <3>1. Obj(n) \in Objects /\ Obj(n) # loop.o
      BY <1>0, <2>1, WaitingTypes
    <3>2. state[Obj(n)] = "Dead"
      BY <2>1, <3>1 DEF Touches
    <3>3. CASE \E s \in RunsOf(Obj(n)) : Done(s)
      <4>1. PICK s \in runs : s.o = Obj(n) /\ Done(s)
        BY <3>3 DEF RunsOf
      <4>2. PICK t \in runs' : t.o = s.o /\ t.pc = s.pc
        BY <2>1, <4>1 DEF Touches
      <4> QED  BY <4>1, <4>2 DEF Done
    <3> QED  BY <1>0, <2>0, <3>1, <3>2, <3>3 DEF DeadReported
  <2> QED  BY <2>2, <2>3, <2>4
<1>3. CASE evalActions \/ reconcileWaiting \/ Scan
  <2>0. /\ Touches(NoObject) /\ eventsIn' = eventsIn /\ loop.pc \notin {"down", "restart"}
    BY <1>n, <1>3 DEF evalActions, reconcileWaiting, Scan
  <2>1. \A p \in Objects : p \in loop'.todo \/ p = loop'.o => ~Fresh(p)
    <3>1. CASE evalActions
      BY <1>t, <1>w, <3>1 DEF evalActions, Loops
    <3>2. CASE reconcileWaiting
      <4>1. PICK ready : loop' = [LoopIdle EXCEPT !.pc = "scan", !.ready = ready, !.todo = getWaitingProcesses]
        BY <3>2 DEF reconcileWaiting
      <4>2. loop'.o = NoObject /\ loop'.todo = getWaitingProcesses
        BY <4>1 DEF LoopIdle
      <4> QED  BY <1>t, <1>w, <4>2
    <3>3. CASE Scan
      <4>1. CASE loop' = LoopIdle
        BY <1>t, <4>1
      <4>2. ASSUME NEW o \in loop.todo,
                   \/ loop' = [loop EXCEPT !.todo = @ \ {o}]
                   \/ loop' = [loop EXCEPT !.pc = "decide", !.o = o, !.todo = @ \ {o}]
            PROVE  \A p \in Objects : p \in loop'.todo \/ p = loop'.o => ~Fresh(p)
        <5>1. loop'.todo \subseteq loop.todo /\ loop'.o \in {loop.o, o}
          BY <1>t, <4>2 DEF Loops
        <5> QED  BY <1>t, <5>1
      <4> QED  BY <3>3, <4>1, <4>2 DEF Scan, First
    <3> QED  BY <1>3, <3>1, <3>2, <3>3
  <2>2. FreshUntouched'
    BY <1>0, <1>b, <1>t, <2>0, <2>1, TouchFresh
  <2>3. LiveHasRun' /\ DeadReported'
    BY <1>0, <1>b, <2>0, TouchLive, TouchDead
  <2> QED  BY <2>2, <2>3
<1>4. CASE Decide
  <2>0. /\ loop.o \in Objects /\ eventsIn' = eventsIn /\ loop.pc = "decide"
        /\ loop' = [loop EXCEPT !.pc = "scan", !.o = NoObject]
        /\ \/ UNCHANGED <<state, runs, starts>>
           \/ StartProc(loop.o)
           \/ StopProc(loop.o) /\ UNCHANGED starts
    BY <1>0, <1>4 DEF Decide, TypeOK
  <2>1. Touches(loop.o)
    BY <1>0, <2>0, NothingTouches, StartTouches, StopTouches
  <2>2. loop'.o = NoObject /\ loop'.todo = loop.todo
    BY <1>t, <2>0 DEF Loops
  <2>3. FreshUntouched'
    BY <1>0, <1>b, <1>t, <2>0, <2>1, <2>2, TouchFresh
  <2>4. LiveHasRun' /\ DeadReported'
    BY <1>0, <1>b, <2>0, <2>1, TouchLive, TouchDead
  <2> QED  BY <2>3, <2>4
<1>5. CASE Receive
  <2>0. /\ Touches(NoObject) /\ eventsIn \in Seq(Events) /\ eventsIn # <<>>
        /\ eventsIn' = Tail(eventsIn) /\ loop.pc = "select" /\ state' = state /\ runs' = runs
        /\ loop' = [LoopIdle EXCEPT !.pc = IF Head(eventsIn)[1] = "down" THEN "down" ELSE "eval",
                                   !.ev = Head(eventsIn)]
    BY <1>0, <1>n, <1>5 DEF Receive, procVars, TypeOK
  <2>1. loop'.o = NoObject /\ loop'.todo = {}
    BY <2>0 DEF LoopIdle
  <2>2. FreshUntouched' /\ LiveHasRun'
    BY <1>0, <1>b, <1>t, <2>0, <2>1, TouchFresh, TouchLive
  <2>3. ASSUME NEW n, NEW i \in DOMAIN eventsIn, eventsIn[i] = Down(n)
        PROVE  \/ \E j \in DOMAIN eventsIn' : eventsIn'[j] = Down(n)
               \/ loop'.pc = "down" /\ loop'.ev = Down(n)
    <3>1. CASE i = 1
      <4>1. Head(eventsIn) = Down(n) /\ Head(eventsIn)[1] = "down"
        BY <2>0, <2>3, <3>1 DEF Down
      <4> QED  BY <2>0, <4>1 DEF LoopIdle
    <3>2. CASE i # 1
      <4>1. /\ Len(Tail(eventsIn)) = Len(eventsIn) - 1 /\ Tail(eventsIn) \in Seq(Events)
            /\ \A j \in 1..Len(Tail(eventsIn)) : Tail(eventsIn)[j] = eventsIn[j + 1]
        BY <2>0, HeadTailProperties
      <4>2. i - 1 \in 1..Len(Tail(eventsIn)) /\ (i - 1) + 1 = i
        BY <2>0, <3>2, <4>1
      <4>3. Tail(eventsIn)[i - 1] = Down(n) /\ DOMAIN Tail(eventsIn) = 1..Len(Tail(eventsIn))
        BY <2>3, <4>1, <4>2
      <4> QED  BY <2>0, <4>2, <4>3
    <3> QED  BY <3>1, <3>2
  <2>4. DeadReported'
    BY <1>0, <1>b, <2>0, <2>3 DEF DeadReported, RunsOf, Obj, Done
  <2> QED  BY <2>2, <2>4
<1> QED  BY <1>1, <1>2, <1>3, <1>4, <1>5 DEF LoopStep

\* The apply.
LEMMA ApplyInvariants ==
  ASSUME IInv, ApplyStep
  PROVE  FreshUntouched' /\ LiveHasRun' /\ DeadReported'
<1>0. TypeOK /\ FreshUntouched /\ LiveHasRun /\ DeadReported /\ RunsOK
  BY TypeParts DEF IInv
<1>n. UNCHANGED procVars => Touches(NoObject)
  BY <1>0, NothingTouches DEF procVars
<1>t. NoObject \notin Objects
  BY <1>0, NotFresh
<1>1. CASE ApplyBegin
  <2>0. /\ Touches(NoObject) /\ gen' = gen /\ managed' = managed
        /\ loop' = loop /\ eventsIn' = eventsIn /\ apply'.pc \in {"clear", "stopping"}
    BY <1>n, <1>1 DEF ApplyBegin, At
  <2>1. \A p \in Objects : Fresh(p)' => Fresh(p)
    BY <2>0 DEF Fresh
  <2>2. FreshUntouched'
    BY <1>0, <1>t, <2>0, <2>1, TouchFresh
  <2> QED  BY <1>0, <2>0, <2>2, TouchLive, TouchDead
<1>2. CASE stopAllProcesses
  <2>0. /\ Here \in Objects /\ Here[2] = gen /\ apply.pc = "stopping" /\ gen' = gen
        /\ UNCHANGED <<starts, loop, eventsIn>>
    BY <1>0, <1>2, HereTypes DEF stopAllProcesses
  <2>1. managed' \subseteq managed /\ apply'.pc \in {"stopping", "clear", "waiting"}
    <3>1. CASE apply' = AfterStop /\ managed' = ManagedAfterStop
      BY <1>0, <2>0, <3>1, AfterStopTypes
    <3>2. CASE apply' = [apply EXCEPT !.pc = "waiting"] /\ managed' = managed
      BY <1>0, <3>2 DEF TypeOK, ApplyOK
    <3> QED  BY <1>2, <3>1, <3>2 DEF stopAllProcesses
  <2>2. Touches(Here)
    <3>1. StopProc(Here) \/ UNCHANGED <<state, runs>>
      BY <1>2 DEF stopAllProcesses
    <3> QED  BY <1>0, <2>0, <3>1, NothingTouches, StopTouches
  <2>3. ASSUME NEW p PROVE Fresh(p)' <=> p[2] > gen
    BY <2>0, <2>1 DEF Fresh
  <2>4. FreshUntouched'
    <3>1. PICK h \in Objects : h = Here
      BY <2>0
    <3>2. Touches(h) /\ ~Fresh(h)'
      <4>1. gen \in Nat
        BY <1>0, <2>0, HereTypes
      <4>2. ~(h[2] > gen)
        BY <2>0, <3>1, <4>1
      <4> QED  BY <2>2, <2>3, <3>1, <4>2
    <3>3. \A p \in Objects : Fresh(p)' => Fresh(p)
      BY <2>3 DEF Fresh
    <3> QED  BY <1>0, <2>0, <3>2, <3>3, TouchFresh
  <2> QED  BY <1>0, <2>0, <2>1, <2>2, <2>4, TouchLive, TouchDead
<1>3. CASE StopWaited
  <2>0. /\ Touches(NoObject) /\ gen' = gen /\ managed' \subseteq managed
        /\ loop' = loop /\ eventsIn' = eventsIn /\ apply'.pc \in {"clear", "stopping"}
    BY <1>0, <1>n, <1>3, AfterStopTypes DEF StopWaited
  <2>1. \A p \in Objects : Fresh(p)' => Fresh(p)
    BY <2>0 DEF Fresh
  <2>2. FreshUntouched'
    BY <1>0, <1>t, <2>0, <2>1, TouchFresh
  <2> QED  BY <1>0, <2>0, <2>2, TouchLive, TouchDead
<1>4. CASE ClearProcesses
  <2>0. /\ Touches(NoObject) /\ gen' = gen + 1 /\ managed' = {} /\ loop' = loop
    BY <1>n, <1>4 DEF ClearProcesses
  <2>1. \A p \in Objects : Fresh(p)' => Fresh(p)
    <3>1. gen \in Nat /\ MaxApplies \in Nat
      <4>1. MaxApplies \in Nat
        BY ProcessAssumption
      <4>2. gen \in 0..MaxApplies
        BY <1>0 DEF TypeOK
      <4> QED  BY <4>1, <4>2
    <3>2. ASSUME NEW p \in Objects, Fresh(p)' PROVE p[2] > gen
      <4>1. p[2] \in Nat
        BY <3>1 DEF Objects
      <4>2. p[2] > gen + 1 \/ p[2] = gen + 1
        BY <2>0, <3>2 DEF Fresh
      <4> QED  BY <3>1, <4>1, <4>2
    <3> QED  BY <3>2 DEF Fresh
  <2>2. FreshUntouched'
    BY <1>0, <1>t, <2>0, <2>1, TouchFresh
  <2>3. DeadReported'
    BY <2>0 DEF DeadReported
  <2> QED  BY <1>0, <2>0, <2>2, <2>3, TouchLive
<1>5. CASE createProcesses
  <2>0. /\ Touches(NoObject) /\ gen' = gen /\ managed \subseteq managed'
        /\ loop' = loop /\ eventsIn' = eventsIn /\ apply.pc = "create"
        /\ UNCHANGED <<state, runs>>
    BY <1>n, <1>5 DEF createProcesses, procVars
  <2>1. \A p \in Objects : Fresh(p)' => Fresh(p)
    BY <2>0 DEF Fresh
  <2>2. FreshUntouched'
    BY <1>0, <1>t, <2>0, <2>1, TouchFresh
  <2>3. DeadReported'
    <3>1. ASSUME NEW n \in managed', n \notin managed PROVE state[Obj(n)] # "Dead"
      <4>1. TypeOK'
        BY <1>0, ApplyStepTypes
      <4>2. n \in Names /\ gen > 0 /\ gen \in 0..MaxApplies /\ MaxApplies \in Nat
        BY <2>0, <3>1, <4>1, ProcessAssumption DEF TypeOK
      <4>3. Obj(n) \in Objects /\ Obj(n)[2] = gen /\ Obj(n)[1] = n
        BY <4>2 DEF Obj, Objects
      <4>4. Fresh(Obj(n))
        BY <2>0, <3>1, <4>3 DEF Fresh
      <4> QED  BY <1>0, <4>3, <4>4 DEF FreshUntouched, Untouched
    <3> QED  BY <1>0, <2>0, <3>1 DEF DeadReported, RunsOf, Obj, Done
  <2> QED  BY <1>0, <2>0, <2>2, <2>3, TouchLive
<1>6. CASE StartProcesses
  <2>0. /\ Here \in Objects /\ Here[2] = gen /\ apply.pc = "start" /\ gen \in Nat
        /\ UNCHANGED <<gen, managed, eventsIn>>
    BY <1>0, <1>6, HereTypes DEF StartProcesses
  <2>1. apply'.pc # "create"
    <3>1. apply.i \in 1..Len(Tree) /\ apply.j \in 1..Size(apply.i) /\ Size(apply.i) \in Nat
      BY <1>0, <2>0, HereTypes, TreeNames
    <3>2. apply' \in {At("start", apply.i, apply.j + 1), At("start", apply.i + 1, 1), Idle}
      BY <1>6, <3>1 DEF StartProcesses
    <3> QED  BY <3>2 DEF At, Idle
  <2>2. Touches(Here)
    <3>1. StartProc(Here) \/ UNCHANGED <<state, runs, starts>>
      BY <1>6 DEF StartProcesses
    <3> QED  BY <1>0, <2>0, <3>1, NothingTouches, StartTouches
  <2>3. loop'.o = loop.o /\ loop'.todo = loop.todo /\ loop'.ev = loop.ev
        /\ (loop.pc \in {"down", "restart"} => loop'.pc = loop.pc)
    <3>1. loop' = loop \/ (loop.pc = "off" /\ loop' = [loop EXCEPT !.pc = "select"])
      BY <1>6 DEF StartProcesses
    <3> QED  BY <1>0, <3>1 DEF TypeOK, Loops
  <2>4. ASSUME NEW p PROVE Fresh(p)' <=> p[2] > gen
    BY <2>0, <2>1 DEF Fresh
  <2>5. FreshUntouched'
    <3>1. PICK h \in Objects : h = Here
      BY <2>0
    <3>2. Touches(h) /\ ~Fresh(h)'
      <4>1. ~(h[2] > gen)
        BY <2>0, <3>1
      <4> QED  BY <2>2, <2>4, <3>1, <4>1
    <3>3. \A p \in Objects : Fresh(p)' => Fresh(p)
      BY <2>4 DEF Fresh
    <3> QED  BY <1>0, <2>3, <3>2, <3>3, TouchFresh
  <2> QED  BY <1>0, <2>0, <2>2, <2>3, <2>5, TouchLive, TouchDead
<1> QED  BY <1>1, <1>2, <1>3, <1>4, <1>5, <1>6 DEF ApplyStep

\* The inductive invariant.
LEMMA Inductive ==
  /\ Init => IInv
  /\ IInv /\ [Next]_vars => IInv'
<1>1. ASSUME Init PROVE IInv
  <2>1. /\ state = [o \in Objects |-> "Created"] /\ runs = {} /\ managed = {}
        /\ loop = [LoopIdle EXCEPT !.pc = "off"]
    BY <1>1, Zenon DEF Init
  <2>2. loop.o = NoObject /\ loop.todo = {} /\ NoObject \notin Objects
    <3>1. NoObject[2] = 0 /\ \A o \in Objects : o[2] \in 1..MaxApplies
      BY DEF NoObject, Objects
    <3> QED  BY <2>1, <3>1, ProcessAssumption DEF LoopIdle
  <2>3. \A o \in Objects : Untouched(o) /\ state[o] = "Created"
    BY <2>1, <2>2 DEF Untouched
  <2> QED  BY <1>1, <2>1, <2>3, TypeInit DEF IInv, FreshUntouched, LiveHasRun, DeadReported
<1>2. ASSUME IInv, [Next]_vars PROVE IInv'
  <2>0. TypeOK'
    BY <1>2, TypeStep DEF IInv
  <2>1. ASSUME NEW r \in runs, RunStep(r) PROVE IInv'
    BY <1>2, <2>0, <2>1, RunsInvariants DEF IInv
  <2>2. CASE ApplyStep
    BY <1>2, <2>0, <2>2, ApplyInvariants DEF IInv
  <2>3. CASE LoopStep \/ Receive \/ reconcileWaiting
    BY <1>2, <2>0, <2>3, LoopInvariants DEF IInv
  <2>4. CASE PluginStep
    <3>1. /\ UNCHANGED <<applyVars, procVars, loop>>
          /\ \A i \in DOMAIN eventsIn : i \in DOMAIN eventsIn' /\ eventsIn'[i] = eventsIn[i]
      BY <1>2, <2>4, PluginStepTypes DEF IInv, PluginStep
    <3>2. /\ gen' = gen /\ managed' = managed /\ apply' = apply /\ loop' = loop
          /\ state' = state /\ runs' = runs
      BY <3>1 DEF applyVars, procVars
    <3>3. FreshUntouched' /\ LiveHasRun'
      BY <1>2, <3>2 DEF IInv, FreshUntouched, Fresh, Untouched, LiveHasRun, RunsOf
    <3>4. DeadReported'
      BY <1>2, <3>1, <3>2 DEF IInv, DeadReported, RunsOf, Obj, Done
    <3> QED  BY <2>0, <3>3, <3>4 DEF IInv
  <2>5. CASE UNCHANGED vars
    BY <1>2, <2>0, <2>5 DEF vars, applyVars, procVars, IInv, FreshUntouched, Fresh, Untouched,
                            LiveHasRun, DeadReported, RunsOf, Obj, Done
  <2> QED  BY <1>2, <2>1, <2>2, <2>3, <2>4, <2>5 DEF Next
<1> QED  BY <1>1, <1>2

\* A process that is Starting, Running or Stopping has a goroutine that has not
\* yet set Stopped or Dead, whatever Starts, Stops, restarts and profiles do.
THEOREM LiveProcessHasRun == Spec => []LiveHasRun
<1>1. IInv => LiveHasRun
  BY DEF IInv
<1> QED  BY <1>1, Inductive, PTL DEF Spec

\* A managed process that is Dead has its Down in its goroutine, in eventsIn or
\* in the event loop, whichever profile it belongs to.
THEOREM DeadProcessReported == Spec => []DeadReported
<1>1. IInv => DeadReported
  BY DEF IInv
<1> QED  BY <1>1, Inductive, PTL DEF Spec

\* The objects of a profile that is not yet created are never reached by the
\* goroutines, events and decisions of the earlier ones.
THEOREM NewProfileUntouched == Spec => []FreshUntouched
<1>1. IInv => FreshUntouched
  BY DEF IInv
<1> QED  BY <1>1, Inductive, PTL DEF Spec

-----------------------------------------------------------------------------
(* One child.  A goroutine is unsettled until it has set Stopped or Dead.  *)
(* Until then its object is live, so Start refuses it; the exception is a  *)
(* ptpProcess whose command failed to start.                               *)

Unsettled(r) == r.pc \in {"begin", "started", "up", "running", "exit", "stopped", "dead"}
UnsettledIsLive == \A r \in runs : Unsettled(r) => state[r.o] \in Live \/ r.o \in failed
OneUnsettled ==
  \A r, s \in runs : r.o = s.o /\ Unsettled(r) /\ Unsettled(s) => r = s \/ r.o \in failed
OneRun == UnsettledIsLive /\ OneUnsettled

LEMMA OneRunImplies == OneRun => OneChild
BY DEF OneRun, OneUnsettled, OneChild, Alive, Unsettled

\* A goroutine r that becomes q: it keeps the state of its object, makes it
\* live, is settled by the step, or its command failed.
LEMMA MoveOne ==
  ASSUME TypeOK, OneRun, NEW r \in runs, NEW q, q.o = r.o, runs' \subseteq (runs \ {r}) \cup {q},
         failed \subseteq failed', Unsettled(q) => Unsettled(r),
         \A p \in Objects : p # r.o => state'[p] = state[p],
         \/ state'[r.o] = state[r.o] \/ state'[r.o] \in Live
         \/ r.o \in failed' \/ (Unsettled(r) /\ ~Unsettled(q))
  PROVE  OneRun'
<1>0. \A s \in runs : s.o \in Objects
  BY RunTypes
<1>1. ASSUME NEW s \in runs', Unsettled(s) PROVE state'[s.o] \in Live \/ s.o \in failed'
  <2>1. CASE s \in runs /\ s # r
    <3>1. state[s.o] \in Live \/ s.o \in failed
      BY <1>1, <2>1 DEF OneRun, UnsettledIsLive
    <3>2. CASE s.o # r.o
      BY <1>0, <2>1, <3>1, <3>2
    <3>3. CASE s.o = r.o
      <4>1. Unsettled(r) => s.o \in failed
        BY <1>1, <2>1, <3>3 DEF OneRun, OneUnsettled
      <4> QED BY <3>1, <3>3, <4>1
    <3> QED BY <3>2, <3>3
  <2>2. CASE s = q
    <3>1. state[r.o] \in Live \/ r.o \in failed
      BY <1>1, <2>2 DEF OneRun, UnsettledIsLive
    <3> QED BY <1>1, <2>2, <3>1
  <2> QED BY <2>1, <2>2
<1>2. ASSUME NEW s \in runs', NEW t \in runs', s.o = t.o, Unsettled(s), Unsettled(t)
      PROVE  s = t \/ s.o \in failed'
  <2>1. CASE s \in runs /\ t \in runs
    BY <1>2, <2>1 DEF OneRun, OneUnsettled
  <2>2. CASE s = q /\ t \in runs /\ t # r
    BY <1>2, <2>2 DEF OneRun, OneUnsettled
  <2>3. CASE t = q /\ s \in runs /\ s # r
    BY <1>2, <2>3 DEF OneRun, OneUnsettled
  <2>4. CASE s = q /\ t = q
    BY <2>4
  <2> QED BY <2>1, <2>2, <2>3, <2>4
<1>3. UnsettledIsLive'
  BY <1>1 DEF UnsettledIsLive, Unsettled
<1>4. OneUnsettled'
  BY <1>2 DEF OneUnsettled, Unsettled
<1> QED BY <1>3, <1>4 DEF OneRun

\* The same for a step that sets the pc of r.
LEMMA SetPcOne ==
  ASSUME TypeOK, OneRun, NEW r \in runs, NEW p, SetPc(r, p), failed \subseteq failed',
         Unsettled([r EXCEPT !.pc = p]) => Unsettled(r),
         \/ state' = state
         \/ \E x \in Live : state' = [state EXCEPT ![r.o] = x]
         \/ (r.o \in failed' \/ (Unsettled(r) /\ ~Unsettled([r EXCEPT !.pc = p])))
              /\ \E x : state' = [state EXCEPT ![r.o] = x]
  PROVE  OneRun'
<1> DEFINE q == [r EXCEPT !.pc = p]
<1>0. state \in [Objects -> States] /\ r \in Runs /\ r.o \in Objects
  BY RunTypes DEF TypeOK
<1>1. q.o = r.o /\ runs' \subseteq (runs \ {r}) \cup {q}
  BY <1>0 DEF SetPc, Runs
<1> HIDE DEF q
<1>2. /\ \A x \in Objects : x # r.o => state'[x] = state[x]
      /\ \/ state'[r.o] = state[r.o] \/ state'[r.o] \in Live
         \/ r.o \in failed' \/ (Unsettled(r) /\ ~Unsettled(q))
  BY <1>0 DEF q
<1> QED BY <1>1, <1>2, MoveOne DEF q

\* What a pc that is set says.
LEMMA PcOf ==
  ASSUME NEW r \in Runs, NEW p
  PROVE  Unsettled([r EXCEPT !.pc = p]) <=> p \in {"begin", "started", "up", "running", "exit", "stopped", "dead"}
BY DEF Runs, Unsettled

LEMMA RunStepOne ==
  ASSUME TypeOK, OneRun, NEW r \in runs, RunStep(r)
  PROVE  OneRun'
<1>0. r \in Runs
  BY RunTypes
<1> USE <1>0, SetPcOne, PcOf DEF Live, Unsettled
<1>1. CASE ExecStart(r)
  <2>1. CASE state[r.o] = "Stopping" /\ SetPc(r, "exit") /\ UNCHANGED <<state, deaths, failed>>
    BY <1>1, <2>1 DEF ExecStart
  <2>2. CASE state' = [state EXCEPT ![r.o] = "Running"] /\ SetPc(r, "up") /\ UNCHANGED <<deaths, failed>>
    BY <1>1, <2>2 DEF ExecStart
  <2>3. CASE state' = [state EXCEPT ![r.o] = "Dead"] /\ SetPc(r, "exit") /\ failed' = failed \cup {r.o}
    BY <1>1, <2>3 DEF ExecStart
  <2> QED BY <1>1, <2>1, <2>2, <2>3 DEF ExecStart
<1>2. CASE ChildStart(r)
  <2>1. state' = state /\ failed' = failed /\ r.pc = "begin" /\ (SetPc(r, "started") \/ SetPc(r, "exit"))
    BY <1>2 DEF ChildStart
  <2>2. CASE SetPc(r, "started")
    BY <2>1, <2>2
  <2>3. CASE SetPc(r, "exit")
    BY <2>1, <2>3
  <2> QED BY <2>1, <2>2, <2>3
<1>3. CASE ChildRunning(r)
  <2>1. CASE state[r.o] = "Stopping"
    <3> DEFINE q == [r EXCEPT !.pc = "running", !.term = TRUE]
    <3>1. q.o = r.o /\ runs' \subseteq (runs \ {r}) \cup {q} /\ Unsettled(r) /\ state' = state /\ failed' = failed
      BY <1>3, <2>1 DEF ChildRunning, Runs
    <3> HIDE DEF q
    <3> QED BY <3>1, MoveOne
  <2>2. CASE state[r.o] # "Stopping"
    BY <1>3, <2>2 DEF ChildRunning
  <2> QED BY <2>1, <2>2
<1>4. CASE SessionStart(r)
  BY <1>4 DEF SessionStart
<1>5. CASE SendUp(r)
  BY <1>5 DEF SendUp
<1>6. CASE Exit(r)
  BY <1>6 DEF Exit
<1>7. CASE ReadState(r)
  <2>1. CASE SetPc(r, "stopped")
    BY <1>7, <2>1 DEF ReadState
  <2>2. CASE SetPc(r, "dead")
    BY <1>7, <2>2 DEF ReadState
  <2> QED BY <1>7, <2>1, <2>2 DEF ReadState
<1>8. CASE SetState(r)
  BY <1>8 DEF SetState
<1>9. CASE SendDown(r) \/ Finish(r)
  <2>1. CASE runs' = runs \ {r}
    <3>1. state' = state /\ failed' = failed /\ runs' \subseteq (runs \ {r}) \cup {r}
      BY <1>9, <2>1 DEF SendDown, Finish
    <3> QED BY <3>1, MoveOne
  <2>2. CASE SetPc(r, "done")
    BY <1>9, <2>2 DEF SendDown, Finish
  <2> QED BY <1>9, <2>1, <2>2 DEF SendDown, Finish
<1> QED BY <1>1, <1>2, <1>3, <1>4, <1>5, <1>6, <1>7, <1>8, <1>9 DEF RunStep

LEMMA StartOne ==
  ASSUME TypeOK, OneRun, NEW o \in Objects, StartProc(o), failed' = failed
  PROVE  OneRun'
<1>1. CASE state[o] \notin {"Created", "Stopped", "Dead"}
  BY <1>1 DEF StartProc, OneRun, UnsettledIsLive, OneUnsettled
<1>2. CASE state[o] \in {"Created", "Stopped", "Dead"}
  <2> DEFINE n == NewRun(o)
  <2>1. state' = [state EXCEPT ![o] = "Starting"] /\ runs' = runs \cup {n} /\ n.o = o
    BY <1>2 DEF StartProc, NewRun
  <2> HIDE DEF n
  <2>2. state'[o] \in Live /\ \A p \in Objects : p # o => state'[p] = state[p]
    BY <2>1 DEF TypeOK, Live
  <2>3. \A r \in runs : r.o = o /\ Unsettled(r) => o \in failed
    BY <1>2 DEF OneRun, UnsettledIsLive, Live
  <2>4. \A r \in runs : r.o \in Objects
    BY RunTypes
  <2>5. UnsettledIsLive'
    BY <2>1, <2>2, <2>4 DEF OneRun, UnsettledIsLive, Unsettled
  <2>6. OneUnsettled'
    BY <2>1, <2>3 DEF OneRun, OneUnsettled, Unsettled
  <2> QED BY <2>5, <2>6 DEF OneRun
<1> QED BY <1>1, <1>2

LEMMA StopOne ==
  ASSUME TypeOK, OneRun, NEW o \in Objects, StopProc(o), failed' = failed
  PROVE  OneRun'
<1>1. CASE ~Stoppable(o)
  BY <1>1 DEF StopProc, OneRun, UnsettledIsLive, OneUnsettled
<1>2. CASE Stoppable(o)
  <2>1. state' = [state EXCEPT ![o] = "Stopping"] /\ Terminate(o)
    BY <1>2 DEF StopProc
  <2>2. state'[o] \in Live /\ \A p \in Objects : p # o => state'[p] = state[p]
    BY <2>1 DEF TypeOK, Live
  <2> DEFINE f(r) == IF r.o = o /\ Latest(r) THEN [r EXCEPT !.term = TRUE] ELSE r
  <2>3. runs' = runs \/ runs' = {f(r) : r \in runs}
    BY <2>1 DEF Terminate
  <2>4. \A r \in runs : f(r).o = r.o /\ f(r).pc = r.pc /\ r.o \in Objects
    BY RunTypes DEF Runs
  <2> HIDE DEF f
  <2>5. CASE runs' = runs
    <3>1. UnsettledIsLive'
      BY <2>2, <2>4, <2>5 DEF OneRun, UnsettledIsLive
    <3> QED BY <2>5, <3>1 DEF OneRun, OneUnsettled
  <2>6. CASE runs' = {f(r) : r \in runs}
    <3>1. \A s \in runs' : \E r \in runs : s = f(r) /\ s.o = r.o /\ s.pc = r.pc
      BY <2>4, <2>6
    <3>2. UnsettledIsLive'
      <4> SUFFICES ASSUME NEW s \in runs', Unsettled(s) PROVE state'[s.o] \in Live \/ s.o \in failed
        BY DEF UnsettledIsLive, Unsettled
      <4>1. PICK r \in runs : s.o = r.o /\ s.pc = r.pc
        BY <3>1
      <4>2. state[r.o] \in Live \/ r.o \in failed
        BY <4>1 DEF OneRun, UnsettledIsLive, Unsettled
      <4> QED BY <2>2, <2>4, <4>1, <4>2
    <3>3. OneUnsettled'
      <4> SUFFICES ASSUME NEW s \in runs', NEW t \in runs', s.o = t.o, Unsettled(s), Unsettled(t)
                   PROVE  s = t \/ s.o \in failed
        BY DEF OneUnsettled, Unsettled
      <4>1. PICK x \in runs : s = f(x) /\ s.o = x.o /\ s.pc = x.pc
        BY <3>1
      <4>2. PICK y \in runs : t = f(y) /\ t.o = y.o /\ t.pc = y.pc
        BY <3>1
      <4>3. x = y \/ x.o \in failed
        BY <4>1, <4>2 DEF OneRun, OneUnsettled, Unsettled
      <4> QED BY <4>1, <4>2, <4>3
    <3> QED BY <3>2, <3>3 DEF OneRun
  <2> QED BY <2>3, <2>5, <2>6
<1> QED BY <1>1, <1>2

\* No Start doubles a live command or session of a process object: not the
\* apply's, nor the restart's, nor one by a condition (process_manager.go).
THEOREM OneChildAlways == Spec => []OneChild
<1>1. Init => OneRun
  BY Zenon DEF Init, OneRun, UnsettledIsLive, OneUnsettled
<1>2. TypeOK /\ OneRun /\ [Next]_vars => OneRun'
  <2> SUFFICES ASSUME TypeOK, OneRun, [Next]_vars PROVE OneRun'
    OBVIOUS
  <2>0. UNCHANGED <<state, runs, failed>> => OneRun'
    BY DEF OneRun, UnsettledIsLive, OneUnsettled
  <2>1. ASSUME NEW r \in runs, RunStep(r) PROVE OneRun'
    BY <2>1, RunStepOne
  <2>2. CASE PluginStep
    BY <2>0, <2>2 DEF PluginStep, procVars
  <2>3. CASE Receive \/ reconcileWaiting \/ handleProcessDown \/ evalActions \/ Scan
    BY <2>0, <2>3 DEF Receive, reconcileWaiting, handleProcessDown, evalActions, Scan, procVars
  <2>4. CASE Restart
    <3>1. StartProc(loop.o) /\ failed' = failed /\ loop.pc = "restart"
      BY <2>4 DEF Restart
    <3>2. loop.o \in Objects
      BY <3>1 DEF TypeOK
    <3> QED BY <3>1, <3>2, StartOne
  <2>5. CASE Decide
    <3>1. loop.o \in Objects /\ failed' = failed
      BY <2>5 DEF TypeOK, Decide
    <3>2. StartProc(loop.o) \/ StopProc(loop.o) \/ UNCHANGED <<state, runs>>
      BY <2>5 DEF Decide
    <3> QED BY <2>0, <3>1, <3>2, StartOne, StopOne
  <2>6. CASE ApplyBegin \/ StopWaited \/ ClearProcesses \/ createProcesses
    BY <2>0, <2>6 DEF ApplyBegin, StopWaited, ClearProcesses, createProcesses, procVars
  <2>7. CASE stopAllProcesses
    <3>1. Here \in Objects /\ failed' = failed
      BY <2>7, HereTypes DEF stopAllProcesses
    <3>2. StopProc(Here) \/ UNCHANGED <<state, runs>>
      BY <2>7 DEF stopAllProcesses
    <3> QED BY <2>0, <3>1, <3>2, StopOne
  <2>8. CASE StartProcesses
    <3>1. Here \in Objects /\ failed' = failed
      BY <2>8, HereTypes DEF StartProcesses
    <3>2. StartProc(Here) \/ UNCHANGED <<state, runs>>
      BY <2>8 DEF StartProcesses
    <3> QED BY <2>0, <3>1, <3>2, StartOne
  <2>9. CASE UNCHANGED vars
    BY <2>0, <2>9 DEF vars, procVars
  <2> QED BY <2>1, <2>2, <2>3, <2>4, <2>5, <2>6, <2>7, <2>8, <2>9 DEF Next, ApplyStep, LoopStep
<1>3. Spec => []OneRun
  BY <1>1, <1>2, TypeCorrect, PTL DEF Spec
<1> QED BY <1>3, OneRunImplies, PTL
=============================================================================
