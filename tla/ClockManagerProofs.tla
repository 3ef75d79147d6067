------------------------- MODULE ClockManagerProofs -------------------------
(***************************************************************************)
(* Proofs about ClockManager, for every set of configs, interfaces and     *)
(* classes and every capacity of the two channels.                         *)
(***************************************************************************)
EXTENDS ClockManager, TLAPS

-----------------------------------------------------------------------------
(* The states and the clock object.                                        *)

\* The combination of two states that are no Go zero value is one of them.
LEMMA WorstOfStateType ==
  ASSUME NEW s \in BCStates, NEW t \in BCStates
  PROVE  /\ WorstOfState(s, t) \in BCStates
         /\ WorstOfState(s, t) = NOTSET <=> NOTSET \in {s, t}
BY DEF WorstOfState, BCStates, NOTSET, FREERUN, HOLDOVER, LOCKED

\* Every state has a rendering in an IPC message.
LEMMA IPCType ==
  ASSUME NEW s \in BCStates
  PROVE  PtpStateToIPCState(s) \in IPCStates
BY DEF PtpStateToIPCState, IPCStates, FREERUN, HOLDOVER, LOCKED

\* Canceling leaves no timer armed and the generation no lower.
LEMMA CancelFacts ==
  ASSUME NEW b \in BC
  PROVE  LET d == cancelHoldoverTimer(b) IN
         /\ d \in BC /\ ~d.armed /\ d.gen >= b.gen /\ d.syncState = b.syncState
<1>1. CASE b.armed
  <2> DEFINE d == cancelHoldoverTimer(b)
  <2>1. d = [b EXCEPT !.armed = FALSE, !.gen = b.gen + 1]
    BY <1>1 DEF cancelHoldoverTimer
  <2>2. b.gen \in Nat /\ b.gen + 1 \in Nat
    BY DEF BC
  <2>3. d \in BC
    BY <2>1, <2>2 DEF BC
  <2>4. d.armed = FALSE /\ d.gen = b.gen + 1 /\ d.syncState = b.syncState
    BY <2>1 DEF BC
  <2> QED BY <2>2, <2>3, <2>4
<1>2. CASE ~b.armed
  BY <1>2 DEF cancelHoldoverTimer, BC
<1> QED BY <1>1, <1>2

\* Arming leaves a timer of a new generation.
LEMMA ArmFacts ==
  ASSUME NEW b \in BC
  PROVE  LET d == armHoldoverTimer(b) IN
         /\ d \in BC /\ d.armed /\ d.gen > b.gen /\ d.syncState = b.syncState
<1> SUFFICES ASSUME NEW k, k = cancelHoldoverTimer(b), NEW d, d = armHoldoverTimer(b)
             PROVE  d \in BC /\ d.armed /\ d.gen > b.gen /\ d.syncState = b.syncState
  OBVIOUS
<1>1. k \in BC /\ k.gen >= b.gen /\ k.syncState = b.syncState
  BY CancelFacts
<1>2. d = [k EXCEPT !.armed = TRUE, !.gen = k.gen + 1]
  BY DEF armHoldoverTimer
<1>3. b.gen \in Nat /\ k.gen \in Nat /\ k.gen + 1 \in Nat
  BY <1>1 DEF BC
<1>4. d \in BC
  BY <1>1, <1>2, <1>3 DEF BC
<1>5. d.armed = TRUE /\ d.gen = k.gen + 1 /\ d.syncState = k.syncState
  BY <1>1, <1>2 DEF BC
<1> QED BY <1>1, <1>3, <1>4, <1>5

\* The timer rules of a boundary clock b that event e turns into d (bc.go): the
\* generation never falls; a clock that enters HOLDOVER arms a timer of a new
\* generation, and arms one only then; a clock that stays in HOLDOVER keeps its
\* timer and was not handed its expiry; an expiry ends a HOLDOVER only with the
\* clock's generation.
TimerRules(b, e, d) ==
  /\ d.gen >= b.gen
  /\ d.syncState = HOLDOVER /\ b.syncState # HOLDOVER => d.armed /\ d.gen > b.gen
  /\ d.syncState = HOLDOVER /\ b.syncState = HOLDOVER =>
       /\ d.armed = b.armed /\ d.gen = b.gen
       /\ ~ (e.kind = "expired" /\ e.gen = b.gen)
  /\ d.armed /\ d.gen # b.gen => b.syncState # HOLDOVER /\ d.syncState = HOLDOVER
  /\ e.kind = "expired" /\ b.syncState = HOLDOVER /\ d.syncState = FREERUN
       => e.gen = b.gen

\* Every event leaves the object well formed and follows the timer rules.
LEMMA AddEventFacts ==
  ASSUME NEW b \in BC, NEW e \in Events, NEW s \in BCStates
  PROVE  AddEvent(b, e, s) \in BC /\ TimerRules(b, e, AddEvent(b, e, s))
<1> SUFFICES ASSUME NEW d, d = AddEvent(b, e, s)
             PROVE  d \in BC /\ TimerRules(b, e, d)
  OBVIOUS
<1> USE DEF BC, BCStates, Events, NOTSET, FREERUN, HOLDOVER, LOCKED
<1>1. CASE e.kind = "pmc"
  <2>1. d = [b EXCEPT !.clockClass = e.val]
    BY <1>1 DEF AddEvent, Reconciles
  <2>2. e.val \in ClassOrNone
    BY <1>1 DEF ClassOrNone
  <2> QED BY <1>1, <2>1, <2>2 DEF TimerRules
<1>2. CASE e.kind = "expired"
  <2> DEFINE h == handleHoldoverExpired(b, e.gen)
  <2>1. h \in BC /\ h.gen = b.gen
    BY DEF handleHoldoverExpired
  <2>2. d = IF Reconciles(b, e) THEN [h EXCEPT !.overall = WorstOfState(h.syncState, s)] ELSE h
    BY <1>2 DEF AddEvent
  <2>3. WorstOfState(h.syncState, s) \in BCStates
    BY <2>1, WorstOfStateType
  <2>4. d \in BC /\ d.gen = h.gen /\ d.syncState = h.syncState /\ d.armed = h.armed
    BY <2>1, <2>2, <2>3
  <2>5. CASE b.syncState # HOLDOVER \/ e.gen # b.gen
    <3>1. h = b
      BY <2>5 DEF handleHoldoverExpired
    <3> QED BY <1>2, <2>4, <2>5, <3>1 DEF TimerRules
  <2>6. CASE b.syncState = HOLDOVER /\ e.gen = b.gen
    <3>1. h.syncState = FREERUN /\ ~h.armed
      BY <2>6 DEF handleHoldoverExpired
    <3> QED BY <1>2, <2>1, <2>4, <2>6, <3>1 DEF TimerRules
  <2> QED BY <2>5, <2>6
<1>3. CASE e.kind = "lost"
  <2> DEFINE h == sourceLost(b)
  <2>1. h \in BC
    BY ArmFacts DEF sourceLost
  <2>2. d = [h EXCEPT !.overall = WorstOfState(h.syncState, s)]
    BY <1>3 DEF AddEvent, Reconciles
  <2>3. WorstOfState(h.syncState, s) \in BCStates
    BY <2>1, WorstOfStateType
  <2>4. d \in BC /\ d.gen = h.gen /\ d.syncState = h.syncState /\ d.armed = h.armed
    BY <2>1, <2>2, <2>3
  <2>5. CASE b.syncState = LOCKED
    <3>1. h.syncState = HOLDOVER /\ h.armed /\ h.gen > b.gen
      BY <2>5, ArmFacts DEF sourceLost
    <3> QED BY <1>3, <2>4, <2>5, <3>1 DEF TimerRules
  <2>6. CASE b.syncState # LOCKED
    <3>1. h = b
      BY <2>6 DEF sourceLost
    <3> QED BY <1>3, <2>4, <2>6, <3>1 DEF TimerRules
  <2> QED BY <2>5, <2>6
<1>4. CASE e.kind = "offset"
  <2> DEFINE h == offsetSample(b, e)
  <2>a. withIFace(b, e) \in BC /\ withIFace(b, e).gen = b.gen
    BY DEF withIFace
  <2>1. /\ h \in BC /\ h.gen >= b.gen /\ ~h.armed
        /\ h.syncState \in {LOCKED, FREERUN}
    BY <2>a, CancelFacts DEF offsetSample
  <2>2. d = [h EXCEPT !.overall = WorstOfState(h.syncState, s)]
    BY <1>4 DEF AddEvent, Reconciles
  <2>3. WorstOfState(h.syncState, s) \in BCStates
    BY <2>1, WorstOfStateType
  <2>4. d \in BC /\ d.gen = h.gen /\ d.syncState = h.syncState /\ d.armed = h.armed
    BY <2>1, <2>2, <2>3
  <2> QED BY <1>4, <2>1, <2>4 DEF TimerRules
<1>5. CASE e.kind \notin {"pmc", "expired", "lost", "offset"}
  <2>1. d = [b EXCEPT !.iface = e.iface]
    BY <1>5 DEF AddEvent, Reconciles, withIFace
  <2> QED BY <1>5, <2>1 DEF TimerRules
<1> QED BY <1>1, <1>2, <1>3, <1>4, <1>5

\* E1 of clocks whose states are in BCStates is one of them.
LEMMA WorstClockStateType ==
  ASSUME NEW cs \in SUBSET Cfg, NEW b \in [Cfg -> BC]
  PROVE  worstClockState(cs, b) \in BCStates
<1> DEFINE f == [c \in cs |-> b[c].syncState]
           real == {x \in cs : f[x] \notin {NOTSET, UNKNOWN}}
<1>1. \A x \in cs : f[x] \in BCStates
  BY DEF BC
<1>2. worstClockState(cs, b) = WorstOfPtpStates(f) /\ DOMAIN f = cs
  BY DEF worstClockState
<1>3. real # {} => f[CHOOSE x \in real : TRUE] \in BCStates
  BY <1>1
<1> QED BY <1>2, <1>3 DEF WorstOfPtpStates, BCStates, NOTSET, FREERUN, HOLDOVER, LOCKED

\* The OS clock keeps a state; E3 is a state or NOTSET.
OSTypes == [state : BCStates \ {NOTSET}, e3 : BCStates]
StoreTypes == [ptp : [Cfg -> [IFaceOrNone -> Entries]], sync : [Cfg -> Entries],
               class : [Cfg -> [IFaceOrNone -> Class \cup {NoEntry}]], os : Entries]

\* emitOSClockState changes E3 only, and to a state.
LEMMA E3AfterType ==
  ASSUME NEW cs \in SUBSET Cfg, NEW b \in [Cfg -> BC], NEW o \in OSTypes
  PROVE  E3After(cs, b, o) \in OSTypes /\ E3After(cs, b, o).state = o.state
<1>1. o.state \in BCStates
  BY DEF OSTypes
<1>2. DerivedE3(cs, b, o.state) \in BCStates
  BY <1>1, WorstClockStateType, WorstOfStateType DEF DerivedE3
<1> QED BY <1>2 DEF E3After, OSTypes

\* What emitOSClockState leaves in the cache is well formed.
LEMMA EmitE3Type ==
  ASSUME NEW st \in StoreTypes, NEW o \in OSTypes, NEW p \in OSTypes
  PROVE  EmitE3(st, o, p) \in StoreTypes
<1>1. PtpStateToIPCState(p.e3) \in Entries
  BY IPCType DEF OSTypes, Entries
<1> QED BY <1>1 DEF EmitE3, StoreTypes

\* What a clock leaves in the cache is well formed.
LEMMA PublishType ==
  ASSUME NEW st \in StoreTypes, NEW c \in Cfg, NEW e \in Events, NEW b \in BC, NEW d \in BC
  PROVE  Publish(st, c, e, b, d) \in StoreTypes
<1>1. /\ portOf(b, e) \in IFaceOrNone /\ d.iface \in IFaceOrNone
      /\ d.clockClass \in Class \cup {NoClass}
  BY DEF portOf, BC, Events, ClassOrNone
<1>2. /\ \A x \in Entries : PortEntry(x, b, d) \in Entries
      /\ \A x \in Entries : OverallEntry(x, b, d) \in Entries
  BY IPCType DEF PortEntry, OverallEntry, Entries, BC
<1>3. \A x \in Class \cup {NoEntry} : ClassEntry(x, b, d) \in Class \cup {NoEntry}
  BY <1>1 DEF ClassEntry
<1> DEFINE port == [st.ptp EXCEPT ![c][portOf(b, e)] = PortEntry(@, b, d)]
           overall == [st.sync EXCEPT ![c] = OverallEntry(@, b, d)]
           class == [st.class EXCEPT ![c][d.iface] = ClassEntry(@, b, d)]
<1>4. port \in [Cfg -> [IFaceOrNone -> Entries]]
  BY <1>1, <1>2 DEF StoreTypes
<1>5. overall \in [Cfg -> Entries]
  BY <1>2 DEF StoreTypes
<1>6. class \in [Cfg -> [IFaceOrNone -> Class \cup {NoEntry}]]
  BY <1>1, <1>3 DEF StoreTypes
<1>7. Publish(st, c, e, b, d) = [st EXCEPT !.ptp = port, !.sync = overall, !.class = class]
  BY DEF Publish, StoreTypes
<1> QED BY <1>4, <1>5, <1>6, <1>7 DEF StoreTypes

\* The goroutines stay well formed.
LEMMA TimersAfterType ==
  ASSUME timers \in SUBSET Timers, NEW c \in Cfg, inst \in [Cfg -> Nat],
         NEW b, NEW d \in BC, NEW nth \in Nat
  PROVE  TimersAfter(c, b, d, nth) \in SUBSET Timers
<1> DEFINE Owned(t) == t.cfg = c /\ t.inst = inst[c] /\ t.gen = b.gen
           Kept(t) == [t EXCEPT !.canceled = @ \/ (b.armed /\ d.gen # b.gen /\ Owned(t))]
           new == [cfg |-> c, inst |-> inst[c], gen |-> d.gen, nth |-> nth,
                   canceled |-> FALSE, fired |-> FALSE]
<1>1. \A t \in timers : Kept(t) \in Timers
  BY DEF Timers
<1>2. new \in Timers
  BY DEF Timers, BC
<1>3. TimersAfter(c, b, d, nth) \subseteq {Kept(t) : t \in timers} \cup {new}
  BY DEF TimersAfter
<1> QED BY <1>1, <1>2, <1>3

\* Taking the first event of the channel.
LEMMA TakeFacts ==
  ASSUME TypeOK, Take
  PROVE  /\ Head(events) \in Events
         /\ events' \in Seq(Events) /\ Len(events') <= Cap
BY CMAssumption DEF TypeOK, Take

-----------------------------------------------------------------------------
(* Type correctness.                                                       *)

\* A non-blocking send keeps eventsIn within its capacity.
LEMMA PostFacts ==
  ASSUME TypeOK, NEW e \in Events, Post(e)
  PROVE  eventsIn' \in Seq(Events) /\ Len(eventsIn') <= InCap
BY CMAssumption DEF TypeOK, Post

\* Ev builds events.
LEMMA EvType ==
  ASSUME NEW k \in Kinds, NEW c \in Cfg, NEW i \in IFaceOrNone, NEW v \in Values,
         NEW g \in Nat, NEW n \in Nat, NEW h \in Nat,
         k = "pmc" => v \in Class, k = "os" => v \in BCStates
  PROVE  Ev(k, c, i, v, g, n, h) \in Events
BY DEF Ev, Events

\* An event processed by the loop leaves the state well formed.
LEMMA ProcessEventType == TypeOK /\ ProcessEvent => TypeOK'
<1> SUFFICES ASSUME TypeOK, ProcessEvent PROVE TypeOK'
  OBVIOUS
<1> DEFINE e == Head(events)
<1>t. /\ os \in OSTypes /\ store \in StoreTypes /\ bc \in [Cfg -> BC]
      /\ clocks \in SUBSET Cfg /\ timers \in SUBSET Timers /\ inst \in [Cfg -> Nat]
      /\ holdovers \in [Cfg -> Nat] /\ syncStatus \in BOOLEAN
  BY DEF TypeOK, OSTypes, StoreTypes
<1>0. Take /\ e \in Events /\ e.cfg \in Cfg
  <2>1. Take
    BY DEF ProcessEvent, ProcessReset, ProcessOSClock, ProcessUnregistered, ProcessClockEvent
  <2> QED BY <2>1, TakeFacts DEF Events
<1>e. events' \in Seq(Events) /\ Len(events') <= Cap
  BY <1>0, TakeFacts
<1>n. NewOsClock \in OSTypes
  BY DEF NewOsClock, OSTypes, BCStates, NOTSET, FREERUN
<1>1. CASE ProcessReset
  <2>1. resetBC(bc[e.cfg]) \in BC
    <3>1. bc[e.cfg] \in BC
      BY <1>t, <1>0
    <3>2. cancelHoldoverTimer(bc[e.cfg]).gen \in Nat
      BY <3>1, CancelFacts DEF BC
    <3> QED BY <3>2 DEF resetBC, NewBC, BC, BCStates, NOTSET, FREERUN, IFaceOrNone, ClassOrNone
  <2>2. EmptyStore \in StoreTypes
    BY DEF EmptyStore, StoreTypes, Entries
  <2>3. bc' \in [Cfg -> BC]
    BY <1>t, <1>0, <1>1, <2>1 DEF ProcessReset
  <2>4. timers' \in SUBSET Timers
    BY <1>t, <1>0, <1>1, <2>1, TimersAfterType DEF ProcessReset
  <2>5. os' \in OSTypes
    BY <1>t, <1>1, <1>n DEF ProcessReset, OSTypes, BCStates, NOTSET
  <2>6. store' \in StoreTypes
    BY <1>1, <2>2 DEF ProcessReset
  <2>7. UNCHANGED <<clocks, syncStatus, holdovers, eventsIn, slaveIface, masterSrc,
                    portUp, apply, applies, inst, proc>>
    BY <1>1 DEF ProcessReset, logVars, applyVars
  <2> QED BY <1>e, <2>3, <2>4, <2>5, <2>6, <2>7 DEF TypeOK, OSTypes, StoreTypes
<1>2. CASE ProcessOSClock
  <2> DEFINE o == IF e.val = NOTSET THEN os ELSE [os EXCEPT !.state = e.val]
             p == E3After(clocks, bc, o)
             Update(b) == [b EXCEPT !.overall = WorstOfState(b.syncState, p.state)]
  <2>0. e.kind = "os" /\ e.val \in BCStates
    BY <1>0, <1>2 DEF ProcessOSClock, Events
  <2>1. o \in OSTypes
    BY <1>t, <2>0 DEF OSTypes
  <2>2. p \in OSTypes /\ p.state \in BCStates
    BY <1>t, <2>1, E3AfterType DEF OSTypes
  <2>3. \A c \in Cfg : Update(bc[c]) \in BC
    BY <1>t, <2>2, WorstOfStateType DEF BC
  <2>4. os' = p
    BY <1>2 DEF ProcessOSClock
  <2>b. \/ bc' = bc
        \/ bc' = [c \in Cfg |-> IF c \in clocks THEN Update(bc[c]) ELSE bc[c]]
    BY <1>2 DEF ProcessOSClock
  <2>s. syncStatus' = syncStatus \/ syncStatus' = TRUE
    BY <1>2 DEF ProcessOSClock
  <2>5. bc' \in [Cfg -> BC] /\ syncStatus' \in BOOLEAN
    BY <1>t, <2>3, <2>b, <2>s
  <2>6. EmitE3(store, o, p) \in StoreTypes
    BY <1>t, <2>1, <2>2, EmitE3Type
  <2>7. \A c \in Cfg : \A x \in Entries : OverallEntry(x, bc[c], bc'[c]) \in Entries
    BY <2>5, IPCType DEF OverallEntry, Entries, BC
  <2>8. store' \in StoreTypes
    <3> DEFINE st == EmitE3(store, o, p)
    <3>1. \/ store' = st
          \/ store' = [st EXCEPT !.sync = [c \in Cfg |-> OverallEntry(st.sync[c], bc[c], bc'[c])]]
      BY <1>2, <2>6 DEF ProcessOSClock, StoreTypes
    <3>2. st \in StoreTypes
      BY <2>6
    <3> HIDE DEF st
    <3>3. [c \in Cfg |-> OverallEntry(st.sync[c], bc[c], bc'[c])] \in [Cfg -> Entries]
      BY <2>7, <3>2 DEF StoreTypes
    <3> QED BY <3>1, <3>2, <3>3 DEF StoreTypes
  <2>9. UNCHANGED <<clocks, timers, holdovers, eventsIn, slaveIface, masterSrc,
                    portUp, apply, applies, inst, proc>>
    BY <1>2 DEF ProcessOSClock, logVars, applyVars
  <2> QED BY <1>e, <2>2, <2>4, <2>5, <2>8, <2>9 DEF TypeOK, OSTypes, StoreTypes
<1>3. CASE ProcessUnregistered
  BY <1>e, <1>3 DEF ProcessUnregistered, TypeOK, clockVars, logVars, applyVars
<1>4. CASE ProcessClockEvent
  <2> DEFINE c == e.cfg
             d == AddEvent(bc[c], e, os.state)
             p == E3After(clocks, [bc EXCEPT ![c] = d], os)
  <2>0. bc[c] \in BC /\ os.state \in BCStates
    BY <1>t, <1>0 DEF OSTypes
  <2>1. d \in BC
    BY <1>0, <2>0, AddEventFacts
  <2>2. bc' = [bc EXCEPT ![c] = d] /\ bc' \in [Cfg -> BC]
    BY <1>t, <1>4, <2>1 DEF ProcessClockEvent
  <2>3. holdovers' \in [Cfg -> Nat]
    BY <1>t, <1>4 DEF ProcessClockEvent
  <2>4. timers' \in SUBSET Timers
    <3>1. timers' = TimersAfter(c, bc[c], d, holdovers'[c])
      BY <1>4 DEF ProcessClockEvent
    <3>2. holdovers'[c] \in Nat
      BY <1>0, <2>3
    <3> QED BY <1>t, <1>0, <2>1, <3>1, <3>2, TimersAfterType
  <2>5. p \in OSTypes /\ os' = p
    BY <1>t, <1>4, <2>2, E3AfterType DEF ProcessClockEvent
  <2>6. store' \in StoreTypes
    <3>1. store' = EmitE3(Publish(store, c, e, bc[c], d), os, p)
      BY <1>4 DEF ProcessClockEvent
    <3> QED BY <1>t, <1>0, <2>0, <2>1, <2>5, <3>1, PublishType, EmitE3Type
  <2>7. syncStatus' \in BOOLEAN
    BY <1>t, <1>4 DEF ProcessClockEvent
  <2>8. UNCHANGED <<clocks, eventsIn, slaveIface, masterSrc, portUp, apply, applies, inst, proc>>
    BY <1>4 DEF ProcessClockEvent, logVars, applyVars
  <2> QED BY <1>e, <2>2, <2>3, <2>4, <2>5, <2>6, <2>7, <2>8 DEF TypeOK, OSTypes, StoreTypes
<1> QED BY <1>1, <1>2, <1>3, <1>4 DEF ProcessEvent

\* A step of a timer leaves the state well formed.
LEMMA TimerType == \A c \in Cfg : TypeOK /\ Timer(c) => TypeOK'
<1> SUFFICES ASSUME TypeOK, NEW c \in Cfg, Timer(c) PROVE TypeOK'
  OBVIOUS
<1>1. CASE TimerFires(c)
  <2>1. PICK t \in timers : timers' = (timers \ {t}) \cup {[t EXCEPT !.fired = TRUE]}
    BY <1>1 DEF TimerFires
  <2>2. timers' \in SUBSET Timers
    BY <2>1 DEF TypeOK, Timers
  <2>3. UNCHANGED <<clocks, bc, os, store, syncStatus, holdovers, eventsIn, events,
                    slaveIface, masterSrc, portUp, apply, applies, inst, proc>>
    BY <1>1 DEF TimerFires, logVars, applyVars
  <2> QED BY <2>2, <2>3 DEF TypeOK
<1>2. CASE TimerCanceled(c)
  BY <1>2 DEF TimerCanceled, TypeOK, logVars, applyVars
<1>3. CASE TimerPosts(c)
  <2>1. PICK t \in timers : /\ Len(events) < Cap /\ events' = Append(events, Expiry(t))
                            /\ timers' = timers \ {t}
    BY <1>3 DEF TimerPosts
  <2>2. Expiry(t) \in Events
    <3>1. t.cfg \in Cfg /\ t.gen \in Nat /\ t.inst \in Nat /\ t.nth \in Nat
      BY DEF TypeOK, Timers
    <3>2. "expired" \in Kinds /\ NoIFace \in IFaceOrNone /\ "none" \in Values
      BY DEF Kinds, IFaceOrNone, Values
    <3> QED BY <3>1, <3>2, EvType DEF Expiry
  <2>3. events' \in Seq(Events) /\ Len(events') <= Cap
    BY <2>1, <2>2, CMAssumption DEF TypeOK
  <2>4. UNCHANGED <<clocks, bc, os, store, syncStatus, holdovers, eventsIn,
                    slaveIface, masterSrc, portUp, apply, applies, inst, proc>>
    BY <1>3 DEF TimerPosts, logVars, applyVars
  <2> QED BY <2>1, <2>3, <2>4 DEF TypeOK
<1> QED BY <1>1, <1>2, <1>3 DEF Timer

\* An input leaves the state well formed.
LEMMA InputType == \A c \in Cfg : TypeOK /\ Input(c) => TypeOK'
<1> SUFFICES ASSUME TypeOK, NEW c \in Cfg, Input(c) PROVE TypeOK'
  OBVIOUS
<1> USE DEF logVars, applyVars, clockVars
<1>0. /\ Kinds = {"offset", "lost", "synce", "pmc", "os", "reset", "expired"}
      /\ {"in", "out", "none"} \subseteq Values /\ Class \subseteq Values
      /\ BCStates \subseteq Values /\ proc[c] \in Nat /\ NoIFace \in IFaceOrNone
      /\ IFace \subseteq IFaceOrNone /\ slaveIface[c] \in IFaceOrNone
  BY DEF Kinds, Values, TypeOK, IFaceOrNone
<1>1. ASSUME NEW i \in IFace, PortSlave(c, i) PROVE TypeOK'
  BY <1>0, <1>1 DEF PortSlave, TypeOK
<1>2. CASE PortLost(c)
  <2>1. Ev("lost", c, slaveIface[c], "none", 0, proc[c], 0) \in Events
    BY <1>0, EvType
  <2>2. eventsIn' \in Seq(Events) /\ Len(eventsIn') <= InCap
    BY <1>2, <2>1, PostFacts DEF PortLost, TypeOK
  <2>3. slaveIface' \in [Cfg -> IFaceOrNone] /\ portUp' \in [Cfg -> BOOLEAN]
    <3>1. \/ slaveIface' = slaveIface
          \/ slaveIface' = [slaveIface EXCEPT ![c] = NoIFace]
      BY <1>2 DEF PortLost
    <3>2. portUp' = [portUp EXCEPT ![c] = FALSE]
      BY <1>2 DEF PortLost
    <3>3. slaveIface \in [Cfg -> IFaceOrNone] /\ portUp \in [Cfg -> BOOLEAN]
      BY DEF TypeOK
    <3>4. slaveIface' \in [Cfg -> IFaceOrNone]
      BY <1>0, <3>1, <3>3
    <3>5. portUp' \in [Cfg -> BOOLEAN]
      BY <3>2, <3>3
    <3> QED BY <3>4, <3>5
  <2>4. UNCHANGED <<clocks, bc, os, store, timers, syncStatus, holdovers, events, masterSrc,
                    apply, applies, inst, proc>>
    BY <1>2 DEF PortLost
  <2> QED BY <2>2, <2>3, <2>4 DEF TypeOK
<1>3. ASSUME NEW r \in {"in", "out"}, OffsetLine(c, r) PROVE TypeOK'
  <2>1. Ev("offset", c, slaveIface[c], r, 0, proc[c], 0) \in Events
    BY <1>0, EvType
  <2>2. eventsIn' \in Seq(Events) /\ Len(eventsIn') <= InCap
    BY <1>3, <2>1, PostFacts DEF OffsetLine, TypeOK
  <2> QED BY <1>3, <2>2 DEF OffsetLine, TypeOK
<1>4. CASE OtherEvent(c)
  <2>1. \A i \in IFace : Ev("synce", c, i, "none", 0, proc[c], 0) \in Events
    BY <1>0, EvType
  <2>2. \A k \in Class : Ev("pmc", c, NoIFace, k, 0, proc[c], 0) \in Events
    BY <1>0, EvType
  <2>4. Ev("reset", c, NoIFace, "none", 0, proc[c], 0) \in Events
    BY <1>0, EvType
  <2>5. \E e \in Events : Post(e)
    BY <1>4, <2>1, <2>2, <2>4 DEF OtherEvent
  <2>6. eventsIn' \in Seq(Events) /\ Len(eventsIn') <= InCap
    BY <2>5, PostFacts
  <2> QED BY <1>4, <2>6 DEF OtherEvent, TypeOK
<1>5. CASE OsClockLine(c)
  <2>1. \A s \in BCStates : Ev("os", c, NoIFace, s, 0, proc[c], 0) \in Events
    BY <1>0, EvType
  <2>2. \E e \in Events : Post(e)
    BY <1>5, <2>1 DEF OsClockLine
  <2>3. eventsIn' \in Seq(Events) /\ Len(eventsIn') <= InCap
    BY <2>2, PostFacts
  <2> QED BY <1>5, <2>3 DEF OsClockLine, TypeOK
<1> QED BY <1>1, <1>2, <1>3, <1>4, <1>5 DEF Input

\* The forwarder, the daemon's goroutine and the status update leave the state
\* well formed.
LEMMA OtherStepType == TypeOK /\ (Forward \/ Apply \/ SyncStatusUpdate) => TypeOK'
<1> SUFFICES ASSUME TypeOK, Forward \/ Apply \/ SyncStatusUpdate PROVE TypeOK'
  OBVIOUS
<1> USE DEF logVars, applyVars, clockVars
<1>1. CASE Forward
  <2>1. Head(eventsIn) \in Events /\ eventsIn' \in Seq(Events) /\ Len(eventsIn') <= InCap
    BY <1>1, CMAssumption DEF Forward, TypeOK
  <2>2. events' \in Seq(Events) /\ Len(events') <= Cap
    BY <1>1, <2>1, CMAssumption DEF Forward, TypeOK
  <2> QED BY <1>1, <2>1, <2>2 DEF Forward, TypeOK
<1>2. CASE RemoveAllClocks
  BY <1>2 DEF RemoveAllClocks, TypeOK, NewOsClock, BCStates, NOTSET, FREERUN
<1>3. CASE InitializeOffsetMaps
  BY <1>3 DEF InitializeOffsetMaps, TypeOK, IFaceOrNone
<1>4. ASSUME NEW c \in Cfg, AddClock(c) PROVE TypeOK'
  <2>1. NewBC \in BC
    BY DEF NewBC, BC, BCStates, IFaceOrNone, ClassOrNone
  <2> QED BY <1>4, <2>1 DEF AddClock, TypeOK
<1>5. CASE StartProcesses
  BY <1>5 DEF StartProcesses, TypeOK
<1>6. CASE SyncStatusUpdate
  BY <1>6 DEF SyncStatusUpdate, TypeOK
<1> QED BY <1>1, <1>2, <1>3, <1>4, <1>5, <1>6 DEF Apply

\* The state always has its type, and neither channel ever holds more events
\* than its capacity.
THEOREM TypeCorrect == Spec => []TypeOK
<1>1. Init => TypeOK
  <2>1. NewBC \in BC
    BY DEF NewBC, BC, BCStates, IFaceOrNone, ClassOrNone
  <2>2. EmptyStore \in StoreTypes
    BY DEF EmptyStore, StoreTypes, Entries
  <2>3. NewOsClock \in OSTypes
    BY DEF NewOsClock, OSTypes, BCStates, NOTSET, FREERUN
  <2> SUFFICES ASSUME Init PROVE TypeOK
    OBVIOUS
  <2>4. /\ eventsIn \in Seq(Events) /\ Len(eventsIn) <= InCap
        /\ events \in Seq(Events) /\ Len(events) <= Cap
    BY CMAssumption DEF Init
  <2>5. slaveIface \in [Cfg -> IFaceOrNone]
    BY DEF Init, IFaceOrNone
  <2>6. os \in OSTypes /\ store \in StoreTypes
    BY <2>2, <2>3 DEF Init
  <2> QED BY <2>1, <2>4, <2>5, <2>6 DEF Init, TypeOK, StoreTypes, OSTypes
<1>2. TypeOK /\ [Next]_vars => TypeOK'
  <2> SUFFICES ASSUME TypeOK, [Next]_vars PROVE TypeOK'
    OBVIOUS
  <2>1. CASE UNCHANGED vars
    BY <2>1 DEF TypeOK, vars, clockVars, logVars, applyVars
  <2> QED BY <2>1, ProcessEventType, TimerType, InputType, OtherStepType DEF Next
<1> QED BY <1>1, <1>2, PTL DEF Spec

-----------------------------------------------------------------------------
(* Holdover timers.                                                        *)

SameTimer(t, u) == u.cfg = t.cfg /\ u.inst = t.inst /\ u.gen = t.gen /\ u.nth = t.nth

\* What becomes of the goroutines when clock c changes from b to d: each one
\* stays, canceled only if it was the armed one of b and d has a new
\* generation; one is added when d arms a new generation.
LEMMA TimersAfterFacts ==
  ASSUME timers \in SUBSET Timers, NEW c \in Cfg, NEW b, NEW d, NEW nth
  PROVE  LET T == TimersAfter(c, b, d, nth) IN
         /\ \A t \in timers : \E u \in T :
              /\ SameTimer(t, u) /\ u.fired = t.fired
              /\ \/ u.canceled = t.canceled
                 \/ b.armed /\ d.gen # b.gen /\ t.cfg = c /\ t.inst = inst[c] /\ t.gen = b.gen
         /\ \A u \in T :
              \/ \E t \in timers : SameTimer(t, u)
              \/ /\ d.armed /\ d.gen # b.gen /\ u.cfg = c /\ u.inst = inst[c]
                 /\ u.gen = d.gen /\ u.nth = nth
         /\ d.armed /\ d.gen # b.gen =>
              \E u \in T : u.cfg = c /\ u.inst = inst[c] /\ u.gen = d.gen /\ ~u.canceled
<1> DEFINE T == TimersAfter(c, b, d, nth)
           Owned(t) == t.cfg = c /\ t.inst = inst[c] /\ t.gen = b.gen
           Kept(t) == [t EXCEPT !.canceled = @ \/ (b.armed /\ d.gen # b.gen /\ Owned(t))]
           new == [cfg |-> c, inst |-> inst[c], gen |-> d.gen, nth |-> nth,
                   canceled |-> FALSE, fired |-> FALSE]
<1>1. T = IF d.armed /\ d.gen # b.gen THEN {Kept(t) : t \in timers} \cup {new}
                                      ELSE {Kept(t) : t \in timers}
  BY DEF TimersAfter
<1>2. ASSUME NEW t \in timers
      PROVE  /\ SameTimer(t, Kept(t)) /\ Kept(t).fired = t.fired
             /\ \/ Kept(t).canceled = t.canceled
                \/ b.armed /\ d.gen # b.gen /\ t.cfg = c /\ t.inst = inst[c] /\ t.gen = b.gen
  BY DEF Timers, SameTimer
<1>3. /\ new.cfg = c /\ new.inst = inst[c] /\ new.gen = d.gen /\ new.nth = nth
      /\ ~new.canceled
  OBVIOUS
<1>4. \A t \in timers : Kept(t) \in T
  BY <1>1
<1>5. d.armed /\ d.gen # b.gen => new \in T
  BY <1>1
<1>6. \A u \in T : (\E t \in timers : u = Kept(t)) \/ (d.armed /\ d.gen # b.gen /\ u = new)
  BY <1>1
<1> HIDE DEF T, Kept, new
<1>7. \A t \in timers : \E u \in T :
              /\ SameTimer(t, u) /\ u.fired = t.fired
              /\ \/ u.canceled = t.canceled
                 \/ b.armed /\ d.gen # b.gen /\ t.cfg = c /\ t.inst = inst[c] /\ t.gen = b.gen
  BY <1>2, <1>4
<1>8. \A u \in T :
              \/ \E t \in timers : SameTimer(t, u)
              \/ /\ d.armed /\ d.gen # b.gen /\ u.cfg = c /\ u.inst = inst[c]
                 /\ u.gen = d.gen /\ u.nth = nth
  BY <1>2, <1>3, <1>6
<1>9. d.armed /\ d.gen # b.gen =>
              \E u \in T : u.cfg = c /\ u.inst = inst[c] /\ u.gen = d.gen /\ ~u.canceled
  BY <1>3, <1>5
<1> QED BY <1>7, <1>8, <1>9 DEF T

\* A pending expiry of clock x stays pending when another event is taken and
\* its goroutine is not canceled.
LEMMA PendingKept ==
  ASSUME TypeOK, Take, NEW x \in Cfg, ExpiryPending(x),
         inst' = inst, bc'[x].gen = bc[x].gen,
         ~ (/\ Head(events).kind = "expired" /\ Head(events).cfg = x
            /\ Head(events).gen = bc[x].gen),
         \A t \in timers : t.cfg = x => \E u \in timers' :
           SameTimer(t, u) /\ u.fired = t.fired /\ u.canceled = t.canceled
  PROVE  ExpiryPending(x)'
<1>1. CASE \E t \in timers : /\ t.cfg = x /\ t.inst = inst[x] /\ t.gen = bc[x].gen
                             /\ t.fired \/ ~t.canceled
  BY <1>1 DEF ExpiryPending, SameTimer
<1>2. CASE \E k \in 1..Len(events) :
             /\ events[k].kind = "expired" /\ events[k].cfg = x
             /\ events[k].inst = inst[x] /\ events[k].gen = bc[x].gen
  <2>1. PICK k \in 1..Len(events) :
             /\ events[k].kind = "expired" /\ events[k].cfg = x
             /\ events[k].inst = inst[x] /\ events[k].gen = bc[x].gen
    BY <1>2
  <2>2. events \in Seq(Events) /\ events # <<>> /\ events' = Tail(events)
    BY DEF TypeOK, Take
  <2>3. k # 1
    BY <2>1, <2>2
  <2>4. k - 1 \in 1..Len(events') /\ events'[k - 1] = events[k]
    BY <2>2, <2>3
  <2> QED BY <2>1, <2>4 DEF ExpiryPending
<1> QED BY <1>1, <1>2 DEF ExpiryPending

\* HoldoverHasTimer is inductive over the steps of the event loop.
LEMMA HoldoverHasTimerProcess ==
  TypeOK /\ HoldoverHasTimer /\ ProcessEvent => HoldoverHasTimer'
<1> SUFFICES ASSUME TypeOK, HoldoverHasTimer, ProcessEvent,
                    NEW x \in clocks', bc'[x].syncState = HOLDOVER
             PROVE  bc'[x].armed /\ ExpiryPending(x)'
  BY DEF HoldoverHasTimer
<1> DEFINE e == Head(events)
<1>t. /\ os \in OSTypes /\ bc \in [Cfg -> BC] /\ timers \in SUBSET Timers
      /\ clocks \in SUBSET Cfg
  BY DEF TypeOK, OSTypes
<1>0. Take /\ e \in Events /\ e.cfg \in Cfg
  <2>1. Take
    BY DEF ProcessEvent, ProcessReset, ProcessOSClock, ProcessUnregistered, ProcessClockEvent
  <2> QED BY <2>1, TakeFacts DEF Events
<1>u. clocks' = clocks /\ inst' = inst /\ x \in Cfg
  BY <1>t DEF ProcessEvent, ProcessReset, ProcessOSClock, ProcessUnregistered,
              ProcessClockEvent, clockVars, applyVars
<1>i. bc[x].syncState = HOLDOVER => bc[x].armed /\ ExpiryPending(x)
  BY <1>u DEF HoldoverHasTimer
<1>1. CASE ProcessReset
  <2>1. CASE e.cfg \in clocks
    <3>1. x # e.cfg /\ bc'[x] = bc[x]
      BY <1>t, <1>0, <1>u, <1>1, <2>1
      DEF ProcessReset, resetBC, NewBC, HOLDOVER, FREERUN, NOTSET
    <3>2. timers' = TimersAfter(e.cfg, bc[e.cfg], resetBC(bc[e.cfg]), 0)
      BY <1>1, <2>1 DEF ProcessReset
    <3>3. \A t \in timers : t.cfg = x => \E u \in timers' :
            SameTimer(t, u) /\ u.fired = t.fired /\ u.canceled = t.canceled
      BY <1>t, <1>0, <3>1, <3>2, TimersAfterFacts
    <3> QED BY <1>0, <1>u, <1>i, <1>1, <3>1, <3>3, PendingKept DEF ProcessReset
  <2>2. CASE e.cfg \notin clocks
    <3>1. bc' = bc /\ timers' = timers /\ e.kind = "reset"
      BY <1>1, <2>2 DEF ProcessReset
    <3> QED BY <1>0, <1>u, <1>i, <3>1, PendingKept DEF SameTimer
  <2> QED BY <2>1, <2>2
<1>2. CASE ProcessOSClock
  <2>1. timers' = timers /\ e.kind = "os"
    BY <1>2 DEF ProcessOSClock
  <2>2. bc'[x].syncState = bc[x].syncState /\ bc'[x].armed = bc[x].armed
        /\ bc'[x].gen = bc[x].gen
    BY <1>t, <1>u, <1>2 DEF ProcessOSClock, BC
  <2> QED BY <1>0, <1>u, <1>i, <2>1, <2>2, PendingKept DEF SameTimer
<1>3. CASE ProcessUnregistered
  <2>1. timers' = timers /\ bc' = bc /\ e.cfg # x
    BY <1>u, <1>3 DEF ProcessUnregistered, clockVars
  <2> QED BY <1>0, <1>u, <1>i, <2>1, PendingKept DEF SameTimer
<1>4. CASE ProcessClockEvent
  <2> DEFINE c == e.cfg
             d == AddEvent(bc[c], e, os.state)
  <2>1. bc[c] \in BC /\ os.state \in BCStates
    BY <1>t, <1>0 DEF OSTypes
  <2>2. d \in BC /\ TimerRules(bc[c], e, d)
    BY <1>0, <2>1, AddEventFacts
  <2>3. bc' = [bc EXCEPT ![c] = d] /\ timers' = TimersAfter(c, bc[c], d, holdovers'[c])
    BY <1>4 DEF ProcessClockEvent
  <2> HIDE DEF d
  <2>4. CASE x # c
    <3>1. bc'[x] = bc[x]
      BY <1>t, <1>u, <2>3, <2>4
    <3>2. \A t \in timers : t.cfg = x => \E u \in timers' :
            SameTimer(t, u) /\ u.fired = t.fired /\ u.canceled = t.canceled
      BY <1>t, <1>0, <2>3, <2>4, TimersAfterFacts
    <3> QED BY <1>0, <1>u, <1>i, <2>4, <3>1, <3>2, PendingKept
  <2>5. CASE x = c
    <3>1. bc'[x] = d /\ d.syncState = HOLDOVER
      BY <1>t, <1>u, <2>3, <2>5
    <3>2. CASE bc[c].syncState # HOLDOVER
      <4>1. d.armed /\ d.gen # bc[c].gen
        BY <2>1, <2>2, <3>1, <3>2 DEF TimerRules, BC
      <4>2. \E u \in timers' : u.cfg = c /\ u.inst = inst[c] /\ u.gen = d.gen /\ ~u.canceled
        BY <1>t, <1>0, <2>3, <4>1, TimersAfterFacts
      <4> QED BY <1>u, <2>5, <3>1, <4>1, <4>2 DEF ExpiryPending
    <3>3. CASE bc[c].syncState = HOLDOVER
      <4>1. /\ d.armed = bc[c].armed /\ d.gen = bc[c].gen
            /\ ~ (e.kind = "expired" /\ e.gen = bc[c].gen)
        BY <2>2, <3>1, <3>3 DEF TimerRules
      <4>2. \A t \in timers : \E u \in timers' :
              SameTimer(t, u) /\ u.fired = t.fired /\ u.canceled = t.canceled
        BY <1>t, <1>0, <2>3, <4>1, TimersAfterFacts
      <4>3. ExpiryPending(x)'
        BY <1>0, <1>u, <1>i, <2>5, <3>1, <3>3, <4>1, <4>2, PendingKept
      <4> QED BY <1>i, <2>5, <3>1, <3>3, <4>1, <4>3
    <3> QED BY <3>2, <3>3
  <2> QED BY <2>4, <2>5
<1> QED BY <1>1, <1>2, <1>3, <1>4 DEF ProcessEvent

\* An event appended to the channel leaves the pending expiries pending.
LEMMA PendingAppend ==
  ASSUME TypeOK, NEW x \in Cfg, ExpiryPending(x), NEW e, events' = Append(events, e),
         inst' = inst, bc' = bc, timers' = timers
  PROVE  ExpiryPending(x)'
<1>1. /\ Len(events') = Len(events) + 1 /\ Len(events) \in Nat
      /\ \A k \in 1..Len(events) : k \in 1..Len(events') /\ events'[k] = events[k]
  BY DEF TypeOK
<1> QED BY <1>1 DEF ExpiryPending

\* A registered clock in HOLDOVER always has its own expiry coming.
THEOREM HoldoverTimed == Spec => []HoldoverHasTimer
<1>1. Init => HoldoverHasTimer
  BY DEF Init, HoldoverHasTimer
<1>2. TypeOK /\ HoldoverHasTimer /\ [Next]_vars => HoldoverHasTimer'
  <2> SUFFICES ASSUME TypeOK, HoldoverHasTimer, [Next]_vars PROVE HoldoverHasTimer'
    OBVIOUS
  <2> USE DEF logVars, applyVars, clockVars
  <2>1. CASE ProcessEvent
    BY <2>1, HoldoverHasTimerProcess
  <2>2. CASE Forward
    <3>1. \A x \in clocks : x \in Cfg /\ (ExpiryPending(x) => ExpiryPending(x)')
      BY <2>2, PendingAppend DEF Forward, TypeOK
    <3> QED BY <2>2, <3>1 DEF Forward, HoldoverHasTimer
  <2>3. CASE RemoveAllClocks
    BY <2>3 DEF RemoveAllClocks, HoldoverHasTimer
  <2>4. CASE InitializeOffsetMaps \/ StartProcesses \/ SyncStatusUpdate
    BY <2>4 DEF InitializeOffsetMaps, StartProcesses, SyncStatusUpdate, HoldoverHasTimer,
                ExpiryPending
  <2>5. ASSUME NEW c \in Cfg, AddClock(c) PROVE HoldoverHasTimer'
    <3>1. \A x \in clocks' : bc'[x].syncState = HOLDOVER =>
            x \in clocks /\ bc'[x] = bc[x] /\ inst'[x] = inst[x]
      BY <2>5 DEF AddClock, TypeOK, NewBC, NOTSET, HOLDOVER
    <3> QED BY <2>5, <3>1 DEF AddClock, HoldoverHasTimer, ExpiryPending
  <2>6. ASSUME NEW c \in Cfg, Input(c) PROVE HoldoverHasTimer'
    BY <2>6 DEF Input, PortSlave, PortLost, OffsetLine, OsClockLine, OtherEvent, HoldoverHasTimer,
                ExpiryPending
  <2>7. ASSUME NEW c \in Cfg, Timer(c) PROVE HoldoverHasTimer'
    <3> SUFFICES ASSUME NEW x \in clocks, ExpiryPending(x) PROVE ExpiryPending(x)'
      BY <2>7 DEF Timer, TimerFires, TimerCanceled, TimerPosts, HoldoverHasTimer
    <3>1. CASE TimerFires(c)
      <4>1. PICK t \in timers : timers' = (timers \ {t}) \cup {[t EXCEPT !.fired = TRUE]}
        BY <3>1 DEF TimerFires
      <4>2. UNCHANGED <<bc, events, inst>>
        BY <3>1 DEF TimerFires
      <4>3. t \in Timers
        BY DEF TypeOK
      <4>4. SameTimer(t, [t EXCEPT !.fired = TRUE]) /\ [t EXCEPT !.fired = TRUE].fired
        BY <4>3 DEF Timers, SameTimer
      <4> QED BY <4>1, <4>2, <4>4 DEF ExpiryPending, SameTimer
    <3>2. CASE TimerCanceled(c)
      BY <3>2 DEF TimerCanceled, ExpiryPending
    <3>3. CASE TimerPosts(c)
      <4>1. PICK t \in timers : events' = Append(events, Expiry(t)) /\ timers' = timers \ {t}
        BY <3>3 DEF TimerPosts
      <4>2. UNCHANGED <<bc, inst>>
        BY <3>3 DEF TimerPosts
      <4>3. /\ Len(events') = Len(events) + 1 /\ Len(events) \in Nat
            /\ \A k \in 1..Len(events) : k \in 1..Len(events') /\ events'[k] = events[k]
            /\ Len(events') \in 1..Len(events') /\ events'[Len(events')] = Expiry(t)
        BY <4>1 DEF TypeOK
      <4>4. /\ Expiry(t).kind = "expired" /\ Expiry(t).cfg = t.cfg
            /\ Expiry(t).inst = t.inst /\ Expiry(t).gen = t.gen
        BY DEF Expiry, Ev
      <4> QED BY <4>1, <4>2, <4>3, <4>4 DEF ExpiryPending
    <3> QED BY <2>7, <3>1, <3>2, <3>3 DEF Timer
  <2>8. CASE UNCHANGED vars
    BY <2>8 DEF vars, HoldoverHasTimer, ExpiryPending
  <2> QED BY <2>1, <2>2, <2>3, <2>4, <2>5, <2>6, <2>7, <2>8 DEF Next, Apply
<1> QED BY <1>1, <1>2, TypeCorrect, PTL DEF Spec

-----------------------------------------------------------------------------
(* Generations.                                                            *)

\* What ExpiryGenerations says of one expiry.
GenOK(x) ==
  /\ x.inst <= inst[x.cfg]
  /\ x.inst = inst[x.cfg] =>
       /\ x.gen <= bc[x.cfg].gen
       /\ bc[x.cfg].syncState = HOLDOVER /\ x.gen = bc[x.cfg].gen
            => x.nth = holdovers[x.cfg]

GenTimers == \A t \in timers : GenOK(t)
GenEvents == \A k \in 1..Len(events) : events[k].kind = "expired" => GenOK(events[k])

\* No sender on eventsIn posts an expiry: the timers post on events.
NoExpiryIn == \A k \in 1..Len(eventsIn) : eventsIn[k].kind # "expired"

\* The inductive invariant.
GenInv == GenTimers /\ GenEvents /\ NoExpiryIn

\* GenInv is ExpiryGenerations, with what the forwarder needs.
LEMMA GenInvImplies == GenInv => ExpiryGenerations
BY DEF GenInv, GenTimers, GenEvents, GenOK, ExpiryGenerations, PendingExpiries

\* GenOK reads four fields of an expiry.
LEMMA GenOKSame == \A t, u : SameTimer(t, u) => (GenOK(t)' <=> GenOK(u)')
BY DEF SameTimer, GenOK

\* GenOK of an expiry depends on its config's clock only.
LEMMA GenOKKept ==
  ASSUME NEW x, GenOK(x), inst'[x.cfg] = inst[x.cfg], holdovers'[x.cfg] = holdovers[x.cfg],
         bc'[x.cfg].gen = bc[x.cfg].gen,
         bc'[x.cfg].syncState = HOLDOVER => bc[x.cfg].syncState = HOLDOVER
  PROVE  GenOK(x)'
BY DEF GenOK

\* If every pending expiry keeps GenOK in a step that takes an event, so do the
\* events left in the channel.
LEMMA GenEventsTake ==
  ASSUME TypeOK, Take, GenEvents, \A x \in Events : GenOK(x) => GenOK(x)'
  PROVE  GenEvents'
<1>1. events \in Seq(Events) /\ events # <<>> /\ events' = Tail(events)
  BY DEF TypeOK, Take
<1>2. \A k \in 1..Len(events') : /\ k + 1 \in 1..Len(events) /\ events'[k] = events[k + 1]
                                 /\ events[k + 1] \in Events
  BY <1>1
<1> QED BY <1>2 DEF GenEvents

\* A channel that grows by an event that is no expiry or is GenOK.
LEMMA GenEventsAppend ==
  ASSUME TypeOK, NEW e, events' = Append(events, e), GenEvents,
         e.kind = "expired" => GenOK(e), UNCHANGED <<bc, inst, holdovers>>
  PROVE  GenEvents'
<1>1. \A k \in 1..Len(events') :
        \/ k \in 1..Len(events) /\ events'[k] = events[k]
        \/ events'[k] = e
  BY DEF TypeOK
<1>2. \A x : GenOK(x) => GenOK(x)'
  BY DEF GenOK
<1> QED BY <1>1, <1>2 DEF GenEvents

\* The steps of the event loop preserve the generations.
LEMMA GenProcess == TypeOK /\ GenInv /\ ProcessEvent => GenInv'
<1> SUFFICES ASSUME TypeOK, GenInv, ProcessEvent PROVE GenInv'
  OBVIOUS
<1> DEFINE e == Head(events)
<1>t. /\ os \in OSTypes /\ bc \in [Cfg -> BC] /\ timers \in SUBSET Timers
      /\ clocks \in SUBSET Cfg /\ holdovers \in [Cfg -> Nat]
  BY DEF TypeOK, OSTypes
<1>0. Take /\ e \in Events /\ e.cfg \in Cfg
  <2>1. Take
    BY DEF ProcessEvent, ProcessReset, ProcessOSClock, ProcessUnregistered, ProcessClockEvent
  <2> QED BY <2>1, TakeFacts DEF Events
<1>u. inst' = inst /\ eventsIn' = eventsIn
  BY DEF ProcessEvent, ProcessReset, ProcessOSClock, ProcessUnregistered,
         ProcessClockEvent, clockVars, applyVars
<1>n. NoExpiryIn'
  BY <1>u DEF GenInv, NoExpiryIn
<1>f. /\ \A x \in Events : x.cfg \in Cfg /\ x.gen \in Nat
      /\ \A x \in timers : x.cfg \in Cfg /\ x.gen \in Nat
  BY <1>t DEF Events, Timers
<1>1. CASE ProcessReset
  <2> DEFINE r == resetBC(bc[e.cfg])
  <2>1. bc[e.cfg].gen \in Nat /\ r.gen \in Nat /\ r.gen >= bc[e.cfg].gen
        /\ r.syncState = FREERUN /\ ~r.armed
    <3>1. bc[e.cfg] \in BC
      BY <1>t, <1>0
    <3>2. cancelHoldoverTimer(bc[e.cfg]) \in BC
          /\ cancelHoldoverTimer(bc[e.cfg]).gen >= bc[e.cfg].gen
      BY <3>1, CancelFacts
    <3>3. r.gen = cancelHoldoverTimer(bc[e.cfg]).gen /\ r.syncState = FREERUN /\ ~r.armed
      BY DEF resetBC, NewBC
    <3> QED BY <3>1, <3>2, <3>3 DEF BC
  <2>2. \A x : x.cfg \in Cfg /\ x.gen \in Nat /\ GenOK(x) => GenOK(x)'
    <3> SUFFICES ASSUME NEW x, x.cfg \in Cfg, x.gen \in Nat, GenOK(x) PROVE GenOK(x)'
      OBVIOUS
    <3>1. holdovers' = holdovers
      BY <1>1 DEF ProcessReset
    <3>2. CASE x.cfg = e.cfg /\ e.cfg \in clocks
      <4>1. bc'[x.cfg] = r
        BY <1>t, <1>0, <1>1, <3>2 DEF ProcessReset
      <4> HIDE DEF r
      <4> QED BY <1>u, <2>1, <3>2, <4>1 DEF GenOK, HOLDOVER, FREERUN
    <3>3. CASE ~ (x.cfg = e.cfg /\ e.cfg \in clocks)
      <4>1. bc'[x.cfg] = bc[x.cfg]
        BY <1>t, <1>1, <3>3 DEF ProcessReset
      <4> QED BY <1>u, <3>1, <4>1, GenOKKept
    <3> QED BY <3>2, <3>3
  <2>3. GenEvents'
    BY <1>0, <1>f, <2>2, GenEventsTake DEF GenInv
  <2>4. \A u \in timers' : \E t \in timers : SameTimer(t, u)
    <3>1. CASE e.cfg \in clocks
      <4>1. timers' = TimersAfter(e.cfg, bc[e.cfg], r, 0)
        BY <1>1, <3>1 DEF ProcessReset
      <4> HIDE DEF r
      <4> QED BY <1>t, <1>0, <2>1, <4>1, TimersAfterFacts
    <3>2. CASE e.cfg \notin clocks
      BY <1>1, <3>2 DEF ProcessReset, SameTimer
    <3> QED BY <3>1, <3>2
  <2>5. GenTimers'
    BY <1>f, <2>2, <2>4, GenOKSame DEF GenInv, GenTimers
  <2> QED BY <1>n, <2>3, <2>5 DEF GenInv
<1>2. CASE ProcessOSClock \/ ProcessUnregistered
  <2>1. timers' = timers /\ holdovers' = holdovers
    BY <1>2 DEF ProcessOSClock, ProcessUnregistered, clockVars
  <2>2. \A x \in Cfg : bc'[x].syncState = bc[x].syncState /\ bc'[x].gen = bc[x].gen
    BY <1>t, <1>2 DEF ProcessOSClock, ProcessUnregistered, clockVars, BC
  <2>3. \A x : x.cfg \in Cfg /\ GenOK(x) => GenOK(x)'
    BY <1>u, <2>1, <2>2, GenOKKept
  <2>4. GenEvents'
    BY <1>0, <1>f, <2>3, GenEventsTake DEF GenInv
  <2>5. GenTimers'
    BY <1>f, <2>1, <2>3 DEF GenInv, GenTimers
  <2> QED BY <1>n, <2>4, <2>5 DEF GenInv
<1>3. CASE ProcessClockEvent
  <2> DEFINE c == e.cfg
             d == AddEvent(bc[c], e, os.state)
             enters == bc[c].syncState # HOLDOVER /\ d.syncState = HOLDOVER
  <2>1. bc[c] \in BC /\ os.state \in BCStates
    BY <1>t, <1>0 DEF OSTypes
  <2>2. d \in BC /\ TimerRules(bc[c], e, d)
    BY <1>0, <2>1, AddEventFacts
  <2>3. /\ bc' = [bc EXCEPT ![c] = d] /\ timers' = TimersAfter(c, bc[c], d, holdovers'[c])
        /\ holdovers' = IF enters THEN [holdovers EXCEPT ![c] = @ + 1] ELSE holdovers
    BY <1>3 DEF ProcessClockEvent
  <2> HIDE DEF d
  <2>g. bc[c].gen \in Nat /\ d.gen \in Nat
    BY <2>1, <2>2 DEF BC
  <2>4. \A x : x.cfg \in Cfg /\ x.gen \in Nat /\ GenOK(x) => GenOK(x)'
    <3> SUFFICES ASSUME NEW x, x.cfg \in Cfg, x.gen \in Nat, GenOK(x) PROVE GenOK(x)'
      OBVIOUS
    <3>1. CASE x.cfg # c
      <4>1. bc'[x.cfg] = bc[x.cfg] /\ holdovers'[x.cfg] = holdovers[x.cfg]
        BY <1>t, <2>3, <3>1
      <4> QED BY <1>u, <4>1, GenOKKept
    <3>2. CASE x.cfg = c /\ enters
      <4>1. bc'[x.cfg] = d /\ d.gen > bc[c].gen
        BY <1>t, <1>0, <2>2, <2>3, <3>2 DEF TimerRules
      <4> QED BY <1>u, <2>g, <3>2, <4>1 DEF GenOK
    <3>3. CASE x.cfg = c /\ ~enters
      <4>1. bc'[x.cfg] = d /\ d.gen >= bc[c].gen /\ holdovers' = holdovers
        BY <1>t, <1>0, <2>2, <2>3, <3>3 DEF TimerRules
      <4>2. d.syncState = HOLDOVER => bc[c].syncState = HOLDOVER /\ d.gen = bc[c].gen
        BY <2>2, <3>3 DEF TimerRules
      <4> QED BY <1>u, <2>g, <3>3, <4>1, <4>2 DEF GenOK
    <3> QED BY <3>1, <3>2, <3>3
  <2>5. GenEvents'
    BY <1>0, <1>f, <2>4, GenEventsTake DEF GenInv
  <2>6. GenTimers'
    <3> SUFFICES ASSUME NEW u \in timers' PROVE GenOK(u)'
      BY DEF GenTimers
    <3>1. CASE \E t \in timers : SameTimer(t, u)
      BY <1>f, <2>4, <3>1, GenOKSame DEF GenInv, GenTimers
    <3>2. CASE /\ d.armed /\ d.gen # bc[c].gen /\ u.cfg = c /\ u.inst = inst[c]
               /\ u.gen = d.gen /\ u.nth = holdovers'[c]
      <4>1. bc'[c] = d /\ inst[c] \in Nat
        BY <1>t, <1>0, <2>3 DEF TypeOK
      <4> QED BY <1>u, <2>g, <3>2, <4>1 DEF GenOK
    <3> QED BY <1>t, <1>0, <2>3, <3>1, <3>2, TimersAfterFacts
  <2> QED BY <1>n, <2>5, <2>6 DEF GenInv
<1> QED BY <1>1, <1>2, <1>3 DEF ProcessEvent

\* The events the inputs post are no expiries.
LEMMA NoExpiryPost ==
  ASSUME TypeOK, NoExpiryIn, NEW e, e.kind # "expired", Post(e)
  PROVE  NoExpiryIn'
BY DEF TypeOK, NoExpiryIn, Post

\* GenInv is an invariant.
LEMMA GenInvariant == Spec => []GenInv
<1>1. Init => GenInv
  BY DEF Init, GenInv, GenTimers, GenEvents, NoExpiryIn
<1>2. TypeOK /\ GenInv /\ [Next]_vars => GenInv'
  <2> SUFFICES ASSUME TypeOK, GenInv, [Next]_vars PROVE GenInv'
    OBVIOUS
  <2> USE DEF logVars, applyVars, clockVars
  <2>1. CASE ProcessEvent
    BY <2>1, GenProcess
  <2>2. CASE Forward
    <3>1. UNCHANGED <<bc, inst, holdovers, timers>> /\ events' = Append(events, Head(eventsIn))
      BY <2>2 DEF Forward
    <3>2. Head(eventsIn).kind # "expired"
      BY <2>2 DEF Forward, GenInv, NoExpiryIn, TypeOK
    <3>3. GenEvents'
      BY <3>1, <3>2, GenEventsAppend DEF GenInv
    <3>4. NoExpiryIn'
      <4>1. eventsIn \in Seq(Events) /\ eventsIn # <<>> /\ eventsIn' = Tail(eventsIn)
        BY <2>2 DEF Forward, TypeOK
      <4>2. \A k \in 1..Len(eventsIn') : k + 1 \in 1..Len(eventsIn)
                                         /\ eventsIn'[k] = eventsIn[k + 1]
        BY <4>1
      <4> QED BY <4>2 DEF GenInv, NoExpiryIn
    <3>5. GenTimers'
      BY <3>1 DEF GenInv, GenTimers, GenOK
    <3> QED BY <3>3, <3>4, <3>5 DEF GenInv
  <2>3. CASE RemoveAllClocks \/ InitializeOffsetMaps \/ StartProcesses \/ SyncStatusUpdate
    <3>1. UNCHANGED <<bc, inst, holdovers, timers, events, eventsIn>>
      BY <2>3 DEF RemoveAllClocks, InitializeOffsetMaps, StartProcesses, SyncStatusUpdate
    <3> QED BY <3>1 DEF GenInv, GenTimers, GenEvents, NoExpiryIn, GenOK
  <2>4. ASSUME NEW c \in Cfg, AddClock(c) PROVE GenInv'
    <3>1. /\ UNCHANGED <<holdovers, timers, events, eventsIn>>
          /\ bc' = [bc EXCEPT ![c] = NewBC] /\ inst' = [inst EXCEPT ![c] = @ + 1]
      BY <2>4 DEF AddClock
    <3>2. bc \in [Cfg -> BC] /\ inst \in [Cfg -> Nat]
      BY DEF TypeOK
    <3>3. \A x : x.cfg \in Cfg /\ x.inst \in Nat /\ GenOK(x) => GenOK(x)'
      <4> SUFFICES ASSUME NEW x, x.cfg \in Cfg, x.inst \in Nat, GenOK(x) PROVE GenOK(x)'
        OBVIOUS
      <4>1. CASE x.cfg = c
        <5>1. inst[c] \in Nat /\ inst'[c] = inst[c] + 1
          BY <3>1, <3>2
        <5> QED BY <4>1, <5>1 DEF GenOK
      <4>2. CASE x.cfg # c
        BY <3>1, <3>2, <4>2, GenOKKept
      <4> QED BY <4>1, <4>2
    <3>4. /\ \A t \in timers : t.cfg \in Cfg /\ t.inst \in Nat
          /\ \A k \in 1..Len(events) : events[k].cfg \in Cfg /\ events[k].inst \in Nat
      <4>1. \A k \in 1..Len(events) : events[k] \in Events
        BY DEF TypeOK
      <4>2. \A t \in timers : t \in Timers
        BY DEF TypeOK
      <4> QED BY <4>1, <4>2 DEF Timers, Events
    <3> QED BY <3>1, <3>3, <3>4 DEF GenInv, GenTimers, GenEvents, NoExpiryIn
  <2>5. ASSUME NEW c \in Cfg, Input(c) PROVE GenInv'
    <3>1. UNCHANGED <<bc, inst, holdovers, timers, events>>
      BY <2>5 DEF Input, PortSlave, PortLost, OffsetLine, OsClockLine, OtherEvent
    <3>2. eventsIn' = eventsIn \/ \E e : e.kind # "expired" /\ Post(e)
      <4>1. \A k, i, v : k # "expired" => Ev(k, c, i, v, 0, proc[c], 0).kind # "expired"
        BY DEF Ev
      <4>2. ASSUME NEW i \in IFace, PortSlave(c, i) PROVE eventsIn' = eventsIn
        BY <4>2 DEF PortSlave
      <4>3. CASE PortLost(c)
        BY <4>1, <4>3 DEF PortLost
      <4>4. ASSUME NEW r \in {"in", "out"}, OffsetLine(c, r)
            PROVE  eventsIn' = eventsIn \/ \E e : e.kind # "expired" /\ Post(e)
        BY <4>1, <4>4 DEF OffsetLine
      <4>5. CASE OtherEvent(c) \/ OsClockLine(c)
        BY <4>1, <4>5 DEF OtherEvent, OsClockLine
      <4> QED BY <2>5, <4>2, <4>3, <4>4, <4>5 DEF Input
    <3>3. NoExpiryIn'
      BY <3>2, NoExpiryPost DEF GenInv, NoExpiryIn
    <3> QED BY <3>1, <3>3 DEF GenInv, GenTimers, GenEvents, GenOK
  <2>6. ASSUME NEW c \in Cfg, Timer(c) PROVE GenInv'
    <3>1. UNCHANGED <<bc, inst, holdovers, eventsIn>>
      BY <2>6 DEF Timer, TimerFires, TimerCanceled, TimerPosts
    <3>2. \A x : GenOK(x) => GenOK(x)'
      BY <3>1 DEF GenOK
    <3>3. NoExpiryIn'
      BY <3>1 DEF GenInv, NoExpiryIn
    <3>4. CASE TimerFires(c)
      <4>1. PICK t \in timers : timers' = (timers \ {t}) \cup {[t EXCEPT !.fired = TRUE]}
        BY <3>4 DEF TimerFires
      <4>2. events' = events
        BY <3>4 DEF TimerFires
      <4>3. SameTimer(t, [t EXCEPT !.fired = TRUE])
        BY DEF TypeOK, Timers, SameTimer
      <4>4. GenTimers'
        BY <3>2, <4>1, <4>3, GenOKSame DEF GenInv, GenTimers
      <4> QED BY <3>2, <3>3, <4>2, <4>4 DEF GenInv, GenEvents
    <3>5. CASE TimerCanceled(c)
      <4>1. timers' \subseteq timers /\ events' = events
        BY <3>5 DEF TimerCanceled
      <4> QED BY <3>2, <3>3, <4>1 DEF GenInv, GenEvents, GenTimers
    <3>6. CASE TimerPosts(c)
      <4>1. PICK t \in timers : events' = Append(events, Expiry(t)) /\ timers' = timers \ {t}
        BY <3>6 DEF TimerPosts
      <4>2. GenOK(Expiry(t))
        BY DEF GenInv, GenTimers, GenOK, Expiry, Ev
      <4>3. GenEvents'
        BY <3>1, <4>1, <4>2, GenEventsAppend DEF GenInv
      <4> QED BY <3>2, <3>3, <4>1, <4>3 DEF GenInv, GenTimers
    <3> QED BY <2>6, <3>4, <3>5, <3>6 DEF Timer
  <2>7. CASE UNCHANGED vars
    BY <2>7 DEF vars, GenInv, GenTimers, GenEvents, NoExpiryIn, GenOK
  <2> QED BY <2>1, <2>2, <2>3, <2>4, <2>5, <2>6, <2>7 DEF Next, Apply
<1> QED BY <1>1, <1>2, TypeCorrect, PTL DEF Spec

\* The generations of the pending expiries, for every number of configs,
\* channel capacities, holdovers and profile applications.
THEOREM Generations == Spec => []ExpiryGenerations
BY GenInvariant, GenInvImplies, PTL

\* A superseded or canceled timer of a clock object never cuts a later holdover
\* of that object short.
THEOREM ExpiryEndsItsHoldover == Spec => ExpiryOfThisHoldover
<1>1. TypeOK /\ GenInv /\ [Next]_vars =>
        [\A c \in clocks : EndsHoldover(c) /\ Head(events).inst = inst[c]
            => Head(events).nth = holdovers[c]]_vars
  <2> SUFFICES ASSUME TypeOK, GenInv, Next, NEW c \in clocks, EndsHoldover(c),
                      Head(events).inst = inst[c]
               PROVE  Head(events).nth = holdovers[c]
    OBVIOUS
  <2> DEFINE e == Head(events)
  <2>1. /\ events # <<>> /\ e.kind = "expired" /\ e.cfg = c /\ events' = Tail(events)
        /\ bc[c].syncState = HOLDOVER /\ bc'[c].syncState = FREERUN
    BY DEF EndsHoldover
  <2>2. events \in Seq(Events) /\ e \in Events /\ e = events[1] /\ 1 \in 1..Len(events)
        /\ c \in Cfg /\ bc \in [Cfg -> BC] /\ os.state \in BCStates
    BY <2>1 DEF TypeOK
  <2>3. GenOK(e)
    BY <2>1, <2>2 DEF GenInv, GenEvents
  <2>4. bc' # bc /\ e.kind \notin {"os", "reset"}
    BY <2>1 DEF HOLDOVER, FREERUN
  <2>5. ProcessClockEvent
    <3> USE DEF clockVars, logVars, applyVars
    <3>1. \A x \in Cfg : ~Timer(x) /\ ~Input(x)
      BY <2>4 DEF Timer, TimerFires, TimerCanceled, TimerPosts, Input, PortSlave, PortLost,
                  OffsetLine, OsClockLine, OtherEvent
    <3>2. ~Forward /\ ~SyncStatusUpdate
      BY <2>4 DEF Forward, SyncStatusUpdate
    <3>3. ~Apply
      <4>1. Len(events') # Len(events)
        BY <2>1, <2>2
      <4> QED BY <4>1 DEF Apply, RemoveAllClocks, InitializeOffsetMaps, AddClock, StartProcesses
    <3>4. ~ProcessReset /\ ~ProcessOSClock /\ ~ProcessUnregistered
      BY <2>1, <2>4 DEF ProcessReset, ProcessOSClock, ProcessUnregistered
    <3> QED BY <3>1, <3>2, <3>3, <3>4 DEF Next, ProcessEvent
  <2>6. bc'[c] = AddEvent(bc[c], e, os.state)
    BY <2>1, <2>2, <2>5 DEF ProcessClockEvent
  <2>7. e.gen = bc[c].gen
    BY <2>1, <2>2, <2>6, AddEventFacts DEF TimerRules
  <2> QED BY <2>1, <2>3, <2>7 DEF GenOK
<1> QED BY <1>1, TypeCorrect, GenInvariant, PTL DEF Spec, ExpiryOfThisHoldover

-----------------------------------------------------------------------------
(* What is published.                                                      *)

\* An entry the clock's last transition left in the cache agrees with the clock.
LEMMA OverallEntryFacts ==
  ASSUME NEW b, NEW d, NEW old,
         b.overall # NOTSET => old \in {NoEntry, PtpStateToIPCState(b.overall)},
         d.overall # NOTSET
  PROVE  OverallEntry(old, b, d) \in {NoEntry, PtpStateToIPCState(d.overall)}
BY DEF OverallEntry

\* The published overall state of a registered clock is its own.
THEOREM SyncStatePublished == Spec => []PublishedSyncState
<1>1. Init => PublishedSyncState
  BY DEF Init, PublishedSyncState
<1>2. TypeOK /\ PublishedSyncState /\ [Next]_vars => PublishedSyncState'
  <2> SUFFICES ASSUME TypeOK, PublishedSyncState, [Next]_vars,
                      NEW x \in clocks', bc'[x].overall # NOTSET
               PROVE  store'.sync[x] \in {NoEntry, PtpStateToIPCState(bc'[x].overall)}
    BY DEF PublishedSyncState
  <2> USE DEF logVars, applyVars, clockVars
  <2> DEFINE e == Head(events)
  <2>t. /\ bc \in [Cfg -> BC] /\ os \in OSTypes /\ store \in StoreTypes /\ clocks \in SUBSET Cfg
    BY DEF TypeOK, OSTypes, StoreTypes
  <2>s. store.sync \in [Cfg -> Entries]
    BY <2>t DEF StoreTypes
  <2>i. x \in clocks => (bc[x].overall # NOTSET =>
          store.sync[x] \in {NoEntry, PtpStateToIPCState(bc[x].overall)})
    BY DEF PublishedSyncState
  <2>1. CASE ProcessReset
    <3>1. clocks' = clocks /\ store' = EmptyStore
      BY <2>1 DEF ProcessReset
    <3> QED BY <2>t, <3>1 DEF EmptyStore
  <2>2. CASE ProcessOSClock
    <3> DEFINE o == IF e.val = NOTSET THEN os ELSE [os EXCEPT !.state = e.val]
               st == EmitE3(store, o, os')
    <3>1. st.sync = store.sync
      BY <2>t DEF EmitE3, StoreTypes
    <3>2. clocks' = clocks /\ x \in Cfg
      BY <2>t, <2>2 DEF ProcessOSClock
    <3>3. \/ store' = st /\ bc' = bc
          \/ store' = [st EXCEPT !.sync = [c \in Cfg |-> OverallEntry(@[c], bc[c], bc'[c])]]
      BY <2>2 DEF ProcessOSClock
    <3>4. st \in [ptp : {st.ptp}, sync : {store.sync}, class : {st.class}, os : {st.os}]
      BY <2>t DEF EmitE3, StoreTypes
    <3> HIDE DEF st
    <3>5. CASE store' = st /\ bc' = bc
      BY <2>i, <3>1, <3>2, <3>5
    <3>6. CASE store' = [st EXCEPT !.sync = [c \in Cfg |-> OverallEntry(@[c], bc[c], bc'[c])]]
      <4>1. store'.sync[x] = OverallEntry(store.sync[x], bc[x], bc'[x])
        BY <3>1, <3>2, <3>4, <3>6
      <4> QED BY <2>i, <3>2, <4>1, OverallEntryFacts
    <3> QED BY <3>3, <3>5, <3>6
  <2>3. CASE ProcessClockEvent
    <3> DEFINE c == e.cfg
               d == AddEvent(bc[c], e, os.state)
               p == E3After(clocks, [bc EXCEPT ![c] = d], os)
               pub == Publish(store, c, e, bc[c], d)
    <3>1. clocks' = clocks /\ bc' = [bc EXCEPT ![c] = d] /\ c \in Cfg /\ x \in Cfg
          /\ store' = EmitE3(pub, os, p)
      BY <2>t, <2>3 DEF ProcessClockEvent
    <3>2. pub.sync = [store.sync EXCEPT ![c] = OverallEntry(@, bc[c], d)]
      BY <2>t, <3>1 DEF Publish, StoreTypes
    <3>3. store'.sync = pub.sync
      <4>1. pub \in [ptp : {pub.ptp}, sync : {pub.sync}, class : {pub.class}, os : {pub.os}]
        BY <2>t DEF Publish, StoreTypes
      <4> HIDE DEF pub
      <4> QED BY <3>1, <4>1 DEF EmitE3
    <3> HIDE DEF d, pub
    <3>4. CASE x = c
      <4>1. bc'[x] = d /\ store'.sync[x] = OverallEntry(store.sync[x], bc[x], d)
        BY <2>t, <2>s, <3>1, <3>2, <3>3, <3>4
      <4> QED BY <2>i, <3>1, <4>1, OverallEntryFacts
    <3>5. CASE x # c
      <4>1. bc'[x] = bc[x] /\ store'.sync[x] = store.sync[x]
        BY <2>t, <2>s, <3>1, <3>2, <3>3, <3>5
      <4> QED BY <2>i, <3>1, <4>1
    <3> QED BY <3>4, <3>5
  <2>4. ASSUME NEW c \in Cfg, AddClock(c)
        PROVE  store'.sync[x] \in {NoEntry, PtpStateToIPCState(bc'[x].overall)}
    <3>1. x # c
      BY <2>t, <2>4 DEF AddClock, NewBC
    <3> QED BY <2>t, <2>i, <2>4, <3>1 DEF AddClock
  <2>5. CASE \/ ProcessUnregistered \/ Forward \/ InitializeOffsetMaps \/ StartProcesses
             \/ SyncStatusUpdate \/ \E c \in Cfg : Timer(c) \/ Input(c)
    <3>1. UNCHANGED <<clocks, bc, store>>
      BY <2>5 DEF ProcessUnregistered, Forward, InitializeOffsetMaps, StartProcesses,
           SyncStatusUpdate, Timer, TimerFires, TimerCanceled, TimerPosts, Input, PortSlave,
           PortLost, OffsetLine, OsClockLine, OtherEvent
    <3> QED BY <2>i, <3>1
  <2>6. CASE RemoveAllClocks
    BY <2>6 DEF RemoveAllClocks
  <2>7. CASE UNCHANGED vars
    BY <2>i, <2>7 DEF vars
  <2> QED BY <2>1, <2>2, <2>3, <2>4, <2>5, <2>6, <2>7 DEF Next, ProcessEvent, Apply
<1> QED BY <1>1, <1>2, TypeCorrect, PTL DEF Spec

\* E1 depends only on the clocks that report a state.
LEMMA WorstOfSame ==
  ASSUME NEW f, NEW g, NEW R,
         R = {x \in DOMAIN f : f[x] \notin {NOTSET, UNKNOWN}},
         R = {x \in DOMAIN g : g[x] \notin {NOTSET, UNKNOWN}},
         \A x \in R : f[x] = g[x]
  PROVE  WorstOfPtpStates(f) = WorstOfPtpStates(g)
<1> DEFINE W(h) == CASE R = {} -> NOTSET
                     [] \E x \in R : R = {x} -> h[CHOOSE x \in R : TRUE]
                     [] OTHER -> IF \E x \in R : h[x] = FREERUN THEN FREERUN
                                 ELSE IF \E x \in R : h[x] = HOLDOVER THEN HOLDOVER ELSE LOCKED
<1>1. WorstOfPtpStates(f) = W(f)
  BY DEF WorstOfPtpStates
<1>2. WorstOfPtpStates(g) = W(g)
  BY DEF WorstOfPtpStates
<1>3. R # {} => (CHOOSE x \in R : TRUE) \in R
  OBVIOUS
<1>4. W(f) = W(g)
  BY <1>3
<1> QED BY <1>1, <1>2, <1>4

\* E1 of clocks that differ in other fields only.
LEMMA WorstClockStateSame ==
  ASSUME NEW cs, NEW b, NEW d, \A c \in cs : b[c].syncState = d[c].syncState
  PROVE  worstClockState(cs, b) = worstClockState(cs, d)
<1>1. [c \in cs |-> b[c].syncState] = [c \in cs |-> d[c].syncState]
  OBVIOUS
<1> QED BY <1>1 DEF worstClockState

\* A clock without a state does not change E1.
LEMMA WorstClockStateAdd ==
  ASSUME NEW cs, NEW c, c \notin cs, NEW a, NEW b,
         \A x \in cs : a[x].syncState = b[x].syncState, a[c].syncState = NOTSET
  PROVE  worstClockState(cs \cup {c}, a) = worstClockState(cs, b)
<1> DEFINE f == [x \in cs \cup {c} |-> a[x].syncState]
           g == [x \in cs |-> b[x].syncState]
           R == {x \in DOMAIN g : g[x] \notin {NOTSET, UNKNOWN}}
<1>1. f[c] = NOTSET /\ \A x \in cs : f[x] = g[x]
  OBVIOUS
<1>2. DOMAIN f = cs \cup {c} /\ DOMAIN g = cs
  OBVIOUS
<1>3. R = {x \in DOMAIN f : f[x] \notin {NOTSET, UNKNOWN}}
  BY <1>1, <1>2
<1>4. \A x \in R : f[x] = g[x]
  BY <1>1, <1>2
<1>5. worstClockState(cs \cup {c}, a) = WorstOfPtpStates(f)
  BY DEF worstClockState
<1>6. worstClockState(cs, b) = WorstOfPtpStates(g)
  BY DEF worstClockState
<1> HIDE DEF f, g
<1> QED BY <1>3, <1>4, <1>5, <1>6, WorstOfSame

\* emitOSClockState leaves E3 and its cache entry current for the clocks cs, b
\* if the entry agreed with the E3 state before.
LEMMA EmitFacts ==
  ASSUME NEW cs \in SUBSET Cfg, NEW b \in [Cfg -> BC], NEW o \in OSTypes, NEW st \in StoreTypes,
         o.e3 # NOTSET => st.os = PtpStateToIPCState(o.e3),
         NEW p, p = E3After(cs, b, o), p.e3 # NOTSET
  PROVE  /\ \/ worstClockState(cs, b) = NOTSET
            \/ p.e3 = WorstOfState(worstClockState(cs, b), p.state)
         /\ EmitE3(st, o, p).os = PtpStateToIPCState(p.e3)
<1> DEFINE W == worstClockState(cs, b)
<1>1. W \in BCStates /\ o.state \in BCStates /\ o.state # NOTSET
  BY WorstClockStateType DEF OSTypes
<1>2. cs = {} => W = NOTSET
  BY DEF worstClockState, WorstOfPtpStates
<1>3. WorstOfState(W, o.state) = NOTSET <=> W = NOTSET
  BY <1>1, WorstOfStateType
<1>4. W # NOTSET => p = [o EXCEPT !.e3 = WorstOfState(W, o.state)]
  BY <1>2, <1>3 DEF E3After, DerivedE3
<1>5. W # NOTSET => p.e3 = WorstOfState(W, o.state) /\ p.state = o.state
  BY <1>4 DEF OSTypes
<1>6. EmitE3(st, o, p).os = IF p.e3 # o.e3 THEN PtpStateToIPCState(p.e3) ELSE st.os
  BY DEF EmitE3, StoreTypes
<1> QED BY <1>5, <1>6

\* The reported OS clock state follows from the present state of all clocks and
\* of the OS clock, and is what the cache holds.
THEOREM E3IsCurrent == Spec => []E3Current
<1>1. Init => E3Current
  BY DEF Init, E3Current, NewOsClock
<1>2. TypeOK /\ TypeOK' /\ E3Current /\ [Next]_vars => E3Current'
  <2> SUFFICES ASSUME TypeOK, TypeOK', E3Current, [Next]_vars, os'.e3 # NOTSET
               PROVE  /\ \/ worstClockState(clocks', bc') = NOTSET
                         \/ os'.e3 = WorstOfState(worstClockState(clocks', bc'), os'.state)
                      /\ store'.os = PtpStateToIPCState(os'.e3)
    BY DEF E3Current
  <2> USE DEF logVars, applyVars, clockVars
  <2> DEFINE e == Head(events)
  <2>t. /\ bc \in [Cfg -> BC] /\ os \in OSTypes /\ store \in StoreTypes /\ clocks \in SUBSET Cfg
        /\ bc' \in [Cfg -> BC]
    BY DEF TypeOK, OSTypes, StoreTypes
  <2>0. Take => e \in Events
    BY TakeFacts
  <2>1. CASE ProcessReset \/ RemoveAllClocks
    <3>1. os'.e3 = NOTSET
      BY <2>t, <2>1 DEF ProcessReset, RemoveAllClocks, NewOsClock, OSTypes
    <3> QED BY <3>1
  <2>2. CASE ProcessOSClock
    <3> DEFINE o == IF e.val = NOTSET THEN os ELSE [os EXCEPT !.state = e.val]
    <3>1. o \in OSTypes /\ o.e3 = os.e3
      BY <2>t, <2>0, <2>2 DEF ProcessOSClock, OSTypes, Events
    <3>2. o.e3 # NOTSET => store.os = PtpStateToIPCState(o.e3)
      BY <3>1 DEF E3Current
    <3>3. os' = E3After(clocks, bc, o) /\ clocks' = clocks
      BY <2>2 DEF ProcessOSClock
    <3>4. store'.os = EmitE3(store, o, os').os
      <4> DEFINE st == EmitE3(store, o, os')
      <4>1. st \in [ptp : {st.ptp}, sync : {st.sync}, class : {st.class}, os : {st.os}]
        BY <2>t DEF EmitE3, StoreTypes
      <4>2. \/ store' = st
            \/ store' = [st EXCEPT !.sync = [c \in Cfg |-> OverallEntry(@[c], bc[c], bc'[c])]]
        BY <2>2 DEF ProcessOSClock
      <4> HIDE DEF st
      <4>3. store'.os = st.os
        BY <4>1, <4>2
      <4> QED BY <4>3 DEF st
    <3>5. worstClockState(clocks', bc') = worstClockState(clocks, bc)
      <4>1. \A c \in clocks : bc'[c].syncState = bc[c].syncState
        BY <2>t, <2>2 DEF ProcessOSClock, BC
      <4> QED BY <3>3, <4>1, WorstClockStateSame
    <3> HIDE DEF o
    <3> QED BY <2>t, <3>1, <3>2, <3>3, <3>4, <3>5, EmitFacts DEF worstClockState
  <2>3. CASE ProcessClockEvent
    <3> DEFINE c == e.cfg
               d == AddEvent(bc[c], e, os.state)
               pub == Publish(store, c, e, bc[c], d)
    <3>1. /\ clocks' = clocks /\ bc' = [bc EXCEPT ![c] = d] /\ c \in Cfg
          /\ store' = EmitE3(pub, os, os')
      BY <2>t, <2>3 DEF ProcessClockEvent
    <3>a. os' = E3After(clocks, bc', os)
      BY <2>3 DEF ProcessClockEvent
    <3>2. Take
      BY <2>3 DEF ProcessClockEvent
    <3>3. e \in Events /\ bc[c] \in BC /\ os.state \in BCStates
      BY <2>t, <2>0, <3>1, <3>2 DEF OSTypes
    <3>4. d \in BC
      BY <3>3, AddEventFacts
    <3>5. pub \in StoreTypes
      BY <2>t, <3>1, <3>3, <3>4, PublishType
    <3>6. pub.os = store.os
      BY <2>t DEF Publish, StoreTypes
    <3>7. os.e3 # NOTSET => pub.os = PtpStateToIPCState(os.e3)
      BY <3>6 DEF E3Current
    <3>8. /\ \/ worstClockState(clocks, bc') = NOTSET
             \/ os'.e3 = WorstOfState(worstClockState(clocks, bc'), os'.state)
          /\ EmitE3(pub, os, os').os = PtpStateToIPCState(os'.e3)
      <4> HIDE DEF d, pub
      <4> QED BY <2>t, <3>a, <3>5, <3>7, EmitFacts
    <3> HIDE DEF d, pub
    <3> QED BY <3>1, <3>8
  <2>4. ASSUME NEW c \in Cfg, AddClock(c)
        PROVE  /\ \/ worstClockState(clocks', bc') = NOTSET
                  \/ os'.e3 = WorstOfState(worstClockState(clocks', bc'), os'.state)
               /\ store'.os = PtpStateToIPCState(os'.e3)
    <3>1. /\ c \notin clocks /\ clocks' = clocks \cup {c} /\ bc' = [bc EXCEPT ![c] = NewBC]
          /\ os' = os /\ store' = store
      BY <2>4 DEF AddClock
    <3>2. NewBC \in BC /\ NewBC.syncState = NOTSET
      BY DEF NewBC, BC, BCStates, IFaceOrNone, ClassOrNone
    <3>3. worstClockState(clocks', bc') = worstClockState(clocks, bc)
      <4>1. bc'[c].syncState = NOTSET /\ \A x \in clocks : bc'[x].syncState = bc[x].syncState
        BY <2>t, <3>1, <3>2
      <4>2. c \notin clocks /\ clocks' = clocks \cup {c}
        BY <3>1
      <4>3. worstClockState(clocks \cup {c}, bc') = worstClockState(clocks, bc)
        BY <4>1, <4>2, WorstClockStateAdd
      <4> QED BY <4>2, <4>3
    <3> QED BY <3>1, <3>3 DEF E3Current
  <2>5. CASE \/ ProcessUnregistered \/ Forward \/ InitializeOffsetMaps \/ StartProcesses
             \/ SyncStatusUpdate \/ \E c \in Cfg : Timer(c) \/ Input(c)
    <3>1. UNCHANGED <<clocks, bc, os, store>>
      BY <2>5 DEF ProcessUnregistered, Forward, InitializeOffsetMaps, StartProcesses,
           SyncStatusUpdate, Timer, TimerFires, TimerCanceled, TimerPosts, Input, PortSlave,
           PortLost, OffsetLine, OsClockLine, OtherEvent
    <3> QED BY <3>1 DEF E3Current
  <2>6. CASE UNCHANGED vars
    BY <2>6 DEF vars, E3Current
  <2> QED BY <2>1, <2>2, <2>3, <2>4, <2>5, <2>6 DEF Next, ProcessEvent, Apply
<1> QED BY <1>1, <1>2, TypeCorrect, PTL DEF Spec

-----------------------------------------------------------------------------
(* The events on their way: a reset only where its source runs, and an     *)
(* interface in every event that a clock takes one from.                   *)

EventOK(e) ==
  /\ e.kind = "reset" => "reset" \in Sources
  /\ e.kind \in {"lost", "offset", "synce"} => e.iface \in IFace
InOK  == \A k \in 1..Len(eventsIn) : EventOK(eventsIn[k])
OutOK == \A k \in 1..Len(events) : EventOK(events[k])
EventsOK == InOK /\ OutOK

LEMMA InPost ==
  ASSUME TypeOK, InOK, NEW e, EventOK(e), Post(e)
  PROVE  InOK'
BY DEF TypeOK, InOK, Post, EventOK

\* A channel that grows by a good event, and one that loses its first.
LEMMA ChannelOK ==
  ASSUME NEW s \in Seq(Events), \A k \in 1..Len(s) : EventOK(s[k])
  PROVE  /\ \A e : EventOK(e) => \A k \in 1..Len(Append(s, e)) : EventOK(Append(s, e)[k])
         /\ s # <<>> => EventOK(Head(s)) /\ \A k \in 1..Len(Tail(s)) : EventOK(Tail(s)[k])
<1>1. ASSUME NEW e, EventOK(e), NEW k \in 1..Len(Append(s, e)) PROVE EventOK(Append(s, e)[k])
  <2>1. (k \in 1..Len(s) /\ Append(s, e)[k] = s[k]) \/ Append(s, e)[k] = e
    OBVIOUS
  <2> QED BY <1>1, <2>1
<1>2. ASSUME s # <<>>, NEW k \in 1..Len(Tail(s)) PROVE EventOK(Tail(s)[k])
  <2>1. k + 1 \in 1..Len(s) /\ Tail(s)[k] = s[k + 1]
    BY <1>2
  <2> QED BY <2>1
<1>3. ASSUME s # <<>> PROVE EventOK(Head(s))
  <2>1. 1 \in 1..Len(s) /\ Head(s) = s[1]
    BY <1>3
  <2> QED BY <2>1
<1> QED BY <1>1, <1>2, <1>3

\* What the inputs post.
LEMMA InputOK == TypeOK /\ EventsOK => \A c \in Cfg : Input(c) => EventsOK'
<1> SUFFICES ASSUME TypeOK, EventsOK, NEW c \in Cfg, Input(c) PROVE EventsOK'
  OBVIOUS
<1>1. OutOK'
  <2>1. events' = events
    BY DEF Input, PortSlave, PortLost, OffsetLine, OsClockLine, OtherEvent
  <2> QED BY <2>1 DEF EventsOK, OutOK
<1>2. eventsIn' = eventsIn \/ \E e : EventOK(e) /\ Post(e)
  <2> USE DEF Ev, EventOK
  <2>1. ASSUME NEW i \in IFace, PortSlave(c, i) PROVE eventsIn' = eventsIn
    BY <2>1 DEF PortSlave
  <2>t. slaveIface[c] # NoIFace => slaveIface[c] \in IFace
    BY DEF TypeOK, IFaceOrNone
  <2>2. CASE PortLost(c)
    <3> DEFINE e == Ev("lost", c, slaveIface[c], "none", 0, proc[c], 0)
    <3>1. eventsIn' = eventsIn \/ (slaveIface[c] # NoIFace /\ Post(e))
      BY <2>2 DEF PortLost
    <3>2. slaveIface[c] # NoIFace => EventOK(e)
      BY <2>t
    <3> HIDE DEF e
    <3> QED BY <3>1, <3>2
  <2>3. ASSUME NEW r \in {"in", "out"}, OffsetLine(c, r)
        PROVE  eventsIn' = eventsIn \/ \E e : EventOK(e) /\ Post(e)
    <3> DEFINE e == Ev("offset", c, slaveIface[c], r, 0, proc[c], 0)
    <3>1. eventsIn' = eventsIn \/ (slaveIface[c] # NoIFace /\ Post(e))
      BY <2>3 DEF OffsetLine
    <3>2. slaveIface[c] # NoIFace => EventOK(e)
      BY <2>t
    <3> HIDE DEF e
    <3> QED BY <3>1, <3>2
  <2>4. CASE OsClockLine(c)
    <3>1. PICK s \in BCStates : Post(Ev("os", c, NoIFace, s, 0, proc[c], 0))
      BY <2>4 DEF OsClockLine
    <3>2. EventOK(Ev("os", c, NoIFace, s, 0, proc[c], 0))
      OBVIOUS
    <3> QED BY <3>1, <3>2
  <2>5. CASE OtherEvent(c)
    <3>1. \A i \in IFace : EventOK(Ev("synce", c, i, "none", 0, proc[c], 0))
      OBVIOUS
    <3>2. \A k \in Class : EventOK(Ev("pmc", c, NoIFace, k, 0, proc[c], 0))
      OBVIOUS
    <3>3. "reset" \in Sources => EventOK(Ev("reset", c, NoIFace, "none", 0, proc[c], 0))
      OBVIOUS
    <3> HIDE DEF Ev, EventOK
    <3> QED BY <2>5, <3>1, <3>2, <3>3 DEF OtherEvent
  <2> QED BY <2>1, <2>2, <2>3, <2>4, <2>5 DEF Input
<1>3. InOK'
  <2>1. CASE eventsIn' = eventsIn
    BY <2>1 DEF EventsOK, InOK
  <2> QED BY <1>2, <2>1, InPost DEF EventsOK
<1> QED BY <1>1, <1>3 DEF EventsOK

LEMMA EventsInvariant == Spec => []EventsOK
<1>1. Init => EventsOK
  BY DEF Init, EventsOK, InOK, OutOK
<1>2. TypeOK /\ EventsOK /\ [Next]_vars => EventsOK'
  <2> SUFFICES ASSUME TypeOK, EventsOK, [Next]_vars PROVE EventsOK'
    OBVIOUS
  <2> USE DEF logVars, applyVars, clockVars
  <2>t. events \in Seq(Events) /\ eventsIn \in Seq(Events)
    BY DEF TypeOK
  <2>1. CASE ProcessEvent
    <3>1. Take /\ eventsIn' = eventsIn
      BY <2>1 DEF ProcessEvent, ProcessReset, ProcessOSClock, ProcessUnregistered, ProcessClockEvent
    <3>2. events # <<>> /\ events' = Tail(events)
      BY <3>1 DEF Take
    <3>3. OutOK'
      BY <2>t, <3>2, ChannelOK DEF EventsOK, OutOK
    <3> QED BY <3>1, <3>3 DEF EventsOK, InOK
  <2>2. CASE Forward
    <3>1. /\ eventsIn # <<>> /\ eventsIn' = Tail(eventsIn)
          /\ events' = Append(events, Head(eventsIn))
      BY <2>2 DEF Forward
    <3>2. EventOK(Head(eventsIn)) /\ InOK'
      BY <2>t, <3>1, ChannelOK DEF EventsOK, InOK
    <3>3. OutOK'
      BY <2>t, <3>1, <3>2, ChannelOK DEF EventsOK, OutOK
    <3> QED BY <3>2, <3>3 DEF EventsOK
  <2>3. ASSUME NEW c \in Cfg, Timer(c) PROVE EventsOK'
    <3>1. eventsIn' = eventsIn
      BY <2>3 DEF Timer, TimerFires, TimerCanceled, TimerPosts
    <3>2. events' = events \/ \E t \in timers : events' = Append(events, Expiry(t))
      BY <2>3 DEF Timer, TimerFires, TimerCanceled, TimerPosts
    <3>3. \A t : EventOK(Expiry(t))
      BY DEF EventOK, Expiry, Ev
    <3>4. OutOK'
      <4>1. CASE events' = events
        BY <4>1 DEF EventsOK, OutOK
      <4>2. CASE \E t \in timers : events' = Append(events, Expiry(t))
        BY <2>t, <3>3, <4>2, ChannelOK DEF EventsOK, OutOK
      <4> QED BY <3>2, <4>1, <4>2
    <3> QED BY <3>1, <3>4 DEF EventsOK, InOK
  <2>4. ASSUME NEW c \in Cfg, Input(c) PROVE EventsOK'
    BY <2>4, InputOK
  <2>5. CASE Apply \/ SyncStatusUpdate \/ UNCHANGED vars
    <3>1. events' = events /\ eventsIn' = eventsIn
      BY <2>5 DEF Apply, RemoveAllClocks, InitializeOffsetMaps, AddClock, StartProcesses,
           SyncStatusUpdate, vars
    <3> QED BY <3>1 DEF EventsOK, InOK, OutOK
  <2> QED BY <2>1, <2>2, <2>3, <2>4, <2>5 DEF Next
<1> QED BY <1>1, <1>2, TypeCorrect, PTL DEF Spec

\* The event a step of the loop takes is a good one.
LEMMA TakeOK == ASSUME TypeOK, EventsOK, Take PROVE EventOK(Head(events)) /\ Head(events) \in Events
<1>1. events \in Seq(Events) /\ events # <<>> /\ \A k \in 1..Len(events) : EventOK(events[k])
  BY DEF TypeOK, Take, EventsOK, OutOK
<1> QED BY <1>1, ChannelOK, TakeFacts

-----------------------------------------------------------------------------
(* Overall state, port state and class.  A reset forgets the whole cache   *)
(* and the OS clock, but only one clock: the first and the last of these   *)
(* are for a node with one config, or one without resets.                  *)

OneConfigOrNoReset == (\A a, b \in Cfg : a = b) \/ "reset" \notin Sources

\* An event keeps the overall state what it follows from.
LEMMA OverallAfter ==
  ASSUME NEW b \in BC, NEW e \in Events, e.kind \notin {"reset", "os"}, NEW s \in BCStates,
         b.overall = WorstOfState(b.syncState, s)
  PROVE  AddEvent(b, e, s).overall = WorstOfState(AddEvent(b, e, s).syncState, s)
<1> DEFINE d == AddEvent(b, e, s)
           m == CASE e.kind = "pmc"     -> [b EXCEPT !.clockClass = e.val]
                  [] e.kind = "expired" -> handleHoldoverExpired(b, e.gen)
                  [] e.kind = "lost"    -> sourceLost(b)
                  [] e.kind = "offset"  -> offsetSample(b, e)
                  [] OTHER              -> withIFace(b, e)
<1>1. d = IF Reconciles(b, e) THEN [m EXCEPT !.overall = WorstOfState(m.syncState, s)] ELSE m
  BY DEF AddEvent
<1>2. m \in BC
  <2>1. e.kind = "lost" => m \in BC
    BY ArmFacts DEF sourceLost, BC, BCStates, LOCKED, HOLDOVER
  <2>2. e.kind = "offset" => m \in BC
    <3>1. withIFace(b, e) \in BC
      BY DEF withIFace, BC, Events
    <3> QED BY <3>1, CancelFacts DEF offsetSample, BC, BCStates
  <2>3. e.kind = "expired" => m \in BC
    BY DEF handleHoldoverExpired, BC, BCStates
  <2>4. e.kind = "pmc" => m \in BC
    BY DEF BC, Events, ClassOrNone
  <2>5. e.kind \notin {"lost", "offset", "expired", "pmc"} => m \in BC
    BY DEF withIFace, BC, Events
  <2> QED BY <2>1, <2>2, <2>3, <2>4, <2>5
<1>3. CASE Reconciles(b, e)
  <2> HIDE DEF m
  <2>1. d.overall = WorstOfState(m.syncState, s) /\ d.syncState = m.syncState
    BY <1>1, <1>2, <1>3 DEF BC
  <2> QED BY <2>1
<1>4. CASE ~Reconciles(b, e)
  <2>1. m.syncState = b.syncState /\ m.overall = b.overall
    BY <1>4 DEF Reconciles, handleHoldoverExpired, withIFace, BC
  <2> QED BY <1>1, <1>4, <2>1
<1> QED BY <1>3, <1>4

\* A clock's overall state follows from its state and the OS clock's (bc.go
\* onStateChanged, SystemClockUpdate).
THEOREM OverallIsCurrent == ASSUME OneConfigOrNoReset PROVE Spec => []OverallCurrent
<1>1. Init => OverallCurrent
  BY DEF Init, OverallCurrent
<1>2. TypeOK /\ EventsOK /\ OverallCurrent /\ [Next]_vars => OverallCurrent'
  <2> SUFFICES ASSUME TypeOK, EventsOK, OverallCurrent, [Next]_vars, NEW x \in clocks'
               PROVE  bc'[x].overall = WorstOfState(bc'[x].syncState, os'.state)
    BY DEF OverallCurrent
  <2> USE DEF logVars, applyVars, clockVars
  <2> DEFINE e == Head(events)
  <2>t. /\ bc \in [Cfg -> BC] /\ os \in OSTypes /\ clocks \in SUBSET Cfg
    BY DEF TypeOK, OSTypes
  <2>i. \A c \in clocks : bc[c].overall = WorstOfState(bc[c].syncState, os.state)
    BY DEF OverallCurrent
  <2>1. CASE ProcessReset
    <3>1. Take /\ e.kind = "reset" /\ clocks' = clocks
      BY <2>1 DEF ProcessReset
    <3>2. "reset" \in Sources /\ e.cfg \in Cfg
      BY <3>1, TakeOK DEF EventOK, Events
    <3>3. e.cfg = x /\ x \in Cfg /\ x \in clocks
      BY <2>t, <3>1, <3>2 DEF OneConfigOrNoReset
    <3>4. bc' = [bc EXCEPT ![x] = resetBC(@)] /\ os' = NewOsClock
      BY <2>1, <3>3 DEF ProcessReset
    <3>5. bc'[x] = resetBC(bc[x])
      BY <2>t, <3>3, <3>4
    <3>6. bc'[x].overall = FREERUN /\ bc'[x].syncState = FREERUN /\ os'.state = FREERUN
      BY <3>4, <3>5 DEF resetBC, NewBC, NewOsClock
    <3> QED BY <3>6 DEF WorstOfState, FREERUN, NOTSET
  <2>2. CASE ProcessOSClock
    <3> DEFINE o == IF e.val = NOTSET THEN os ELSE [os EXCEPT !.state = e.val]
    <3>1. /\ clocks' = clocks /\ x \in Cfg
          /\ \/ os'.state = os.state /\ bc' = bc
             \/ bc' = [c \in Cfg |-> IF c \in clocks
                                     THEN [bc[c] EXCEPT !.overall = WorstOfState(bc[c].syncState, os'.state)]
                                     ELSE bc[c]]
      BY <2>t, <2>2 DEF ProcessOSClock
    <3>2. CASE os'.state = os.state /\ bc' = bc
      BY <2>i, <3>1, <3>2
    <3>3. CASE bc' = [c \in Cfg |-> IF c \in clocks
                                   THEN [bc[c] EXCEPT !.overall = WorstOfState(bc[c].syncState, os'.state)]
                                   ELSE bc[c]]
      <4>1. bc'[x] = [bc[x] EXCEPT !.overall = WorstOfState(bc[x].syncState, os'.state)] /\ bc[x] \in BC
        BY <2>t, <3>1, <3>3
      <4> QED BY <4>1 DEF BC
    <3> QED BY <3>1, <3>2, <3>3
  <2>3. CASE ProcessClockEvent
    <3> DEFINE c == e.cfg
               d == AddEvent(bc[c], e, os.state)
    <3>1. /\ clocks' = clocks /\ bc' = [bc EXCEPT ![c] = d] /\ c \in clocks /\ Take
          /\ e.kind \notin {"reset", "os"} /\ os' = E3After(clocks, bc', os)
      BY <2>3 DEF ProcessClockEvent
    <3>2. e \in Events /\ c \in Cfg /\ bc[c] \in BC /\ os.state \in BCStates
      BY <2>t, <3>1, TakeFacts DEF OSTypes
    <3>3. d \in BC
      BY <3>2, AddEventFacts
    <3>4. d.overall = WorstOfState(d.syncState, os.state)
      BY <2>i, <3>1, <3>2, OverallAfter
    <3> HIDE DEF d
    <3>5. bc' \in [Cfg -> BC]
      BY <2>t, <3>1, <3>3
    <3>6. os'.state = os.state
      BY <2>t, <3>1, <3>5, E3AfterType
    <3> QED BY <2>t, <2>i, <3>1, <3>2, <3>4, <3>6
  <2>4. ASSUME NEW c \in Cfg, AddClock(c)
        PROVE  bc'[x].overall = WorstOfState(bc'[x].syncState, os'.state)
    <3>1. clocks' = clocks \cup {c} /\ bc' = [bc EXCEPT ![c] = NewBC] /\ os' = os
      BY <2>4 DEF AddClock
    <3>2. CASE x = c
      BY <2>t, <3>1, <3>2 DEF NewBC, WorstOfState
    <3>3. CASE x # c
      BY <2>t, <2>i, <3>1, <3>3
    <3> QED BY <3>2, <3>3
  <2>5. CASE \/ ProcessUnregistered \/ Forward \/ InitializeOffsetMaps \/ StartProcesses
             \/ SyncStatusUpdate \/ \E c \in Cfg : Timer(c) \/ Input(c)
    <3>1. UNCHANGED <<clocks, bc, os>>
      BY <2>5 DEF ProcessUnregistered, Forward, InitializeOffsetMaps, StartProcesses,
           SyncStatusUpdate, Timer, TimerFires, TimerCanceled, TimerPosts, Input, PortSlave,
           PortLost, OffsetLine, OsClockLine, OtherEvent
    <3> QED BY <2>i, <3>1
  <2>6. CASE RemoveAllClocks
    BY <2>6 DEF RemoveAllClocks
  <2>7. CASE UNCHANGED vars
    BY <2>i, <2>7 DEF vars
  <2> QED BY <2>1, <2>2, <2>3, <2>4, <2>5, <2>6, <2>7 DEF Next, ProcessEvent, Apply
<1> QED BY <1>1, <1>2, TypeCorrect, EventsInvariant, PTL DEF Spec

\* The entries of ports and classes after a clock event was published.
LEMMA PublishedEntries ==
  ASSUME NEW st \in StoreTypes, NEW c \in Cfg, NEW e \in Events, NEW b \in BC, NEW d \in BC, NEW o, NEW p
  PROVE  LET q == EmitE3(Publish(st, c, e, b, d), o, p)
         IN  /\ \A x \in Cfg, i \in IFaceOrNone :
                  q.ptp[x][i] = IF x = c /\ i = portOf(b, e) THEN PortEntry(st.ptp[x][i], b, d) ELSE st.ptp[x][i]
             /\ \A x \in Cfg, i \in IFaceOrNone :
                  q.class[x][i] = IF x = c /\ i = d.iface THEN ClassEntry(st.class[x][i], b, d) ELSE st.class[x][i]
<1> DEFINE pub == Publish(st, c, e, b, d)
           port == [st.ptp EXCEPT ![c][portOf(b, e)] = PortEntry(@, b, d)]
           class == [st.class EXCEPT ![c][d.iface] = ClassEntry(@, b, d)]
<1>1. pub.ptp = port /\ pub.class = class
  BY DEF Publish, StoreTypes
<1>2. pub \in [ptp : {pub.ptp}, sync : {pub.sync}, class : {pub.class}, os : {pub.os}]
  BY DEF Publish, StoreTypes
<1> HIDE DEF pub
<1>3. EmitE3(pub, o, p).ptp = pub.ptp /\ EmitE3(pub, o, p).class = pub.class
  BY <1>2 DEF EmitE3
<1>4. st.ptp \in [Cfg -> [IFaceOrNone -> Entries]] /\ st.class \in [Cfg -> [IFaceOrNone -> Class \cup {NoEntry}]]
  BY DEF StoreTypes
<1>5. \A x \in Cfg, i \in IFaceOrNone :
        port[x][i] = IF x = c /\ i = portOf(b, e) THEN PortEntry(st.ptp[x][i], b, d) ELSE st.ptp[x][i]
  BY <1>4
<1>6. \A x \in Cfg, i \in IFaceOrNone :
        class[x][i] = IF x = c /\ i = d.iface THEN ClassEntry(st.class[x][i], b, d) ELSE st.class[x][i]
  BY <1>4
<1> HIDE DEF port, class
<1> QED BY <1>1, <1>3, <1>5, <1>6 DEF pub

\* A clock in LOCKED or HOLDOVER knows its interface, and publishes a
\* transition under an interface.
HasIFace(b) == b.syncState \in {LOCKED, HOLDOVER} => b.iface \in IFace
LEMMA PortFacts ==
  ASSUME NEW b \in BC, HasIFace(b), NEW e \in Events, EventOK(e), e.kind \notin {"reset", "os"}, NEW s
  PROVE  /\ HasIFace(AddEvent(b, e, s))
         /\ AddEvent(b, e, s).syncState # b.syncState => portOf(b, e) \in IFace
<1> DEFINE d == AddEvent(b, e, s)
           m == CASE e.kind = "pmc"     -> [b EXCEPT !.clockClass = e.val]
                  [] e.kind = "expired" -> handleHoldoverExpired(b, e.gen)
                  [] e.kind = "lost"    -> sourceLost(b)
                  [] e.kind = "offset"  -> offsetSample(b, e)
                  [] OTHER              -> withIFace(b, e)
<1>1. d = IF Reconciles(b, e) THEN [m EXCEPT !.overall = WorstOfState(m.syncState, s)] ELSE m
  BY DEF AddEvent
<1>s. LOCKED # HOLDOVER /\ FREERUN \notin {LOCKED, HOLDOVER} /\ LOCKED \in BCStates
      /\ HOLDOVER \in BCStates /\ FREERUN \in BCStates
  BY DEF LOCKED, HOLDOVER, FREERUN, BCStates
<1>2. /\ m \in BC
      /\ m.syncState \in {LOCKED, HOLDOVER} => m.iface \in IFace
      /\ m.syncState # b.syncState => portOf(b, e) \in IFace
  <2> USE <1>s DEF HasIFace
  <2>1. CASE e.kind = "lost"
    <3>1. m = sourceLost(b) /\ portOf(b, e) = e.iface /\ e.iface \in IFace
      BY <2>1 DEF portOf, EventOK
    <3>2. CASE b.syncState = LOCKED
      <4> DEFINE h == [b EXCEPT !.syncState = HOLDOVER]
      <4>1. m = armHoldoverTimer(h)
        BY <3>1, <3>2 DEF sourceLost
      <4>2. h \in BC /\ h.iface = b.iface
        BY DEF BC
      <4> HIDE DEF h, m
      <4>3. m \in BC
        BY <4>1, <4>2, ArmFacts
      <4>4. m.iface = h.iface
        BY <4>1, <4>2 DEF armHoldoverTimer, cancelHoldoverTimer, BC
      <4> QED BY <3>1, <3>2, <4>2, <4>3, <4>4 DEF m
    <3>3. CASE b.syncState # LOCKED
      <4>1. m = b
        BY <3>1, <3>3 DEF sourceLost
      <4> QED BY <4>1
    <3> QED BY <3>2, <3>3
  <2>2. CASE e.kind = "offset"
    <3>1. m = offsetSample(b, e) /\ portOf(b, e) = e.iface /\ e.iface \in IFace
      BY <2>2 DEF portOf, EventOK
    <3> DEFINE w == withIFace(b, e)
    <3>2. w \in BC /\ w.iface = e.iface
      BY DEF withIFace, BC, Events
    <3> HIDE DEF w
    <3>3. cancelHoldoverTimer(w) \in BC /\ cancelHoldoverTimer(w).iface = e.iface
      BY <3>2, CancelFacts DEF cancelHoldoverTimer, BC
    <3>4. m = [cancelHoldoverTimer(w) EXCEPT !.syncState = IF e.val = "in" THEN LOCKED ELSE FREERUN]
      BY <3>1 DEF offsetSample, w
    <3>5. m \in BC /\ m.iface = e.iface
      BY <3>3, <3>4 DEF BC
    <3> QED BY <3>1, <3>5
  <2>3. CASE e.kind = "expired"
    <3>1. m = handleHoldoverExpired(b, e.gen) /\ portOf(b, e) = b.iface
      BY <2>3 DEF portOf
    <3>2. CASE b.syncState = HOLDOVER /\ e.gen = b.gen
      <4>1. m = [b EXCEPT !.syncState = FREERUN, !.armed = FALSE]
        BY <3>1, <3>2 DEF handleHoldoverExpired
      <4> HIDE DEF m
      <4> QED BY <3>1, <3>2, <4>1 DEF BC
    <3>3. CASE ~(b.syncState = HOLDOVER /\ e.gen = b.gen)
      <4>1. m = b
        BY <3>1, <3>3 DEF handleHoldoverExpired
      <4> QED BY <4>1
    <3> QED BY <3>2, <3>3
  <2>4. CASE e.kind = "pmc"
    BY <2>4 DEF BC, Events, ClassOrNone
  <2>5. CASE e.kind \notin {"lost", "offset", "expired", "pmc"}
    <3>1. m = [b EXCEPT !.iface = e.iface] /\ e.kind = "synce"
      BY <2>5 DEF withIFace, Events, Kinds
    <3>2. e.iface \in IFace
      BY <3>1 DEF EventOK
    <3> HIDE DEF m
    <3> QED BY <3>1, <3>2 DEF BC, IFaceOrNone
  <2> QED BY <2>1, <2>2, <2>3, <2>4, <2>5
<1> HIDE DEF m
<1>3. d.syncState = m.syncState /\ d.iface = m.iface
  BY <1>1, <1>2 DEF BC
<1> QED BY <1>2, <1>3 DEF HasIFace

\* Every clock in LOCKED or HOLDOVER knows its interface.
IFacesKnown == \A c \in Cfg : HasIFace(bc[c])

LEMMA IFacesInvariant == Spec => []IFacesKnown
<1>1. Init => IFacesKnown
  BY DEF Init, IFacesKnown, HasIFace, NewBC, NOTSET, LOCKED, HOLDOVER
<1>2. TypeOK /\ EventsOK /\ IFacesKnown /\ [Next]_vars => IFacesKnown'
  <2> SUFFICES ASSUME TypeOK, EventsOK, IFacesKnown, [Next]_vars, NEW x \in Cfg PROVE HasIFace(bc'[x])
    BY DEF IFacesKnown, HasIFace
  <2> USE DEF logVars, applyVars, clockVars
  <2> DEFINE e == Head(events)
  <2>t. bc \in [Cfg -> BC] /\ HasIFace(bc[x]) /\ os \in OSTypes
    BY DEF TypeOK, IFacesKnown, OSTypes
  <2>1. CASE ProcessReset
    <3>1. bc'[x] = bc[x] \/ bc'[x] = resetBC(bc[x])
      BY <2>t, <2>1 DEF ProcessReset
    <3>2. HasIFace(resetBC(bc[x]))
      BY DEF HasIFace, resetBC, NewBC, FREERUN, LOCKED, HOLDOVER
    <3> QED BY <2>t, <3>1, <3>2
  <2>2. CASE ProcessOSClock
    <3>1. bc'[x].syncState = bc[x].syncState /\ bc'[x].iface = bc[x].iface
      BY <2>t, <2>2 DEF ProcessOSClock, BC
    <3> QED BY <2>t, <3>1 DEF HasIFace
  <2>3. CASE ProcessClockEvent
    <3> DEFINE c == e.cfg
    <3>1. Take /\ e.kind \notin {"reset", "os"} /\ bc' = [bc EXCEPT ![c] = AddEvent(bc[c], e, os.state)]
      BY <2>3 DEF ProcessClockEvent
    <3>2. EventOK(e) /\ e \in Events /\ c \in Cfg /\ bc[c] \in BC
      BY <2>t, <3>1, TakeOK DEF Events
    <3>3. HasIFace(bc[c])
      BY <3>2 DEF IFacesKnown
    <3>4. HasIFace(AddEvent(bc[c], e, os.state))
      BY <3>1, <3>2, <3>3, PortFacts
    <3> QED BY <2>t, <3>1, <3>2, <3>4
  <2>4. ASSUME NEW c \in Cfg, AddClock(c) PROVE HasIFace(bc'[x])
    <3>1. bc'[x] = bc[x] \/ bc'[x] = NewBC
      BY <2>t, <2>4 DEF AddClock
    <3>2. HasIFace(NewBC)
      BY DEF HasIFace, NewBC, NOTSET, LOCKED, HOLDOVER
    <3> QED BY <2>t, <3>1, <3>2
  <2>5. CASE \/ ProcessUnregistered \/ Forward \/ InitializeOffsetMaps \/ StartProcesses
             \/ SyncStatusUpdate \/ RemoveAllClocks \/ (\E c \in Cfg : Timer(c) \/ Input(c)) \/ UNCHANGED vars
    <3>1. bc' = bc
      BY <2>5 DEF ProcessUnregistered, Forward, InitializeOffsetMaps, StartProcesses,
           SyncStatusUpdate, Timer, TimerFires, TimerCanceled, TimerPosts, Input, PortSlave,
           PortLost, OffsetLine, OsClockLine, OtherEvent, RemoveAllClocks, vars
    <3> QED BY <2>t, <3>1
  <2> QED BY <2>1, <2>2, <2>3, <2>4, <2>5 DEF Next, ProcessEvent, Apply
<1> QED BY <1>1, <1>2, TypeCorrect, EventsInvariant, PTL DEF Spec

\* Steps that leave the clocks' own states and the ports' and classes' entries.
PortsKept ==
  /\ clocks' = clocks
  /\ \A x \in Cfg : /\ bc'[x].syncState = bc[x].syncState /\ bc'[x].iface = bc[x].iface
                    /\ bc'[x].clockClass = bc[x].clockClass
  /\ store'.ptp = store.ptp /\ store'.class = store.class
LEMMA KeepSteps ==
  ASSUME TypeOK,
         \/ ProcessOSClock \/ ProcessUnregistered \/ Forward \/ InitializeOffsetMaps \/ StartProcesses
         \/ SyncStatusUpdate \/ (\E c \in Cfg : Timer(c) \/ Input(c)) \/ UNCHANGED vars
  PROVE  PortsKept
<1> USE DEF logVars, applyVars, clockVars
<1>t. bc \in [Cfg -> BC] /\ store \in StoreTypes
  BY DEF TypeOK, StoreTypes
<1>1. CASE ProcessOSClock
  <2> DEFINE e == Head(events)
             o == IF e.val = NOTSET THEN os ELSE [os EXCEPT !.state = e.val]
             st == EmitE3(store, o, os')
  <2>1. st.ptp = store.ptp /\ st.class = store.class
    BY <1>t DEF EmitE3, StoreTypes
  <2>2. st \in [ptp : {st.ptp}, sync : {st.sync}, class : {st.class}, os : {st.os}]
    BY <1>t DEF EmitE3, StoreTypes
  <2>3. store' = st \/ store' = [st EXCEPT !.sync = [c \in Cfg |-> OverallEntry(@[c], bc[c], bc'[c])]]
    BY <1>1 DEF ProcessOSClock
  <2> HIDE DEF st
  <2>4. store'.ptp = st.ptp /\ store'.class = st.class
    BY <2>2, <2>3
  <2>5. \A x \in Cfg : /\ bc'[x].syncState = bc[x].syncState /\ bc'[x].iface = bc[x].iface
                       /\ bc'[x].clockClass = bc[x].clockClass
    BY <1>t, <1>1 DEF ProcessOSClock, BC
  <2>6. clocks' = clocks
    BY <1>1 DEF ProcessOSClock
  <2> QED BY <2>1, <2>4, <2>5, <2>6 DEF PortsKept
<1>2. CASE \/ ProcessUnregistered \/ Forward \/ InitializeOffsetMaps \/ StartProcesses
           \/ SyncStatusUpdate \/ (\E c \in Cfg : Timer(c) \/ Input(c)) \/ UNCHANGED vars
  <2>1. UNCHANGED <<clocks, bc, store>>
    BY <1>2 DEF ProcessUnregistered, Forward, InitializeOffsetMaps, StartProcesses,
         SyncStatusUpdate, Timer, TimerFires, TimerCanceled, TimerPosts, Input, PortSlave,
         PortLost, OffsetLine, OsClockLine, OtherEvent, vars
  <2> QED BY <2>1 DEF PortsKept
<1> QED BY <1>1, <1>2

\* On a node with one interface, the published port state of a clock is its own
\* (clock.go, bc.go): a transition replaces the entry under that interface.
THEOREM PortStatePublished == ASSUME \A i, j \in IFace : i = j PROVE Spec => []PublishedPortState
<1>1. Init => PublishedPortState
  BY DEF Init, PublishedPortState
<1>2. TypeOK /\ EventsOK /\ IFacesKnown /\ PublishedPortState /\ [Next]_vars => PublishedPortState'
  <2> SUFFICES ASSUME TypeOK, EventsOK, IFacesKnown, PublishedPortState, [Next]_vars,
                      NEW x \in clocks', NEW i \in IFace, bc'[x].syncState # NOTSET
               PROVE  store'.ptp[x][i] \in {NoEntry, PtpStateToIPCState(bc'[x].syncState)}
    BY DEF PublishedPortState
  <2> USE DEF logVars, applyVars, clockVars
  <2> DEFINE e == Head(events)
  <2>t. /\ bc \in [Cfg -> BC] /\ os \in OSTypes /\ store \in StoreTypes /\ clocks \in SUBSET Cfg
        /\ i \in IFaceOrNone
    BY DEF TypeOK, OSTypes, StoreTypes, IFaceOrNone
  <2>i. x \in clocks /\ bc[x].syncState # NOTSET =>
          store.ptp[x][i] \in {NoEntry, PtpStateToIPCState(bc[x].syncState)}
    BY DEF PublishedPortState
  <2>1. CASE ProcessReset
    <3>1. clocks' = clocks /\ store' = EmptyStore
      BY <2>1 DEF ProcessReset
    <3> QED BY <2>t, <3>1 DEF EmptyStore
  <2>2. CASE ProcessClockEvent
    <3> DEFINE c == e.cfg
               b == bc[c]
               d == AddEvent(b, e, os.state)
    <3>1. /\ clocks' = clocks /\ bc' = [bc EXCEPT ![c] = d] /\ Take /\ e.kind \notin {"reset", "os"}
          /\ store' = EmitE3(Publish(store, c, e, b, d), os, os')
      BY <2>2 DEF ProcessClockEvent
    <3>2. EventOK(e) /\ e \in Events /\ c \in Cfg /\ b \in BC /\ os.state \in BCStates /\ x \in Cfg
      BY <2>t, <3>1, TakeOK DEF Events, OSTypes
    <3>3. HasIFace(b)
      BY <3>2 DEF IFacesKnown
    <3>4. d \in BC
      BY <3>2, AddEventFacts
    <3>5. d.syncState # b.syncState => portOf(b, e) = i
      BY <3>1, <3>2, <3>3, PortFacts
    <3> HIDE DEF d, b
    <3>6. store'.ptp[x][i] = IF x = c /\ i = portOf(b, e) THEN PortEntry(store.ptp[x][i], b, d) ELSE store.ptp[x][i]
      BY <2>t, <3>1, <3>2, <3>4, PublishedEntries
    <3>7. CASE x = c /\ d.syncState # b.syncState
      <4>1. store'.ptp[x][i] = PtpStateToIPCState(d.syncState)
        BY <3>5, <3>6, <3>7 DEF PortEntry
      <4>2. bc'[x] = d
        BY <2>t, <3>1, <3>2, <3>7
      <4> QED BY <4>1, <4>2
    <3>8. CASE ~(x = c /\ d.syncState # b.syncState)
      <4>1. store'.ptp[x][i] = store.ptp[x][i]
        BY <3>6, <3>8 DEF PortEntry
      <4>2. bc'[x].syncState = bc[x].syncState
        <5>1. CASE x = c
          BY <2>t, <3>1, <3>2, <3>8, <5>1 DEF b
        <5>2. CASE x # c
          BY <2>t, <3>1, <3>2, <5>2
        <5> QED BY <5>1, <5>2
      <4> QED BY <2>i, <3>1, <4>1, <4>2
    <3> QED BY <3>7, <3>8
  <2>3. ASSUME NEW c \in Cfg, AddClock(c)
        PROVE  store'.ptp[x][i] \in {NoEntry, PtpStateToIPCState(bc'[x].syncState)}
    <3>1. x # c
      BY <2>t, <2>3 DEF AddClock, NewBC
    <3> QED BY <2>t, <2>i, <2>3, <3>1 DEF AddClock
  <2>4. CASE \/ ProcessOSClock \/ ProcessUnregistered \/ Forward \/ InitializeOffsetMaps \/ StartProcesses
             \/ SyncStatusUpdate \/ (\E c \in Cfg : Timer(c) \/ Input(c)) \/ UNCHANGED vars
    <3>1. PortsKept
      BY <2>4, KeepSteps
    <3> QED BY <2>t, <2>i, <3>1 DEF PortsKept
  <2>5. CASE RemoveAllClocks
    BY <2>5 DEF RemoveAllClocks
  <2> QED BY <2>1, <2>2, <2>3, <2>4, <2>5 DEF Next, ProcessEvent, Apply
<1> QED BY <1>1, <1>2, TypeCorrect, EventsInvariant, IFacesInvariant, PTL DEF Spec

\* A clock that knows its class and its interface has published the class
\* (bc.go, publishClockClass), whichever it learned first.
THEOREM ClassIsPublished == ASSUME OneConfigOrNoReset PROVE Spec => []ClassPublished
<1>1. Init => ClassPublished
  BY DEF Init, ClassPublished
<1>2. TypeOK /\ EventsOK /\ ClassPublished /\ [Next]_vars => ClassPublished'
  <2> SUFFICES ASSUME TypeOK, EventsOK, ClassPublished, [Next]_vars, NEW x \in clocks',
                      bc'[x].clockClass # NoClass, bc'[x].iface # NoIFace
               PROVE  \E i \in IFace : store'.class[x][i] = bc'[x].clockClass
    BY DEF ClassPublished
  <2> USE DEF logVars, applyVars, clockVars
  <2> DEFINE e == Head(events)
  <2>t. /\ bc \in [Cfg -> BC] /\ os \in OSTypes /\ store \in StoreTypes /\ clocks \in SUBSET Cfg
        /\ IFace \subseteq IFaceOrNone
    BY DEF TypeOK, OSTypes, StoreTypes, IFaceOrNone
  <2>i. x \in clocks /\ bc[x].clockClass # NoClass /\ bc[x].iface # NoIFace =>
          \E i \in IFace : store.class[x][i] = bc[x].clockClass
    BY DEF ClassPublished
  <2>1. CASE ProcessReset
    <3>1. Take /\ e.kind = "reset" /\ clocks' = clocks
      BY <2>1 DEF ProcessReset
    <3>2. "reset" \in Sources /\ e.cfg \in Cfg
      BY <3>1, TakeOK DEF EventOK, Events
    <3>3. e.cfg = x /\ x \in Cfg /\ x \in clocks
      BY <2>t, <3>1, <3>2 DEF OneConfigOrNoReset
    <3>4. bc' = [bc EXCEPT ![x] = resetBC(@)]
      BY <2>1, <3>3 DEF ProcessReset
    <3>5. bc'[x] = resetBC(bc[x])
      BY <2>t, <3>3, <3>4
    <3>6. bc'[x].clockClass = NoClass
      BY <3>5 DEF resetBC, NewBC
    <3> QED BY <3>6
  <2>2. CASE ProcessClockEvent
    <3> DEFINE c == e.cfg
               b == bc[c]
               d == AddEvent(b, e, os.state)
    <3>1. /\ clocks' = clocks /\ bc' = [bc EXCEPT ![c] = d] /\ Take
          /\ store' = EmitE3(Publish(store, c, e, b, d), os, os')
      BY <2>2 DEF ProcessClockEvent
    <3>2. e \in Events /\ c \in Cfg /\ b \in BC /\ os.state \in BCStates /\ x \in Cfg
      BY <2>t, <3>1, TakeOK DEF Events, OSTypes
    <3>3. d \in BC
      BY <3>2, AddEventFacts
    <3> HIDE DEF d, b
    <3>4. \A i \in IFace :
            store'.class[x][i] = IF x = c /\ i = d.iface THEN ClassEntry(store.class[x][i], b, d) ELSE store.class[x][i]
      BY <2>t, <3>1, <3>2, <3>3, PublishedEntries
    <3>5. CASE x = c
      <4>1. bc'[x] = d /\ d.iface \in IFace
        BY <2>t, <3>1, <3>2, <3>3, <3>5 DEF BC, IFaceOrNone
      <4>2. CASE b.clockClass # d.clockClass \/ b.iface = NoIFace
        <5>1. store'.class[x][d.iface] = d.clockClass
          BY <3>4, <3>5, <4>1, <4>2 DEF ClassEntry
        <5> QED BY <4>1, <5>1
      <4>3. CASE ~(b.clockClass # d.clockClass \/ b.iface = NoIFace)
        <5>1. \A i \in IFace : store'.class[x][i] = store.class[x][i]
          BY <3>4, <4>3 DEF ClassEntry
        <5>2. \E i \in IFace : store.class[x][i] = d.clockClass
          BY <2>i, <3>1, <3>5, <4>1, <4>3 DEF b
        <5> QED BY <4>1, <5>1, <5>2
      <4> QED BY <4>2, <4>3
    <3>6. CASE x # c
      <4>1. bc'[x] = bc[x] /\ \A i \in IFace : store'.class[x][i] = store.class[x][i]
        BY <2>t, <3>1, <3>2, <3>4, <3>6
      <4> QED BY <2>i, <3>1, <4>1
    <3> QED BY <3>5, <3>6
  <2>3. ASSUME NEW c \in Cfg, AddClock(c)
        PROVE  \E i \in IFace : store'.class[x][i] = bc'[x].clockClass
    <3>1. x # c
      BY <2>t, <2>3 DEF AddClock, NewBC
    <3> QED BY <2>t, <2>i, <2>3, <3>1 DEF AddClock
  <2>4. CASE \/ ProcessOSClock \/ ProcessUnregistered \/ Forward \/ InitializeOffsetMaps \/ StartProcesses
             \/ SyncStatusUpdate \/ (\E c \in Cfg : Timer(c) \/ Input(c)) \/ UNCHANGED vars
    <3>1. PortsKept
      BY <2>4, KeepSteps
    <3> QED BY <2>t, <2>i, <3>1 DEF PortsKept
  <2>5. CASE RemoveAllClocks
    BY <2>5 DEF RemoveAllClocks
  <2> QED BY <2>1, <2>2, <2>3, <2>4, <2>5 DEF Next, ProcessEvent, Apply
<1> QED BY <1>1, <1>2, TypeCorrect, EventsInvariant, PTL DEF Spec
=============================================================================
