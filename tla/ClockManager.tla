---------------------------- MODULE ClockManager ----------------------------
(***************************************************************************)
(* The event loop of pkg/clockmgr with the boundary and ordinary clocks of *)
(* pkg/clock/bc.go, the OS clock, the holdover timers, the two event       *)
(* channels, the log parser that feeds them, and the re-application of     *)
(* profiles by the daemon.                                                 *)
(*                                                                         *)
(*   log parser --eventsIn--> ProcessManager --events--> ProcessEvents     *)
(*   holdover timer goroutines ----------------^                           *)
(*                                                                         *)
(* A sender on eventsIn drops its event when the channel is full; the      *)
(* ProcessManager and the timers wait for room in events.                  *)
(*                                                                         *)
(* History: inst[c] numbers the clock objects created for config c, proc[c]*)
(* is the object whose processes are running, holdovers[c] counts the      *)
(* holdovers entered under config c.  No guard but the bounds reads them;  *)
(* the fields inst and nth of timers and events carry them.                *)
(***************************************************************************)
EXTENDS Naturals, Sequences, FiniteSets, PTPState

CONSTANTS
  Cfg,          \* config names (ptp4l.N.config)
  IFace,        \* network interfaces
  Class,        \* clock classes a parent data set can carry
  NoClass,      \* the uninitialized clock class, 0
  Sources,      \* kinds of events the node's processes besides ptp4l produce
  NoIFace,      \* the empty interface name
  NoEntry,      \* an absent entry of the IPC cache
  InCap,        \* capacity of eventsIn  (100 in daemon.go)
  Cap,          \* capacity of events    (100 in daemon.go)
  MaxHoldovers, \* bound: source losses are reported while fewer holdovers were entered
  MaxApplies    \* bound: profile applications begun

ASSUME CMAssumption ==
  /\ NoIFace \notin IFace
  /\ Sources \subseteq {"synce", "pmc", "os", "summary", "reset"}
  /\ NoClass \notin Class
  /\ NoEntry \notin Class \cup PTPStates
  /\ InCap \in Nat \ {0} /\ Cap \in Nat \ {0}
  /\ MaxHoldovers \in Nat /\ MaxApplies \in Nat

VARIABLES
  clocks,     \* the config names with a registered clock
  bc,         \* bc[c]: the clock object of config c
  os,         \* the shared OsClock: State and E3State
  store,      \* ipc.Cache.store, one component per message type
  timers,     \* holdover timer goroutines that have not ended
  eventsIn, events,
  slaveIface, \* slaveIface[c]: follower interface, from the SLAVE transition
  masterSrc,  \* masterSrc[c]: masterOffsetSource of c is ptp4l
  portUp,     \* portUp[c]: a port of ptp4l is in SLAVE state
  syncStatus, \* a signal is pending in syncStatusCh
  apply,      \* where applyNodePTPProfiles is
  applies,    \* profile applications begun
  inst, proc, holdovers   \* history

clockVars == <<clocks, bc, os, store, timers, syncStatus, holdovers>>
logVars   == <<slaveIface, masterSrc, portUp>>
applyVars == <<apply, applies, inst, proc>>
vars == <<clockVars, eventsIn, events, logVars, applyVars>>

BCStates == {NOTSET, FREERUN, HOLDOVER, LOCKED}
ClassOrNone == Class \cup {NoClass}
IFaceOrNone == IFace \cup {NoIFace}

NewBC == [syncState |-> NOTSET, overall |-> NOTSET, iface |-> NoIFace,
          clockClass |-> NoClass, armed |-> FALSE, gen |-> 0]

\* Events.  The fields iface, val, gen, inst and nth are read only for the
\* kinds that carry them.
Kinds == {"offset", "lost", "synce", "pmc", "os", "reset", "expired"}
Ev(k, c, i, v, g, n, h) ==
  [kind |-> k, cfg |-> c, iface |-> i, val |-> v, gen |-> g, inst |-> n, nth |-> h]

EmptyStore ==
  [ptp   |-> [c \in Cfg |-> [i \in IFaceOrNone |-> NoEntry]],
   sync  |-> [c \in Cfg |-> NoEntry],
   class |-> [c \in Cfg |-> [i \in IFaceOrNone |-> NoEntry]],
   os    |-> NoEntry]

-----------------------------------------------------------------------------
(* Boundary clock (bc.go): the object after an event, and its messages.    *)

cancelHoldoverTimer(b) ==
  IF b.armed THEN [b EXCEPT !.armed = FALSE, !.gen = @ + 1] ELSE b

armHoldoverTimer(b) ==
  LET d == cancelHoldoverTimer(b) IN [d EXCEPT !.armed = TRUE, !.gen = @ + 1]

\* The follower interface is recorded from any event that reports one and is
\* not a source loss.
withIFace(b, e) == [b EXCEPT !.iface = e.iface]

sourceLost(b) ==
  IF b.syncState = LOCKED
  THEN armHoldoverTimer([b EXCEPT !.syncState = HOLDOVER])
  ELSE b

\* e.val is the verdict of isOffsetInRange on the sample, "in" or "out".
offsetSample(b, e) ==
  [cancelHoldoverTimer(withIFace(b, e))
     EXCEPT !.syncState = IF e.val = "in" THEN LOCKED ELSE FREERUN]

handleAnyExpiry(b, gen) ==
  IF b.syncState # HOLDOVER
  THEN b
  ELSE [b EXCEPT !.syncState = FREERUN, !.armed = FALSE]
handleHoldoverExpired(b, gen) ==
  IF b.syncState # HOLDOVER \/ gen # b.gen
  THEN b
  ELSE [b EXCEPT !.syncState = FREERUN, !.armed = FALSE]

ReconcilesOnInput(b, e) == e.kind \in {"lost", "offset"}
\* onStateChanged runs: the overall state is reconciled with the OS clock.
Reconciles(b, e) ==
  \/ e.kind \in {"lost", "offset"}
  \/ e.kind = "expired" /\ b.syncState = HOLDOVER /\ e.gen = b.gen

AddEvent(b, e, osState) ==
  LET d == CASE e.kind = "pmc"     -> [b EXCEPT !.clockClass = e.val]
             [] e.kind = "expired" -> handleHoldoverExpired(b, e.gen)
             [] e.kind = "lost"    -> sourceLost(b)
             [] e.kind = "offset"  -> offsetSample(b, e)
             [] OTHER              -> withIFace(b, e)
  IN  IF Reconciles(b, e)
      THEN [d EXCEPT !.overall = WorstOfState(d.syncState, osState)]
      ELSE d

\* The interface under which a transition is published.
portOf(b, e) == IF e.kind = "expired" THEN b.iface ELSE e.iface

\* Cache entries after b became d; old is the entry before.  The class waits
\* for an interface: it is sent when either changes and both are known.
PortEntryAfterFirst(old, b, d) ==
  IF b.syncState \notin {NOTSET, d.syncState} THEN PtpStateToIPCState(d.syncState) ELSE old
PortEntry(old, b, d) ==
  IF d.syncState # b.syncState THEN PtpStateToIPCState(d.syncState) ELSE old
OverallEntryStale(old, b, d) ==
  IF d.overall # b.overall THEN PtpStateToIPCState(b.overall) ELSE old
OverallEntry(old, b, d) ==
  IF d.overall # b.overall THEN PtpStateToIPCState(d.overall) ELSE old
ClassEntryOnChange(old, b, d) ==
  IF d.iface # NoIFace /\ b.clockClass # d.clockClass THEN d.clockClass ELSE old
ClassEntry(old, b, d) ==
  IF /\ d.iface # NoIFace /\ d.clockClass # NoClass
     /\ b.clockClass # d.clockClass \/ b.iface = NoIFace
  THEN d.clockClass ELSE old

Publish(st, c, e, b, d) ==
  [st EXCEPT !.ptp[c][portOf(b, e)] = PortEntry(@, b, d),
             !.sync[c]              = OverallEntry(@, b, d),
             !.class[c][d.iface]    = ClassEntry(@, b, d)]

resetBC(b) ==
  [NewBC EXCEPT !.syncState = FREERUN, !.overall = FREERUN,
                !.gen = cancelHoldoverTimer(b).gen]

-----------------------------------------------------------------------------
(* OS clock and the node-wide E3 state (osclock.go, clockmgr.go).          *)

NewOsClock == [state |-> FREERUN, e3 |-> NOTSET]

worstClockState(cs, b) == WorstOfPtpStates([c \in cs |-> b[c].syncState])

DerivedE3(cs, b, osState) ==
  IF cs = {} THEN osState ELSE WorstOfState(worstClockState(cs, b), osState)

\* emitOSClockState: the OS clock and the cache after it.
E3After(cs, b, o) ==
  LET e == DerivedE3(cs, b, o.state)
  IN  IF e = NOTSET THEN o ELSE [o EXCEPT !.e3 = e]
EmitDiscipliningState(st, o, p) ==
  [st EXCEPT !.os = IF p.e3 # o.e3 THEN PtpStateToIPCState(p.state) ELSE @]
EmitE3(st, o, p) ==
  [st EXCEPT !.os = IF p.e3 # o.e3 THEN PtpStateToIPCState(p.e3) ELSE @]

-----------------------------------------------------------------------------
(* ProcessEvent, one action per kind of event.                             *)

Expiry(t) == Ev("expired", t.cfg, NoIFace, "none", t.gen, t.inst, t.nth)

\* Goroutines after bc[c] changed from b to d, in a step in which the clock is
\* in its nth holdover: the channel of a timer that is no longer the armed one
\* is closed, and a newly armed timer is started.
TimersAfter(c, b, d, nth) ==
  LET Owned(t) == t.cfg = c /\ t.inst = inst[c] /\ t.gen = b.gen
      kept == {[t EXCEPT !.canceled = @ \/ (b.armed /\ d.gen # b.gen /\ Owned(t))] : t \in timers}
  IN  IF d.armed /\ d.gen # b.gen
      THEN kept \cup {[cfg |-> c, inst |-> inst[c], gen |-> d.gen, nth |-> nth,
                       canceled |-> FALSE, fired |-> FALSE]}
      ELSE kept

Take == events # <<>> /\ events' = Tail(events)

\* reset(): the cache of every profile goes, the OS clock with the clock.
ProcessReset ==
  LET e == Head(events)
      c == e.cfg
  IN  /\ Take
      /\ e.kind = "reset"
      /\ store' = EmptyStore
      /\ IF c \in clocks
         THEN /\ bc' = [bc EXCEPT ![c] = resetBC(@)]
              /\ timers' = TimersAfter(c, bc[c], resetBC(bc[c]), 0)
              /\ os' = NewOsClock
         ELSE /\ os' = [os EXCEPT !.e3 = NOTSET]
              /\ UNCHANGED <<bc, timers>>
      /\ UNCHANGED <<clocks, syncStatus, holdovers, eventsIn, logVars, applyVars>>

\* handleOSClockEvent: e.val is the state OsClock.AddEvent evaluated, NOTSET
\* while its filter debounces.
ProcessOSClock ==
  LET e == Head(events)
      o == IF e.val = NOTSET THEN os ELSE [os EXCEPT !.state = e.val]
      p == E3After(clocks, bc, o)
      Update(b) == [b EXCEPT !.overall = WorstOfState(b.syncState, p.state)]
  IN  /\ Take
      /\ e.kind = "os"
      /\ os' = p
      /\ IF p.state = os.state
         THEN store' = EmitE3(store, o, p) /\ UNCHANGED <<bc, syncStatus>>
         ELSE /\ syncStatus' = TRUE
              /\ bc' = [c \in Cfg |-> IF c \in clocks THEN Update(bc[c]) ELSE bc[c]]
              /\ store' = [EmitE3(store, o, p) EXCEPT
                   !.sync = [c \in Cfg |-> OverallEntry(@[c], bc[c], bc'[c])]]
      /\ UNCHANGED <<clocks, timers, holdovers, eventsIn, logVars, applyVars>>

\* An event for a config with no registered clock is skipped.
ProcessUnregistered ==
  /\ Take
  /\ Head(events).kind \notin {"reset", "os"}
  /\ Head(events).cfg \notin clocks
  /\ UNCHANGED <<clockVars, eventsIn, logVars, applyVars>>

ProcessClockEvent ==
  LET e == Head(events)
      c == e.cfg
      d == AddEvent(bc[c], e, os.state)
      p == E3After(clocks, [bc EXCEPT ![c] = d], os)
      enters == bc[c].syncState # HOLDOVER /\ d.syncState = HOLDOVER
  IN  /\ Take
      /\ e.kind \notin {"reset", "os"}
      /\ c \in clocks
      /\ bc' = [bc EXCEPT ![c] = d]
      /\ holdovers' = IF enters THEN [holdovers EXCEPT ![c] = @ + 1] ELSE holdovers
      /\ timers' = TimersAfter(c, bc[c], d, holdovers'[c])
      /\ syncStatus' = (syncStatus \/ bc[c].syncState \notin {NOTSET, d.syncState})
      /\ os' = p
      /\ store' = EmitE3(Publish(store, c, e, bc[c], d), os, p)
      /\ UNCHANGED <<clocks, eventsIn, logVars, applyVars>>

ProcessEvent ==
  ProcessReset \/ ProcessOSClock \/ ProcessUnregistered \/ ProcessClockEvent

-----------------------------------------------------------------------------
(* Holdover timer goroutines.  Time is not modelled: a timer may fire as   *)
(* soon as it waits.  A goroutine whose channel is closed and whose timer  *)
(* has elapsed may take either branch of its select.                       *)

TimerFires(c) ==
  \E t \in timers :
    /\ t.cfg = c /\ ~t.fired
    /\ timers' = (timers \ {t}) \cup {[t EXCEPT !.fired = TRUE]}
    /\ UNCHANGED <<clocks, bc, os, store, syncStatus, holdovers,
                   eventsIn, events, logVars, applyVars>>

TimerCanceled(c) ==
  \E t \in timers :
    /\ t.cfg = c /\ ~t.fired /\ t.canceled
    /\ timers' = timers \ {t}
    /\ UNCHANGED <<clocks, bc, os, store, syncStatus, holdovers,
                   eventsIn, events, logVars, applyVars>>

TimerPostsOrDrops(c) ==
  \E t \in timers :
    /\ t.cfg = c /\ t.fired
    /\ events' = IF Len(events) < Cap THEN Append(events, Expiry(t)) ELSE events
    /\ timers' = timers \ {t}
    /\ UNCHANGED <<clocks, bc, os, store, syncStatus, holdovers,
                   eventsIn, logVars, applyVars>>
\* sendEvent blocks until events has room; the channel is not looked at again.
TimerPosts(c) ==
  \E t \in timers :
    /\ t.cfg = c /\ t.fired
    /\ Len(events) < Cap
    /\ events' = Append(events, Expiry(t))
    /\ timers' = timers \ {t}
    /\ UNCHANGED <<clocks, bc, os, store, syncStatus, holdovers,
                   eventsIn, logVars, applyVars>>

-----------------------------------------------------------------------------
(* Inputs: lines of the log parser and events of the other sources.  They  *)
(* come from processes that were started for the config, also from those   *)
(* that were told to stop and have not ended.                              *)

Post(e) == eventsIn' = IF Len(eventsIn) < InCap THEN Append(eventsIn, e) ELSE eventsIn

Started(c) == proc[c] # 0

\* processPtp4lEvent, role SLAVE.
PortSlave(c, i) ==
  /\ Started(c)
  /\ slaveIface' = [slaveIface EXCEPT ![c] = i]
  /\ portUp' = [portUp EXCEPT ![c] = TRUE]
  /\ UNCHANGED <<clockVars, eventsIn, events, masterSrc, applyVars>>

\* processPtp4lEvent, role FAULTY or LISTENING of the port that was SLAVE.
PortLost(c) ==
  /\ Started(c) /\ portUp[c]
  /\ holdovers[c] < MaxHoldovers
  /\ portUp' = [portUp EXCEPT ![c] = FALSE]
  /\ IF slaveIface[c] # NoIFace /\ masterSrc[c]
     THEN /\ Post(Ev("lost", c, slaveIface[c], "none", 0, proc[c], 0))
          /\ slaveIface' = [slaveIface EXCEPT ![c] = NoIFace]
     ELSE UNCHANGED <<eventsIn, slaveIface>>
  /\ UNCHANGED <<clockVars, events, masterSrc, applyVars>>

\* processParsedMetrics of a "master offset" line of ptp4l.
OffsetLine(c, inRange) ==
  /\ Started(c)
  /\ masterSrc' = [masterSrc EXCEPT ![c] = TRUE]
  /\ IF slaveIface[c] = NoIFace
     THEN UNCHANGED eventsIn
     ELSE Post(Ev("offset", c, slaveIface[c], inRange, 0, proc[c], 0))
  /\ UNCHANGED <<clockVars, events, slaveIface, portUp, applyVars>>

\* processParsedMetrics of an offset line of phc2sys or chronyd, or of a summary
\* line of phc2sys: that one is parsed with source "master" under the ptp4l
\* config name, and phc2sys becomes the config's masterOffsetSource.
OsClockLine(c) ==
  /\ Started(c)
  /\ \E s \in BCStates : Post(Ev("os", c, NoIFace, s, 0, proc[c], 0))
  /\ \/ "os" \in Sources /\ UNCHANGED masterSrc
     \/ "summary" \in Sources /\ masterSrc' = [masterSrc EXCEPT ![c] = FALSE]
  /\ UNCHANGED <<clockVars, events, slaveIface, portUp, applyVars>>

\* The other sources: synce4l, pmc, and a reset when ts2phc, the DPLL or the GNSS
\* monitor of the config ends.
OtherEvent(c) ==
  /\ Started(c)
  /\ \/ /\ "synce" \in Sources
        /\ \E i \in IFace : Post(Ev("synce", c, i, "none", 0, proc[c], 0))
     \/ /\ "pmc" \in Sources
        /\ \E k \in Class : Post(Ev("pmc", c, NoIFace, k, 0, proc[c], 0))
     \/ /\ "reset" \in Sources
        /\ Post(Ev("reset", c, NoIFace, "none", 0, proc[c], 0))
  /\ UNCHANGED <<clockVars, events, logVars, applyVars>>

\* ProcessManager.processEvents forwards every event that is not a process
\* status, waiting for room.
Forward ==
  /\ eventsIn # <<>> /\ Len(events) < Cap
  /\ events' = Append(events, Head(eventsIn))
  /\ eventsIn' = Tail(eventsIn)
  /\ UNCHANGED <<clockVars, logVars, applyVars>>

-----------------------------------------------------------------------------
(* applyNodePTPProfiles, on the daemon's goroutine: the clocks are removed *)
(* without being reset, the offset maps are cleared, the clocks of the new *)
(* profiles are added, and last their processes are started.               *)

RemoveAllClocks ==
  /\ apply = "idle" /\ applies < MaxApplies
  /\ apply' = "removed" /\ applies' = applies + 1
  /\ clocks' = {}
  /\ os' = NewOsClock
  /\ UNCHANGED <<bc, store, timers, syncStatus, holdovers, eventsIn, events,
                 logVars, inst, proc>>

InitializeOffsetMaps ==
  /\ apply = "removed" /\ apply' = "adding"
  /\ slaveIface' = [c \in Cfg |-> NoIFace]
  /\ masterSrc' = [c \in Cfg |-> TRUE]
  /\ UNCHANGED <<clockVars, eventsIn, events, portUp, applies, inst, proc>>

AddClock(c) ==
  /\ apply = "adding" /\ c \notin clocks
  /\ clocks' = clocks \cup {c}
  /\ bc' = [bc EXCEPT ![c] = NewBC]
  /\ inst' = [inst EXCEPT ![c] = @ + 1]
  /\ UNCHANGED <<os, store, timers, syncStatus, holdovers, eventsIn, events,
                 logVars, apply, applies, proc>>

StartProcesses ==
  /\ apply = "adding" /\ apply' = "idle"
  /\ proc' = [c \in Cfg |-> IF c \in clocks THEN inst[c] ELSE proc[c]]
  /\ portUp' = [c \in Cfg |-> portUp[c] /\ c \notin clocks]
  /\ UNCHANGED <<clockVars, eventsIn, events, slaveIface, masterSrc, applies, inst>>

\* The daemon's goroutine takes the signal and writes the node status.
SyncStatusUpdate ==
  /\ syncStatus /\ syncStatus' = FALSE
  /\ UNCHANGED <<clocks, bc, os, store, timers, holdovers, eventsIn, events,
                 logVars, applyVars>>

-----------------------------------------------------------------------------
Init ==
  /\ clocks = {} /\ bc = [c \in Cfg |-> NewBC] /\ os = NewOsClock
  /\ store = EmptyStore /\ timers = {} /\ syncStatus = FALSE
  /\ eventsIn = <<>> /\ events = <<>>
  /\ slaveIface = [c \in Cfg |-> NoIFace] /\ masterSrc = [c \in Cfg |-> TRUE]
  /\ portUp = [c \in Cfg |-> FALSE]
  /\ apply = "idle" /\ applies = 0
  /\ inst = [c \in Cfg |-> 0] /\ proc = [c \in Cfg |-> 0]
  /\ holdovers = [c \in Cfg |-> 0]

Timer(c) == TimerFires(c) \/ TimerCanceled(c) \/ TimerPosts(c)

Input(c) ==
  \/ \E i \in IFace : PortSlave(c, i)
  \/ PortLost(c)
  \/ \E r \in {"in", "out"} : OffsetLine(c, r)
  \/ OsClockLine(c) \/ OtherEvent(c)

Apply ==
  \/ RemoveAllClocks \/ InitializeOffsetMaps
  \/ \E c \in Cfg : AddClock(c)
  \/ StartProcesses

Next ==
  \/ ProcessEvent \/ Forward \/ Apply \/ SyncStatusUpdate
  \/ \E c \in Cfg : Timer(c) \/ Input(c)

\* The event loop and the forwarder run forever; a waiting timer elapses; a
\* goroutine blocked on a channel that is drained is served in turn (the
\* runtime queues blocked senders), hence strong fairness of TimerPosts.
Fairness ==
  /\ WF_vars(ProcessEvent) /\ WF_vars(Forward)
  /\ \A c \in Cfg : WF_vars(TimerFires(c)) /\ SF_vars(TimerPosts(c))

Spec == Init /\ [][Next]_vars
FairSpec == Spec /\ Fairness

-----------------------------------------------------------------------------
(* Properties.                                                             *)

Timers == [cfg : Cfg, inst : Nat, gen : Nat, nth : Nat,
           canceled : BOOLEAN, fired : BOOLEAN]
Values == {"in", "out", "none"} \cup BCStates \cup Class
Events == {e \in [kind : Kinds, cfg : Cfg, iface : IFaceOrNone, val : Values,
                  gen : Nat, inst : Nat, nth : Nat] :
             /\ e.kind = "pmc" => e.val \in Class
             /\ e.kind = "os" => e.val \in BCStates}
BC == [syncState : BCStates, overall : BCStates, iface : IFaceOrNone,
       clockClass : ClassOrNone, armed : BOOLEAN, gen : Nat]
Entries == IPCStates \cup {NoEntry}

\* The state has the shape of the code's data structures, and the channels
\* never hold more than their capacity.
TypeOK ==
  /\ clocks \in SUBSET Cfg
  /\ bc \in [Cfg -> BC]
  /\ os \in [state : BCStates \ {NOTSET}, e3 : BCStates]
  /\ store \in [ptp : [Cfg -> [IFaceOrNone -> Entries]], sync : [Cfg -> Entries],
               class : [Cfg -> [IFaceOrNone -> Class \cup {NoEntry}]], os : Entries]
  /\ timers \in SUBSET Timers
  /\ eventsIn \in Seq(Events) /\ Len(eventsIn) <= InCap
  /\ events \in Seq(Events) /\ Len(events) <= Cap
  /\ slaveIface \in [Cfg -> IFaceOrNone]
  /\ masterSrc \in [Cfg -> BOOLEAN] /\ portUp \in [Cfg -> BOOLEAN]
  /\ syncStatus \in BOOLEAN
  /\ apply \in {"idle", "removed", "adding"}
  /\ applies \in Nat
  /\ inst \in [Cfg -> Nat] /\ proc \in [Cfg -> Nat] /\ holdovers \in [Cfg -> Nat]

\* The expiry of the holdover a clock is in is on its way: in its goroutine,
\* which has not been canceled, or in the channel of the event loop.
ExpiryPending(c) ==
  \/ \E t \in timers : /\ t.cfg = c /\ t.inst = inst[c] /\ t.gen = bc[c].gen
                       /\ t.fired \/ ~t.canceled
  \/ \E k \in 1..Len(events) :
       /\ events[k].kind = "expired" /\ events[k].cfg = c
       /\ events[k].inst = inst[c] /\ events[k].gen = bc[c].gen

\* A registered boundary clock is never in a HOLDOVER that nothing will end:
\* its own timer is armed and its expiry has not been lost (bc.go, the arm,
\* cancel and generation rules together).
HoldoverHasTimer ==
  \A c \in clocks : bc[c].syncState = HOLDOVER => bc[c].armed /\ ExpiryPending(c)

\* The expiry being processed takes clock c out of HOLDOVER.
EndsHoldover(c) ==
  /\ events # <<>> /\ Head(events).kind = "expired" /\ Head(events).cfg = c
  /\ events' = Tail(events)
  /\ bc[c].syncState = HOLDOVER /\ bc'[c].syncState = FREERUN

\* What makes the generations work.  An expiry on its way, in its goroutine or
\* in the channel, was armed by the present or an earlier object of its config;
\* of those of the present object none is ahead of its generation, and one that
\* has the clock's generation while it is in HOLDOVER was armed for that holdover.
PendingExpiries ==
  timers \cup {events[k] : k \in {n \in 1..Len(events) : events[n].kind = "expired"}}
ExpiryGenerations ==
  \A x \in PendingExpiries :
    /\ x.inst <= inst[x.cfg]
    /\ x.inst = inst[x.cfg] =>
         /\ x.gen <= bc[x.cfg].gen
         /\ bc[x.cfg].syncState = HOLDOVER /\ x.gen = bc[x.cfg].gen
              => x.nth = holdovers[x.cfg]

\* Of the expiries a clock object armed itself, however late the goroutine or
\* the channel delivers them, only the one armed for the holdover it is in
\* ends that holdover (bc.go:38, event.go:276).
ExpiryOfThisHoldover ==
  [][\A c \in clocks : EndsHoldover(c) /\ Head(events).inst = inst[c]
        => Head(events).nth = holdovers[c]]_vars

\* The same for every expiry that arrives under the clock's config name.
AnyExpiryOfThisHoldover ==
  [][\A c \in clocks : EndsHoldover(c) => Head(events).nth = holdovers[c]]_vars

\* What the IPC cache says of a clock's overall state (sync_state) is the state
\* the clock last computed, across resets, expiries, OS clock changes and
\* re-applied profiles; it may be missing, never different (clock.go:47).
PublishedSyncState ==
  \A c \in clocks : bc[c].overall # NOTSET =>
    store.sync[c] \in {NoEntry, PtpStateToIPCState(bc[c].overall)}

\* With one interface, the same of the clock's port state (ptp_state).
PublishedPortState ==
  \A c \in clocks, i \in IFace : bc[c].syncState # NOTSET =>
    store.ptp[c][i] \in {NoEntry, PtpStateToIPCState(bc[c].syncState)}

\* A clock that knows its class and its interface has published that class for
\* an interface, in whichever order it learned the two, across resets and
\* re-applied profiles (bc.go:258).
ClassPublished ==
  \A c \in clocks : bc[c].clockClass # NoClass /\ bc[c].iface # NoIFace =>
    \E i \in IFace : store.class[c][i] = bc[c].clockClass

\* The reported E3 state is worst-of(E1, disciplining state) of the present
\* state of every clock, unless no clock reports a state; and the cache holds
\* the reported state, if any (clockmgr.go:305).
E3Current ==
  os.e3 # NOTSET =>
    /\ \/ worstClockState(clocks, bc) = NOTSET
       \/ os.e3 = WorstOfState(worstClockState(clocks, bc), os.state)
    /\ store.os = PtpStateToIPCState(os.e3)

\* A clock's overall state is worst-of(clock, OS clock) after every event.
OverallCurrent ==
  \A c \in clocks : bc[c].overall = WorstOfState(bc[c].syncState, os.state)

\* Every holdover ends: the expiry is eventually processed, unless the source
\* returns or the clock is reset or replaced first (bc.go:24).
HoldoverEnds ==
  \A c \in Cfg : (c \in clocks /\ bc[c].syncState = HOLDOVER)
                    ~> (c \notin clocks \/ bc[c].syncState # HOLDOVER)

\* bc.go:23, "slave port faulty (source lost) while LOCKED -> HOLDOVER": a
\* LOCKED clock whose follower port is gone does not stay LOCKED.
SourceLossTakesEffect ==
  \A c \in Cfg :
    (c \in clocks /\ bc[c].syncState = LOCKED /\ ~portUp[c])
      ~> (c \notin clocks \/ bc[c].syncState # LOCKED \/ portUp[c])

\* log_parsing.go:258, "The active slave port lost its source": when it does, the
\* parser gives up the follower interface of the profile in force.
FollowerLossSeen ==
  [][\A c \in clocks : portUp[c] /\ ~portUp'[c] /\ apply = "idle"
       => slaveIface'[c] = NoIFace]_vars

\* daemon.go, InitializeOffsetMaps: a new clock does not take the follower
\* interface of a superseded profile.
IFaceOfOwnProfile ==
  [][\A c \in clocks \cap clocks' :
       bc'[c].iface \notin {bc[c].iface, NoIFace} => Head(events).inst = inst[c]]_vars

\* clockmgr.go:87, "a signal ... whenever a clock state transitions".
SignalOnTransition ==
  [][\A c \in clocks \cap clocks' :
       inst'[c] = inst[c] /\ bc'[c].syncState # bc[c].syncState => syncStatus']_vars

=============================================================================
