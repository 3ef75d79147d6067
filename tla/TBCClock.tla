------------------------------ MODULE TBCClock ------------------------------
(***************************************************************************)
(* A telecom boundary clock: the upstream port detector ptp_process.go     *)
(* runs on the log of ptp4l, the channel its events take, and the clock of *)
(* pkg/clock/tbc.go with the goroutines that fetch upstream data and set   *)
(* what the controlled (downstream) ports announce.                        *)
(*                                                                         *)
(*   ptp4l log -> detector --trEvents--> clock -> goroutines -> PMC        *)
(*   DPLL, ts2phc and parent data set events ----^                         *)
(*                                                                         *)
(* A token numbers the requests for upstream data; the clock only asks     *)
(* whether a result carries the current one.  Here a request carries the   *)
(* answer to that question, and a new token makes it FALSE in all others.  *)
(***************************************************************************)
EXTENDS EventData, TLC

CONSTANTS
  TRPorts,          \* upstream ports in configured order, a sequence
  TBCDPLLs,         \* interfaces with a DPLL, the leading one among them
  Leading,          \* leadingInterface of the profile
  Controlled,       \* ttPortsConfigFile: config of the controlled ports, "" on a T-TSC
  HardwarePath,     \* a hardware config exists for the profile
  HoldoverTimeout0, \* LocalHoldoverTimeout is 0: holdover is disabled
  TBCOffsets,       \* offsets that occur
  Ptp4lOffsets,     \* ... in the log of ptp4l
  TBCEvents,        \* bound: of os, reset, the events that occur
  TS2PHCStates,     \* bound: the states ts2phc reports
  Aging,            \* bound: sources that may fall silent
  Faulty,           \* FaultyPhaseOffset
  InSyncThreshold, InSyncTimes, ToFreeRunThreshold, MaxInSpec,
  UpClasses,        \* classes a parent data set can carry
  TREventsCap,      \* capacity of eventsIn (100 in daemon.go)
  MaxJobs           \* bound: PMC goroutines and fetches at a time

ASSUME TBCAssumption ==
  /\ TRPorts # <<>> /\ Leading \in TBCDPLLs
  /\ InSyncThreshold \in Nat \ {0} /\ InSyncTimes \in Nat \ {0}
  /\ ToFreeRunThreshold \in Nat \ {0} /\ MaxInSpec \in Nat \ {0}
  /\ TBCOffsets \subseteq Nat /\ Ptp4lOffsets \subseteq TBCOffsets /\ Faulty \in Nat
  /\ \A o \in TBCOffsets \cup {ToFreeRunThreshold} : o < Faulty
  /\ TREventsCap \in Nat \ {0}
  /\ 0 \notin UpClasses /\ HardwarePath \in BOOLEAN /\ HoldoverTimeout0 \in BOOLEAN

VARIABLES
  trSlave,      \* upstream ports ptp4l has in SLAVE state
  tr,           \* tBCProcessAttributes
  trEvents,     \* the detector's events on their way
  tbc,          \* syncState: state and class
  tbcData,      \* c.data; the position of a source in it is its entry's at
  lc,           \* leadingClockData
  tbcOverall, tbcOS, tbcStore,
  fetches,      \* downstreamAnnounceIWF goroutines and the results they sent
  jobs,         \* goroutines of announceLocalData, oldest first
  dport,        \* what the controlled ports announce
  trDropped,    \* history: a detector event met a full channel
  disturbed     \* history: a write failed or was made with an older one
                \* pending, or the clock was reset

trVars  == <<trSlave, tr, trEvents, trDropped>>
pmcVars == <<fetches, jobs, dport, disturbed>>
tbcVars == <<trVars, tbc, tbcData, lc, tbcOverall, tbcOS, tbcStore, pmcVars>>

NoClassYet == 0
ClassSlaveOnly == 255

NewSync == [state |-> NOTSET, class |-> NoClassYet]
NewTR == [per |-> [p \in Range(TRPorts) |-> NOTSET], active |-> "", reported |-> NOTSET,
          applied |-> NOTSET, filtering |-> FALSE, filter |-> <<>>, offset |-> 0]
\* up and down are the classes of the parent data sets known upstream and
\* passed on.
NewLeadingClockParams ==
  [up |-> NoClassYet, down |-> NoClassYet, leading |-> "", cports |-> "",
   clockID |-> FALSE, thresholds |-> FALSE, holdoverDisabled |-> FALSE, lastInSpec |-> FALSE,
   low |-> FALSE, inSync |-> 0]
NoStore == [ptp |-> "none", class |-> "none", sync |-> "none"]

-----------------------------------------------------------------------------
(* The detector (ptp_process.go).                                          *)

activeTRPort(t) == IF t.active # "" THEN t.active ELSE TRPorts[1]
allPortsLost(t) == \A p \in DOMAIN t.per : t.per[p] # LOCKED

\* A state event and an offset event; only the former says which ports are
\* controlled and who the clock is.
StateEvent(t) ==
  [ev |-> SourceEvent("ptp4l", activeTRPort(t), t.reported, t.reported # LOCKED, NoOffset),
   names |-> TRUE]
OffsetEvent(t) ==
  [ev |-> SourceEvent("ptp4l", activeTRPort(t), t.reported, FALSE, t.offset), names |-> FALSE]

\* A send does not wait: what finds the channel full is dropped.
SendTR(q, sent) ==
  LET all == q \o sent IN IF Len(all) <= TREventsCap THEN all ELSE SubSeq(all, 1, TREventsCap)

\* The offset filter is full and its mean under the threshold: the port is
\* stable, the clock is told.
filterPasses(t) ==
  /\ t.filtering /\ t.reported = LOCKED /\ t.applied # LOCKED
  /\ IsFull(t.filter) /\ Mean(t.filter) < InSyncThreshold
insertOffset(t) ==
  IF ~t.filtering THEN t ELSE [t EXCEPT !.filter = Insert(@, t.offset)]
checkOffsetFilterAndTransition(t) ==
  LET u == insertOffset(t)
  IN  IF filterPasses(u)
      THEN [t |-> [u EXCEPT !.applied = LOCKED], q |-> <<StateEvent(u)>>]
      ELSE [t |-> u, q |-> <<>>]

portLocked(p) ==
  [tr EXCEPT !.per = IF HardwarePath THEN [@ EXCEPT ![p] = LOCKED] ELSE @,
             !.active = p, !.reported = LOCKED, !.filtering = TRUE, !.filter = <<>>]

portLostUnreported(p) ==
  [t |-> [tr EXCEPT !.per = IF HardwarePath THEN [@ EXCEPT ![p] = FREERUN] ELSE @,
                    !.reported = FREERUN, !.applied = HOLDOVER, !.active = "",
                    !.filtering = FALSE, !.filter = <<>>],
   q |-> <<>>]
\* Loss of the slave port.  With a hardware config the clock is told when no
\* upstream port is left, and the active port is forgotten first; without one
\* any loss is told.
portLost(p) ==
  LET t == [tr EXCEPT !.per = IF HardwarePath THEN [@ EXCEPT ![p] = FREERUN] ELSE @]
  IN  IF HardwarePath /\ ~allPortsLost(t) THEN [t |-> t, q |-> <<>>]
      ELSE LET u == [t EXCEPT !.reported = FREERUN,
                              !.active = IF HardwarePath THEN "" ELSE @,
                              !.filtering = FALSE, !.filter = <<>>]
           IN  [t |-> [u EXCEPT !.applied = HOLDOVER], q |-> <<StateEvent(u)>>]

\* One log line: t is what the line itself did, sent what it told the clock;
\* the filter check runs after every line.
logLine(t, sent) ==
  LET c == checkOffsetFilterAndTransition(t)
      all == sent \o c.q
  IN  /\ tr' = c.t
      /\ trEvents' = SendTR(trEvents, all)
      /\ trDropped' = (trDropped \/ Len(trEvents) + Len(all) > TREventsCap)

rest == <<tbc, tbcData, lc, tbcOverall, tbcOS, tbcStore, pmcVars>>

\* "... to SLAVE on MASTER_CLOCK_SELECTED" on port p.
SlaveLine(p) ==
  /\ p \notin trSlave /\ trSlave' = trSlave \cup {p}
  /\ logLine(portLocked(p), <<>>)
  /\ UNCHANGED rest
\* "SLAVE to ..." or an announce receipt timeout on the slave port p.
LostLine(p) ==
  /\ p \in trSlave /\ trSlave' = trSlave \ {p}
  /\ LET l == portLost(p) IN logLine(l.t, l.q)
  /\ UNCHANGED rest
\* An offset line; once a second the offset goes to the
\* clock before the filter is checked (window of one second, see README).
OffsetLine(o, second) ==
  /\ LET t == [tr EXCEPT !.offset = o]
     IN  logLine(t, IF second THEN <<OffsetEvent(t)>> ELSE <<>>)
  /\ UNCHANGED <<trSlave, rest>>

-----------------------------------------------------------------------------
(* Conditions of the clock.                                                *)

\* A source met for the first time is appended to the slice.
Placed(d, n) == [k \in DOMAIN d \cup {"at"} |-> IF k = "at" THEN n ELSE d[k]]
AddAtEnd(data, ev) ==
  LET d == AddToData(data, ev)
  IN  IF HasData(data, ev.src) THEN d
      ELSE [d EXCEPT ![ev.src] = Placed(@, Cardinality(DOMAIN d))]

leadingIFace(l) == IF l.leading # "" THEN l.leading ELSE Leading

LeadingOffset(data, l) ==
  IF HasData(data, "dpll") /\ HasDetail(data["dpll"], leadingIFace(l))
  THEN Detail(data["dpll"], leadingIFace(l)).offset ELSE 0

\* No upstream port is known to be locked, or a DPLL is known not to be.
isSourceLostBC(data) ==
  \/ ~HasData(data, "ptp4l") \/ LOCKED \notin States(data["ptp4l"])
  \/ HasData(data, "dpll") /\ \E s \in States(data["dpll"]) : s # LOCKED
isPTPLost(data) == ~HasData(data, "ptp4l") \/ LOCKED \notin States(data["ptp4l"])

freeRunCondition(data, l) ==
  \/ ~l.thresholds
  \/ LeadingOffset(data, l) > ToFreeRunThreshold
  \/ HasData(data, "ptp4l") /\ ~IsEmpty(data["ptp4l"].window)
       /\ Mean(data["ptp4l"].window) > ToFreeRunThreshold
  \/ HasData(data, "ts2phc") /\ FREERUN \in States(data["ts2phc"])

inSpecCondition(data, l) == l.thresholds /\ LeadingOffset(data, l) <= MaxInSpec

\* The worst fresh offset.  A source other than ts2phc whose window has begun
\* to fill but is not full makes it faulty; the first offset met stands for
\* its window's mean when it is the leading interface's; a faulty offset met
\* first is replaced by the next one.
Sampled(data) ==
  {s \in DOMAIN data : s = "ts2phc" \/ ~IsEmpty(data[s].window)}
Samples(data, src, l) ==
  LET d == data[src]
      fresh == SelectSeq(d.details, LAMBDA x : x.fresh)
  IN  [i \in DOMAIN fresh |->
        [first |-> IF src # "ts2phc" /\ fresh[i].iface = leadingIFace(l)
                   THEN Mean(d.window) ELSE fresh[i].offset,
         offset |-> fresh[i].offset]]
getLargestOffset(data, l) ==
  IF \E s \in Sampled(data) \ {"ts2phc"} : ~IsFull(data[s].window) THEN Faulty
  ELSE LET inOrder == SetToSortSeq(Sampled(data), LAMBDA a, b : data[a].at < data[b].at)
           all == FlattenSeq([i \in DOMAIN inOrder |-> Samples(data, inOrder[i], l)])
       IN  FoldLeft(LAMBDA w, x : IF w = Faulty THEN x.first
                                  ELSE IF x.offset > w THEN x.offset ELSE w, Faulty, all)

\* The in-sync filter: InSyncTimes samples in a row within the threshold make
\* it low, one above it makes it high.  Asking the condition feeds the filter.
askInSync(data, l) ==
  IF ~l.thresholds THEN l
  ELSE IF getLargestOffset(data, l) > InSyncThreshold
  THEN [l EXCEPT !.low = FALSE, !.inSync = 0]
  ELSE [l EXCEPT !.inSync = IF @ < InSyncTimes THEN @ + 1 ELSE @,
                 !.low = @ \/ l.inSync + 1 >= InSyncTimes]

-----------------------------------------------------------------------------
(* The state machine (updateState).  A result is the new sync state, the   *)
(* new leading clock data, and whether the controlled ports must be told.  *)

Outcome(s, l, down) == [s |-> s, l |-> l, down |-> down]
Freed(s) == [s EXCEPT !.state = FREERUN, !.class = 248]

fromFreerun(s, l, data) ==
  LET m == askInSync(data, l)
  IN  IF freeRunCondition(data, l) \/ isSourceLostBC(data) THEN Outcome(s, l, FALSE)
      ELSE IF ~m.low THEN Outcome(s, m, FALSE)
      ELSE Outcome([s EXCEPT !.state = LOCKED], [m EXCEPT !.lastInSpec = TRUE], TRUE)

\* A clock without controlled ports but with an identity is a T-TSC.
isTTSC(l) == l.clockID /\ l.cports = ""

lockedStays(s, l) ==
  LET news == l.up # l.down
  IN  Outcome(IF l.up = 248 \/ isTTSC(l) THEN s ELSE [s EXCEPT !.class = l.up],
              [l EXCEPT !.down = l.up], news /\ l.up # 248)

lossUnannounced(s, l, data) ==
  IF freeRunCondition(data, l) \/ hasNonLeadingDPLLFault(data, leadingIFace(l))
  THEN Outcome(Freed(s), l, FALSE)
  ELSE IF ~isSourceLostBC(data) THEN lockedStays(s, l)
  ELSE Outcome([s EXCEPT !.state = HOLDOVER, !.class = 135], [l EXCEPT !.lastInSpec = TRUE], FALSE)
fromLocked(s, l, data) ==
  IF freeRunCondition(data, l) \/ hasNonLeadingDPLLFault(data, leadingIFace(l))
  THEN Outcome(Freed(s), l, TRUE)
  ELSE IF ~isSourceLostBC(data) THEN lockedStays(s, l)
  ELSE IF l.holdoverDisabled THEN Outcome(Freed(s), l, TRUE)
  ELSE Outcome([s EXCEPT !.state = HOLDOVER, !.class = 135], [l EXCEPT !.lastInSpec = TRUE], TRUE)

\* In holdover the clock is in spec until it is once found out of spec.
inSpecAgain(s, l, data) ==
  LET m == askInSync(data, l)
  IN  IF freeRunCondition(data, l) \/ hasNonLeadingDPLLFault(data, leadingIFace(l))
      THEN Outcome(Freed(s), l, TRUE)
      ELSE IF m.low /\ ~isSourceLostBC(data) THEN Outcome([s EXCEPT !.state = LOCKED], m, TRUE)
      ELSE LET inSpec == inSpecCondition(data, l)
           IN  Outcome([s EXCEPT !.class = IF inSpec THEN 135 ELSE 165], m, TRUE)
fromHoldover(s, l, data) ==
  LET m == askInSync(data, l)
      inSpec == l.lastInSpec /\ inSpecCondition(data, l)
  IN  IF freeRunCondition(data, l) \/ hasNonLeadingDPLLFault(data, leadingIFace(l))
      THEN Outcome(Freed(s), l, TRUE)
      ELSE IF m.low /\ ~isSourceLostBC(data) THEN Outcome([s EXCEPT !.state = LOCKED], m, TRUE)
      ELSE IF inSpec = l.lastInSpec THEN Outcome(s, m, FALSE)
      ELSE Outcome([s EXCEPT !.class = 165], [m EXCEPT !.lastInSpec = FALSE], s.class # 165)

stateMachine(s, l, data) ==
  CASE s.state \in {NOTSET, FREERUN} -> fromFreerun(s, l, data)
    [] s.state = LOCKED   -> fromLocked(s, l, data)
    [] s.state = HOLDOVER -> fromHoldover(s, l, data)

\* Before the first source event everything is FREERUN; a T-TSC always reports
\* the slave-only class and has nobody to tell.
tbcUpdateState(s, l, data) ==
  IF DOMAIN data = {}
  THEN Outcome(Freed(s), l, FALSE)
  ELSE LET r == stateMachine(s, l, data)
           t == [r.s EXCEPT !.class = IF isTTSC(l) THEN ClassSlaveOnly ELSE @]
       IN  Outcome(t, r.l, r.down /\ t.class # NoClassYet /\ ~isTTSC(l))

-----------------------------------------------------------------------------
(* What the clock does with a result (evaluateState).                      *)

\* The current token moves on: no request in flight is the current one any
\* more, and what it has read was read before this request.
supersedeNone(fs) == [i \in DOMAIN fs |-> [fs[i] EXCEPT !.early = fs[i].read # NoClassYet]]
supersede(fs) == [i \in DOMAIN fs |->
  [fs[i] EXCEPT !.current = FALSE, !.early = fs[i].read # NoClassYet]]

NewFetch == [current |-> TRUE, read |-> NoClassYet, early |-> FALSE]

\* announceLocalData sets the controlled ports in goroutines it does not wait
\* for.  Those of one announcement are taken together, and of what they set
\* only the class is kept.
LocalJob(s, l) == [target |-> l.cports, class |-> s.class]

updateDownstreamData(s, l) ==
  IF s.state = LOCKED
  THEN /\ fetches' = Append(supersede(fetches), NewFetch)
       /\ UNCHANGED <<jobs, dport, disturbed>>
  ELSE /\ jobs' = Append(jobs, LocalJob(s, l))
       /\ disturbed' = (disturbed \/ jobs # <<>>)
       /\ UNCHANGED <<fetches, dport>>

\* The bound on goroutines: an event that would start one waits.
room == Len(jobs) + Len(fetches) <= MaxJobs

evaluateState(l, data) ==
  \E r \in {tbcUpdateState(tbc, l, data)} :
    LET over == WorstOfState(r.s.state, tbcOS)
    IN  /\ r.down => room
        /\ tbc' = r.s
        /\ lc' = r.l
        /\ tbcOverall' = over
        /\ tbcStore' =
             [ptp   |-> IF r.s.state # tbc.state THEN PtpStateToIPCState(r.s.state) ELSE tbcStore.ptp,
              class |-> IF r.s.class # tbc.class THEN r.s.class ELSE tbcStore.class,
              sync  |-> IF over # tbcOverall THEN PtpStateToIPCState(over) ELSE tbcStore.sync]
        /\ IF r.down THEN updateDownstreamData(r.s, r.l) ELSE UNCHANGED pmcVars

\* Thresholds come with every DPLL event, the leading interface with that of
\* the DPLL that has PTP as its source.
updateLeadingClockData(l, ev) ==
  LET m == [l EXCEPT !.thresholds = TRUE, !.leading = IF ev.iface = Leading THEN Leading ELSE @]
  IN  IF ev.iface = leadingIFace(m)
      THEN [m EXCEPT !.holdoverDisabled = HoldoverTimeout0] ELSE m
withNames(l) == [l EXCEPT !.cports = Controlled, !.clockID = TRUE]

-----------------------------------------------------------------------------
(* Actions of the clock.                                                   *)

TBCAddPtp4l ==
  /\ trEvents # <<>>
  /\ trEvents' = Tail(trEvents)
  /\ \E data \in {AddAtEnd(tbcData, Head(trEvents).ev)} :
       /\ tbcData' = data
       /\ evaluateState(IF Head(trEvents).names THEN withNames(lc) ELSE lc, data)
  /\ UNCHANGED <<trSlave, tr, trDropped, tbcOS>>

TBCAddDPLL(i, s, o) ==
  /\ \E data \in {AddAtEnd(tbcData, SourceEvent("dpll", i, s, FALSE, o))} :
       /\ tbcData' = data
       /\ evaluateState(updateLeadingClockData(lc, [iface |-> i]), data)
  /\ UNCHANGED <<trVars, tbcOS>>

\* The window of ts2phc is never read; its offset is taken as 0.
TBCAddTs2phc(s) ==
  /\ \E data \in {AddAtEnd(tbcData, SourceEvent("ts2phc", Leading, s, FALSE, NoOffset))} :
       tbcData' = data /\ evaluateState(lc, data)
  /\ UNCHANGED <<trVars, tbcOS>>

\* A parent data set from the PMC monitor.
TBCAddParentDS(c) ==
  /\ evaluateState([lc EXCEPT !.up = c], tbcData)
  /\ UNCHANGED <<trVars, tbcData, tbcOS>>

\* downstreamAnnounceIWF: the request reads the upstream data sets and posts
\* them, or fails and is forgotten.
FetchReads(i, c) ==
  /\ i \in DOMAIN fetches /\ fetches[i].read = NoClassYet
  /\ fetches' = [fetches EXCEPT ![i].read = c]
  /\ UNCHANGED <<trVars, tbc, tbcData, lc, tbcOverall, tbcOS, tbcStore, jobs, dport, disturbed>>
FetchFails(i) ==
  /\ i \in DOMAIN fetches /\ fetches[i].read = NoClassYet
  /\ fetches' = RemoveAt(fetches, i)
  /\ disturbed' = TRUE
  /\ UNCHANGED <<trVars, tbc, tbcData, lc, tbcOverall, tbcOS, tbcStore, jobs, dport>>

\* handleDownstreamAnnounceIWF: a result that is not of the current request,
\* or finds the clock unlocked, is dropped.
Applies(f) == f.current /\ tbc.state = LOCKED
handleDownstreamAnnounceIWF(i) ==
  /\ i \in DOMAIN fetches /\ fetches[i].read # NoClassYet
  /\ LET f == fetches[i]
     IN  IF Applies(f)
         THEN /\ lc' = [lc EXCEPT !.up = f.read, !.down = f.read]
              /\ dport' = IF lc.cports # Controlled THEN dport
                          ELSE [class |-> f.read, early |-> f.early]
              /\ disturbed' = (disturbed \/ jobs # <<>> \/ lc.cports # Controlled)
         ELSE UNCHANGED <<lc, dport, disturbed>>
  /\ fetches' = RemoveAt(fetches, i)
  /\ UNCHANGED <<trVars, tbc, tbcData, tbcOverall, tbcOS, tbcStore, jobs>>

\* A goroutine of announceLocalData gets through, or its PMC request fails (as
\* it does when the controlled config is not known).
JobRuns(i, ok) ==
  /\ i \in DOMAIN jobs
  /\ LET j == jobs[i]
         sets == ok /\ j.target = Controlled
     IN  /\ dport' = IF ~sets THEN dport
                     ELSE [class |-> j.class, early |-> FALSE]
         /\ disturbed' = (disturbed \/ ~sets)
  /\ jobs' = RemoveAt(jobs, i)
  /\ UNCHANGED <<trVars, tbc, tbcData, lc, tbcOverall, tbcOS, tbcStore, fetches>>

\* StaleEventAfter passes without an event of this interface.
TBCAge(src, i) ==
  /\ HasData(tbcData, src) /\ HasDetail(tbcData[src], i) /\ Detail(tbcData[src], i).fresh
  /\ tbcData' = [tbcData EXCEPT ![src] = Age(@, i)]
  /\ UNCHANGED <<trVars, tbc, lc, tbcOverall, tbcOS, tbcStore, pmcVars>>

TBCSystemClockUpdate(s) ==
  LET over == WorstOfState(tbc.state, s)
  IN  /\ s # tbcOS /\ tbcOS' = s
      /\ tbcOverall' = over
      /\ tbcStore' = [tbcStore EXCEPT !.sync =
           IF over # tbcOverall THEN PtpStateToIPCState(over) ELSE @]
      /\ UNCHANGED <<trVars, tbc, tbcData, lc, pmcVars>>

\* A reset event (ts2phc ended, the profile is applied again): the manager
\* clears the IPC cache, the clock forgets all but its configured interface.
\* The detector, which belongs to ptp4l, does not hear of it.
TBCReset ==
  /\ tbc' = NewSync /\ tbcData' = NoData
  /\ lc' = NewLeadingClockParams
  /\ tbcOverall' = FREERUN /\ tbcOS' = FREERUN /\ tbcStore' = NoStore
  /\ fetches' = supersede(fetches)
  /\ disturbed' = TRUE
  /\ UNCHANGED <<trVars, jobs, dport>>

TBCInit ==
  /\ trSlave = {} /\ tr = NewTR /\ trEvents = <<>> /\ trDropped = FALSE
  /\ tbc = NewSync /\ tbcData = NoData
  /\ lc = NewLeadingClockParams
  /\ tbcOverall = NOTSET /\ tbcOS = FREERUN /\ tbcStore = NoStore
  /\ fetches = <<>> /\ jobs = <<>> /\ disturbed = FALSE
  /\ dport = [class |-> NoClassYet, early |-> FALSE]

\* dpll.go: a locked DPLL reports its offset within the holdover bound, an
\* unlocked one the faulty offset, a leading one in holdover what it computes.
TBCNext ==
  \/ \E p \in Range(TRPorts) : SlaveLine(p) \/ LostLine(p)
  \/ \E o \in Ptp4lOffsets, second \in BOOLEAN : OffsetLine(o, second)
  \/ TBCAddPtp4l
  \/ \E i \in TBCDPLLs, o \in {x \in TBCOffsets : x <= ToFreeRunThreshold} : TBCAddDPLL(i, LOCKED, o)
  \/ \E o \in TBCOffsets : TBCAddDPLL(Leading, HOLDOVER, o)
  \/ \E i \in TBCDPLLs : TBCAddDPLL(i, FREERUN, Faulty)
  \/ \E s \in TS2PHCStates : TBCAddTs2phc(s)
  \/ \E c \in UpClasses : TBCAddParentDS(c)
  \/ \E i \in 1..MaxJobs + 1, c \in UpClasses : FetchReads(i, c)
  \/ \E i \in 1..MaxJobs + 1 : FetchFails(i) \/ handleDownstreamAnnounceIWF(i)
  \/ \E i \in 1..MaxJobs + 1, ok \in BOOLEAN : JobRuns(i, ok)
  \/ \E src \in Aging, i \in TBCDPLLs \cup Range(TRPorts) : TBCAge(src, i)
  \/ "os" \in TBCEvents /\ TBCSystemClockUpdate(LOCKED)
  \/ "reset" \in TBCEvents /\ TBCReset

TBCSpec == TBCInit /\ [][TBCNext]_tbcVars

-----------------------------------------------------------------------------
(* Properties.                                                             *)

\* The clock implements the machine of SyncFSM: whatever its sources report
\* and whichever goroutine comes late, it moves as that machine allows.
FSM == INSTANCE SyncFSM WITH state <- tbc.state, class <- tbc.class,
                             UpstreamClasses <- UpClasses, NoClass <- NoClassYet
ImplementsFSM == FSM!FSMSpec

\* "a fetch that was superseded by a newer request, or that outlived a Reset
\* or a clock replacement, cannot apply stale upstream data" (announceSeq):
\* what the controlled ports announce of the upstream clock was read after the
\* last request for it.
NoStaleUpstream == ~dport.early

\* When the clock is in holdover, or free-running after it was locked, and its
\* goroutines are done, the controlled ports announce its class, unless a
\* request failed or two announcements were on their way at once.  (A reset
\* clock announces nothing before it has locked again.)
LocalClassAnnounced ==
  /\ jobs = <<>> /\ ~disturbed
  /\ tbc.state = HOLDOVER \/ (tbc.state = FREERUN /\ dport.class # NoClassYet)
  => dport.class = tbc.class

\* "All upstream ports lost SLAVE -> aggregate LOST (enter holdover)"
\* (processTBCTransitionHardwareConfig): once the detector has told of the loss
\* and every event it sent has arrived, the clock counts the PTP source as lost.
LossSeen ==
  tr.reported = FREERUN /\ trEvents = <<>> /\ ~trDropped => isPTPLost(tbcData)
=============================================================================
