------------------------------ MODULE GMClock -------------------------------
(***************************************************************************)
(* The grandmaster clock (pkg/clock/gm.go): it composes the states of its  *)
(* GNSS receiver, DPLLs and ts2phc into one state and clock class, gives   *)
(* the class to ptp4l through PMC, and publishes what it decides.          *)
(*                                                                         *)
(* Environment: the events of the three sources, whose contents the clock  *)
(* does not control; the answers of ptp4l to PMC requests; ptp4l restarts; *)
(* the count of unusable time stamps the ts2phc log parser keeps.          *)
(***************************************************************************)
EXTENDS EventData

CONSTANTS
  GMIFaces,     \* interfaces with a DPLL
  GMReceiver,   \* the interface of the GNSS receiver
  GMAccuracies, \* accuracies of DPLL offsets (ClockAccuracyFromOffset), NoOffset for none
  GMOSStates,   \* states the OS clock reports
  DefaultClass  \* class of a ptp4l that was given none since it started

ASSUME GMAssumption ==
  /\ GMReceiver \in GMIFaces
  /\ DefaultClass \in {6, 248}

VARIABLES
  gmData,       \* c.data
  gm,           \* syncState: state, class, accuracy, sourceLost, leading
  gmGnss,       \* gnssState, the GNSS state last published
  gmOverall,    \* overallSyncState
  gmOS,         \* State of the OS clock
  announced,    \* class and accuracy last given to ptp4l
  ptp4lGS,      \* GRANDMASTER_SETTINGS_NP of ptp4l
  noSourceTS,   \* NoSourceTSCount of the ts2phc parser
  gmStore,      \* what IPC messages said last, per type
  gmRestarted   \* history: ptp4l started again since it was last given a class

gmVars == <<gmData, gm, gmGnss, gmOverall, gmOS, announced, ptp4lGS, noSourceTS,
            gmStore, gmRestarted>>

Unidentified == "unknown"          \* LEADING_INTERFACE_UNKNOWN
ClassUninitialized == 0
ClassFreerun == 248
ClassOutOfSpec == 140
AccUnknown == "unknown"
Acc100ns == "100ns"

NoMessage == "none"
EmptyGMStore == [ptp |-> NoMessage, class |-> NoMessage, gnss |-> NoMessage, sync |-> NoMessage]

NewGM == [state |-> NOTSET, class |-> ClassUninitialized, acc |-> AccUnknown,
          lost |-> FALSE, leading |-> ""]
\* Reset assigns the zero value of SyncState.
ZeroSyncState == [state |-> EMPTY, class |-> 0, acc |-> "0", lost |-> FALSE, leading |-> ""]
StartedGS == [class |-> DefaultClass, acc |-> AccUnknown, traceable |-> FALSE]

-----------------------------------------------------------------------------
(* What the sources say together.                                          *)

isSourceLost(data) ==
  /\ HasData(data, "gnss") /\ data["gnss"].details # <<>>
  /\ data["gnss"].details[1].lost

\* The other branch of the code, a ts2phc detail with GNSS as its signal
\* source, is never taken: no code sets that source.
getLeadingInterface(data) ==
  IF HasData(data, "gnss") /\ data["gnss"].details # <<>>
  THEN data["gnss"].details[1].iface
  ELSE Unidentified

\* The three states updateState reads; a DPLL fault off the leading interface
\* overrides the DPLL state, two unusable time stamps the ts2phc state.
DPLLState(data, leading) ==
  IF hasNonLeadingDPLLFault(data, leading) THEN FREERUN ELSE StateOf(data, "dpll", NOTSET)
GNSSState(data) == StateOf(data, "gnss", FREERUN)
TS2PHCState(data, count) ==
  IF count = 2 THEN FREERUN ELSE StateOf(data, "ts2phc", FREERUN)
LeadingDPLL(data, leading, field) ==
  /\ HasData(data, "dpll") /\ HasDetail(data["dpll"], leading)
  /\ Detail(data["dpll"], leading)[field]

ToFreerun(s, class) == [s EXCEPT !.state = FREERUN, !.class = class, !.acc = AccUnknown]
ToLocked(s)   == [s EXCEPT !.state = LOCKED, !.class = 6, !.acc = Acc100ns]
ToHoldover(s) == [s EXCEPT !.state = HOLDOVER, !.class = 7]

keepsClass(s, ts2phc) ==
  IF ts2phc = FREERUN THEN [s EXCEPT !.state = FREERUN] ELSE IF ts2phc = LOCKED THEN ToLocked(s) ELSE s

\* DPLL locked or absent, GNSS locked: ts2phc decides.
WithGNSS(s, ts2phc) ==
  CASE ts2phc = FREERUN  -> ToFreerun(s, ClassFreerun)
    [] ts2phc = LOCKED   -> ToLocked(s)
    [] ts2phc = HOLDOVER -> ToHoldover(s)
    [] OTHER             -> s

\* DPLL locked or absent, GNSS not locked.  While the satellites are lost the
\* class waits for the DPLL; only the state follows a free-running ts2phc.
WithoutGNSS(s, lost, ts2phc) ==
  CASE lost /\ ts2phc = FREERUN  -> [s EXCEPT !.state = FREERUN]
    [] lost /\ ts2phc = HOLDOVER -> ToHoldover(s)
    [] ~lost /\ ts2phc # HOLDOVER -> ToFreerun(s, ClassFreerun)
    [] OTHER -> s

\* A DPLL entry without a usable state, which dpll.go never reports.
DPLLUnusable(s, gnss, ts2phc) ==
  CASE gnss = LOCKED /\ ts2phc = LOCKED -> ToLocked(s)
    [] ts2phc = HOLDOVER -> ToHoldover(s)
    [] OTHER -> ToFreerun(s, ClassFreerun)

ComposeState(s, dpll, gnss, ts2phc, lost, outOfSpec) ==
  CASE dpll = FREERUN  -> ToFreerun(s, IF outOfSpec THEN ClassOutOfSpec ELSE ClassFreerun)
    [] dpll = HOLDOVER -> ToHoldover(s)
    [] dpll \in {LOCKED, NOTSET} /\ gnss = LOCKED  -> WithGNSS(s, ts2phc)
    [] dpll \in {LOCKED, NOTSET} /\ gnss = FREERUN -> WithoutGNSS(s, lost, ts2phc)
    [] dpll = UNKNOWN -> DPLLUnusable(s, gnss, ts2phc)

\* The sync state after the sources said data.  Nothing is decided before the
\* leading interface is known.
updateState(s, data, count) ==
  LET leading == getLeadingInterface(data)
      lost    == isSourceLost(data)
  IN  IF leading = Unidentified THEN s
      ELSE ComposeState([s EXCEPT !.lost = lost, !.leading = leading],
             DPLLState(data, leading), GNSSState(data), TS2PHCState(data, count), lost,
             LeadingDPLL(data, leading, "oos") /\ LeadingDPLL(data, leading, "ft"))

-----------------------------------------------------------------------------
(* The class given to ptp4l.  An answer is "ok", or the request that failed. *)

Answers == {"ok", "getfails", "setfails"}

\* New settings are sent only when the class differs; class 6 also when ptp4l
\* does not call its time traceable.
Outdated(g, class) == g.class # class \/ (class = 6 /\ ~g.traceable)
SettingsFor(s) ==
  [class |-> s.class, traceable |-> s.class \in {6, 7},
   acc |-> CASE s.class = 6 -> Acc100ns
             [] s.class = ClassFreerun -> AccUnknown
             [] OTHER -> s.acc]

\* announceClockClass: the settings ptp4l ends up with, and whether all went
\* well (the class is one of the four the switch knows).
announceClockClass(s, g, answer) ==
  CASE answer = "getfails" -> [gs |-> g, ok |-> FALSE]
    [] answer = "setfails" /\ Outdated(g, s.class) -> [gs |-> g, ok |-> FALSE]
    [] OTHER -> [gs |-> IF Outdated(g, s.class) THEN SettingsFor(s) ELSE g,
                 ok |-> s.class \in {6, 7, ClassOutOfSpec, ClassFreerun}]

\* The accuracy asked for: that of the DPLL offset while holding over.
AskedAccuracy(ev, s, acc) ==
  IF ev.src = "dpll" /\ s.class \in {7, ClassOutOfSpec} /\ acc # NoOffset
  THEN acc ELSE announced.acc

\* announceClockClassIfChanged.  What updateState returns has no class before
\* the leading interface is known; PMC answers only a request that was made.
Due(s, known, acc) ==
  known /\ s.class # ClassUninitialized /\ (s.class # announced.class \/ acc # announced.acc)
announceForgetsFailure(s, due, acc, answer) ==
  LET asked == [s EXCEPT !.acc = acc]
      res   == announceClockClass(asked, ptp4lGS, answer)
  IN  IF ~due THEN gm' = s /\ UNCHANGED <<ptp4lGS, announced, gmRestarted>>
      ELSE /\ gm' = asked
           /\ ptp4lGS' = res.gs
           /\ announced' = [class |-> s.class, acc |-> acc]
           /\ gmRestarted' = (gmRestarted /\ ~res.ok)
announceClockClassIfChanged(s, due, acc, answer) ==
  LET asked == [s EXCEPT !.acc = acc]
      res   == announceClockClass(asked, ptp4lGS, answer)
  IN  IF ~due THEN gm' = s /\ UNCHANGED <<ptp4lGS, announced, gmRestarted>>
      ELSE /\ gm' = asked
           /\ ptp4lGS' = res.gs
           /\ announced' = IF res.ok THEN [class |-> res.gs.class, acc |-> res.gs.acc] ELSE announced
           /\ gmRestarted' = (gmRestarted /\ ~res.ok)

-----------------------------------------------------------------------------
(* Actions.                                                                *)

PublishedWithState(store, s, t, gnss, overall) ==
  [ptp   |-> IF t.state # s.state /\ s.state # NOTSET
             THEN PtpStateToIPCState(t.state) ELSE store.ptp,
   class |-> IF t.state # s.state THEN t.class ELSE store.class,
   gnss  |-> IF gnss # gmGnss THEN PtpStateToIPCState(gnss) ELSE store.gnss,
   sync  |-> IF overall # gmOverall THEN PtpStateToIPCState(overall) ELSE store.sync]
\* Messages of one updateState: the GNSS state when it changed, the port state
\* when it changed from something other than NOTSET, the class when it changed.
Published(store, s, t, gnss, overall) ==
  [ptp   |-> IF t.state # s.state /\ s.state # NOTSET
             THEN PtpStateToIPCState(t.state) ELSE store.ptp,
   class |-> IF t.class \notin {s.class, ClassUninitialized} THEN t.class ELSE store.class,
   gnss  |-> IF gnss # gmGnss THEN PtpStateToIPCState(gnss) ELSE store.gnss,
   sync  |-> IF overall # gmOverall THEN PtpStateToIPCState(overall) ELSE store.sync]

\* AddEvent of an event that is not from PMC; dpllAcc is the accuracy of the
\* DPLL offset in it, the only use the clock has for an offset.
GMAddEvent(ev, dpllAcc) ==
  \E data \in {AddToData(gmData, ev)} : \E next \in {updateState(gm, data, noSourceTS)} :
    LET known == getLeadingInterface(data) # Unidentified
        gnss  == IF known THEN GNSSState(data) ELSE gmGnss
        over  == WorstOfState(next.state, gmOS)
        acc   == AskedAccuracy(ev, next, dpllAcc)
        due   == Due(next, known, acc)
    IN  /\ gmData' = data
        /\ gmGnss' = gnss
        /\ gmOverall' = over
        /\ gmStore' = Published(gmStore, gm, next, gnss, over)
        /\ \E answer \in IF due THEN Answers ELSE {"ok"} :
             announceClockClassIfChanged(next, due, acc, answer)
        /\ UNCHANGED <<gmOS, noSourceTS>>

\* SystemClockUpdate after the OS clock changed.
GMSystemClockUpdate(s) ==
  LET over == WorstOfState(gm.state, s)
  IN  /\ s # gmOS
      /\ gmOS' = s
      /\ gmOverall' = over
      /\ gmStore' = [gmStore EXCEPT !.sync =
           IF over # gmOverall THEN PtpStateToIPCState(over) ELSE @]
      /\ UNCHANGED <<gmData, gm, gmGnss, announced, ptp4lGS, noSourceTS, gmRestarted>>

\* A reset event (ts2phc ended): the manager clears the IPC cache, the clock
\* forgets everything it knows.
GMReset ==
  /\ gmData' = NoData
  /\ gm' = ZeroSyncState
  /\ gmGnss' = NOTSET
  /\ gmOverall' = FREERUN
  /\ gmOS' = FREERUN
  /\ announced' = [class |-> 0, acc |-> "0"]
  /\ gmStore' = EmptyGMStore
  /\ UNCHANGED <<ptp4lGS, noSourceTS, gmRestarted>>

\* The ts2phc log parser counts unusable source time stamps up to two, a
\* master offset line starts again at zero.
extractNoSourceTS ==
  /\ noSourceTS < 2
  /\ noSourceTS' = noSourceTS + 1
  /\ UNCHANGED <<gmData, gm, gmGnss, gmOverall, gmOS, announced, ptp4lGS, gmStore, gmRestarted>>
extractTS2PHCOffset ==
  /\ noSourceTS # 0
  /\ noSourceTS' = 0
  /\ UNCHANGED <<gmData, gm, gmGnss, gmOverall, gmOS, announced, ptp4lGS, gmStore, gmRestarted>>

\* ptp4l ends and is started again: its settings are those of its file.
Ptp4lRestart ==
  /\ ptp4lGS' = StartedGS
  /\ gmRestarted' = TRUE
  /\ UNCHANGED <<gmData, gm, gmGnss, gmOverall, gmOS, announced, noSourceTS, gmStore>>

\* gpsd.go calls the source lost without a fix, when spoofed and when its offset
\* is out of range: what is not lost is locked.  dpll.go reports a DPLL in
\* holdover as FREERUN unless it leads, and never a frequency as traceable.
DPLLReports(i) == IF i = GMReceiver THEN {FREERUN, HOLDOVER, LOCKED} ELSE {FREERUN, LOCKED}
sendDpllEvent(i, s) == [SourceEvent("dpll", i, s, FALSE, NoOffset) EXCEPT !.oos = (s = FREERUN)]
LateEvent == [sendDpllEvent(GMReceiver, FREERUN) EXCEPT !.late = TRUE]
GNSSEvents ==
  {GNSSEvent(GMReceiver, TRUE, FALSE, NoOffset), GNSSEvent(GMReceiver, FALSE, TRUE, NoOffset)}
DPLLEventsOf(i) == {sendDpllEvent(i, s) : s \in DPLLReports(i)}
DPLLEvents   == UNION {DPLLEventsOf(i) : i \in GMIFaces}
TS2PHCEvents == {SourceEvent("ts2phc", GMReceiver, s, FALSE, NoOffset) : s \in {FREERUN, HOLDOVER, LOCKED}}
GMEvents == GNSSEvents \cup DPLLEvents \cup {LateEvent} \cup TS2PHCEvents

GMInit ==
  /\ gmData = NoData /\ gm = NewGM /\ gmGnss = NOTSET
  /\ gmOverall = NOTSET /\ gmOS = FREERUN
  /\ announced = [class |-> ClassUninitialized, acc |-> AccUnknown]
  /\ ptp4lGS = StartedGS /\ noSourceTS = 0
  /\ gmStore = EmptyGMStore /\ gmRestarted = FALSE

GMNext ==
  \/ \E ev \in GMEvents :
       \E acc \in IF ev.src = "dpll" THEN GMAccuracies ELSE {NoOffset} : GMAddEvent(ev, acc)
  \/ \E s \in GMOSStates : GMSystemClockUpdate(s)
  \/ GMReset
  \/ extractNoSourceTS \/ extractTS2PHCOffset
  \/ Ptp4lRestart

GMSpec == GMInit /\ [][GMNext]_gmVars

-----------------------------------------------------------------------------
(* Properties.                                                             *)

\* What the clock believes it announced is what ptp4l announces: a failed PMC
\* request leaves the belief as it was, so the next event repeats the request.
\* Only a restart of ptp4l, which the clock does not hear of, parts the two.
AnnouncedIsSet ==
  announced.class # ClassUninitialized /\ ~gmRestarted =>
    ptp4lGS.class = announced.class /\ ptp4lGS.traceable = (announced.class \in {6, 7})

\* The table above updateState, with a DPLL: its rows give the state and class
\* for what the sources say; the rows it leaves to the DPLL are left out here,
\* and so are the two of an offset out of range, which gpsd reports as a loss.
TableWithDPLL ==
  LET leading == getLeadingInterface(gmData)
      dpll    == DPLLState(gmData, leading)
      ts2phc  == StateOf(gmData, "ts2phc", FREERUN)
      gnss    == GNSSState(gmData)
  IN  leading # Unidentified /\ HasData(gmData, "dpll") /\ gm.state # EMPTY =>
        /\ dpll = HOLDOVER => gm.state = HOLDOVER /\ gm.class = 7
        /\ dpll = FREERUN => gm.state = FREERUN /\ gm.class \in {ClassFreerun, ClassOutOfSpec}
        /\ dpll = LOCKED /\ gm.state = LOCKED => gm.class = 6
        /\ dpll = LOCKED /\ gnss = LOCKED /\ ts2phc = FREERUN =>
             gm.state = FREERUN /\ gm.class = ClassFreerun

\* A consumer is never told anything but the current state, class, GNSS state
\* and overall state, over resets and events the clock ignored; a message may
\* be missing only until the first change after the clock was created.
GMPublishedCurrent ==
  /\ gmStore.ptp # NoMessage => gmStore.ptp = PtpStateToIPCState(gm.state)
  /\ gm.class # ClassUninitialized => gmStore.class = gm.class
  /\ gmGnss # NOTSET => gmStore.gnss = PtpStateToIPCState(gmGnss)
  /\ gmStore.sync # NoMessage => gmStore.sync = PtpStateToIPCState(gmOverall)
=============================================================================
