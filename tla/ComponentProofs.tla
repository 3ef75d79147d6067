--------------------------- MODULE ComponentProofs ---------------------------
(***************************************************************************)
(* Proofs about five of the components that MCComponents puts side by      *)
(* side: the grandmaster clock, for any interfaces, accuracies, states of  *)
(* the OS clock and window size; the high availability clock, for any      *)
(* members; the poll of ts2phc, for any interfaces and PHCs; the PHC first *)
(* step, for any times and widths of the integers; and the leap file       *)
(* manager, for any list of leap seconds, window and clocks.               *)
(***************************************************************************)
EXTENDS GMClock, HAClock, TS2PHCPoll, PHCFirstStep, LeapManager, SequenceLemmas,
        SequenceTheorems, FiniteSetTheorems

-----------------------------------------------------------------------------
(* The grandmaster clock.  The class it believes it announced is the one   *)
(* of ptp4l, what it published is current, and the table of the code's     *)
(* comments holds where a DPLL is present.                                 *)

GMSources == {"gnss", "dpll", "ts2phc"}
SourceStates(src) == IF src = "gnss" THEN {FREERUN, LOCKED} ELSE {FREERUN, HOLDOVER, LOCKED}
Details(src) ==
  [iface : GMIFaces, state : SourceStates(src), lost : BOOLEAN, offset : {0},
   oos : BOOLEAN, ft : BOOLEAN, fresh : {TRUE}]
\* An entry of the clock's data: at least one detail, its worst state, and a
\* window no event of a grandmaster fills.
EntryOf(src) ==
  [src : {src}, details : Seq(Details(src)) \ {<<>>}, state : SourceStates(src), window : {<<>>}]
GMEventsOf(src) ==
  [src : {src}, iface : GMIFaces, state : SourceStates(src), lost : BOOLEAN, offset : {NoOffset},
   oos : BOOLEAN, ft : BOOLEAN, late : BOOLEAN]
TypedData(data) ==
  DOMAIN data \subseteq GMSources /\ \A src \in DOMAIN data : data[src] \in EntryOf(src)

GMClasses == {6, 7, ClassOutOfSpec, ClassFreerun}
GMAccs == GMAccuracies \cup {AccUnknown, Acc100ns, "0"}
SyncStates ==
  [state : {NOTSET, EMPTY, FREERUN, HOLDOVER, LOCKED}, class : GMClasses \cup {ClassUninitialized},
   acc : GMAccs, lost : BOOLEAN, leading : GMIFaces \cup {""}]
Settings == [class : GMClasses, acc : GMAccs, traceable : BOOLEAN]

-----------------------------------------------------------------------------
(* Events and data.                                                        *)

\* The states are different values.
LEMMA StatesDiffer ==
  /\ LOCKED # FREERUN /\ LOCKED # HOLDOVER /\ FREERUN # HOLDOVER
  /\ NOTSET \notin {LOCKED, FREERUN, HOLDOVER, EMPTY}
  /\ EMPTY \notin {LOCKED, FREERUN, HOLDOVER}
  /\ UNKNOWN \notin {LOCKED, FREERUN, HOLDOVER, NOTSET}
BY DEF LOCKED, FREERUN, HOLDOVER, NOTSET, EMPTY, UNKNOWN

\* The events of the environment are of the sources of a grandmaster.
LEMMA EventsTyped == \A ev \in GMEvents : \E src \in GMSources : ev \in GMEventsOf(src)
<1> SUFFICES ASSUME NEW ev \in GMEvents PROVE \E src \in GMSources : ev \in GMEventsOf(src)
  OBVIOUS
<1>r. GMReceiver \in GMIFaces
  BY GMAssumption
<1>1. ASSUME NEW fix \in BOOLEAN, NEW lost \in BOOLEAN,
             ev = GNSSEvent(GMReceiver, fix, lost, NoOffset)
      PROVE  ev \in GMEventsOf("gnss")
  BY <1>1, <1>r DEF GNSSEvent, SourceEvent, GMEventsOf, SourceStates
<1>3. ASSUME NEW s \in {FREERUN, HOLDOVER, LOCKED},
             ev = SourceEvent("ts2phc", GMReceiver, s, FALSE, NoOffset)
      PROVE  ev \in GMEventsOf("ts2phc")
  BY <1>3, <1>r DEF SourceEvent, GMEventsOf, SourceStates
<1>4. ASSUME NEW i \in GMIFaces, NEW s \in {FREERUN, HOLDOVER, LOCKED}
      PROVE  sendDpllEvent(i, s) \in GMEventsOf("dpll")
  <2> DEFINE oos == s = FREERUN
  <2>1. /\ oos \in BOOLEAN
        /\ sendDpllEvent(i, s) = [SourceEvent("dpll", i, s, FALSE, NoOffset) EXCEPT !.oos = oos]
    BY DEF sendDpllEvent
  <2> HIDE DEF oos
  <2> QED BY <2>1 DEF SourceEvent, GMEventsOf, SourceStates
<1>5. LateEvent \in GMEventsOf("dpll")
  <2>1. sendDpllEvent(GMReceiver, FREERUN) \in GMEventsOf("dpll")
    BY <1>4, <1>r
  <2> QED BY <2>1 DEF LateEvent, GMEventsOf
<1>6. \A i : DPLLReports(i) \subseteq {FREERUN, HOLDOVER, LOCKED}
  BY DEF DPLLReports
<1>7. \/ \E fix, lost \in BOOLEAN : ev = GNSSEvent(GMReceiver, fix, lost, NoOffset)
      \/ \E i \in GMIFaces : \E s \in DPLLReports(i) : ev = sendDpllEvent(i, s)
      \/ ev = LateEvent
      \/ \E s \in {FREERUN, HOLDOVER, LOCKED} :
           ev = SourceEvent("ts2phc", GMReceiver, s, FALSE, NoOffset)
  <2>1. ev \in GNSSEvents =>
          \E fix, lost \in BOOLEAN : ev = GNSSEvent(GMReceiver, fix, lost, NoOffset)
    BY Zenon DEF GNSSEvents
  <2>2. ev \in DPLLEvents => \E i \in GMIFaces : \E s \in DPLLReports(i) : ev = sendDpllEvent(i, s)
    BY SMT DEF DPLLEvents, DPLLEventsOf
  <2>3. ev \in TS2PHCEvents =>
          \E s \in {FREERUN, HOLDOVER, LOCKED} :
            ev = SourceEvent("ts2phc", GMReceiver, s, FALSE, NoOffset)
    BY Zenon DEF TS2PHCEvents
  <2> QED BY <2>1, <2>2, <2>3, Zenon DEF GMEvents
<1> QED BY <1>1, <1>3, <1>4, <1>5, <1>6, <1>7 DEF GMSources

\* An event of a source is kept as its type says, and after it the source has
\* a detail.
LEMMA AddFacts ==
  ASSUME NEW src \in GMSources, NEW ev \in GMEventsOf(src),
         NEW e \in EntryOf(src) \cup {NewData(src)}
  PROVE  addEvent(e, ev).details \in Seq(Details(src)) \ {<<>>}
           /\ addEvent(e, ev).window = <<>> /\ addEvent(e, ev).src = src
           /\ DOMAIN addEvent(e, ev) = {"src", "details", "state", "window"}
<1> DEFINE at == GetDataDetails(e, ev.iface)
           new == [iface |-> ev.iface, state |-> ev.state, lost |-> ev.lost, offset |-> 0,
                   oos |-> ev.oos, ft |-> ev.ft, fresh |-> TRUE]
           old == [new EXCEPT !.offset = e.details[at].offset]
<1>1. /\ e.details \in Seq(Details(src)) /\ e.window = <<>> /\ e.src = src
      /\ DOMAIN e = {"src", "details", "state", "window"}
      /\ e = [src |-> e.src, details |-> e.details, state |-> e.state, window |-> e.window]
  <2>1. CASE e = NewData(src)
    BY <2>1, EmptySeq DEF NewData
  <2>2. CASE e \in EntryOf(src)
    BY <2>2 DEF EntryOf
  <2> QED BY <2>1, <2>2
<1>2. new \in Details(src)
  BY DEF Details, GMEventsOf
<1>3. at = 0 \/ at \in DOMAIN e.details
  BY DEF GetDataDetails, HasDetail
<1>4. DOMAIN e.details = 1..Len(e.details)
  BY <1>1, LenProperties
<1>5. at \in DOMAIN e.details => old \in Details(src)
  <2> SUFFICES ASSUME NEW k \in DOMAIN e.details
               PROVE  [new EXCEPT !.offset = e.details[k].offset] \in Details(src)
    OBVIOUS
  <2>1. e.details[k] \in Details(src)
    BY <1>1, <1>4, ElementOfSeq
  <2> QED BY <2>1 DEF Details, GMEventsOf
<1>6. ev.offset = NoOffset
  BY DEF GMEventsOf
<1>7. addEvent(e, ev) = IF at = 0 THEN [e EXCEPT !.details = Append(@, new)]
                        ELSE IF ev.late THEN e
                        ELSE [e EXCEPT !.details = [@ EXCEPT ![at] = old]]
  BY <1>6 DEF addEvent
<1> HIDE DEF at, new, old
<1>8. CASE at = 0
  <2>1. Append(e.details, new) \in Seq(Details(src)) /\ Append(e.details, new) # <<>>
    BY <1>1, <1>2, AppendProperties
  <2>2. addEvent(e, ev) = [e EXCEPT !.details = Append(@, new)]
    BY <1>7, <1>8
  <2> QED BY <1>1, <2>1, <2>2
<1>9. CASE at # 0
  <2>1. at \in 1..Len(e.details)
    BY <1>3, <1>4, <1>9
  <2>2. e.details # <<>>
    BY <2>1, EmptySeq
  <2>3. /\ [e.details EXCEPT ![at] = old] \in Seq(Details(src))
        /\ Len([e.details EXCEPT ![at] = old]) = Len(e.details)
    BY <1>1, <1>4, <1>5, <2>1, ExceptSeq
  <2>4. [e.details EXCEPT ![at] = old] # <<>>
    BY <2>1, <2>3, EmptySeq
  <2>5. addEvent(e, ev) = e \/ addEvent(e, ev) = [e EXCEPT !.details = [@ EXCEPT ![at] = old]]
    BY <1>7, <1>9
  <2> QED BY <1>1, <2>2, <2>3, <2>4, <2>5
<1> QED BY <1>8, <1>9

\* The worst state of an entry with a detail is one its source can have.
LEMMA WorstTyped ==
  ASSUME NEW src \in GMSources, NEW e, e.details \in Seq(Details(src)) \ {<<>>}
  PROVE  WorstDetail(e) \in SourceStates(src)
<1>1. DOMAIN e.details = 1..Len(e.details) /\ Len(e.details) # 0 /\ Len(e.details) \in Nat
  BY LenProperties, EmptySeq
<1>2. \A i \in DOMAIN e.details : e.details[i].state \in SourceStates(src)
  <2> SUFFICES ASSUME NEW i \in DOMAIN e.details PROVE e.details[i].state \in SourceStates(src)
    OBVIOUS
  <2>1. e.details[i] \in Details(src)
    BY <1>1, ElementOfSeq
  <2> QED BY <2>1 DEF Details
<1>3. 1 \in DOMAIN e.details
  BY <1>1
<1>4. e.details[1].state \in States(e)
  BY <1>3 DEF States
<1>5. States(e) \subseteq SourceStates(src)
  BY <1>2 DEF States
<1>6. SourceStates(src) \subseteq {FREERUN, HOLDOVER, LOCKED}
  BY DEF SourceStates
<1> HIDE DEF States
<1> QED BY <1>4, <1>5, <1>6 DEF WorstDetail

\* AddToData keeps the data typed.
LEMMA DataTyped ==
  ASSUME NEW data, TypedData(data), NEW src \in GMSources, NEW ev \in GMEventsOf(src)
  PROVE  TypedData(AddToData(data, ev))
<1> DEFINE e   == GetData(data, src)
           new == addEvent(e, ev)
<1>1. ev.src = src
  BY DEF GMEventsOf
<1>2. e \in EntryOf(src) \cup {NewData(src)}
  BY DEF GetData, HasData, TypedData
<1>3. /\ new.details \in Seq(Details(src)) \ {<<>>} /\ new.window = <<>> /\ new.src = src
      /\ DOMAIN new = {"src", "details", "state", "window"}
  BY <1>2, AddFacts
<1>4. WorstDetail(new) \in SourceStates(src)
  BY <1>3, WorstTyped
<1> HIDE DEF e, new
<1>5. UpdateState(new) \in EntryOf(src)
  <2> DEFINE w == WorstDetail(new)
  <2>1. w \in SourceStates(src) /\ UpdateState(new) = [new EXCEPT !.state = w]
    BY <1>4 DEF UpdateState
  <2> HIDE DEF w
  <2>3. [new EXCEPT !.state = w] =
          [src |-> new.src, details |-> new.details, state |-> w, window |-> new.window]
    <3> DEFINE up == [new EXCEPT !.state = w]
    <3>1. /\ up = [f \in {"src", "details", "state", "window"} |->
                     IF f = "state" THEN w ELSE new[f]]
      BY <1>3
    <3> QED BY <3>1
  <2> QED BY <1>3, <2>1, <2>3 DEF EntryOf
<1>6. DOMAIN AddToData(data, ev) = DOMAIN data \cup {src}
  BY <1>1 DEF AddToData
<1>7. \A x \in DOMAIN data \cup {src} : AddToData(data, ev)[x] \in EntryOf(x)
  BY <1>1, <1>5 DEF AddToData, TypedData, e, new
<1> QED BY <1>6, <1>7 DEF TypedData

-----------------------------------------------------------------------------
(* The composition of the states.                                          *)

\* A locked clock has class 6.
LockedIsClass6(s) == s.state = LOCKED => s.class = 6

\* What a composition keeps: the type, class 6 of a locked clock, and that no
\* composed state is the one of a clock that was told nothing.
Composed(s, t) ==
  t \in SyncStates /\ LockedIsClass6(t) /\ (t.state = NOTSET => s.state = NOTSET)

\* The cases of the decision table are steps of Composed.
LEMMA StepsCompose ==
  ASSUME NEW s \in SyncStates, LockedIsClass6(s)
  PROVE  /\ Composed(s, s) /\ Composed(s, ToLocked(s)) /\ Composed(s, ToHoldover(s))
         /\ Composed(s, [s EXCEPT !.state = FREERUN])
         /\ \A c \in GMClasses : Composed(s, ToFreerun(s, c))
<1>1. Composed(s, s)
  BY DEF Composed
<1>2. Composed(s, ToLocked(s))
  BY StatesDiffer DEF Composed, ToLocked, SyncStates, LockedIsClass6, GMClasses, GMAccs
<1>3. Composed(s, ToHoldover(s))
  BY StatesDiffer DEF Composed, ToHoldover, SyncStates, LockedIsClass6, GMClasses
<1>4. Composed(s, [s EXCEPT !.state = FREERUN])
  BY StatesDiffer DEF Composed, SyncStates, LockedIsClass6
<1>5. ASSUME NEW c \in GMClasses PROVE Composed(s, ToFreerun(s, c))
  BY StatesDiffer DEF Composed, ToFreerun, SyncStates, LockedIsClass6, GMAccs
<1> QED BY <1>1, <1>2, <1>3, <1>4, <1>5

\* ComposeState: what it may change, and the rows of the table.
LEMMA ComposeFacts ==
  ASSUME NEW s \in SyncStates, LockedIsClass6(s),
         NEW dpll \in {NOTSET, FREERUN, HOLDOVER, LOCKED}, NEW gnss \in {FREERUN, LOCKED},
         NEW ts2phc \in {FREERUN, HOLDOVER, LOCKED}, NEW lost, NEW oos
  PROVE  LET r == ComposeState(s, dpll, gnss, ts2phc, lost, oos)
         IN  /\ Composed(s, r)
             /\ dpll = HOLDOVER => r.state = HOLDOVER /\ r.class = 7
             /\ dpll = FREERUN => r.state = FREERUN /\ r.class \in {ClassFreerun, ClassOutOfSpec}
             /\ dpll = LOCKED /\ gnss = LOCKED /\ ts2phc = FREERUN =>
                  r.state = FREERUN /\ r.class = ClassFreerun
<1> DEFINE r == ComposeState(s, dpll, gnss, ts2phc, lost, oos)
<1>1. /\ Composed(s, s) /\ Composed(s, ToLocked(s)) /\ Composed(s, ToHoldover(s))
      /\ Composed(s, [s EXCEPT !.state = FREERUN])
      /\ \A c \in GMClasses : Composed(s, ToFreerun(s, c))
  BY StepsCompose
<1>2. ClassFreerun \in GMClasses /\ ClassOutOfSpec \in GMClasses
  BY DEF GMClasses
<1>3. /\ ToHoldover(s).state = HOLDOVER /\ ToHoldover(s).class = 7
      /\ \A c : ToFreerun(s, c).state = FREERUN /\ ToFreerun(s, c).class = c
  BY DEF ToHoldover, ToFreerun, SyncStates
<1> DEFINE oosClass == IF oos THEN ClassOutOfSpec ELSE ClassFreerun
<1>4. CASE dpll = FREERUN
  <2>1. r = ToFreerun(s, oosClass)
    BY <1>4, StatesDiffer DEF ComposeState
  <2>2. oosClass \in {ClassFreerun, ClassOutOfSpec}
    OBVIOUS
  <2> HIDE DEF r, oosClass
  <2>3. Composed(s, r) /\ r.state = FREERUN /\ r.class \in {ClassFreerun, ClassOutOfSpec}
    BY <1>1, <1>2, <1>3, <2>1, <2>2
  <2> QED BY <1>4, <2>3, StatesDiffer DEF r
<1>5. CASE dpll = HOLDOVER
  <2>1. r = ToHoldover(s)
    BY <1>5, StatesDiffer DEF ComposeState
  <2> QED BY <1>1, <1>3, <1>5, <2>1, StatesDiffer
<1>6. CASE dpll \in {LOCKED, NOTSET} /\ gnss = LOCKED
  <2>1. r = WithGNSS(s, ts2phc)
    BY <1>6, StatesDiffer DEF ComposeState
  <2>2. ts2phc = FREERUN => r = ToFreerun(s, ClassFreerun)
    BY <2>1, StatesDiffer DEF WithGNSS
  <2>3. ts2phc = LOCKED => r = ToLocked(s)
    BY <2>1, StatesDiffer DEF WithGNSS
  <2>4. ts2phc = HOLDOVER => r = ToHoldover(s)
    BY <2>1, StatesDiffer DEF WithGNSS
  <2> HIDE DEF r
  <2>5. Composed(s, r) /\ (ts2phc = FREERUN => r.state = FREERUN /\ r.class = ClassFreerun)
    BY <1>1, <1>2, <1>3, <2>2, <2>3, <2>4
  <2> QED BY <1>6, <2>5, StatesDiffer DEF r
<1>7. CASE dpll \in {LOCKED, NOTSET} /\ gnss = FREERUN
  <2>1. r = WithoutGNSS(s, lost, ts2phc)
    BY <1>7, StatesDiffer DEF ComposeState
  <2>2. r \in {s, [s EXCEPT !.state = FREERUN], ToHoldover(s), ToFreerun(s, ClassFreerun)}
    BY <2>1 DEF WithoutGNSS
  <2> HIDE DEF r
  <2>3. Composed(s, r)
    BY <1>1, <1>2, <2>2
  <2> QED BY <1>7, <2>3, StatesDiffer DEF r
<1> QED BY <1>4, <1>5, <1>6, <1>7

\* The states updateState reads are states of their sources.
LEMMA ReadStates ==
  ASSUME NEW data, TypedData(data), NEW leading, NEW count
  PROVE  /\ DPLLState(data, leading) \in {NOTSET, FREERUN, HOLDOVER, LOCKED}
         /\ HasData(data, "dpll") => DPLLState(data, leading) \in {FREERUN, HOLDOVER, LOCKED}
         /\ GNSSState(data) \in {FREERUN, LOCKED}
         /\ TS2PHCState(data, count) \in {FREERUN, HOLDOVER, LOCKED}
         /\ TS2PHCState(data, count) \in {FREERUN, StateOf(data, "ts2phc", FREERUN)}
<1>1. \A src \in DOMAIN data : src \in GMSources /\ data[src].state \in SourceStates(src)
  BY DEF TypedData, EntryOf
<1>2. HasData(data, "dpll") => data["dpll"].state \in {FREERUN, HOLDOVER, LOCKED}
  BY <1>1 DEF HasData, SourceStates
<1>3. HasData(data, "gnss") => data["gnss"].state \in {FREERUN, LOCKED}
  BY <1>1 DEF HasData, SourceStates
<1>4. HasData(data, "ts2phc") => data["ts2phc"].state \in {FREERUN, HOLDOVER, LOCKED}
  BY <1>1 DEF HasData, SourceStates
<1>5. GNSSState(data) \in {FREERUN, LOCKED}
  BY <1>3 DEF GNSSState, StateOf
<1>6. StateOf(data, "ts2phc", FREERUN) \in {FREERUN, HOLDOVER, LOCKED}
  BY <1>4 DEF StateOf
<1>7. StateOf(data, "dpll", NOTSET) \in {NOTSET, FREERUN, HOLDOVER, LOCKED}
  BY <1>2 DEF StateOf
<1>8. HasData(data, "dpll") => StateOf(data, "dpll", NOTSET) \in {FREERUN, HOLDOVER, LOCKED}
  BY <1>2 DEF StateOf
<1> QED BY <1>5, <1>6, <1>7, <1>8 DEF DPLLState, TS2PHCState

\* The loss and the leading interface are those of the first GNSS detail.
LEMMA LeadingTyped ==
  ASSUME NEW data, TypedData(data)
  PROVE  /\ isSourceLost(data) \in BOOLEAN
         /\ getLeadingInterface(data) \in GMIFaces \cup {Unidentified}
<1>1. ASSUME HasData(data, "gnss"), data["gnss"].details # <<>>
      PROVE  data["gnss"].details[1] \in Details("gnss")
  <2>1. data["gnss"].details \in Seq(Details("gnss"))
    BY <1>1 DEF TypedData, EntryOf, HasData
  <2>2. 1 \in 1..Len(data["gnss"].details)
    BY <1>1, <2>1, EmptySeq, LenProperties
  <2> QED BY <2>1, <2>2, ElementOfSeq
<1>2. isSourceLost(data) \in BOOLEAN
  BY DEF isSourceLost
<1>3. getLeadingInterface(data) \in GMIFaces \cup {Unidentified}
  BY <1>1 DEF getLeadingInterface, Details
<1> QED BY <1>2, <1>3

\* The rows of TableWithDPLL, for a state and the data it was composed from.
Rows(s, data) ==
  LET leading == getLeadingInterface(data)
      dpll    == DPLLState(data, leading)
      ts2phc  == StateOf(data, "ts2phc", FREERUN)
      gnss    == GNSSState(data)
  IN  leading # Unidentified /\ HasData(data, "dpll") /\ s.state # EMPTY =>
        /\ dpll = HOLDOVER => s.state = HOLDOVER /\ s.class = 7
        /\ dpll = FREERUN => s.state = FREERUN /\ s.class \in {ClassFreerun, ClassOutOfSpec}
        /\ dpll = LOCKED /\ s.state = LOCKED => s.class = 6
        /\ dpll = LOCKED /\ gnss = LOCKED /\ ts2phc = FREERUN =>
             s.state = FREERUN /\ s.class = ClassFreerun

\* The same for updateState, of any typed data.
LEMMA UpdateFacts ==
  ASSUME NEW s \in SyncStates, LockedIsClass6(s), NEW data, TypedData(data), NEW count
  PROVE  /\ Composed(s, updateState(s, data, count))
         /\ Rows(updateState(s, data, count), data)
<1> DEFINE leading == getLeadingInterface(data)
           lost    == isSourceLost(data)
           oos     == LeadingDPLL(data, leading, "oos") /\ LeadingDPLL(data, leading, "ft")
           base    == [s EXCEPT !.lost = lost, !.leading = leading]
           dpll    == DPLLState(data, leading)
           gnss    == GNSSState(data)
           seen    == TS2PHCState(data, count)
           ts2phc  == StateOf(data, "ts2phc", FREERUN)
           t       == updateState(s, data, count)
<1>1. CASE leading = Unidentified
  <2>1. t = s
    BY <1>1 DEF updateState
  <2>2. Composed(s, s)
    BY StepsCompose
  <2> QED BY <1>1, <2>1, <2>2 DEF Rows
<1>2. CASE leading # Unidentified
  <2>1. t = ComposeState(base, dpll, gnss, seen, lost, oos)
    BY <1>2 DEF updateState
  <2>2. base \in SyncStates /\ base.state = s.state /\ base.class = s.class
    BY <1>2, LeadingTyped DEF SyncStates
  <2>3. LockedIsClass6(base)
    BY <2>2 DEF LockedIsClass6
  <2>4. /\ dpll \in {NOTSET, FREERUN, HOLDOVER, LOCKED} /\ gnss \in {FREERUN, LOCKED}
        /\ seen \in {FREERUN, HOLDOVER, LOCKED} /\ seen \in {FREERUN, ts2phc}
    BY ReadStates
  <2> HIDE DEF leading, lost, oos, base, dpll, gnss, seen, ts2phc, t
  <2>5. /\ Composed(base, t)
        /\ dpll = HOLDOVER => t.state = HOLDOVER /\ t.class = 7
        /\ dpll = FREERUN => t.state = FREERUN /\ t.class \in {ClassFreerun, ClassOutOfSpec}
        /\ dpll = LOCKED /\ gnss = LOCKED /\ seen = FREERUN =>
             t.state = FREERUN /\ t.class = ClassFreerun
    BY <2>1, <2>2, <2>3, <2>4, ComposeFacts
  <2>6. Composed(s, t)
    BY <2>2, <2>5 DEF Composed
  <2>7. t.state = LOCKED => t.class = 6
    BY <2>5 DEF Composed, LockedIsClass6
  <2>8. ts2phc = FREERUN => seen = FREERUN
    BY <2>4
  <2> QED BY <2>5, <2>6, <2>7, <2>8 DEF Rows, leading, dpll, gnss, ts2phc, t
<1> QED BY <1>1, <1>2

-----------------------------------------------------------------------------
(* The invariant.                                                          *)

\* Besides the properties: the types, class 6 of a locked clock, what ptp4l
\* calls its time for a class that is not 6, and that no port state was
\* published by a clock that was told nothing.
GMInv ==
  /\ TypedData(gmData) /\ gm \in SyncStates /\ LockedIsClass6(gm)
  /\ announced \in [class : GMClasses \cup {ClassUninitialized}, acc : GMAccs]
  /\ ptp4lGS \in Settings
  /\ ptp4lGS.class # 6 => ptp4lGS.traceable = (ptp4lGS.class = 7)
  /\ DOMAIN gmStore = {"ptp", "class", "gnss", "sync"}
  /\ gm.state = NOTSET => gmStore.ptp = NoMessage
  /\ AnnouncedIsSet /\ GMPublishedCurrent /\ Rows(gm, gmData)

\* The rows, of the clock, are the property.
LEMMA RowsAreTable == TableWithDPLL <=> Rows(gm, gmData)
BY DEF TableWithDPLL, Rows

\* The settings ptp4l starts with.
LEMMA StartedTyped ==
  StartedGS \in Settings /\ (StartedGS.class # 6 => StartedGS.traceable = (StartedGS.class = 7))
<1>1. StartedGS.class \in {6, 248} /\ StartedGS.acc = AccUnknown
  BY GMAssumption DEF StartedGS
<1>2. StartedGS.traceable = FALSE
  BY DEF StartedGS
<1>3. StartedGS = [class |-> StartedGS.class, traceable |-> FALSE, acc |-> StartedGS.acc]
  BY DEF StartedGS
<1>4. StartedGS.class \in GMClasses /\ StartedGS.acc \in GMAccs /\ StartedGS.class # 7
  BY <1>1 DEF GMClasses, ClassFreerun, GMAccs
<1>5. StartedGS \in Settings
  <2>1. \A c \in GMClasses, a \in GMAccs :
          [class |-> c, traceable |-> FALSE, acc |-> a] \in Settings
    BY DEF Settings
  <2> QED BY <1>3, <1>4, <2>1, Zenon
<1>6. (StartedGS.class = 7) = FALSE
  BY <1>4
<1> QED BY <1>2, <1>5, <1>6

\* The invariant holds at the start.
LEMMA GMInitInv == GMInit => GMInv
<1> SUFFICES ASSUME GMInit PROVE GMInv
  OBVIOUS
<1> USE DEF GMInit
<1>1. DOMAIN gmData = {}
  BY DEF NoData
<1>2. TypedData(gmData) /\ Rows(gm, gmData)
  BY <1>1 DEF TypedData, Rows, HasData
<1>3. gm \in SyncStates /\ LockedIsClass6(gm)
  BY StatesDiffer DEF NewGM, SyncStates, GMAccs, LockedIsClass6
<1>4. announced \in [class : GMClasses \cup {ClassUninitialized}, acc : GMAccs]
  BY DEF GMAccs
<1>5. /\ ptp4lGS \in Settings
      /\ ptp4lGS.class # 6 => ptp4lGS.traceable = (ptp4lGS.class = 7)
  BY StartedTyped
<1>6. DOMAIN gmStore = {"ptp", "class", "gnss", "sync"} /\ gmStore.ptp = NoMessage
  BY DEF EmptyGMStore
<1>7. AnnouncedIsSet
  BY DEF AnnouncedIsSet
<1>8. GMPublishedCurrent
  <2>1. gm.class = ClassUninitialized
    BY DEF NewGM
  <2>2. gmStore.ptp = NoMessage /\ gmStore.sync = NoMessage
    BY DEF EmptyGMStore
  <2> QED BY <2>1, <2>2, Zenon DEF GMPublishedCurrent
<1> QED BY <1>2, <1>3, <1>4, <1>5, <1>6, <1>7, <1>8 DEF GMInv

\* What a class that was announced does to the settings of ptp4l.
LEMMA AnnounceFacts ==
  ASSUME NEW s \in SyncStates, s.class \in GMClasses, NEW g \in Settings,
         g.class # 6 => g.traceable = (g.class = 7), NEW answer \in Answers
  PROVE  LET r == announceClockClass(s, g, answer)
         IN  /\ r.gs \in Settings /\ (r.gs.class # 6 => r.gs.traceable = (r.gs.class = 7))
             /\ r.ok \in BOOLEAN
             /\ ~r.ok => r.gs = g
             /\ r.ok => r.gs.class = s.class /\ r.gs.traceable = (s.class \in {6, 7})
<1> DEFINE r == announceClockClass(s, g, answer)
<1>1. /\ SettingsFor(s) \in Settings /\ SettingsFor(s).class = s.class
      /\ SettingsFor(s).traceable = (s.class \in {6, 7})
  <2>1. SettingsFor(s).acc \in GMAccs
    BY DEF SettingsFor, GMAccs, SyncStates
  <2> DEFINE traceable == s.class \in {6, 7}
             acc == SettingsFor(s).acc
  <2>2. SettingsFor(s) = [class |-> s.class, traceable |-> traceable, acc |-> acc]
    BY DEF SettingsFor
  <2>3. traceable \in BOOLEAN
    OBVIOUS
  <2>4. \A b \in BOOLEAN, a \in GMAccs :
          /\ [class |-> s.class, traceable |-> b, acc |-> a] \in Settings
          /\ [class |-> s.class, traceable |-> b, acc |-> a].class = s.class
    BY DEF Settings
  <2>5. [class |-> s.class, traceable |-> traceable, acc |-> acc].traceable = traceable
    BY Zenon
  <2> QED BY <2>1, <2>2, <2>3, <2>4, <2>5, Zenon
<1>2. s.class # 6 => (s.class \in {6, 7}) = (s.class = 7)
  BY DEF GMClasses, ClassOutOfSpec, ClassFreerun
<1>3. ~Outdated(g, s.class) => g.class = s.class /\ g.traceable = (s.class \in {6, 7})
  <2>1. ~Outdated(g, s.class) => g.class = s.class /\ (s.class = 6 => g.traceable)
    BY DEF Outdated
  <2>2. g.traceable \in BOOLEAN
    BY DEF Settings
  <2>3. s.class = 6 => (s.class \in {6, 7}) = TRUE
    OBVIOUS
  <2>4. s.class = 6 /\ g.traceable => g.traceable = (s.class \in {6, 7})
    BY <2>2, <2>3, Zenon
  <2>5. s.class # 6 /\ g.class = s.class => g.traceable = (s.class \in {6, 7})
    <3> SUFFICES ASSUME s.class # 6, g.class = s.class PROVE g.traceable = (s.class \in {6, 7})
      OBVIOUS
    <3>1. g.traceable = (g.class = 7)
      OBVIOUS
    <3> QED BY <1>2, <3>1, Zenon
  <2> QED BY <2>1, <2>4, <2>5
<1>4. \/ r = [gs |-> g, ok |-> FALSE]
      \/ r = [gs |-> IF Outdated(g, s.class) THEN SettingsFor(s) ELSE g, ok |-> TRUE]
  BY DEF announceClockClass, GMClasses, Answers
<1> HIDE DEF r
<1>5. CASE r = [gs |-> g, ok |-> FALSE]
  BY <1>5 DEF r
<1>6. CASE r = [gs |-> IF Outdated(g, s.class) THEN SettingsFor(s) ELSE g, ok |-> TRUE]
  <2>1. CASE Outdated(g, s.class)
    <3>1. r.gs = SettingsFor(s) /\ r.ok = TRUE
      BY <1>6, <2>1
    <3> QED BY <1>1, <1>2, <3>1 DEF r
  <2>2. CASE ~Outdated(g, s.class)
    <3>1. r.gs = g /\ r.ok = TRUE
      BY <1>6, <2>2
    <3> QED BY <1>3, <2>2, <3>1 DEF r
  <2> QED BY <2>1, <2>2
<1> QED BY <1>4, <1>5, <1>6

\* The parts of the invariant about the class: the belief of the clock and the
\* settings of ptp4l.
ClassInv ==
  /\ announced \in [class : GMClasses \cup {ClassUninitialized}, acc : GMAccs]
  /\ ptp4lGS \in Settings
  /\ ptp4lGS.class # 6 => ptp4lGS.traceable = (ptp4lGS.class = 7)
  /\ AnnouncedIsSet

\* An announcement, whatever PMC answers.
LEMMA AnnounceInv ==
  ASSUME NEW s \in SyncStates, NEW due \in BOOLEAN, NEW acc \in GMAccs, NEW answer \in Answers,
         due => s.class # ClassUninitialized, ClassInv,
         announceClockClassIfChanged(s, due, acc, answer)
  PROVE  /\ ClassInv'
         /\ gm' \in SyncStates /\ gm'.state = s.state /\ gm'.class = s.class
<1> USE DEF ClassInv
<1>1. CASE ~due
  <2>1. gm' = s /\ UNCHANGED <<ptp4lGS, announced, gmRestarted>>
    BY <1>1 DEF announceClockClassIfChanged
  <2>2. AnnouncedIsSet'
    BY <2>1 DEF AnnouncedIsSet
  <2> QED BY <2>1, <2>2
<1>2. CASE due
  <2> DEFINE asked == [s EXCEPT !.acc = acc]
             res   == announceClockClass(asked, ptp4lGS, answer)
  <2>1. /\ gm' = asked /\ ptp4lGS' = res.gs
        /\ announced' = IF res.ok THEN [class |-> res.gs.class, acc |-> res.gs.acc] ELSE announced
        /\ gmRestarted' = (gmRestarted /\ ~res.ok)
    BY <1>2 DEF announceClockClassIfChanged
  <2>2. asked \in SyncStates /\ asked.state = s.state /\ asked.class = s.class
    BY DEF SyncStates
  <2>3. asked.class \in GMClasses
    BY <1>2, <2>2 DEF SyncStates
  <2> HIDE DEF asked
  <2>4. /\ res.gs \in Settings /\ (res.gs.class # 6 => res.gs.traceable = (res.gs.class = 7))
        /\ res.ok \in BOOLEAN
        /\ ~res.ok => res.gs = ptp4lGS
        /\ res.ok => res.gs.class = asked.class /\ res.gs.traceable = (asked.class \in {6, 7})
    BY <2>2, <2>3, AnnounceFacts
  <2> HIDE DEF res
  <2>5. CASE ~res.ok
    <3>1. ptp4lGS' = ptp4lGS /\ announced' = announced /\ (gmRestarted' <=> gmRestarted)
      BY <2>1, <2>4, <2>5
    <3>2. AnnouncedIsSet'
      BY <3>1 DEF AnnouncedIsSet
    <3> QED BY <2>1, <2>2, <3>1, <3>2
  <2>6. CASE res.ok
    <3>1. announced' = [class |-> res.gs.class, acc |-> res.gs.acc]
      BY <2>1, <2>6
    <3>2. res.gs.class \in GMClasses /\ res.gs.acc \in GMAccs
      BY <2>4 DEF Settings
    <3>3. announced' \in [class : GMClasses \cup {ClassUninitialized}, acc : GMAccs]
      BY <3>1, <3>2
    <3>4. announced'.class = res.gs.class
      BY <3>1
    <3>5. res.gs.class = asked.class /\ res.gs.traceable = (asked.class \in {6, 7})
      BY <2>4, <2>6
    <3>6. ptp4lGS'.class = announced'.class /\ ptp4lGS'.traceable = (announced'.class \in {6, 7})
      BY <2>1, <3>4, <3>5, Zenon
    <3>7. AnnouncedIsSet'
      BY <3>6, Zenon DEF AnnouncedIsSet
    <3>8. ptp4lGS'.class # 6 => ptp4lGS'.traceable = (ptp4lGS'.class = 7)
      BY <2>1, <2>4, Zenon
    <3> QED BY <2>1, <2>2, <2>4, <3>3, <3>7, <3>8
  <2> QED BY <2>4, <2>5, <2>6
<1> QED BY <1>1, <1>2

\* What is published after a change is what changed.
LEMMA PublishFacts ==
  ASSUME NEW t, NEW gnss, NEW over,
         DOMAIN gmStore = {"ptp", "class", "gnss", "sync"}, GMPublishedCurrent,
         gm.state = NOTSET => gmStore.ptp = NoMessage, t.state = NOTSET => gm.state = NOTSET,
         gmStore' = Published(gmStore, gm, t, gnss, over), gmGnss' = gnss, gmOverall' = over,
         gm'.state = t.state, gm'.class = t.class
  PROVE  /\ DOMAIN gmStore' = {"ptp", "class", "gnss", "sync"}
         /\ gm'.state = NOTSET => gmStore'.ptp = NoMessage
         /\ GMPublishedCurrent'
<1>1. DOMAIN gmStore' = {"ptp", "class", "gnss", "sync"}
  BY DEF Published
<1>2. gmStore'.ptp = IF t.state # gm.state /\ gm.state # NOTSET
                     THEN PtpStateToIPCState(t.state) ELSE gmStore.ptp
  BY DEF Published
<1>3. gmStore'.class =
        IF t.class \notin {gm.class, ClassUninitialized} THEN t.class ELSE gmStore.class
  BY DEF Published
<1>4. gmStore'.gnss = IF gnss # gmGnss THEN PtpStateToIPCState(gnss) ELSE gmStore.gnss
  BY DEF Published
<1>5. gmStore'.sync = IF over # gmOverall THEN PtpStateToIPCState(over) ELSE gmStore.sync
  BY DEF Published
<1>6. gm'.state = NOTSET => gmStore'.ptp = NoMessage
  BY <1>2
<1>7. gmStore'.ptp # NoMessage => gmStore'.ptp = PtpStateToIPCState(gm'.state)
  <2>1. CASE t.state # gm.state /\ gm.state # NOTSET
    BY <1>2, <2>1, Zenon
  <2>2. CASE ~(t.state # gm.state /\ gm.state # NOTSET)
    <3>1. gmStore'.ptp = gmStore.ptp
      BY <1>2, <2>2
    <3>2. gmStore.ptp # NoMessage => t.state = gm.state
      BY <2>2
    <3> QED BY <3>1, <3>2, Zenon DEF GMPublishedCurrent
  <2> QED BY <2>1, <2>2
<1>8. gm'.class # ClassUninitialized => gmStore'.class = gm'.class
  BY <1>3 DEF GMPublishedCurrent
<1>9. gmGnss' # NOTSET => gmStore'.gnss = PtpStateToIPCState(gmGnss')
  BY <1>4 DEF GMPublishedCurrent
<1>10. gmStore'.sync # NoMessage => gmStore'.sync = PtpStateToIPCState(gmOverall')
  BY <1>5 DEF GMPublishedCurrent
<1> QED BY <1>1, <1>6, <1>7, <1>8, <1>9, <1>10, Zenon DEF GMPublishedCurrent

\* An event, with all that follows from it.
LEMMA AddEventInv ==
  ASSUME GMInv, NEW ev \in GMEvents,
         NEW dpllAcc \in IF ev.src = "dpll" THEN GMAccuracies ELSE {NoOffset},
         GMAddEvent(ev, dpllAcc)
  PROVE  GMInv'
<1> DEFINE data  == AddToData(gmData, ev)
           next  == updateState(gm, data, noSourceTS)
           known == getLeadingInterface(data) # Unidentified
           gnss  == IF known THEN GNSSState(data) ELSE gmGnss
           over  == WorstOfState(next.state, gmOS)
           acc   == AskedAccuracy(ev, next, dpllAcc)
           due   == Due(next, known, acc)
<1>1. /\ gmData' = data /\ gmGnss' = gnss /\ gmOverall' = over
      /\ gmStore' = Published(gmStore, gm, next, gnss, over)
      /\ \E answer \in IF due THEN Answers ELSE {"ok"} :
           announceClockClassIfChanged(next, due, acc, answer)
  BY Zenon DEF GMAddEvent
<1>2. PICK answer \in Answers : announceClockClassIfChanged(next, due, acc, answer)
  BY <1>1, "ok" \in Answers DEF Answers
<1>3. TypedData(data)
  <2>1. PICK src \in GMSources : ev \in GMEventsOf(src)
    BY EventsTyped
  <2> QED BY <2>1, DataTyped DEF GMInv
<1> HIDE DEF data
<1>4. Composed(gm, next) /\ Rows(next, data)
  BY <1>3, UpdateFacts DEF GMInv
<1>5. acc \in GMAccs
  <2>1. announced.acc \in GMAccs
    BY DEF GMInv
  <2>2. ev.src = "dpll" => dpllAcc \in GMAccs
    BY DEF GMAccs
  <2> QED BY <2>1, <2>2 DEF AskedAccuracy
<1>6. due \in BOOLEAN /\ (due => next.class # ClassUninitialized)
  BY DEF Due
<1> HIDE DEF next, known, gnss, over, acc, due
<1>7. next \in SyncStates /\ LockedIsClass6(next) /\ (next.state = NOTSET => gm.state = NOTSET)
  BY <1>4 DEF Composed
<1>8. ClassInv
  BY DEF GMInv, ClassInv
<1>9. ClassInv' /\ gm' \in SyncStates /\ gm'.state = next.state /\ gm'.class = next.class
  BY <1>2, <1>5, <1>6, <1>7, <1>8, AnnounceInv
<1>10. /\ DOMAIN gmStore' = {"ptp", "class", "gnss", "sync"}
       /\ gm'.state = NOTSET => gmStore'.ptp = NoMessage
       /\ GMPublishedCurrent'
  <2>1. /\ DOMAIN gmStore = {"ptp", "class", "gnss", "sync"}
        /\ gm.state = NOTSET => gmStore.ptp = NoMessage
        /\ GMPublishedCurrent
    BY DEF GMInv
  <2> QED BY <1>1, <1>7, <1>9, <2>1, PublishFacts
<1>11. LockedIsClass6(gm')
  BY <1>7, <1>9 DEF LockedIsClass6
<1>12. Rows(gm', gmData')
  <2>1. Rows(gm', data)
    BY <1>4, <1>9 DEF Rows
  <2> QED BY <1>1, <2>1
<1>13. TypedData(gmData')
  BY <1>1, <1>3
<1> QED BY <1>9, <1>10, <1>11, <1>12, <1>13 DEF GMInv, ClassInv

\* A new state of the OS clock.
LEMMA SystemClockInv ==
  ASSUME GMInv, NEW s, GMSystemClockUpdate(s)
  PROVE  GMInv'
<1> DEFINE over == WorstOfState(gm.state, s)
<1>1. /\ gmOverall' = over
      /\ gmStore' = [gmStore EXCEPT !.sync =
                       IF over # gmOverall THEN PtpStateToIPCState(over) ELSE @]
      /\ UNCHANGED <<gmData, gm, gmGnss, announced, ptp4lGS, gmRestarted>>
  BY DEF GMSystemClockUpdate
<1>2. DOMAIN gmStore = {"ptp", "class", "gnss", "sync"}
  BY DEF GMInv
<1> HIDE DEF over
<1>3. /\ DOMAIN gmStore' = {"ptp", "class", "gnss", "sync"}
      /\ gmStore'.ptp = gmStore.ptp /\ gmStore'.class = gmStore.class
      /\ gmStore'.gnss = gmStore.gnss
      /\ gmStore'.sync = IF over # gmOverall THEN PtpStateToIPCState(over) ELSE gmStore.sync
  BY <1>1, <1>2
<1>4. GMPublishedCurrent'
  <2>1. GMPublishedCurrent
    BY DEF GMInv
  <2>2. gmStore'.sync # NoMessage => gmStore'.sync = PtpStateToIPCState(gmOverall')
    BY <1>1, <1>3, <2>1 DEF GMPublishedCurrent
  <2> QED BY <1>1, <1>3, <2>1, <2>2, Zenon DEF GMPublishedCurrent
<1>5. AnnouncedIsSet'
  BY <1>1 DEF GMInv, AnnouncedIsSet
<1> QED BY <1>1, <1>3, <1>4, <1>5 DEF GMInv

\* A reset of the clock.
LEMMA ResetInv ==
  ASSUME GMInv, GMReset
  PROVE  GMInv'
<1>1. /\ gmData' = NoData /\ gm' = ZeroSyncState /\ gmStore' = EmptyGMStore /\ gmGnss' = NOTSET
      /\ announced' = [class |-> 0, acc |-> "0"] /\ ptp4lGS' = ptp4lGS
  BY DEF GMReset
<1>2. DOMAIN gmData' = {}
  BY <1>1 DEF NoData
<1>3. TypedData(gmData') /\ Rows(gm', gmData')
  BY <1>2 DEF TypedData, Rows, HasData
<1>4. gm' \in SyncStates /\ LockedIsClass6(gm') /\ gm'.class = ClassUninitialized
  BY <1>1, StatesDiffer DEF ZeroSyncState, SyncStates, GMAccs, LockedIsClass6, ClassUninitialized
<1>5. announced' \in [class : GMClasses \cup {ClassUninitialized}, acc : GMAccs]
  BY <1>1 DEF GMAccs, ClassUninitialized
<1>6. DOMAIN gmStore' = {"ptp", "class", "gnss", "sync"}
      /\ gmStore'.ptp = NoMessage /\ gmStore'.sync = NoMessage
  BY <1>1 DEF EmptyGMStore
<1>7. AnnouncedIsSet'
  BY <1>1 DEF AnnouncedIsSet, ClassUninitialized
<1>8. GMPublishedCurrent'
  BY <1>1, <1>4, <1>6, Zenon DEF GMPublishedCurrent
<1>9. ptp4lGS' \in Settings /\ (ptp4lGS'.class # 6 => ptp4lGS'.traceable = (ptp4lGS'.class = 7))
  BY <1>1 DEF GMInv
<1> QED BY <1>3, <1>4, <1>5, <1>6, <1>7, <1>8, <1>9 DEF GMInv

\* ptp4l is started again.
LEMMA RestartInv ==
  ASSUME GMInv, Ptp4lRestart
  PROVE  GMInv'
<1>1. ptp4lGS' = StartedGS /\ gmRestarted' = TRUE
      /\ UNCHANGED <<gmData, gm, gmGnss, gmOverall, announced, gmStore>>
  BY DEF Ptp4lRestart
<1>2. /\ ptp4lGS' \in Settings
      /\ ptp4lGS'.class # 6 => ptp4lGS'.traceable = (ptp4lGS'.class = 7)
  BY <1>1, StartedTyped
<1>3. AnnouncedIsSet'
  BY <1>1 DEF AnnouncedIsSet
<1>4. GMPublishedCurrent'
  BY <1>1 DEF GMInv, GMPublishedCurrent
<1> QED BY <1>1, <1>2, <1>3, <1>4 DEF GMInv

\* The parser, which leaves the clock alone.
LEMMA ParserInv ==
  ASSUME GMInv,
         UNCHANGED <<gmData, gm, gmGnss, gmOverall, gmOS, announced, ptp4lGS, gmStore, gmRestarted>>
  PROVE  GMInv'
<1>1. AnnouncedIsSet'
  BY DEF GMInv, AnnouncedIsSet
<1>2. GMPublishedCurrent'
  BY DEF GMInv, GMPublishedCurrent
<1> QED BY <1>1, <1>2 DEF GMInv

\* Over every event, answer, reset and restart of ptp4l, what the clock keeps
\* and publishes is consistent (GMClock.AddEvent, Reset, SystemClockUpdate).
THEOREM GMInvariant == GMSpec => []GMInv
<1>1. GMInit => GMInv
  BY GMInitInv
<1>2. GMInv /\ [GMNext]_gmVars => GMInv'
  <2> SUFFICES ASSUME GMInv, [GMNext]_gmVars PROVE GMInv'
    OBVIOUS
  <2>1. ASSUME NEW ev \in GMEvents,
               NEW acc \in IF ev.src = "dpll" THEN GMAccuracies ELSE {NoOffset}, GMAddEvent(ev, acc)
        PROVE  GMInv'
    BY <2>1, AddEventInv
  <2>2. ASSUME NEW s \in GMOSStates, GMSystemClockUpdate(s) PROVE GMInv'
    BY <2>2, SystemClockInv
  <2>3. CASE GMReset
    BY <2>3, ResetInv
  <2>4. CASE extractNoSourceTS
    BY <2>4, ParserInv DEF extractNoSourceTS
  <2>5. CASE extractTS2PHCOffset
    BY <2>5, ParserInv DEF extractTS2PHCOffset
  <2>6. CASE Ptp4lRestart
    BY <2>6, RestartInv
  <2>7. CASE UNCHANGED gmVars
    BY <2>7, ParserInv DEF gmVars
  <2> QED BY <2>1, <2>2, <2>3, <2>4, <2>5, <2>6, <2>7, Zenon DEF GMNext
<1> QED BY <1>1, <1>2, PTL DEF GMSpec

\* As long as ptp4l was not restarted, it announces the class and traceability
\* the clock believes it announced (announceClockClassIfChanged).
THEOREM AnnouncedIsSetAlways == GMSpec => []AnnouncedIsSet
<1>1. GMInv => AnnouncedIsSet
  BY DEF GMInv
<1> QED BY <1>1, GMInvariant, PTL

\* Consumers are never told anything but the current states and class (Publish).
THEOREM GMPublishedCurrentAlways == GMSpec => []GMPublishedCurrent
<1>1. GMInv => GMPublishedCurrent
  BY DEF GMInv
<1> QED BY <1>1, GMInvariant, PTL

\* With a DPLL the state and class are those of the table above updateState.
THEOREM TableWithDPLLAlways == GMSpec => []TableWithDPLL
<1>1. GMInv => TableWithDPLL
  BY RowsAreTable DEF GMInv
<1> QED BY <1>1, GMInvariant, PTL

-----------------------------------------------------------------------------
(* The HA clock.  Its overall state is the worst of the OS clock's and of  *)
(* its own, which is LOCKED when a member's is; what was published under   *)
(* its name is that, and nothing was under a member's.                     *)

ClockStates == {NOTSET, FREERUN, HOLDOVER, LOCKED}
SomeLocked(ms) == \E c \in HAMembers : ms[c].state = LOCKED
HAInv ==
  /\ members \in [HAMembers -> [state : ClockStates, overall : ClockStates]]
  /\ ha.state \in ClockStates /\ DOMAIN ha = {"state", "overall", "active"}
  /\ ha.overall = WorstOfState(ha.state, os.state)
  /\ ha.state = LOCKED <=> SomeLocked(members)
  /\ DOMAIN os = {"state", "filter", "filtered", "configured", "settled"}
  /\ os.state \in ClockStates /\ os.filtered \in ClockStates
  /\ DOMAIN haSync = HAMembers \cup {"ha"}
  /\ \A c \in HAMembers : haSync[c] = None
  /\ haSync["ha"] \in {None, PtpStateToIPCState(ha.overall)}

\* The states are different.
LEMMA StatesApart ==
  /\ NOTSET # LOCKED /\ FREERUN # LOCKED /\ HOLDOVER # LOCKED /\ None # LOCKED
  /\ NOTSET # FREERUN /\ NOTSET # HOLDOVER /\ FREERUN # HOLDOVER
BY DEF NOTSET, FREERUN, HOLDOVER, LOCKED, None

\* The worst of two states is LOCKED, and published so, when both are.
LEMMA WorstLocked ==
  ASSUME NEW a \in ClockStates, NEW b \in ClockStates
  PROVE  /\ WorstOfState(a, b) \in ClockStates
         /\ WorstOfState(a, b) = LOCKED <=> a = LOCKED /\ b = LOCKED
         /\ PtpStateToIPCState(WorstOfState(a, b)) = LOCKED <=> WorstOfState(a, b) = LOCKED
BY StatesApart DEF ClockStates, WorstOfState, PtpStateToIPCState

\* The best of the members' states is LOCKED when one of them is.
LEMMA BestLocked ==
  ASSUME NEW ms, \A c \in HAMembers : ms[c].state \in ClockStates
  PROVE  /\ bestMemberState(ms) \in ClockStates
         /\ bestMemberState(ms) = LOCKED <=> SomeLocked(ms)
BY StatesApart DEF bestMemberState, bestOfState, ClockStates, SomeLocked

\* Nothing a member would publish is published, and what the clock publishes
\* is its overall state.
LEMMA EmitFacts ==
  ASSUME HAInv, NEW over, NEW old, NEW was
  PROVE  /\ memberEmits(was, old, over) = was
         /\ emitOverall(haSync["ha"], ha.overall, over) \in {None, PtpStateToIPCState(over)}
BY DEF memberEmits, interceptMemberIPC, emitOverall, HAInv

\* A sample leaves the OS clock in one of its states.
LEMMA OsTyped ==
  ASSUME HAInv, NEW src, NEW raw \in {LOCKED, HOLDOVER, FREERUN}, NEW offset
  PROVE  LET o == osAddEvent(os, src, raw, offset)
         IN  /\ DOMAIN o = DOMAIN os
             /\ o.state \in ClockStates /\ o.filtered \in ClockStates
<1>1. DOMAIN afterHoldover(os) = DOMAIN os /\ afterHoldover(os).filtered = HOLDOVER
      /\ afterHoldover(os).state = os.state
  BY DEF afterHoldover, HAInv
<1>2. DOMAIN afterSample(os, offset) = DOMAIN os /\ afterSample(os, offset).filtered \in ClockStates
      /\ afterSample(os, offset).state = os.state
  <2> DEFINE f == Update(os.filter, offset)
             t == CASE f.last = "low" -> LOCKED [] f.last = "high" -> FREERUN [] OTHER -> NOTSET
  <2>1. t \in ClockStates
    BY DEF ClockStates
  <2>2. afterSample(os, offset) = [os EXCEPT !.filter = f, !.filtered = t]
    BY DEF afterSample
  <2> HIDE DEF f, t
  <2> QED BY <2>1, <2>2 DEF HAInv
<1> DEFINE p == IF src = "phc2sys" /\ os.configured THEN osUpdateState(os, raw, offset) ELSE os
           s == IF src = "phc2sys" /\ os.configured THEN p.filtered ELSE raw
<1>3. DOMAIN p = DOMAIN os /\ p.filtered \in ClockStates /\ p.state \in ClockStates
  BY <1>1, <1>2 DEF osUpdateState, HAInv, ClockStates
<1>4. s \in ClockStates
  BY <1>3 DEF ClockStates
<1>5. osAddEvent(os, src, raw, offset) =
        [p EXCEPT !.settled = IF src = "phc2sys" THEN s ELSE @,
                  !.state = IF s = NOTSET THEN @ ELSE s]
  BY DEF osAddEvent
<1> HIDE DEF p, s
<1> QED BY <1>3, <1>4, <1>5 DEF HAInv

\* The invariant of the HA clock holds initially, and every step keeps it.
LEMMA HAInitInv == HAInit => HAInv
<1> SUFFICES ASSUME HAInit PROVE HAInv
  OBVIOUS
<1>1. NOTSET \in ClockStates /\ FREERUN \in ClockStates
  BY DEF ClockStates
<1>2. ha.overall = WorstOfState(ha.state, os.state)
  BY DEF HAInit, NewOs, WorstOfState
<1> QED BY <1>1, <1>2, StatesApart, HAAssumption DEF HAInit, HAInv, NewOs, SomeLocked

\* Every step of the high availability clock keeps the invariant.
LEMMA HANextInv == HAInv /\ [HANext]_haVars => HAInv'
<1> SUFFICES ASSUME HAInv, [HANext]_haVars PROVE HAInv'
  OBVIOUS
<1>s. \A c \in HAMembers : members[c].state \in ClockStates /\ members[c].overall \in ClockStates
  BY DEF HAInv
<1>1. ASSUME NEW cfg \in HAMembers, NEW s \in {LOCKED, HOLDOVER, FREERUN}, HAAddEvent(cfg, s)
      PROVE  HAInv'
  <2> DEFINE over == WorstOfState(s, os.state)
             ms == [members EXCEPT ![cfg] = [state |-> s, overall |-> over]]
             best == bestMemberState(ms)
             all == WorstOfState(best, os.state)
  <2>1. s \in ClockStates /\ over \in ClockStates
    BY WorstLocked DEF ClockStates, HAInv
  <2>2. members' = ms /\ ms \in [HAMembers -> [state : ClockStates, overall : ClockStates]]
    <3> HIDE DEF over
    <3> QED BY <1>1, <2>1 DEF HAAddEvent, HAInv, over
  <2>3. best \in ClockStates /\ (best = LOCKED <=> SomeLocked(ms))
    <3> HIDE DEF ms
    <3> QED BY <2>2, BestLocked
  <2>4. ha' = [ha EXCEPT !.state = best, !.overall = all] /\ os' = os
        /\ haSync' = [haSync EXCEPT ![cfg] = memberEmits(@, members[cfg].overall, over),
                                    !["ha"] = emitOverall(@, ha.overall, all)]
    BY <1>1 DEF HAAddEvent
  <2> HIDE DEF over, ms, best
  <2>5. /\ DOMAIN haSync' = DOMAIN haSync
        /\ \A c \in HAMembers : haSync'[c] = None
        /\ haSync'["ha"] \in {None, PtpStateToIPCState(all)}
    BY <2>4, EmitFacts, HAAssumption DEF HAInv
  <2>6. ha'.state = best /\ ha'.overall = all /\ DOMAIN ha' = DOMAIN ha
    BY <2>4 DEF HAInv
  <2> HIDE DEF all
  <2> QED BY <2>2, <2>3, <2>4, <2>5, <2>6 DEF HAInv, SomeLocked, all
<1>2. ASSUME NEW cfg \in HAMembers \cup {HAForeign}, setActiveByIface(cfg) PROVE HAInv'
  BY <1>2 DEF setActiveByIface, HAInv, SomeLocked
<1>3. ASSUME NEW src, NEW raw \in {LOCKED, HOLDOVER, FREERUN}, NEW offset,
             OSSample(src, raw, offset)
      PROVE  HAInv'
  <2> DEFINE o == osAddEvent(os, src, raw, offset)
             all == WorstOfState(ha.state, o.state)
             over(c) == WorstOfState(members[c].state, o.state)
  <2>1. DOMAIN o = DOMAIN os /\ o.state \in ClockStates /\ o.filtered \in ClockStates
    BY OsTyped
  <2>2. /\ os' = o /\ ha' = [ha EXCEPT !.overall = all]
        /\ members' = [c \in HAMembers |-> [members[c] EXCEPT !.overall = over(c)]]
        /\ haSync' = [c \in DOMAIN haSync |->
                       IF c = "ha" THEN emitOverall(haSync[c], ha.overall, all)
                       ELSE memberEmits(haSync[c], members[c].overall, over(c))]
    BY <1>3 DEF OSSample
  <2> HIDE DEF o
  <2>3. \A c \in HAMembers : over(c) \in ClockStates
    BY <1>s, <2>1, WorstLocked
  <2> HIDE DEF over, all
  <2>4. /\ members' \in [HAMembers -> [state : ClockStates, overall : ClockStates]]
        /\ \A c \in HAMembers : members'[c].state = members[c].state
    BY <2>2, <2>3 DEF HAInv
  <2>5. /\ DOMAIN haSync' = DOMAIN haSync
        /\ \A c \in HAMembers : haSync'[c] = None
        /\ haSync'["ha"] \in {None, PtpStateToIPCState(all)}
    <3>1. emitOverall(haSync["ha"], ha.overall, all) \in {None, PtpStateToIPCState(all)}
      BY EmitFacts
    <3>2. \A c \in HAMembers : memberEmits(haSync[c], members[c].overall, over(c)) = None
      BY EmitFacts DEF HAInv
    <3>3. \A c \in HAMembers : c # "ha" /\ c \in DOMAIN haSync
      BY HAAssumption DEF HAInv
    <3>4. "ha" \in DOMAIN haSync
      BY DEF HAInv
    <3> QED BY <2>2, <3>1, <3>2, <3>3, <3>4
  <2>6. ha'.state = ha.state /\ ha'.overall = all /\ DOMAIN ha' = DOMAIN ha
    BY <2>2 DEF HAInv
  <2> QED BY <2>1, <2>2, <2>4, <2>5, <2>6 DEF HAInv, SomeLocked, all
<1>4. CASE ConfigureFilter
  <2>1. os'.state = os.state /\ os'.filtered = NOTSET /\ DOMAIN os' = DOMAIN os
    BY <1>4 DEF ConfigureFilter, HAInv
  <2> QED BY <1>4, <2>1 DEF ConfigureFilter, HAInv, SomeLocked, ClockStates
<1>5. CASE HAReset
  <2>1. os'.state = FREERUN /\ os'.filtered = NOTSET /\ DOMAIN os' = DOMAIN os
    BY <1>5 DEF HAReset, HAInv, NewOs
  <2>2. ha'.overall = WorstOfState(ha'.state, os'.state)
    BY <1>5, <2>1, StatesApart DEF HAReset, WorstOfState
  <2>3. FREERUN \in ClockStates /\ NOTSET \in ClockStates
    BY DEF ClockStates
  <2>4. \A c \in HAMembers : members'[c].state = FREERUN
    BY <1>5 DEF HAReset
  <2>5. haSync' = [c \in HAMembers \cup {"ha"} |-> None]
    BY <1>5 DEF HAReset, HAInv
  <2> QED BY <1>5, <2>1, <2>2, <2>3, <2>4, <2>5, StatesApart DEF HAReset, HAInv, SomeLocked
<1>6. CASE UNCHANGED haVars
  BY <1>6 DEF haVars, HAInv, SomeLocked
<1> QED BY <1>1, <1>2, <1>3, <1>4, <1>5, <1>6 DEF HANext

\* The node has one sync_state, the HA clock's: LOCKED is told of it exactly
\* when some member and the OS clock are locked, and no member tells another
\* (interceptMemberIPC).
THEOREM NodeSyncStateAlways == HASpec => []NodeSyncState
<1>1. HAInv => NodeSyncState
  <2> SUFFICES ASSUME HAInv PROVE NodeSyncState
    OBVIOUS
  <2>1. ha.state \in ClockStates /\ os.state \in ClockStates
        /\ ha.overall = WorstOfState(ha.state, os.state)
    BY DEF HAInv
  <2>2. PtpStateToIPCState(ha.overall) = LOCKED <=> ha.state = LOCKED /\ os.state = LOCKED
    BY <2>1, WorstLocked
  <2> QED BY <2>2 DEF HAInv, NodeSyncState, SomeLocked
<1> QED BY <1>1, HAInitInv, HANextInv, PTL DEF HASpec

-----------------------------------------------------------------------------
(* The ts2phc poll.  After a timeout the cycle is counted and belongs to a *)
(* second that is not over; a timeout in a later second closes it.         *)

NoSinkLocked == \A i \in Sinks : tsState[i] # LOCKED
Timed(c) ==
  /\ DOMAIN c = {"group", "last", "tstamps", "counted"}
  /\ c.group \in Nat /\ c.last \in Nat /\ c.counted \in BOOLEAN
SilenceInv ==
  /\ second \in Nat /\ edge \in Nat /\ timeoutGroup \in Nat
  /\ Timed(cycle) /\ cycle.group <= second /\ cycle.last <= second
  /\ quiet # {} =>
       /\ cycle.counted /\ timeoutGroup \in quiet /\ timeoutGroup <= second
       /\ cycle.group <= timeoutGroup /\ cycle.last <= timeoutGroup
       /\ quiet = {timeoutGroup} \/ NoSinkLocked

\* A cycle that has seen nothing.
LEMMA NoCycleTimed == Timed(NoCycle) /\ NoCycle.group = 0 /\ NoCycle.last = 0
BY DEF NoCycle, Timed

\* A report locks no sink, and leaves none of those it names locked.
LEMMA ReportFacts ==
  ASSUME NEW ifaces, Report(ifaces), UNCHANGED roles
  PROVE  /\ Sinks' = Sinks
         /\ NoSinkLocked => NoSinkLocked'
         /\ Sinks \subseteq ifaces => NoSinkLocked'
<1>1. Sinks' = Sinks /\ Sinks \subseteq TSIfaces
  BY DEF Sinks
<1>2. \A i \in TSIfaces : tsState'[i] = IF i \in ifaces THEN FREERUN ELSE tsState[i]
  BY DEF Report
<1>3. FREERUN # LOCKED
  BY DEF FREERUN, LOCKED
<1> QED BY <1>1, <1>2, <1>3 DEF NoSinkLocked

\* A timeout in the second of the last one, or the first, counts the cycle;
\* one in a later second closes it.
LEMMA TimeoutSilence ==
  ASSUME SilenceInv, handlePollTimeout
  PROVE  SilenceInv'
<1> DEFINE closing == closes(cycle, second)
           tally == IF closing THEN TRUE ELSE cycle.counted
           counts  == ~tally \/ timeoutGroup # second
           new     == [NoCycle EXCEPT !.group = second, !.counted = TRUE]
           kept    == [AllReported(cycle) EXCEPT !.counted = @ \/ counts]
<1>s. second' = second /\ edge' = edge /\ roles' = roles /\ second \in Nat /\ edge \in Nat
  BY DEF handlePollTimeout, SilenceInv
<1>1. CASE cycle = NoCycle
  BY <1>1, <1>s DEF handlePollTimeout, SilenceInv
<1>2. CASE cycle # NoCycle
  <2>1. /\ Report(unhandledMetrics(cycle) \cup (IF closing THEN Sinks ELSE {}))
        /\ cycle' = IF closing THEN new ELSE kept
        /\ timeoutGroup' = IF counts THEN second ELSE timeoutGroup
        /\ quiet' = quiet \cup {second}
    BY <1>2 DEF handlePollTimeout
  <2>2. /\ Timed(new) /\ new.group = second /\ new.last = 0 /\ new.counted = TRUE
    BY <1>s DEF NoCycle, Timed
  <2>3. /\ Timed(kept) /\ kept.group = cycle.group /\ kept.last = cycle.last
        /\ kept.counted = (cycle.counted \/ counts)
    <3>1. Timed(AllReported(cycle)) /\ AllReported(cycle).group = cycle.group
          /\ AllReported(cycle).last = cycle.last /\ AllReported(cycle).counted = cycle.counted
      BY DEF AllReported, SilenceInv, Timed
    <3>2. counts \in BOOLEAN /\ cycle.counted \in BOOLEAN
      BY DEF SilenceInv, Timed
    <3> HIDE DEF counts
    <3> QED BY <3>1, <3>2 DEF Timed
  <2>4. timeoutGroup' = second
    BY <2>1
  <2>5. Timed(cycle') /\ cycle'.group <= second /\ cycle'.last <= second
    <3> HIDE DEF new, kept, closing
    <3> QED BY <2>1, <2>2, <2>3, <1>s DEF SilenceInv
  <2>6. cycle'.counted
    <3>1. closing => cycle'.counted
      BY <2>1, <2>2
    <3>2. ~closing => cycle'.counted = (cycle.counted \/ counts)
      BY <2>1, <2>3
    <3>3. ~closing => (cycle.counted \/ counts)
      OBVIOUS
    <3> QED BY <3>1, <3>2, <3>3
  <2>7. quiet # {} /\ timeoutGroup # second => closing
    BY <1>s DEF SilenceInv, Timed, closes
  <2>8. quiet' = {second} \/ NoSinkLocked'
    <3>1. CASE quiet = {}
      BY <2>1, <3>1
    <3>2. CASE closing
      BY <2>1, <3>2, <1>s, ReportFacts
    <3>3. CASE quiet # {} /\ timeoutGroup = second
      <4>1. quiet = {second} \/ NoSinkLocked
        BY <3>3 DEF SilenceInv
      <4>2. NoSinkLocked => NoSinkLocked'
        BY <2>1, <1>s, ReportFacts
      <4> QED BY <2>1, <4>1, <4>2
    <3> QED BY <2>7, <3>1, <3>2, <3>3
  <2> HIDE DEF new, kept, closing, counts, tally
  <2> QED BY <1>s, <2>1, <2>4, <2>5, <2>6, <2>8 DEF SilenceInv
<1> QED BY <1>1, <1>2

\* Every step keeps the invariant of the poll.
LEMMA SilenceNext == SilenceInv /\ [TSNext]_tsVars => SilenceInv'
<1> SUFFICES ASSUME SilenceInv, [TSNext]_tsVars PROVE SilenceInv'
  OBVIOUS
<1>1. ASSUME NEW d \in TSDevices, handleAddedTstamp(d) PROVE SilenceInv'
  <2>1. quiet' = {} /\ UNCHANGED <<second, edge, timeoutGroup>>
    BY <1>1 DEF handleAddedTstamp
  <2>2. Timed(cycle') /\ cycle'.group <= second /\ cycle'.last <= second
    <3>1. \A s : Timed([cycle EXCEPT !.tstamps = s, !.last = second])
                 /\ [cycle EXCEPT !.tstamps = s, !.last = second].group = cycle.group
                 /\ [cycle EXCEPT !.tstamps = s, !.last = second].last = second
      BY DEF SilenceInv, Timed
    <3>2. \A s : Timed([group |-> second, last |-> second, tstamps |-> s, counted |-> FALSE])
      BY DEF SilenceInv, Timed
    <3>3. \/ \E s : cycle' = [cycle EXCEPT !.tstamps = s, !.last = second]
          \/ \E s : cycle' = [group |-> second, last |-> second, tstamps |-> s, counted |-> FALSE]
      BY <1>1 DEF handleAddedTstamp
    <3>4. second \in Nat /\ cycle.group <= second
      BY DEF SilenceInv
    <3>5. ASSUME NEW s, cycle' = [cycle EXCEPT !.tstamps = s, !.last = second]
          PROVE  Timed(cycle') /\ cycle'.group <= second /\ cycle'.last <= second
      <4>1. Timed(cycle') /\ cycle'.group = cycle.group /\ cycle'.last = second
        BY <3>1, <3>5
      <4> QED BY <3>4, <4>1
    <3>6. ASSUME NEW s,
                 cycle' = [group |-> second, last |-> second, tstamps |-> s, counted |-> FALSE]
          PROVE  Timed(cycle') /\ cycle'.group <= second /\ cycle'.last <= second
      <4>1. Timed(cycle')
        BY <3>2, <3>6
      <4>2. cycle'.group = second /\ cycle'.last = second
        BY <3>6
      <4> QED BY <3>4, <4>1, <4>2
    <3> QED BY <3>3, <3>5, <3>6
  <2> QED BY <2>1, <2>2 DEF SilenceInv
<1>2. ASSUME NEW i \in TSIfaces, handleSuccessfulPollFor(i) PROVE SilenceInv'
  <2>1. quiet' = {} /\ UNCHANGED <<second, edge, timeoutGroup>>
    BY <1>2 DEF handleSuccessfulPollFor
  <2>2. Timed(cycle') /\ cycle'.group = cycle.group /\ cycle'.last = cycle.last
    <3>1. \A s : Timed([cycle EXCEPT !.tstamps = s])
                 /\ [cycle EXCEPT !.tstamps = s].group = cycle.group
                 /\ [cycle EXCEPT !.tstamps = s].last = cycle.last
      BY DEF SilenceInv, Timed
    <3>2. cycle' = cycle \/ \E s : cycle' = [cycle EXCEPT !.tstamps = s]
      BY <1>2 DEF handleSuccessfulPollFor
    <3> QED BY <3>1, <3>2 DEF SilenceInv
  <2> QED BY <2>1, <2>2 DEF SilenceInv
<1>3. CASE handlePollTimeout
  BY <1>3, TimeoutSilence
<1>4. ASSUME NEW d \in TSDevices, NEW r \in TSRoles, handlePHCSelection(d, r) PROVE SilenceInv'
  <2>1. quiet' = {} /\ UNCHANGED <<second, edge, timeoutGroup>>
    BY <1>4 DEF handlePHCSelection
  <2>2. Timed(cycle') /\ cycle'.group = cycle.group /\ cycle'.last = cycle.last
    <3>1. \A s : Timed([cycle EXCEPT !.tstamps = s])
                 /\ [cycle EXCEPT !.tstamps = s].group = cycle.group
                 /\ [cycle EXCEPT !.tstamps = s].last = cycle.last
      BY DEF SilenceInv, Timed
    <3>2. cycle' = cycle \/ \E s : cycle' = [cycle EXCEPT !.tstamps = s]
      BY <1>4 DEF handlePHCSelection, Selected
    <3> QED BY <3>1, <3>2 DEF SilenceInv
  <2> QED BY <2>1, <2>2 DEF SilenceInv
<1>5. CASE resetPollCycle
  BY <1>5, NoCycleTimed DEF resetPollCycle, SilenceInv
<1>6. CASE NextEdge \/ NextSecond
  <2>1. UNCHANGED <<cycle, timeoutGroup, quiet, roles, tsState>> /\ second' \in Nat /\ edge' \in Nat
        /\ second <= second'
    BY <1>6 DEF NextEdge, NextSecond, SilenceInv
  <2> QED BY <2>1 DEF SilenceInv, Timed, NoSinkLocked, Sinks
<1>7. CASE UNCHANGED tsVars
  BY <1>7 DEF tsVars, SilenceInv, NoSinkLocked, Sinks
<1> QED BY <1>1, <1>2, <1>3, <1>4, <1>5, <1>6, <1>7 DEF TSNext

\* The loss of all PPS is noticed: two timeouts of different seconds in a row
\* leave no sink LOCKED (handlePollTimeout, closing the cycle), for any
\* interfaces, devices and roles.
THEOREM SilenceReportedAlways == TSSpec => []SilenceReported
<1>1. TSInit => SilenceInv
  BY NoCycleTimed DEF TSInit, SilenceInv
<1>2. SilenceInv => SilenceReported
  <2> SUFFICES ASSUME SilenceInv, Cardinality(quiet) >= 2 PROVE NoSinkLocked
    BY DEF SilenceReported, NoSinkLocked
  <2>1. quiet # {} /\ quiet # {timeoutGroup}
    <3>1. Cardinality({}) = 0 /\ Cardinality({timeoutGroup}) = 1
      BY FS_EmptySet, FS_Singleton
    <3> QED BY <3>1
  <2> QED BY <2>1 DEF SilenceInv
<1> QED BY <1>1, <1>2, SilenceNext, PTL DEF TSSpec

-----------------------------------------------------------------------------
(* A sink that fails alone.  Watched are a PHC and a sink that has not     *)
(* been polled since the edge of the PHC's last stamp, or of the one       *)
(* before: unless it is not shown LOCKED, the cycle still has the PHC's    *)
(* stamp, or (and) nothing that counts as a poll of the sink.              *)

RoleNames == TSRoles \cup {"sink", "unmanaged"}
Stamp == [device : TSDevices, edge : Int, role : RoleNames, handled : BOOLEAN]
Has(c, d) == \E k \in DOMAIN c.tstamps : c.tstamps[k].device = d
Unpolled(c, i) ==
  \A k \in DOMAIN c.tstamps : c.tstamps[k].device = TSPhc[i] => ~c.tstamps[k].handled
Batch(c) == DOMAIN c = {"group", "last", "tstamps", "counted"} /\ c.tstamps \in Seq(Stamp)
\* A stamp of a PHC that has logged none of this edge is of an earlier one.
Dated(c, e, sts) ==
  \A k \in DOMAIN c.tstamps :
    /\ c.tstamps[k].edge <= e
    /\ c.tstamps[k].edge = e => c.tstamps[k].device \in sts
SinksOpen(c) == \A k \in DOMAIN c.tstamps : c.tstamps[k].handled \/ c.tstamps[k].role = "sink"
Watched ==
  watch.iface \in Sinks /\ tsState[watch.iface] = LOCKED =>
    /\ ~vouched.newer => Has(cycle, watch.phc) \/ Unpolled(cycle, watch.iface)
    /\ ~vouched.older => Has(cycle, watch.phc) /\ Unpolled(cycle, watch.iface)
MissedInv ==
  /\ Batch(cycle) /\ roles \in [Configured -> RoleNames] /\ edge \in Int
  /\ watch \in [phc : TSDevices, iface : TSIfaces]
  /\ polled \in BOOLEAN /\ vouched \in [older : BOOLEAN, newer : BOOLEAN]
  /\ Dated(cycle, edge, stamped) /\ SinksOpen(cycle)
  /\ Watched

\* The stamps of a cycle are indexed records.
LEMMA StampAt ==
  ASSUME NEW c, Batch(c), NEW k \in DOMAIN c.tstamps
  PROVE  c.tstamps[k] \in Stamp /\ k \in 1..Len(c.tstamps)
<1>1. c.tstamps \in Seq(Stamp)
  BY DEF Batch
<1>2. DOMAIN c.tstamps = 1..Len(c.tstamps)
  BY <1>1, LenProperties
<1> QED BY <1>1, <1>2, ElementOfSeq

\* A sink of which a cycle has no poll is reported when the cycle ends.
LEMMA UnpolledReported ==
  ASSUME MissedInv, NEW w \in Sinks, Unpolled(cycle, w)
  PROVE  /\ w \in unhandledMetrics(cycle) \cup missingMetrics(cycle)
         /\ (\E k \in DOMAIN cycle.tstamps : cycle.tstamps[k].device = TSPhc[w]) =>
               w \in unhandledMetrics(cycle)
<1>1. IfaceOf(TSPhc[w]) = w
  BY TSAssumption DEF IfaceOf, Sinks
<1>2. ASSUME NEW k \in DOMAIN cycle.tstamps, cycle.tstamps[k].device = TSPhc[w]
      PROVE  w \in unhandledMetrics(cycle)
  <2>1. ~cycle.tstamps[k].handled /\ cycle.tstamps[k].role = "sink"
    BY <1>2 DEF Unpolled, MissedInv, SinksOpen
  <2> QED BY <1>1, <1>2, <2>1 DEF unhandledMetrics
<1>3. ASSUME ~\E k \in DOMAIN cycle.tstamps : cycle.tstamps[k].device = TSPhc[w]
      PROVE  w \in missingMetrics(cycle)
  BY <1>3 DEF missingMetrics, Recorded
<1> QED BY <1>2, <1>3

\* What a report says: FREERUN of the interfaces named, nothing of the others.
LEMMA ReportLocks ==
  ASSUME NEW ifaces, Report(ifaces), NEW i \in TSIfaces
  PROVE  /\ i \in ifaces => tsState'[i] # LOCKED
         /\ tsState[i] # LOCKED => tsState'[i] # LOCKED
BY DEF Report, FREERUN, LOCKED

\* The stamp of a device at this edge.
LEMMA TstampTyped ==
  ASSUME MissedInv, NEW d \in TSDevices
  PROVE  /\ tstamp(d) \in Stamp /\ tstamp(d).device = d /\ tstamp(d).edge = edge
         /\ tstamp(d).handled \/ tstamp(d).role = "sink"
         /\ \A w \in Sinks : d = TSPhc[w] => ~tstamp(d).handled
<1> DEFINE role == IF d \in Configured THEN roles[d] ELSE "unmanaged"
<1>1. tstamp(d) = [device |-> d, edge |-> edge, role |-> role, handled |-> role # "sink"]
  BY DEF tstamp
<1>2. role \in RoleNames
  BY DEF MissedInv, RoleNames
<1>3. \A w \in Sinks : d = TSPhc[w] => role = "sink"
  BY TSAssumption DEF Sinks, Configured
<1>4. edge \in Int
  BY DEF MissedInv
<1> HIDE DEF role
<1>5. tstamp(d).handled = (role # "sink") /\ tstamp(d).role = role
      /\ tstamp(d).device = d /\ tstamp(d).edge = edge
  BY <1>1
<1>6. tstamp(d) \in Stamp
  BY <1>1, <1>2, <1>4 DEF Stamp
<1> QED BY <1>3, <1>5, <1>6

\* The stamp of a clock that an offset line consumes.
LEMMA SelectedStamp ==
  ASSUME NEW s \in Seq(Stamp), NEW d
  PROVE  LET k == SelectInSeq(s, LAMBDA ts : ts.device = d)
         IN  k = 0 \/ (k \in 1..Len(s) /\ s[k].device = d)
<1> DEFINE I == {i \in 1..Len(s) : s[i].device = d}
           n == Len(s)
           J == {n + 1 - i : i \in I}
<1>1. SelectInSeq(s, LAMBDA ts : ts.device = d) = IF I # {} THEN Min(I) ELSE 0
  BY DEF SelectInSeq
<1>2. ASSUME I # {} PROVE Min(I) \in I
  <2>1. n \in Nat
    BY LenProperties
  <2>2. J \subseteq 1..n /\ J # {}
    BY <1>2, <2>1
  <2>3. PICK j \in J : \A x \in J : x <= j
    <3> HIDE DEF J, n
    <3> QED BY <2>1, <2>2, GreatestIndex
  <2>4. PICK i \in I : j = n + 1 - i
    BY <2>3
  <2>5. \A x \in I : i <= x
    <3>1. SUFFICES ASSUME NEW x \in I PROVE i <= x
      OBVIOUS
    <3>2. n + 1 - x \in J
      OBVIOUS
    <3>3. n + 1 - x <= n + 1 - i
      BY <2>3, <2>4, <3>2
    <3> QED BY <2>1, <3>3
  <2> HIDE DEF I
  <2> QED BY <2>4, <2>5 DEF Min
<1> HIDE DEF n, J
<1> QED BY <1>1, <1>2

\* A cycle that gets another stamp, and one that begins with it.
LEMMA AppendedFacts ==
  ASSUME MissedInv, NEW d \in TSDevices, d \notin stamped,
         NEW c, Batch(c),
         \/ c.tstamps = <<tstamp(d)>>
         \/ c.tstamps = Append(cycle.tstamps, tstamp(d))
  PROVE  /\ Dated(c, edge, stamped \cup {d}) /\ SinksOpen(c) /\ Has(c, d)
         /\ c.tstamps # <<tstamp(d)>> /\ Has(cycle, watch.phc) => Has(c, watch.phc)
         /\ \A w \in Sinks : c.tstamps = <<tstamp(d)>> \/ Unpolled(cycle, w) => Unpolled(c, w)
<1> DEFINE ts == tstamp(d)
<1>1. ts \in Stamp /\ ts.device = d /\ ts.edge = edge /\ (ts.handled \/ ts.role = "sink")
      /\ \A w \in Sinks : d = TSPhc[w] => ~ts.handled
  BY TstampTyped
<1>2. edge \in Int
  BY DEF MissedInv
<1> HIDE DEF ts
<1>3. CASE c.tstamps = <<ts>>
  <2>1. DOMAIN c.tstamps = {1} /\ c.tstamps[1] = ts
    BY <1>3
  <2> QED BY <1>1, <1>2, <1>3, <2>1 DEF Dated, SinksOpen, Has, Unpolled, ts
<1>4. CASE c.tstamps = Append(cycle.tstamps, ts) /\ c.tstamps # <<ts>>
  <2> DEFINE n == Len(cycle.tstamps)
  <2>1. cycle.tstamps \in Seq(Stamp) /\ n \in Nat /\ DOMAIN cycle.tstamps = 1..n
    BY LenProperties DEF MissedInv, Batch
  <2>2. /\ DOMAIN c.tstamps = 1..(n + 1) /\ c.tstamps[n + 1] = ts
        /\ \A k \in 1..n : c.tstamps[k] = cycle.tstamps[k]
    <3>1. Append(cycle.tstamps, ts) \in Seq(Stamp) /\ Len(Append(cycle.tstamps, ts)) = n + 1
      BY <1>1, <2>1, AppendProperties
    <3>2. DOMAIN Append(cycle.tstamps, ts) = 1..(n + 1)
      BY <3>1, LenProperties
    <3> QED BY <1>1, <1>4, <2>1, <3>2, AppendProperties
  <2> HIDE DEF n
  <2>3. \A k \in DOMAIN c.tstamps : k = n + 1 \/ k \in 1..n
    BY <2>1, <2>2
  <2>4. n + 1 \in DOMAIN c.tstamps /\ 1..n \subseteq DOMAIN c.tstamps
    BY <2>1, <2>2
  <2>5. Dated(cycle, edge, stamped) /\ SinksOpen(cycle)
    BY DEF MissedInv
  <2>6. Dated(c, edge, stamped \cup {d})
    <3> SUFFICES ASSUME NEW k \in DOMAIN c.tstamps
                 PROVE  c.tstamps[k].edge <= edge
                        /\ (c.tstamps[k].edge = edge => c.tstamps[k].device \in stamped \cup {d})
      BY DEF Dated
    <3>1. CASE k = n + 1
      BY <1>1, <1>2, <2>2, <3>1
    <3>2. CASE k \in 1..n
      BY <2>1, <2>2, <2>5, <3>2 DEF Dated
    <3> QED BY <2>3, <3>1, <3>2
  <2>7. SinksOpen(c)
    BY <1>1, <2>1, <2>2, <2>3, <2>5 DEF SinksOpen
  <2>8. Has(c, d) /\ (Has(cycle, watch.phc) => Has(c, watch.phc))
    BY <1>1, <2>1, <2>2, <2>4 DEF Has
  <2>9. \A w \in Sinks : Unpolled(cycle, w) => Unpolled(c, w)
    BY <1>1, <2>1, <2>2, <2>3 DEF Unpolled
  <2> QED BY <1>4, <2>6, <2>7, <2>8, <2>9 DEF ts
<1> QED BY <1>3, <1>4 DEF ts

\* A stamp: one of a PHC that the cycle has already ends the cycle.
LEMMA AddedTstampInv ==
  ASSUME MissedInv, NEW d \in TSDevices, handleAddedTstamp(d)
  PROVE  /\ MissedInv'
         /\ d = watch.phc /\ watch.iface \in Sinks /\ ~vouched.older =>
              tsState'[watch.iface] # LOCKED
<1> DEFINE ts == tstamp(d)
           w == watch.iface
           joins == cycle # NoCycle /\ shouldContain(cycle, ts, second)
<1>1. /\ d \notin stamped /\ stamped' = stamped \cup {d}
      /\ vouched' = IF d = watch.phc THEN [older |-> vouched.newer, newer |-> polled] ELSE vouched
      /\ UNCHANGED <<roles, edge, polled, watch>>
      /\ joins => /\ cycle' = [cycle EXCEPT !.tstamps = Append(@, ts), !.last = second]
                  /\ tsState' = tsState
      /\ ~joins =>
           /\ cycle' = [group |-> second, last |-> second, tstamps |-> <<ts>>, counted |-> FALSE]
           /\ Report(IF cycle = NoCycle THEN {}
                     ELSE unhandledMetrics(cycle) \cup missingMetrics(cycle))
  BY DEF handleAddedTstamp
<1>2. ts \in Stamp
  BY TstampTyped
<1>3. Batch(cycle) /\ w \in TSIfaces /\ watch.phc \in TSDevices
  BY DEF MissedInv
<1>4. Has(cycle, d) => ~joins
  <2>1. SUFFICES ASSUME NEW k \in DOMAIN cycle.tstamps, cycle.tstamps[k].device = d, joins
                 PROVE  FALSE
    BY DEF Has
  <2>2. cycle.tstamps[k].edge = edge
    BY <2>1, TstampTyped DEF shouldContain
  <2> QED BY <1>1, <2>1, <2>2 DEF MissedInv, Dated
<1>5. w \in Sinks /\ Unpolled(cycle, w) /\ cycle # NoCycle /\ ~joins => tsState'[w] # LOCKED
  BY <1>1, <1>3, UnpolledReported, ReportLocks
<1>6. tsState[w] # LOCKED => tsState'[w] # LOCKED
  BY <1>1, <1>3, ReportLocks
<1>7. ~Has(NoCycle, watch.phc)
  BY DEF NoCycle, Has
<1> HIDE DEF ts, joins
<1>8. /\ Batch(cycle')
      /\ joins => cycle'.tstamps = Append(cycle.tstamps, ts)
      /\ ~joins => cycle'.tstamps = <<ts>>
  <2>1. Append(cycle.tstamps, ts) \in Seq(Stamp) /\ <<ts>> \in Seq(Stamp)
    BY <1>2, <1>3, AppendProperties DEF Batch
  <2>2. CASE joins
    <3>1. cycle'.tstamps = Append(cycle.tstamps, ts) /\ DOMAIN cycle' = DOMAIN cycle
      BY <1>1, <1>3, <2>2 DEF Batch
    <3> QED BY <1>3, <2>1, <2>2, <3>1 DEF Batch
  <2>3. CASE ~joins
    <3>1. cycle'.tstamps = <<ts>> /\ DOMAIN cycle' = {"group", "last", "tstamps", "counted"}
      BY <1>1, <2>3
    <3> QED BY <2>1, <2>3, <3>1 DEF Batch
  <2> QED BY <2>2, <2>3
<1>9. /\ Dated(cycle', edge, stamped \cup {d}) /\ SinksOpen(cycle') /\ Has(cycle', d)
      /\ cycle'.tstamps # <<ts>> /\ Has(cycle, watch.phc) => Has(cycle', watch.phc)
      /\ w \in Sinks /\ (cycle'.tstamps = <<ts>> \/ Unpolled(cycle, w)) => Unpolled(cycle', w)
  BY <1>1, <1>8, AppendedFacts DEF ts
<1>10. Sinks' = Sinks /\ w' = w
  BY <1>1 DEF Sinks
<1>11. Has(cycle, watch.phc) /\ joins => Has(cycle', watch.phc)
  <2>1. SUFFICES ASSUME Has(cycle, watch.phc), joins, cycle'.tstamps = <<ts>> PROVE FALSE
    BY <1>9
  <2>2. Len(Append(cycle.tstamps, ts)) = Len(cycle.tstamps) + 1 /\ Len(cycle.tstamps) \in Nat
    BY <1>2, <1>3, AppendProperties, LenProperties DEF Batch
  <2>3. Len(cycle.tstamps) = 0
    BY <1>8, <2>1, <2>2
  <2>4. cycle.tstamps = <<>>
    BY <1>3, <2>3, EmptySeq DEF Batch
  <2> QED BY <2>1, <2>4 DEF Has
<1> DEFINE watchPhc == watch.phc
<1>12. vouched'.older \in BOOLEAN /\ vouched'.newer \in BOOLEAN
       /\ vouched' \in [older : BOOLEAN, newer : BOOLEAN]
  BY <1>1 DEF MissedInv
<1>13. ASSUME w \in Sinks, tsState'[w] = LOCKED
       PROVE  /\ ~vouched'.newer => Has(cycle', watchPhc) \/ Unpolled(cycle', w)
              /\ ~vouched'.older => Has(cycle', watchPhc) /\ Unpolled(cycle', w)
  <2>1. tsState[w] = LOCKED
    BY <1>6, <1>13
  <2>2. /\ ~vouched.newer => Has(cycle, watchPhc) \/ Unpolled(cycle, w)
        /\ ~vouched.older => Has(cycle, watchPhc) /\ Unpolled(cycle, w)
    BY <1>13, <2>1 DEF MissedInv, Watched
  <2>3. CASE d = watchPhc
    <3>1. Has(cycle', watchPhc) /\ vouched'.older = vouched.newer
      BY <1>1, <1>9, <2>3
    <3>2. ASSUME ~vouched.newer PROVE Unpolled(cycle', w)
      <4>1. CASE joins
        BY <1>4, <1>9, <1>13, <2>2, <2>3, <3>2, <4>1
      <4>2. CASE ~joins
        BY <1>8, <1>9, <1>13, <4>2
      <4> QED BY <4>1, <4>2
    <3> QED BY <3>1, <3>2
  <2>4. CASE d # watchPhc
    <3>1. vouched' = vouched
      BY <1>1, <2>4
    <3>2. CASE joins
      BY <1>9, <1>11, <1>13, <2>2, <3>1, <3>2
    <3>3. CASE ~joins
      <4>1. Unpolled(cycle', w)
        BY <1>8, <1>9, <1>13, <3>3
      <4>2. vouched.older
        BY <1>5, <1>7, <1>13, <2>2, <3>3
      <4> QED BY <3>1, <4>1, <4>2
    <3> QED BY <3>2, <3>3
  <2> QED BY <2>3, <2>4
<1>14. Watched'
  BY <1>1, <1>10, <1>13 DEF Watched
<1>15. MissedInv'
  BY <1>1, <1>8, <1>9, <1>12, <1>14 DEF MissedInv, Configured
<1>16. ASSUME d = watchPhc, w \in Sinks, ~vouched.older PROVE tsState'[w] # LOCKED
  <2>1. tsState[w] = LOCKED => Has(cycle, watchPhc) /\ Unpolled(cycle, w)
    BY <1>16 DEF MissedInv, Watched
  <2> QED BY <1>4, <1>5, <1>6, <1>7, <1>16, <2>1
<1> QED BY <1>15, <1>16

\* Steps that change what is known of the stamps, and neither add nor drop one.
LEMMA SameStamps ==
  ASSUME NEW c, NEW new, DOMAIN new.tstamps = DOMAIN c.tstamps,
         \A k \in DOMAIN c.tstamps : /\ new.tstamps[k].device = c.tstamps[k].device
                                     /\ new.tstamps[k].edge = c.tstamps[k].edge
  PROVE  /\ \A e, sts : Dated(c, e, sts) => Dated(new, e, sts)
         /\ \A d : Has(c, d) => Has(new, d)
BY DEF Dated, Has

\* An offset of another sink.
LEMMA PollForInv ==
  ASSUME MissedInv, NEW i \in TSIfaces, handleSuccessfulPollFor(i)
  PROVE  MissedInv'
<1> DEFINE s == cycle.tstamps
           j == SelectInSeq(s, LAMBDA ts : ts.device = TSPhc[i])
           w == watch.iface
<1>1. /\ tsState' = [tsState EXCEPT ![i] = LOCKED]
      /\ cycle' = IF j = 0 THEN cycle ELSE [cycle EXCEPT !.tstamps[j].handled = TRUE]
      /\ polled' = (polled \/ i = w) /\ vouched' = IF i = w THEN Vouched ELSE vouched
      /\ UNCHANGED <<roles, edge, stamped, watch>>
  BY DEF handleSuccessfulPollFor
<1>2. Batch(cycle) /\ s \in Seq(Stamp)
  BY DEF MissedInv, Batch
<1>3. j = 0 \/ (j \in 1..Len(s) /\ s[j].device = TSPhc[i])
  BY <1>2, SelectedStamp
<1>4. DOMAIN s = 1..Len(s) /\ \A k \in DOMAIN s : s[k] \in Stamp
  BY <1>2, LenProperties, ElementOfSeq
<1> HIDE DEF j
<1>5. /\ Batch(cycle') /\ DOMAIN cycle'.tstamps = DOMAIN s
      /\ \A k \in DOMAIN s :
           /\ cycle'.tstamps[k].device = s[k].device /\ cycle'.tstamps[k].edge = s[k].edge
           /\ cycle'.tstamps[k].role = s[k].role
           /\ cycle'.tstamps[k].handled = (s[k].handled \/ k = j)
  <2>1. CASE j = 0
    BY <1>1, <1>2, <1>4, <2>1 DEF Stamp
  <2>2. CASE j # 0
    <3> DEFINE x == [s[j] EXCEPT !.handled = TRUE]
               t == [s EXCEPT ![j] = x]
    <3>1. x \in Stamp /\ x.device = s[j].device /\ x.edge = s[j].edge
          /\ x.role = s[j].role /\ x.handled = TRUE
      BY <1>3, <1>4, <2>2 DEF Stamp
    <3> HIDE DEF x
    <3>2. t \in Seq(Stamp) /\ DOMAIN t = DOMAIN s
      BY <1>2, <3>1, ExceptFacts
    <3>3. cycle' = [cycle EXCEPT !.tstamps = t]
      BY <1>1, <1>2, <2>2 DEF x
    <3>4. cycle'.tstamps = t /\ DOMAIN cycle' = DOMAIN cycle
      BY <1>2, <3>3 DEF Batch
    <3>5. \A k \in DOMAIN s : t[k] = IF k = j THEN x ELSE s[k]
      OBVIOUS
    <3>6. \A k \in DOMAIN s : s[k].handled \in BOOLEAN
      BY <1>4 DEF Stamp
    <3> HIDE DEF t
    <3> QED BY <1>2, <3>1, <3>2, <3>4, <3>5, <3>6 DEF Batch
  <2> QED BY <2>1, <2>2
<1>6. Dated(cycle', edge, stamped) /\ \A d : Has(cycle, d) => Has(cycle', d)
  BY <1>5, SameStamps DEF MissedInv
<1>7. SinksOpen(cycle')
  BY <1>5 DEF MissedInv, SinksOpen
<1>8. w \in TSIfaces
  BY DEF MissedInv
<1>9. i # w /\ Unpolled(cycle, w) => Unpolled(cycle', w)
  <2> SUFFICES ASSUME i # w, Unpolled(cycle, w), NEW k \in DOMAIN s, s[k].device = TSPhc[w]
               PROVE  ~cycle'.tstamps[k].handled
    BY <1>5 DEF Unpolled
  <2>1. ~s[k].handled
    BY DEF Unpolled
  <2>2. k # j
    BY <1>3, <1>4, <1>8, TSAssumption
  <2> QED BY <1>5, <2>1, <2>2
<1>10. Sinks' = Sinks /\ w' = w
  BY <1>1 DEF Sinks
<1>11. Watched'
  <2>1. CASE i = w
    BY <1>1, <2>1 DEF Watched, Vouched
  <2>2. CASE i # w
    <3>1. tsState'[w] = tsState[w] /\ vouched' = vouched
      BY <1>1, <2>2
    <3> QED BY <1>1, <1>6, <1>9, <1>10, <2>2, <3>1 DEF MissedInv, Watched
  <2> QED BY <2>1, <2>2
<1>12. polled' \in BOOLEAN /\ vouched' \in [older : BOOLEAN, newer : BOOLEAN]
  BY <1>1 DEF MissedInv, Vouched
<1> QED BY <1>1, <1>5, <1>6, <1>7, <1>11, <1>12 DEF MissedInv, Configured

\* A timeout reports what it calls handled.
LEMMA TimeoutInv ==
  ASSUME MissedInv, handlePollTimeout
  PROVE  MissedInv'
<1> DEFINE w == watch.iface
           closing == closes(cycle, second)
<1>1. UNCHANGED <<roles, edge, stamped, polled, vouched, watch>>
  BY DEF handlePollTimeout
<1>2. Sinks' = Sinks /\ w' = w /\ w \in TSIfaces
  BY <1>1 DEF Sinks, MissedInv
<1>3. CASE cycle = NoCycle
  <2>1. UNCHANGED <<cycle, tsState>>
    BY <1>3 DEF handlePollTimeout
  <2> QED BY <1>1, <1>2, <2>1 DEF MissedInv, Watched, Configured
<1>4. CASE cycle # NoCycle /\ closing
  <2>1. /\ cycle' = [NoCycle EXCEPT !.group = second, !.counted = TRUE]
        /\ Report(unhandledMetrics(cycle) \cup Sinks)
    BY <1>4 DEF handlePollTimeout
  <2>2. cycle'.tstamps = <<>> /\ Batch(cycle')
    BY <2>1 DEF NoCycle, Batch
  <2>3. w \in Sinks => tsState'[w] # LOCKED
    BY <1>2, <2>1, ReportLocks
  <2>4. Dated(cycle', edge, stamped) /\ SinksOpen(cycle')
    BY <2>2 DEF Dated, SinksOpen
  <2> QED BY <1>1, <1>2, <2>2, <2>3, <2>4 DEF MissedInv, Watched, Configured
<1>5. CASE cycle # NoCycle /\ ~closing
  <2> DEFINE s == cycle.tstamps
             t == [k \in DOMAIN s |->
                     IF s[k].role = "sink" THEN [s[k] EXCEPT !.handled = TRUE] ELSE s[k]]
  <2>1. Report(unhandledMetrics(cycle))
    <3>1. Report(unhandledMetrics(cycle) \cup {})
      BY <1>5 DEF handlePollTimeout
    <3>2. unhandledMetrics(cycle) \cup {} = unhandledMetrics(cycle)
      OBVIOUS
    <3> QED BY <3>1, <3>2
  <2>2. \E b : cycle' = [AllReported(cycle) EXCEPT !.counted = b]
    BY <1>5 DEF handlePollTimeout
  <2>3. Batch(cycle) /\ s \in Seq(Stamp) /\ Len(s) \in Nat /\ DOMAIN s = 1..Len(s)
        /\ \A k \in DOMAIN s : s[k] \in Stamp
    BY LenProperties, ElementOfSeq DEF MissedInv, Batch
  <2>4. AllReported(cycle) = [cycle EXCEPT !.tstamps = t]
    BY <2>3 DEF AllReported, Batch
  <2>5. t \in Seq(Stamp)
    <3>1. \A k \in 1..Len(s) : t[k] \in Stamp
      BY <2>3 DEF Stamp
    <3>2. t \in [1..Len(s) -> Stamp]
      BY <2>3, <3>1
    <3> HIDE DEF s, t
    <3> QED BY <2>3, <3>2, SeqDef
  <2> HIDE DEF t
  <2>6. Batch(cycle') /\ cycle'.tstamps = t
    BY <2>2, <2>3, <2>4, <2>5 DEF Batch
  <2>7. /\ DOMAIN cycle'.tstamps = DOMAIN s
        /\ \A k \in DOMAIN s :
             /\ cycle'.tstamps[k].device = s[k].device /\ cycle'.tstamps[k].edge = s[k].edge
             /\ cycle'.tstamps[k].handled \/ cycle'.tstamps[k].role = "sink"
    <3>1. DOMAIN t = DOMAIN s /\ \A k \in DOMAIN s :
             t[k].device = s[k].device /\ t[k].edge = s[k].edge
             /\ (t[k].handled \/ t[k].role = "sink")
      BY <2>3 DEF MissedInv, SinksOpen, Stamp, t
    <3> QED BY <2>6, <3>1
  <2>8. Dated(cycle', edge, stamped) /\ \A d : Has(cycle, d) => Has(cycle', d)
    BY <2>7, SameStamps DEF MissedInv
  <2>9. SinksOpen(cycle')
    BY <2>7 DEF SinksOpen
  <2>10. w \in Sinks /\ tsState'[w] = LOCKED /\ Unpolled(cycle, w) => Unpolled(cycle', w)
    <3> SUFFICES ASSUME w \in Sinks, tsState'[w] = LOCKED, Unpolled(cycle, w),
                        NEW k \in DOMAIN s, s[k].device = TSPhc[w]
                 PROVE  FALSE
      BY <2>7 DEF Unpolled
    <3>1. w \in unhandledMetrics(cycle)
      BY UnpolledReported
    <3> QED BY <1>2, <2>1, <3>1, ReportLocks
  <2>11. tsState'[w] = LOCKED => tsState[w] = LOCKED
    BY <1>2, <2>1, ReportLocks
  <2>12. Watched'
    BY <1>1, <1>2, <2>8, <2>10, <2>11 DEF MissedInv, Watched
  <2> QED BY <1>1, <2>6, <2>8, <2>9, <2>12 DEF MissedInv, Configured
<1> QED BY <1>3, <1>4, <1>5

\* A selection.
LEMMA SelectionInv ==
  ASSUME MissedInv, NEW d \in TSDevices, NEW r \in TSRoles, handlePHCSelection(d, r)
  PROVE  MissedInv'
<1>1. vouched' = Vouched /\ UNCHANGED <<edge, stamped, polled, watch>>
  BY DEF handlePHCSelection
<1>2. Watched'
  BY <1>1 DEF Watched, Vouched
<1>3. vouched' \in [older : BOOLEAN, newer : BOOLEAN]
  BY <1>1 DEF Vouched
<1>4. CASE d \notin Configured
  <2>1. UNCHANGED <<cycle, roles>>
    BY <1>4 DEF handlePHCSelection
  <2> QED BY <1>1, <1>2, <1>3, <2>1 DEF MissedInv, Configured
<1>5. CASE d \in Configured
  <2> DEFINE s == cycle.tstamps
             t == [k \in DOMAIN s |->
                     IF s[k].device # d THEN s[k]
                     ELSE [s[k] EXCEPT !.role = r, !.handled = s[k].handled \/ r # "sink"]]
  <2>1. roles' = [roles EXCEPT ![d] = r] /\ r \in RoleNames
    BY <1>5 DEF handlePHCSelection, RoleNames
  <2>2. Batch(cycle) /\ s \in Seq(Stamp) /\ Len(s) \in Nat /\ DOMAIN s = 1..Len(s)
        /\ \A k \in DOMAIN s : s[k] \in Stamp
    BY LenProperties, ElementOfSeq DEF MissedInv, Batch
  <2>3. cycle' = [cycle EXCEPT !.tstamps = t]
    <3>1. cycle' = Selected(cycle, d, r)
      BY <1>5 DEF handlePHCSelection
    <3>2. Selected(cycle, d, r) = [cycle EXCEPT !.tstamps = t]
      BY DEF Selected
    <3> QED BY <3>1, <3>2
  <2>4. t \in Seq(Stamp)
    <3>1. \A k \in 1..Len(s) : t[k] \in Stamp
      BY <2>1, <2>2 DEF Stamp
    <3>2. t \in [1..Len(s) -> Stamp]
      BY <2>2, <3>1
    <3> HIDE DEF s, t
    <3> QED BY <2>2, <3>2, SeqDef
  <2>5. DOMAIN t = DOMAIN s /\ \A k \in DOMAIN s :
             t[k].device = s[k].device /\ t[k].edge = s[k].edge
             /\ (t[k].handled \/ t[k].role = "sink")
    BY <2>2 DEF MissedInv, SinksOpen, Stamp
  <2> HIDE DEF t
  <2>6. Batch(cycle') /\ cycle'.tstamps = t
    BY <2>2, <2>3, <2>4 DEF Batch
  <2>7. Dated(cycle', edge, stamped)
    BY <2>5, <2>6, SameStamps DEF MissedInv
  <2>8. SinksOpen(cycle')
    BY <2>5, <2>6 DEF SinksOpen
  <2>9. roles' \in [Configured -> RoleNames]
    BY <2>1 DEF MissedInv
  <2> QED BY <1>1, <1>2, <1>3, <2>6, <2>7, <2>8, <2>9 DEF MissedInv, Configured
<1> QED BY <1>4, <1>5

\* The other steps.
LEMMA OtherTSSteps ==
  ASSUME MissedInv, resetPollCycle \/ NextEdge \/ NextSecond \/ UNCHANGED tsVars
  PROVE  MissedInv'
<1>1. CASE resetPollCycle
  <2>1. /\ cycle' = NoCycle /\ roles' = [c \in Configured |-> "sink"] /\ vouched' = Vouched
        /\ UNCHANGED <<tsState, edge, stamped, polled, watch>>
    BY <1>1 DEF resetPollCycle
  <2>2. Batch(NoCycle) /\ Dated(NoCycle, edge, stamped) /\ SinksOpen(NoCycle)
    BY DEF NoCycle, Batch, Dated, SinksOpen
  <2>3. Watched' /\ vouched' \in [older : BOOLEAN, newer : BOOLEAN]
    BY <2>1 DEF Watched, Vouched
  <2> QED BY <2>1, <2>2, <2>3 DEF MissedInv, Configured, RoleNames
<1>2. CASE NextEdge
  <2>1. /\ edge' = edge + 1 /\ stamped' = {} /\ polled' = FALSE
        /\ UNCHANGED <<cycle, roles, tsState, vouched, watch>>
    BY <1>2 DEF NextEdge
  <2>2. \A k \in DOMAIN cycle.tstamps : cycle.tstamps[k].edge \in Int
    BY StampAt DEF MissedInv, Stamp
  <2>3. Dated(cycle, edge + 1, {})
    <3> SUFFICES ASSUME NEW k \in DOMAIN cycle.tstamps
                 PROVE  cycle.tstamps[k].edge <= edge + 1 /\ cycle.tstamps[k].edge # edge + 1
      BY DEF Dated
    <3>1. cycle.tstamps[k].edge <= edge /\ edge \in Int
      BY DEF MissedInv, Dated
    <3> QED BY <2>2, <3>1
  <2>4. Sinks' = Sinks
    BY <2>1 DEF Sinks
  <2>5. Watched'
    BY <2>1, <2>4 DEF MissedInv, Watched
  <2>6. edge' \in Int
    BY <2>1 DEF MissedInv
  <2>7. polled' \in BOOLEAN
    BY <2>1, Zenon
  <2> QED BY <2>1, <2>3, <2>5, <2>6, <2>7 DEF MissedInv, Configured
<1>3. CASE NextSecond \/ UNCHANGED tsVars
  <2>1. UNCHANGED <<cycle, roles, tsState, edge, stamped, polled, vouched, watch>>
    BY <1>3 DEF NextSecond, tsVars
  <2>2. Sinks' = Sinks
    BY <2>1 DEF Sinks
  <2> QED BY <2>1, <2>2 DEF MissedInv, Watched, Configured
<1> QED BY <1>1, <1>2, <1>3

\* A sink that fails while another clock goes on is noticed at the third stamp
\* of that clock (handleAddedTstamp), for any number of clocks, roles and
\* timeouts between the stamps.
THEOREM MissedSinkReportedAlways == TSSpec => MissedSinkReported
<1>1. TSInit => MissedInv
  <2> SUFFICES ASSUME TSInit PROVE MissedInv
    OBVIOUS
  <2>1. Batch(NoCycle) /\ Dated(NoCycle, edge, stamped) /\ SinksOpen(NoCycle)
    BY DEF NoCycle, Batch, Dated, SinksOpen
  <2>2. Watched
    BY DEF TSInit, Watched, Vouched
  <2>3. roles \in [Configured -> RoleNames] /\ edge \in Int
    BY DEF TSInit, RoleNames
  <2>6. polled \in BOOLEAN
    BY Zenon DEF TSInit
  <2>4. vouched \in [older : BOOLEAN, newer : BOOLEAN]
    BY DEF TSInit, Vouched
  <2>5. cycle = NoCycle /\ watch \in [phc : TSDevices, iface : TSIfaces]
    BY DEF TSInit
  <2> QED BY <2>1, <2>2, <2>3, <2>4, <2>5, <2>6 DEF MissedInv
<1> DEFINE Noticed ==
      watch.phc \in stamped' \ stamped /\ watch.iface \in Sinks /\ ~vouched.older =>
        tsState'[watch.iface] # LOCKED
<1>2. MissedInv /\ [TSNext]_tsVars => MissedInv' /\ Noticed
  <2> SUFFICES ASSUME MissedInv, [TSNext]_tsVars PROVE MissedInv' /\ Noticed
    OBVIOUS
  <2>1. ASSUME NEW d \in TSDevices, handleAddedTstamp(d) PROVE MissedInv' /\ Noticed
    <3>1. stamped' \ stamped \subseteq {d}
      BY <2>1 DEF handleAddedTstamp
    <3> QED BY <2>1, <3>1, AddedTstampInv
  <2>2. ASSUME NEW i \in TSIfaces, handleSuccessfulPollFor(i) PROVE MissedInv' /\ stamped' = stamped
    BY <2>2, PollForInv DEF handleSuccessfulPollFor
  <2>3. CASE handlePollTimeout
    BY <2>3, TimeoutInv DEF handlePollTimeout
  <2>4. ASSUME NEW d \in TSDevices, NEW r \in TSRoles, handlePHCSelection(d, r)
        PROVE  MissedInv' /\ stamped' = stamped
    BY <2>4, SelectionInv DEF handlePHCSelection
  <2>5. CASE resetPollCycle \/ NextEdge \/ NextSecond \/ UNCHANGED tsVars
    <3>1. stamped' \in {stamped, {}}
      BY <2>5 DEF resetPollCycle, NextEdge, NextSecond, tsVars
    <3> QED BY <2>5, <3>1, OtherTSSteps
  <2> QED BY <2>1, <2>2, <2>3, <2>4, <2>5 DEF TSNext
<1>3. Noticed => [Noticed]_tsVars
  OBVIOUS
<1>4. MissedInv /\ [TSNext]_tsVars => MissedInv'
  BY <1>2
<1>5. MissedInv /\ [TSNext]_tsVars => [Noticed]_tsVars
  BY <1>2
<1> QED BY <1>1, <1>4, <1>5, PTL DEF TSSpec, MissedSinkReported

-----------------------------------------------------------------------------
(* The PHC first step.  Formatting and reading a time leave it alone, so   *)
(* that the offset used to set the PHC is still the one measured.          *)

\* Division by the number of nanoseconds in a second.
LEMMA DivMod ==
  ASSUME NEW a \in Int
  PROVE  /\ a \div NanosPerSecond \in Int /\ a % NanosPerSecond \in Int
         /\ a = NanosPerSecond * (a \div NanosPerSecond) + (a % NanosPerSecond)
BY FirstStepAssumption

\* The division of the machine is a number.
LEMMA QuotInt == \A a \in Int : Quot(a, NanosPerSecond) \in Int
<1> SUFFICES ASSUME NEW a \in Int PROVE Quot(a, NanosPerSecond) \in Int
  OBVIOUS
<1>1. -a \in Int
  OBVIOUS
<1>2. a \div NanosPerSecond \in Int /\ (-a) \div NanosPerSecond \in Int
  BY <1>1, DivMod
<1> QED BY <1>2 DEF Quot

\* What is set is the number that was formatted, also before 1970.
LEMMA FormatValue == \A v \in Int : PhcCtlValue(formatNS(v)) = v
<1> SUFFICES ASSUME NEW v \in Int PROVE PhcCtlValue(formatNS(v)) = v
  OBVIOUS
<1> DEFINE q == Quot(v, NanosPerSecond)
<1>1. q \in Int /\ NanosPerSecond \in Int
  BY QuotInt, FirstStepAssumption
<1>2. Rem(v, NanosPerSecond) = v - NanosPerSecond * q
  BY DEF Rem
<1> HIDE DEF q
<1>3. formatNS(v) = IF v - NanosPerSecond * q < 0
                    THEN [sec |-> q - 1, nsec |-> v - NanosPerSecond * q + NanosPerSecond]
                    ELSE [sec |-> q, nsec |-> v - NanosPerSecond * q]
  BY <1>2 DEF formatNS, q
<1>4. /\ (q - 1) * NanosPerSecond + (v - NanosPerSecond * q + NanosPerSecond) = v
      /\ q * NanosPerSecond + (v - NanosPerSecond * q) = v
  BY <1>1
<1> QED BY <1>3, <1>4 DEF PhcCtlValue

\* What is read is the time of the PHC, or refused.
LEMMA ReadValue == \A v \in Int : phcSecondsToNS(PhcCtl(v)) \in {v, Overflow}
<1> SUFFICES ASSUME NEW v \in Int PROVE phcSecondsToNS(PhcCtl(v)) \in {v, Overflow}
  OBVIOUS
<1> DEFINE s == v \div NanosPerSecond
           n == v % NanosPerSecond
           q == Quot(MinInt, NanosPerSecond)
<1>1. s \in Int /\ n \in Int /\ v = NanosPerSecond * s + n
  BY DivMod
<1>2. q \in Int /\ NanosPerSecond \in Int /\ MinInt \in Int
  BY QuotInt, FirstStepAssumption
<1>3. Rem(MinInt, NanosPerSecond) = MinInt - NanosPerSecond * q
  BY DEF Rem
<1>4. PhcCtl(v).sec = s /\ PhcCtl(v).nsec = n
  BY DEF PhcCtl
<1> HIDE DEF s, n, q
<1>5. \/ phcSecondsToNS(PhcCtl(v)) = Overflow
      \/ /\ s = q - 1
         /\ phcSecondsToNS(PhcCtl(v)) =
              MinInt + n - (NanosPerSecond + (MinInt - NanosPerSecond * q))
      \/ phcSecondsToNS(PhcCtl(v)) = s * NanosPerSecond + n
  BY <1>3, <1>4 DEF phcSecondsToNS, q
<1>6. s = q - 1 => MinInt + n - (NanosPerSecond + (MinInt - NanosPerSecond * q))
                     = NanosPerSecond * s + n
  BY <1>1, <1>2
<1>7. s * NanosPerSecond + n = NanosPerSecond * s + n
  BY <1>1, <1>2
<1> QED BY <1>1, <1>5, <1>6, <1>7

Pcs == {"off", "measure", "read", "set", "done", "failed"}
Measured == \E e \in -MaxError..MaxError : fs.offset = deviation + e
FSInv ==
  /\ phc \in Int /\ deviation \in Int
  /\ DOMAIN fs = {"pc", "profile", "adjustment", "offset", "time"} /\ fs.pc \in Pcs
  /\ fs.pc \in {"read", "set"} => Measured
  /\ fs.pc = "set" => fs.time \in Int /\ fs.time = phc - fs.offset
  /\ Stepped

\* A PHC set d after it was read, or whose measured offset is small, is near.
LEMMA WithinFacts ==
  ASSUME NEW e \in -MaxError..MaxError, NEW n \in Int
  PROVE  /\ \A d \in 0..MaxDelay : n = -e - d =>
               Within(n, Larger(ResidualThreshold, MaxDelay) + MaxError)
         /\ -ResidualThreshold <= n + e /\ n + e <= ResidualThreshold =>
               Within(n, Larger(ResidualThreshold, MaxDelay) + MaxError)
BY FirstStepAssumption DEF Within, Larger

\* Every step keeps the invariant of the first step.
LEMMA FSNextInv == FSInv /\ [FSNext]_fsVars => FSInv'
<1> SUFFICES ASSUME FSInv, [FSNext]_fsVars PROVE FSInv'
  OBVIOUS
<1> USE DEF Pcs
<1>1. ASSUME NEW p \in StepProfiles, onPTPConfigChange(p) PROVE FSInv'
  <2>1. /\ DOMAIN fs' = {"pc", "profile", "adjustment", "offset", "time"}
        /\ fs'.pc \in {"failed", "measure"}
    BY <1>1 DEF onPTPConfigChange, NotCalled
  <2> QED BY <1>1, <2>1 DEF onPTPConfigChange, FSInv, Stepped
<1>2. ASSUME NEW e \in -MaxError..MaxError, measureOffset(e) PROVE FSInv'
  <2>1. deviation' = deviation /\ phc' = phc /\ fs'.offset = deviation + e
        /\ DOMAIN fs' = DOMAIN fs
    BY <1>2 DEF measureOffset, FSInv
  <2>2. \/ fs'.pc = "read"
        \/ /\ fs'.pc = "done"
           /\ -ResidualThreshold <= deviation + e /\ deviation + e <= ResidualThreshold
    BY <1>2 DEF measureOffset, FSInv
  <2>3. Measured'
    BY <2>1 DEF Measured
  <2>4. deviation \in Int
    BY DEF FSInv
  <2>5. Stepped'
    BY <2>1, <2>2, <2>4, WithinFacts DEF Stepped
  <2> QED BY <2>1, <2>2, <2>3, <2>5 DEF FSInv
<1>3. CASE measureFails
  BY <1>3 DEF measureFails, Goto, FSInv, Stepped
<1>4. CASE readPHCTime
  <2> DEFINE t == phcSecondsToNS(PhcCtl(phc))
             c == correctedTime(t, fs.offset)
  <2>1. phc' = phc /\ deviation' = deviation /\ fs.pc = "read"
        /\ fs' = IF t = Overflow \/ c = Overflow THEN [fs EXCEPT !.pc = "failed"]
                 ELSE [fs EXCEPT !.pc = "set", !.time = c]
    BY <1>4 DEF readPHCTime
  <2>2. t # Overflow => t = phc
    BY ReadValue DEF FSInv
  <2>3. c # Overflow => c = t - fs.offset
    BY DEF correctedTime
  <2>4. fs.offset \in Int /\ Measured
    BY <2>1, FirstStepAssumption DEF FSInv, Measured
  <2> HIDE DEF t, c
  <2>5. Measured'
    BY <2>1, <2>4 DEF Measured, FSInv
  <2> QED BY <2>1, <2>2, <2>3, <2>4, <2>5 DEF FSInv, Stepped
<1>5. ASSUME NEW d \in 0..MaxDelay, setPHCTime(d) PROVE FSInv'
  <2>1. fs.pc = "set" /\ phc' = fs.time /\ deviation' = deviation + fs.time - (phc + d)
    BY <1>5, FormatValue DEF setPHCTime, FSInv
  <2>2. PICK e \in -MaxError..MaxError : fs.offset = deviation + e
    BY <2>1 DEF FSInv, Measured
  <2>3. deviation' \in Int /\ phc' \in Int /\ deviation' = -e - d
    BY <2>1, <2>2, FirstStepAssumption DEF FSInv
  <2>4. DOMAIN fs' = DOMAIN fs /\ fs'.pc \in {"measure", "done"}
    BY <1>5 DEF setPHCTime, FSInv
  <2>5. Stepped'
    BY <2>3, WithinFacts DEF Stepped
  <2> QED BY <2>3, <2>4, <2>5 DEF FSInv
<1>6. CASE phcCtlFails
  BY <1>6 DEF phcCtlFails, Goto, FSInv, Stepped
<1>7. CASE UNCHANGED fsVars
  BY <1>7 DEF fsVars, FSInv, Stepped, Measured
<1> QED BY <1>1, <1>2, <1>3, <1>4, <1>5, <1>6, <1>7 DEF FSNext

\* A call that succeeds leaves the PHC within the error of one measurement, and
\* the larger of the threshold and the time it takes to set, of the time
\* transmitter (updatePHC), for any time of the PHC and width of the integers.
THEOREM SteppedAlways == FSSpec => []Stepped
<1>1. FSInit => FSInv
  BY FirstStepAssumption DEF FSInit, FSInv, NotCalled, Stepped, Pcs
<1>2. FSInv => Stepped
  BY DEF FSInv
<1> QED BY <1>1, <1>2, FSNextInv, PTL DEF FSSpec

-----------------------------------------------------------------------------
(* The leap file manager.  Its list is the one of the image, or that one   *)
(* with the leap second at its end: dated as announced, or in the past.    *)

LeapSec == LeapBase + sky.change
Event(a) == [at |-> a, sec |-> LeapSec]
Holds(a) ==
  \/ a = LeapAt /\ (sky.announced \/ LeapAt <= now)
  \/ LeapAt <= now /\ a < now
WithLeap(a) == Append(LeapFileEvents, Event(a))
Extended(e) == \E a \in Int : e = WithLeap(a) /\ Holds(a)
Running ==
  /\ DOMAIN lm = {"events", "at", "sec", "retry", "sent"}
  /\ lm.events = LeapFileEvents \/ Extended(lm.events)
  /\ lm.at = Last(lm.events).at /\ lm.sec = Last(lm.events).sec
  /\ informed => Extended(lm.events)

\* Before the leap second nobody has, or is about to write, another offset than
\* the one of the file; the flag that is written, or was, is of the right sign.
Flag == IF sky.change = 1 THEN "61" ELSE "59"
GSFields == {"offset", "leap", "class"}
LeapInv ==
  /\ now \in Nat
  /\ sky.change \in {-1, 1} /\ DOMAIN sky = {"change", "announced"}
  /\ leapCM = <<>> \/ leapCM = LeapFileEvents \/ Extended(leapCM)
  /\ lm = NotRunning \/ Running
  /\ lm = NotRunning => lmWrite = Idle /\ ~informed
  /\ DOMAIN leapGS = GSFields /\ DOMAIN lmWrite = GSFields /\ DOMAIN gmWrite = GSFields
  /\ lmWrite # Idle => Extended(lm.events) /\ IsLeapInWindow
  /\ now < LeapAt /\ ~garbled =>
       /\ leapGS.offset = LeapBase
       /\ lmWrite # Idle => lmWrite.offset = LeapBase /\ lmWrite.leap = Flag
  /\ now < LeapAt => (gmWrite # Idle => gmWrite.offset = LeapBase)
  /\ lm.sent => Extended(lm.events)
  /\ lm.sent /\ now < LeapAt /\ ~garbled => leapGS.leap = Flag

\* The end of the list, and what is handed to the clocks.
LEMMA FileFacts ==
  /\ LeapFileEvents \in Seq([at : Int, sec : Int]) /\ LeapFileEvents # <<>>
  /\ Len(LeapFileEvents) \in Nat /\ Len(LeapFileEvents) > 1
  /\ Last(LeapFileEvents) = LeapFileEvents[Len(LeapFileEvents)]
  /\ Last(LeapFileEvents).sec = LeapBase
  /\ Last(LeapFileEvents).at \in Int /\ Last(LeapFileEvents).at < 0
<1> DEFINE R == [at : Int, sec : Int]
           n == Len(LeapFileEvents)
<1>1. LeapFileEvents \in Seq(R) /\ n > 1 /\ Last(LeapFileEvents).sec = LeapBase
      /\ Last(LeapFileEvents).at < 0
  BY LeapAssumption
<1> HIDE DEF R
<1>2. n \in Nat /\ LeapFileEvents # <<>>
  BY <1>1, LenProperties, EmptySeq
<1>3. n \in 1..n
  BY <1>1, <1>2
<1>4. LeapFileEvents[n] \in R
  BY <1>1, <1>3, ElementOfSeq
<1>5. Last(LeapFileEvents) = LeapFileEvents[n]
  BY DEF Last
<1>6. Last(LeapFileEvents).at \in Int
  BY <1>4, <1>5 DEF R
<1> QED BY <1>1, <1>2, <1>5, <1>6 DEF R

\* The list with the leap second: its end, and the entry before.
LEMMA WithLeapFacts ==
  ASSUME NEW a \in Int, sky.change \in {-1, 1}
  PROVE  /\ WithLeap(a) = LeapFileEvents \o <<Event(a)>>
         /\ Last(WithLeap(a)).at = a /\ Last(WithLeap(a)).sec = LeapSec
         /\ WithLeap(a)[Len(WithLeap(a)) - 1].sec = LeapBase
         /\ WithLeap(a) # <<>> /\ WithLeap(a) # LeapFileEvents
<1> DEFINE R == [at : Int, sec : Int]
           n == Len(LeapFileEvents)
<1>1. Event(a) \in R /\ LeapFileEvents \in Seq(R)
  BY LeapAssumption DEF Event, LeapSec
<1>n. n \in Nat /\ n > 1 /\ LeapFileEvents[n].sec = LeapBase
  BY FileFacts
<1> HIDE DEF R
<1>2. Len(WithLeap(a)) = n + 1 /\ WithLeap(a)[n + 1] = Event(a)
      /\ \A i \in 1..n : WithLeap(a)[i] = LeapFileEvents[i]
      /\ WithLeap(a) # <<>>
  BY <1>1, AppendProperties DEF WithLeap
<1>3. WithLeap(a) = LeapFileEvents \o <<Event(a)>>
  BY <1>1, AppendIsConcat DEF WithLeap
<1>4. Last(WithLeap(a)) = Event(a)
  BY <1>2 DEF Last
<1>5. Event(a).at = a /\ Event(a).sec = LeapSec
  BY DEF Event
<1>6. Len(WithLeap(a)) - 1 = n /\ n \in 1..n
  BY <1>2, <1>n
<1>7. WithLeap(a)[Len(WithLeap(a)) - 1] = LeapFileEvents[n]
  BY <1>2, <1>6
<1>8. WithLeap(a) # LeapFileEvents
  BY <1>2, <1>n
<1>9. WithLeap(a)[Len(WithLeap(a)) - 1].sec = LeapBase
  BY <1>7, <1>n
<1>10. Last(WithLeap(a)).at = a /\ Last(WithLeap(a)).sec = LeapSec
  BY <1>4, <1>5
<1>11. WithLeap(a) # <<>>
  BY <1>2
<1> QED BY <1>3, <1>8, <1>9, <1>10, <1>11, Zenon

\* What the list says of the time, and the offset it gives the clocks.
LEMMA ListFacts ==
  ASSUME LeapInv, lm # NotRunning
  PROVE  /\ lm.events # <<>>
         /\ lm.events = LeapFileEvents =>
               lm.at < 0 /\ lm.at \in Int /\ lm.sec = LeapBase /\ ~IsLeapInWindow
         /\ Extended(lm.events) =>
               /\ lm.events # LeapFileEvents /\ lm.sec = LeapSec /\ Last(lm.events).sec = LeapSec
               /\ lm.events[Len(lm.events) - 1].sec = LeapBase
               /\ Holds(lm.at) /\ lm.at \in Int
               /\ IsLeapInWindow => lm.at = LeapAt /\ now < LeapAt
         /\ now < LeapAt => GetUtcOffset = LeapBase
         /\ now > LeapAt /\ Extended(lm.events) => GetUtcOffset = LeapSec
<1>1. Running /\ sky.change \in {-1, 1} /\ now \in Nat
  BY DEF LeapInv
<1>2. LeapAt \in Nat /\ pmcWindowEnd \in Nat \ {0} /\ pmcWindowStart \in Nat /\ LeapBase \in Int
  BY LeapAssumption
<1>3. lm.events = LeapFileEvents =>
        lm.at < 0 /\ lm.at \in Int /\ lm.sec = LeapBase /\ ~IsLeapInWindow
  BY <1>1, <1>2, FileFacts DEF Running, IsLeapInWindow
<1>4. ASSUME NEW a \in Int, lm.events = WithLeap(a), Holds(a)
      PROVE  /\ lm.events # LeapFileEvents /\ lm.at = a /\ lm.sec = LeapSec
             /\ Last(lm.events).at = a /\ Last(lm.events).sec = LeapSec
             /\ lm.events[Len(lm.events) - 1].sec = LeapBase
             /\ IsLeapInWindow => a = LeapAt /\ now < LeapAt
  <2>1. /\ lm.events # LeapFileEvents /\ lm.at = a /\ lm.sec = LeapSec
        /\ Last(lm.events).at = a /\ Last(lm.events).sec = LeapSec
        /\ lm.events[Len(lm.events) - 1].sec = LeapBase
    BY <1>1, <1>4, WithLeapFacts DEF Running
  <2>2. IsLeapInWindow => a = LeapAt /\ now < LeapAt
    BY <1>1, <1>2, <1>4, <2>1 DEF IsLeapInWindow, Holds
  <2> QED BY <2>1, <2>2
<1>5. Extended(lm.events) =>
        /\ lm.events # LeapFileEvents /\ lm.sec = LeapSec /\ Last(lm.events).sec = LeapSec
        /\ lm.events[Len(lm.events) - 1].sec = LeapBase
        /\ Holds(lm.at) /\ lm.at \in Int
        /\ IsLeapInWindow => lm.at = LeapAt /\ now < LeapAt
  BY <1>4 DEF Extended
<1>6. now < LeapAt => GetUtcOffset = LeapBase
  <2>1. lm.events = LeapFileEvents => (now < LeapAt => GetUtcOffset = LeapBase)
    BY <1>1, <1>3 DEF GetUtcOffset
  <2>2. Extended(lm.events) => (now < LeapAt => GetUtcOffset = LeapBase)
    BY <1>1, <1>2, <1>5 DEF GetUtcOffset, Holds
  <2> QED BY <1>1, <2>1, <2>2 DEF Running
<1>7. now > LeapAt /\ Extended(lm.events) => GetUtcOffset = LeapSec
  BY <1>1, <1>2, <1>5 DEF GetUtcOffset, Holds
<1>8. lm.events # <<>>
  BY <1>1, FileFacts, WithLeapFacts DEF Running, Extended
<1> QED BY <1>3, <1>5, <1>6, <1>7, <1>8

\* What a step leaves behind is enough for the list to stay a known one.
LEMMA StaysExtended ==
  ASSUME LeapInv, NEW e, Extended(e), sky'.change = sky.change,
         sky.announced => sky'.announced, now' \in Nat, now <= now'
  PROVE  Extended(e)'
<1>1. PICK a \in Int : e = WithLeap(a) /\ Holds(a)
  BY DEF Extended
<1>2. WithLeap(a)' = WithLeap(a)
  BY DEF WithLeap, Event, LeapSec
<1>3. Holds(a)'
  BY <1>1, LeapAssumption DEF Holds, LeapInv
<1> QED BY <1>1, <1>2, <1>3 DEF Extended

\* What a believed source says: nothing new, or the leap second.
Told == sky.announced \/ now >= LeapAt

\* What a believed indication says before and after the announcement.
LEMMA IndicationFacts ==
  ASSUME LeapInv, NEW ind \in Indications, ind.src \in LeapAllowed
  PROVE  /\ Told => ind.curr + ind.change = LeapSec /\ ind.date = LeapAt
         /\ ~Told => ind.curr + ind.change = LeapBase
         /\ Told /\ ind.change = 0 => LeapAt <= now
<1>a. \A src : Untrue(src).src = src
  BY DEF Untrue
<1>b. \A src, past : /\ Said(src, past).curr = LeapBase + (IF now >= LeapAt THEN sky.change ELSE 0)
                     /\ Said(src, past).change = IF sky.announced /\ now < LeapAt
                                                 THEN sky.change ELSE 0
                     /\ Told => Said(src, past).date = LeapAt
  BY DEF Said, Told
<1>1. \E src, past : ind = Said(src, past)
  BY <1>a DEF Indications, Untrue
<1>2. /\ ind.curr = LeapBase + (IF now >= LeapAt THEN sky.change ELSE 0)
      /\ ind.change = IF sky.announced /\ now < LeapAt THEN sky.change ELSE 0
      /\ Told => ind.date = LeapAt
  BY <1>1, <1>b
<1>3. sky.change \in {-1, 1} /\ now \in Nat /\ LeapAt \in Nat /\ LeapBase \in Int
  BY LeapAssumption DEF LeapInv
<1> QED BY <1>2, <1>3 DEF Told, LeapSec

\* Only the leap second is added, and only to the list of the image.
LEMMA AddedFacts ==
  ASSUME LeapInv, lm # NotRunning, NEW ind \in Indications
  PROVE  /\ ind.src \in LeapAllowed /\ Told /\ lm.events = LeapFileEvents =>
               processLeapIndication(ind) # <<>>
         /\ processLeapIndication(ind) # <<>> =>
               /\ lm.events = LeapFileEvents
               /\ \E a \in Int : processLeapIndication(ind) = <<Event(a)>> /\ Holds(a)
<1>1. sky.change \in {-1, 1} /\ now \in Nat /\ Running
  BY DEF LeapInv
<1>2. LeapAt \in Nat /\ LeapBase \in Int /\ pmcWindowEnd \in Nat \ {0}
  BY LeapAssumption
<1> DEFINE adds == /\ ind.src \in LeapAllowed /\ ind.curr + ind.change # Last(lm.events).sec
                   /\ Last(lm.events).at < now
           at == IF ind.change = 0 /\ ~ind.past THEN now - pmcWindowEnd ELSE ind.date
<1>3. processLeapIndication(ind) =
        IF adds THEN <<[at |-> at, sec |-> ind.curr + ind.change]>> ELSE <<>>
  BY DEF processLeapIndication
<1>4. ASSUME ind.src \in LeapAllowed, Told, lm.events = LeapFileEvents PROVE adds
  BY <1>1, <1>2, <1>4, IndicationFacts, FileFacts DEF LeapSec
<1>5. ASSUME adds
      PROVE  Told /\ lm.events = LeapFileEvents /\ ind.curr + ind.change = LeapSec
             /\ at \in Int /\ Holds(at)
  <2>1. Told
    <3>1. SUFFICES ASSUME ~Told PROVE FALSE
      OBVIOUS
    <3>2. ind.curr + ind.change = LeapBase
      BY <1>5, <3>1, IndicationFacts
    <3>3. Extended(lm.events)
      BY <1>1, <1>5, <3>2, FileFacts DEF Running
    <3> QED BY <1>1, <1>2, <3>1, <3>3 DEF Extended, Holds, Told
  <2>2. ind.curr + ind.change = LeapSec /\ ind.date = LeapAt /\ (ind.change = 0 => LeapAt <= now)
    BY <1>5, <2>1, IndicationFacts
  <2>3. lm.events = LeapFileEvents
    BY <1>1, <1>5, <2>2, ListFacts DEF Running
  <2>4. at \in Int /\ Holds(at)
    BY <1>1, <1>2, <2>1, <2>2 DEF Holds, Told
  <2> QED BY <2>1, <2>2, <2>3, <2>4
<1> HIDE DEF adds, at
<1> QED
  <2>1. adds => processLeapIndication(ind) = <<Event(at)>>
    BY <1>3, <1>5 DEF Event
  <2>2. ~adds => processLeapIndication(ind) = <<>>
    BY <1>3
  <2>3. <<Event(at)>> # <<>>
    OBVIOUS
  <2> QED BY <1>4, <1>5, <2>1, <2>2, <2>3

\* The invariant holds at the start.
LEMMA LeapInitInv == LeapInit => LeapInv
BY LeapAssumption DEF LeapInit, LeapInv, NotRunning, Idle, FreshGS, GSFields

\* An indication keeps it.
LEMMA IndicationInv ==
  ASSUME LeapInv, NEW ind \in Indications, NEW api, handleLeapIndication(ind, api)
  PROVE  LeapInv'
<1>1. /\ lm # NotRunning /\ Running /\ lmWrite = Idle
      /\ UNCHANGED <<now, sky, lmWrite, gmWrite, leapGS, garbled>>
      /\ informed' => informed \/ (ind.src \in LeapAllowed /\ Told)
  BY DEF handleLeapIndication, LeapInv, Told
<1>2. CASE processLeapIndication(ind) = <<>>
  <2>1. UNCHANGED <<lm, leapCM>>
    BY <1>2 DEF handleLeapIndication
  <2>2. informed' => Extended(lm.events)
    BY <1>1, <1>2, AddedFacts DEF Running
  <2>3. Running'
    BY <1>1, <2>1, <2>2 DEF Running, Extended, WithLeap, Event, LeapSec, Holds
  <2> QED BY <1>1, <2>1, <2>3
          DEF LeapInv, Extended, WithLeap, Event, LeapSec, Holds, IsLeapInWindow, Flag
<1>3. CASE processLeapIndication(ind) # <<>>
  <2>1. lm.events = LeapFileEvents
    BY <1>1, <1>3, AddedFacts
  <2>2. PICK a \in Int : processLeapIndication(ind) = <<Event(a)>> /\ Holds(a)
    BY <1>1, <1>3, AddedFacts
  <2> DEFINE m == updateLeapFile(lm, <<Event(a)>>)
  <2>3. WithLeap(a) = LeapFileEvents \o <<Event(a)>>
    BY WithLeapFacts DEF LeapInv
  <2>4. /\ DOMAIN m = DOMAIN lm /\ m.events = WithLeap(a) /\ m.sent = lm.sent
        /\ m.at = Last(WithLeap(a)).at /\ m.sec = Last(WithLeap(a)).sec
    BY <1>1, <2>1, <2>3 DEF updateLeapFile, setUtcOffset, Running
  <2>5. updateLeapConfigmap(m, api)
    BY <1>3, <2>2 DEF handleLeapIndication
  <2> HIDE DEF m
  <2>6. /\ DOMAIN lm' = DOMAIN lm /\ lm'.events = WithLeap(a) /\ lm'.sent = lm.sent
        /\ lm'.at = m.at /\ lm'.sec = m.sec
        /\ leapCM' \in {WithLeap(a), leapCM}
    BY <1>1, <2>4, <2>5 DEF updateLeapConfigmap, Running
  <2>7. Extended(lm.events)'
    BY <1>1, <2>2, <2>6 DEF Extended, WithLeap, Event, LeapSec, Holds
  <2>8. Running'
    BY <1>1, <2>4, <2>6, <2>7 DEF Running
  <2>9. ~lm.sent
    BY <1>1, <2>1, ListFacts DEF LeapInv
  <2>10. leapCM' = <<>> \/ leapCM' = LeapFileEvents \/ Extended(leapCM)'
    BY <1>1, <2>2, <2>6 DEF LeapInv, Extended, WithLeap, Event, LeapSec, Holds
  <2>11. lm' # NotRunning
    BY <2>6, <2>2, WithLeapFacts DEF NotRunning, LeapInv
  <2> QED BY <1>1, <2>6, <2>8, <2>9, <2>10, <2>11 DEF LeapInv, Flag
<1> QED BY <1>2, <1>3

\* The tick, up to the read of the settings, keeps it.
LEMMA TickInv ==
  ASSUME LeapInv, NEW api, NEW answer \in {"ok", "fails", "silent"}, Tick(api, answer)
  PROVE  LeapInv'
<1> DEFINE g == IF answer = "silent" THEN ZeroGS ELSE leapGS
           asks == IsLeapInWindow /\ ~lm.sent /\ answer # "fails"
           same == asks /\ Last(lm.events).sec = g.offset
           kept == [lm EXCEPT !.sent = IsLeapInWindow /\ (@ \/ same)]
           write == [g EXCEPT !.leap = IF Last(lm.events).sec > g.offset THEN "61" ELSE "59"]
<1>1. /\ lm # NotRunning /\ lmWrite = Idle /\ Running
      /\ IF lm.retry THEN updateLeapConfigmap(kept, api) ELSE lm' = kept /\ UNCHANGED leapCM
      /\ lmWrite' = IF ~asks \/ same THEN Idle ELSE write
      /\ garbled' = (garbled \/ (asks /\ answer = "silent"))
      /\ UNCHANGED <<now, sky, gmWrite, leapGS, informed>>
  BY DEF Tick, LeapInv
<1>2. /\ DOMAIN kept = DOMAIN lm /\ kept.events = lm.events /\ kept.at = lm.at /\ kept.sec = lm.sec
      /\ kept.sent = (IsLeapInWindow /\ (lm.sent \/ same))
  BY <1>1 DEF Running
<1> HIDE DEF kept
<1>3. /\ DOMAIN lm' = DOMAIN lm /\ lm'.events = lm.events /\ lm'.at = lm.at /\ lm'.sec = lm.sec
      /\ lm'.sent = (IsLeapInWindow /\ (lm.sent \/ same))
      /\ leapCM' \in {lm.events, leapCM}
  BY <1>1, <1>2 DEF updateLeapConfigmap, Running
<1>4. Extended(lm.events)' <=> Extended(lm.events)
  BY <1>1, <1>3 DEF Extended, WithLeap, Event, LeapSec, Holds
<1>5. Extended(leapCM)' <=> Extended(leapCM')
  BY <1>1 DEF Extended, WithLeap, Event, LeapSec, Holds
<1>6. leapCM' = <<>> \/ leapCM' = LeapFileEvents \/ Extended(leapCM)'
  BY <1>1, <1>3, <1>5 DEF LeapInv, Running
<1>7. Running'
  BY <1>1, <1>3, <1>4 DEF Running
<1>8. IsLeapInWindow => Extended(lm.events) /\ now < LeapAt /\ Last(lm.events).sec = LeapSec
  BY <1>1, ListFacts DEF Running
<1>9. IsLeapInWindow' <=> IsLeapInWindow
  BY <1>1, <1>3 DEF IsLeapInWindow
<1>10. now < LeapAt /\ ~garbled' /\ asks => g = leapGS /\ g.offset = LeapBase
  BY <1>1 DEF LeapInv
<1>11. now < LeapAt /\ ~garbled' => ~same
  BY <1>8, <1>10, LeapAssumption DEF LeapInv, LeapSec
<1>12. DOMAIN g = GSFields
  BY DEF LeapInv, ZeroGS, GSFields
<1>13. DOMAIN lmWrite' = GSFields
  BY <1>1, <1>12 DEF Idle, GSFields
<1>14. now < LeapAt /\ ~garbled' /\ lmWrite' # Idle =>
         lmWrite'.offset = LeapBase /\ lmWrite'.leap = Flag
  <2>1. now < LeapAt /\ ~garbled' /\ lmWrite' # Idle =>
          lmWrite' = write /\ g.offset = LeapBase /\ Last(lm.events).sec = LeapSec
    BY <1>1, <1>8, <1>10
  <2>2. write.offset = g.offset
        /\ write.leap = IF Last(lm.events).sec > g.offset THEN "61" ELSE "59"
    BY <1>12 DEF GSFields
  <2>3. sky.change \in {-1, 1} /\ LeapBase \in Int
    BY LeapAssumption DEF LeapInv
  <2> HIDE DEF g, write, asks, same
  <2> QED BY <2>1, <2>2, <2>3 DEF LeapSec, Flag
<1>15. lmWrite' # Idle => asks
  BY <1>1
<1>16. lm' # NotRunning
  BY <1>1, <1>3, ListFacts DEF NotRunning
<1>17. lm'.sent /\ now < LeapAt /\ ~garbled' => leapGS.leap = Flag
  BY <1>1, <1>3, <1>11 DEF LeapInv
<1>18. lm'.sent => Extended(lm.events)
  BY <1>3, <1>8
<1> HIDE DEF same, g, write
<1> QED BY <1>1, <1>4, <1>6, <1>7, <1>8, <1>9, <1>13, <1>14, <1>15, <1>16, <1>17, <1>18
        DEF LeapInv, Flag

\* Writing the settings keeps it.
LEMMA TickSetInv ==
  ASSUME LeapInv, NEW answer, TickSet(answer)
  PROVE  LeapInv'
<1>1. /\ lm # NotRunning /\ Running /\ Extended(lm.events) /\ IsLeapInWindow
      /\ lmWrite # Idle /\ lmWrite' = Idle /\ leapGS' \in {lmWrite, leapGS}
      /\ answer = "ok" => leapGS' = lmWrite
      /\ lm' = [lm EXCEPT !.sent = answer = "ok"]
      /\ garbled => garbled'
      /\ UNCHANGED <<now, sky, leapCM, gmWrite, informed>>
  BY DEF TickSet, LeapInv
<1>2. /\ DOMAIN lm' = DOMAIN lm /\ lm'.events = lm.events /\ lm'.at = lm.at /\ lm'.sec = lm.sec
      /\ lm'.sent = (answer = "ok")
  BY <1>1 DEF Running
<1>3. Running'
  BY <1>1, <1>2 DEF Running, Extended, WithLeap, Event, LeapSec, Holds
<1>4. Extended(lm.events)'
  BY <1>1, <1>2 DEF Extended, WithLeap, Event, LeapSec, Holds
<1>5. leapCM' = <<>> \/ leapCM' = LeapFileEvents \/ Extended(leapCM)'
  BY <1>1 DEF LeapInv, Extended, WithLeap, Event, LeapSec, Holds
<1>6. lm' # NotRunning
  BY <1>1, <1>2, ListFacts DEF NotRunning
<1>7. now < LeapAt /\ ~garbled' => leapGS'.offset = LeapBase /\ (lm'.sent => leapGS'.leap = Flag)
  BY <1>1, <1>2 DEF LeapInv
<1>8. DOMAIN lmWrite' = GSFields /\ DOMAIN leapGS' = GSFields
  BY <1>1 DEF LeapInv, Idle, GSFields
<1>9. Flag' = Flag
  BY <1>1 DEF Flag
<1> QED BY <1>1, <1>3, <1>4, <1>5, <1>6, <1>7, <1>8, <1>9 DEF LeapInv

\* A start of the daemon keeps it.
LEMMA DaemonInv ==
  ASSUME LeapInv, NEW api, DaemonStarts(api)
  PROVE  LeapInv'
<1>1. /\ leapCM' = IF leapCM = <<>> THEN LeapFileEvents ELSE leapCM
      /\ lm' = Loaded(leapCM')
      /\ lmWrite' = Idle /\ gmWrite' = Idle /\ leapGS' = FreshGS /\ garbled' = FALSE
      /\ informed' => informed /\ leapCM = lm.events
      /\ UNCHANGED <<now, sky>>
  BY DEF DaemonStarts, populateLeapData
<1>2. /\ DOMAIN lm' = {"events", "at", "sec", "retry", "sent"} /\ lm'.events = leapCM'
      /\ lm'.at = Last(leapCM').at /\ lm'.sec = Last(leapCM').sec /\ lm'.sent = FALSE
  BY <1>1 DEF Loaded, setUtcOffset, NotRunning
<1>3. leapCM' = LeapFileEvents \/ Extended(leapCM')
  BY <1>1 DEF LeapInv
<1>4. Extended(leapCM') => Extended(leapCM)' /\ Extended(lm.events)'
  BY <1>1, <1>2 DEF Extended, WithLeap, Event, LeapSec, Holds
<1>5. informed' => Extended(leapCM')
  <2>1. SUFFICES ASSUME informed' PROVE Extended(leapCM')
    OBVIOUS
  <2>2. Extended(lm.events) /\ leapCM = lm.events /\ lm.events # <<>>
    BY <1>1, <2>1, ListFacts DEF LeapInv, Running
  <2> QED BY <1>1, <2>2
<1>6. Running'
  BY <1>2, <1>3, <1>4, <1>5 DEF Running
<1>7. leapCM' # <<>>
  BY <1>1, FileFacts
<1>8. lm' # NotRunning
  BY <1>2, <1>7 DEF NotRunning
<1>9. leapGS'.offset = LeapBase /\ DOMAIN leapGS' = GSFields /\ DOMAIN Idle = GSFields
  BY <1>1 DEF FreshGS, GSFields, Idle
<1> QED BY <1>1, <1>2, <1>3, <1>4, <1>6, <1>8, <1>9 DEF LeapInv

\* Steps that leave the list and what is read and written of it alone.
LEMMA OtherLeapSteps ==
  ASSUME LeapInv, UNCHANGED <<lm, leapCM, lmWrite, informed>>,
         \/ \E class \in {6, 7} : GMGet(class)
         \/ GMSet \/ Ptp4lStarts \/ Announce \/ TimePasses \/ UNCHANGED leapVars
  PROVE  LeapInv'
<1>1. /\ now' \in Nat /\ now <= now' /\ sky'.change = sky.change /\ DOMAIN sky' = DOMAIN sky
      /\ sky.announced => sky'.announced
      /\ lmWrite # Idle => now' = now
  BY DEF GMGet, GMSet, Ptp4lStarts, Announce, TimePasses, leapVars, LeapInv
<1>2. ASSUME NEW e, Extended(e) PROVE Extended(e)'
  BY <1>1, <1>2, StaysExtended
<1>3. Extended(lm.events) => Extended(lm.events)'
  <2>1. \A e : e = lm.events /\ Extended(e) => \E a \in Int : e = WithLeap(a)' /\ Holds(a)'
    BY <1>2 DEF Extended
  <2> QED BY <2>1 DEF Extended
<1>4. Extended(leapCM) => Extended(leapCM)'
  <2>1. \A e : e = leapCM /\ Extended(e) => \E a \in Int : e = WithLeap(a)' /\ Holds(a)'
    BY <1>2 DEF Extended
  <2> QED BY <2>1 DEF Extended
<1>5. Running => Running'
  BY <1>3 DEF Running
<1>6. lm # NotRunning => (now < LeapAt => GetUtcOffset = LeapBase)
  BY ListFacts
<1>7. /\ DOMAIN leapGS' = GSFields /\ DOMAIN gmWrite' = GSFields
      /\ now' < LeapAt => (gmWrite' # Idle => gmWrite'.offset = LeapBase)
      /\ now' < LeapAt /\ ~garbled' =>
           /\ now < LeapAt /\ ~garbled
           /\ leapGS'.offset = LeapBase
           /\ leapGS'.leap = leapGS.leap
  <2>1. LeapAt \in Nat /\ DOMAIN FreshGS = GSFields /\ DOMAIN Idle = GSFields
    BY LeapAssumption DEF FreshGS, Idle, GSFields
  <2>2. ASSUME NEW class \in {6, 7}, GMGet(class)
        PROVE  /\ DOMAIN gmWrite' = GSFields /\ gmWrite'.offset = GetUtcOffset
               /\ lm # NotRunning /\ UNCHANGED <<leapGS, garbled, now>>
    BY <2>2 DEF GMGet, LeapInv, GSFields
  <2>3. CASE \E class \in {6, 7} : GMGet(class)
    BY <1>6, <2>2, <2>3 DEF LeapInv
  <2>4. CASE GMSet
    BY <2>1, <2>4 DEF GMSet, LeapInv
  <2>5. CASE Ptp4lStarts
    BY <2>1, <2>5 DEF Ptp4lStarts, LeapInv
  <2>6. CASE Announce
    BY <2>6 DEF Announce, LeapInv
  <2>7. CASE TimePasses
    BY <1>1, <2>1, <2>7 DEF TimePasses, LeapInv
  <2>8. CASE UNCHANGED leapVars
    BY <2>8 DEF leapVars, LeapInv
  <2> QED BY <2>3, <2>4, <2>5, <2>6, <2>7, <2>8
<1>8. IsLeapInWindow /\ now' = now => IsLeapInWindow'
  BY DEF IsLeapInWindow
<1>9. lmWrite # Idle => Extended(lm.events)' /\ IsLeapInWindow'
  BY <1>1, <1>3, <1>8 DEF LeapInv
<1>10. Flag' = Flag
  BY <1>1 DEF Flag
<1> HIDE DEF LeapInv
<1>11. leapCM = <<>> \/ leapCM = LeapFileEvents \/ Extended(leapCM)
  BY DEF LeapInv
<1>12. lm = NotRunning \/ Running'
  BY <1>5 DEF LeapInv
<1>13. lm.sent => Extended(lm.events)'
  BY <1>3 DEF LeapInv
<1>14. now' < LeapAt /\ ~garbled' =>
         /\ leapGS'.offset = LeapBase
         /\ lmWrite # Idle => lmWrite.offset = LeapBase /\ lmWrite.leap = Flag'
         /\ lm.sent => leapGS'.leap = Flag'
  BY <1>7, <1>10 DEF LeapInv
<1>15. lm = NotRunning => lmWrite = Idle /\ ~informed
  BY DEF LeapInv
<1>16. sky'.change \in {-1, 1} /\ DOMAIN sky' = {"change", "announced"} /\ DOMAIN lmWrite = GSFields
  BY <1>1 DEF LeapInv
<1> QED BY <1>1, <1>4, <1>7, <1>9, <1>11, <1>12, <1>13, <1>14, <1>15, <1>16 DEF LeapInv

\* The invariant of the leap file manager (pkg/leap/leap-file.go).
THEOREM LeapInvariant == LeapSpec => []LeapInv
<1>1. LeapInv /\ [LeapNext]_leapVars => LeapInv'
  <2> SUFFICES ASSUME LeapInv, [LeapNext]_leapVars PROVE LeapInv'
    OBVIOUS
  <2>1. ASSUME NEW api \in {"ok", "fails"}, NEW ind \in Indications, handleLeapIndication(ind, api)
        PROVE  LeapInv'
    BY <2>1, IndicationInv
  <2>2. ASSUME NEW api \in {"ok", "fails"}, NEW answer \in {"ok", "fails", "silent"},
               Tick(api, answer)
        PROVE  LeapInv'
    BY <2>2, TickInv
  <2>3. ASSUME NEW api \in {"ok", "fails"}, DaemonStarts(api) PROVE LeapInv'
    BY <2>3, DaemonInv
  <2>4. ASSUME NEW answer \in {"ok", "fails"}, TickSet(answer) PROVE LeapInv'
    BY <2>4, TickSetInv
  <2>5. CASE \/ \E class \in {6, 7} : GMGet(class)
             \/ GMSet \/ Ptp4lStarts \/ Announce \/ TimePasses \/ UNCHANGED leapVars
    <3>1. UNCHANGED <<lm, leapCM, lmWrite, informed>>
      BY <2>5 DEF GMGet, GMSet, Ptp4lStarts, Announce, TimePasses, leapVars
    <3> QED BY <2>5, <3>1, OtherLeapSteps
  <2> QED BY <2>1, <2>2, <2>3, <2>4, <2>5 DEF LeapNext
<1> QED BY <1>1, LeapInitInv, PTL DEF LeapSpec

\* The offset given to the clocks is the true one (GetUtcOffset), before and,
\* once the manager has been told, after the leap second.
THEOREM UtcOffsetTrueAlways == LeapSpec => []UtcOffsetTrue
<1>1. LeapInv => UtcOffsetTrue
  <2> SUFFICES ASSUME LeapInv, lm # NotRunning, now < LeapAt \/ (informed /\ now > LeapAt)
               PROVE  GetUtcOffset = LeapBase + (IF now > LeapAt THEN sky.change ELSE 0)
    BY DEF UtcOffsetTrue
  <2>1. now \in Nat /\ LeapAt \in Nat /\ LeapBase \in Int /\ Running
    BY LeapAssumption DEF LeapInv
  <2>2. CASE now < LeapAt
    <3>1. GetUtcOffset = LeapBase
      BY <2>2, ListFacts
    <3> QED BY <2>1, <2>2, <3>1
  <2>3. CASE informed /\ now > LeapAt
    <3>1. GetUtcOffset = LeapSec
      BY <2>1, <2>3, ListFacts DEF Running
    <3> QED BY <2>3, <3>1 DEF LeapSec
  <2> QED BY <2>2, <2>3
<1> QED BY <1>1, LeapInvariant, PTL

\* While the manager believes that ptp4l has the flag of the leap second to
\* come, it has it (pmcLeapSent), and of the right sign.
THEOREM LeapSignalledAlways == LeapSpec => []LeapSignalled
<1>1. LeapInv => LeapSignalled
  <2> SUFFICES ASSUME LeapInv, lm # NotRunning, lm.sent, IsLeapInWindow, ~garbled
               PROVE  leapGS.leap = Flag
    BY DEF LeapSignalled, Flag
  <2>1. now < LeapAt
    BY ListFacts DEF LeapInv
  <2> QED BY <2>1 DEF LeapInv
<1> QED BY <1>1, LeapInvariant, PTL
=============================================================================
