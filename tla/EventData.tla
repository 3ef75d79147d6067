----------------------------- MODULE EventData ------------------------------
(***************************************************************************)
(* What a clock remembers of the events of its sources (pkg/event/stats.go *)
(* and DataHolder of pkg/clock/baseclock.go): one Data entry per source,   *)
(* in it one detail per interface, the worst state of the details, and a   *)
(* sliding window of the source's offsets (pkg/utils/window.go).  Offsets  *)
(* are magnitudes.                                                         *)
(*                                                                         *)
(* Times appear only as the two comparisons the code makes with them: an   *)
(* event may be late (older than the detail it would replace), and a       *)
(* detail is fresh until it is older than StaleEventAfter.                 *)
(***************************************************************************)
EXTENDS Integers, Sequences, FiniteSets, SequencesExt, PTPState

CONSTANTS
  WindowSize,    \* samples a window holds (10 in event.go)
  NoOffset       \* the offset of an event that carries none

ASSUME WindowSizeAssumption == WindowSize \in Nat \ {0}

\* An event of a source: lost, oos and ft are SourceLost, OutOfSpec and
\* FrequencyTraceable, FALSE where the payload has no such field.
SourceEvent(src, iface, state, lost, offset) ==
  [src |-> src, iface |-> iface, state |-> state, lost |-> lost,
   offset |-> offset, oos |-> FALSE, ft |-> FALSE, late |-> FALSE]

\* A GNSS payload has no state: three satellites in view and no loss lock it.
GNSSEvent(iface, fix, lost, offset) ==
  SourceEvent("gnss", iface, IF fix /\ ~lost THEN LOCKED ELSE FREERUN, lost, offset)

-----------------------------------------------------------------------------
(* Windows.  The circular buffer is the sequence of its samples, oldest    *)
(* first; LastInserted of an empty one reads a slot that was never written. *)

Insert(w, v) ==
  IF Len(w) = WindowSize THEN Append(Tail(w), v) ELSE Append(w, v)
IsFull(w)       == Len(w) = WindowSize
IsEmpty(w)      == w = <<>>
Mean(w)         == FoldSeq(LAMBDA a, b : a + b, 0, w) \div Len(w)
LastInserted(w) == IF IsEmpty(w) THEN 0 ELSE w[Len(w)]

-----------------------------------------------------------------------------
(* One Data entry.                                                         *)

NewData(src) == [src |-> src, details |-> <<>>, state |-> UNKNOWN, window |-> <<>>]

HasDetail(d, iface) == \E i \in DOMAIN d.details : d.details[i].iface = iface
\* The first detail of an interface, which is its only one.
GetDataDetails(d, iface) ==
  IF HasDetail(d, iface) THEN CHOOSE i \in DOMAIN d.details : d.details[i].iface = iface ELSE 0
Detail(d, iface) == d.details[GetDataDetails(d, iface)]
States(d) == {d.details[i].state : i \in DOMAIN d.details}

\* The event replaces what is known of its interface unless it is late.  The
\* offset of the first event of an interface is neither stored nor inserted:
\* every source of a PTP clock has a window.
addEvent(d, ev) ==
  LET new == [iface |-> ev.iface, state |-> ev.state, lost |-> ev.lost, offset |-> 0,
              oos |-> ev.oos, ft |-> ev.ft, fresh |-> TRUE]
      at  == GetDataDetails(d, ev.iface)
  IN  IF at = 0 THEN [d EXCEPT !.details = Append(@, new)]
      ELSE IF ev.late THEN d
      ELSE IF ev.offset = NoOffset
      THEN [d EXCEPT !.details[at] = [new EXCEPT !.offset = d.details[at].offset]]
      ELSE [d EXCEPT !.details[at] = [new EXCEPT !.offset = ev.offset],
                     !.window = Insert(@, ev.offset)]

\* FREERUN before HOLDOVER before LOCKED; a detail in any other state is
\* passed over.
WorstDetail(d) ==
  IF FREERUN \in States(d) THEN FREERUN
  ELSE IF HOLDOVER \in States(d) THEN HOLDOVER
  ELSE IF LOCKED \in States(d) THEN LOCKED ELSE UNKNOWN
UpdateState(d) == [d EXCEPT !.state = WorstDetail(d)]

-----------------------------------------------------------------------------
(* The entries of a clock.                                                 *)

NoData == <<>>
HasData(data, src) == src \in DOMAIN data
StateOf(data, src, none) == IF HasData(data, src) THEN data[src].state ELSE none

\* getData makes an entry for a source it has not met.
GetData(data, src) == IF HasData(data, src) THEN data[src] ELSE NewData(src)
AddToData(data, ev) ==
  [src \in DOMAIN data \cup {ev.src} |->
     IF src = ev.src THEN UpdateState(addEvent(GetData(data, src), ev)) ELSE data[src]]

\* The leading DPLL is locked and another one is not: the composite clock is
\* taken to FREERUN (the same test in gm.go and tbc.go).
hasNonLeadingDPLLFault(data, leading) ==
  /\ HasData(data, "dpll")
  /\ LET d == data["dpll"]
     IN  /\ HasDetail(d, leading) /\ Detail(d, leading).state = LOCKED
         /\ \E s \in States(d) : s # LOCKED

\* StaleEventAfter has passed since the last event of an interface.
Age(d, iface) ==
  [d EXCEPT !.details = [i \in DOMAIN @ |->
     IF @[i].iface = iface THEN [@[i] EXCEPT !.fresh = FALSE] ELSE @[i]]]
=============================================================================
