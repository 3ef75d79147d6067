---------------------------- MODULE DPLLMonitor -----------------------------
(***************************************************************************)
(* The monitor of one DPLL (pkg/dpll/dpll.go).  Three kinds of goroutines   *)
(* share a DpllConfig: the monitor, which dials netlink and waits for the  *)
(* end; the receiver (monitorNtf), which applies notifications under the   *)
(* lock; and the goroutine of a holdover, which writes the same fields     *)
(* without it and is told to end over a channel nobody waits for.          *)
(*                                                                         *)
(* A step of the receiver is the whole of applyStateUpdate (the lock is    *)
(* held); a tick of the holdover goroutine is two steps.  Time is counted  *)
(* in ticks of a holdover, offsets are magnitudes in nanoseconds.          *)
(***************************************************************************)
EXTENDS Integers, Sequences, SequencesExt, PTPState

CONSTANTS
  Sources,             \* dependsOn[0]: of ptp4l, gnss, pps
  FlagSets,            \* sets of flags: of NoPhaseOffset, NoPhaseStatus, NoFrequencyStatus
  Reported,            \* lock statuses devices report
  PinOffsets,          \* phase offsets the active pin reports
  LocalMaxHoldoverOffSet, MaxInSpecOffset,
  LocalHoldoverTimeout,  \* in ticks
  FaultyPhaseOffset,
  DPLLEventsCap,       \* capacity of the event channel (100 in daemon.go)
  MaxStarts            \* bound: times the process is started

ASSUME DPLLAssumption ==
  /\ Sources \subseteq {"ptp4l", "gnss", "pps"}
  /\ LocalMaxHoldoverOffSet \in Nat /\ MaxInSpecOffset \in Nat /\ LocalHoldoverTimeout \in Nat
  /\ PinOffsets \subseteq Nat /\ FaultyPhaseOffset \in Nat
  /\ \A o \in PinOffsets \cup {LocalMaxHoldoverOffSet, MaxInSpecOffset} : o < FaultyPhaseOffset
  /\ DPLLEventsCap \in Nat \ {0}
  /\ Reported \subseteq {"INVALID", "FREERUN", "LOCKED", "LOCKED_HO_ACQ", "HOLDOVER"}

VARIABLES
  conf,       \* source and flags, fixed when the profile is applied
  d,          \* DpllConfig
  hos,        \* holdover goroutines
  closeCh,    \* holdoverCloseCh has been closed
  monitor,    \* the monitor goroutine: off, dialing, watching, leaving
  receiver,   \* monitorNtf: off or alive, with the message it is handling
  dpllEvents, \* number of events on their way to the clock
  told,       \* the last event that entered the channel
  missed,     \* history: the last event met a full channel
  starts      \* bound

dpllVars == <<conf, d, hos, closeCh, monitor, receiver, dpllEvents, told, missed, starts>>

NewDpll == [phase |-> "INVALID", freq |-> "INVALID", offset |-> FaultyPhaseOffset,
            inSpec |-> FALSE, sourceLost |-> FALSE, state |-> FREERUN,
            onHoldover |-> FALSE, closing |-> FALSE, proc |-> "Created"]

hasFlag(f) == f \in conf.flags
hasLeadingSource == conf.src \in {"ptp4l", "gnss"}

-----------------------------------------------------------------------------
(* Netlink messages.                                                       *)

\* What a notification can be about: the lock status of one of this clock's
\* devices, the phase offset of the pin that feeds it, or anything else.
DeviceMsg(type, status) == [kind |-> "device", type |-> type, status |-> status, offset |-> 0]
PinMsg(o) == [kind |-> "pin", type |-> "pps", status |-> "INVALID", offset |-> o]
OtherMsg  == [kind |-> "other", type |-> "pps", status |-> "INVALID", offset |-> 0]
LockStatuses == {"INVALID", "FREERUN", "LOCKED", "LOCKED_HO_ACQ", "HOLDOVER"}
NoMsg == [kind |-> "none", type |-> "pps", status |-> "INVALID", offset |-> 0]
Messages == {DeviceMsg(t, s) : t \in {"eec", "pps"}, s \in Reported}
              \cup {PinMsg(o) : o \in PinOffsets} \cup {OtherMsg}

\* A pin counts when it belongs to this clock, is an input, is connected or
\* active, and feeds a PPS device of this clock known from the last dump.
ActivePhaseOffsetPin(m) == m.kind = "pin" /\ monitor # "off"
SetPhaseOffset(c, o) == [c EXCEPT !.offset = o]

\* An invalid lock status is discarded.
relevant(m) == (m.kind = "device" /\ m.status # "INVALID") \/ ActivePhaseOffsetPin(m)
nlUpdateState(c, m) ==
  IF m.kind = "pin" THEN SetPhaseOffset(c, m.offset)
  ELSE IF m.type = "eec" THEN [c EXCEPT !.freq = m.status] ELSE [c EXCEPT !.phase = m.status]

-----------------------------------------------------------------------------
(* The state of the DPLL.                                                  *)

getStateQuality(s) ==
  CASE s = "INVALID" -> 0 [] s = "FREERUN" -> 1 [] s = "HOLDOVER" -> 2
    [] s = "LOCKED" -> 3 [] s = "LOCKED_HO_ACQ" -> 4
getWorseState(p, f) == IF getStateQuality(p) < getStateQuality(f) THEN p ELSE f

\* The PPS device decides alone where it takes PTP or 1PPS in.
getDpllState(c) ==
  IF conf.src \in {"ptp4l", "pps"} THEN c.phase
  ELSE IF hasFlag("NoPhaseStatus") THEN c.freq
  ELSE IF hasFlag("NoFrequencyStatus") THEN c.phase
  ELSE getWorseState(c.phase, c.freq)

isOffsetInRange(c)       == hasFlag("NoPhaseOffset") \/ c.offset <= LocalMaxHoldoverOffSet
isInSpecOffsetInRange(c) == hasFlag("NoPhaseOffset") \/ c.offset <= MaxInSpecOffset

\* The close is sent without waiting: a goroutine that is not in its select
\* does not get it.
CloseHoldover(hs) ==
  LET w == SelectInSeq(hs, LAMBDA h : h.pc = "select")
  IN  IF w = 0 THEN hs ELSE [hs EXCEPT ![w].pc = "closed"]

NewHoldover == [pc |-> "begin", t |-> 0]

Decided(c, hs) == [d |-> c, hos |-> hs]
freeRun(c) == [c EXCEPT !.state = FREERUN, !.offset = FaultyPhaseOffset]

onFreerun(c, hs) ==
  Decided([freeRun(c) EXCEPT !.inSpec = FALSE, !.sourceLost = TRUE],
          IF hasLeadingSource /\ c.onHoldover THEN CloseHoldover(hs) ELSE hs)

startsAgain(c) == ~c.closing
startsHoldover(c) == ~c.onHoldover /\ ~c.closing
onDPLLHoldover(c, hs) ==
  IF ~hasLeadingSource THEN Decided(freeRun(c), hs)
  ELSE IF ~c.inSpec \/ (conf.src = "ptp4l" /\ c.offset > LocalMaxHoldoverOffSet)
  THEN Decided([freeRun(c) EXCEPT !.sourceLost = TRUE], CloseHoldover(hs))
  ELSE IF startsHoldover(c)
  THEN Decided([c EXCEPT !.onHoldover = TRUE, !.state = HOLDOVER], Append(hs, NewHoldover))
  ELSE Decided(c, hs)

onLocked(c, hs) ==
  IF isOffsetInRange(c)
  THEN Decided([c EXCEPT !.inSpec = TRUE, !.sourceLost = FALSE, !.state = LOCKED],
               IF hasLeadingSource /\ c.onHoldover THEN CloseHoldover(hs) ELSE hs)
  ELSE Decided([freeRun(c) EXCEPT !.inSpec = FALSE], CloseHoldover(hs))

decision(c, hs) ==
  LET s == getDpllState(c)
  IN  IF s \in {"FREERUN", "INVALID"} THEN onFreerun(c, hs)
      ELSE IF s = "HOLDOVER" THEN onDPLLHoldover(c, hs)
      ELSE onLocked(c, hs)

-----------------------------------------------------------------------------
(* Events.                                                                 *)

Event(c) == [state |-> c.state, inSpec |-> c.inSpec, lost |-> c.sourceLost]

\* Sent without waiting; the same for the reset event of the monitor.
sendDpllEvent(c) ==
  IF dpllEvents < DPLLEventsCap
  THEN dpllEvents' = dpllEvents + 1 /\ told' = Event(c) /\ missed' = FALSE
  ELSE missed' = TRUE /\ UNCHANGED <<dpllEvents, told>>

\* The decision, and the event that always follows it.
stateDecision(c) ==
  \E r \in {decision(c, hos)} :
    /\ d' = r.d /\ hos' = r.hos
    /\ closeCh' = (closeCh /\ Len(r.hos) <= Len(hos))   \* a new holdover has a new channel
    /\ sendDpllEvent(r.d)

applyStateUpdate(m) ==
  IF relevant(m) THEN stateDecision(nlUpdateState(d, m))
  ELSE UNCHANGED <<d, hos, closeCh, dpllEvents, told, missed>>

\* The clock takes an event.
ClockTakes ==
  /\ dpllEvents > 0 /\ dpllEvents' = dpllEvents - 1
  /\ UNCHANGED <<conf, d, hos, closeCh, monitor, receiver, told, missed, starts>>

-----------------------------------------------------------------------------
(* The process.                                                            *)

\* The daemon asks a new DPLL for its state before the processes start.
SyncInitialState(m) ==
  /\ d.proc = "Created" /\ m.kind = "device"
  /\ applyStateUpdate(m)
  /\ UNCHANGED <<conf, monitor, receiver, starts>>

Start ==
  /\ d.proc \in {"Created", "Stopped", "Dead"} /\ starts < MaxStarts
  /\ d' = [d EXCEPT !.proc = "Starting"] /\ starts' = starts + 1
  /\ UNCHANGED <<conf, hos, closeCh, monitor, receiver, dpllEvents, told, missed>>

run ==
  /\ d.proc = "Starting" /\ monitor = "off"
  /\ d' = [d EXCEPT !.proc = "Running"] /\ monitor' = "dialing"
  /\ UNCHANGED <<conf, hos, closeCh, receiver, dpllEvents, told, missed, starts>>

Stop ==
  /\ d.proc \in {"Starting", "Running"} /\ monitor # "off"
  /\ d' = [d EXCEPT !.proc = "Stopping"]
  /\ UNCHANGED <<conf, hos, closeCh, monitor, receiver, dpllEvents, told, missed, starts>>

\* MonitorDpllNetlink: dial, dump the devices, apply what they say and start
\* the receiver.  A dial that fails is not tried again: redial is only set
\* when a receiver has ended.
Dial(m, ok) ==
  /\ monitor = "dialing" /\ receiver.on = FALSE
  /\ monitor' = "watching"
  /\ IF ok THEN applyStateUpdate(m) /\ receiver' = [on |-> TRUE, msg |-> NoMsg]
     ELSE UNCHANGED <<d, hos, closeCh, dpllEvents, told, missed, receiver>>
  /\ UNCHANGED <<conf, starts>>

\* monitorNtf: of the messages that one read returns only the last is kept, so
\* a read is known by that one.
Receive(m) ==
  /\ receiver.on /\ receiver.msg = NoMsg /\ monitor = "watching"
  /\ receiver' = [receiver EXCEPT !.msg = m]
  /\ UNCHANGED <<conf, d, hos, closeCh, monitor, dpllEvents, told, missed, starts>>
Apply ==
  /\ receiver.on /\ receiver.msg # NoMsg
  /\ applyStateUpdate(receiver.msg)
  /\ receiver' = [receiver EXCEPT !.msg = NoMsg]
  /\ UNCHANGED <<conf, monitor, starts>>

\* The connection breaks or is closed by the monitor: the receiver ends, and
\* unless the process is stopping the monitor dials again.
ReceiverEnds ==
  /\ receiver.on /\ receiver.msg = NoMsg
  /\ receiver' = [receiver EXCEPT !.on = FALSE]
  /\ monitor' = IF monitor = "watching" THEN "dialing" ELSE monitor
  /\ UNCHANGED <<conf, d, hos, closeCh, dpllEvents, told, missed, starts>>

\* The stop is seen: the clock is told to forget (a reset event, here only its
\* place in the channel), the connection is closed, and a second later an open
\* holdover is closed.  That second is taken to be long enough for the
\* receiver to finish the message it was handling.
Leave ==
  /\ d.proc = "Stopping" /\ monitor \in {"dialing", "watching"}
  /\ monitor' = "leaving"
  /\ dpllEvents' = dpllEvents + (IF dpllEvents < DPLLEventsCap THEN 1 ELSE 0)
  /\ UNCHANGED <<conf, d, hos, closeCh, receiver, told, missed, starts>>
Left ==
  /\ monitor = "leaving" /\ ~receiver.on
  /\ monitor' = "off"
  /\ closeCh' = (closeCh \/ d.onHoldover)
  /\ d' = [d EXCEPT !.onHoldover = FALSE, !.closing = @ \/ d.onHoldover, !.proc = "Stopped"]
  /\ UNCHANGED <<conf, hos, receiver, dpllEvents, told, missed, starts>>

-----------------------------------------------------------------------------
(* The holdover goroutine i.                                               *)

others == <<conf, closeCh, monitor, receiver, starts>>
At(i, pc) == i \in DOMAIN hos /\ hos[i].pc = pc
Move(i, pc) == hos' = [hos EXCEPT ![i].pc = pc]

HoldoverBegins(i) ==
  /\ At(i, "begin") /\ Move(i, "select")
  /\ sendDpllEvent(d)
  /\ UNCHANGED <<others, d>>

\* slope * elapsed
OffsetAt(t) == (LocalMaxHoldoverOffSet * t) \div LocalHoldoverTimeout

\* A tick: the offset is written first ...
TickOffset(i) ==
  /\ At(i, "select") /\ hos[i].t < LocalHoldoverTimeout
  /\ hos' = [hos EXCEPT ![i] = [pc |-> "tick", t |-> @.t + 1]]
  /\ d' = [d EXCEPT !.offset = OffsetAt(hos[i].t + 1)]
  /\ UNCHANGED <<others, dpllEvents, told, missed>>
\* ... then, with GNSS as the source, an offset out of spec ends the holdover;
\* with PTP it only takes the DPLL out of spec, and HOLDOVER is written again.
TickState(i) ==
  /\ At(i, "tick")
  /\ LET out == ~isInSpecOffsetInRange(d)
         c == IF conf.src = "gnss"
              THEN IF out THEN [freeRun(d) EXCEPT !.inSpec = FALSE] ELSE d
              ELSE [d EXCEPT !.inSpec = @ /\ ~out, !.state = HOLDOVER]
     IN  /\ d' = c
         /\ Move(i, IF conf.src = "gnss" /\ out THEN "return" ELSE "select")
         /\ sendDpllEvent(c)
  /\ UNCHANGED others

\* The timeout fires together with the last tick, or before it is taken.
timeLeft(h) == FALSE
timeout(h) == h.t + 1 >= LocalHoldoverTimeout
HoldoverTimeout(i) ==
  /\ At(i, "select") /\ timeout(hos[i])
  /\ Move(i, "return")
  /\ LET c == [freeRun(d) EXCEPT !.inSpec = FALSE] IN d' = c /\ sendDpllEvent(c)
  /\ UNCHANGED others

\* A goroutine that took the close, or finds the channel closed, declares the
\* DPLL in spec.
HoldoverClosed(i) ==
  /\ At(i, "closed") \/ (At(i, "select") /\ closeCh)
  /\ Move(i, "return")
  /\ d' = [d EXCEPT !.inSpec = TRUE]
  /\ UNCHANGED <<others, dpllEvents, told, missed>>

\* The deferred end, under the lock.
endsSilently(c) == UNCHANGED <<dpllEvents, told, missed>>
endsWith(c) == sendDpllEvent(c)
HoldoverReturns(i) ==
  /\ At(i, "return")
  /\ hos' = RemoveAt(hos, i)
  /\ d' = [d EXCEPT !.onHoldover = FALSE]
  /\ endsWith([d EXCEPT !.onHoldover = FALSE])
  /\ UNCHANGED others

HoldoverStep(i) ==
  \/ HoldoverBegins(i) \/ TickOffset(i) \/ TickState(i)
  \/ HoldoverTimeout(i) \/ HoldoverClosed(i) \/ HoldoverReturns(i)

-----------------------------------------------------------------------------
DPLLInit ==
  /\ conf \in [src : Sources, flags : FlagSets]
  /\ d = NewDpll /\ hos = <<>> /\ closeCh = FALSE
  /\ monitor = "off" /\ receiver = [on |-> FALSE, msg |-> NoMsg]
  /\ dpllEvents = 0 /\ missed = FALSE /\ starts = 0
  /\ told = Event(NewDpll)

DPLLNext ==
  \/ ClockTakes \/ Start \/ run \/ Stop \/ Apply \/ ReceiverEnds \/ Leave \/ Left
  \/ \E m \in Messages : SyncInitialState(m) \/ Receive(m)
  \/ \E m \in Messages, ok \in BOOLEAN : Dial(m, ok)
  \/ \E i \in DOMAIN hos : HoldoverStep(i)

\* Goroutines are scheduled, and the clock keeps taking events.
DPLLFairness ==
  /\ WF_dpllVars(ClockTakes) /\ WF_dpllVars(Apply)
  /\ \A i \in 1..2 : WF_dpllVars(HoldoverStep(i))

DPLLSpec == DPLLInit /\ [][DPLLNext]_dpllVars /\ DPLLFairness

-----------------------------------------------------------------------------
(* Properties.                                                             *)

\* However holdovers are started, closed and left behind by a stop, one
\* goroutine at most is writing the state of the DPLL, and while it runs on a
\* started DPLL the DPLL knows it is in holdover (onHoldover is what keeps
\* stateDecision from starting another).
OneHoldover ==
  /\ Len(hos) <= 1
  /\ d.onHoldover => hos # <<>>

\* When no holdover goroutine is active and the last event did not meet a full
\* channel, it told the clock the present state, whether it is in spec and
\* whether the source is lost (sendDpllEvent ends every change).
ReportCurrent ==
  hos = <<>> /\ ~missed => told = Event(d)

\* A holdover does not last: its timeout fires, whatever the hardware does.
HoldoverEnds == (hos # <<>>) ~> (hos = <<>>)
=============================================================================
