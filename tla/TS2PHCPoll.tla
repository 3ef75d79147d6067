----------------------------- MODULE TS2PHCPoll -----------------------------
(***************************************************************************)
(* What the daemon makes of the log of ts2phc (pkg/daemon/ts2phc.go): the  *)
(* time stamps of one PPS edge are collected in a poll cycle, an offset    *)
(* line consumes the stamp of its clock, and what is left over when the    *)
(* cycle ends is reported FREERUN.                                         *)
(*                                                                         *)
(* Environment: ts2phc stamps some of its clocks at each edge, in any      *)
(* order, and logs them in the second of the edge or in the next one; it   *)
(* logs offsets of clocks it stamped, poll timeouts and selections.        *)
(***************************************************************************)
EXTENDS Integers, Sequences, FiniteSets, SequencesExt, PTPState

CONSTANTS
  TSRoles,     \* roles the log gives a PHC: of sink, source, unmanaged
  TSIfaces,    \* configured interfaces, one for each PHC (phcToIface)
  TSPhc,       \* the PHC of each
  TSDevices,   \* PHCs the log speaks of, configured or not
  MaxSecond    \* bound: log seconds

ASSUME TSAssumption ==
  /\ TSPhc \in [TSIfaces -> TSDevices]
  /\ \A i, j \in TSIfaces : TSPhc[i] = TSPhc[j] => i = j
  /\ MaxSecond \in Nat

VARIABLES
  cycle,         \* currentPollCycle
  pollTimeouts,  \* pollTimeoutCount > 0 (TS2phcHasTimeouts)
  timeoutGroup,
  roles,         \* role of each configured PHC
  tsState,       \* clock_state metric of each interface
  second,        \* second of the log
  edge,          \* the last PPS edge
  stamped,       \* PHCs that logged a time stamp of it
  watch,         \* history: the PHC and interface this behaviour is watched for
  polled,        \* history: the interface was polled at this edge
  vouched,       \* history: and since the edges of the last two stamps of the PHC
  quiet          \* history: seconds of the timeouts since the last stamp or offset

tsVars == <<cycle, pollTimeouts, timeoutGroup, roles, tsState, second, edge, stamped,
            watch, polled, vouched, quiet>>

Configured == {TSPhc[i] : i \in TSIfaces}
IfaceOf(device) == CHOOSE i \in TSIfaces : TSPhc[i] = device   \* phcToIface
Vouched == [older |-> TRUE, newer |-> TRUE]
NoCycle == [group |-> 0, last |-> 0, tstamps |-> <<>>, counted |-> FALSE]

-----------------------------------------------------------------------------
(* A poll cycle.                                                           *)

tstamp(device) ==
  LET role == IF device \in Configured THEN roles[device] ELSE "unmanaged"
  IN  [device |-> device, edge |-> edge, role |-> role, handled |-> role # "sink"]

\* A second stamp of a PHC is the next edge, and so is one after a gap.
shouldContain(c, ts, group) ==
  /\ \A k \in DOMAIN c.tstamps : c.tstamps[k].device = ts.device => c.tstamps[k].edge = ts.edge
  /\ c.tstamps = <<>> \/ group - c.last <= 1

Recorded(c) == {c.tstamps[k].device : k \in DOMAIN c.tstamps}
Sinks == {i \in TSIfaces : roles[TSPhc[i]] = "sink"}

allSinksHandled(c) ==
  \A i \in Sinks : \E k \in DOMAIN c.tstamps :
    c.tstamps[k].device = TSPhc[i] /\ c.tstamps[k].handled

\* The interfaces reported FREERUN: those of unhandled stamps, and those of
\* sinks the cycle has no stamp of.
unhandledMetrics(c) ==
  {IfaceOf(c.tstamps[k].device) :
     k \in {k \in DOMAIN c.tstamps : ~c.tstamps[k].handled /\ c.tstamps[k].role = "sink"}}
missingUnlessStamped(c) == IF c.tstamps = <<>> THEN Sinks ELSE {}
missingMetrics(c) == {i \in Sinks : TSPhc[i] \notin Recorded(c)}

\* Reported stamps are handled.
AllReported(c) ==
  [c EXCEPT !.tstamps = [k \in DOMAIN @ |->
     IF @[k].role = "sink" THEN [@[k] EXCEPT !.handled = TRUE] ELSE @[k]]]

\* The stamps of a PHC take its new role; one once skipped stays handled.
Selected(c, device, role) ==
  LET ts == c.tstamps
  IN  [c EXCEPT !.tstamps = [k \in DOMAIN ts |->
         IF ts[k].device # device THEN ts[k]
         ELSE [ts[k] EXCEPT !.role = role, !.handled = ts[k].handled \/ role # "sink"]]]

Report(ifaces) == tsState' = [i \in TSIfaces |-> IF i \in ifaces THEN FREERUN ELSE tsState[i]]

-----------------------------------------------------------------------------
(* The lines of the log.                                                   *)

\* "adding tstamp".
handleAddedTstamp(device) ==
  LET ts == tstamp(device)
      first == [group |-> second, last |-> second, tstamps |-> <<ts>>, counted |-> FALSE]
  IN  /\ device \notin stamped /\ second \in {edge, edge + 1}
      /\ stamped' = stamped \cup {device}
      /\ IF cycle # NoCycle /\ shouldContain(cycle, ts, second)
         THEN /\ cycle' = [cycle EXCEPT !.tstamps = Append(@, ts), !.last = second]
              /\ UNCHANGED tsState
         ELSE /\ cycle' = first
              /\ Report(IF cycle = NoCycle THEN {}
                        ELSE unhandledMetrics(cycle) \cup missingMetrics(cycle))
      /\ vouched' = IF device = watch.phc
                    THEN [older |-> vouched.newer, newer |-> polled] ELSE vouched
      /\ quiet' = {}
      /\ UNCHANGED <<pollTimeouts, timeoutGroup, roles, second, edge, polled, watch>>

\* An offset line of a locked servo: its metric first, then handleSuccessfulPollFor.
handleSuccessfulPollFor(i) ==
  LET k == SelectInSeq(cycle.tstamps, LAMBDA ts : ts.device = TSPhc[i])
  IN  /\ TSPhc[i] \in stamped /\ i \in Sinks
      /\ tsState' = [tsState EXCEPT ![i] = LOCKED]
      /\ pollTimeouts' = FALSE
      /\ cycle' = IF k = 0 THEN cycle ELSE [cycle EXCEPT !.tstamps[k].handled = TRUE]
      /\ polled' = (polled \/ i = watch.iface)
      /\ vouched' = IF i = watch.iface THEN Vouched ELSE vouched
      /\ quiet' = {}
      /\ UNCHANGED <<timeoutGroup, roles, second, edge, stamped, watch>>

\* Whether a timeout in a second ends the cycle and starts an empty one.
closesHandled(c, group) ==
  /\ group # c.group
  /\ c.tstamps = <<>> \/ (group > c.last /\ allSinksHandled(c))
closes(c, group) ==
  /\ group # c.group
  /\ \/ c.tstamps = <<>>
     \/ group > c.last /\ ((c.counted /\ timeoutGroup # group) \/ allSinksHandled(c))

\* "poll returns zero".
handlePollTimeout ==
  /\ IF cycle = NoCycle THEN UNCHANGED <<cycle, pollTimeouts, timeoutGroup, tsState>>
     ELSE LET closing == closes(cycle, second)
              counted == IF closing THEN TRUE ELSE cycle.counted
              counts  == ~counted \/ timeoutGroup # second
          IN  /\ Report(unhandledMetrics(cycle) \cup (IF closing THEN Sinks ELSE {}))
              /\ cycle' = IF closing THEN [NoCycle EXCEPT !.group = second, !.counted = TRUE]
                          ELSE [AllReported(cycle) EXCEPT !.counted = @ \/ counts]
              /\ pollTimeouts' = (pollTimeouts \/ counts)
              /\ timeoutGroup' = IF counts THEN second ELSE timeoutGroup
  /\ quiet' = IF cycle = NoCycle THEN {} ELSE quiet \cup {second}
  /\ UNCHANGED <<roles, second, edge, stamped, polled, vouched, watch>>

\* "selecting", "unselecting", "selecting as the reference clock".
handlePHCSelection(device, role) ==
  /\ IF device \notin Configured THEN UNCHANGED <<roles, cycle>>
     ELSE /\ roles' = [roles EXCEPT ![device] = role]
          /\ cycle' = Selected(cycle, device, role)
  /\ vouched' = Vouched /\ quiet' = {}
  /\ UNCHANGED <<pollTimeouts, timeoutGroup, tsState, second, edge, stamped, polled, watch>>

\* The process is started again.
resetPollCycle ==
  /\ cycle' = NoCycle /\ pollTimeouts' = FALSE /\ timeoutGroup' = 0
  /\ roles' = [d \in Configured |-> "sink"]
  /\ vouched' = Vouched /\ quiet' = {}
  /\ UNCHANGED <<tsState, second, edge, stamped, polled, watch>>

-----------------------------------------------------------------------------
(* Time.                                                                   *)

NextEdge ==
  /\ edge < MaxSecond
  /\ edge' = edge + 1 /\ stamped' = {} /\ polled' = FALSE
  /\ second' = IF second < edge + 1 THEN edge + 1 ELSE second
  /\ UNCHANGED <<cycle, pollTimeouts, timeoutGroup, roles, tsState, vouched, quiet, watch>>
NextSecond ==
  /\ second < MaxSecond
  /\ second' = second + 1
  /\ UNCHANGED <<cycle, pollTimeouts, timeoutGroup, roles, tsState, edge, stamped, polled,
                 vouched, quiet, watch>>

TSInit ==
  /\ cycle = NoCycle /\ pollTimeouts = FALSE /\ timeoutGroup = 0
  /\ roles = [d \in Configured |-> "sink"]
  /\ tsState = [i \in TSIfaces |-> NOTSET]
  /\ second = 1 /\ edge = 1 /\ stamped = {}
  /\ polled = FALSE /\ watch \in [phc : TSDevices, iface : TSIfaces]
  /\ vouched = Vouched /\ quiet = {}

TSNext ==
  \/ \E d \in TSDevices : handleAddedTstamp(d)
  \/ \E i \in TSIfaces : handleSuccessfulPollFor(i)
  \/ handlePollTimeout
  \/ \E d \in TSDevices, r \in TSRoles : handlePHCSelection(d, r)
  \/ resetPollCycle
  \/ NextEdge \/ NextSecond

TSSpec == TSInit /\ [][TSNext]_tsVars

-----------------------------------------------------------------------------
(* Properties.                                                             *)

\* A sink that fails while another clock goes on is noticed: when a PHC is
\* stamped for the third time, no sink that was not polled since the edge of
\* the first stamp is still shown LOCKED, however stamps of two edges were
\* mixed in a cycle, whatever timeouts came between and whichever second the
\* lines were logged in.  (Two stamps are not enough: a cycle may begin with a
\* stamp of the edge before.)
MissedSinkReported ==
  [][watch.phc \in stamped' \ stamped /\ watch.iface \in Sinks /\ ~vouched.older =>
       tsState'[watch.iface] # LOCKED]_tsVars

\* The loss of all PPS is noticed: timeouts in two seconds without a stamp
\* or an offset between them leave no sink LOCKED.
SilenceReported ==
  Cardinality(quiet) >= 2 => \A i \in Sinks : tsState[i] # LOCKED
=============================================================================
