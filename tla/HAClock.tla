------------------------------ MODULE HAClock -------------------------------
(***************************************************************************)
(* A high availability clock (pkg/clock/ha.go) over the OS clock it shares *)
(* with its members (pkg/clock/osclock.go, pkg/utils/hysteresis.go).  A    *)
(* member is a boundary clock, which ClockManager.tla models; here an      *)
(* event for it is known by the state it leaves the member in.             *)
(***************************************************************************)
EXTENDS Integers, PTPState

CONSTANTS
  HAMembers,                            \* config names of the members
  HAForeign,                            \* a config and interface of no member
  OSOffsets,                            \* offsets of phc2sys samples
  OSInSync, OSOutOfSync, OSSamples,     \* settings of the filter
  MaxCount                              \* bound: samples the filter counts in a row

ASSUME HAAssumption ==
  /\ HAForeign \notin HAMembers /\ "ha" \notin HAMembers /\ OSOffsets \subseteq Nat
  /\ OSInSync \in Nat /\ OSOutOfSync \in Nat /\ OSSamples \in Nat /\ MaxCount \in Nat

VARIABLES
  members,    \* state and own overall state of each member
  ha,         \* syncState, overallSyncState, activeCfg
  os,         \* OsClock
  haSync      \* the sync_state each config name has published, if any

haVars == <<members, ha, os, haSync>>

None == "none"

-----------------------------------------------------------------------------
(* The hysteresis filter.                                                  *)

maxOf1(n) == IF n < 1 THEN 1 ELSE n
FreshFilter == [last |-> "unknown", in |-> 0, out |-> 0]

counted(f, offset) ==
  IF offset <= OSInSync THEN [f EXCEPT !.out = 0, !.in = @ + 1]
  ELSE IF offset > OSOutOfSync THEN [f EXCEPT !.in = 0, !.out = @ + 1]
  ELSE [f EXCEPT !.in = 0, !.out = 0]
Update(f, offset) ==
  LET g == counted(f, offset)
  IN  [g EXCEPT !.last = IF g.in >= maxOf1(OSSamples) THEN "low"
                         ELSE IF g.out >= maxOf1(OSSamples) THEN "high" ELSE @]

-----------------------------------------------------------------------------
(* The OS clock.                                                           *)

\* settled is what conditions waiting for phc2sys see: NOTSET while the filter
\* has not decided.
NewOs == [state |-> FREERUN, filter |-> FreshFilter, filtered |-> NOTSET,
          configured |-> FALSE, settled |-> NOTSET]

\* A holdover of phc2sys is believed at once and starts the filter afresh.
afterHoldover(o) ==
  [o EXCEPT !.filter = IF o.filtered # HOLDOVER THEN FreshFilter ELSE @, !.filtered = HOLDOVER]
afterSample(o, offset) ==
  LET f == Update(o.filter, offset)
  IN  [o EXCEPT !.filter = f,
                !.filtered = CASE f.last = "low" -> LOCKED [] f.last = "high" -> FREERUN
                               [] OTHER -> NOTSET]
osUpdateState(o, raw, offset) ==
  IF raw = HOLDOVER THEN afterHoldover(o) ELSE afterSample(o, offset)

\* AddEvent: chronyd is not filtered, nor is phc2sys before a profile has
\* configured the filter; a state the filter has not settled leaves the OS
\* clock's own state alone.
osAddEvent(o, src, raw, offset) ==
  LET p == IF src = "phc2sys" /\ o.configured THEN osUpdateState(o, raw, offset) ELSE o
      s == IF src = "phc2sys" /\ o.configured THEN p.filtered ELSE raw
  IN  [p EXCEPT !.settled = IF src = "phc2sys" THEN s ELSE @,
                !.state = IF s = NOTSET THEN @ ELSE s]

-----------------------------------------------------------------------------
(* The composite clock.                                                    *)

bestMemberState(ms) == bestOfState({ms[c].state : c \in HAMembers})

\* Members publish through the HA clock, which keeps their sync_state back:
\* what their config names have published stays what it was.
passAll(was, new) == new
interceptMemberIPC(was, new) == was

\* emitOverallSyncStateIfChanged, for the HA clock under its own name and for
\* a member under the member's.
emitOverall(was, old, new) == IF old = new THEN was ELSE PtpStateToIPCState(new)
memberEmits(was, old, new) ==
  IF old = new THEN was ELSE interceptMemberIPC(was, PtpStateToIPCState(new))

\* The event of member cfg (HAClock.AddEvent): the member first, then the
\* composite state and the overall one.
HAAddEvent(cfg, s) ==
  LET over == WorstOfState(s, os.state)
      ms == [members EXCEPT ![cfg] = [state |-> s, overall |-> over]]
      best == bestMemberState(ms)
      all == WorstOfState(best, os.state)
  IN  /\ members' = ms
      /\ ha' = [ha EXCEPT !.state = best, !.overall = all]
      /\ haSync' = [haSync EXCEPT ![cfg] = memberEmits(@, members[cfg].overall, over),
                                  !["ha"] = emitOverall(@, ha.overall, all)]
      /\ UNCHANGED os

\* phc2sys has selected a source; an interface of no member changes nothing.
setActiveByIface(cfg) ==
  /\ ha' = [ha EXCEPT !.active = IF cfg \in HAMembers THEN cfg ELSE @]
  /\ UNCHANGED <<members, os, haSync>>
activeMember == ha.active
haProfileStatus == [c \in HAMembers |-> c = activeMember]

\* A sample of phc2sys or chronyd: the OS clock, then SystemClockUpdate of the
\* HA clock, which passes it on to the members.
OSSample(src, raw, offset) ==
  LET o == osAddEvent(os, src, raw, offset)
      all == WorstOfState(ha.state, o.state)
      over(c) == WorstOfState(members[c].state, o.state)
  IN  /\ os' = o
      /\ ha' = [ha EXCEPT !.overall = all]
      /\ members' = [c \in HAMembers |-> [members[c] EXCEPT !.overall = over(c)]]
      /\ haSync' = [c \in DOMAIN haSync |->
                     IF c = "ha" THEN emitOverall(haSync[c], ha.overall, all)
                     ELSE memberEmits(haSync[c], members[c].overall, over(c))]

\* Settings of a profile reach the filter.
ConfigureFilter ==
  /\ os' = [os EXCEPT !.filter = FreshFilter, !.filtered = NOTSET, !.configured = TRUE]
  /\ UNCHANGED <<members, ha, haSync>>

\* The manager forgets what was published and resets the clock, the members
\* and the OS clock with it.
HAReset ==
  /\ members' = [c \in HAMembers |-> [state |-> FREERUN, overall |-> FREERUN]]
  /\ ha' = [state |-> FREERUN, overall |-> FREERUN, active |-> None]
  /\ os' = [NewOs EXCEPT !.configured = os.configured]
  /\ haSync' = [c \in DOMAIN haSync |-> None]

HAInit ==
  /\ members = [c \in HAMembers |-> [state |-> NOTSET, overall |-> NOTSET]]
  /\ ha = [state |-> NOTSET, overall |-> NOTSET, active |-> None]
  /\ os = NewOs
  /\ haSync = [c \in HAMembers \cup {"ha"} |-> None]

HANext ==
  \/ \E c \in HAMembers, s \in {LOCKED, HOLDOVER, FREERUN} : HAAddEvent(c, s)
  \/ \E c \in HAMembers \cup {HAForeign} : setActiveByIface(c)
  \/ \E raw \in {LOCKED, HOLDOVER, FREERUN}, o \in OSOffsets :
       /\ raw = HOLDOVER \/ os.filter.in + os.filter.out < MaxCount
       /\ OSSample("phc2sys", raw, o)
  \/ \E raw \in {LOCKED, FREERUN} : OSSample("chronyd", raw, 0)
  \/ ConfigureFilter
  \/ HAReset

HASpec == HAInit /\ [][HANext]_haVars

-----------------------------------------------------------------------------
(* Properties.                                                             *)

\* "overall = worstOf(bestOf(members...), osClock)", published once, under the
\* HA profile: the state of the node the outside knows is LOCKED exactly when
\* some member and the OS clock are, whatever the other members report, and no
\* member publishes a competing one.
NodeSyncState ==
  /\ \A c \in HAMembers : haSync[c] = None
  /\ haSync["ha"] # None =>
       ((haSync["ha"] = LOCKED) <=>
          (os.state = LOCKED /\ \E c \in HAMembers : members[c].state = LOCKED))
=============================================================================
