--------------------------- MODULE TBCClockProofs ---------------------------
(***************************************************************************)
(* Proofs about TBCClock, for any ports, DPLLs, thresholds and parent      *)
(* data sets: a clock with controlled ports implements the machine of      *)
(* SyncFSM, and what its controlled ports announce of the upstream clock   *)
(* is never older than the last request for it.  For a single upstream     *)
(* port: its loss is seen by the clock once the detector's events arrived. *)
(*                                                                         *)
(* What the sources say (tbcData) needs no type: the conditions of the     *)
(* state machine may hold or not in every step.                            *)
(*                                                                         *)
(* The second half is about DPLLMonitor, the source whose lock status the  *)
(* clock follows, for every set of flags, every bound on offsets and       *)
(* holdovers, every capacity of the event channel and any number of        *)
(* starts.                                                                 *)
(***************************************************************************)
EXTENDS TBCClock, DPLLMonitor, SequenceLemmas, SequenceTheorems

Classes == UpClasses \cup {NoClassYet}
SyncStates ==
  [state : {NOTSET, FREERUN, LOCKED, HOLDOVER}, class : Classes \cup {135, 165, 248, ClassSlaveOnly}]
LeadingClocks ==
  [up : Classes, down : Classes, leading : {"", Leading}, cports : {"", Controlled},
   clockID : BOOLEAN, thresholds : BOOLEAN, holdoverDisabled : BOOLEAN,
   lastInSpec : BOOLEAN, low : BOOLEAN, inSync : Nat]
Fetches ==
  {f \in [current : BOOLEAN, read : Classes, early : BOOLEAN] : f.current => ~f.early}

\* Once the clock knows who it is it knows its controlled ports.
Named(l) == l.clockID => l.cports = Controlled

\* What the class of a free-running clock, or of one in holdover, says.
ClassOfState(s, l) ==
  /\ s.state = FREERUN => s.class = 248
  /\ s.state = HOLDOVER => s.class = IF l.lastInSpec THEN 135 ELSE 165

\* The type of the clock's own state.
TBCTypeOK ==
  /\ tbc \in SyncStates
  /\ lc \in LeadingClocks
FetchesOK == fetches \in Seq(Fetches)

\* What makes ImplementsFSM inductive, with FetchesOK.
FSMInv == TBCTypeOK /\ Named(lc) /\ ClassOfState(tbc, lc)

\* What makes NoStaleUpstream inductive: no read of the current request is
\* older than it.
StaleInv == FetchesOK /\ NoStaleUpstream

\* A step of SyncFSM from s to t, or none.
Moves(s, t) ==
  \/ t.state = s.state /\ t.class = s.class
  \/ s.state \in {NOTSET, FREERUN, HOLDOVER} /\ t.state = LOCKED /\ t.class = s.class
  \/ s.state = LOCKED /\ t.state = LOCKED /\ t.class \in Classes
  \/ s.state = LOCKED /\ t.state = HOLDOVER /\ t.class = 135
  \/ s.state = HOLDOVER /\ t.state = HOLDOVER /\ t.class = 165
  \/ s.state \in {NOTSET, LOCKED, HOLDOVER} /\ t.state = FREERUN /\ t.class = 248
  \/ t.state = NOTSET /\ t.class = NoClassYet

-----------------------------------------------------------------------------
(* The state machine.                                                      *)

\* Asking for the in-sync condition feeds the filter and changes nothing else.
LEMMA AskFacts ==
  ASSUME NEW l \in LeadingClocks, NEW data
  PROVE  LET m == askInSync(data, l) IN
         m \in LeadingClocks /\ m.up = l.up /\ m.cports = l.cports
           /\ m.clockID = l.clockID /\ m.lastInSpec = l.lastInSpec
<1>1. CASE ~l.thresholds
  BY <1>1 DEF askInSync
<1>2. CASE l.thresholds /\ getLargestOffset(data, l) > InSyncThreshold
  BY <1>2 DEF askInSync, LeadingClocks
<1>3. CASE l.thresholds /\ ~(getLargestOffset(data, l) > InSyncThreshold)
  <2> DEFINE n == IF l.inSync < InSyncTimes THEN l.inSync + 1 ELSE l.inSync
             b == l.low \/ l.inSync + 1 >= InSyncTimes
  <2>0. l.inSync \in Nat
    BY DEF LeadingClocks
  <2>1. n \in Nat
    BY <2>0
  <2>2. b \in BOOLEAN
    OBVIOUS
  <2>3. askInSync(data, l) = [l EXCEPT !.inSync = n, !.low = b]
    BY <1>3 DEF askInSync
  <2> HIDE DEF n, b
  <2> QED BY <2>1, <2>2, <2>3 DEF LeadingClocks
<1> QED BY <1>1, <1>2, <1>3

\* What a result of the state machine may be.
Good(s, l, r) ==
  /\ r.s \in SyncStates /\ r.l \in LeadingClocks
  /\ r.l.cports = l.cports /\ r.l.clockID = l.clockID
  /\ ClassOfState(r.s, r.l) /\ Moves(s, r.s)

LEMMA FreedFacts ==
  ASSUME NEW s \in SyncStates, NEW l \in LeadingClocks, ClassOfState(s, l), NEW down
  PROVE  Good(s, l, Outcome(Freed(s), l, down))
<1>1. Freed(s) \in SyncStates /\ Freed(s).state = FREERUN /\ Freed(s).class = 248
  BY DEF Freed, SyncStates
<1>2. FREERUN # HOLDOVER
  BY DEF FREERUN, HOLDOVER
<1>3. Moves(s, Freed(s))
  BY <1>1 DEF Moves, ClassOfState, SyncStates
<1> QED BY <1>1, <1>2, <1>3 DEF Good, Outcome, ClassOfState

\* Locking keeps the class; being locked says nothing of it.
LEMMA LockedFacts ==
  ASSUME NEW s \in SyncStates, s.state # LOCKED, NEW l \in LeadingClocks,
         NEW m \in LeadingClocks, m.cports = l.cports, m.clockID = l.clockID, NEW down
  PROVE  Good(s, l, Outcome([s EXCEPT !.state = LOCKED], m, down))
<1> DEFINE t == [s EXCEPT !.state = LOCKED]
<1>1. t \in SyncStates /\ t.state = LOCKED /\ t.class = s.class
  BY DEF SyncStates
<1>2. LOCKED # FREERUN /\ LOCKED # HOLDOVER
  BY DEF LOCKED, FREERUN, HOLDOVER
<1>3. Moves(s, t)
  BY <1>1 DEF Moves, SyncStates
<1> QED BY <1>1, <1>2, <1>3 DEF Good, Outcome, ClassOfState

\* Staying in the state with its class.
LEMMA StayFacts ==
  ASSUME NEW s \in SyncStates, NEW l \in LeadingClocks, ClassOfState(s, l),
         NEW m \in LeadingClocks, m.cports = l.cports, m.clockID = l.clockID,
         m.lastInSpec = l.lastInSpec, NEW down
  PROVE  Good(s, l, Outcome(s, m, down))
BY DEF Good, Outcome, ClassOfState, Moves

LEMMA FromFreerunFacts ==
  ASSUME NEW s \in SyncStates, s.state \in {NOTSET, FREERUN}, NEW l \in LeadingClocks,
         ClassOfState(s, l), NEW data
  PROVE  Good(s, l, fromFreerun(s, l, data))
<1> DEFINE m == askInSync(data, l)
<1>1. m \in LeadingClocks /\ m.cports = l.cports /\ m.clockID = l.clockID
        /\ m.lastInSpec = l.lastInSpec
  BY AskFacts
<1> HIDE DEF m
<1>2. LET n == [m EXCEPT !.lastInSpec = TRUE] IN
      n \in LeadingClocks /\ n.cports = l.cports /\ n.clockID = l.clockID
  BY <1>1 DEF LeadingClocks
<1>3. s.state # LOCKED
  BY DEF NOTSET, FREERUN, LOCKED
<1>4. Good(s, l, Outcome(s, l, FALSE)) /\ Good(s, l, Outcome(s, m, FALSE))
  BY <1>1, StayFacts
<1>5. Good(s, l, Outcome([s EXCEPT !.state = LOCKED], [m EXCEPT !.lastInSpec = TRUE], TRUE))
  BY <1>2, <1>3, LockedFacts
<1> QED BY <1>4, <1>5 DEF fromFreerun, m

LEMMA FromLockedFacts ==
  ASSUME NEW s \in SyncStates, s.state = LOCKED, NEW l \in LeadingClocks,
         ClassOfState(s, l), ~isTTSC(l), NEW data
  PROVE  Good(s, l, fromLocked(s, l, data))
<1>1. Good(s, l, Outcome(Freed(s), l, TRUE))
  BY FreedFacts
<1>0. LOCKED # FREERUN /\ LOCKED # HOLDOVER /\ FREERUN # HOLDOVER
  BY DEF LOCKED, FREERUN, HOLDOVER
<1>2. Good(s, l, lockedStays(s, l))
  <2> DEFINE t == IF l.up = 248 \/ isTTSC(l) THEN s ELSE [s EXCEPT !.class = l.up]
             m == [l EXCEPT !.down = l.up]
  <2>1. m \in LeadingClocks /\ m.cports = l.cports /\ m.clockID = l.clockID
    BY DEF LeadingClocks
  <2>2. t \in SyncStates /\ t.state = LOCKED
    BY DEF LeadingClocks, SyncStates
  <2>3. t.class = s.class \/ t.class \in Classes
    BY DEF LeadingClocks, SyncStates
  <2>4. Moves(s, t)
    BY <2>2, <2>3 DEF Moves
  <2>5. ClassOfState(t, m)
    BY <2>2, <1>0 DEF ClassOfState
  <2>6. lockedStays(s, l).s = t /\ lockedStays(s, l).l = m
    BY DEF lockedStays, Outcome
  <2> QED BY <2>1, <2>2, <2>4, <2>5, <2>6 DEF Good
<1>3. Good(s, l, Outcome([s EXCEPT !.state = HOLDOVER, !.class = 135],
                         [l EXCEPT !.lastInSpec = TRUE], TRUE))
  <2> DEFINE t == [s EXCEPT !.state = HOLDOVER, !.class = 135]
             m == [l EXCEPT !.lastInSpec = TRUE]
  <2>1. m \in LeadingClocks /\ m.cports = l.cports /\ m.clockID = l.clockID /\ m.lastInSpec
    BY DEF LeadingClocks
  <2>2. t \in SyncStates /\ t.state = HOLDOVER /\ t.class = 135
    BY DEF SyncStates
  <2> HIDE DEF t, m
  <2>3. Moves(s, t)
    BY <2>2 DEF Moves
  <2>4. ClassOfState(t, m)
    BY <2>1, <2>2, <1>0 DEF ClassOfState
  <2>5. \A down : Good(s, l, Outcome(t, m, down))
    BY <2>1, <2>2, <2>3, <2>4 DEF Good, Outcome
  <2> QED BY <2>5 DEF t, m
<1> QED BY <1>1, <1>2, <1>3 DEF fromLocked

LEMMA FromHoldoverFacts ==
  ASSUME NEW s \in SyncStates, s.state = HOLDOVER, NEW l \in LeadingClocks,
         ClassOfState(s, l), NEW data
  PROVE  Good(s, l, fromHoldover(s, l, data))
<1> DEFINE m == askInSync(data, l)
           inSpec == l.lastInSpec /\ inSpecCondition(data, l)
<1>0. LOCKED # FREERUN /\ LOCKED # HOLDOVER /\ FREERUN # HOLDOVER
  BY DEF LOCKED, FREERUN, HOLDOVER
<1>1. m \in LeadingClocks /\ m.cports = l.cports /\ m.clockID = l.clockID
        /\ m.lastInSpec = l.lastInSpec
  BY AskFacts
<1> HIDE DEF m
<1>2. Good(s, l, Outcome(Freed(s), l, TRUE))
  BY FreedFacts
<1>3. Good(s, l, Outcome([s EXCEPT !.state = LOCKED], m, TRUE))
  BY <1>0, <1>1, LockedFacts
<1>4. Good(s, l, Outcome(s, m, FALSE))
  BY <1>1, StayFacts
<1>5. Good(s, l, Outcome([s EXCEPT !.class = 165], [m EXCEPT !.lastInSpec = FALSE], s.class # 165))
  <2> DEFINE t == [s EXCEPT !.class = 165]
             n == [m EXCEPT !.lastInSpec = FALSE]
  <2>1. n \in LeadingClocks /\ n.cports = l.cports /\ n.clockID = l.clockID /\ ~n.lastInSpec
    BY <1>1 DEF LeadingClocks
  <2>2. t \in SyncStates /\ t.state = HOLDOVER /\ t.class = 165
    BY DEF SyncStates
  <2> HIDE DEF t, n
  <2>3. Moves(s, t)
    BY <2>2 DEF Moves
  <2>4. ClassOfState(t, n)
    BY <2>1, <2>2, <1>0 DEF ClassOfState
  <2>5. \A down : Good(s, l, Outcome(t, n, down))
    BY <2>1, <2>2, <2>3, <2>4 DEF Good, Outcome
  <2> QED BY <2>5 DEF t, n
<1> QED BY <1>2, <1>3, <1>4, <1>5 DEF fromHoldover, m

LEMMA MachineFacts ==
  ASSUME NEW s \in SyncStates, NEW l \in LeadingClocks, ClassOfState(s, l), ~isTTSC(l), NEW data
  PROVE  Good(s, l, stateMachine(s, l, data))
<1>0. NOTSET # LOCKED /\ FREERUN # LOCKED /\ HOLDOVER # LOCKED /\ NOTSET # HOLDOVER
        /\ FREERUN # HOLDOVER
  BY DEF LOCKED, FREERUN, HOLDOVER, NOTSET
<1>1. CASE s.state \in {NOTSET, FREERUN}
  <2>1. stateMachine(s, l, data) = fromFreerun(s, l, data)
    BY <1>0, <1>1 DEF stateMachine
  <2> QED BY <2>1, <1>1, FromFreerunFacts
<1>2. CASE s.state = LOCKED
  <2>1. stateMachine(s, l, data) = fromLocked(s, l, data)
    BY <1>0, <1>2 DEF stateMachine
  <2> QED BY <2>1, <1>2, FromLockedFacts
<1>3. CASE s.state = HOLDOVER
  <2>1. stateMachine(s, l, data) = fromHoldover(s, l, data)
    BY <1>0, <1>3 DEF stateMachine
  <2> QED BY <2>1, <1>3, FromHoldoverFacts
<1> QED BY <1>1, <1>2, <1>3 DEF SyncStates

\* One update of a clock that is not a T-TSC: with data, the machine decides
\* state and class.
LEMMA UpdateIsMachine ==
  ASSUME NEW s \in SyncStates, NEW l \in LeadingClocks, ClassOfState(s, l), ~isTTSC(l),
         NEW data, DOMAIN data # {}
  PROVE  LET r == stateMachine(s, l, data)
             u == tbcUpdateState(s, l, data)
         IN  u.s = r.s /\ u.l = r.l /\ u.down = (r.down /\ r.s.class # NoClassYet)
<1> DEFINE r == stateMachine(s, l, data)
<1>1. Good(s, l, r)
  BY MachineFacts
<1> HIDE DEF r
<1>2. [r.s EXCEPT !.class = r.s.class] = r.s
  BY <1>1 DEF Good, SyncStates
<1> QED BY <1>2 DEF tbcUpdateState, Outcome, r

LEMMA UpdateStateFacts ==
  ASSUME NEW s \in SyncStates, NEW l \in LeadingClocks, ClassOfState(s, l), ~isTTSC(l), NEW data
  PROVE  Good(s, l, tbcUpdateState(s, l, data))
<1>1. CASE DOMAIN data = {}
  BY <1>1, FreedFacts DEF tbcUpdateState
<1>2. CASE DOMAIN data # {}
  BY <1>2, MachineFacts, UpdateIsMachine DEF Good
<1> QED BY <1>1, <1>2

-----------------------------------------------------------------------------
(* The clock.                                                              *)

LEMMA SupersedeFacts ==
  ASSUME NEW fs \in Seq(Fetches)
  PROVE  supersede(fs) \in Seq(Fetches)
<1> DEFINE e(i) == [fs[i] EXCEPT !.current = FALSE, !.early = fs[i].read # NoClassYet]
<1>1. DOMAIN fs = 1..Len(fs) /\ Len(fs) \in Nat
  BY LenProperties
<1>2. \A i \in 1..Len(fs) : e(i) \in Fetches
  <2> SUFFICES ASSUME NEW i \in 1..Len(fs) PROVE e(i) \in Fetches
    OBVIOUS
  <2>1. fs[i] \in Fetches
    BY <1>1
  <2> QED BY <2>1 DEF Fetches
<1>3. supersede(fs) = [i \in 1..Len(fs) |-> e(i)]
  BY <1>1 DEF supersede
<1> HIDE DEF e
<1>4. [i \in 1..Len(fs) |-> e(i)] \in Seq(Fetches)
  BY <1>1, <1>2, IsASeq
<1> QED BY <1>3, <1>4

LEMMA NewFetchFacts == NewFetch \in Fetches
BY DEF NewFetch, Fetches, Classes

\* The clock is never a T-TSC when it has controlled ports.
LEMMA NotTTSC ==
  ASSUME Controlled # "", NEW l, Named(l)
  PROVE  ~isTTSC(l)
BY DEF Named, isTTSC

\* A source event or a parent data set: the state machine, and what the clock
\* does with its result.
LEMMA EvaluateFacts ==
  ASSUME Controlled # "", TBCTypeOK, NEW l \in LeadingClocks, Named(l), ClassOfState(tbc, l),
         NEW data, evaluateState(l, data)
  PROVE  FSMInv' /\ Moves(tbc, tbc')
<1> PICK r \in {tbcUpdateState(tbc, l, data)} :
      /\ tbc' = r.s /\ lc' = r.l
      /\ IF r.down THEN updateDownstreamData(r.s, r.l) ELSE UNCHANGED pmcVars
  BY DEF evaluateState
<1>1. Good(tbc, l, r)
  BY UpdateStateFacts, NotTTSC DEF TBCTypeOK
<1>3. tbc' \in SyncStates /\ lc' \in LeadingClocks
  BY <1>1 DEF Good
<1>4. ClassOfState(tbc', lc') /\ Moves(tbc, tbc')
  BY <1>1 DEF Good
<1>5. Named(lc')
  BY <1>1 DEF Good, Named
<1> QED BY <1>3, <1>4, <1>5 DEF FSMInv, TBCTypeOK, Named, ClassOfState

\* Every event changes the leading clock data before it is evaluated: neither
\* the class rule nor the names are lost.
LEMMA LeadingFacts ==
  ASSUME FSMInv
  PROVE  /\ lc \in LeadingClocks /\ Named(lc) /\ ClassOfState(tbc, lc)
         /\ withNames(lc) \in LeadingClocks /\ Named(withNames(lc)) /\ ClassOfState(tbc, withNames(lc))
         /\ \A c \in UpClasses : LET l == [lc EXCEPT !.up = c] IN
              l \in LeadingClocks /\ Named(l) /\ ClassOfState(tbc, l)
         /\ \A i : LET l == updateLeadingClockData(lc, [iface |-> i]) IN
              l \in LeadingClocks /\ Named(l) /\ ClassOfState(tbc, l)
<1>1. lc \in LeadingClocks /\ Named(lc) /\ ClassOfState(tbc, lc)
  BY DEF FSMInv, TBCTypeOK
<1> HIDE DEF FSMInv
<1>2. /\ withNames(lc) \in LeadingClocks /\ withNames(lc).cports = Controlled
      /\ withNames(lc).lastInSpec = lc.lastInSpec
  BY <1>1 DEF withNames, LeadingClocks
<1>3. ASSUME NEW c \in UpClasses
      PROVE  LET l == [lc EXCEPT !.up = c] IN
               l \in LeadingClocks /\ l.cports = lc.cports /\ l.clockID = lc.clockID
                 /\ l.lastInSpec = lc.lastInSpec
  BY <1>1 DEF LeadingClocks, Classes
<1>4. ASSUME NEW i
      PROVE  LET l == updateLeadingClockData(lc, [iface |-> i]) IN
               l \in LeadingClocks /\ l.cports = lc.cports /\ l.clockID = lc.clockID
                 /\ l.lastInSpec = lc.lastInSpec
  <2> DEFINE m == [lc EXCEPT !.thresholds = TRUE,
                             !.leading = IF i = Leading THEN Leading ELSE @]
             n == [m EXCEPT !.holdoverDisabled = HoldoverTimeout0]
  <2>1. /\ m \in LeadingClocks /\ m.cports = lc.cports /\ m.clockID = lc.clockID
        /\ m.lastInSpec = lc.lastInSpec
    BY <1>1 DEF LeadingClocks
  <2>2. updateLeadingClockData(lc, [iface |-> i]) \in {m, n}
    BY DEF updateLeadingClockData
  <2>3. HoldoverTimeout0 \in BOOLEAN
    BY TBCAssumption
  <2> HIDE DEF m
  <2>4. /\ n \in LeadingClocks /\ n.cports = lc.cports /\ n.clockID = lc.clockID
        /\ n.lastInSpec = lc.lastInSpec
    BY <2>1, <2>3 DEF LeadingClocks
  <2> HIDE DEF n
  <2> QED BY <2>1, <2>2, <2>4
<1> QED BY <1>1, <1>2, <1>3, <1>4 DEF Named, ClassOfState

LEMMA FSMInvInit == TBCInit => FSMInv
<1> SUFFICES ASSUME TBCInit PROVE FSMInv
  OBVIOUS
<1>1. tbc \in SyncStates /\ tbc.state = NOTSET
  BY DEF TBCInit, NewSync, SyncStates, Classes
<1>2. lc \in LeadingClocks /\ lc.clockID = FALSE
  BY DEF TBCInit, NewLeadingClockParams, LeadingClocks, Classes
<1>4. NOTSET # FREERUN /\ NOTSET # HOLDOVER
  BY DEF NOTSET, FREERUN, HOLDOVER
<1> QED BY <1>1, <1>2, <1>4 DEF FSMInv, TBCTypeOK, Named, ClassOfState

\* A step that leaves state and leading clock data alone.
LEMMA SameClock ==
  ASSUME FSMInv, UNCHANGED <<tbc, lc>>
  PROVE  FSMInv' /\ Moves(tbc, tbc')
BY DEF FSMInv, TBCTypeOK, Named, ClassOfState, Moves

LEMMA FSMInvNext ==
  ASSUME Controlled # "", FetchesOK, FSMInv, [TBCNext]_tbcVars
  PROVE  FSMInv' /\ Moves(tbc, tbc')
<1>t. TBCTypeOK
  BY DEF FSMInv
<1>1. ASSUME NEW p \in Range(TRPorts), SlaveLine(p) \/ LostLine(p) PROVE FSMInv' /\ Moves(tbc, tbc')
  BY <1>1, SameClock DEF SlaveLine, LostLine, rest
<1>2. ASSUME NEW o \in Ptp4lOffsets, NEW second \in BOOLEAN, OffsetLine(o, second)
      PROVE  FSMInv' /\ Moves(tbc, tbc')
  BY <1>2, SameClock DEF OffsetLine, rest
<1>3. CASE TBCAddPtp4l
  <2> PICK data : evaluateState(IF Head(trEvents).names THEN withNames(lc) ELSE lc, data)
    BY <1>3 DEF TBCAddPtp4l
  <2> QED BY <1>t, LeadingFacts, EvaluateFacts
<1>4. ASSUME NEW i, NEW s, NEW o, TBCAddDPLL(i, s, o) PROVE FSMInv' /\ Moves(tbc, tbc')
  <2> PICK data : evaluateState(updateLeadingClockData(lc, [iface |-> i]), data)
    BY <1>4 DEF TBCAddDPLL
  <2> QED BY <1>t, LeadingFacts, EvaluateFacts
<1>5. ASSUME NEW s \in TS2PHCStates, TBCAddTs2phc(s) PROVE FSMInv' /\ Moves(tbc, tbc')
  <2> PICK data : evaluateState(lc, data)
    BY <1>5 DEF TBCAddTs2phc
  <2> QED BY <1>t, LeadingFacts, EvaluateFacts
<1>6. ASSUME NEW c \in UpClasses, TBCAddParentDS(c) PROVE FSMInv' /\ Moves(tbc, tbc')
  <2>1. evaluateState([lc EXCEPT !.up = c], tbcData)
    BY <1>6 DEF TBCAddParentDS
  <2> QED BY <2>1, <1>t, LeadingFacts, EvaluateFacts
<1>7. ASSUME NEW i, NEW c \in UpClasses, FetchReads(i, c)
      PROVE  FSMInv' /\ Moves(tbc, tbc')
  BY <1>7, SameClock DEF FetchReads
<1>8. ASSUME NEW i, FetchFails(i) PROVE FSMInv' /\ Moves(tbc, tbc')
  BY <1>8, SameClock DEF FetchFails
<1>9. ASSUME NEW i, handleDownstreamAnnounceIWF(i) PROVE FSMInv' /\ Moves(tbc, tbc')
  <2>1. tbc' = tbc
    BY <1>9 DEF handleDownstreamAnnounceIWF
  <2>2. fetches[i] \in Fetches
    BY <1>9, LenProperties, ElementOfSeq DEF handleDownstreamAnnounceIWF, FetchesOK
  <2>3. CASE UNCHANGED lc
    BY <2>1, <2>3, SameClock
  <2>4. CASE lc' = [lc EXCEPT !.up = fetches[i].read, !.down = fetches[i].read]
    <3>1. /\ lc' \in LeadingClocks /\ lc'.cports = lc.cports /\ lc'.clockID = lc.clockID
          /\ lc'.lastInSpec = lc.lastInSpec
      BY <2>2, <2>4, <1>t DEF TBCTypeOK, LeadingClocks, Fetches
    <3>2. TBCTypeOK'
      BY <3>1, <2>1, <1>t DEF TBCTypeOK
    <3>3. Named(lc')
      BY <3>1 DEF FSMInv, Named
    <3>4. ClassOfState(tbc', lc')
      <4>1. ClassOfState(tbc, lc)
        BY DEF FSMInv
      <4>2. \A m : m.lastInSpec = lc.lastInSpec => ClassOfState(tbc, m)
        BY <4>1, Zenon DEF ClassOfState
      <4> QED BY <4>2, <3>1, <2>1
    <3>5. Moves(tbc, tbc')
      BY <2>1 DEF Moves
    <3> QED BY <3>2, <3>3, <3>4, <3>5 DEF FSMInv, Named, ClassOfState
  <2> QED BY <2>3, <2>4, <1>9 DEF handleDownstreamAnnounceIWF
<1>10. ASSUME NEW i, NEW ok, JobRuns(i, ok) PROVE FSMInv' /\ Moves(tbc, tbc')
  BY <1>10, SameClock DEF JobRuns
<1>11. ASSUME NEW src, NEW i, TBCAge(src, i) PROVE FSMInv' /\ Moves(tbc, tbc')
  BY <1>11, SameClock DEF TBCAge
<1>12. CASE TBCSystemClockUpdate(LOCKED)
  BY <1>12, SameClock DEF TBCSystemClockUpdate
<1>13. CASE TBCReset
  <2>1. tbc' \in SyncStates /\ tbc'.state = NOTSET /\ tbc'.class = NoClassYet
    BY <1>13 DEF TBCReset, NewSync, SyncStates, Classes
  <2>2. lc' \in LeadingClocks /\ lc'.clockID = FALSE
    BY <1>13 DEF TBCReset, NewLeadingClockParams, LeadingClocks, Classes
  <2>3. NOTSET # FREERUN /\ NOTSET # HOLDOVER
    BY DEF NOTSET, FREERUN, HOLDOVER
  <2> QED BY <2>1, <2>2, <2>3 DEF FSMInv, TBCTypeOK, Named, ClassOfState, Moves
<1>14. CASE UNCHANGED tbcVars
  BY <1>14, SameClock DEF tbcVars
<1> QED BY <1>1, <1>2, <1>3, <1>4, <1>5, <1>6, <1>7, <1>8, <1>9, <1>10, <1>11, <1>12, <1>13, <1>14
      DEF TBCNext

-----------------------------------------------------------------------------
(* The requests for upstream data.                                         *)

LEMMA StaleInvInit == TBCInit => StaleInv
<1> SUFFICES ASSUME TBCInit PROVE StaleInv
  OBVIOUS
<1>1. dport = [class |-> NoClassYet, early |-> FALSE]
  BY DEF TBCInit
<1> QED BY <1>1, EmptySeq DEF TBCInit, StaleInv, FetchesOK, NoStaleUpstream

LEMMA SamePMC ==
  ASSUME StaleInv, UNCHANGED <<fetches, dport>>
  PROVE  StaleInv'
BY DEF StaleInv, FetchesOK, NoStaleUpstream

\* A new request supersedes the others; every other result of the state
\* machine leaves them alone, and no announcement is made before its goroutine
\* runs.
LEMMA EvaluateKeepsStale ==
  ASSUME StaleInv, NEW l, NEW data, evaluateState(l, data)
  PROVE  StaleInv'
<1> PICK r \in {tbcUpdateState(tbc, l, data)} :
      IF r.down THEN updateDownstreamData(r.s, r.l) ELSE UNCHANGED pmcVars
  BY DEF evaluateState
<1>1. dport' = dport
  BY DEF updateDownstreamData, pmcVars
<1>2. fetches \in Seq(Fetches)
  BY DEF StaleInv, FetchesOK
<1>3. CASE fetches' = fetches
  BY <1>1, <1>3, SamePMC
<1>4. CASE fetches' = Append(supersede(fetches), NewFetch)
  <2>1. fetches' \in Seq(Fetches)
    BY <1>2, <1>4, SupersedeFacts, NewFetchFacts, AppendProperties
  <2> QED BY <2>1, <1>1 DEF StaleInv, FetchesOK, NoStaleUpstream
<1>5. fetches' = fetches \/ fetches' = Append(supersede(fetches), NewFetch)
  BY DEF updateDownstreamData, pmcVars
<1> QED BY <1>3, <1>4, <1>5

LEMMA StaleInvNext == StaleInv /\ [TBCNext]_tbcVars => StaleInv'
<1> SUFFICES ASSUME StaleInv, [TBCNext]_tbcVars PROVE StaleInv'
  OBVIOUS
<1>t. fetches \in Seq(Fetches) /\ ~dport.early
  BY DEF StaleInv, FetchesOK, NoStaleUpstream
<1>1. ASSUME NEW p \in Range(TRPorts), SlaveLine(p) \/ LostLine(p) PROVE StaleInv'
  BY <1>1, SamePMC DEF SlaveLine, LostLine, rest, pmcVars
<1>2. ASSUME NEW o \in Ptp4lOffsets, NEW second \in BOOLEAN, OffsetLine(o, second)
      PROVE  StaleInv'
  BY <1>2, SamePMC DEF OffsetLine, rest, pmcVars
<1>3. CASE TBCAddPtp4l
  BY <1>3, EvaluateKeepsStale DEF TBCAddPtp4l
<1>4. ASSUME NEW i, NEW s, NEW o, TBCAddDPLL(i, s, o) PROVE StaleInv'
  BY <1>4, EvaluateKeepsStale DEF TBCAddDPLL
<1>5. ASSUME NEW s \in TS2PHCStates, TBCAddTs2phc(s) PROVE StaleInv'
  BY <1>5, EvaluateKeepsStale DEF TBCAddTs2phc
<1>6. ASSUME NEW c \in UpClasses, TBCAddParentDS(c) PROVE StaleInv'
  BY <1>6, EvaluateKeepsStale DEF TBCAddParentDS
<1>7. ASSUME NEW i, NEW c \in UpClasses, FetchReads(i, c) PROVE StaleInv'
  <2>1. fetches[i] \in Fetches /\ i \in 1..Len(fetches)
    BY <1>7, <1>t, LenProperties, ElementOfSeq DEF FetchReads
  <2>2. [fetches[i] EXCEPT !.read = c] \in Fetches
    BY <2>1 DEF Fetches, Classes
  <2>3. fetches' = [fetches EXCEPT ![i] = [fetches[i] EXCEPT !.read = c]] /\ dport' = dport
    BY <1>7 DEF FetchReads
  <2>4. fetches' \in Seq(Fetches)
    BY <2>1, <2>2, <2>3, <1>t, ExceptSeq
  <2> QED BY <2>3, <2>4, <1>t DEF StaleInv, FetchesOK, NoStaleUpstream
<1>8. ASSUME NEW i, FetchFails(i) PROVE StaleInv'
  <2>1. fetches' \in Seq(Fetches)
    BY <1>8, <1>t, RemoveAtFacts DEF FetchFails
  <2> QED BY <2>1, <1>8, <1>t DEF FetchFails, StaleInv, FetchesOK, NoStaleUpstream
<1>9. ASSUME NEW i, handleDownstreamAnnounceIWF(i) PROVE StaleInv'
  <2>1. fetches' \in Seq(Fetches)
    BY <1>9, <1>t, RemoveAtFacts DEF handleDownstreamAnnounceIWF
  <2>2. fetches[i] \in Fetches
    BY <1>9, <1>t, LenProperties, ElementOfSeq DEF handleDownstreamAnnounceIWF
  <2>3. CASE dport' = dport
    BY <2>1, <2>3, <1>t DEF StaleInv, FetchesOK, NoStaleUpstream
  <2>4. CASE Applies(fetches[i]) /\ dport' = [class |-> fetches[i].read, early |-> fetches[i].early]
    <3>1. ~fetches[i].early
      BY <2>2, <2>4 DEF Applies, Fetches
    <3> QED BY <3>1, <2>1, <2>4 DEF StaleInv, FetchesOK, NoStaleUpstream
  <2> QED BY <2>3, <2>4, <1>9 DEF handleDownstreamAnnounceIWF
<1>10. ASSUME NEW i, NEW ok, JobRuns(i, ok) PROVE StaleInv'
  <2>1. fetches' = fetches
    BY <1>10 DEF JobRuns
  <2>2. dport' = dport \/ dport' = [class |-> jobs[i].class, early |-> FALSE]
    BY <1>10 DEF JobRuns
  <2> QED BY <2>1, <2>2, <1>t DEF StaleInv, FetchesOK, NoStaleUpstream
<1>11. ASSUME NEW src, NEW i, TBCAge(src, i) PROVE StaleInv'
  BY <1>11, SamePMC DEF TBCAge, pmcVars
<1>12. CASE TBCSystemClockUpdate(LOCKED)
  BY <1>12, SamePMC DEF TBCSystemClockUpdate, pmcVars
<1>13. CASE TBCReset
  <2>1. fetches' \in Seq(Fetches)
    BY <1>13, <1>t, SupersedeFacts DEF TBCReset
  <2> QED BY <2>1, <1>13, <1>t DEF TBCReset, StaleInv, FetchesOK, NoStaleUpstream
<1>14. CASE UNCHANGED tbcVars
  BY <1>14, SamePMC DEF tbcVars, pmcVars
<1> QED BY <1>1, <1>2, <1>3, <1>4, <1>5, <1>6, <1>7, <1>8, <1>9, <1>10, <1>11, <1>12, <1>13, <1>14
      DEF TBCNext

-----------------------------------------------------------------------------
(* The specification.                                                      *)

LEMMA StaleInvariant == TBCSpec => []StaleInv
<1> QED BY StaleInvInit, StaleInvNext, PTL DEF TBCSpec

\* What the controlled ports announce of the upstream clock was read after the
\* last request for it: a superseded fetch, or one that outlived a reset,
\* applies nothing (handleDownstreamAnnounceIWF), with or without controlled
\* ports.
THEOREM NoStaleUpstreamAlways == TBCSpec => []NoStaleUpstream
<1>1. StaleInv => NoStaleUpstream
  BY DEF StaleInv
<1> QED BY <1>1, StaleInvariant, PTL

\* The clock's own state keeps its type, a free-running clock class 248, and a
\* clock in holdover the class that says whether it is in spec (updateState).
THEOREM TBCInvariant ==
  ASSUME Controlled # ""
  PROVE  TBCSpec => []FSMInv
<1>1. TBCInit => FSMInv
  BY FSMInvInit
<1>2. FSMInv /\ StaleInv /\ [TBCNext]_tbcVars => FSMInv'
  BY FSMInvNext DEF StaleInv
<1> QED BY <1>1, <1>2, StaleInvariant, PTL DEF TBCSpec

\* A clock with controlled ports implements the machine of SyncFSM under the
\* mapping of TBCClock: every step of the clock is a step of the machine or
\* leaves state and class alone (updateState of tbc.go).
THEOREM TBCImplementsFSM ==
  ASSUME Controlled # ""
  PROVE  TBCSpec => ImplementsFSM
<1>1. TBCInit => FSM!FSMInit
  <2>0. TBCInit => tbc = NewSync
    BY DEF TBCInit
  <2>1. NewSync.state = NOTSET /\ NewSync.class = NoClassYet
    BY DEF NewSync
  <2>2. NOTSET = FSM!NOTSET
    BY DEF NOTSET, FSM!NOTSET
  <2> QED BY <2>0, <2>1, <2>2 DEF FSM!FSMInit
<1>2. FSMInv /\ StaleInv /\ [TBCNext]_tbcVars => [FSM!FSMNext]_FSM!fsmVars
  <2> SUFFICES ASSUME FSMInv, StaleInv, [TBCNext]_tbcVars PROVE [FSM!FSMNext]_FSM!fsmVars
    OBVIOUS
  <2>1. Moves(tbc, tbc')
    BY FSMInvNext DEF StaleInv
  <2> QED BY <2>1 DEF Moves, Classes, FSM!FSMNext, FSM!fsmVars, FSM!Lock, FSM!PassOn, FSM!HoldOver,
        FSM!OutOfSpec, FSM!FreeRun, FSM!Forget, FSM!LOCKED, FSM!HOLDOVER, FSM!FREERUN, FSM!NOTSET,
        LOCKED, HOLDOVER, FREERUN, NOTSET
<1> QED BY <1>1, <1>2, TBCInvariant, StaleInvariant, PTL DEF TBCSpec, ImplementsFSM, FSM!FSMSpec

-----------------------------------------------------------------------------
(* What the controlled ports announce of the clock itself.                 *)

\* A clock that has locked before enters FREERUN and HOLDOVER, and changes its
\* class there, only with word to the controlled ports; nothing but a reset
\* makes it NOTSET.
Told(s, r) ==
  /\ ~r.down /\ r.s.state \in {FREERUN, HOLDOVER} /\ s.state # NOTSET => r.s = s
  /\ r.s.state = NOTSET => ~r.down /\ s.state = NOTSET

\* What makes LocalClassAnnounced inductive: at most one announcement is on its
\* way, and either it or the ports themselves have the class of the clock; a
\* clock that was not reset announces nothing before it has locked, which takes
\* the event of a source.
Jobs == [target : {"", Controlled}, class : Classes \cup {135, 165, 248, ClassSlaveOnly}]
DataInv == DOMAIN tbcData = {} => tbc.state \in {NOTSET, FREERUN}
PortsInv ==
  /\ Len(jobs) <= 1
  /\ jobs # <<>> /\ tbc.state \in {FREERUN, HOLDOVER} => jobs[1].class = tbc.class
  /\ jobs = <<>> /\ tbc.state = HOLDOVER => dport.class = tbc.class
  /\ jobs = <<>> /\ tbc.state = FREERUN => dport.class \in {NoClassYet, tbc.class}
  /\ tbc.state = NOTSET => jobs = <<>> /\ dport.class = NoClassYet
LocalInv ==
  /\ jobs \in Seq(Jobs) /\ disturbed \in BOOLEAN
  /\ DataInv
  /\ ~disturbed => PortsInv

LEMMA StatesDiffer ==
  /\ LOCKED # FREERUN /\ LOCKED # HOLDOVER /\ FREERUN # HOLDOVER
  /\ NOTSET # LOCKED /\ NOTSET # FREERUN /\ NOTSET # HOLDOVER
BY DEF LOCKED, FREERUN, HOLDOVER, NOTSET

LEMMA MachineTold ==
  ASSUME NEW s \in SyncStates, NEW l \in LeadingClocks, ClassOfState(s, l), NEW data
  PROVE  Told(s, stateMachine(s, l, data))
<1> DEFINE m == askInSync(data, l)
           locked == [s EXCEPT !.state = LOCKED]
<1>l. locked.state = LOCKED
  BY DEF SyncStates
<1>f. Freed(s).state = FREERUN
  BY DEF Freed, SyncStates
<1>1. CASE s.state \in {NOTSET, FREERUN}
  <2>1. stateMachine(s, l, data) = fromFreerun(s, l, data)
    BY <1>1, StatesDiffer DEF stateMachine
  <2>2. \A n : Told(s, Outcome(s, n, FALSE))
    BY DEF Told, Outcome
  <2>3. \A n : Told(s, Outcome(locked, n, TRUE))
    BY <1>l, StatesDiffer DEF Told, Outcome
  <2> QED BY <2>1, <2>2, <2>3 DEF fromFreerun
<1>2. CASE s.state = LOCKED
  <2>1. stateMachine(s, l, data) = fromLocked(s, l, data)
    BY <1>2, StatesDiffer DEF stateMachine
  <2>2. Told(s, Outcome(Freed(s), l, TRUE))
    BY <1>f, StatesDiffer DEF Told, Outcome
  <2>3. Told(s, lockedStays(s, l))
    <3>1. lockedStays(s, l).s.state = LOCKED
      BY <1>2 DEF lockedStays, Outcome, SyncStates
    <3> QED BY <3>1, StatesDiffer DEF Told
  <2>4. \A n : Told(s, Outcome([s EXCEPT !.state = HOLDOVER, !.class = 135], n, TRUE))
    <3>1. [s EXCEPT !.state = HOLDOVER, !.class = 135].state = HOLDOVER
      BY DEF SyncStates
    <3> QED BY <3>1, StatesDiffer DEF Told, Outcome
  <2> QED BY <2>1, <2>2, <2>3, <2>4 DEF fromLocked
<1>3. CASE s.state = HOLDOVER
  <2>1. stateMachine(s, l, data) = fromHoldover(s, l, data)
    BY <1>3, StatesDiffer DEF stateMachine
  <2>2. Told(s, Outcome(Freed(s), l, TRUE))
    BY <1>f, StatesDiffer DEF Told, Outcome
  <2>3. \A n : Told(s, Outcome(locked, n, TRUE))
    BY <1>l, StatesDiffer DEF Told, Outcome
  <2>4. \A n : Told(s, Outcome(s, n, FALSE))
    BY <1>3, StatesDiffer DEF Told, Outcome
  <2>5. ASSUME l.lastInSpec
        PROVE  \A n : Told(s, Outcome([s EXCEPT !.class = 165], n, s.class # 165))
    <3>1. s.class = 135
      BY <1>3, <2>5 DEF ClassOfState
    <3>2. [s EXCEPT !.class = 165].state = HOLDOVER
      BY <1>3 DEF SyncStates
    <3>3. s.class # 165
      BY <3>1
    <3> QED BY <3>2, <3>3, StatesDiffer DEF Told, Outcome
  <2> DEFINE inSpec == l.lastInSpec /\ inSpecCondition(data, l)
             out == Outcome([s EXCEPT !.class = 165], [m EXCEPT !.lastInSpec = FALSE], s.class # 165)
  <2>6. l.lastInSpec \in BOOLEAN
    BY DEF LeadingClocks
  <2>7. stateMachine(s, l, data) \in
          {Outcome(Freed(s), l, TRUE), Outcome(locked, m, TRUE),
           IF inSpec = l.lastInSpec THEN Outcome(s, m, FALSE) ELSE out}
    BY <2>1 DEF fromHoldover
  <2> HIDE DEF locked
  <2>8. CASE l.lastInSpec
    <3>1. Told(s, out)
      BY <2>5, <2>8
    <3> HIDE DEF out, inSpec
    <3> QED BY <3>1, <2>2, <2>3, <2>4, <2>7
  <2>9. CASE ~l.lastInSpec
    <3>1. inSpec = l.lastInSpec
      BY <2>6, <2>9
    <3> HIDE DEF out, inSpec
    <3> QED BY <3>1, <2>2, <2>3, <2>4, <2>7
  <2> QED BY <2>8, <2>9
<1> QED BY <1>1, <1>2, <1>3 DEF SyncStates

LEMMA UpdateTold ==
  ASSUME NEW s \in SyncStates, NEW l \in LeadingClocks, ClassOfState(s, l), ~isTTSC(l),
         NEW data, DOMAIN data = {} => s.state \in {NOTSET, FREERUN}
  PROVE  Told(s, tbcUpdateState(s, l, data))
<1>1. CASE DOMAIN data = {}
  <2>1. Freed(s).state = FREERUN /\ Freed(s).class = 248
    BY DEF Freed, SyncStates
  <2>2. ASSUME s.state = FREERUN PROVE Freed(s) = s
    <3>1. s.class = 248
      BY <2>2 DEF ClassOfState
    <3>2. s = [s EXCEPT !.state = s.state, !.class = s.class]
      BY DEF SyncStates
    <3> QED BY <2>2, <3>1, <3>2 DEF Freed
  <2>3. tbcUpdateState(s, l, data) = Outcome(Freed(s), l, FALSE)
    BY <1>1 DEF tbcUpdateState
  <2> QED BY <1>1, <2>1, <2>2, <2>3 DEF Told, Outcome
<1>2. CASE DOMAIN data # {}
  <2> DEFINE r == stateMachine(s, l, data)
             u == tbcUpdateState(s, l, data)
  <2>1. Told(s, r)
    BY MachineTold
  <2>2. Good(s, l, u)
    BY UpdateStateFacts
  <2>3. u.s = r.s /\ u.down = (r.down /\ r.s.class # NoClassYet)
    BY <1>2, UpdateIsMachine
  <2> HIDE DEF r, u
  <2>4. u.s.state \in {FREERUN, HOLDOVER} => u.s.class # NoClassYet
    BY <2>2 DEF Good, ClassOfState, NoClassYet
  <2>5. (~r.down => ~u.down) /\ (r.s.class # NoClassYet /\ ~u.down => ~r.down)
    BY <2>3, Zenon
  <2>6. u.s = r.s
    BY <2>3
  <2>7. ~u.down /\ u.s.state \in {FREERUN, HOLDOVER} /\ s.state # NOTSET => u.s = s
    BY <2>1, <2>4, <2>5, <2>6 DEF Told
  <2>8. u.s.state = NOTSET => ~u.down /\ s.state = NOTSET
    BY <2>1, <2>5, <2>6 DEF Told
  <2> QED BY <2>7, <2>8 DEF Told, u
<1> QED BY <1>1, <1>2

\* A source that was heard of is in the data.
LEMMA DataFacts ==
  ASSUME NEW data, NEW ev
  PROVE  DOMAIN AddAtEnd(data, ev) # {}
<1> DEFINE new == AddToData(data, ev)
<1>1. DOMAIN new = DOMAIN data \cup {ev.src}
  BY DEF AddToData
<1> HIDE DEF new
<1>2. AddAtEnd(data, ev) = new \/ DOMAIN AddAtEnd(data, ev) = DOMAIN new
  BY DEF AddAtEnd, new
<1> QED BY <1>1, <1>2

LEMMA PortsNone ==
  ASSUME Len(jobs') = 0, jobs' = <<>>, dport'.class = NoClassYet, tbc'.state # HOLDOVER
  PROVE  PortsInv'
<1>1. Len(jobs') <= 1
  OBVIOUS
<1> QED BY <1>1 DEF PortsInv

LEMMA PortsOne ==
  ASSUME Len(jobs') = 1, jobs' # <<>>, jobs'[1].class = tbc'.class, tbc'.state # NOTSET
  PROVE  PortsInv'
<1>1. Len(jobs') <= 1
  OBVIOUS
<1> QED BY <1>1 DEF PortsInv

LEMMA AppendToEmpty ==
  ASSUME NEW S, NEW q \in Seq(S), q = <<>>, NEW x \in S
  PROVE  LET p == Append(q, x) IN Len(p) = 1 /\ p # <<>> /\ p[1] = x
<1>1. Len(q) = 0
  BY EmptySeq
<1>2. /\ Len(Append(q, x)) = Len(q) + 1 /\ Append(q, x) # <<>>
      /\ Append(q, x)[Len(q) + 1] = x
  BY AppendProperties
<1> QED BY <1>1, <1>2

LEMMA EvaluateLocal ==
  ASSUME Controlled # "", TBCTypeOK, ClassOfState(tbc, lc), LocalInv,
         NEW l \in LeadingClocks, Named(l), ClassOfState(tbc, l),
         NEW data, DOMAIN data = {} => tbc.state \in {NOTSET, FREERUN},
         tbcData' = data, evaluateState(l, data)
  PROVE  LocalInv'
<1>0. PICK r \in {tbcUpdateState(tbc, l, data)} :
      /\ tbc' = r.s
      /\ IF r.down THEN updateDownstreamData(r.s, r.l) ELSE UNCHANGED pmcVars
  BY DEF evaluateState
<1>r. tbc' = r.s /\ r = tbcUpdateState(tbc, l, data)
  BY <1>0
<1>t. tbc \in SyncStates /\ jobs \in Seq(Jobs) /\ disturbed \in BOOLEAN
  BY DEF TBCTypeOK, LocalInv
<1>1. Good(tbc, l, r) /\ Told(tbc, r)
  BY <1>t, <1>r, NotTTSC, UpdateStateFacts, UpdateTold
<1>2. /\ tbc' \in SyncStates /\ r.l \in LeadingClocks /\ Moves(tbc, tbc')
      /\ ClassOfState(tbc', r.l)
  BY <1>1, <1>r DEF Good
<1>d. DataInv'
  <2>1. DOMAIN data = {} => r = Outcome(Freed(tbc), l, FALSE)
    BY <1>r DEF tbcUpdateState
  <2>2. Freed(tbc).state = FREERUN
    BY <1>t DEF Freed, SyncStates
  <2>3. CASE DOMAIN data = {}
    <3>1. Outcome(Freed(tbc), l, FALSE).s = Freed(tbc)
      BY DEF Outcome
    <3>2. tbc' = Freed(tbc)
      BY <2>1, <2>3, <3>1, <1>r
    <3> QED BY <3>2, <2>2 DEF DataInv
  <2>4. CASE DOMAIN data # {}
    BY <2>4 DEF DataInv
  <2> QED BY <2>3, <2>4
<1>3. CASE ~r.down
  <2>1. UNCHANGED <<jobs, dport, disturbed>>
    BY <1>0, <1>3 DEF pmcVars
  <2>2. ASSUME ~disturbed PROVE PortsInv'
    <3>1. PortsInv
      BY <2>2 DEF LocalInv
    <3>2. CASE tbc' = tbc
      BY <3>1, <3>2, <2>1 DEF PortsInv
    <3>3. CASE tbc.state = NOTSET
      <4>1. jobs = <<>> /\ dport.class = NoClassYet
        BY <3>1, <3>3 DEF PortsInv
      <4>2. tbc'.state # HOLDOVER
        BY <1>2, <3>3, StatesDiffer DEF Moves
      <4>3. jobs' = <<>> /\ Len(jobs') = 0 /\ dport'.class = NoClassYet
        BY <4>1, <2>1, EmptySeq
      <4> QED BY <4>2, <4>3, PortsNone
    <3>4. CASE tbc.state # NOTSET /\ tbc' # tbc
      <4>1. tbc'.state \notin {FREERUN, HOLDOVER}
        BY <1>1, <1>r, <1>3, <3>4 DEF Told
      <4>2. tbc'.state # NOTSET
        BY <1>1, <1>r, <3>4 DEF Told
      <4> QED BY <4>1, <4>2, <3>1, <2>1 DEF PortsInv
    <3> QED BY <3>2, <3>3, <3>4
  <2> QED BY <1>t, <1>d, <2>1, <2>2 DEF LocalInv
<1>4. CASE r.down /\ r.s.state = LOCKED
  <2>1. UNCHANGED <<jobs, dport, disturbed>>
    BY <1>0, <1>4 DEF updateDownstreamData
  <2>2. PortsInv => PortsInv'
    BY <2>1, <1>4, <1>r, StatesDiffer DEF PortsInv
  <2> QED BY <1>t, <1>d, <2>1, <2>2 DEF LocalInv
<1>5. CASE r.down /\ r.s.state # LOCKED
  <2> DEFINE j == LocalJob(r.s, r.l)
  <2>1. /\ jobs' = Append(jobs, j) /\ disturbed' = (disturbed \/ jobs # <<>>)
        /\ dport' = dport
    BY <1>0, <1>5 DEF updateDownstreamData
  <2>2. j \in Jobs /\ j.class = tbc'.class
    BY <1>2, <1>r DEF LocalJob, LeadingClocks, SyncStates, Jobs
  <2>3. tbc'.state # NOTSET
    BY <1>1, <1>r, <1>5 DEF Told
  <2> HIDE DEF j
  <2>4. jobs' \in Seq(Jobs)
    BY <1>t, <2>1, <2>2, AppendProperties
  <2>5. ASSUME ~disturbed' PROVE PortsInv'
    <3>1. jobs = <<>>
      BY <2>1, <2>5
    <3>2. Len(jobs') = 1 /\ jobs'[1] = j /\ jobs' # <<>>
      BY <1>t, <2>1, <2>2, <3>1, AppendToEmpty
    <3> QED BY <3>2, <2>2, <2>3, PortsOne
  <2> QED BY <1>t, <1>d, <2>1, <2>4, <2>5 DEF LocalInv
<1> QED BY <1>3, <1>4, <1>5

\* A step that leaves the clock and its goroutines alone.
LEMMA SameLocal ==
  ASSUME LocalInv, UNCHANGED <<tbc, jobs, dport, disturbed>>, DOMAIN tbcData' = DOMAIN tbcData
  PROVE  LocalInv'
BY DEF LocalInv, DataInv, PortsInv

LEMMA OnlyOne ==
  ASSUME NEW n \in Nat, n <= 1, NEW i \in 1..n
  PROVE  i = 1 /\ n = 1
OBVIOUS

\* The only goroutine of an announcement gets through.
LEMMA RunsLocal ==
  ASSUME LocalInv, NEW i \in DOMAIN jobs, jobs' = RemoveAt(jobs, i), UNCHANGED <<tbc, tbcData>>,
         NEW sets \in BOOLEAN, disturbed' = (disturbed \/ ~sets),
         sets => dport' = [class |-> jobs[i].class, early |-> FALSE]
  PROVE  LocalInv'
<1>1. jobs \in Seq(Jobs) /\ disturbed \in BOOLEAN /\ DataInv
  BY DEF LocalInv
<1>2. jobs' \in Seq(Jobs) /\ Len(jobs') = Len(jobs) - 1
  BY <1>1, RemoveAtFacts
<1>3. ASSUME ~disturbed' PROVE PortsInv'
  <2>1. ~disturbed /\ sets
    BY <1>1, <1>3
  <2>2. PortsInv
    BY <2>1 DEF LocalInv
  <2>3. i = 1 /\ Len(jobs) = 1
    <3>1. i \in 1..Len(jobs) /\ Len(jobs) \in Nat
      BY <1>1, LenProperties
    <3>2. Len(jobs) <= 1
      BY <2>2 DEF PortsInv
    <3> QED BY <3>1, <3>2, OnlyOne
  <2>4. Len(jobs') = 0 /\ jobs' = <<>>
    <3>1. Len(jobs') = 0
      BY <1>2, <2>3
    <3> QED BY <3>1, <1>2, EmptySeq
  <2>5. Len(jobs') <= 1
    BY <2>4
  <2>6. jobs # <<>>
    BY <2>3, EmptySeq
  <2>7. dport'.class = jobs[1].class
    BY <2>1, <2>3
  <2>8. tbc.state \in {FREERUN, HOLDOVER} => dport'.class = tbc.class
    BY <2>2, <2>6, <2>7 DEF PortsInv
  <2>9. tbc.state # NOTSET
    BY <2>2, <2>6 DEF PortsInv
  <2> QED BY <2>4, <2>5, <2>8, <2>9 DEF PortsInv
<1>4. DataInv'
  BY <1>1 DEF DataInv
<1>5. disturbed' \in BOOLEAN
  BY <1>1
<1> QED BY <1>2, <1>3, <1>4, <1>5 DEF LocalInv

\* Upstream data is passed on by a locked clock, of which nothing is asked.
LEMMA AppliesLocal ==
  ASSUME LocalInv, NEW i, handleDownstreamAnnounceIWF(i)
  PROVE  LocalInv'
<1>1. UNCHANGED <<tbc, tbcData, jobs>>
  BY DEF handleDownstreamAnnounceIWF
<1>2. jobs \in Seq(Jobs) /\ disturbed \in BOOLEAN /\ DataInv /\ (~disturbed => PortsInv)
  BY DEF LocalInv
<1>3. CASE UNCHANGED <<dport, disturbed>>
  BY <1>1, <1>3, SameLocal
<1>4. CASE Applies(fetches[i])
  <2>1. tbc.state = LOCKED
    BY <1>4 DEF Applies
  <2>2. disturbed' \in BOOLEAN /\ (disturbed => disturbed')
    BY <1>2, <1>4 DEF handleDownstreamAnnounceIWF
  <2>3. PortsInv => PortsInv'
    BY <1>1, <2>1, StatesDiffer DEF PortsInv
  <2>4. DataInv'
    BY <1>1, <1>2 DEF DataInv
  <2> QED BY <1>1, <1>2, <2>2, <2>3, <2>4 DEF LocalInv
<1> QED BY <1>3, <1>4 DEF handleDownstreamAnnounceIWF

LEMMA LocalInvNext ==
  ASSUME Controlled # "", FSMInv, LocalInv, [TBCNext]_tbcVars
  PROVE  LocalInv'
<1>t. TBCTypeOK /\ ClassOfState(tbc, lc)
  BY DEF FSMInv
<1>d. DOMAIN tbcData = {} => tbc.state \in {NOTSET, FREERUN}
  BY DEF LocalInv, DataInv
<1>1. ASSUME NEW p \in Range(TRPorts), SlaveLine(p) \/ LostLine(p) PROVE LocalInv'
  BY <1>1, SameLocal DEF SlaveLine, LostLine, rest, pmcVars
<1>2. ASSUME NEW o \in Ptp4lOffsets, NEW second \in BOOLEAN, OffsetLine(o, second)
      PROVE  LocalInv'
  BY <1>2, SameLocal DEF OffsetLine, rest, pmcVars
<1>3. CASE TBCAddPtp4l
  <2> PICK data \in {AddAtEnd(tbcData, Head(trEvents).ev)} :
        /\ tbcData' = data
        /\ evaluateState(IF Head(trEvents).names THEN withNames(lc) ELSE lc, data)
    BY <1>3 DEF TBCAddPtp4l
  <2> QED BY <1>t, DataFacts, LeadingFacts, EvaluateLocal
<1>4. ASSUME NEW i, NEW s, NEW o, TBCAddDPLL(i, s, o) PROVE LocalInv'
  <2> PICK data \in {AddAtEnd(tbcData, SourceEvent("dpll", i, s, FALSE, o))} :
        tbcData' = data /\ evaluateState(updateLeadingClockData(lc, [iface |-> i]), data)
    BY <1>4 DEF TBCAddDPLL
  <2> QED BY <1>t, DataFacts, LeadingFacts, EvaluateLocal
<1>5. ASSUME NEW s \in TS2PHCStates, TBCAddTs2phc(s) PROVE LocalInv'
  <2> PICK data \in {AddAtEnd(tbcData, SourceEvent("ts2phc", Leading, s, FALSE, NoOffset))} :
        tbcData' = data /\ evaluateState(lc, data)
    BY <1>5 DEF TBCAddTs2phc
  <2> QED BY <1>t, DataFacts, LeadingFacts, EvaluateLocal
<1>6. ASSUME NEW c \in UpClasses, TBCAddParentDS(c) PROVE LocalInv'
  <2>1. evaluateState([lc EXCEPT !.up = c], tbcData) /\ tbcData' = tbcData
    BY <1>6 DEF TBCAddParentDS
  <2> QED BY <2>1, <1>t, <1>d, LeadingFacts, EvaluateLocal
<1>7. ASSUME NEW i, NEW c \in UpClasses, FetchReads(i, c) PROVE LocalInv'
  BY <1>7, SameLocal DEF FetchReads
<1>8. ASSUME NEW i, FetchFails(i) PROVE LocalInv'
  BY <1>8 DEF FetchFails, LocalInv, DataInv
<1>9. ASSUME NEW i, handleDownstreamAnnounceIWF(i) PROVE LocalInv'
  BY <1>9, AppliesLocal
<1>10. ASSUME NEW i, NEW ok \in BOOLEAN, JobRuns(i, ok) PROVE LocalInv'
  <2> DEFINE sets == ok /\ jobs[i].target = Controlled
  <2>1. /\ i \in DOMAIN jobs /\ jobs' = RemoveAt(jobs, i) /\ UNCHANGED <<tbc, tbcData>>
        /\ disturbed' = (disturbed \/ ~sets)
        /\ sets => dport' = [class |-> jobs[i].class, early |-> FALSE]
    BY <1>10 DEF JobRuns
  <2>2. sets \in BOOLEAN
    OBVIOUS
  <2> HIDE DEF sets
  <2> QED BY <2>1, <2>2, RunsLocal
<1>11. ASSUME NEW src, NEW i, TBCAge(src, i) PROVE LocalInv'
  <2>1. DOMAIN tbcData' = DOMAIN tbcData
    BY <1>11 DEF TBCAge
  <2> QED BY <2>1, <1>11, SameLocal DEF TBCAge, pmcVars
<1>12. CASE TBCSystemClockUpdate(LOCKED)
  BY <1>12, SameLocal DEF TBCSystemClockUpdate, pmcVars
<1>13. CASE TBCReset
  <2>1. tbc'.state = NOTSET
    BY <1>13 DEF TBCReset, NewSync
  <2> QED BY <2>1, <1>13 DEF TBCReset, LocalInv, DataInv
<1>14. CASE UNCHANGED tbcVars
  BY <1>14, SameLocal DEF tbcVars, pmcVars
<1> QED BY <1>1, <1>2, <1>3, <1>4, <1>5, <1>6, <1>7, <1>8, <1>9, <1>10, <1>11, <1>12, <1>13, <1>14
      DEF TBCNext

LEMMA LocalInvInit == TBCInit => LocalInv
<1> SUFFICES ASSUME TBCInit PROVE LocalInv
  OBVIOUS
<1>1. tbc.state = NOTSET
  BY DEF TBCInit, NewSync
<1>2. dport.class = NoClassYet
  <2>1. dport = [class |-> NoClassYet, early |-> FALSE]
    BY DEF TBCInit
  <2> QED BY <2>1
<1>3. jobs = <<>> /\ jobs \in Seq(Jobs) /\ Len(jobs) = 0 /\ disturbed = FALSE
  BY EmptySeq DEF TBCInit
<1>4. Len(jobs) <= 1
  BY <1>3
<1> QED BY <1>1, <1>2, <1>3, <1>4, StatesDiffer DEF LocalInv, DataInv, PortsInv

\* A clock in holdover, or free-running after it was locked, whose goroutines
\* are done has its class announced by the controlled ports, unless a request
\* failed or two announcements overlapped (announceLocalData): every entry of
\* those states and every change of class in them makes an announcement.
THEOREM LocalClassAnnouncedAlways ==
  ASSUME Controlled # ""
  PROVE  TBCSpec => []LocalClassAnnounced
<1>1. FSMInv /\ LocalInv /\ [TBCNext]_tbcVars => LocalInv'
  BY LocalInvNext
<1>2. LocalInv => LocalClassAnnounced
  BY DEF LocalInv, PortsInv, LocalClassAnnounced
<1> QED BY <1>1, <1>2, LocalInvInit, TBCInvariant, PTL DEF TBCSpec

-----------------------------------------------------------------------------
(* The loss of the only upstream port.  The last event of the detector on  *)
(* its way, or else the clock's detail of the port, says what the detector *)
(* reported.                                                               *)

Port == TRPorts[1]
TRStates == {NOTSET, FREERUN, LOCKED}
TROffsets == {NoOffset, 0} \cup Ptp4lOffsets
PortEvents ==
  {e \in [ev : [src : {"ptp4l"}, iface : {Port}, state : TRStates, lost : BOOLEAN,
                offset : TROffsets, oos : BOOLEAN, ft : BOOLEAN, late : BOOLEAN],
          names : BOOLEAN] : ~e.ev.late}
DetectorOK(t) ==
  /\ DOMAIN t = {"per", "active", "reported", "applied", "filtering", "filter", "offset"}
  /\ t.per \in [{Port} -> TRStates] /\ t.active \in {"", Port}
  /\ t.reported \in TRStates /\ t.offset \in TROffsets
OneDetail(data) ==
  HasData(data, "ptp4l") =>
    LET pd == data["ptp4l"]
    IN  /\ "details" \in DOMAIN pd
        /\ pd.details = [i \in DOMAIN pd.details |-> pd.details[i]]
        /\ DOMAIN pd.details = {1} /\ pd.details[1].iface = Port
LastTold ==
  ~trDropped /\ tr.reported = FREERUN =>
    IF trEvents = <<>> THEN isPTPLost(tbcData) ELSE trEvents[Len(trEvents)].ev.state = FREERUN
LossInv == DetectorOK(tr) /\ trEvents \in Seq(PortEvents) /\ OneDetail(tbcData) /\ LastTold

\* The events of the detector are of the one port, and never late.
LEMMA PortEventFacts ==
  ASSUME NEW e \in PortEvents
  PROVE  /\ e.ev.src = "ptp4l" /\ e.ev.iface = Port /\ e.ev.state \in TRStates /\ ~e.ev.late
  BY DEF PortEvents

\* What the detector sends.
LEMMA SentEvents ==
  ASSUME NEW t, DetectorOK(t)
  PROVE  /\ StateEvent(t) \in PortEvents /\ StateEvent(t).ev.state = t.reported
         /\ OffsetEvent(t) \in PortEvents /\ OffsetEvent(t).ev.state = t.reported
<1>1. activeTRPort(t) = Port
  BY DEF activeTRPort, DetectorOK, Port
<1> DEFINE lost == t.reported # LOCKED
<1>2. t.reported \in TRStates /\ t.offset \in TROffsets /\ lost \in BOOLEAN /\ NoOffset \in TROffsets
  BY DEF DetectorOK, TROffsets
<1> DEFINE state == SourceEvent("ptp4l", Port, t.reported, lost, NoOffset)
           offset == SourceEvent("ptp4l", Port, t.reported, FALSE, t.offset)
<1>3. /\ StateEvent(t) = [ev |-> state, names |-> TRUE]
      /\ OffsetEvent(t) = [ev |-> offset, names |-> FALSE]
  BY <1>1, Zenon DEF StateEvent, OffsetEvent
<1> HIDE DEF lost
<1>4. ASSUME NEW l \in BOOLEAN, NEW o \in TROffsets, NEW n \in BOOLEAN
      PROVE  LET ev == SourceEvent("ptp4l", Port, t.reported, l, o)
             IN  [ev |-> ev, names |-> n] \in PortEvents /\ ev.state = t.reported
  BY <1>2 DEF SourceEvent, PortEvents
<1> HIDE DEF state, offset
<1>5. /\ [ev |-> state, names |-> TRUE] \in PortEvents /\ state.state = t.reported
      /\ [ev |-> offset, names |-> FALSE] \in PortEvents /\ offset.state = t.reported
  BY <1>2, <1>4 DEF state, offset
<1> QED BY <1>3, <1>5

\* The filter check sends at most one event, and only while a port is locked.
LEMMA CheckFacts ==
  ASSUME NEW t, DetectorOK(t)
  PROVE  LET c == checkOffsetFilterAndTransition(t)
         IN  /\ DetectorOK(c.t) /\ c.t.reported = t.reported
             /\ c.q \in Seq(PortEvents)
             /\ t.reported # LOCKED => c.q = <<>>
<1> DEFINE u == insertOffset(t)
<1>1. DetectorOK(u) /\ u.reported = t.reported
  BY DEF insertOffset, DetectorOK
<1> HIDE DEF u
<1>2. CASE filterPasses(u)
  <2>1. /\ checkOffsetFilterAndTransition(t).t = [u EXCEPT !.applied = LOCKED]
        /\ checkOffsetFilterAndTransition(t).q = <<StateEvent(u)>>
        /\ u.reported = LOCKED
    BY <1>2 DEF checkOffsetFilterAndTransition, u, filterPasses
  <2>2. DetectorOK([u EXCEPT !.applied = LOCKED]) /\ [u EXCEPT !.applied = LOCKED].reported = u.reported
    BY <1>1 DEF DetectorOK
  <2>3. StateEvent(u) \in PortEvents
    BY <1>1, SentEvents
  <2>4. <<StateEvent(u)>> \in Seq(PortEvents)
    BY <2>3
  <2> QED BY <1>1, <2>1, <2>2, <2>4
<1>3. CASE ~filterPasses(u)
  <2>1. /\ checkOffsetFilterAndTransition(t).t = u
        /\ checkOffsetFilterAndTransition(t).q = <<>>
    BY <1>3 DEF checkOffsetFilterAndTransition, u
  <2> QED BY <1>1, <2>1
<1> QED BY <1>2, <1>3

\* What is sent is appended, unless some is dropped.
LEMMA SendFacts ==
  ASSUME NEW S, NEW q \in Seq(S), NEW sent \in Seq(S)
  PROVE  /\ SendTR(q, sent) \in Seq(S)
         /\ Len(q) + Len(sent) <= TREventsCap => SendTR(q, sent) = q \o sent
<1>1. /\ q \o sent \in Seq(S) /\ Len(q \o sent) = Len(q) + Len(sent)
      /\ Len(q) \in Nat /\ Len(sent) \in Nat /\ TREventsCap \in Nat
  BY ConcatProperties, LenProperties, TBCAssumption
<1>2. ASSUME ~(Len(q \o sent) <= TREventsCap)
      PROVE  SubSeq(q \o sent, 1, TREventsCap) \in Seq(S)
  <2> DEFINE all == q \o sent
  <2> HIDE DEF all
  <2>1. ASSUME NEW i \in 1..TREventsCap PROVE all[i] \in S
    <3>1. i \in 1..Len(all)
      BY <1>1, <1>2 DEF all
    <3> QED BY <1>1, <3>1, ElementOfSeq DEF all
  <2>2. all \in Seq(S)
    BY <1>1 DEF all
  <2>3. SubSeq(all, 1, TREventsCap) \in Seq(S)
    BY <1>1, <2>1, <2>2, SubSeqProperties
  <2> QED BY <2>3 DEF all
<1> QED BY <1>1, <1>2 DEF SendTR

\* A log line keeps the invariant when it tells the clock of every loss.
LEMMA LogLineInv ==
  ASSUME LossInv, NEW t, DetectorOK(t), NEW sent \in Seq(PortEvents), logLine(t, sent),
         tbcData' = tbcData,
         \/ sent = <<>> /\ (t.reported = FREERUN => tr.reported = FREERUN)
         \/ Len(sent) = 1 /\ sent[1].ev.state = t.reported
  PROVE  LossInv'
<1> DEFINE c == checkOffsetFilterAndTransition(t)
           all == sent \o c.q
<1>1. /\ DetectorOK(c.t) /\ c.t.reported = t.reported
      /\ c.q \in Seq(PortEvents) /\ (t.reported # LOCKED => c.q = <<>>)
  BY CheckFacts
<1>2. /\ tr' = c.t /\ trEvents' = SendTR(trEvents, all)
      /\ trDropped' = (trDropped \/ Len(trEvents) + Len(all) > TREventsCap)
  BY DEF logLine
<1> HIDE DEF c
<1>3. all \in Seq(PortEvents) /\ Len(all) \in Nat /\ (t.reported # LOCKED => all = sent)
  BY <1>1, ConcatProperties, ConcatEmptySeq, LenProperties
<1> HIDE DEF all
<1>4. /\ trEvents \in Seq(PortEvents) /\ Len(trEvents) \in Nat /\ TREventsCap \in Nat
  BY LenProperties, TBCAssumption DEF LossInv
<1>5. trEvents' \in Seq(PortEvents)
  BY <1>2, <1>3, <1>4, SendFacts
<1>6. LastTold'
  <2> SUFFICES ASSUME ~trDropped', tr'.reported = FREERUN
               PROVE  IF trEvents' = <<>> THEN isPTPLost(tbcData)
                      ELSE trEvents'[Len(trEvents')].ev.state = FREERUN
    BY DEF LastTold, isPTPLost, HasData, States
  <2>1. t.reported = FREERUN /\ ~trDropped
    BY <1>1, <1>2
  <2>2. all = sent
    BY <1>3, <2>1 DEF FREERUN, LOCKED
  <2>3. Len(trEvents) + Len(all) <= TREventsCap
    <3>1. ~(Len(trEvents) + Len(all) > TREventsCap)
      BY <1>2, Zenon
    <3> QED BY <1>3, <1>4, <3>1
  <2>4. trEvents' = trEvents \o sent
    BY <1>2, <1>3, <1>4, <2>2, <2>3, SendFacts
  <2>5. CASE sent = <<>> /\ tr.reported = FREERUN
    <3>1. trEvents' = trEvents
      BY <1>4, <2>4, <2>5, ConcatEmptySeq
    <3> QED BY <2>1, <2>5, <3>1 DEF LossInv, LastTold
  <2>6. CASE Len(sent) = 1 /\ sent[1].ev.state = t.reported
    <3>1. Len(trEvents') = Len(trEvents) + 1 /\ trEvents'[Len(trEvents) + 1] = sent[1]
      BY <1>4, <2>4, <2>6, ConcatProperties
    <3>2. trEvents' # <<>>
      BY <1>4, <1>5, <3>1, EmptySeq
    <3> QED BY <2>1, <2>6, <3>1, <3>2
  <2> QED BY <2>1, <2>5, <2>6
<1> QED BY <1>1, <1>2, <1>5, <1>6 DEF LossInv, OneDetail, HasData

\* The clock takes an event of the port: its one detail says what the event said.
LEMMA PortAdded ==
  ASSUME NEW data, OneDetail(data), NEW e \in PortEvents
  PROVE  /\ OneDetail(AddAtEnd(data, e.ev))
         /\ e.ev.state = FREERUN => isPTPLost(AddAtEnd(data, e.ev))
<1> DEFINE ev == e.ev
           pd  == GetData(data, "ptp4l")
           add == addEvent(pd, ev)
           all == AddToData(data, ev)
           end == AddAtEnd(data, ev)
           new == [iface |-> ev.iface, state |-> ev.state, lost |-> ev.lost, offset |-> 0,
                   oos |-> ev.oos, ft |-> ev.ft, fresh |-> TRUE]
           Shape(x) == /\ "details" \in DOMAIN x
                       /\ x.details = [i \in DOMAIN x.details |-> x.details[i]]
                       /\ DOMAIN x.details = {1}
                       /\ x.details[1].iface = Port /\ x.details[1].state = ev.state
<1>1. ev.src = "ptp4l" /\ ev.iface = Port /\ ~ev.late
  BY PortEventFacts
<1> HIDE DEF ev
<1>2. Shape(add)
  <2>1. CASE HasData(data, "ptp4l")
    <3>1. /\ "details" \in DOMAIN pd /\ DOMAIN pd.details = {1} /\ pd.details[1].iface = Port
          /\ pd.details = [i \in DOMAIN pd.details |-> pd.details[i]]
      BY <2>1 DEF OneDetail, GetData
    <3>2. GetDataDetails(pd, ev.iface) = 1
      BY <1>1, <3>1 DEF GetDataDetails, HasDetail
    <3> DEFINE x == [new EXCEPT !.offset = pd.details[1].offset]
               y == [new EXCEPT !.offset = ev.offset]
    <3>3. x.iface = Port /\ x.state = ev.state /\ y.iface = Port /\ y.state = ev.state
      BY <1>1
    <3> HIDE DEF pd, x, y
    <3>4. \/ add = [pd EXCEPT !.details = [pd.details EXCEPT ![1] = x]]
          \/ add = [[pd EXCEPT !.details = [pd.details EXCEPT ![1] = y]] EXCEPT
                      !.window = Insert(pd.window, ev.offset)]
      BY <1>1, <3>1, <3>2 DEF addEvent, x, y
    <3>5. \/ add.details = [pd.details EXCEPT ![1] = x] /\ "details" \in DOMAIN add
          \/ add.details = [pd.details EXCEPT ![1] = y] /\ "details" \in DOMAIN add
      BY <3>1, <3>4
    <3> HIDE DEF add
    <3> QED BY <3>1, <3>3, <3>5
  <2>2. CASE ~HasData(data, "ptp4l")
    <3>1. pd = NewData("ptp4l")
      BY <2>2 DEF GetData
    <3>2. GetDataDetails(pd, ev.iface) = 0
      BY <3>1, EmptySeq DEF GetDataDetails, HasDetail, NewData
    <3>d. pd.details = <<>>
      BY <3>1 DEF NewData
    <3>3. add = [pd EXCEPT !.details = Append(<<>>, new)]
      BY <3>d, <3>2, Zenon DEF addEvent
    <3>4. add.details = Append(<<>>, new) /\ "details" \in DOMAIN add
      BY <3>1, <3>3 DEF NewData
    <3>5. new.iface = Port /\ new.state = ev.state
      BY <1>1
    <3> HIDE DEF new
    <3>6. <<>> \in Seq({new}) /\ Len(<<>>) = 0
      BY EmptySeq
    <3>7. /\ Append(<<>>, new) \in Seq({new}) /\ Len(Append(<<>>, new)) = 1
          /\ Append(<<>>, new)[1] = new
      BY <3>6, AppendProperties
    <3>8. DOMAIN Append(<<>>, new) = 1..1 /\ Append(<<>>, new) \in [1..1 -> {new}]
      BY <3>7, LenProperties
    <3> HIDE DEF add
    <3> QED BY <3>4, <3>5, <3>7, <3>8
  <2> QED BY <2>1, <2>2
<1>3. Shape(UpdateState(add))
  <2>1. UpdateState(add).details = add.details /\ "details" \in DOMAIN UpdateState(add)
    BY <1>2 DEF UpdateState
  <2> HIDE DEF add
  <2> QED BY <1>2, <2>1
<1>4. "ptp4l" \in DOMAIN all /\ all["ptp4l"] = UpdateState(add)
  BY <1>1 DEF AddToData
<1>5. "ptp4l" \in DOMAIN end /\ Shape(end["ptp4l"])
  <2>1. CASE HasData(data, ev.src)
    BY <1>3, <1>4, <2>1 DEF AddAtEnd
  <2>2. CASE ~HasData(data, ev.src)
    <3> DEFINE u == UpdateState(add)
               x == Placed(u, Cardinality(DOMAIN all))
    <3>1. end = [all EXCEPT !["ptp4l"] = x]
      BY <1>1, <1>4, <2>2 DEF AddAtEnd
    <3> HIDE DEF add, all, end, u
    <3>2. x.details = u.details /\ "details" \in DOMAIN x
      BY <1>3 DEF u, Placed
    <3> HIDE DEF x
    <3>3. "ptp4l" \in DOMAIN end /\ end["ptp4l"] = x
      BY <1>4, <3>1
    <3> QED BY <1>3, <3>2, <3>3 DEF u
  <2> QED BY <2>1, <2>2
<1> HIDE DEF end
<1>6. OneDetail(end)
  BY <1>5 DEF OneDetail
<1>7. ev.state = FREERUN => isPTPLost(end)
  BY <1>5 DEF isPTPLost, States, FREERUN, LOCKED
<1> QED BY <1>6, <1>7 DEF ev, end

\* Events of other sources and the time that passes leave what is known of the port.
LEMMA OthersAdded ==
  ASSUME NEW data, OneDetail(data), NEW ev, ev.src # "ptp4l"
  PROVE  OneDetail(AddAtEnd(data, ev)) /\ (isPTPLost(data) => isPTPLost(AddAtEnd(data, ev)))
<1> DEFINE all == AddToData(data, ev)
           end == AddAtEnd(data, ev)
<1>1. /\ "ptp4l" \in DOMAIN all <=> "ptp4l" \in DOMAIN data
      /\ "ptp4l" \in DOMAIN data => all["ptp4l"] = data["ptp4l"]
  BY DEF AddToData
<1>2. \/ end = all
      \/ \E x : end = [all EXCEPT ![ev.src] = x]
  BY DEF AddAtEnd
<1> HIDE DEF all, end
<1>3. /\ "ptp4l" \in DOMAIN end <=> "ptp4l" \in DOMAIN data
      /\ "ptp4l" \in DOMAIN data => end["ptp4l"] = data["ptp4l"]
  BY <1>1, <1>2
<1>4. OneDetail(end) /\ (isPTPLost(data) => isPTPLost(end))
  BY <1>3 DEF OneDetail, HasData, isPTPLost
<1> QED BY <1>4 DEF end

\* That details of a source are no longer fresh changes no state.
LEMMA Aged ==
  ASSUME NEW data, OneDetail(data), NEW src \in DOMAIN data, NEW i
  PROVE  LET aged == [data EXCEPT ![src] = Age(@, i)]
         IN  OneDetail(aged) /\ (isPTPLost(data) => isPTPLost(aged))
<1> DEFINE aged == [data EXCEPT ![src] = Age(@, i)]
<1>1. DOMAIN aged = DOMAIN data
  OBVIOUS
<1>2. CASE src = "ptp4l"
  <2> DEFINE pd == data["ptp4l"]
             y == [k \in DOMAIN pd.details |->
                     IF pd.details[k].iface = i THEN [pd.details[k] EXCEPT !.fresh = FALSE]
                     ELSE pd.details[k]]
  <2>1. /\ "details" \in DOMAIN pd /\ DOMAIN pd.details = {1} /\ pd.details[1].iface = Port
    BY <1>2 DEF OneDetail, HasData
  <2>2. aged["ptp4l"] = [pd EXCEPT !.details = y]
    BY <1>2 DEF Age
  <2>3. aged["ptp4l"].details = y /\ "details" \in DOMAIN aged["ptp4l"]
    BY <2>1, <2>2
  <2>4. y[1].iface = pd.details[1].iface /\ y[1].state = pd.details[1].state /\ DOMAIN y = {1}
    BY <2>1
  <2>5. y = [k \in DOMAIN y |-> y[k]]
    OBVIOUS
  <2> HIDE DEF y, aged
  <2>6. OneDetail(aged)
    BY <2>1, <2>3, <2>4, <2>5 DEF OneDetail
  <2>7. isPTPLost(data) => isPTPLost(aged)
    BY <1>1, <1>2, <2>1, <2>3, <2>4 DEF isPTPLost, HasData, States
  <2> QED BY <2>6, <2>7 DEF aged
<1>3. CASE src # "ptp4l"
  <2>1. "ptp4l" \in DOMAIN data => aged["ptp4l"] = data["ptp4l"]
    BY <1>3
  <2> HIDE DEF aged
  <2> QED BY <1>1, <2>1 DEF OneDetail, HasData, isPTPLost, aged
<1> QED BY <1>2, <1>3

\* The detector's log lines.
LEMMA DetectorInv ==
  ASSUME NEW p, TRPorts = <<p>>, LossInv,
         \/ \E q \in Range(TRPorts) : SlaveLine(q) \/ LostLine(q)
         \/ \E o \in Ptp4lOffsets, second \in BOOLEAN : OffsetLine(o, second)
  PROVE  LossInv'
<1>1. Port = p /\ Range(TRPorts) = {p}
  BY DEF Port, Range
<1>d. DetectorOK(tr) /\ <<>> \in Seq(PortEvents)
  BY EmptySeq DEF LossInv
<1>t. FREERUN \in TRStates /\ LOCKED \in TRStates /\ FREERUN # LOCKED
  BY DEF TRStates, FREERUN, LOCKED
<1>2. CASE SlaveLine(p)
  <2>1. logLine(portLocked(p), <<>>) /\ tbcData' = tbcData
    BY <1>2 DEF SlaveLine, rest
  <2>2. DetectorOK(portLocked(p)) /\ portLocked(p).reported = LOCKED
    <3> DEFINE per == IF HardwarePath THEN [tr.per EXCEPT ![p] = LOCKED] ELSE tr.per
    <3>1. per \in [{Port} -> TRStates]
      BY <1>1, <1>d, <1>t DEF DetectorOK
    <3>2. portLocked(p) = [tr EXCEPT !.per = per, !.active = p, !.reported = LOCKED,
                                     !.filtering = TRUE, !.filter = <<>>]
      BY DEF portLocked
    <3> HIDE DEF per
    <3> QED BY <1>1, <1>d, <1>t, <3>1, <3>2 DEF DetectorOK
  <2> QED BY <1>d, <1>t, <2>1, <2>2, LogLineInv
<1>3. CASE LostLine(p)
  <2> DEFINE per == IF HardwarePath THEN [tr.per EXCEPT ![p] = FREERUN] ELSE tr.per
             t == [tr EXCEPT !.per = per]
             u == [t EXCEPT !.reported = FREERUN, !.active = IF HardwarePath THEN "" ELSE @,
                            !.filtering = FALSE, !.filter = <<>>]
             v == [u EXCEPT !.applied = HOLDOVER]
  <2>1. per \in [{Port} -> TRStates] /\ (HardwarePath => per[p] = FREERUN)
    BY <1>1, <1>d, <1>t DEF DetectorOK
  <2>2. HardwarePath => allPortsLost(t)
    BY <1>1, <1>d, <1>t, <2>1 DEF allPortsLost, DetectorOK
  <2>3. portLost(p) = [t |-> v, q |-> <<StateEvent(u)>>]
    BY <2>2 DEF portLost
  <2>4. DetectorOK(u) /\ DetectorOK(v) /\ u.reported = FREERUN /\ v.reported = FREERUN
    BY <1>d, <1>t, <2>1 DEF DetectorOK
  <2> HIDE DEF u, v
  <2>5. StateEvent(u) \in PortEvents /\ StateEvent(u).ev.state = FREERUN
    BY <2>4, SentEvents
  <2>6. /\ <<StateEvent(u)>> \in Seq(PortEvents) /\ Len(<<StateEvent(u)>>) = 1
        /\ <<StateEvent(u)>>[1] = StateEvent(u)
    BY <2>5
  <2>7. logLine(v, <<StateEvent(u)>>) /\ tbcData' = tbcData
    BY <1>3, <2>3 DEF LostLine, rest
  <2> QED BY <2>4, <2>5, <2>6, <2>7, LogLineInv
<1>4. ASSUME NEW o \in Ptp4lOffsets, NEW second \in BOOLEAN, OffsetLine(o, second)
      PROVE  LossInv'
  <2> DEFINE t == [tr EXCEPT !.offset = o]
             sent == IF second THEN <<OffsetEvent(t)>> ELSE <<>>
  <2>1. DetectorOK(t) /\ t.reported = tr.reported
    BY <1>d DEF DetectorOK, TROffsets
  <2>2. logLine(t, sent) /\ tbcData' = tbcData
    BY <1>4 DEF OffsetLine, rest
  <2> HIDE DEF t
  <2>3. OffsetEvent(t) \in PortEvents /\ OffsetEvent(t).ev.state = t.reported
    BY <2>1, SentEvents
  <2>4. /\ <<OffsetEvent(t)>> \in Seq(PortEvents) /\ Len(<<OffsetEvent(t)>>) = 1
        /\ <<OffsetEvent(t)>>[1] = OffsetEvent(t)
    BY <2>3
  <2>5. /\ sent \in Seq(PortEvents)
        /\ \/ sent = <<>> /\ (t.reported = FREERUN => tr.reported = FREERUN)
           \/ Len(sent) = 1 /\ sent[1].ev.state = t.reported
    BY <1>d, <2>1, <2>3, <2>4
  <2> QED BY <2>1, <2>2, <2>5, LogLineInv
<1> QED BY <1>1, <1>2, <1>3, <1>4

\* The clock's handlers.
LEMMA ClockInv ==
  ASSUME LossInv,
         \/ TBCAddPtp4l
         \/ \E i, s, o : TBCAddDPLL(i, s, o)
         \/ \E s : TBCAddTs2phc(s)
         \/ \E src, i : TBCAge(src, i)
         \/ TBCReset
         \/ UNCHANGED <<tr, trEvents, trDropped, tbcData>>
  PROVE  LossInv'
<1>1. CASE TBCAddPtp4l
  <2> DEFINE e == Head(trEvents)
  <2>1. /\ trEvents # <<>> /\ trEvents' = Tail(trEvents)
        /\ tbcData' = AddAtEnd(tbcData, e.ev) /\ UNCHANGED <<tr, trDropped>>
    BY <1>1, Zenon DEF TBCAddPtp4l
  <2>2. trEvents \in Seq(PortEvents) /\ OneDetail(tbcData)
    BY DEF LossInv
  <2>3. /\ e \in PortEvents /\ e = trEvents[1]
        /\ Tail(trEvents) \in Seq(PortEvents) /\ Len(Tail(trEvents)) = Len(trEvents) - 1
        /\ Len(trEvents) \in Nat /\ Len(trEvents) >= 1
        /\ \A i \in 1..(Len(trEvents) - 1) : Tail(trEvents)[i] = trEvents[i + 1]
    BY <2>1, <2>2, HeadTail
  <2> HIDE DEF e
  <2>4. /\ OneDetail(tbcData')
        /\ e.ev.state = FREERUN => isPTPLost(tbcData')
    BY <2>1, <2>2, <2>3, PortAdded
  <2>5. ASSUME ~trDropped', tr'.reported = FREERUN
        PROVE  IF trEvents' = <<>> THEN isPTPLost(tbcData')
               ELSE trEvents'[Len(trEvents')].ev.state = FREERUN
    <3>1. trEvents[Len(trEvents)].ev.state = FREERUN
      BY <2>1, <2>5 DEF LossInv, LastTold
    <3>2. CASE trEvents' = <<>>
      <4>1. Len(trEvents) = 1
        <5>1. Len(<<>>) = 0
          OBVIOUS
        <5>2. Len(Tail(trEvents)) = 0
          BY <2>1, <3>2, <5>1, Zenon
        <5> DEFINE m == Len(trEvents)
        <5>3. m - 1 = 0 /\ m \in Nat
          BY <2>3, <5>2, Zenon
        <5> HIDE DEF m
        <5>4. m = 1
          BY <5>3
        <5> QED BY <5>4 DEF m
      <4> QED BY <2>3, <2>4, <3>1, <3>2, <4>1
    <3>3. CASE trEvents' # <<>>
      <4>1. Len(trEvents') # 0
        BY <2>1, <2>3, <3>3, EmptySeq
      <4>2. trEvents'[Len(trEvents')] = trEvents[Len(trEvents)]
        <5> DEFINE n == Len(trEvents) - 1
        <5>1. Len(trEvents') = n /\ trEvents' = Tail(trEvents)
          BY <2>1, <2>3
        <5>d. n # 0
          BY <4>1, <5>1, Zenon
        <5>2. n \in 1..n /\ n + 1 = Len(trEvents)
          BY <2>3, <5>d
        <5>3. Tail(trEvents)[n] = trEvents[n + 1]
          BY <2>3, <5>2
        <5> HIDE DEF n
        <5> QED BY <5>1, <5>2, <5>3
      <4> QED BY <3>1, <3>3, <4>2
    <3> QED BY <3>2, <3>3
  <2>6. LastTold'
    BY <2>5 DEF LastTold, isPTPLost, HasData, States
  <2> QED BY <2>1, <2>3, <2>4, <2>6 DEF LossInv, OneDetail, HasData
<1>2. ASSUME NEW ev, ev.src # "ptp4l", tbcData' = AddAtEnd(tbcData, ev),
             UNCHANGED <<tr, trEvents, trDropped>>
      PROVE  LossInv'
  <2>1. OneDetail(tbcData') /\ (isPTPLost(tbcData) => isPTPLost(tbcData'))
    BY <1>2, OthersAdded DEF LossInv
  <2> QED BY <1>2, <2>1 DEF LossInv, LastTold, OneDetail, HasData, isPTPLost, States
<1>3. ASSUME NEW i, NEW s, NEW o, TBCAddDPLL(i, s, o) PROVE LossInv'
  <2> DEFINE ev == SourceEvent("dpll", i, s, FALSE, o)
  <2>1. tbcData' = AddAtEnd(tbcData, ev) /\ UNCHANGED <<tr, trEvents, trDropped>>
    BY <1>3, Zenon DEF TBCAddDPLL, trVars
  <2>2. ev.src # "ptp4l"
    BY DEF SourceEvent
  <2> QED BY <1>2, <2>1, <2>2
<1>4. ASSUME NEW s, TBCAddTs2phc(s) PROVE LossInv'
  <2> DEFINE ev == SourceEvent("ts2phc", Leading, s, FALSE, NoOffset)
  <2>1. tbcData' = AddAtEnd(tbcData, ev) /\ UNCHANGED <<tr, trEvents, trDropped>>
    BY <1>4, Zenon DEF TBCAddTs2phc, trVars
  <2>2. ev.src # "ptp4l"
    BY DEF SourceEvent
  <2> QED BY <1>2, <2>1, <2>2
<1>5. ASSUME NEW src, NEW i, TBCAge(src, i) PROVE LossInv'
  <2>1. /\ src \in DOMAIN tbcData /\ tbcData' = [tbcData EXCEPT ![src] = Age(@, i)]
        /\ UNCHANGED <<tr, trEvents, trDropped>>
    BY <1>5 DEF TBCAge, HasData, trVars
  <2>2. OneDetail(tbcData') /\ (isPTPLost(tbcData) => isPTPLost(tbcData'))
    BY <2>1, Aged DEF LossInv
  <2> QED BY <2>1, <2>2 DEF LossInv, LastTold, OneDetail, HasData, isPTPLost, States
<1>6. CASE TBCReset
  <2>1. tbcData' = NoData /\ UNCHANGED <<tr, trEvents, trDropped>>
    BY <1>6 DEF TBCReset, trVars
  <2>2. ~HasData(NoData, "ptp4l")
    BY DEF HasData, NoData
  <2> QED BY <2>1, <2>2 DEF LossInv, LastTold, OneDetail, HasData, isPTPLost, States
<1>7. CASE UNCHANGED <<tr, trEvents, trDropped, tbcData>>
  BY <1>7 DEF LossInv, LastTold, OneDetail, HasData, isPTPLost, States
<1> QED BY <1>1, <1>3, <1>4, <1>5, <1>6, <1>7

\* "All upstream ports lost SLAVE -> aggregate LOST": with one upstream port the
\* loss the detector reported reaches the clock with its last event, through any
\* log of ptp4l, resets and other sources (processTBCTransitionHardwareConfig).
THEOREM LossSeenAlways ==
  ASSUME NEW p, TRPorts = <<p>>
  PROVE  TBCSpec => []LossSeen
<1>1. TBCInit => LossInv
  <2> SUFFICES ASSUME TBCInit PROVE LossInv
    OBVIOUS
  <2>1. tr = NewTR /\ trEvents = <<>> /\ tbcData = NoData
    BY DEF TBCInit
  <2>2. Port = p /\ Range(TRPorts) = {p}
    BY DEF Port, Range
  <2>3. NOTSET \in TRStates /\ NOTSET # FREERUN
    BY DEF TRStates, NOTSET, FREERUN
  <2>4. DetectorOK(tr)
    BY <2>1, <2>2, <2>3 DEF NewTR, DetectorOK, TROffsets
  <2>5. tr.reported = NOTSET
    BY <2>1 DEF NewTR
  <2>6. ~HasData(NoData, "ptp4l")
    BY DEF HasData, NoData
  <2> QED BY <2>1, <2>3, <2>4, <2>5, <2>6, EmptySeq DEF LossInv, OneDetail, LastTold
<1>2. LossInv /\ [TBCNext]_tbcVars => LossInv'
  <2> SUFFICES ASSUME LossInv, [TBCNext]_tbcVars PROVE LossInv'
    OBVIOUS
  <2>1. CASE \/ \E q \in Range(TRPorts) : SlaveLine(q) \/ LostLine(q)
             \/ \E o \in Ptp4lOffsets, second \in BOOLEAN : OffsetLine(o, second)
    BY <2>1, DetectorInv
  <2>2. CASE \/ TBCAddPtp4l
             \/ \E i, s, o : TBCAddDPLL(i, s, o)
             \/ \E s : TBCAddTs2phc(s)
             \/ \E src, i : TBCAge(src, i)
             \/ TBCReset
    BY <2>2, ClockInv
  <2>3. CASE \/ \E c \in UpClasses : TBCAddParentDS(c)
             \/ \E i \in 1..MaxJobs + 1, c \in UpClasses : FetchReads(i, c)
             \/ \E i \in 1..MaxJobs + 1 : FetchFails(i) \/ handleDownstreamAnnounceIWF(i)
             \/ \E i \in 1..MaxJobs + 1, ok \in BOOLEAN : JobRuns(i, ok)
             \/ TBCSystemClockUpdate(LOCKED)
             \/ UNCHANGED tbcVars
    <3>1. UNCHANGED <<tr, trEvents, trDropped, tbcData>>
      BY <2>3 DEF TBCAddParentDS, FetchReads, FetchFails, handleDownstreamAnnounceIWF, JobRuns,
                  TBCSystemClockUpdate, tbcVars, trVars
    <3> QED BY <3>1, ClockInv
  <2> QED BY <2>1, <2>2, <2>3 DEF TBCNext
<1>3. LossInv => LossSeen
  BY DEF LossInv, LastTold, LossSeen
<1> QED BY <1>1, <1>2, <1>3, PTL DEF TBCSpec
-----------------------------------------------------------------------------
(***************************************************************************)
(* The DPLL monitor.                                                       *)
(***************************************************************************)
DpllConfigs ==
  [phase : LockStatuses, freq : LockStatuses, offset : Int, inSpec : BOOLEAN,
   sourceLost : BOOLEAN, state : {FREERUN, HOLDOVER, LOCKED}, onHoldover : BOOLEAN,
   closing : BOOLEAN,
   proc : {"Created", "Starting", "Running", "Stopping", "Stopped", "Dead"}]
Goroutines ==
  [pc : {"begin", "select", "tick", "closed", "return"}, t : Nat]
Reports == [state : {FREERUN, HOLDOVER, LOCKED}, inSpec : BOOLEAN, lost : BOOLEAN]
MessageType ==
  [kind : {"device", "pin", "other", "none"}, type : {"eec", "pps"},
   status : LockStatuses, offset : Int]

\* The type of the state that the goroutines share, and of what the receiver
\* is handling.
SharedTypeOK ==
  /\ d \in DpllConfigs
  /\ hos \in Seq(Goroutines)
  /\ dpllEvents \in 0..DPLLEventsCap
  /\ told \in Reports /\ missed \in BOOLEAN
ReceiverTypeOK == receiver \in [on : BOOLEAN, msg : MessageType]

\* What makes OneHoldover inductive: a goroutine that is still there although
\* the DPLL no longer counts as in holdover was closed by a stop, and after a
\* stop no other is started.
OneHoldoverInv ==
  /\ Len(hos) <= 1
  /\ d.onHoldover => hos # <<>>
  /\ hos # <<>> => d.onHoldover \/ d.closing

SharedInv == SharedTypeOK /\ OneHoldoverInv /\ ReportCurrent
DPLLInv == SharedInv /\ ReceiverTypeOK

-----------------------------------------------------------------------------
(* The decision.                                                           *)

\* A close moves one goroutine at most, and starts or ends none.
LEMMA CloseFacts ==
  ASSUME NEW hs \in Seq(Goroutines)
  PROVE  /\ CloseHoldover(hs) \in Seq(Goroutines)
         /\ Len(CloseHoldover(hs)) = Len(hs)
<1> DEFINE w == SelectInSeq(hs, LAMBDA h : h.pc = "select")
           new == [hs EXCEPT ![w] = [hs[w] EXCEPT !.pc = "closed"]]
<1>1. w \in DOMAIN hs => [hs[w] EXCEPT !.pc = "closed"] \in Goroutines
  <2> SUFFICES ASSUME NEW k \in DOMAIN hs PROVE [hs[k] EXCEPT !.pc = "closed"] \in Goroutines
    OBVIOUS
  <2>1. hs[k] \in Goroutines
    OBVIOUS
  <2> QED BY <2>1 DEF Goroutines
<1> HIDE DEF w
<1>2. new \in Seq(Goroutines) /\ Len(new) = Len(hs)
  <2> DEFINE x == [hs[w] EXCEPT !.pc = "closed"]
  <2>1. w \in DOMAIN hs => x \in Goroutines
    BY <1>1
  <2> HIDE DEF x
  <2>2. [hs EXCEPT ![w] = x] \in Seq(Goroutines) /\ Len([hs EXCEPT ![w] = x]) = Len(hs)
    BY <2>1, ExceptFacts
  <2> QED BY <2>2 DEF x
<1>3. CloseHoldover(hs) = IF w = 0 THEN hs ELSE new
  BY DEF CloseHoldover, w
<1> QED BY <1>2, <1>3

\* A notification writes phase, frequency or offset only.
LEMMA UpdateFacts ==
  ASSUME NEW c \in DpllConfigs, NEW m \in MessageType
  PROVE  LET n == nlUpdateState(c, m) IN
         n \in DpllConfigs /\ n.onHoldover = c.onHoldover /\ n.closing = c.closing
BY DEF nlUpdateState, SetPhaseOffset, DpllConfigs, MessageType

LEMMA FreeRunFacts ==
  ASSUME NEW c \in DpllConfigs
  PROVE  freeRun(c) \in DpllConfigs /\ freeRun(c).onHoldover = c.onHoldover
           /\ freeRun(c).closing = c.closing
<1>1. FaultyPhaseOffset \in Int
  BY DPLLAssumption
<1> QED BY <1>1 DEF freeRun, DpllConfigs

\* A decision keeps holdovers as they are, or starts one where there is none
\* and none was closed by a stop.
LEMMA DecisionFacts ==
  ASSUME NEW c \in DpllConfigs, NEW hs \in Seq(Goroutines)
  PROVE  LET r == decision(c, hs) IN
         /\ r.d \in DpllConfigs /\ r.hos \in Seq(Goroutines)
         /\ r.d.closing = c.closing
         /\ \/ r.d.onHoldover = c.onHoldover /\ Len(r.hos) = Len(hs)
            \/ ~c.onHoldover /\ ~c.closing /\ r.d.onHoldover /\ Len(r.hos) = Len(hs) + 1
<1> DEFINE Goal(r) ==
      /\ r.d \in DpllConfigs /\ r.hos \in Seq(Goroutines)
      /\ r.d.closing = c.closing
      /\ \/ r.d.onHoldover = c.onHoldover /\ Len(r.hos) = Len(hs)
         \/ ~c.onHoldover /\ ~c.closing /\ r.d.onHoldover /\ Len(r.hos) = Len(hs) + 1
<1>a. CloseHoldover(hs) \in Seq(Goroutines) /\ Len(CloseHoldover(hs)) = Len(hs)
  BY CloseFacts
<1>b. freeRun(c) \in DpllConfigs /\ freeRun(c).onHoldover = c.onHoldover /\ freeRun(c).closing = c.closing
  BY FreeRunFacts
<1>1. Goal(onFreerun(c, hs))
  <2>1. LET n == [freeRun(c) EXCEPT !.inSpec = FALSE, !.sourceLost = TRUE] IN
        n \in DpllConfigs /\ n.onHoldover = c.onHoldover /\ n.closing = c.closing
    BY <1>b DEF DpllConfigs
  <2> QED BY <1>a, <2>1 DEF onFreerun, Decided
<1>2. Goal(onDPLLHoldover(c, hs))
  <2>1. LET n == [freeRun(c) EXCEPT !.sourceLost = TRUE] IN
        n \in DpllConfigs /\ n.onHoldover = c.onHoldover /\ n.closing = c.closing
    BY <1>b DEF DpllConfigs
  <2>2. LET n == [c EXCEPT !.onHoldover = TRUE, !.state = HOLDOVER] IN
        n \in DpllConfigs /\ n.onHoldover /\ n.closing = c.closing
    BY DEF DpllConfigs
  <2>3. NewHoldover \in Goroutines
    BY DEF NewHoldover, Goroutines
  <2>4. Append(hs, NewHoldover) \in Seq(Goroutines) /\ Len(Append(hs, NewHoldover)) = Len(hs) + 1
    BY <2>3
  <2> QED BY <1>a, <1>b, <2>1, <2>2, <2>4 DEF onDPLLHoldover, startsHoldover, Decided
<1>3. Goal(onLocked(c, hs))
  <2>1. LET n == [c EXCEPT !.inSpec = TRUE, !.sourceLost = FALSE, !.state = LOCKED] IN
        n \in DpllConfigs /\ n.onHoldover = c.onHoldover /\ n.closing = c.closing
    BY DEF DpllConfigs
  <2>2. LET n == [freeRun(c) EXCEPT !.inSpec = FALSE] IN
        n \in DpllConfigs /\ n.onHoldover = c.onHoldover /\ n.closing = c.closing
    BY <1>b DEF DpllConfigs
  <2> QED BY <1>a, <2>1, <2>2 DEF onLocked, Decided
<1> QED BY <1>1, <1>2, <1>3 DEF decision

-----------------------------------------------------------------------------
(* Steps.                                                                  *)

\* An event that enters the channel tells what was sent; one that does not is
\* marked as missed.
LEMMA DpllSendFacts ==
  ASSUME NEW c \in DpllConfigs, SharedTypeOK, sendDpllEvent(c)
  PROVE  /\ dpllEvents' \in 0..DPLLEventsCap /\ told' \in Reports /\ missed' \in BOOLEAN
         /\ ~missed' => told' = Event(c)
<1>1. Event(c) \in Reports
  BY DEF Event, Reports, DpllConfigs
<1>2. DPLLEventsCap \in Nat
  BY DPLLAssumption
<1>3. dpllEvents \in 0..DPLLEventsCap /\ told \in Reports
  BY DEF SharedTypeOK
<1>4. CASE dpllEvents < DPLLEventsCap
  <2>1. dpllEvents' = dpllEvents + 1 /\ told' = Event(c) /\ missed' = FALSE
    BY <1>4 DEF sendDpllEvent
  <2>2. dpllEvents' \in 0..DPLLEventsCap
    BY <2>1, <1>2, <1>3, <1>4
  <2> QED BY <1>1, <2>1, <2>2
<1>5. CASE ~(dpllEvents < DPLLEventsCap)
  BY <1>3, <1>5 DEF sendDpllEvent
<1> QED BY <1>4, <1>5

\* Every change of the DPLL that ends with an event for it, keeps the closing
\* mark and, for as many goroutines, whether the DPLL is in holdover.
LEMMA SentKeepsInv ==
  ASSUME SharedInv, NEW c \in DpllConfigs, NEW hs \in Seq(Goroutines),
         d' = c, hos' = hs, sendDpllEvent(c), c.closing = d.closing,
         \/ c.onHoldover = d.onHoldover /\ Len(hs) = Len(hos)
         \/ ~d.onHoldover /\ ~d.closing /\ c.onHoldover /\ Len(hs) = Len(hos) + 1
  PROVE  SharedInv'
<1>1. dpllEvents' \in 0..DPLLEventsCap /\ told' \in Reports /\ missed' \in BOOLEAN
  BY DpllSendFacts DEF SharedInv
<1>2. SharedTypeOK'
  BY <1>1 DEF SharedTypeOK
<1>3. ReportCurrent'
  <2>1. ~missed' => told' = Event(c)
    BY DpllSendFacts DEF SharedInv
  <2> QED BY <2>1 DEF ReportCurrent, Event
<1>4. hos \in Seq(Goroutines)
  BY DEF SharedInv, SharedTypeOK
<1>5. OneHoldoverInv'
  <2>1. /\ Len(hos) \in Nat /\ Len(hs) \in Nat
        /\ hos = <<>> <=> Len(hos) = 0
        /\ hs = <<>> <=> Len(hs) = 0
    BY <1>4
  <2> QED BY <2>1 DEF SharedInv, OneHoldoverInv
<1> QED BY <1>2, <1>3, <1>5 DEF SharedInv

\* A decision on the present DPLL as a notification has changed it.
LEMMA DecisionKeepsInv ==
  ASSUME SharedInv, NEW c \in DpllConfigs, stateDecision(c),
         c.onHoldover = d.onHoldover, c.closing = d.closing
  PROVE  SharedInv'
<1> PICK r \in {decision(c, hos)} : d' = r.d /\ hos' = r.hos /\ sendDpllEvent(r.d)
  BY DEF stateDecision
<1>1. hos \in Seq(Goroutines)
  BY DEF SharedInv, SharedTypeOK
<1>2. /\ r.d \in DpllConfigs /\ r.hos \in Seq(Goroutines) /\ r.d.closing = c.closing
      /\ \/ r.d.onHoldover = c.onHoldover /\ Len(r.hos) = Len(hos)
         \/ ~c.onHoldover /\ ~c.closing /\ r.d.onHoldover /\ Len(r.hos) = Len(hos) + 1
  BY <1>1, DecisionFacts
<1> QED BY <1>2, SentKeepsInv

LEMMA UpdateKeepsInv ==
  ASSUME SharedInv, NEW m \in MessageType, applyStateUpdate(m)
  PROVE  SharedInv'
<1>1. CASE relevant(m)
  <2>1. d \in DpllConfigs
    BY DEF SharedInv, SharedTypeOK
  <2>2. /\ nlUpdateState(d, m) \in DpllConfigs
        /\ nlUpdateState(d, m).onHoldover = d.onHoldover
        /\ nlUpdateState(d, m).closing = d.closing
    BY <2>1, UpdateFacts
  <2> QED BY <1>1, <2>2, DecisionKeepsInv DEF applyStateUpdate
<1>2. CASE ~relevant(m)
  BY <1>2 DEF applyStateUpdate, SharedInv, SharedTypeOK, OneHoldoverInv, ReportCurrent
<1> QED BY <1>1, <1>2

LEMMA MessagesTyped == Messages \subseteq MessageType
<1>1. PinOffsets \subseteq Int /\ Reported \subseteq LockStatuses
  BY DPLLAssumption DEF LockStatuses
<1>2. \A t \in {"eec", "pps"}, s \in Reported : DeviceMsg(t, s) \in MessageType
  BY <1>1 DEF DeviceMsg, MessageType
<1>3. \A o \in PinOffsets : PinMsg(o) \in MessageType
  BY <1>1 DEF PinMsg, MessageType, LockStatuses
<1>4. OtherMsg \in MessageType
  BY DEF OtherMsg, MessageType, LockStatuses
<1> QED BY <1>2, <1>3, <1>4 DEF Messages

LEMMA NoMsgTyped == NoMsg \in MessageType
BY DEF NoMsg, MessageType, LockStatuses

\* A change of the process state, a stop that ends the holdover among them.
LEMMA ProcKeepsInv ==
  ASSUME SharedInv, NEW p \in {"Starting", "Running", "Stopping"},
         d' = [d EXCEPT !.proc = p], UNCHANGED <<hos, dpllEvents, told, missed>>
  PROVE  SharedInv'
<1>1. d' \in DpllConfigs /\ d'.onHoldover = d.onHoldover /\ d'.closing = d.closing
  BY DEF SharedInv, SharedTypeOK, DpllConfigs
<1>2. d'.state = d.state /\ d'.inSpec = d.inSpec /\ d'.sourceLost = d.sourceLost
  BY DEF SharedInv, SharedTypeOK, DpllConfigs
<1> QED BY <1>1, <1>2 DEF SharedInv, SharedTypeOK, OneHoldoverInv, ReportCurrent, Event

LEMMA LeftKeepsInv ==
  ASSUME SharedInv, Left
  PROVE  SharedInv'
<1> DEFINE c == [d EXCEPT !.onHoldover = FALSE, !.closing = @ \/ d.onHoldover, !.proc = "Stopped"]
<1>0. d' = c /\ UNCHANGED <<hos, dpllEvents, told, missed>>
  BY DEF Left
<1>t. d \in DpllConfigs /\ d.onHoldover \in BOOLEAN /\ d.closing \in BOOLEAN
  BY DEF SharedInv, SharedTypeOK, DpllConfigs
<1>1. c \in DpllConfigs
  BY <1>t DEF DpllConfigs
<1>2. /\ c.onHoldover = FALSE
      /\ c.closing = (d.closing \/ d.onHoldover)
      /\ c.state = d.state /\ c.inSpec = d.inSpec /\ c.sourceLost = d.sourceLost
  BY <1>t DEF DpllConfigs
<1> HIDE DEF c
<1> QED BY <1>0, <1>1, <1>2 DEF SharedInv, SharedTypeOK, OneHoldoverInv, ReportCurrent, Event

-----------------------------------------------------------------------------
(* Steps of a holdover goroutine.                                          *)

\* A goroutine moves while the DPLL keeps its holdover and closing marks: the
\* goroutine is there before and after, so nothing is promised of the event.
LEMMA MoveKeepsInv ==
  ASSUME SharedInv, NEW i \in DOMAIN hos, NEW h \in Goroutines, NEW c \in DpllConfigs,
         hos' = [hos EXCEPT ![i] = h], d' = c,
         c.onHoldover = d.onHoldover, c.closing = d.closing,
         sendDpllEvent(c) \/ UNCHANGED <<dpllEvents, told, missed>>
  PROVE  SharedInv'
<1>1. hos \in Seq(Goroutines)
  BY DEF SharedInv, SharedTypeOK
<1>2. hos' \in Seq(Goroutines) /\ Len(hos') = Len(hos)
  BY <1>1, ExceptFacts
<1>3. Len(hos) >= 1 /\ hos # <<>> /\ hos' # <<>>
  <2>1. i \in 1..Len(hos) /\ Len(hos) \in Nat
    BY <1>1, LenProperties
  <2> QED BY <2>1, <1>2, EmptySeq
<1>4. dpllEvents' \in 0..DPLLEventsCap /\ told' \in Reports /\ missed' \in BOOLEAN
  <2>1. CASE sendDpllEvent(c)
    BY <2>1, DpllSendFacts DEF SharedInv
  <2>2. CASE UNCHANGED <<dpllEvents, told, missed>>
    BY <2>2 DEF SharedInv, SharedTypeOK
  <2> QED BY <2>1, <2>2
<1>5. SharedTypeOK'
  BY <1>2, <1>4 DEF SharedTypeOK
<1>6. OneHoldoverInv'
  BY <1>2, <1>3 DEF SharedInv, OneHoldoverInv
<1>7. ReportCurrent'
  BY <1>3 DEF ReportCurrent
<1> QED BY <1>5, <1>6, <1>7 DEF SharedInv

LEMMA HoldoverStepKeepsInv ==
  ASSUME SharedInv, NEW i \in DOMAIN hos, HoldoverStep(i)
  PROVE  SharedInv'
<1>t. d \in DpllConfigs /\ hos \in Seq(Goroutines)
  BY DEF SharedInv, SharedTypeOK
<1>h. hos[i] \in Goroutines
  BY <1>t
<1>f. LocalHoldoverTimeout \in Nat /\ LocalMaxHoldoverOffSet \in Nat
  BY DPLLAssumption
<1>m. \A pc \in {"select", "closed", "return"} : [hos[i] EXCEPT !.pc = pc] \in Goroutines
  BY <1>h DEF Goroutines
<1>r. /\ freeRun(d) \in DpllConfigs /\ freeRun(d).onHoldover = d.onHoldover
      /\ freeRun(d).closing = d.closing
  BY <1>t, FreeRunFacts
<1> DEFINE fallen == [freeRun(d) EXCEPT !.inSpec = FALSE]
<1>fallen. fallen \in DpllConfigs /\ fallen.onHoldover = d.onHoldover /\ fallen.closing = d.closing
  BY <1>r DEF DpllConfigs
<1>1. CASE HoldoverBegins(i)
  BY <1>1, <1>t, <1>m, MoveKeepsInv DEF HoldoverBegins, Move
<1>2. CASE TickOffset(i)
  <2> DEFINE c == [d EXCEPT !.offset = OffsetAt(hos[i].t + 1)]
             h == [pc |-> "tick", t |-> hos[i].t + 1]
  <2>1. hos' = [hos EXCEPT ![i] = h] /\ d' = c /\ UNCHANGED <<dpllEvents, told, missed>>
    BY <1>2 DEF TickOffset
  <2>2. hos[i].t \in Nat /\ hos[i].t < LocalHoldoverTimeout
    BY <1>2, <1>h DEF TickOffset, Goroutines
  <2>3. h \in Goroutines
    BY <2>2 DEF Goroutines
  <2>4. OffsetAt(hos[i].t + 1) \in Int
    <3>1. LocalMaxHoldoverOffSet * (hos[i].t + 1) \in Int
      BY <2>2, <1>f
    <3>2. LocalHoldoverTimeout > 0
      BY <2>2, <1>f
    <3> HIDE DEF c, h
    <3> QED BY <3>1, <3>2, <1>f DEF OffsetAt
  <2>5. c \in DpllConfigs /\ c.onHoldover = d.onHoldover /\ c.closing = d.closing
    BY <1>t, <2>4 DEF DpllConfigs
  <2> HIDE DEF c, h
  <2> QED BY <2>1, <2>3, <2>5, MoveKeepsInv
<1>3. CASE TickState(i)
  <2> DEFINE out == ~isInSpecOffsetInRange(d)
             c == IF conf.src = "gnss"
                  THEN IF out THEN [freeRun(d) EXCEPT !.inSpec = FALSE] ELSE d
                  ELSE [d EXCEPT !.inSpec = @ /\ ~out, !.state = HOLDOVER]
             pc == IF conf.src = "gnss" /\ out THEN "return" ELSE "select"
             h == [hos[i] EXCEPT !.pc = pc]
  <2>1. hos' = [hos EXCEPT ![i] = h] /\ d' = c /\ sendDpllEvent(c)
    BY <1>3 DEF TickState, Move
  <2>2. h \in Goroutines
    BY <1>m
  <2>3. c \in DpllConfigs /\ c.onHoldover = d.onHoldover /\ c.closing = d.closing
    <3>1. out \in BOOLEAN
      BY DEF isInSpecOffsetInRange
    <3> HIDE DEF out
    <3>2. LET e == [d EXCEPT !.inSpec = @ /\ ~out, !.state = HOLDOVER] IN
          e \in DpllConfigs /\ e.onHoldover = d.onHoldover /\ e.closing = d.closing
      BY <1>t, <3>1 DEF DpllConfigs
    <3> QED BY <1>t, <3>2, <1>fallen
  <2> HIDE DEF c, h
  <2> QED BY <2>1, <2>2, <2>3, MoveKeepsInv
<1>4. CASE HoldoverTimeout(i)
  <2>1. /\ hos' = [hos EXCEPT ![i] = [hos[i] EXCEPT !.pc = "return"]]
        /\ d' = fallen /\ sendDpllEvent(fallen)
    BY <1>4 DEF HoldoverTimeout, Move
  <2> HIDE DEF fallen
  <2> QED BY <2>1, <1>m, <1>fallen, MoveKeepsInv
<1>5. CASE HoldoverClosed(i)
  <2> DEFINE c == [d EXCEPT !.inSpec = TRUE]
  <2>1. /\ hos' = [hos EXCEPT ![i] = [hos[i] EXCEPT !.pc = "return"]]
        /\ d' = c /\ UNCHANGED <<dpllEvents, told, missed>>
    BY <1>5 DEF HoldoverClosed, Move
  <2>2. c \in DpllConfigs /\ c.onHoldover = d.onHoldover /\ c.closing = d.closing
    BY <1>t DEF DpllConfigs
  <2> HIDE DEF c
  <2> QED BY <2>1, <2>2, <1>m, MoveKeepsInv
<1>6. CASE HoldoverReturns(i)
  <2> DEFINE c == [d EXCEPT !.onHoldover = FALSE]
  <2>1. hos' = RemoveAt(hos, i) /\ d' = c /\ sendDpllEvent(c)
    BY <1>6 DEF HoldoverReturns, endsWith
  <2>2. c \in DpllConfigs /\ ~c.onHoldover
    BY <1>t DEF DpllConfigs
  <2> HIDE DEF c
  <2>3. hos' \in Seq(Goroutines) /\ Len(hos') = Len(hos) - 1
    BY <1>t, <2>1, RemoveAtFacts
  <2>4. Len(hos') = 0 /\ hos' = <<>>
    <3>1. Len(hos) \in Nat /\ i \in 1..Len(hos)
      BY <1>t, LenProperties
    <3>2. Len(hos') = 0
      BY <2>3, <3>1 DEF SharedInv, OneHoldoverInv
    <3> QED BY <3>2, <2>3
  <2>5. /\ dpllEvents' \in 0..DPLLEventsCap /\ told' \in Reports /\ missed' \in BOOLEAN
        /\ ~missed' => told' = Event(c)
    BY <2>1, <2>2, DpllSendFacts DEF SharedInv
  <2>6. ReportCurrent'
    BY <2>1, <2>5 DEF ReportCurrent, Event
  <2>7. SharedTypeOK'
    BY <2>1, <2>2, <2>3, <2>5 DEF SharedTypeOK
  <2>8. OneHoldoverInv'
    BY <2>1, <2>2, <2>4 DEF OneHoldoverInv
  <2> QED BY <2>6, <2>7, <2>8 DEF SharedInv
<1> QED BY <1>1, <1>2, <1>3, <1>4, <1>5, <1>6 DEF HoldoverStep

-----------------------------------------------------------------------------
(* The specification.                                                      *)

LEMMA DPLLInvInit == DPLLInit => DPLLInv
<1> SUFFICES ASSUME DPLLInit PROVE DPLLInv
  OBVIOUS
<1>1. FaultyPhaseOffset \in Int /\ DPLLEventsCap \in Nat
  BY DPLLAssumption
<1>2. NewDpll \in DpllConfigs
  BY <1>1 DEF NewDpll, DpllConfigs, LockStatuses
<1>3. Event(NewDpll) \in Reports
  BY <1>2 DEF Event, Reports, DpllConfigs
<1>4. ~NewDpll.onHoldover
  BY DEF NewDpll
<1>5. hos \in Seq(Goroutines) /\ Len(hos) = 0
  BY EmptySeq DEF DPLLInit
<1>6. SharedTypeOK
  <2>1. dpllEvents \in 0..DPLLEventsCap
    BY <1>1 DEF DPLLInit
  <2> QED BY <2>1, <1>2, <1>3, <1>5 DEF DPLLInit, SharedTypeOK
<1>7. OneHoldoverInv
  BY <1>4, <1>5 DEF DPLLInit, OneHoldoverInv
<1>8. ReportCurrent
  BY DEF DPLLInit, ReportCurrent
<1>9. ReceiverTypeOK
  BY NoMsgTyped DEF DPLLInit, ReceiverTypeOK
<1> QED BY <1>6, <1>7, <1>8, <1>9 DEF DPLLInv, SharedInv

LEMMA DPLLInvNext == DPLLInv /\ [DPLLNext]_dpllVars => DPLLInv'
<1> SUFFICES ASSUME DPLLInv, [DPLLNext]_dpllVars PROVE DPLLInv'
  OBVIOUS
<1>s. SharedInv /\ ReceiverTypeOK
  BY DEF DPLLInv
<1>m. receiver.on \in BOOLEAN /\ receiver.msg \in MessageType
  BY <1>s DEF ReceiverTypeOK
<1>1. CASE ClockTakes
  <2>1. dpllEvents' \in 0..DPLLEventsCap
    <3>1. DPLLEventsCap \in Nat /\ dpllEvents \in 0..DPLLEventsCap
      BY <1>s, DPLLAssumption DEF SharedInv, SharedTypeOK
    <3> QED BY <3>1, <1>1 DEF ClockTakes
  <2> QED BY <2>1, <1>1, <1>s DEF ClockTakes, DPLLInv, SharedInv, SharedTypeOK, OneHoldoverInv,
        ReportCurrent, ReceiverTypeOK
<1>2. CASE Start
  BY <1>2, <1>s, ProcKeepsInv DEF Start, DPLLInv, ReceiverTypeOK
<1>3. CASE run
  BY <1>3, <1>s, ProcKeepsInv DEF run, DPLLInv, ReceiverTypeOK
<1>4. CASE Stop
  BY <1>4, <1>s, ProcKeepsInv DEF Stop, DPLLInv, ReceiverTypeOK
<1>5. CASE Apply
  <2>1. SharedInv'
    BY <1>5, <1>s, <1>m, UpdateKeepsInv DEF Apply
  <2>2. ReceiverTypeOK'
    BY <1>5, <1>s, <1>m, NoMsgTyped DEF Apply, ReceiverTypeOK
  <2> QED BY <2>1, <2>2 DEF DPLLInv
<1>6. CASE ReceiverEnds
  <2>1. ReceiverTypeOK'
    BY <1>6, <1>s, <1>m DEF ReceiverEnds, ReceiverTypeOK
  <2> QED BY <2>1, <1>6, <1>s DEF ReceiverEnds, DPLLInv, SharedInv, SharedTypeOK, OneHoldoverInv,
        ReportCurrent
<1>7. CASE Leave
  <2>1. dpllEvents' \in 0..DPLLEventsCap
    <3>1. DPLLEventsCap \in Nat /\ dpllEvents \in 0..DPLLEventsCap
      BY <1>s, DPLLAssumption DEF SharedInv, SharedTypeOK
    <3> QED BY <3>1, <1>7 DEF Leave
  <2> QED BY <2>1, <1>7, <1>s DEF Leave, DPLLInv, SharedInv, SharedTypeOK, OneHoldoverInv,
        ReportCurrent, ReceiverTypeOK
<1>8. CASE Left
  BY <1>8, <1>s, LeftKeepsInv DEF Left, DPLLInv, ReceiverTypeOK
<1>9. ASSUME NEW m \in Messages, SyncInitialState(m) PROVE DPLLInv'
  BY <1>9, <1>s, MessagesTyped, UpdateKeepsInv DEF SyncInitialState, DPLLInv, ReceiverTypeOK
<1>10. ASSUME NEW m \in Messages, Receive(m) PROVE DPLLInv'
  <2>1. ReceiverTypeOK'
    BY <1>10, <1>s, <1>m, MessagesTyped DEF Receive, ReceiverTypeOK
  <2> QED BY <2>1, <1>10, <1>s DEF Receive, DPLLInv, SharedInv, SharedTypeOK, OneHoldoverInv,
        ReportCurrent
<1>11. ASSUME NEW m \in Messages, NEW ok \in BOOLEAN, Dial(m, ok) PROVE DPLLInv'
  <2>1. CASE ok
    <3>1. SharedInv'
      BY <1>11, <2>1, <1>s, MessagesTyped, UpdateKeepsInv DEF Dial
    <3>2. ReceiverTypeOK'
      <4>1. receiver' = [on |-> TRUE, msg |-> NoMsg]
        BY <1>11, <2>1 DEF Dial
      <4> QED BY <4>1, NoMsgTyped DEF ReceiverTypeOK
    <3> QED BY <3>1, <3>2 DEF DPLLInv
  <2>2. CASE ~ok
    BY <1>11, <2>2, <1>s DEF Dial, DPLLInv, SharedInv, SharedTypeOK, OneHoldoverInv,
      ReportCurrent, ReceiverTypeOK
  <2> QED BY <2>1, <2>2
<1>12. ASSUME NEW i \in DOMAIN hos, HoldoverStep(i) PROVE DPLLInv'
  <2>1. UNCHANGED receiver
    BY <1>12 DEF HoldoverStep, HoldoverBegins, TickOffset, TickState, HoldoverTimeout,
      HoldoverClosed, HoldoverReturns, others
  <2> QED BY <2>1, <1>12, <1>s, HoldoverStepKeepsInv DEF DPLLInv, ReceiverTypeOK
<1>13. CASE UNCHANGED dpllVars
  BY <1>13, <1>s DEF dpllVars, DPLLInv, SharedInv, SharedTypeOK, OneHoldoverInv, ReportCurrent,
    ReceiverTypeOK
<1> QED BY <1>1, <1>2, <1>3, <1>4, <1>5, <1>6, <1>7, <1>8, <1>9, <1>10, <1>11, <1>12, <1>13
      DEF DPLLNext

\* The state the goroutines share keeps its type and the invariant below.
THEOREM DPLLInvariant == DPLLSpec => []DPLLInv
<1> QED BY DPLLInvInit, DPLLInvNext, PTL DEF DPLLSpec

\* However holdovers are started, closed and left behind by a stop, one
\* goroutine at most writes the state of the DPLL, and a DPLL that says it is
\* in holdover has one (stateDecision, holdover() and the deferred end).
THEOREM OneHoldoverAlways == DPLLSpec => []OneHoldover
<1>1. DPLLInv => OneHoldover
  BY DEF DPLLInv, SharedInv, OneHoldoverInv, OneHoldover
<1> QED BY <1>1, DPLLInvariant, PTL

\* Unless the last event met a full channel, a DPLL without a holdover
\* goroutine has told the clock its present state (sendDpllEvent).
THEOREM ReportCurrentAlways == DPLLSpec => []ReportCurrent
<1>1. DPLLInv => ReportCurrent
  BY DEF DPLLInv, SharedInv
<1> QED BY <1>1, DPLLInvariant, PTL
=============================================================================
