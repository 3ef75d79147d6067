------------------------------ MODULE PTPState ------------------------------
(***************************************************************************)
(* The synchronization states of pkg/event and the operators of pkg/clock  *)
(* that rank and combine them.  "EMPTY" is Go's zero value of PTPState,    *)
(* which a GM clock holds after Reset (gm.go assigns SyncState{}): it is   *)
(* neither NOTSET nor UNKNOWN.                                             *)
(***************************************************************************)

NOTSET   == "NOTSET"
UNKNOWN  == "UNKNOWN"
EMPTY    == "EMPTY"
FREERUN  == "FREERUN"
HOLDOVER == "HOLDOVER"
LOCKED   == "LOCKED"

PTPStates == {NOTSET, UNKNOWN, EMPTY, FREERUN, HOLDOVER, LOCKED}

\* What an IPC message can say (PtpStateToIPCState is onto this set).
IPCStates == {FREERUN, HOLDOVER, LOCKED}

PtpStateToIPCState(s) == IF s \in {LOCKED, HOLDOVER} THEN s ELSE FREERUN

\* The more degraded of two states; whatever is none of NOTSET, FREERUN and
\* HOLDOVER counts as LOCKED.
WorstOfState(a, b) ==
  IF NOTSET \in {a, b} THEN NOTSET
  ELSE IF FREERUN \in {a, b} THEN FREERUN
  ELSE IF HOLDOVER \in {a, b} THEN HOLDOVER
  ELSE LOCKED

\* The loop of WorstOfPtpStates over the states f[x] of the clocks x: NOTSET
\* and UNKNOWN are skipped, a single remaining state is returned as it is, two
\* or more are folded with WorstOfState.
WorstOfPtpStates(f) ==
  LET real == {x \in DOMAIN f : f[x] \notin {NOTSET, UNKNOWN}}
      Some(s) == \E x \in real : f[x] = s
  IN  CASE real = {} -> NOTSET
        [] \E x \in real : real = {x} -> f[CHOOSE x \in real : TRUE]
        [] OTHER -> IF Some(FREERUN) THEN FREERUN
                    ELSE IF Some(HOLDOVER) THEN HOLDOVER ELSE LOCKED

\* The healthiest of the states in S, NOTSET when there is none: the code's
\* operator on two states, folded from NOTSET.
bestOfState(S) ==
  IF LOCKED \in S THEN LOCKED ELSE IF HOLDOVER \in S THEN HOLDOVER
  ELSE IF FREERUN \in S THEN FREERUN ELSE NOTSET
=============================================================================
