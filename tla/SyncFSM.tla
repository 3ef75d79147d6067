------------------------------- MODULE SyncFSM ------------------------------
(***************************************************************************)
(* What a telecom boundary clock promises about the state and the clock    *)
(* class it reports, whatever its sources do (the machine the comments and *)
(* log messages "BC FSM: ..." of pkg/clock/tbc.go speak of):               *)
(*   - holdover is entered from LOCKED only and starts within the          *)
(*     specification (class 135);                                          *)
(*   - it leaves the specification once (class 165) and never returns to   *)
(*     it without having been locked;                                      *)
(*   - the upstream class is passed on while LOCKED only;                  *)
(*   - falling to FREERUN is always reported with class 248.               *)
(***************************************************************************)
EXTENDS PTPState

CONSTANTS
  UpstreamClasses,  \* classes a parent data set can carry
  NoClass           \* the class before any was learnt

VARIABLES state, class

fsmVars == <<state, class>>

FSMInit == state = NOTSET /\ class = NoClass

Lock      == state \in {NOTSET, FREERUN, HOLDOVER} /\ state' = LOCKED /\ class' = class
PassOn    == state = LOCKED /\ state' = LOCKED /\ class' \in UpstreamClasses \cup {NoClass}
HoldOver  == state = LOCKED /\ state' = HOLDOVER /\ class' = 135
OutOfSpec == state = HOLDOVER /\ state' = HOLDOVER /\ class' = 165
FreeRun   == state \in {NOTSET, LOCKED, HOLDOVER} /\ state' = FREERUN /\ class' = 248
Forget    == state' = NOTSET /\ class' = NoClass

FSMNext == Lock \/ PassOn \/ HoldOver \/ OutOfSpec \/ FreeRun \/ Forget

FSMSpec == FSMInit /\ [][FSMNext]_fsmVars
=============================================================================
