---------------------------- MODULE MCComponents ----------------------------
(***************************************************************************)
(* Small instances of six components that share no state: part says whose  *)
(* behaviour this is, and the other five keep one initial state.           *)
(***************************************************************************)
EXTENDS GMClock, HAClock, MCHardwareConfig, TS2PHCPoll, LeapManager, PHCFirstStep

VARIABLE part

vars == <<part, gmVars, haVars, hwVars, tsVars, leapVars, fsVars>>

Init ==
  /\ part \in {"gm", "ha", "hardware", "ts2phc", "leap", "firststep"}
  /\ GMInit /\ HAInit /\ HWInit /\ TSInit /\ LeapInit /\ FSInit
  /\ watch.iface = "i1"                 \* the interfaces are alike
  /\ part # "ts2phc" => watch.phc = "p1"
  /\ part # "leap" => sky.change = 1 /\ leapCM = <<>>
  /\ part # "firststep" => phc = 0 /\ deviation = 0

Next ==
  \/ part = "gm" /\ GMNext
       /\ UNCHANGED <<part, haVars, hwVars, tsVars, leapVars, fsVars>>
  \/ part = "ha" /\ HANext
       /\ UNCHANGED <<part, gmVars, hwVars, tsVars, leapVars, fsVars>>
  \/ part = "hardware" /\ HWNext
       /\ UNCHANGED <<part, gmVars, haVars, tsVars, leapVars, fsVars>>
  \/ part = "ts2phc" /\ TSNext
       /\ UNCHANGED <<part, gmVars, haVars, hwVars, leapVars, fsVars>>
  \/ part = "leap" /\ LeapNext
       /\ UNCHANGED <<part, gmVars, haVars, hwVars, tsVars, fsVars>>
  \/ part = "firststep" /\ FSNext
       /\ UNCHANGED <<part, gmVars, haVars, hwVars, tsVars, leapVars>>

Spec == Init /\ [][Next]_vars

-----------------------------------------------------------------------------
\* ts2phc: two interfaces, each with its PHC.
MCPhc == "i1" :> "p1" @@ "i2" :> "p2"

\* Leap seconds: one is added or taken away; the file knows the last one.
MCChanges == {1, -1}
MCFile == <<[at |-> -2, sec |-> 36], [at |-> -1, sec |-> 37]>>

\* First step: seconds of five nanoseconds, integers of five bits.
MCMinInt == -16
MCPHCTimes == -16..15
MCDeviations == -9..9
MCStepProfile ==
  [selected |-> TRUE, ports |-> "eth0" :> "masterOnly 0" @@ "eth1" :> "masterOnly 1",
   leading |-> "", e825 |-> <<"eth0">>, phcs |-> "eth0" :> "ptp0", timeout |-> "none"]
MCStepProfiles ==
  {MCStepProfile, [MCStepProfile EXCEPT !.timeout = "invalid"],
   [MCStepProfile EXCEPT !.leading = "eth1"]}
=============================================================================
