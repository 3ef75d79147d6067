---------------------------- MODULE PHCFirstStep ----------------------------
(***************************************************************************)
(* The phc-first-step plugin (addons/phcfirststep/phc_first_step.go): when *)
(* a profile that selects it is applied, ptp4l measures the offset of the  *)
(* time receiver ports without steering, and the PHC of the leading NIC is *)
(* set to the corrected time through phc_ctl, at most twice.               *)
(*                                                                         *)
(* Time goes to and from phc_ctl as a decimal number of seconds, below its *)
(* parts: whole seconds and nanoseconds.  Integers have the width of the   *)
(* code's; the PHC and the time transmitter run at one rate.               *)
(***************************************************************************)
EXTENDS Integers, Sequences

CONSTANTS
  NanosPerSecond,      \* nanosecondsPerSecond (10^9)
  MinInt, MaxInt,      \* range of int64
  ResidualThreshold,   \* residualOffsetThreshold
  PHCTimes, Deviations,  \* times and offsets of the PHC when the plugin runs
  MaxError, MaxDelay,  \* of a measurement; between reading the PHC and setting it
  StepProfiles         \* profiles that are applied

ASSUME FirstStepAssumption ==
  /\ NanosPerSecond \in Nat \ {0} /\ MinInt \in Int /\ MinInt < 0 /\ MaxInt \in Nat
  /\ PHCTimes \subseteq Int /\ Deviations \subseteq Int
  /\ ResidualThreshold \in Nat /\ MaxError \in Nat /\ MaxDelay \in Nat
  /\ \A p \in StepProfiles : p.timeout \in {"none", "given", "invalid"}

VARIABLES
  fs,         \* the call: pc, profile, adjustment, the values it holds
  phc,        \* the PHC's time
  deviation   \* how far it is ahead of the time transmitter

fsVars == <<fs, phc, deviation>>

NotCalled == [pc |-> "off", profile |-> CHOOSE p \in StepProfiles : TRUE,
              adjustment |-> 0, offset |-> 0, time |-> 0]

-----------------------------------------------------------------------------
(* Numbers.                                                                *)

InRange(n) == MinInt <= n /\ n <= MaxInt

\* Division of the machine, which truncates.
Quot(a, b) == IF a >= 0 THEN a \div b ELSE -((-a) \div b)
Rem(a, b) == a - b * Quot(a, b)

noBorrow(v) == [sec |-> Quot(v, NanosPerSecond),
                nsec |-> IF Rem(v, NanosPerSecond) < 0 THEN Rem(v, NanosPerSecond) + NanosPerSecond
                         ELSE Rem(v, NanosPerSecond)]
formatNS(v) ==
  LET s == Quot(v, NanosPerSecond)
      n == Rem(v, NanosPerSecond)
  IN  IF n < 0 THEN [sec |-> s - 1, nsec |-> n + NanosPerSecond] ELSE [sec |-> s, nsec |-> n]

\* What phc_ctl prints and takes.
PhcCtl(v) == [sec |-> v \div NanosPerSecond, nsec |-> v % NanosPerSecond]
PhcCtlValue(t) == t.sec * NanosPerSecond + t.nsec

\* The first second of the range is a part of one: the product for it would
\* overflow where the sum does not.
Overflow == MaxInt + 1
phcSecondsToNS(t) ==
  LET min == Quot(MinInt, NanosPerSecond)
      max == Quot(MaxInt, NanosPerSecond)
      minNanos == NanosPerSecond + Rem(MinInt, NanosPerSecond)
      base == t.sec * NanosPerSecond
  IN  IF t.sec < min - 1 \/ t.sec > max THEN Overflow
      ELSE IF t.sec = min - 1
      THEN IF t.nsec < minNanos THEN Overflow ELSE MinInt + t.nsec - minNanos
      ELSE IF base > MaxInt - t.nsec THEN Overflow ELSE base + t.nsec

correctedTime(time, offset) ==
  IF (offset > 0 /\ time < MinInt + offset) \/ (offset < 0 /\ time > MaxInt + offset)
  THEN Overflow ELSE time - offset

-----------------------------------------------------------------------------
(* The call.                                                               *)

timeReceiverInterfaces(p) == {i \in DOMAIN p.ports : p.ports[i] = "masterOnly 0"}
leadingInterface(p) ==
  IF p.leading # "" THEN p.leading ELSE IF p.e825 # <<>> THEN p.e825[1] ELSE ""
leadingPHC(p) == IF leadingInterface(p) \in DOMAIN p.phcs THEN p.phcs[leadingInterface(p)] ELSE ""

Goto(pc) == fs' = [fs EXCEPT !.pc = pc]

\* OnPTPConfigChange, in the goroutine that applies profiles.
onPTPConfigChange(p) ==
  /\ fs.pc \in {"off", "done", "failed"}
  /\ p.selected
  /\ fs' = [NotCalled EXCEPT !.profile = p,
              !.pc = IF timeReceiverInterfaces(p) = {} \/ p.timeout = "invalid" \/ leadingPHC(p) = ""
                     THEN "failed" ELSE "measure"]
  /\ UNCHANGED <<phc, deviation>>

\* One sample of a free-running ptp4l.  The second time a small offset ends it.
measureOffset(e) ==
  /\ fs.pc = "measure"
  /\ fs' = [fs EXCEPT !.offset = deviation + e,
              !.pc = IF fs.adjustment > 0 /\ -ResidualThreshold <= deviation + e
                          /\ deviation + e <= ResidualThreshold
                     THEN "done" ELSE "read"]
  /\ UNCHANGED <<phc, deviation>>
\* ptp4l ends, or the timeout, where the profile gives one, passes.
measureFails ==
  /\ fs.pc = "measure" /\ Goto("failed")
  /\ UNCHANGED <<phc, deviation>>

readPHCTime ==
  LET t == phcSecondsToNS(PhcCtl(phc))
      c == correctedTime(t, fs.offset)
  IN  /\ fs.pc = "read"
      /\ fs' = IF t = Overflow \/ c = Overflow THEN [fs EXCEPT !.pc = "failed"]
               ELSE [fs EXCEPT !.pc = "set", !.time = c]
      /\ UNCHANGED <<phc, deviation>>

\* d has passed since the PHC was read.
setPHCTime(d) ==
  LET t == PhcCtlValue(formatNS(fs.time))
  IN  /\ fs.pc = "set" /\ InRange(phc + d)
      /\ phc' = t
      /\ deviation' = deviation + t - (phc + d)
      /\ fs' = [fs EXCEPT !.pc = IF fs.adjustment = 0 THEN "measure" ELSE "done",
                          !.adjustment = fs.adjustment + 1]
phcCtlFails ==
  /\ fs.pc \in {"read", "set"} /\ Goto("failed")
  /\ UNCHANGED <<phc, deviation>>

FSInit == fs = NotCalled /\ phc \in PHCTimes /\ deviation \in Deviations

FSNext ==
  \/ \E p \in StepProfiles : onPTPConfigChange(p)
  \/ \E e \in -MaxError..MaxError : measureOffset(e)
  \/ measureFails
  \/ readPHCTime
  \/ \E d \in 0..MaxDelay : setPHCTime(d)
  \/ phcCtlFails

FSSpec == FSInit /\ [][FSNext]_fsVars

-----------------------------------------------------------------------------
(* Properties.                                                             *)

\* A call that succeeds leaves the PHC at the time of the time transmitter, to
\* the error of one measurement and the larger of the threshold and the time it
\* takes to set: from any time of the PHC, before or after 1970 and up to the
\* ends of the range, however far it was off.
Within(n, bound) == -bound <= n /\ n <= bound
Larger(m, n) == IF m >= n THEN m ELSE n
Stepped ==
  fs.pc = "done" => Within(deviation, Larger(ResidualThreshold, MaxDelay) + MaxError)

=============================================================================
