---------------------------- MODULE LeapManager -----------------------------
(***************************************************************************)
(* The leap file manager (pkg/leap/leap-file.go).  Indications of the GNSS *)
(* receiver extend the list of leap seconds, which is kept in a ConfigMap; *)
(* in the hours before a leap second the manager gives ptp4l the leap      *)
(* flag, by reading its settings and writing them back, while the          *)
(* grandmaster clock does the same with the clock class.                   *)
(*                                                                         *)
(* Environment: one leap second, announced at some time before it happens; *)
(* the API server, PMC and the daemon may fail.  Offsets are TAI - UTC;    *)
(* the 19 seconds between GPS and TAI are left out.                        *)
(***************************************************************************)
EXTENDS Integers, Sequences, SequencesExt

CONSTANTS
  LeapAt, LeapChanges,          \* when UTC leaps, and by how much
  LeapBase,                     \* the offset before
  LeapFileEvents,               \* leap seconds of the file in the image
  LeapAllowed, LeapSources,     \* GNSS sources that are believed, and that exist
  pmcWindowStart, pmcWindowEnd, \* 12 hours and 60 seconds before the leap
  MaxNow                        \* bound: time

ASSUME LeapAssumption ==
  /\ LeapAt \in Nat /\ LeapChanges \subseteq {-1, 1} /\ LeapAllowed \subseteq LeapSources
  /\ LeapBase \in Int /\ LeapFileEvents \in Seq([at : Int, sec : Int])
  \* The leap seconds the image was built with have passed.
  /\ Len(LeapFileEvents) > 1
  /\ Last(LeapFileEvents).sec = LeapBase /\ Last(LeapFileEvents).at < 0
  /\ pmcWindowStart \in Nat /\ pmcWindowEnd \in Nat \ {0}

VARIABLES
  now,
  sky,        \* the change, and whether it has been announced
  lm,         \* LeapManager: events, utcOffset and its time, retryUpdate, pmcLeapSent
  leapCM,     \* leap-configmap, entry of this node
  lmWrite,    \* settings the manager has read and is about to write
  gmWrite,    \* the same for the grandmaster clock
  leapGS,     \* GRANDMASTER_SETTINGS_NP of ptp4l
  informed,   \* history: the list holds the leap second
  garbled     \* history: the settings were lost or mixed since the flag was sent

leapVars == <<now, sky, lm, leapCM, lmWrite, gmWrite, leapGS, informed, garbled>>

Idle == [offset |-> -1, leap |-> "none", class |-> 0]
ZeroGS == [offset |-> 0, leap |-> "none", class |-> 0]
NotRunning == [events |-> <<>>, at |-> 0, sec |-> 0, retry |-> FALSE, sent |-> FALSE]
FreshGS == [offset |-> LeapBase, leap |-> "none", class |-> 248]

-----------------------------------------------------------------------------
(* The list.                                                               *)

setUtcOffset(m) == [m EXCEPT !.at = Last(m.events).at, !.sec = Last(m.events).sec]
Loaded(events) ==
  setUtcOffset([NotRunning EXCEPT !.events = events])

newestOffset == lm.sec
GetUtcOffset == IF now > lm.at THEN lm.sec ELSE lm.events[Len(lm.events) - 1].sec

\* Read from the ConfigMap; where that has no entry for the node, from the
\* file of the image, and the entry is made.  New fails with the update, and
\* the daemon ends and is started again.
populateLeapData(api) ==
  /\ leapCM = <<>> => api = "ok"
  /\ leapCM' = IF leapCM = <<>> THEN LeapFileEvents ELSE leapCM
  /\ lm' = Loaded(leapCM')

updateLeapConfigmap(m, api) ==
  IF api = "ok" THEN leapCM' = m.events /\ lm' = [m EXCEPT !.retry = FALSE]
  ELSE lm' = [m EXCEPT !.retry = TRUE] /\ UNCHANGED leapCM

-----------------------------------------------------------------------------
(* Indications.                                                            *)

\* What the receiver says of the leap second: announced, passed, or nothing
\* yet, when the event it dates is the last one or not known.  A source that
\* is not believed may say anything.
Said(src, past) ==
  [src |-> src, curr |-> LeapBase + (IF now >= LeapAt THEN sky.change ELSE 0),
   change |-> IF sky.announced /\ now < LeapAt THEN sky.change ELSE 0,
   date |-> IF sky.announced \/ now >= LeapAt THEN LeapAt ELSE Last(LeapFileEvents).at,
   past |-> past]
Untrue(src) == [src |-> src, curr |-> LeapBase + 1, change |-> 0, date |-> now, past |-> FALSE]
Indications ==
  {Untrue(src) : src \in LeapSources \ LeapAllowed} \cup
  {Said(src, past) : src \in LeapAllowed,
                     past \in {b \in BOOLEAN : b => ~sky.announced \/ now >= LeapAt}}

\* The list is extended when its last leap second has passed and the offset
\* differs.  Without a date the time is put out of the window of PMC.
processLeapIndication(ind) ==
  IF /\ ind.src \in LeapAllowed /\ ind.curr + ind.change # Last(lm.events).sec
     /\ Last(lm.events).at < now
  THEN <<[at |-> IF ind.change = 0 /\ ~ind.past THEN now - pmcWindowEnd ELSE ind.date,
          sec |-> ind.curr + ind.change]>>
  ELSE <<>>

updateLeapFile(m, new) == setUtcOffset([m EXCEPT !.events = @ \o new])

handleLeapIndication(ind, api) ==
  /\ lm # NotRunning /\ lmWrite = Idle
  /\ IF processLeapIndication(ind) = <<>> THEN UNCHANGED <<lm, leapCM>>
     ELSE updateLeapConfigmap(updateLeapFile(lm, processLeapIndication(ind)), api)
  /\ informed' = (informed \/ (ind.src \in LeapAllowed /\ (sky.announced \/ now >= LeapAt)))
  /\ UNCHANGED <<now, sky, lmWrite, gmWrite, leapGS, garbled>>

-----------------------------------------------------------------------------
(* The ticker: the ConfigMap again where that failed, and in the window the *)
(* settings of ptp4l are asked for.                                        *)

IsLeapInWindow ==
  LET at == Last(lm.events).at IN now > at - pmcWindowStart /\ now < at - pmcWindowEnd

\* A GET that times out three times gives no error but settings of zeros.
Tick(api, answer) ==
  LET g == IF answer = "silent" THEN ZeroGS ELSE leapGS
      asks == IsLeapInWindow /\ ~lm.sent /\ answer # "fails"
      same == asks /\ Last(lm.events).sec = g.offset
      kept == [lm EXCEPT !.sent = IsLeapInWindow /\ (@ \/ same)]
  IN  /\ lm # NotRunning /\ lmWrite = Idle
      /\ IF lm.retry THEN updateLeapConfigmap(kept, api) ELSE lm' = kept /\ UNCHANGED leapCM
      /\ lmWrite' = IF ~asks \/ same THEN Idle
                    ELSE [g EXCEPT !.leap = IF Last(lm.events).sec > g.offset THEN "61" ELSE "59"]
      /\ garbled' = (garbled \/ (asks /\ answer = "silent"))
      /\ UNCHANGED <<now, sky, gmWrite, leapGS, informed>>

\* They are written back with the flag.
sentRegardless(answer) ==
  /\ lmWrite # Idle
  /\ leapGS' = IF answer = "ok" THEN lmWrite ELSE leapGS
  /\ lm' = [lm EXCEPT !.sent = TRUE]
  /\ garbled' = (garbled \/ leapGS.class # lmWrite.class)
  /\ lmWrite' = Idle
  /\ UNCHANGED <<now, sky, leapCM, gmWrite, informed>>
TickSet(answer) ==
  /\ lmWrite # Idle
  /\ leapGS' = IF answer = "ok" THEN lmWrite ELSE leapGS
  /\ lm' = [lm EXCEPT !.sent = answer = "ok"]
  /\ garbled' = (garbled \/ leapGS.class # lmWrite.class)
  /\ lmWrite' = Idle
  /\ UNCHANGED <<now, sky, leapCM, gmWrite, informed>>

-----------------------------------------------------------------------------
(* The grandmaster clock (announceClockClass of gm.go), without the lock    *)
(* that would keep the two apart: there is none.                           *)

GMGet(class) ==
  /\ lm # NotRunning /\ gmWrite = Idle /\ leapGS.class # class
  /\ gmWrite' = [leapGS EXCEPT !.class = class, !.offset = GetUtcOffset]
  /\ UNCHANGED <<now, sky, lm, leapCM, lmWrite, leapGS, informed, garbled>>
GMSet ==
  /\ gmWrite # Idle
  /\ leapGS' = gmWrite /\ gmWrite' = Idle
  /\ garbled' = (garbled \/ leapGS.leap # gmWrite.leap)
  /\ UNCHANGED <<now, sky, lm, leapCM, lmWrite, informed>>

-----------------------------------------------------------------------------
(* Environment.                                                            *)

Ptp4lStarts ==
  /\ leapGS' = FreshGS /\ garbled' = TRUE
  /\ UNCHANGED <<now, sky, lm, leapCM, lmWrite, gmWrite, informed>>
\* The daemon is started, for the first time or again; ptp4l ended with it.
DaemonStarts(api) ==
  /\ populateLeapData(api)
  /\ lmWrite' = Idle /\ gmWrite' = Idle /\ leapGS' = FreshGS
  /\ informed' = (informed /\ leapCM = lm.events) /\ garbled' = FALSE
  /\ UNCHANGED <<now, sky>>
Announce ==
  /\ ~sky.announced /\ now < LeapAt
  /\ sky' = [sky EXCEPT !.announced = TRUE]
  /\ UNCHANGED <<now, lm, leapCM, lmWrite, gmWrite, leapGS, informed, garbled>>
\* A write lasts seconds, far less than a unit of time here.
TimePasses ==
  /\ now < MaxNow /\ lmWrite = Idle /\ gmWrite = Idle
  /\ now' = now + 1
  /\ UNCHANGED <<sky, lm, leapCM, lmWrite, gmWrite, leapGS, informed, garbled>>

LeapInit ==
  /\ now = 0 /\ \E c \in LeapChanges : sky = [change |-> c, announced |-> FALSE]
  /\ leapCM \in {<<>>, LeapFileEvents} /\ lm = NotRunning
  /\ lmWrite = Idle /\ gmWrite = Idle /\ leapGS = FreshGS
  /\ informed = FALSE /\ garbled = FALSE

LeapNext ==
  \/ \E api \in {"ok", "fails"} :
       \/ \E ind \in Indications : handleLeapIndication(ind, api)
       \/ \E answer \in {"ok", "fails", "silent"} : Tick(api, answer)
       \/ DaemonStarts(api)
  \/ \E answer \in {"ok", "fails"} : TickSet(answer)
  \/ \E class \in {6, 7} : GMGet(class)
  \/ GMSet
  \/ Ptp4lStarts \/ Announce \/ TimePasses

LeapSpec == LeapInit /\ [][LeapNext]_leapVars

-----------------------------------------------------------------------------
(* Properties.                                                             *)

\* The offset handed to the clocks is the true one before and after the leap
\* second, at any time before it and, after it, from when the manager has been
\* told: over indications that come late or only after the leap second, failed
\* ConfigMap updates, restarts that lost them, and sources not to be believed.
UtcOffsetTrue ==
  lm # NotRunning /\ (now < LeapAt \/ (informed /\ now > LeapAt)) =>
    GetUtcOffset = LeapBase + (IF now > LeapAt THEN sky.change ELSE 0)

\* While the manager believes that it gave ptp4l the leap flag and the leap
\* second is still to come, ptp4l has the flag of the right sign: over failed
\* requests, restarts of the daemon and rereads of the list.  The exceptions are
\* those the manager does not hear of: ptp4l started again, a clock class
\* written from settings read before the flag, and a GET that was not answered.
LeapSignalled ==
  lm # NotRunning /\ lm.sent /\ IsLeapInWindow /\ ~garbled =>
    leapGS.leap = IF sky.change = 1 THEN "61" ELSE "59"
=============================================================================
