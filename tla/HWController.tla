---------------------------- MODULE HWController ----------------------------
(***************************************************************************)
(* From the API server, or a profile file, to what the daemon runs: the    *)
(* PtpConfig and HardwareConfig controllers (pkg/controller), the update   *)
(* channel (pkg/daemon/config.go), the ticker of the two controller modes  *)
(* (cmd/main.go) and the daemon's apply loop.  The hardware configuration  *)
(* manager of module HardwareConfig appears by what an update needs (the   *)
(* PtpConfig the daemon handed over) and what it keeps.                    *)
(***************************************************************************)
EXTENDS Integers, Sequences, FiniteSets, TLC

CONSTANTS
    Modes,         \* "full": PtpConfigs are watched; "hybrid": a profile file
    HwNames,       \* HardwareConfigs
    Related,       \* HardwareConfig -> relatedPtpProfileName
    ClockTyped,    \* the HardwareConfigs resolved against the PtpConfig
    Gnss,          \* the HardwareConfigs with a GNSS source
    Specs,         \* versions of a HardwareConfig's spec
    PtpInputs,     \* mode -> PtpConfig lists (full) or file contents (hybrid)
    NodeName, NodeLabels,
    Initially,     \* HardwareConfigs that exist when the daemon starts
    UpdateChCap,   \* capacity of UpdateCh
    MaxChanges,    \* bound: edits of the cluster and of the files
    MaxFailures    \* bound: failing reads and updates

ASSUME ControllerAssumption ==
    /\ Modes \subseteq {"full", "hybrid"}
    /\ ClockTyped \subseteq HwNames /\ Gnss \subseteq HwNames
    /\ UpdateChCap \in Nat \ {0}

VARIABLES
    mode,          \* the mode main() chose
    cluster,       \* HardwareConfig name -> spec, in the API server
    input,         \* the PtpConfigs, or the content of the profile file
    apiStatus,     \* the HardwareConfigs whose GNSS status the API server has
    profiles,      \* NodeProfiles and appliedNodeProfileJSON
    sec,           \* SecurityFilesChanged
    updateCh,      \* signals in UpdateCh
    sending,       \* callers of UpdateConfig and goroutines blocked on UpdateCh
    ptpQueue,      \* a request of the PtpConfig controller
    hwQueue,       \* a request of the HardwareConfig controller
    requeue,       \* RequeueAfter is running
    timer,         \* the debounce timer is armed
    fileEvent,     \* fsnotify has an event of the profile file
    rec,           \* the reconciliation in progress
    lastApplied,   \* lastAppliedConfigs
    managed,       \* what the manager stores
    mgrStatus,     \* the HardwareConfigs with a GNSS status in the manager
    ptpConfig,     \* the profiles the manager resolves against
    running,       \* what the daemon applied last
    authStale,     \* a security file changed and was not applied since
    badRead,       \* a malformed input was read
    changes, failures

ctlVars == <<mode, cluster, input, apiStatus, profiles, sec, updateCh, sending, ptpQueue, hwQueue,
             requeue, timer, fileEvent, rec, lastApplied, managed, mgrStatus, ptpConfig,
             running, authStale, badRead, changes, failures>>

apiVars == <<mode, cluster, input>>
bounds  == <<changes, failures>>

(***************************************************************************)
(* PtpConfigs.                                                             *)
(***************************************************************************)
\* No rule matches every node; a label rule matches a label of that name.
anyRuleMatchesNode(rules) ==
    \/ rules = {}
    \/ \E r \in rules : r.node = NodeName \/ r.label \in NodeLabels

\* Of the matching recommendations, those of the highest priority.
calculateNodeProfiles(configs) ==
    LET matches == UNION {{r \in c.recommend : anyRuleMatchesNode(r.match) /\ r.profile \in c.profiles} :
                          c \in configs}
    IN  {m.profile : m \in {r \in matches : \A o \in matches : o.priority <= r.priority}}

malformed == {"malformed"}
wanted == IF mode = "full" THEN calculateNodeProfiles(input) ELSE input
wellFormed == mode = "full" \/ input # malformed

(***************************************************************************)
(* LinuxPTPConfUpdate.                                                     *)
(***************************************************************************)
changedOnly(who, new, auth) ==
    /\ profiles' = new
    /\ sending' = IF new # profiles THEN sending \cup {who} ELSE sending

\* UpdateConfig(who, auth): unchanged profiles are skipped unless a security
\* file changed; the caller then blocks until UpdateCh has room.
UpdateConfig(who, new, auth) ==
    /\ profiles' = new
    /\ sending' = IF new # profiles \/ auth THEN sending \cup {who} ELSE sending

skipped(who, new, auth) == new = profiles /\ ~auth

\* The signal of `who' goes into the channel.  The file watcher and the
\* ticker trigger a reconciliation after it.
Send(who) ==
    /\ who \in sending /\ updateCh < UpdateChCap
    /\ sending' = sending \ {who}
    /\ updateCh' = updateCh + 1
    /\ timer' = (timer \/ who \in {"ticker", "file"})
    /\ UNCHANGED <<apiVars, apiStatus, profiles, sec, ptpQueue, hwQueue, requeue, fileEvent, rec,
                   lastApplied, managed, mgrStatus, ptpConfig, running, authStale, badRead, bounds>>

(***************************************************************************)
(* The PtpConfig controller (full mode).                                   *)
(***************************************************************************)
PtpReconcile ==
    /\ mode = "full" /\ ptpQueue /\ "ptp" \notin sending
    /\ ptpQueue' = FALSE
    /\ sec' = IF wanted = {} THEN sec ELSE FALSE
    /\ UpdateConfig("ptp", wanted, sec /\ wanted # {})
    /\ UNCHANGED <<apiVars, apiStatus, updateCh, hwQueue, requeue, timer, fileEvent, rec,
                   lastApplied, managed, mgrStatus, ptpConfig, running, authStale, badRead, bounds>>

(***************************************************************************)
(* The profile file (hybrid mode).                                         *)
(***************************************************************************)
\* handleFileEvents: load, then trigger whatever the load did.
HandleFileEvent ==
    /\ mode = "hybrid" /\ fileEvent /\ "file" \notin sending
    /\ fileEvent' = FALSE
    /\ \/ /\ wellFormed
          /\ UpdateConfig("file", wanted, FALSE)
          /\ timer' = (timer \/ skipped("file", wanted, FALSE))
          /\ UNCHANGED <<failures, badRead>>
       \/ /\ \/ ~wellFormed /\ badRead' = TRUE /\ UNCHANGED failures
             \/ failures < MaxFailures /\ failures' = failures + 1 /\ UNCHANGED badRead
          /\ timer' = TRUE
          /\ UNCHANGED <<profiles, sending>>
    /\ UNCHANGED <<apiVars, apiStatus, sec, updateCh, ptpQueue, hwQueue, requeue, rec, lastApplied,
                   managed, mgrStatus, ptpConfig, running, authStale, changes>>

tickerReadsOnly ==
    /\ mode = "hybrid" /\ "ticker" \notin sending
    /\ wellFormed
    /\ UpdateConfig("ticker", wanted, sec)
    /\ sec' = FALSE
    /\ UNCHANGED <<apiVars, apiStatus, updateCh, ptpQueue, hwQueue, requeue, timer, fileEvent, rec,
                   lastApplied, managed, mgrStatus, ptpConfig, running, authStale, badRead, bounds>>

\* runHybridMode: only a successful read triggers.  The security flag is
\* consumed before the content is parsed.
TickerPull ==
    /\ mode = "hybrid" /\ "ticker" \notin sending
    /\ \/ /\ wellFormed
          /\ UpdateConfig("ticker", wanted, sec)
          /\ timer' = (timer \/ skipped("ticker", wanted, sec))
          /\ sec' = FALSE
          /\ UNCHANGED <<badRead, failures>>
       \/ /\ ~wellFormed
          /\ sec' = FALSE /\ badRead' = TRUE
          /\ UNCHANGED <<profiles, sending, timer, failures>>
       \/ /\ failures < MaxFailures /\ failures' = failures + 1
          /\ UNCHANGED <<profiles, sending, timer, sec, badRead>>
    /\ UNCHANGED <<apiVars, apiStatus, updateCh, ptpQueue, hwQueue, requeue, fileEvent, rec,
                   lastApplied, managed, mgrStatus, ptpConfig, running, authStale, changes>>

(***************************************************************************)
(* The HardwareConfig controller.                                          *)
(***************************************************************************)
calculateNodeHardwareConfigs(hw, active) ==
    [n \in {m \in DOMAIN hw : Related[m] \in active} |-> hw[n]]

diffHardwareConfigs(old, new) ==
    {n \in DOMAIN old \cup DOMAIN new :
        ~(n \in DOMAIN old /\ n \in DOMAIN new /\ old[n] = new[n])}

noRec == [pc |-> "idle", from |-> "", new |-> <<>>, old |-> <<>>]

syncedNone(new) == apiStatus

\* syncHardwareConfigStatuses: writes the manager's status of each config.
synced(new) == (apiStatus \ DOMAIN new) \cup (mgrStatus \cap DOMAIN new)
               \cup (apiStatus \cap (DOMAIN new \ DOMAIN managed))

\* reconcileAllConfigs up to the call of the manager, under reconcileMutex.
Reconcile(from) ==
    LET new == calculateNodeHardwareConfigs(cluster, profiles)
    IN  /\ rec.pc = "idle"
        /\ IF diffHardwareConfigs(lastApplied, new) = {}
           THEN apiStatus' = synced(new) /\ UNCHANGED <<rec, lastApplied>>
           ELSE /\ rec' = [pc |-> "update", from |-> from, new |-> new, old |-> lastApplied]
                /\ lastApplied' = new
                /\ UNCHANGED apiStatus
        /\ UNCHANGED <<apiVars, profiles, sec, updateCh, sending, ptpQueue, requeue, fileEvent,
                       managed, mgrStatus, ptpConfig, running, authStale, badRead, bounds>>

ReconcileRequest == hwQueue /\ hwQueue' = FALSE /\ UNCHANGED timer /\ Reconcile("queue")

\* executeProfileChangeReconciliation.
TimerFires == timer /\ timer' = FALSE /\ UNCHANGED hwQueue /\ Reconcile("timer")

\* The manager resolves a clockType against the PtpConfig it was given.
resolves(new) == \A n \in DOMAIN new \cap ClockTyped : Related[n] \in ptpConfig

UpdateSucceeds ==
    /\ rec.pc = "update" /\ resolves(rec.new)
    /\ managed' = rec.new
    /\ mgrStatus' = apiStatus \cap DOMAIN rec.new
    /\ rec' = [rec EXCEPT !.pc = IF rec.new = <<>> THEN "sync" ELSE "restart"]
    /\ UNCHANGED <<apiVars, apiStatus, profiles, sec, updateCh, sending, ptpQueue, hwQueue, requeue,
                   timer, fileEvent, lastApplied, ptpConfig, running, authStale, badRead, bounds>>

\* The revert makes the next reconciliation see the change again.  The
\* RequeueAfter of a reconciliation the timer runs goes nowhere.
UpdateFails ==
    /\ rec.pc = "update" /\ rec.new # <<>>
    /\ \/ ~resolves(rec.new) /\ UNCHANGED failures
       \/ failures < MaxFailures /\ failures' = failures + 1
    /\ lastApplied' = rec.old
    /\ requeue' = (requeue \/ rec.from = "queue")
    /\ rec' = noRec
    /\ UNCHANGED <<apiVars, apiStatus, profiles, sec, updateCh, sending, ptpQueue, hwQueue, timer,
                   fileEvent, managed, mgrStatus, ptpConfig, running, authStale, badRead, changes>>

restartOnAdd == \E n \in DOMAIN rec.new \ DOMAIN rec.old : Related[n] \in profiles

checkIfChangedConfigsAffectActiveProfiles ==
    \E n \in diffHardwareConfigs(rec.old, rec.new) : Related[n] \in profiles

\* TriggerRestartForHardwareChange: a goroutine waits when UpdateCh is full.
TriggerRestart ==
    /\ rec.pc = "restart"
    /\ rec' = [rec EXCEPT !.pc = "sync"]
    /\ IF ~checkIfChangedConfigsAffectActiveProfiles THEN UNCHANGED <<updateCh, sending>>
       ELSE IF updateCh < UpdateChCap THEN updateCh' = updateCh + 1 /\ UNCHANGED sending
       ELSE sending' = sending \cup {"restart"} /\ UNCHANGED updateCh
    /\ UNCHANGED <<apiVars, apiStatus, profiles, sec, ptpQueue, hwQueue, requeue, timer, fileEvent,
                   lastApplied, managed, mgrStatus, ptpConfig, running, authStale, badRead, bounds>>

SyncStatuses ==
    /\ rec.pc = "sync"
    /\ rec' = noRec
    /\ apiStatus' = synced(rec.new)
    /\ UNCHANGED <<apiVars, profiles, sec, updateCh, sending, ptpQueue, hwQueue, requeue, timer,
                   fileEvent, lastApplied, managed, mgrStatus, ptpConfig, running, authStale, badRead, bounds>>

RequeueFires ==
    /\ requeue /\ requeue' = FALSE /\ hwQueue' = TRUE
    /\ UNCHANGED <<apiVars, apiStatus, profiles, sec, updateCh, sending, ptpQueue, timer, fileEvent,
                   rec, lastApplied, managed, mgrStatus, ptpConfig, running, authStale, badRead, bounds>>

(***************************************************************************)
(* The daemon's loop: applyNodePTPProfiles.                                *)
(***************************************************************************)
inUse == {n \in DOMAIN managed : Related[n] \in profiles}

\* An empty list of profiles is not handed to the manager.  The match of a
\* GNSS source is recorded, and a new status triggers a reconciliation.
ApplyNodePTPProfiles ==
    LET matched == (inUse \cap Gnss) \ mgrStatus
    IN  /\ updateCh > 0 /\ updateCh' = updateCh - 1
        /\ ptpConfig' = IF profiles = {} THEN ptpConfig ELSE profiles
        /\ running' = [profiles |-> profiles, hw |-> [n \in inUse |-> managed[n]]]
        /\ mgrStatus' = mgrStatus \cup matched
        /\ timer' = (timer \/ matched # {})
        /\ authStale' = FALSE
        /\ UNCHANGED <<apiVars, apiStatus, profiles, sec, sending, ptpQueue, hwQueue, requeue,
                       fileEvent, rec, lastApplied, managed, badRead, bounds>>

(***************************************************************************)
(* The world: edits of HardwareConfigs, PtpConfigs, files and secrets.     *)
(***************************************************************************)
edit == changes < MaxChanges /\ changes' = changes + 1 /\ UNCHANGED failures

EditHardware ==
    /\ edit
    /\ \E n \in HwNames :
         \/ \E s \in Specs : cluster' = (n :> s) @@ cluster
         \/ cluster' = [m \in DOMAIN cluster \ {n} |-> cluster[m]]
    /\ cluster' # cluster
    /\ apiStatus' = apiStatus \cap DOMAIN cluster'
    /\ hwQueue' = TRUE
    /\ UNCHANGED <<mode, input, profiles, sec, updateCh, sending, ptpQueue, requeue, timer, fileEvent, rec,
                   lastApplied, managed, mgrStatus, ptpConfig, running, authStale, badRead>>

\* The HardwareConfig controller watches PtpConfigs too (SetupWithManager).
EditPtp ==
    /\ edit
    /\ \E i \in PtpInputs[mode] \ {input} : input' = i
    /\ ptpQueue' = (mode = "full") /\ hwQueue' = (hwQueue \/ mode = "full")
    /\ fileEvent' = (mode = "hybrid")
    /\ UNCHANGED <<mode, cluster, apiStatus, profiles, sec, updateCh, sending, requeue, timer, rec,
                   lastApplied, managed, mgrStatus, ptpConfig, running, authStale, badRead>>

\* fsnotify on the directory of security files sets the flag.
SecurityFileChanges ==
    /\ edit
    /\ sec' = TRUE /\ authStale' = TRUE
    /\ UNCHANGED <<apiVars, apiStatus, profiles, updateCh, sending, ptpQueue, hwQueue, requeue, timer,
                   fileEvent, rec, lastApplied, managed, mgrStatus, ptpConfig, running, badRead>>
-----------------------------------------------------------------------------
\* The start-up: the watches deliver what exists, runFullControllerMode calls
\* the PtpConfig controller once, startFileWatcher loads the file.
CtlInit ==
    /\ mode \in Modes
    /\ cluster \in Initially /\ input \in PtpInputs[mode] /\ apiStatus = {}
    /\ profiles = {} /\ sec = FALSE /\ updateCh = 0 /\ sending = {}
    /\ ptpQueue = (mode = "full") /\ hwQueue = (cluster # <<>>) /\ requeue = FALSE
    /\ timer = FALSE /\ fileEvent = (mode = "hybrid")
    /\ rec = noRec /\ lastApplied = <<>> /\ managed = <<>> /\ mgrStatus = {}
    /\ ptpConfig = {} /\ running = [profiles |-> {}, hw |-> <<>>]
    /\ authStale = FALSE /\ badRead = FALSE /\ changes = 0 /\ failures = 0

Senders == {"ptp", "file", "ticker", "restart"}
Update == UpdateSucceeds \/ UpdateFails

CtlNext ==
    \/ \E who \in Senders : Send(who)
    \/ PtpReconcile \/ HandleFileEvent \/ TickerPull
    \/ ReconcileRequest \/ TimerFires
    \/ UpdateSucceeds \/ UpdateFails \/ TriggerRestart \/ SyncStatuses \/ RequeueFires
    \/ ApplyNodePTPProfiles
    \/ EditHardware \/ EditPtp \/ SecurityFileChanges

\* Goroutines run, timers and the ticker fire; edits and failures need not.
CtlFairness ==
    /\ \A who \in Senders : WF_ctlVars(Send(who))
    /\ WF_ctlVars(PtpReconcile) /\ WF_ctlVars(HandleFileEvent) /\ WF_ctlVars(TickerPull)
    /\ SF_ctlVars(ReconcileRequest) /\ SF_ctlVars(TimerFires)
    /\ WF_ctlVars(Update) /\ WF_ctlVars(TriggerRestart) /\ WF_ctlVars(SyncStatuses)
    /\ WF_ctlVars(RequeueFires) /\ WF_ctlVars(ApplyNodePTPProfiles)

CtlSpec == CtlInit /\ [][CtlNext]_ctlVars /\ CtlFairness
-----------------------------------------------------------------------------
(***************************************************************************)
(* Properties.                                                             *)
(***************************************************************************)
\* Between reconciliations lastAppliedConfigs is what the manager stores, so
\* that the next diff finds every difference: an update that failed is
\* reverted and none is recorded that the manager does not have.
HandedOver == rec.pc = "idle" => lastApplied = managed

applicable == calculateNodeHardwareConfigs(cluster, wanted)
settled == managed = applicable /\ running.profiles = wanted

\* Hybrid mode: when the edits end, the manager stores the configurations of
\* the cluster whose profile is in the file at the end, and the daemon runs
\* those profiles, although reads and updates fail, an update may come before
\* the PtpConfig it is resolved against and the retry of a failed one is lost.
Converges == <>[](mode = "hybrid" /\ wellFormed => settled)

\* The processes run on the hardware configuration that is stored, not on one
\* that a later reconciliation replaced (TriggerRestartForHardwareChange).
RunsOnStored ==
    <>[](mode = "hybrid" /\ wellFormed /\ managed # <<>> => running.hw = managed)

\* A changed security file reaches the processes: the flag is set by the
\* daemon's loop, taken by the ticker and survives a channel that is full.
AuthReapplied == (mode = "hybrid" /\ authStale) ~> (~authStale \/ badRead)

\* The GNSS match status of a stored configuration reaches the API server.
StatusReported ==
    <>[](mode = "hybrid" /\ wellFormed => mgrStatus \cap DOMAIN managed \subseteq apiStatus)

\* Full controller mode: "When PtpConfig changes, reconcile all HardwareConfigs
\* / We need to recalculate which hardware configs are applicable since active
\* profiles may have changed" (SetupWithManager).
FollowsPtpConfig == <>[](mode = "full" => settled)
=============================================================================
