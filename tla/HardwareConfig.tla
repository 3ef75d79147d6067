--------------------------- MODULE HardwareConfig ---------------------------
(***************************************************************************)
(* The hardware configuration manager (pkg/hardwareconfig: the manager of  *)
(* hardwareconfig.go, gnss.go, ptp_input.go, utils.go's BatchPinSet).      *)
(*                                                                         *)
(* The controller's goroutine replaces the configurations in three steps   *)
(* (reset what was removed, resolve what is new, store it); the daemon and *)
(* the DPLL monitors apply what is stored between any two of them.  hw is  *)
(* what was last written to each DPLL pin field and sysfs file.            *)
(***************************************************************************)
EXTENDS PinCommands, TLC

CONSTANTS
    Updates,     \* the lists of HardwareConfigs the controller may hand over
    PtpConfigs,  \* the profile sets the daemon may hand over
    LabelMap,    \* the board label ConfigMap
    HwDefs,      \* hardware definitions the configurations name
    MaxFaults    \* bound: failing writes, dumps and read-backs

ASSUME HardwareAssumption == MaxFaults \in Nat /\ "" \notin HwDefs

\* A HardwareConfig as the API server hands it over.
IsConfig(c) ==
    /\ {"name", "profile", "type", "chain"} \subseteq DOMAIN c
    /\ "structure" \in DOMAIN c.chain /\ IsSlice(c.chain.structure)
    /\ IsBehavior(c.chain)
ASSUME UpdatesAssumption ==
    \A new \in Updates : IsSlice(new) /\ \A i \in DOMAIN new : IsConfig(new[i])

VARIABLES
    configs,     \* hardwareConfigs, enriched
    ready,
    pinCache,    \* {} is nil
    ptpConfig,
    updating,    \* the UpdateHardwareConfig in progress
    settings,    \* profile name -> PtpSettings the manager added
    detectors,   \* profile name -> the ports its ptp4l's state detector watches
    hw,
    faults,
    panicked,    \* a nil pointer was dereferenced
    applied      \* what the last application was of, unless a fault cut it short

hwVars == <<configs, ready, pinCache, ptpConfig, updating,
            settings, detectors, hw, faults, panicked, applied>>

idle == [pc |-> "idle", new |-> <<>>]

\* Loaded once for each definition and kept (hwDefaultsCache).
getHardwareDefaults == [d \in HwDefs |-> LoadHardwareDefaults(d, LabelMap)]

(***************************************************************************)
(* Writing.  The calls of an application resolve their commands against    *)
(* the stored chain and the pin cache, which nothing changes under their   *)
(* lock: what an application does is a list of steps, known when it        *)
(* starts.  An outcome says what the hardware holds, how the calls went    *)
(* and how many faults they met; after a failed step the others are left   *)
(* out, up to the next one of a caller that only logs the failure.         *)
(***************************************************************************)
files(cmds) == [do |-> "files", cmds |-> cmds]
pins(cmds) == [do |-> "pins", cmds |-> cmds]
fail == [do |-> "fail", cmds |-> <<>>]
panic == [do |-> "panic", cmds |-> <<>>]
resume == [do |-> "resume", cmds |-> <<>>]

outcome(h, status, n) == [hw |-> h, status |-> status, n |-> n]
start == outcome(hw, "ok", faults)

pinFields(cmds) == UNION {{<<"pin", c.id, f>> : f \in DOMAIN c.set} : c \in cmds}
pinValue(cmds, l) == (CHOOSE c \in cmds : c.id = l[2] /\ l[3] \in DOMAIN c.set).set[l[3]]
pinWrites(cmds) == [l \in pinFields(cmds) |-> pinValue(cmds, l)]
writePins(h, cmds) == over(pinWrites(cmds), h)

\* A failing send leaves the commands before it; a failing read-back leaves
\* them too and returns nil.  The order of a merged batch is a Go map's.
BatchPinSet(o, cmds) ==
    {outcome(writePins(o.hw, cmds), "ok", o.n)} \cup
    IF o.n = MaxFaults THEN {}
    ELSE {outcome(writePins(o.hw, sent), "failed", o.n + 1) : sent \in SUBSET cmds \ {cmds}}
         \cup {outcome(writePins(o.hw, sent), "ok", o.n + 1) : sent \in SUBSET cmds \ {{}, cmds}}

applyCachedSysFSCommands(o, cmds) ==
    LET upTo(k) == over(laterWins([i \in 1..k |-> cmds[i]]), o.hw)
    IN  {outcome(upTo(Len(cmds)), "ok", o.n)} \cup
        IF o.n = MaxFaults THEN {}
        ELSE {outcome(upTo(k), "failed", o.n + 1) : k \in 0..(Len(cmds) - 1)}

perform(o, step) ==
    IF step.do = "resume" THEN {IF o.status = "failed" THEN [o EXCEPT !.status = "ok"] ELSE o}
    ELSE IF o.status # "ok" THEN {o}
    ELSE CASE step.do = "files" -> applyCachedSysFSCommands(o, step.cmds)
           [] step.do = "pins"  -> BatchPinSet(o, step.cmds)
           [] step.do = "fail"  -> {[o EXCEPT !.status = "failed"]}
           [] OTHER             -> {[o EXCEPT !.status = "panicked"]}

run(o, steps) ==
    LET after[k \in 0..Len(steps)] ==
          IF k = 0 THEN {o} ELSE UNION {perform(p, steps[k]) : p \in after[k - 1]}
    IN  after[Len(steps)]

applyDpllPinCommands(cmds) ==
    IF cmds = <<>> THEN <<>> ELSE <<pins(mergePinCommandsByID(cmds))>>

\* The PTP pin of a state, its period and then its DPLL pin; each is resolved
\* only now, against the pin cache of now, after the one before it was written.
\* GetPin has no receiver when the cache is nil.
applyFile(p, chain) ==
    IF processPTPPinConfig(p, chain) = <<>> THEN fail ELSE files(processPTPPinConfig(p, chain))
applyPin(d, chain) ==
    LET cmd == createPinCommandForDPLLDesiredState(pinCache, d, chain)
    IN  IF pinCache = {} /\ subsystemClock(chain, d.subsystem, pinCache) # {} THEN panic
        ELSE IF cmd = {} THEN fail ELSE pins(cmd)
applyState(s, chain) ==
    LET ptp  == ptpParts(s)
        dpll == SetToSeq(s.dpll)
    IN  [i \in DOMAIN ptp |-> applyFile(ptp[i], chain)] \o [i \in DOMAIN dpll |-> applyPin(dpll[i], chain)]
applyDesiredStatesInOrder(condition, chain) ==
    concat(condition.states, LAMBDA s : applyState(s, chain))

(***************************************************************************)
(* Applying the stored configurations.                                     *)
(***************************************************************************)
relevant(name) == suchThat(configs, LAMBDA c : ProfileNamesMatch(name, c.profile))
HasHardwareConfigForProfile(name) == relevant(name) # <<>>
ReadyHardwareConfigForProfile(name) == ready /\ relevant(name) # <<>>

applyStructureDefaults(c) == <<files(c.structSysfs)>> \o applyDpllPinCommands(c.structPins)

\* Source by source, the conditions of a type whose name was not seen yet.
conditionsOnce(chain, type) ==
    LET all == concat(chain.sources, LAMBDA s :
                 extractConditionsByTypeAndSource(chain.conditions, type, s.name))
    IN  FlattenSeq([i \in DOMAIN all |->
            IF \E j \in 1..(i - 1) : all[j].name = all[i].name THEN <<>> ELSE <<all[i]>>])

applyConditions(chain, type) ==
    concat(conditionsOnce(chain, type), LAMBDA k : applyDesiredStatesInOrder(k, chain))

initBeforeDefault(c) == applyConditions(c.chain, "init") \o applyConditions(c.chain, "default")

applyDefaultAndInitConditions(c) ==
    applyConditions(c.chain, "default") \o applyConditions(c.chain, "init")

\* The profile's own settings are kept: only what is missing is added.
populatePtpSettingsFromHardware(old, c) ==
    LET ids == {networkInterface(s) : s \in ToSet(c.chain.structure)} \ {""}
        named(i) == CHOOSE s \in ToSet(c.chain.structure) : networkInterface(s) = i
        clock(i) == getClockIDCached(i, named(i).hwDef, pinCache)
        ptp == SelectSeq(c.chain.sources, LAMBDA s : s.type = "ptpTimeReceiver" /\ s.receivers # <<>>)
        add(set, new) == IF set = {} THEN new ELSE set
    IN  [clocks |-> old.clocks @@ [i \in {j \in ids : clock(j) # NoClock} |-> clock(i)],
         upstream |-> IF ptp = <<>> THEN old.upstream ELSE add(old.upstream, {ptp[1].receivers}),
         leading |-> IF ptp = <<>> THEN old.leading
                     ELSE add(old.leading, getInterfaceNameFromSources("", c.chain))]

noSettings == [clocks |-> <<>>, upstream |-> {}, leading |-> {}]

finish(o) == /\ hw' = o.hw /\ faults' = o.n /\ panicked' = (o.status = "panicked")

\* PTPStateDetector: the ports of all configurations stored at that time.
buildCaches ==
    UNION {UNION {ToSet(x.receivers) : x \in {y \in ToSet(configs[i].chain.sources) :
                                                y.type = "ptpTimeReceiver"}} : i \in DOMAIN configs}

profileSteps(name) ==
    concat(relevant(name), LAMBDA c : applyStructureDefaults(c) \o applyDefaultAndInitConditions(c))

\* initHardware applies the profile it is about to run; whatever the outcome,
\* the profile's ptp4l is then created and builds its state detector.
ApplyHardwareConfigsForProfile(name) ==
    /\ ReadyHardwareConfigForProfile(name)
    /\ \E steps \in {profileSteps(name)} : \E o \in run(start, steps) :
         /\ finish(o)
         /\ settings' = IF o.status = "ok"
                        THEN (name :> FoldLeft(populatePtpSettingsFromHardware,
                                               noSettings, relevant(name))) @@ settings
                        ELSE settings
         /\ detectors' = (name :> buildCaches) @@ detectors
         /\ applied' = IF o.status = "ok" /\ o.n = faults THEN {<<"profile", name>>} ELSE {}
    /\ UNCHANGED <<configs, ready, pinCache, ptpConfig, updating>>

\* The cached files first, then the cached pins merged.
cached(m, name) == IF name \in DOMAIN m THEN m[name] ELSE <<>>
applyCondition(c, condition) ==
    LET sysfs == cached(c.sysfs, condition.name)
        cmds  == cached(c.pins, condition.name)
    IN  IF sysfs = <<>> /\ cmds = <<>> THEN applyDesiredStatesInOrder(condition, c.chain)
        ELSE <<files(sysfs)>> \o applyDpllPinCommands(cmds)

transition(name, type) ==
    concat(relevant(name), LAMBDA c :
        concat(extractConditionsByType(c.chain.conditions, type), LAMBDA condition :
            applyCondition(c, condition)))

\* The T-BC transitions of a watched port apply "locked" and "lost".
ApplyConditionForProfile(name, type) ==
    /\ name \in DOMAIN detectors /\ detectors[name] # {}
    /\ HasHardwareConfigForProfile(name)
    /\ \E steps \in {transition(name, type)} : \E o \in run(start, steps) : finish(o)
    /\ applied' = {<<"condition", name>>}
    /\ UNCHANGED <<configs, ready, pinCache, ptpConfig, updating, settings, detectors>>

\* A device whose DPLL locked: the locked conditions of the dpllPhaseLocked
\* sources of its subsystem.  A failed condition does not stop the next.
lockedConditions(c, clock) ==
    LET subsystems == suchThat(c.chain.structure, LAMBDA s :
            /\ networkInterface(s) # ""
            /\ getClockIDCached(networkInterface(s), s.hwDef, pinCache) = clock)
        sources(s) == suchThat(c.chain.sources, LAMBDA x :
            x.type = "dpllPhaseLocked" /\ x.subsystem = s.name /\ c.profile # "")
    IN  concat(subsystems, LAMBDA s : concat(sources(s), LAMBDA x :
            concat(extractConditionsByTypeAndSource(c.chain.conditions, "locked", x.name),
                   LAMBDA k : <<[condition |-> k, chain |-> c.chain]>>)))

lockedWork(clock) == concat(configs, LAMBDA c : lockedConditions(c, clock))
lockedSteps(clock) ==
    concat(lockedWork(clock), LAMBDA w :
        applyDesiredStatesInOrder(w.condition, w.chain) \o <<resume>>)

ProcessDPLLDeviceNotifications(clock) ==
    /\ lockedWork(clock) # <<>>
    /\ \E steps \in {lockedSteps(clock)} : \E o \in run(start, steps) : finish(o)
    /\ applied' = {}
    /\ UNCHANGED <<configs, ready, pinCache, ptpConfig, updating, settings, detectors>>

(***************************************************************************)
(* Replacing the configurations.                                           *)
(***************************************************************************)
detectRemovedHardwareConfigs(new) ==
    suchThat(configs, LAMBDA c : \A i \in DOMAIN new : new[i].name # c.name)

\* Per subsystem the pins and then the files; failures are only logged.
applyVendorDefaultsForRemovedConfigs(removed, dump) ==
    LET structures(c) == concat(suchThat(c.chain.structure, LAMBDA s : s.hwDef # ""), LAMBDA s :
            SetToSeq(resolveSubsystemStructure(dump, s, c.chain, getHardwareDefaults)))
    IN  concat(concat(removed, structures), LAMBDA r :
            applyDpllPinCommands(r.pins) \o <<resume, files(r.sysfs), resume>>)

\* Takes the new list, clears the clock IDs and resets what it does not hold.
UpdateHardwareConfig(new) ==
    LET removed == detectRemovedHardwareConfigs(new)
    IN  /\ updating.pc = "idle"
        /\ updating' = [pc |-> IF new = <<>> THEN "store" ELSE "resolve", new |-> new]
        /\ \/ /\ \E steps \in {applyVendorDefaultsForRemovedConfigs(
                                  removed, IF pinCache = {} THEN Dump ELSE pinCache)} :
                   \E o \in run(start, steps) : finish(o)
              /\ pinCache' = IF removed # <<>> /\ pinCache = {} THEN Dump ELSE pinCache
           \/ /\ removed # <<>> /\ pinCache = {} /\ faults < MaxFaults
              /\ faults' = faults + 1
              /\ UNCHANGED <<pinCache, hw, panicked>>
        /\ applied' = {}
        /\ UNCHANGED <<configs, ready, ptpConfig, settings, detectors>>

\* The pin dump fails: the cache is nil, the old configurations stay.
GetDpllPinsFails ==
    /\ updating.pc = "resolve" /\ faults < MaxFaults
    /\ pinCache' = {} /\ faults' = faults + 1 /\ updating' = idle
    /\ UNCHANGED <<configs, ready, ptpConfig, settings, detectors, hw, panicked, applied>>

\* resolve: the clock chain, the phase adjustments, the commands and the
\* parameters of one configuration; empty when one of them fails.
enrichWith(config, chain, defs, behaviour, structure) ==
    [name |-> config.name, profile |-> config.profile, chain |-> chain,
     pins |-> behaviour.pins, sysfs |-> behaviour.sysfs,
     structPins |-> structure.pins, structSysfs |-> structure.sysfs,
     holdover |-> extractHoldoverParameters(Dump, chain),
     flags |-> extractDPLLFlags(Dump, chain, defs),
     gnss |-> <<>>]
resolvedChain(config, defs) ==
    {populatePhaseAdjustments(chain, defs) :
        chain \in IF config.type = "" THEN {config.chain}
                  ELSE ResolveClockChain(config, ptpConfig, defs, LabelMap)}
enrich(config, defs) ==
    UNION {UNION {{enrichWith(config, chain, defs, b, s) :
                     s \in resolveClockChainStructure(Dump, chain, defs)} :
                     b \in resolveClockChainBehavior(Dump, chain)} :
                     chain \in resolvedChain(config, defs)}

ResolveConfigs ==
    /\ updating.pc = "resolve"
    /\ pinCache' = Dump
    /\ \E prepared \in {[i \in DOMAIN updating.new |-> enrich(updating.new[i], getHardwareDefaults)]} :
         updating' = IF \E i \in DOMAIN prepared : prepared[i] = {} THEN idle
                     ELSE [pc |-> "store", new |-> [i \in DOMAIN prepared |-> The(prepared[i])]]
    /\ UNCHANGED <<configs, ready, ptpConfig, settings, detectors, hw, faults, panicked, applied>>

setHardwareConfigs ==
    /\ updating.pc = "store"
    /\ configs' = updating.new /\ ready' = TRUE /\ updating' = idle
    /\ applied' = {}
    /\ UNCHANGED <<pinCache, ptpConfig, settings, detectors, hw, faults, panicked>>

SetPtpConfig ==
    /\ \E p \in PtpConfigs \ {ptpConfig} : ptpConfig' = p
    /\ UNCHANGED <<configs, ready, pinCache, updating, settings, detectors, hw,
                   faults, panicked, applied>>

(***************************************************************************)
(* GNSS: the first GNSS source of a profile and its match status.          *)
(***************************************************************************)
findGNSSSource(name) ==
    LET sources(c) == SelectSeq(c.chain.sources, LAMBDA s : s.type = "gnss")
        having == {i \in DOMAIN configs :
                     ProfileNamesMatch(name, configs[i].profile) /\ sources(configs[i]) # <<>>}
        i == CHOOSE k \in having : \A j \in having : k <= j
    IN  IF having = {} THEN {} ELSE {[at |-> i, source |-> sources(configs[i])[1]]}

\* findGNSSDevice: a tty is returned as given, a device may be absent.
findGNSSDevice(match) ==
    IF match = {} THEN {"none"}
    ELSE IF The(match).kind = "tty" THEN {"tty"} ELSE {"none", "tty"}

\* updateGnssStatus keeps one status for each source.
GetGNSSSerialPort(name) ==
    /\ \E g \in findGNSSSource(name) :
         \E tty \in IF g.source.gnss = {} THEN {"none"} ELSE findGNSSDevice(The(g.source.gnss).match) :
            configs' = [configs EXCEPT ![g.at].gnss = (g.source.name :> tty) @@ @]
    /\ UNCHANGED <<ready, pinCache, ptpConfig, updating, settings, detectors, hw,
                   faults, panicked, applied>>

-----------------------------------------------------------------------------
Profiles == UNION {{p.name : p \in c} : c \in PtpConfigs}
Clocks == {p.clock : p \in Dump}

HWInit ==
    /\ configs = <<>> /\ ready = FALSE /\ pinCache = {}
    /\ ptpConfig = {} /\ updating = idle /\ settings = <<>> /\ detectors = <<>>
    /\ hw = <<>> /\ faults = 0 /\ panicked = FALSE /\ applied = {}

HWNext ==
    /\ ~panicked
    /\ \/ \E new \in Updates : UpdateHardwareConfig(new)
       \/ GetDpllPinsFails
       \/ ResolveConfigs
       \/ setHardwareConfigs
       \/ SetPtpConfig
       \/ \E p \in Profiles : \/ ApplyHardwareConfigsForProfile(p)
                              \/ \E type \in {"locked", "lost"} : ApplyConditionForProfile(p, type)
                              \/ GetGNSSSerialPort(p)
       \/ \E clock \in Clocks : ProcessDPLLDeviceNotifications(clock)

HWSpec == HWInit /\ [][HWNext]_hwVars
-----------------------------------------------------------------------------
(***************************************************************************)
(* Properties.                                                             *)
(***************************************************************************)
\* What a condition's desired states write when they are executed one by one:
\* a state's files, then the pins of one DPLL after the other.
stateWrites(s, chain) ==
    LET dpll == SetToSeq(s.dpll)
    IN  laterWins(<<laterWins(sysfsOf(s, chain))>> \o
            [i \in DOMAIN dpll |-> pinWrites(createPinCommandForDPLLDesiredState(Dump, dpll[i], chain))])
asOrdered(condition, chain) ==
    laterWins([i \in DOMAIN condition.states |-> stateWrites(condition.states[i], chain)])

\* ApplyConditionForProfile writes the cached commands, all files first and
\* then one merged command for each pin; that leaves every pin field and file
\* as executing the desired states one by one would ("strictly in the order
\* defined in DesiredStates"), for a condition whose name is its own.
CachedAsOrdered ==
    \A i \in DOMAIN configs : \A k \in DOMAIN configs[i].chain.conditions :
        LET c == configs[i]
            conditions == c.chain.conditions
            name == conditions[k].name
        IN  /\ conditions[k].triggers # {}
            /\ \A j \in DOMAIN conditions : conditions[j].name = name => j = k
            => writePins(laterWins(cached(c.sysfs, name)), mergePinCommandsByID(cached(c.pins, name)))
                 = asOrdered(conditions[k], c.chain)

\* After ApplyHardwareConfigsForProfile succeeded, what the init conditions of
\* the profile's configurations want is what the hardware holds: neither the
\* vendor defaults, nor a default condition, nor another configuration of the
\* profile is written after it.
initWants(chain) ==
    LET init == conditionsOnce(chain, "init")
    IN  laterWins([k \in DOMAIN init |-> asOrdered(init[k], chain)])
InitHolds ==
    \A name \in Profiles : <<"profile", name>> \in applied =>
        \A i \in DOMAIN configs : ProfileNamesMatch(name, configs[i].profile) =>
            \A l \in DOMAIN initWants(configs[i].chain) :
                l \in DOMAIN hw /\ hw[l] = initWants(configs[i].chain)[l]

clocksOf(name) ==
    UNION {{getClockIDCached(networkInterface(s), s.hwDef, Dump) : s \in ToSet(configs[i].chain.structure)} :
             i \in {j \in DOMAIN configs : ProfileNamesMatch(name, configs[j].profile)}}

\* A T-BC transition of one profile moves no pin of a clock that is not in a
\* configuration of that profile, although boards share pin labels: GetPin
\* looks up the label under the subsystem's own clock.
ProfileIsolation ==
    [][\A name \in Profiles : <<"condition", name>> \in applied' =>
           \A p \in Dump : p.clock \notin clocksOf(name) =>
             \A l \in DOMAIN hw' : l[1] = "pin" /\ l[2] = p.id =>
               l \in DOMAIN hw /\ hw'[l] = hw[l]]_hwVars

=============================================================================
