----------------------------- MODULE ClockChain -----------------------------
(***************************************************************************)
(* What a HardwareConfig says once it is resolved against the node: the    *)
(* clock ID behind a network interface, the vendor defaults and behaviour  *)
(* templates with the board's labels, the structure and behaviour derived  *)
(* for a clockType, and the phase adjustments of the delay model           *)
(* (pkg/hardwareconfig: utils.go, vendor_loader.go, label_remap.go,        *)
(* clockchain_resolution.go, delay_compensation.go).                       *)
(*                                                                         *)
(* An optional value (a Go pointer, a lookup that may fail) is a set with  *)
(* at most one member.  A Go map is a function; the empty map is <<>>.     *)
(***************************************************************************)
EXTENDS Integers, Sequences, FiniteSets, SequencesExt

CONSTANTS
    Dump,        \* the DPLL pins the kernel reports
    DeviceType,  \* parent device -> "EEC" or "PPS", for the devices dumped
    Defaults,    \* embeddedDefaults and embeddedDelays: hwDef -> defaults
    Templates,   \* embeddedBehaviorProfiles: hwDef -> clock type -> template
    Nics,        \* interface -> its serial number, DPLL pin, leading port...
    PtpDevices   \* interface -> the PTP devices with writable files

\* A pin of the dump names its clock and its upstream pins.
PinShape(p) == DOMAIN p = {"id", "clock", "board", "package", "module",
                           "parents", "upper", "min", "max", "gran"}

\* The kernel numbers the pins of its dump.  A clock's pins have labels of their own; getPERLAClockIDFromPinCache
\* takes the first zl3073x clock in map order: the nodes modelled have one such device.
ASSUME DumpAssumption ==
    /\ IsFiniteSet(Dump)
    /\ \A p, q \in Dump :
         /\ PinShape(p)
         /\ p.id = q.id => p = q
         /\ p.clock = q.clock /\ p.board = q.board => p = q
    /\ Cardinality({p.clock : p \in {q \in Dump : q.module = "zl3073x"}}) <= 1

NoClock == <<>>
The(S) == CHOOSE x \in S : TRUE

(***************************************************************************)
(* Slices and maps.                                                        *)
(***************************************************************************)
\* What f makes of each element, in order.
concat(seq, f(_)) == FlattenSeq([i \in DOMAIN seq |-> f(seq[i])])
suchThat(seq, P(_)) == concat(seq, LAMBDA x : IF P(x) THEN <<x>> ELSE <<>>)
firstSuchThat(seq, P(_)) ==
    LET at == {i \in DOMAIN seq : P(seq[i])}
    IN  {seq[i] : i \in {k \in at : \A j \in at : k <= j}}

\* The map g after f was written into it, and maps written one after another.
over(f, g) == [l \in DOMAIN f \cup DOMAIN g |-> IF l \in DOMAIN f THEN f[l] ELSE g[l]]
lastWith(fs, l) ==
    LET at == {i \in DOMAIN fs : l \in DOMAIN fs[i]}
    IN  CHOOSE i \in at : \A j \in at : j <= i
laterWins(fs) == [l \in UNION {DOMAIN fs[i] : i \in DOMAIN fs} |-> fs[lastWith(fs, l)][l]]

\* Slices of the API's types, and the sets a slice stands for where its order
\* does not matter.
IsSlice(s) == s \in Seq(ToSet(s))
IsCondition(c) ==
    /\ {"name", "triggers", "states"} \subseteq DOMAIN c
    /\ IsSlice(c.states)
    /\ \A i \in DOMAIN c.states :
         /\ {"dpll", "pin", "period"} \subseteq DOMAIN c.states[i]
         /\ \A S \in {c.states[i].dpll, c.states[i].pin, c.states[i].period} : IsFiniteSet(S)
IsBehavior(b) ==
    /\ {"sources", "conditions"} \subseteq DOMAIN b
    /\ IsSlice(b.sources) /\ IsSlice(b.conditions)
    /\ \A i \in DOMAIN b.conditions : IsCondition(b.conditions[i])

ASSUME TemplatesAssumption ==
    \A h \in DOMAIN Templates : \A t \in DOMAIN Templates[h] : IsBehavior(Templates[h][t])
ASSUME PtpDevicesAssumption == \A i \in DOMAIN PtpDevices : IsSlice(PtpDevices[i])

(***************************************************************************)
(* The clock ID of an interface.                                           *)
(***************************************************************************)
parseSerialNumberToClockIDDirect(serial) ==
    IF Len(serial) = 8 THEN serial ELSE NoClock

parseSerialNumberToClockIDEUI64(serial) ==
    IF Len(serial) < 6 THEN NoClock
    ELSE SubSeq(serial, 1, 3) \o <<255, 254>> \o SubSeq(serial, 6, Len(serial))

getNetdevDpllPin(iface) == {p \in Dump : p.id \in Nics[iface].pin}

\* The clock of the first pin found, if any.
clockOf(pins) == IF pins = <<>> THEN NoClock ELSE The(pins[1]).clock

\* The clock of the first parent pin that belongs to another module.
externalParents(pin) ==
    SelectSeq([i \in DOMAIN pin.upper |-> {p \in Dump : p.id = pin.upper[i]}],
              LAMBDA found : \E p \in found : p.module # pin.module)
getClockIDFromPinParentChain(iface) ==
    clockOf(FlattenSeq(SetToSeq({externalParents(pin) : pin \in getNetdevDpllPin(iface)})))

getPERLAClockIDFromPinCache(cache) ==
    clockOf(SetToSeq({{p} : p \in {q \in cache : q.module = "zl3073x"}}))

emptyDefaults == [method |-> "", flags |-> {}, pinDefaults |-> <<>>,
                  esync |-> [inputs |-> <<>>, outputs |-> <<>>],
                  connectors |-> [inputs |-> <<>>, outputs |-> <<>>, disable |-> <<>>],
                  delays |-> [components |-> <<>>, connections |-> <<>>, routes |-> <<>>]]

embeddedFor(hwDef) ==
    IF hwDef \in DOMAIN Defaults THEN Defaults[hwDef] ELSE emptyDefaults

namedMethod(hwDef) == IF hwDef = "" THEN "" ELSE embeddedFor(hwDef).method
getClockIDResolutionMethod(method, iface) ==
    IF method # "" THEN method
    ELSE IF Nics[iface].e825 THEN "devlinkPinChain" ELSE "direct"

\* "direct" is chosen only by name: every other method, none included, is EUI-64.
resolveClockIDViaSerialNumber(iface, method) ==
    IF method = "direct"
    THEN parseSerialNumberToClockIDDirect(Nics[iface].serial)
    ELSE parseSerialNumberToClockIDEUI64(Nics[iface].serial)

clockOrElse(id, other) == IF id # NoClock THEN id ELSE other
resolveClockIDViaPinChain(iface, cache) ==
    clockOrElse(getClockIDFromPinParentChain(iface), getPERLAClockIDFromPinCache(cache))

resolveClockID(iface, method, cache) ==
    IF iface \notin DOMAIN Nics THEN NoClock
    ELSE IF getClockIDResolutionMethod(method, iface) = "devlinkPinChain"
         THEN resolveClockIDViaPinChain(iface, cache)
         ELSE resolveClockIDViaSerialNumber(iface, method)
GetClockIDFromInterfaceWithCache(iface, hwDef, cache) ==
    resolveClockID(iface, namedMethod(hwDef), cache)

\* A zero clock ID is an error too.
nonZero(id) == IF \A i \in DOMAIN id : id[i] = 0 THEN NoClock ELSE id
getClockIDCached(iface, hwDef, cache) ==
    nonZero(GetClockIDFromInterfaceWithCache(iface, hwDef, cache))

GetPinOfAnyClock(cache, clock, label) == {p \in cache : p.board = label}

\* The pin with a board label, or else with that package label.
GetPin(cache, clock, label) ==
    IF \E p \in cache : p.clock = clock /\ p.board = label
    THEN {p \in cache : p.clock = clock /\ p.board = label}
    ELSE {p \in cache : p.clock = clock /\ p.package = label}

(***************************************************************************)
(* Vendor files and the board's label map.                                 *)
(***************************************************************************)
applyLabelRemap(label, map) == IF label \in DOMAIN map THEN map[label] ELSE label

RemapPinDefaults(pinDefaults, map) ==
    [l \in {applyLabelRemap(k, map) : k \in DOMAIN pinDefaults} |->
        pinDefaults[CHOOSE k \in DOMAIN pinDefaults : applyLabelRemap(k, map) = l]]

RemapDelayCompensation(delays, map) ==
    [delays EXCEPT !.components = [i \in DOMAIN @ |->
        [@[i] EXCEPT !.point = applyLabelRemap(@, map)]]]

LoadHardwareDefaults(hwDef, map) ==
    [embeddedFor(hwDef) EXCEPT !.pinDefaults = RemapPinDefaults(@, map),
                               !.delays = RemapDelayCompensation(@, map)]

\* Only the pin roles are remapped: the labels a condition spells out are not.
RemapBehaviorProfileLabels(template, map) ==
    [template EXCEPT !.roles = [r \in DOMAIN @ |-> applyLabelRemap(@[r], map)]]

LoadBehaviorProfile(hwDef, clockType, map) ==
    IF hwDef \in DOMAIN Templates /\ clockType \in DOMAIN Templates[hwDef]
    THEN {RemapBehaviorProfileLabels(Templates[hwDef][clockType], map)}
    ELSE {}

(***************************************************************************)
(* Names and ports of a PTP profile.                                       *)
(***************************************************************************)
\* A stored profile name is <<config, name>>, or <<name>> without a prefix.
ProfileNamesMatch(stored, requested) ==
    requested # "" /\ Len(stored) = 2 /\ stored[2] = requested

extractInterfacesFromPtpProfile(profile) ==
    [i \in DOMAIN profile.ports |-> profile.ports[i].iface]

extractUpstreamPortsFromPtpProfile(profile) ==
    LET up == SelectSeq(profile.ports, LAMBDA p : p.upstream)
    IN  [i \in DOMAIN up |-> up[i].iface]

findLeadingInterfaceFromPort(port) ==
    IF port \in DOMAIN Nics THEN Nics[port].lead ELSE ""

(***************************************************************************)
(* Subsystems.                                                             *)
(***************************************************************************)
networkInterface(subsystem) ==
    IF subsystem.nic # "" THEN subsystem.nic
    ELSE IF subsystem.ports # <<>> THEN subsystem.ports[1] ELSE ""

firstInterface(subsystem) ==
    IF subsystem.ports = <<>> THEN "" ELSE subsystem.ports[1]

subsystemNamed(chain, name) == firstSuchThat(chain.structure, LAMBDA s : s.name = name)

\* Its clock, by its interface (GetSubsystemNetworkInterface) and its hardware
\* (getSubsystemHardwareDefinition).
subsystemClock(chain, name, cache) ==
    {getClockIDCached(networkInterface(s), s.hwDef, cache) : s \in subsystemNamed(chain, name)}
        \ {NoClock}

(***************************************************************************)
(* Deriving structure and behaviour for a clockType.                       *)
(***************************************************************************)
\* The PTP input pin of a role is driven with one pulse a second.
ptpInput == [connector |-> "", phase |-> {}, freq |-> 1, esync |-> ""]
injectedPin == [connector |-> "", phase |-> {}, freq |-> 0, esync |-> ""]

deriveSubsystemStructure(s, profile, clockType, map) ==
    LET up       == extractUpstreamPortsFromPtpProfile(profile)
        from     == IF clockType = "T-GM" THEN extractInterfacesFromPtpProfile(profile) ELSE up
        lead     == IF s.nic # "" THEN s.nic
                    ELSE IF from = <<>> THEN "" ELSE findLeadingInterfaceFromPort(from[1])
        template == LoadBehaviorProfile(s.hwDef, clockType, map)
        derived(t) ==
            IF clockType = "T-GM" THEN [s EXCEPT !.nic = lead]
            ELSE [s EXCEPT !.nic = lead,
                           !.phaseIn = IF @ = <<>> THEN t.roles.ptp :> ptpInput ELSE @,
                           !.ports = IF @ = <<>> THEN up ELSE @]
    IN  IF \/ s.hwDef = ""
           \/ clockType # "T-GM" /\ up = <<>>
           \/ lead = ""
           \/ template = {}
           \/ clockType # "T-GM" /\ s.phaseIn = <<>> /\ The(template).roles.ptp = ""
        THEN {}
        ELSE {derived(The(template))}

\* Every pin that compensates a delay exists in the structure.
injectDelayCompensationPins(s, defs) ==
    LET points(isInput) == {c.point : c \in {x \in ToSet(defs.delays.components) :
                                x.kind = "dpll" /\ x.point # "" /\ x.input = isInput}}
        with(pins, labels) == pins @@ [l \in labels |-> injectedPin]
    IN  [s EXCEPT !.phaseOut = with(@, points(FALSE)), !.phaseIn = with(@, points(TRUE))]

resolveTemplateString(s, vars) == IF s \in DOMAIN vars THEN vars[s] ELSE s

deepCopyAndResolveSourceConfig(source, vars, ports) ==
    [source EXCEPT
        !.subsystem = resolveTemplateString(@, vars),
        !.label = resolveTemplateString(@, vars),
        !.receivers = IF source.type = "ptpTimeReceiver" /\ ports # <<>> THEN ports ELSE @]

\* The name of a condition is kept: two subsystems instantiate two conditions
\* of one name.
resolvePin(d, vars) == [d EXCEPT !.subsystem = resolveTemplateString(@, vars),
                                 !.label = resolveTemplateString(@, vars)]
resolveState(s, vars) == [s EXCEPT !.dpll = {resolvePin(d, vars) : d \in s.dpll}]
deepCopyAndResolveCondition(condition, vars) ==
    [condition EXCEPT !.states =
        [i \in DOMAIN condition.states |-> resolveState(condition.states[i], vars)]]

\* A user's Ethernet selectors further constrain the template's device.
mergeEthernetDeviceSelectors(template, user) == user @@ template

mergeSourceConfig(tpl, user) ==
    LET matcher(t, u) ==
            IF u.match = {} THEN t.match
            ELSE IF /\ t.match # {} /\ The(t.match).kind = "ethernet"
                    /\ The(u.match).kind = "ethernet"
                 THEN {[kind |-> "ethernet",
                        sel |-> mergeEthernetDeviceSelectors(The(t.match).sel, The(u.match).sel)]}
                 ELSE u.match
        gnss(t, u) == IF t = {} THEN u ELSE {[The(u) EXCEPT !.match = matcher(The(t), The(u))]}
    IN  [tpl EXCEPT
            !.subsystem = IF user.subsystem # "" THEN user.subsystem ELSE @,
            !.label = IF user.label # "" THEN user.label ELSE @,
            !.receivers = IF user.receivers # <<>> THEN user.receivers ELSE @,
            !.gnss = IF user.gnss # {} THEN gnss(@, user.gnss) ELSE @]

\* A user's source is merged into the first one of its name (of its type when
\* it has none), or is appended.
mergeUserSource(sources, user) ==
    LET at == {i \in DOMAIN sources : IF user.name # "" THEN sources[i].name = user.name
                                      ELSE sources[i].type = user.type}
    IN  IF at = {} THEN Append(sources, user)
        ELSE [i \in DOMAIN sources |->
                IF i \in at /\ \A j \in at : i <= j THEN mergeSourceConfig(sources[i], user)
                ELSE sources[i]]
mergeUserSources(base, users) ==
    LET merged[n \in 0..Len(users)] ==
          IF n = 0 THEN base ELSE mergeUserSource(merged[n - 1], users[n])
    IN  merged[Len(users)]

\* A user's condition replaces the first one of its name, or is appended.
mergeUserCondition(conditions, user) ==
    LET at == {i \in DOMAIN conditions : conditions[i].name = user.name}
    IN  IF at = {} THEN Append(conditions, user)
        ELSE [i \in DOMAIN conditions |->
                IF i \in at /\ \A j \in at : i <= j THEN user ELSE conditions[i]]
mergeUserConditions(base, users) ==
    LET merged[n \in 0..Len(users)] ==
          IF n = 0 THEN base ELSE mergeUserCondition(merged[n - 1], users[n])
    IN  merged[Len(users)]

\* What the template of each subsystem says, with the subsystem's names.
templateOf(s, clockType, map) ==
    IF s.hwDef = "" THEN {} ELSE LoadBehaviorProfile(s.hwDef, clockType, map)
templateVars(s, t) ==
    [x \in {"{subsystem}", "{ptpInputPin}", "{gnssInputPin}"} |->
        CASE x = "{subsystem}" -> s.name
          [] x = "{ptpInputPin}" -> t.roles.ptp
          [] OTHER -> t.roles.gnss]
templateSources(s, ts) ==
    IF ts = {} THEN <<>>
    ELSE [i \in DOMAIN The(ts).sources |->
            deepCopyAndResolveSourceConfig(The(ts).sources[i], templateVars(s, The(ts)), s.ports)]
templateConditions(s, ts) ==
    IF ts = {} THEN <<>>
    ELSE [i \in DOMAIN The(ts).conditions |->
            deepCopyAndResolveCondition(The(ts).conditions[i], templateVars(s, The(ts)))]

deriveBehavior(chain, clockType, map) ==
    LET sources == concat(chain.structure, LAMBDA s :
                     templateSources(s, templateOf(s, clockType, map)))
        conditions == concat(chain.structure, LAMBDA s :
                        templateConditions(s, templateOf(s, clockType, map)))
    IN  [chain EXCEPT !.sources = mergeUserSources(sources, chain.sources),
                      !.conditions = mergeUserConditions(conditions, chain.conditions)]

\* A subsystem whose defaults carry DPLL flags is not managed and kept as is.
\* defs maps a hardware definition to its cached defaults.
ResolveClockChain(config, ptpConfig, defs, map) ==
    LET profiles == {p \in ptpConfig : ProfileNamesMatch(p.name, config.profile)}
        managed(s) == s.hwDef = "" \/ defs[s.hwDef].flags = {}
        explicit(s) == s.nic # "" /\ s.phaseIn # <<>> /\ s.ports # <<>>
        inject(s) == IF s.hwDef = "" THEN s ELSE injectDelayCompensationPins(s, defs[s.hwDef])
        resolved(s) ==
            IF ~managed(s) THEN {s}
            ELSE {inject(d) : d \in IF explicit(s) THEN {s}
                                    ELSE deriveSubsystemStructure(s, The(profiles), config.type, map)}
        structure == config.chain.structure
        derived == [i \in DOMAIN structure |-> The(resolved(structure[i]))]
    IN  IF profiles = {} \/ \E i \in DOMAIN structure : resolved(structure[i]) = {} THEN {}
        ELSE {deriveBehavior([config.chain EXCEPT !.structure = derived], config.type, map)}

(***************************************************************************)
(* The delay compensation model.                                           *)
(***************************************************************************)
getConnectionDelay(delays, from, to) ==
    {c.ps : c \in firstSuchThat(delays.connections, LAMBDA c : c.from = from /\ c.to = to)}

calculateRouteDelay(delays, route) ==
    LET hop(i) == getConnectionDelay(delays, route[i], route[i + 1])
        hops   == 1..(Len(route) - 1)
    IN  IF Len(route) < 2 \/ \E i \in hops : hop(i) = {} THEN {}
        ELSE {SumFunction([i \in hops |-> The(hop(i))])}

findComponentByID(delays, id) ==
    {c \in ToSet(delays.components) : c.id = id /\ c.kind = "dpll" /\ c.point # ""}

\* Pin label -> delay along the route it compensates; the last route wins.
ResolvePhaseAdjustments(delays) ==
    FoldLeft(LAMBDA acc, r :
                LET c == findComponentByID(delays, r.compensator)
                    d == calculateRouteDelay(delays, r.sequence)
                IN  IF c = {} \/ d = {} THEN acc ELSE (The(c).point :> The(d)) @@ acc,
             <<>>, delays.routes)

\* Adds the internal delay to the matching phase pins of a subsystem.
addPhases(s, internal) ==
    LET adjusted(pins) == [l \in DOMAIN pins |->
            IF l \notin DOMAIN internal THEN pins[l]
            ELSE [pins[l] EXCEPT !.phase = {internal[l] + (IF @ = {} THEN 0 ELSE The(@))}]]
    IN  [s EXCEPT !.phaseIn = adjusted(@), !.phaseOut = adjusted(@)]

\* Is called once for each subsystem that names its hardware, and each call
\* adjusts EVERY subsystem.
PopulatePhaseAdjustmentsFromDelays(s, delays) ==
    FoldLeft(LAMBDA acc, d : addPhases(acc, ResolvePhaseAdjustments(d)), s, delays)
populatePhaseAdjustments(chain, defs) ==
    LET delays == concat(chain.structure, LAMBDA s :
                    IF s.hwDef = "" \/ networkInterface(s) = "" THEN <<>> ELSE <<defs[s.hwDef].delays>>)
    IN  [chain EXCEPT !.structure =
            [i \in DOMAIN chain.structure |->
                PopulatePhaseAdjustmentsFromDelays(chain.structure[i], delays)]]
=============================================================================
