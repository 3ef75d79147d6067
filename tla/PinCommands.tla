---------------------------- MODULE PinCommands ----------------------------
(***************************************************************************)
(* The commands a resolved clock chain stands for (pkg/hardwareconfig/     *)
(* hardwareconfig.go): a DPLL pin command sets fields of one pin, a sysfs  *)
(* command writes one file.  `pins' is the pin cache, `defs' the cached    *)
(* vendor defaults.                                                        *)
(*                                                                         *)
(* A pin command is [id, set], set a function from the fields it carries   *)
(* (<<"freq", "">>, <<"esync", "">>, <<"phase", "">>, <<"prio", parent>>,  *)
(* <<"state", parent>>) to numbers: a nil field is absent.  A sysfs        *)
(* command is a function from the one file it writes to the value.         *)
(***************************************************************************)
EXTENDS ClockChain

CONSTANT IntBits    \* width of the int32 phase adjustment

ASSUME IntBitsAssumption == IntBits \in Nat \ {0}

\* GetPinStateUint32: the states a pin can be given, with their codes.
stateCode == [connected |-> 1, disconnected |-> 2, selectable |-> 3]

(***************************************************************************)
(* Merging.                                                                *)
(***************************************************************************)
setOf(cmds, id) == [k \in DOMAIN cmds |-> IF cmds[k].id = id THEN cmds[k].set ELSE <<>>]
idsOf(cmds) == {cmds[k].id : k \in DOMAIN cmds}

mergeKeepsFirst(cmds) ==
    {[id |-> i, set |-> laterWins(Reverse(setOf(cmds, i)))] : i \in idsOf(cmds)}

\* One command per pin: later commands win, field by field.  The order of
\* the result is a Go map's, so it is a set.
mergePinCommandsByID(cmds) ==
    {[id |-> i, set |-> laterWins(setOf(cmds, i))] : i \in idsOf(cmds)}

(***************************************************************************)
(* Desired states and defaults of a pin's parent devices.                  *)
(***************************************************************************)
\* want gives EEC and PPS an optional priority and state; a field is carried
\* for a parent of known type whose direction accepts it.
parentFields(pin, want, accepted) ==
    LET carried == {fp \in {"prio", "state"} \X DOMAIN pin.parents :
                      /\ fp[2] \in DOMAIN DeviceType
                      /\ <<fp[1], pin.parents[fp[2]]>> \in accepted
                      /\ want[DeviceType[fp[2]]][fp[1]] # {}}
        value(f, v) == IF f = "state" THEN stateCode[v] ELSE v
    IN  [fp \in carried |-> value(fp[1], The(want[DeviceType[fp[2]]][fp[1]]))]

\* An input takes its priority and an output its state from the defaults.
buildPinCommandFromDefaults(pins, clock, label, want) ==
    {[id |-> pin.id, set |-> parentFields(pin, want, {<<"prio", "in">>, <<"state", "out">>})] :
     pin \in GetPin(pins, clock, label)}

\* An input takes both from a desired state, an output its state.  Fails
\* (is empty) for an unknown subsystem, interface, clock or pin.
createPinCommandForDPLLDesiredState(pins, d, chain) ==
    IF d.subsystem = "" THEN {}
    ELSE {[id |-> pin.id,
           set |-> parentFields(pin, d.want, {<<"prio", "in">>, <<"state", "in">>,
                                              <<"state", "out">>})] :
          pin \in UNION {GetPin(pins, clock, d.label) :
                           clock \in subsystemClock(chain, d.subsystem, pins)}}

(***************************************************************************)
(* Frequency and eSync.                                                    *)
(***************************************************************************)
\* <<transfer frequency, eSync frequency>>, zero where there is none.
resolvePinFrequency(cfg, chain) ==
    LET named == {d \in chain.esyncDefs : d.name = cfg.esync}
        d     == The(named)
    IN  IF cfg.esync # ""
        THEN IF named = {} THEN <<0, 0>>
             ELSE <<d.transfer, IF d.embedded = 0 THEN 1 ELSE d.embedded>>
        ELSE <<cfg.freq, 0>>

\* The vendor's sequence of eSync writes, or a single write of both.
buildPinFrequencyCommands(pin, f, steps) ==
    LET freq  == f[1]
        esync == f[2]
        want(step) == [t \in {"EEC", "PPS"} |-> [prio |-> {}, state |-> step.parents[t]]]
        fields(step) ==
            (IF "frequency" \in step.args THEN <<"freq", "">> :> freq ELSE <<>>)
            @@ (IF "eSyncFrequency" \in step.args THEN <<"esync", "">> :> esync ELSE <<>>)
            @@ parentFields(pin, want(step), {<<"state", "out">>})
        both == [args |-> {"frequency", "eSyncFrequency"}, parents |-> [EEC |-> {}, PPS |-> {}]]
        sequence(s) == [i \in DOMAIN s |-> [id |-> pin.id, set |-> fields(s[i])]]
    IN  IF freq = 0 /\ esync = 0 THEN <<>>
        ELSE IF esync = 0 THEN <<[id |-> pin.id, set |-> <<"freq", "">> :> freq]>>
        ELSE sequence(IF steps = <<>> THEN <<both>> ELSE steps)

\* The pins of a group, in some order.
listed(group, isInput) ==
    LET labels == SetToSeq(DOMAIN group)
    IN  [i \in DOMAIN labels |->
           [label |-> labels[i], cfg |-> group[labels[i]], isInput |-> isInput]]

buildESyncPinCommands(pins, s, clock, chain, spec) ==
    concat(listed(s.phaseIn, TRUE) \o listed(s.phaseOut, FALSE)
             \o listed(s.freqIn, TRUE) \o listed(s.freqOut, FALSE),
           LAMBDA x : concat(SetToSeq(GetPin(pins, clock, x.label)),
             LAMBDA pin : buildPinFrequencyCommands(pin, resolvePinFrequency(x.cfg, chain),
                            IF x.isInput THEN spec.esync.inputs ELSE spec.esync.outputs)))

(***************************************************************************)
(* Phase adjustment.                                                       *)
(***************************************************************************)
\* The conversion of an int64 to an int32 keeps the low bits.
asInt32(n) == ((n + 2 ^ (IntBits - 1)) % (2 ^ IntBits)) - 2 ^ (IntBits - 1)

roundToGranularity(value, gran) ==
    IF gran <= 1 THEN value
    ELSE IF value >= 0 THEN ((value + gran \div 2) \div gran) * gran
    ELSE -(((gran \div 2 - value) \div gran) * gran)

clampToRange(value, pin) ==
    IF pin.min # 0 /\ value < pin.min THEN pin.min
    ELSE IF pin.max # 0 /\ value > pin.max THEN pin.max ELSE value

buildPhaseAdjustmentCommands(pins, s, clock) ==
    LET command(pin, phase) ==
            [id |-> pin.id, set |-> <<"phase", "">> :>
                clampToRange(roundToGranularity(asInt32(phase), pin.gran), pin)]
    IN  concat(listed(s.phaseIn, TRUE) \o listed(s.phaseOut, FALSE),
               LAMBDA x : SetToSeq({command(pin, phase) :
                            pin \in GetPin(pins, clock, x.label), phase \in x.cfg.phase}))

(***************************************************************************)
(* Connectors: sysfs files of the subsystem's first Ethernet port.         *)
(***************************************************************************)
collectConnectorUsage(s) ==
    LET used(group) == {group[l].connector : l \in DOMAIN group} \ {""}
    IN  [inputs |-> used(s.phaseIn) \cup used(s.freqIn),
         outputs |-> used(s.phaseOut) \cup used(s.freqOut)]

\* A path with ptp* stands for the file of every PTP device of the interface;
\* it fails when there is none.
defaultResolveSysFSPtpDevice(iface, file) ==
    LET devices == IF iface \in DOMAIN PtpDevices THEN PtpDevices[iface] ELSE <<>>
    IN  [i \in DOMAIN devices |-> <<"file", iface, devices[i], file>>]

fileCommand(path, value) == [l \in {path} |-> value]

render(cmds, iface) ==
    concat(cmds, LAMBDA c :
        LET paths == IF c.anyDevice THEN defaultResolveSysFSPtpDevice(iface, c.file)
                     ELSE <<<<"file", iface, "", c.file>>>>
        IN  [p \in DOMAIN paths |-> fileCommand(paths[p], c.value)])

\* Commands of the connectors in use, disable commands of the others.
translateConnectorCommands(connectors, s) ==
    LET use     == collectConnectorUsage(s)
        defined == DOMAIN connectors.inputs \cup DOMAIN connectors.outputs \cup DOMAIN connectors.disable
        idle    == (defined \ (use.inputs \cup use.outputs)) \cap DOMAIN connectors.disable
        all(table, names) ==
            LET seq == SetToSeq(names \cap DOMAIN table)
            IN  FlattenSeq([i \in DOMAIN seq |-> table[seq[i]]])
    IN  IF firstInterface(s) = "" THEN <<>>
        ELSE render(all(connectors.inputs, use.inputs) \o all(connectors.outputs, use.outputs)
                    \o all(connectors.disable, idle), firstInterface(s))

connectorsResolve(connectors, s) ==
    \/ firstInterface(s) = ""
    \/ firstInterface(s) \in DOMAIN PtpDevices
    \/ \A table \in {connectors.inputs, connectors.outputs, connectors.disable} :
         \A c \in DOMAIN table : \A i \in DOMAIN table[c] : ~table[c][i].anyDevice

(***************************************************************************)
(* The structure of a subsystem: vendor defaults, then eSync, then phase.  *)
(***************************************************************************)
structurePins(pins, s, clock, chain, spec) ==
    IF clock = NoClock THEN <<>>
    ELSE concat(listed(spec.pinDefaults, TRUE),
                LAMBDA x : SetToSeq(buildPinCommandFromDefaults(pins, clock, x.label, x.cfg)))
         \o buildESyncPinCommands(pins, s, clock, chain, spec)
         \o buildPhaseAdjustmentCommands(pins, s, clock)

resolveSubsystemStructure(pins, s, chain, defs) ==
    IF networkInterface(s) = "" \/ ~connectorsResolve(defs[s.hwDef].connectors, s) THEN {}
    ELSE {[pins |-> structurePins(pins, s, getClockIDCached(networkInterface(s), s.hwDef, pins),
                                  chain, defs[s.hwDef]),
           sysfs |-> translateConnectorCommands(defs[s.hwDef].connectors, s)]}

\* One structure that cannot be resolved fails all.
joined(parts) ==
    IF \E i \in DOMAIN parts : parts[i] = {} THEN {}
    ELSE {[pins |-> concat(parts, LAMBDA p : The(p).pins),
           sysfs |-> concat(parts, LAMBDA p : The(p).sysfs)]}

resolveClockChainStructure(pins, chain, defs) ==
    LET named == SelectSeq(chain.structure, LAMBDA s : s.hwDef # "")
    IN  joined([i \in DOMAIN named |-> resolveSubsystemStructure(pins, named[i], chain, defs)])

(***************************************************************************)
(* The behaviour: what each condition's desired states write.              *)
(***************************************************************************)
\* The interface of a source's subsystem; "" asks for the first PTP source.
getInterfaceNameFromSources(name, chain) ==
    LET fits(s) == IF name = "" THEN s.type = "ptpTimeReceiver" /\ s.receivers # <<>>
                   ELSE s.name = name
        owns(s, source) == \/ source.receivers[1] \in ToSet(s.ports)
                           \/ source.receivers[1] = s.nic
        valid(s, source) == \/ source.type \in {"dpllPhaseLocked", "gnss"}
                            \/ source.receivers # <<>> /\ owns(s, source)
    IN  UNION {{networkInterface(s) : s \in {x \in subsystemNamed(chain, source.subsystem) : valid(x, source)}}
                 : source \in firstSuchThat(chain.sources, fits)} \ {""}

\* processPTPPinConfig and processPTPPeriodConfig: the file under every PTP
\* device of the source's interface; none fails.
processPTPPinConfig(p, chain) ==
    concat(SetToSeq(getInterfaceNameFromSources(p.source, chain)), LAMBDA iface :
        LET paths == defaultResolveSysFSPtpDevice(iface, p.file)
        IN  [i \in DOMAIN paths |-> fileCommand(paths[i], p.value)])

\* The commands of one desired state, in the order the code issues them.
ptpParts(state) == SetToSeq(state.pin) \o SetToSeq(state.period)
sysfsOf(state, chain) == concat(ptpParts(state), LAMBDA p : processPTPPinConfig(p, chain))

stateResolves(pins, state, chain) ==
    /\ \A d \in state.dpll : createPinCommandForDPLLDesiredState(pins, d, chain) # {}
    /\ \A p \in state.pin \cup state.period : processPTPPinConfig(p, chain) # <<>>

resolveDpllPinCommands(pins, condition, chain) ==
    concat(condition.states, LAMBDA state :
        concat(SetToSeq(state.dpll), LAMBDA d :
            SetToSeq(createPinCommandForDPLLDesiredState(pins, d, chain))))

resolveSysFSCommands(condition, chain) ==
    concat(condition.states, LAMBDA state : sysfsOf(state, chain))

\* Condition name -> commands.  A later condition of the same name replaces
\* an earlier one that has commands of that kind.
resolveClockChainBehavior(pins, chain) ==
    LET triggered == suchThat(chain.conditions, LAMBDA c : c.triggers # {})
        entry(c, cmds) == [name \in {n \in {c.name} : cmds # <<>>} |-> cmds]
    IN  IF \E i \in DOMAIN triggered : \E j \in DOMAIN triggered[i].states :
              ~stateResolves(pins, triggered[i].states[j], chain)
        THEN {}
        ELSE {[pins |-> laterWins([i \in DOMAIN triggered |->
                  entry(triggered[i], resolveDpllPinCommands(pins, triggered[i], chain))]),
               sysfs |-> laterWins([i \in DOMAIN triggered |->
                  entry(triggered[i], resolveSysFSCommands(triggered[i], chain))])]}

extractConditionsByType(conditions, type) ==
    suchThat(conditions, LAMBDA c : \E t \in c.triggers : t.type = type)

extractConditionsByTypeAndSource(conditions, type, source) ==
    suchThat(conditions, LAMBDA c : [type |-> type, source |-> source] \in c.triggers)

(***************************************************************************)
(* Parameters kept per clock.                                              *)
(***************************************************************************)
orDefault(n, d) == IF n = 0 THEN d ELSE n

\* Clock -> parameters, over the subsystems that have them and a clock.
perClock(pins, chain, value(_)) ==
    LET add(acc, clock, v) == IF v = {} \/ clock = NoClock THEN acc ELSE (clock :> The(v)) @@ acc
    IN  FoldLeft(LAMBDA acc, s :
                   add(acc, getClockIDCached(networkInterface(s), s.hwDef, pins), value(s)),
                 <<>>, chain.structure)

extractHoldoverParameters(pins, chain) ==
    LET params(s) == {[maxInSpec |-> orDefault(h.maxInSpec, 100),
                       maxOffset |-> orDefault(h.maxOffset, 1500),
                       timeout |-> orDefault(h.timeout, 14400)] : h \in s.holdover}
    IN  perClock(pins, chain, params)

extractDPLLFlags(pins, chain, defs) ==
    LET flags(s) == IF s.hwDef = "" \/ defs[s.hwDef].flags = {} THEN {} ELSE {defs[s.hwDef].flags}
    IN  perClock(pins, chain, flags)
=============================================================================
