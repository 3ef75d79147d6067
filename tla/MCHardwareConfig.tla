-------------------------- MODULE MCHardwareConfig --------------------------
(***************************************************************************)
(* A node with three boards for TLC: eth0 is resolved by its serial        *)
(* number, eth1 through the pin chain to a zl3073x device, and eth9 is in  *)
(* no configuration but has pins of the same labels.                       *)
(***************************************************************************)
EXTENDS HardwareConfig

C0 == <<1, 1, 1, 7, 7, 1, 1, 1>>
CZ == <<2>>
C9 == <<9, 9, 9, 255, 254, 9, 9, 9>>

in(e, p) == e :> "in" @@ p :> "in"
out(e, p) == e :> "out" @@ p :> "out"
pin(id, clock, label, parents, min, max, gran) ==
    [id |-> id, clock |-> clock, board |-> label, package |-> "", module |-> "ice",
     parents |-> parents, upper |-> <<>>, min |-> min, max |-> max, gran |-> gran]

MCDump ==
    {pin("p1", C0, "SDP22", in("e0", "t0"), 0, 0, 0),
     pin("p2", C0, "SMA1", in("e0", "t0"), -8, 8, 3),
     pin("p3", C0, "REF-SMA1", out("e0", "t0"), -8, 8, 3),
     [pin("z1", CZ, "REF0P", in("e1", "t1"), -8, 8, 3) EXCEPT !.module = "zl3073x", !.package = "SMA1"],
     [pin("n1", <<3>>, "NETDEV", <<>>, 0, 0, 0) EXCEPT !.upper = <<"z1">>],
     pin("q1", C9, "SMA1", in("e9", "t9"), -8, 8, 3)}

MCDeviceType == [e0 |-> "EEC", t0 |-> "PPS", e1 |-> "EEC", t1 |-> "PPS", e9 |-> "EEC"]

want(eec, pps) == [EEC |-> eec, PPS |-> pps]
prio(n) == [prio |-> {n}, state |-> {}]
state(s) == [prio |-> {}, state |-> {s}]
unset == [prio |-> {}, state |-> {}]

file(f, v) == [anyDevice |-> TRUE, file |-> f, value |-> v]
e810 ==
    [method |-> "direct", flags |-> {},
     pinDefaults |-> "SMA1" :> want(prio(3), prio(3)) @@ "REF-SMA1" :> want(state("disconnected"), unset),
     esync |-> [inputs |-> <<[args |-> {"frequency"}, parents |-> want({}, {})],
                             [args |-> {"eSyncFrequency"}, parents |-> want({}, {})]>>,
                outputs |-> <<>>],
     connectors |-> [inputs |-> "SMA1" :> <<file("SMA1", "1 1")>>, outputs |-> <<>>,
                     disable |-> "SMA1" :> <<file("SMA1", "0 1")>> @@ "SMA2" :> <<file("SMA2", "0 2")>>],
     delays |-> [components |-> <<[id |-> "in", point |-> "SMA1", kind |-> "dpll", input |-> TRUE],
                                  [id |-> "c1", point |-> "REF-SMA1", kind |-> "dpll", input |-> FALSE]>>,
                 connections |-> <<[from |-> "in", to |-> "x", ps |-> 5], [from |-> "x", to |-> "c1", ps |-> 6]>>,
                 routes |-> <<[compensator |-> "c1", sequence |-> <<"in", "x", "c1">>]>>]]
e825 == [emptyDefaults EXCEPT !.method = "devlinkPinChain",
                              !.pinDefaults = "REF0" :> want(prio(1), prio(1))]
e830 == [emptyDefaults EXCEPT !.flags = {"phaseStatus"}]
MCDefaults == "e810" :> e810 @@ "e825" :> e825 @@ "e830" :> e830

dpll(s, l, w) == [subsystem |-> s, label |-> l, want |-> w]
states(d, p) == [dpll |-> d, pin |-> p, period |-> {}]
ptp(f, v) == [source |-> "PTP", file |-> f, value |-> v]
condition(n, type, source, ss) ==
    [name |-> n, triggers |-> {[type |-> type, source |-> source]}, states |-> ss]
source(n, type, s, l) ==
    [name |-> n, type |-> type, subsystem |-> s, label |-> l, receivers |-> <<>>, gnss |-> {}]

tbc ==
    [roles |-> [ptp |-> "SDP22", gnss |-> ""],
     sources |-> <<source("PTP", "ptpTimeReceiver", "{subsystem}", "{ptpInputPin}")>>,
     conditions |->
       <<condition("Default", "default", "PTP",
            <<states({dpll("{subsystem}", "SMA1", want(prio(9), prio(9)))}, {})>>),
         condition("Init", "init", "PTP",
            <<states({}, {ptp("period", "0 0")}),
              states({dpll("{subsystem}", "SMA1", want(prio(7), state("disconnected")))}, {}),
              states({dpll("{subsystem}", "{ptpInputPin}", want(prio(5), prio(5)))}, {})>>),
         condition("Locked", "locked", "PTP",
            <<states({dpll("{subsystem}", "{ptpInputPin}", want(prio(9), prio(9)))}, {}),
              states({dpll("{subsystem}", "{ptpInputPin}", want(prio(0), prio(0)))}, {ptp("period", "1 0")})>>),
         condition("Lost", "lost", "PTP",
            <<states({dpll("{subsystem}", "SMA1", want(state("disconnected"), unset))}, {})>>)>>]
MCTemplates == "e810" :> ("T-BC" :> tbc)

MCNics ==
    "eth0" :> [serial |-> <<1, 1, 1, 7, 7, 1, 1, 1>>, e825 |-> FALSE, pin |-> {}, lead |-> "eth0"]
    @@ "eth1" :> [serial |-> <<>>, e825 |-> TRUE, pin |-> {"n1"}, lead |-> "eth1"]
    @@ "eth9" :> [serial |-> <<9, 9, 9, 7, 7, 9, 9, 9>>, e825 |-> FALSE, pin |-> {}, lead |-> "eth9"]
MCPtpDevices == "eth0" :> <<"ptp0">>

subsystem(n, def, nic) ==
    [name |-> n, hwDef |-> def, nic |-> nic, ports |-> <<>>, phaseIn |-> <<>>, phaseOut |-> <<>>,
     freqIn |-> <<>>, freqOut |-> <<>>, holdover |-> {}]
userPin(connector, phase, esync) ==
    [connector |-> connector, phase |-> phase, freq |-> 1, esync |-> esync]
chainOf(structure, sources, conditions) ==
    [structure |-> structure, sources |-> sources, conditions |-> conditions,
     esyncDefs |-> {[name |-> "e1", transfer |-> 10, embedded |-> 0]}]

\* A T-BC derived from its template, with a user's phase, and an explicit GM.
hA == [name |-> "hA", profile |-> "bc", type |-> "T-BC",
       chain |-> chainOf(<<[subsystem("s0", "e810", "") EXCEPT
                              !.phaseOut = "REF-SMA1" :> userPin("", {3}, ""),
                              !.freqIn = "SMA1" :> userPin("SMA1", {}, "e1"),
                              !.holdover = {[maxInSpec |-> 0, maxOffset |-> 0, timeout |-> 5]}]>>,
                         <<>>, <<>>)]
hB == [name |-> "hB", profile |-> "gmHw", type |-> "",
       chain |-> chainOf(<<[subsystem("s1", "e825", "eth1") EXCEPT
                              !.phaseIn = "REF0P" :> userPin("", {-4}, ""),
                              !.holdover = {[maxInSpec |-> 0, maxOffset |-> 7, timeout |-> 0]}],
                           subsystem("s2", "e830", "eth9")>>,
                         <<[source("GNSS", "gnss", "s1", "") EXCEPT
                              !.gnss = {[match |-> {[kind |-> "tty", sel |-> <<>>]}]}],
                           source("DPLL", "dpllPhaseLocked", "s1", "")>>,
                         <<condition("GmInit", "init", "GNSS",
                              <<states({dpll("s1", "SMA1", want(prio(2), prio(2)))}, {})>>),
                           condition("GmLocked", "locked", "DPLL",
                              <<states({dpll("s1", "REF0P", want(prio(0), prio(4)))}, {})>>)>>)]

MCUpdates == {<<>>, <<hA, hB>>}
bc == [name |-> <<"cfg", "bc">>, ports |-> <<[iface |-> "eth0", upstream |-> TRUE]>>]
gmHw == [name |-> <<"cfg", "gmHw">>, ports |-> <<[iface |-> "eth1", upstream |-> FALSE]>>]
MCPtpConfigs == {{bc, gmHw}}
\* The board calls the vendor's REF0 REF0P.
MCLabelMap == "REF0" :> "REF0P"
=============================================================================
