--------------------------- MODULE MCHWController ---------------------------
(***************************************************************************)
(* Two HardwareConfigs, one of them resolved against its profile's         *)
(* PtpConfig and with a GNSS source, and two profiles.                     *)
(***************************************************************************)
EXTENDS HWController

MCInitially == {<<>>, [h1 |-> "v1", h2 |-> "v1"]}
MCRelated == [h1 |-> "a", h2 |-> "b"]

\* Hybrid: contents of the file.  Full: PtpConfigs with priorities and rules.
MCFiles == {{"a"}, {"b"}, malformed}
rule(p, priority, match) == [profile |-> p, priority |-> priority, match |-> match]
onLabel == {[node |-> "", label |-> "worker"]}
elsewhere == {[node |-> "n2", label |-> "edge"]}
config(recommend) == [profiles |-> {"a", "b"}, recommend |-> recommend]
MCPtpConfigs ==
    {{config({rule("a", 1, onLabel), rule("b", 9, elsewhere)})},
     {config({rule("a", 1, {}), rule("b", 2, onLabel)})}}
MCInputs == [hybrid |-> MCFiles, full |-> MCPtpConfigs]
=============================================================================
