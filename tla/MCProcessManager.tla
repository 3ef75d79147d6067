-------------------------- MODULE MCProcessManager --------------------------
EXTENDS ProcessManager

\* A boundary clock: ptp4l with its PMC monitor, which waits for ptp4l.
BCTree == << <<"pmc", "ptp4l">> >>
BCKind == [pmc |-> "session", ptp4l |-> "exec"]
BCStart == [pmc |-> {Up("ptp4l")}, ptp4l |-> {}]
BCStop == [pmc |-> {}, ptp4l |-> {}]

\* A grandmaster with NTP failover: ts2phc waits for gpspipe, phc2sys for the
\* clock or the recovery and is stopped by the failover.
GMTree == << <<"gpspipe", "ts2phc">>, <<"phc2sys">> >>
GMKind == [gpspipe |-> "child", ts2phc |-> "exec", phc2sys |-> "exec"]
GMStart == [gpspipe |-> {}, ts2phc |-> {Up("gpspipe")}, phc2sys |-> {Ready, Plugin("recovered")}]
GMStop == [gpspipe |-> {}, ts2phc |-> {}, phc2sys |-> {Plugin("failover")}]

=============================================================================
