------------------------------ MODULE MCIPCLink ------------------------------
EXTENDS IPCLink, TLC

\* ptp_state of two interfaces of one profile.
PortKeys == {[type |-> "ptp_state", profile |-> "p1", iface |-> i] : i \in {"i1", "i2"}}

=============================================================================
