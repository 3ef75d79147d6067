---- MODULE MCTBC ----
EXTENDS TBCClock
OnePort == <<"p1">>
TwoPorts == <<"p1", "p2">>
====
