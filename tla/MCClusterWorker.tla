---------------------------- MODULE MCClusterWorker ----------------------------
(* TLC instance of ClusterWorker.                                           *)
EXTENDS ClusterWorker

CONSTANTS a, b             \* addresses

Member(x, s) == [address |-> x, status |-> s]
Both     == [members |-> <<Member(a, "Active"), Member(b, "Active")>>,
             lb_method |-> "RoundRobin", keepalive |-> 1]
OnlyB    == [members |-> <<Member(b, "Active")>>, lb_method |-> "RoundRobin", keepalive |-> 0]
\* One address twice, with another status.
Twice    == [members |-> <<Member(a, "Disabled"), Member(a, "Active"), Member(b, "Active")>>,
             lb_method |-> "LeastConn", keepalive |-> 2]

SomeConfigs == {Both, OnlyB, Twice}
===============================================================================
