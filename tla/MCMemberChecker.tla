--------------------------- MODULE MCMemberChecker ----------------------------
(* TLC instances of MemberChecker.                                          *)
EXTENDS MemberChecker

\* Two keepalives that probe, and an HttpKeepalive.
Slow  == [probes |-> TRUE, dead |-> 2, live |-> 2]
Quick == [probes |-> TRUE, dead |-> 1, live |-> 1]
Http  == [probes |-> FALSE, dead |-> 0, live |-> 0]

AllKinds == {Slow, Quick, Http}
===============================================================================
