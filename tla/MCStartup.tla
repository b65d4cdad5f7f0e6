------------------------------- MODULE MCStartup -------------------------------
(* TLC instance of Startup.                                                  *)
EXTENDS Startup

CONSTANTS lst1, lst2, clu1, clu2,      \* two listeners, two clusters
          srv1, srv2             \* names of TLS configurations, and of servers

Listener(x, at, tls, sni) == [name |-> x, listen |-> at, tls |-> tls, protocols |-> <<sni>>]
Cluster(x, tls, check) == [name |-> x, tls |-> tls, keepalive |-> check]
Both == {"server", "client"}
File(tls, listeners, cs, missing) ==
  [tls |-> tls, listeners |-> listeners, clusters |-> cs, missing |-> missing]

\* One TLS name is unknown, one unfit for a server; a second listener in plain text.
Usual == File((srv1 :> {"client"}) @@ (srv2 :> Both),
              <<Listener(lst1, "here", <<srv1, srv2>>, {srv1}), Listener(lst2, "there", <<>>, {})>>,
              <<Cluster(clu1, <<srv1>>, 0), Cluster(clu2, <<"unknown">>, 0)>>, "none")
\* The same address twice, a listener without a usable name, one that is listed again.
Clash == File(srv2 :> Both,
              <<Listener(lst1, "here", <<srv1>>, {srv1}), Listener(lst2, "here", <<>>, {})>>
              \o [i \in 1..4 |-> Listener(lst2, "there", <<>>, {srv2})],
              <<Cluster(clu1, <<>>, 0), Cluster(clu2, <<srv2>>, 0)>>, "none")
\* A listener with TLS that is listed again, without and elsewhere.
Again(n) == File(srv2 :> Both,
                 [i \in 1..n |-> Listener(lst1, IF i = 1 THEN "here" ELSE "there",
                                          IF i = 1 THEN <<srv2>> ELSE <<>>, IF i = n THEN {srv1} ELSE {srv1, srv2})],
                 <<Cluster(clu1, <<>>, 0)>>, "none")
\* A cluster with TLS that is listed again with another keepalive.
Crowded == File(srv2 :> Both, <<Listener(lst1, "here", <<>>, {})>>,
                <<Cluster(clu1, <<srv2>>, 0), Cluster(clu1, <<srv2>>, 1), Cluster(clu1, <<srv2>>, 0),
                  Cluster(clu1, <<srv2>>, 1), Cluster(clu2, <<>>, 0)>>, "none")
\* The same without TLS: its member is busy with updates and sessions.
Busy == File(srv2 :> Both, <<Listener(lst1, "here", <<>>, {})>>,
             [i \in 1..5 |-> Cluster(clu1, <<>>, i % 2)] \o <<Cluster(clu2, <<>>, 0)>>, "none")
NoClusters == [Usual EXCEPT !.missing = "clusters"]
NoTls      == [Usual EXCEPT !.missing = "tls"]

SomeFiles == {Usual, Clash, Again(2), Again(5), Crowded, Busy, NoClusters, NoTls}

CONSTANTS con1, con2, con3          \* connections
Entry   == (con1 :> lst1) @@ (con2 :> lst1) @@ (con3 :> lst2)
Backend == (con1 :> clu1) @@ (con2 :> clu2) @@ (con3 :> clu2)
Name    == (con1 :> srv1) @@ (con2 :> srv2) @@ (con3 :> srv2)
===============================================================================
