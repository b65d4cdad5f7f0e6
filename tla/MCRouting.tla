-------------------------------- MODULE MCRouting --------------------------------
(* TLC instance of Routing: documents in which the conditions, the hosts and    *)
(* the protocols overlap, and URIs put together from pieces.                 *)
EXTENDS Routing

A == <<97>>   B == <<98>>   BigA == <<65>>
SlashA == <<47, 97>>   SlashB == <<47, 98>>
HostAb == <<97, 98>>

RouteTo(name, matches, backends) ==
  [name |-> name, path_matches |-> matches,
   actions |-> [i \in DOMAIN backends |-> [backend |-> backends[i]]]]
Prefix(p) == [name |-> "p", path_prefix |-> p]
Regex(p) == [name |-> "r", path_regex |-> p]
HeaderIs(n, t) == [name |-> "h", header |-> <<[header_name |-> n, header_regex |-> t]>>]
HeaderExactly(n, t) == [name |-> "x", header |-> <<[header_name |-> n, header_value |-> t], [header_regex |-> t]>>]
Protocol(snis, hosts) == [name |-> "http", engine |-> "http", sni |-> snis, virtual_hosts |-> hosts]
Document(protocols) == [name |-> "l", listen |-> "addr", protocols |-> protocols]

\* Hosts that share names, the first without a route for everything.
Host1 == [name |-> "h1", host_names |-> <<B>>,
          routes |-> <<RouteTo("ab", <<Prefix(<<SlashA, SlashB>>), HeaderIs("x", A)>>, <<"c1">>),
                       RouteTo("none", <<Prefix(<<SlashB>>)>>, <<>>)>>]
Host2 == [name |-> "h2", host_names |-> <<BigA, <<120>>>>,
          routes |-> <<RouteTo("exact", <<Prefix(<<SlashA>>), HeaderExactly("x", B)>>, <<"c2", "c1">>),
                       RouteTo("rest", <<[path_prefix |-> <<B>>]>>, <<"c3">>)>>]
Host3 == [name |-> "h3", host_names |-> <<A>>,
          routes |-> <<RouteTo("regex", <<Regex(<<A, <<98, 61>>>>), Prefix(<<SlashA \o <<35>>, SlashB>>)>>, <<"c1">>),
                       RouteTo("never", <<Prefix(<<>>)>>, <<"c2">>),
                       [name |-> "bare"]>>]
SomeDocuments == {
  Document(<<[name |-> "g", engine |-> "grpc"], Protocol(<<A>>, <<Host1, Host2>>), Protocol(<<B>>, <<Host3>>)>>),
  Document(<<Protocol(<<B>>, <<Host3, Host1>>)>>),
  Document(<<Protocol(<<A>>, <<Host1, Host2>>)>>),
  Document(<<Protocol(<<>>, <<>>)>>),
  [name |-> "l", listen |-> "addr"],
  \* unusable
  Document(<<Protocol(<<A>>, <<Host1, [host_names |-> <<A>>]>>)>>),
  [listen |-> "addr"]}

Segment(text) == <<47>> \o text
Dots == {<<47>>, SlashA, Segment(<<46>>), Segment(<<46, 46>>)}
Segments == Dots \cup {
  Segment(<<37, 54, 49>>),              \* %61, which needs no escape
  Segment(<<37, 50, 101>>),             \* %2e
  Segment(<<37, 50, 102>>),             \* %2f, in lower case
  Segment(<<0>>),                       \* what read_line makes of a byte above 127
  Segment(<<37, 67, 51, 37, 65, 57>>), Segment(<<37, 67, 51>>), Segment(<<37>>)}
Tails == {<<98>>, <<63, 98, 61>> \o SlashB, <<63, 97, 38, 97, 61, 98, 38, 98, 63>>, <<35, 98, 38>>}
Uris ==
  {p \o q \o s : p \in Segments, q \in Segments, s \in Tails}
  \cup {p \o q \o s \o t : p \in Dots, q \in Dots, s \in Dots, t \in Dots}
FewUris ==
  {<<>>, <<47>>, <<47, 63, 97>>, <<0>>, <<98>>, <<47, 97>>, <<47, 98>>, <<47, 120>>, <<47, 98, 47, 46, 46, 47, 97>>,
   <<47, 120, 63, 97, 61, 98, 38, 98, 61, 97, 38, 97>>}
Headers == {<<>>} \cup [{"host"} -> {HostAb, <<66>>, <<67>>}]
           \cup [{"host", "x"} -> {HostAb, <<66>>, <<98>>}]
SomeRequests ==
  [uri : Uris, headers : [{"host"} -> {HostAb}], fits : {TRUE}]
  \cup [uri : FewUris, headers : Headers, fits : BOOLEAN]
\* test_uri_normalize (utils/http.rs:194), with its Cyrillic letter: the expected text is
\* among those that the orders of the parameters give.
Test == <<116, 101, 115, 116>>   One == <<49>>   Two == <<50>>
Parameters == <<63>> \o Test \o One \o <<61, 49, 38>> \o Test \o Two \o <<61, 50, 38>> \o Test \o <<51, 35, 114>>
ASSUME UriTest ==
  /\ <<47>> \o Test \o One \o <<47, 116, 37, 68, 48, 37, 66, 53, 115, 116>> \o Two \o Parameters
       \in normalized(<<47>> \o Test \o <<47, 46, 46, 47, 46, 46, 47>> \o Test \o One
                         \o <<47, 46, 47, 116, 1077, 115, 116>> \o Two \o Parameters)
  /\ Panics(<<1077>>)

SomeSnis == {NoSni, <<65>>, <<98>>, <<99>>}
===============================================================================
