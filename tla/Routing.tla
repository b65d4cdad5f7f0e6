--------------------------------- MODULE Routing ---------------------------------
(***************************************************************************)
(* What becomes of a request: the YAML of a listener is parsed into its         *)
(* configuration (configs/listener.rs), a connection takes one protocol of it   *)
(* (workers/listener.rs), and the head of its request is matched against the    *)
(* virtual hosts and routes of that protocol (connections/http.rs).            *)
(*                                                                         *)
(* A YAML hash is a record that has the fields that were written.  Texts are    *)
(* sequences of code points, as in UriNormal; the name of a header stands for    *)
(* its spellings in either case, and a regular expression is a text that it      *)
(* finds anywhere.                                                           *)
(***************************************************************************)
EXTENDS UriNormal

CONSTANTS
  Documents,    \* what may be written for one listener
  Requests,     \* records of a uri, headers, and fits: the rest of the line is HTTP/1.1
  Snis,         \* the server names a client may give, NoSni for none
  MaxLoads      \* how many documents are loaded after the first

ASSUME LoadsAssumption == MaxLoads \in Nat

NoSni == <<>>
Phases == {"idle", "connected", "host", "route", "done"}

VARIABLES
  use_tls,               \* as the listener was started
  yaml, config, loads,   \* the last usable document, and what was made of it
  phase,
  conn,                  \* the connection: sni, protocol, and (to compare with) its document
  asked, uri,          \* its head; the normalized URI
  v, r,                  \* the virtual host and the route that are tried
  answer

listener == <<use_tls, yaml, config, loads>>
head == <<conn, asked, uri>>
vars == <<listener, phase, head, v, r, answer>>

Has(hash, key) == key \in DOMAIN hash
Items(hash, key) == IF Has(hash, key) THEN hash[key] ELSE <<>>
Of(hash, key) == ToSet(Items(hash, key))
AllNamed(items) == \A item \in items : Has(item, "name")

-------------------------------------------------------------------------------
\* Parsing.  A name that is missing on the way down to the routes makes the whole
\* listener unusable, the conditions and actions that do not fit are passed over.  A list
\* that entries are left out of is a function of the positions that stay, or a set when
\* every entry of it has to hold.
Http(document) ==
  {i \in DOMAIN Items(document, "protocols") :
     Has(document.protocols[i], "engine") /\ document.protocols[i].engine = "http"}

Usable(document) ==
  /\ Has(document, "name") /\ Has(document, "listen")
  /\ \A p \in Of(document, "preprocessors") : Has(p, "name") /\ Has(p, "config")
  /\ \A i \in Http(document) :
       /\ Has(document.protocols[i], "name")
       /\ AllNamed(Of(document.protocols[i], "virtual_hosts"))
       /\ \A host \in Of(document.protocols[i], "virtual_hosts") : AllNamed(Of(host, "routes"))

Hosts(document) == UNION {Of(document.protocols[i], "virtual_hosts") : i \in Http(document)}
Conditions(document) ==
  UNION {UNION {Of(route, "path_matches") : route \in Of(host, "routes")} : host \in Hosts(document)}

\* What the parser of the YAML, and of a request, hands on.
IsList(items) == items \in Seq(ToSet(items))
ASSUME DocumentsAssumption ==
  \A document \in Documents :
    /\ IsList(Items(document, "protocols"))
    /\ \A i \in Http(document) : IsList(Items(document.protocols[i], "virtual_hosts"))
    /\ \A host \in Hosts(document) :
         IsList(Items(host, "routes")) /\ \A route \in Of(host, "routes") : IsList(Items(route, "actions"))
    /\ \A m \in Conditions(document) : Of(m, "path_prefix") \subseteq Seq(Nat)
ASSUME RequestsAssumption ==
  \A q \in Requests : q.uri \in Seq(Chars) /\ q.fits \in BOOLEAN

\* A value that is given exactly is kept under another kind of key than a header_regex.
HeaderMatch(headers) ==
  LET fit == {h \in ToSet(headers) : /\ Has(h, "header_name")
                                     /\ Has(h, "header_value") \/ Has(h, "header_regex")}
      Kept(h) == IF Has(h, "header_value")
                   THEN [key |-> "String", name |-> h.header_name, text |-> h.header_value]
                   ELSE [key |-> "NoCaseString", name |-> h.header_name, text |-> h.header_regex]
  IN {Kept(h) : h \in fit}

PathMatch(m) ==
  CASE Has(m, "path_regex")  -> [kind |-> "PathRegex", of |-> ToSet(m.path_regex)]
    [] ~Has(m, "path_regex") /\ Has(m, "path_prefix") -> [kind |-> "PathPrefix", of |-> ToSet(m.path_prefix)]
    [] OTHER -> [kind |-> "HeaderMatch", of |-> HeaderMatch(m.header)]

Backends(route) == {i \in DOMAIN Items(route, "actions") : Has(route.actions[i], "backend")}
RouteConfig(route) ==
  LET fit == {m \in Of(route, "path_matches") :
                Has(m, "name") /\ DOMAIN m \cap {"path_regex", "path_prefix", "header"} # {}}
  IN [name |-> route.name,
      path_matches |-> {PathMatch(m) : m \in fit},
      actions |-> [i \in Backends(route) |-> route.actions[i].backend]]

VirtualHostConfig(host) ==
  LET routes == Items(host, "routes")
  IN [host_names |-> Of(host, "host_names"), routes |-> [i \in DOMAIN routes |-> RouteConfig(routes[i])]]

HttpProtocolConfig(p) ==
  LET hosts == Items(p, "virtual_hosts")
  IN [sni |-> Of(p, "sni"), virtual_hosts |-> [i \in DOMAIN hosts |-> VirtualHostConfig(hosts[i])]]

ListenerConfig(document) ==
  [i \in Http(document) |-> HttpProtocolConfig(document.protocols[i])]

-------------------------------------------------------------------------------
LowerCase(text) == [i \in DOMAIN text |-> IF text[i] \in 65..90 THEN text[i] + 32 ELSE text[i]]
Occurs(needle, text) ==
  \E i \in 0..(Len(text) - Len(needle)) : \A k \in DOMAIN needle : text[i + k] = needle[k]

\* value_match against a regex, built with case_insensitive(true) and without.
AnyCase(text, needles) == \E n \in needles : Occurs(LowerCase(n), LowerCase(text))
AnyOf(text, needles) == \E n \in needles : Occurs(n, text)

MatchVhost(host, headers) == AnyCase(headers.host, host.host_names)

\* Only the key of a regex is looked up among the headers of the request.
MatchHeader(h, headers) ==
  h.key = "NoCaseString" => Has(headers, h.name) /\ Occurs(h.text, headers[h.name])

\* Faulty variant: a prefix may stand anywhere.
MatchOneAnywhere(m, target, headers) ==
  CASE m.kind \in {"PathPrefix", "PathRegex"} -> AnyOf(target, m.of)
    [] m.kind = "HeaderMatch" -> \A h \in m.of : MatchHeader(h, headers)

\* The methods of a route are left out: no key of the YAML makes them.
MatchOne(m, target, headers) ==
  CASE m.kind = "PathPrefix"  -> \E p \in m.of : IsPrefix(p, target)
    [] m.kind = "PathRegex"   -> AnyOf(target, m.of)
    [] m.kind = "HeaderMatch" -> \A h \in m.of : MatchHeader(h, headers)

MatchRoute(route, target, headers) ==
  \A m \in route.path_matches : MatchOne(m, target, headers)

-------------------------------------------------------------------------------
None == [kind |-> "none"]
NotFound == [kind |-> "404"]
Dropped == [kind |-> "dropped"]      \* closed without a word, before a head is read
Invalid == [kind |-> "closed"]        \* "Invalid request"
Panicked == [kind |-> "panicked"]
NoConn == [sni |-> NoSni, document |-> <<>>, virtual_hosts |-> <<>>]
NoRequest == [uri |-> <<>>, headers |-> <<>>, fits |-> FALSE]

\* The name the backend will be asked for with TLS: the third case, the name of the
\* listener, is left out, as a route is found with a Host only.
Hostname == IF conn.sni # NoSni THEN conn.sni ELSE asked.headers.host
Action(route) ==
  IF DOMAIN route.actions = {} THEN NotFound
  ELSE [kind |-> "backend", backend |-> route.actions[Min(DOMAIN route.actions)], route |-> route.name, hostname |-> Hostname]

Init ==
  /\ use_tls \in BOOLEAN
  /\ yaml \in {d \in Documents : Usable(d)} /\ config = ListenerConfig(yaml) /\ loads = 0
  /\ phase = "idle" /\ conn = NoConn /\ asked = NoRequest /\ uri = <<>>
  /\ v = 1 /\ r = 1 /\ answer = None

\* Another entry of the same name: one that does not parse is left out.
Load(document) ==
  /\ loads < MaxLoads
  /\ loads' = loads + 1
  /\ IF Usable(document) THEN yaml' = document /\ config' = ListenerConfig(document)
     ELSE UNCHANGED <<yaml, config>>
  /\ UNCHANGED <<use_tls, phase, head, v, r, answer>>

Done(outcome) == phase' = "done" /\ answer' = outcome

\* The protocols that take a connection: the first one without TLS, with TLS the first
\* one that lists its server name.
Takes(sni) ==
  {i \in DOMAIN config : use_tls => sni # NoSni /\ AnyCase(sni, config[i].sni)}

Accept(sni) ==
  /\ phase \in {"idle", "done"} /\ (~use_tls => sni = NoSni)
  /\ asked' = NoRequest /\ uri' = <<>> /\ v' = 1 /\ r' = 1
  /\ IF Takes(sni) = {} THEN Done(Dropped) /\ conn' = NoConn
     ELSE /\ phase' = "connected" /\ answer' = None
          /\ conn' = [sni |-> sni, document |-> yaml,
                      virtual_hosts |-> config[Min(Takes(sni))].virtual_hosts]
  /\ UNCHANGED listener

ReadHead(q) ==
  /\ phase = "connected"
  /\ asked' = q
  /\ IF Panics(q.uri) THEN Done(Panicked) /\ UNCHANGED uri
     ELSE /\ uri' \in normalized(q.uri)
          /\ IF q.fits THEN phase' = "host" /\ UNCHANGED answer ELSE Done(Invalid)
  /\ UNCHANGED <<listener, conn, v, r>>

\* A request without a Host panics at the first virtual host there is.
TryHost ==
  /\ phase = "host" /\ v <= Len(conn.virtual_hosts)
  /\ IF ~Has(asked.headers, "host") THEN Done(Panicked) /\ UNCHANGED <<v, r>>
     ELSE IF MatchVhost(conn.virtual_hosts[v], asked.headers)
       THEN phase' = "route" /\ r' = 1 /\ UNCHANGED <<v, answer>>
       ELSE v' = v + 1 /\ UNCHANGED <<phase, r, answer>>
  /\ UNCHANGED <<listener, head>>

TryRoute ==
  /\ phase = "route" /\ r <= Len(conn.virtual_hosts[v].routes)
  /\ IF MatchRoute(conn.virtual_hosts[v].routes[r], uri, asked.headers)
       THEN Done(Action(conn.virtual_hosts[v].routes[r])) /\ UNCHANGED <<v, r>>
       ELSE r' = r + 1 /\ UNCHANGED <<phase, v, answer>>
  /\ UNCHANGED <<listener, head>>

\* Faulty variant: a host without a route for the request ends the search.
OtherHostNever ==
  /\ phase = "route" /\ r > Len(conn.virtual_hosts[v].routes)
  /\ Done(NotFound)
  /\ UNCHANGED <<listener, head, v, r>>

\* No route of this host: the next host is tried.
OtherHost ==
  /\ phase = "route" /\ r > Len(conn.virtual_hosts[v].routes)
  /\ phase' = "host" /\ v' = v + 1
  /\ UNCHANGED <<listener, head, r, answer>>

NoRoute ==
  /\ phase = "host" /\ v > Len(conn.virtual_hosts)
  /\ Done(NotFound)
  /\ UNCHANGED <<listener, head, v, r>>

Next ==
  \/ \E d \in Documents : Load(d)
  \/ \E sni \in Snis : Accept(sni)
  \/ \E q \in Requests : ReadHead(q)
  \/ TryHost \/ TryRoute \/ OtherHost \/ NoRoute

Spec == Init /\ [][Next]_vars

-------------------------------------------------------------------------------
TypeOK ==
  /\ use_tls \in BOOLEAN /\ yaml \in Documents /\ config = ListenerConfig(yaml) /\ loads \in 0..MaxLoads
  /\ phase \in Phases /\ asked \in Requests \cup {NoRequest} /\ uri \in Seq(Nat)
  /\ v \in 1..(Len(conn.virtual_hosts) + 1) /\ r \in Nat \ {0}
  /\ phase = "route" => v <= Len(conn.virtual_hosts) /\ r <= Len(conn.virtual_hosts[v].routes) + 1
  /\ phase = "done" <=> answer # None

\* What the YAML says: the protocol that takes the connection, and in it the first route,
\* host by host, that the request meets every named condition of.
Meets(m, target, headers) ==
  CASE ~Has(m, "name")       -> TRUE
    [] Has(m, "name") /\ Has(m, "path_regex") -> \E n \in ToSet(m.path_regex) : Occurs(n, target)
    [] Has(m, "name") /\ ~Has(m, "path_regex") /\ Has(m, "path_prefix") ->
         \E n \in ToSet(m.path_prefix) : Len(n) <= Len(target) /\ SubSeq(target, 1, Len(n)) = n
    [] OTHER -> \A h \in Of(m, "header") :
         Has(h, "header_name") /\ Has(h, "header_regex") /\ ~Has(h, "header_value") =>
           Has(headers, h.header_name) /\ Occurs(h.header_regex, headers[h.header_name])

Taker(document) ==
  document.protocols[Min({i \in Http(document) :
    use_tls => \E n \in Of(document.protocols[i], "sni") : Occurs(LowerCase(n), LowerCase(conn.sni))})]

Fits(host, route, target) ==
  /\ \E n \in Of(host, "host_names") : Occurs(LowerCase(n), LowerCase(asked.headers.host))
  /\ \A m \in Of(route, "path_matches") : Meets(m, target, asked.headers)

WrittenRoute(document, target) ==
  LET hosts == Items(Taker(document), "virtual_hosts")
      Fitting(h) == {i \in DOMAIN Items(hosts[h], "routes") : Fits(hosts[h], hosts[h].routes[i], target)}
      fit == {h \in DOMAIN hosts : Fitting(h) # {}}
      route == hosts[Min(fit)].routes[Min(Fitting(Min(fit)))]
  IN IF fit = {} \/ Backends(route) = {} THEN NotFound
     ELSE [kind |-> "backend", backend |-> route.actions[Min(Backends(route))].backend,
           route |-> route.name, hostname |-> Hostname]

Routed == answer = NotFound \/ answer.kind = "backend"

\* A request is answered by the first route that its document, the one the listener had
\* when it took the connection, has for it: a host without such a route hands it on, a
\* route without a backend answers 404, and an exact header_value is no condition.
RoutedAsWritten == Routed /\ Has(asked.headers, "host") => answer = WrittenRoute(conn.document, uri)

\* The parameters, whose order changes from one request to the next, and the fragment,
\* which is kept, decide only by a path_regex, or by a path_prefix with a "?" or a "#" in
\* it: without one the path alone gives the same answer.
LooksBehindPath(m) ==
  Has(m, "path_regex") \/ \E n \in Of(m, "path_prefix") : ToSet(n) \cap {Question, Hash} # {}
QueryIsForRegexes ==
  Routed /\ Has(asked.headers, "host") /\ ~(\E m \in Conditions(conn.document) : LooksBehindPath(m)) =>
    answer = WrittenRoute(conn.document, LocalPath(uri))

\* Once it has a Host and a path that begins with "/", a request with a good first line
\* is answered, whatever document it meets: by a backend or with 404.
WellFormedIsAnswered ==
  /\ phase = "done" /\ asked # NoRequest
  /\ asked.fits /\ Has(asked.headers, "host") /\ IsPrefix(<<Slash>>, asked.uri)
  => Routed

\* No segment of the normalized path is "." or "..", however it was spelled.
SlashOrEnd(path, i) == i = Len(path) + 1 \/ path[i] = Slash
DotsAt(path, i) ==
  /\ i <= Len(path) /\ path[i] = Dot
  /\ SlashOrEnd(path, i + 1) \/ (path[i + 1] = Dot /\ SlashOrEnd(path, i + 2))
NoDotSegments ==
  \A i \in DOMAIN LocalPath(uri) : LocalPath(uri)[i] = Slash => ~DotsAt(LocalPath(uri), i + 1)

\* Every request that may be routed is, and by a path without dots.
RoutingInv == TypeOK /\ WellFormedIsAnswered /\ NoDotSegments

\* The bytes of a text without its escapes, and which texts are spelled properly: as
\* UTF-8, with no escape of a character that needs none.
Escapes(s) == {i \in DOMAIN s : IsEscape(s, i)}
BytesOf(s) ==
  FlattenSeq([i \in DOMAIN s |->
    IF i \in Escapes(s) THEN <<ByteAt(s, i)>>
    ELSE IF {i - 1, i - 2} \cap Escapes(s) # {} THEN <<>> ELSE Utf8(s[i])])
Proper(s) ==
  /\ \A i \in DOMAIN s : s[i] = Percent => i \in Escapes(s) /\ ByteAt(s, i) \notin Unreserved
  /\ \A i \in Escapes(s) :
       LET next == {i + 3 * k : k \in 1..Following(ByteAt(s, i))}
       IN ByteAt(s, i) <= 247 /\ next \subseteq Escapes(s) /\ \A j \in next : ByteAt(s, j) \in 128..191

\* The segments that the dots leave: one is gone when more ".." than names follow it, up
\* to some point.
Left(segments) ==
  LET dots == {i \in DOMAIN segments : segments[i] = <<Dot, Dot>>}
      names == {i \in DOMAIN segments : segments[i] # <<Dot>>} \ dots
  IN {i \in names : \A j \in dots : j > i =>
        Cardinality(dots \cap ((i + 1)..j)) <= Cardinality(names \cap ((i + 1)..j))}
Spelled(bytes) ==
  FlattenSeq([k \in DOMAIN bytes |-> IF bytes[k] \in Unreserved THEN <<bytes[k]>> ELSE Escape(bytes[k])])

\* A properly spelled path comes out with the same bytes in the segments that its dots
\* leave, each in its one spelling: two URIs that mean the same path are routed alike.
\* The parameters stay, of one name the last, and so does the fragment.
UriKeepsItsMeaning ==
  LET segments == Split(Tail(LocalPath(asked.uri)), Slash)
      Piece(i) == <<Slash>> \o Spelled(BytesOf(segments[i]))
  IN uri # <<>> =>
       /\ (\A s \in ToSet(segments) : Proper(s)) =>
            LocalPath(uri) = FlattenSeq([i \in DOMAIN segments |-> IF i \in Left(segments) THEN Piece(i) ELSE <<>>])
       /\ Params(uri) = Params(asked.uri) /\ Reference(uri) = Reference(asked.uri)

\* normalize_term: "Normalize term with proper percent-encoding".  In the path that is
\* routed every "%" begins an escape.
EscapesAreEscapes ==
  \A i \in 1..Len(LocalPath(uri)) : uri[i] = Percent => IsEscape(LocalPath(uri), i)
===============================================================================
