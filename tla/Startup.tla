-------------------------------- MODULE Startup --------------------------------
(***************************************************************************)
(* The start of the gateway and its listeners: ConfigManager::start and       *)
(* ::worker, the two managers it announces listeners and clusters to, the      *)
(* listener workers with their accept loop, the members of the clusters up to  *)
(* the point where they take messages, and the connections that arrive while   *)
(* all of this happens.                                                     *)
(*                                                                         *)
(* A listener worker and a member ask the ConfigManager for their TLS          *)
(* configuration and take no message before they have an answer; start()       *)
(* answers nobody before everything is loaded.  A member is busy with one         *)
(* message at a time: its session may last, and its keepalive update may lock it  *)
(* up with its checker.  One member stands for a cluster: how a worker chooses,   *)
(* and dies when it cannot, is in ClusterWorker, the locks are in MemberChecker,   *)
(* a session is in Dispatch.  The buffer manager, which never waits, is left out. *)
(***************************************************************************)
EXTENDS Integers, Sequences, FiniteSets, SequencesExt

CONSTANTS
  Listeners, Clusters,   \* names
  Files,                 \* configuration files: records [tls, listeners, clusters, missing]
                         \*   tls: TLS name -> what it can be built for
                         \*   listeners: sequence of [name, listen, tls, protocols], the
                         \*     TLS names of the preprocessors and the SNIs of each protocol
                         \*   clusters: sequence of [name, tls, keepalive], NoKeepalive for none
                         \*   missing: the section that is not there, or "none"
  Connections,
  Through, For, Sni,     \* of each connection: its listener, cluster and server name
  Slow,                  \* the connections that need not finish their handshake,
  Endless,               \* and those whose session with the member need not end
  ManagerCap, ConfigCap  \* capacity of the managers' channels and of CONFIG: 10

Nothing == "nothing"
NoKeepalive == 0

ASSUME CapAssumption == ManagerCap \in Nat \ {0} /\ ConfigCap \in Nat \ {0}
ASSUME NameAssumption == Listeners \cap Clusters = {}
ASSUME ConnectionAssumption ==
  /\ Through \in [Connections -> Listeners] /\ For \in [Connections -> Clusters]
  /\ Slow \subseteq Connections /\ Endless \subseteq Connections
  /\ IsFiniteSet(Connections) /\ Nothing \notin Connections
ASSUME FileAssumption ==
  \A f \in Files :
    /\ f.missing \in {"none", "tls", "listeners", "clusters"}
    /\ IsFiniteSet(DOMAIN f.tls) /\ Nothing \notin DOMAIN f.tls
    /\ f.listeners \in Seq(ToSet(f.listeners)) /\ f.clusters \in Seq(ToSet(f.clusters))
    /\ \A e \in ToSet(f.listeners) : e.name \in Listeners /\ e.tls \in Seq(ToSet(e.tls))
    /\ \A e \in ToSet(f.clusters) : e.name \in Clusters /\ e.tls \in Seq(ToSet(e.tls))

Cap == 1                 \* capacity of the channel of a worker, and of a member
NoConfig == [name |-> Nothing]
Managers == {"listener", "cluster"}
Names == Listeners \cup Clusters

VARIABLES
  file,
  phase,         \* of the config task: "loading", "serving" or "panicked"
  toLoad,        \* what start() has still to announce
  requests,      \* CONFIG: who asks, oldest first
  inbox, hand,   \* of each manager: its channel, and the message it is sending on
  known,         \* names with an entry in listeners or clusters
  stage,         \* of a listener worker or member: "none", "bind", "ask", "waiting",
                 \* "run" or "ended"
  wanted, got,   \* TLS names still to ask for, and the one that was obtained
  use_tls,       \* of each listener: whether it came across a TLS preprocessor
  config,        \* current configuration of a worker
  updates,       \* channel of each worker
  bound,         \* address of each listener's socket
  handshake,     \* connection in the accept branch of each listener
  passing,       \* message the worker of a cluster is sending to the member
  queue,         \* channel of the member
  busy,          \* message it works on
  keepalive,     \* of the member: its checker runs when there is one
  locked,        \* member and checker wait for each other: "no", "yes", or "holding" the
                 \* statuses of the cluster
  conn,          \* of each connection
  plain          \* history: connections served without TLS

start == <<phase, toLoad>>
managers == <<inbox, hand, known>>
asking == <<stage, wanted, got, use_tls>>
member == <<busy, keepalive, locked>>
clusters == <<passing, queue, member>>
vars == <<file, start, requests, managers, asking, config, updates, bound, handshake, clusters,
          conn, plain>>

-------------------------------------------------------------------------------

\* What start() sends, in its order, up to a section that is missing.
Announced(f) ==
  LET tls       == [i \in DOMAIN SetToSeq(DOMAIN f.tls) |->
                      [type |-> "tls", to |-> Nothing, config |-> SetToSeq(DOMAIN f.tls)[i]]]
      listeners == [i \in DOMAIN f.listeners |->
                      [type |-> "config", to |-> f.listeners[i].name, config |-> f.listeners[i]]]
      members   == [i \in DOMAIN f.clusters |->
                      [type |-> "config", to |-> f.clusters[i].name, config |-> f.clusters[i]]]
      fails     == <<[type |-> "fails"]>>
  IN CASE f.missing = "tls"       -> fails
       [] f.missing = "listeners" -> tls \o fails
       [] f.missing = "clusters"  -> tls \o listeners \o fails
       [] OTHER                   -> tls \o listeners \o members

Init ==
  /\ file \in Files
  /\ phase = "loading" /\ toLoad = Announced(file) /\ requests = <<>>
  /\ inbox = [m \in Managers |-> <<>>] /\ hand = [m \in Managers |-> <<>>] /\ known = {}
  /\ stage = [x \in Names |-> "none"] /\ wanted = [x \in Names |-> <<>>]
  /\ got = [x \in Names |-> Nothing] /\ config = [x \in Names |-> NoConfig]
  /\ updates = [x \in Names |-> <<>>]
  /\ bound = [l \in Listeners |-> Nothing] /\ handshake = [l \in Listeners |-> Nothing]
  /\ use_tls = [l \in Listeners |-> FALSE]
  /\ passing = [c \in Clusters |-> <<>>] /\ queue = [c \in Clusters |-> <<>>]
  /\ busy = [c \in Clusters |-> <<>>] /\ keepalive = [c \in Clusters |-> NoKeepalive]
  /\ locked = [c \in Clusters |-> "no"]
  /\ conn = [c \in Connections |-> "out"] /\ plain = {}

-------------------------------------------------------------------------------
\* ConfigManager.
ManagerOf(message) == IF message.type = "tls" \/ message.to \in Listeners THEN "listener" ELSE "cluster"

Load ==
  /\ phase = "loading" /\ toLoad # <<>> /\ Head(toLoad).type # "fails"
  /\ LET m == ManagerOf(Head(toLoad)) IN
       Len(inbox[m]) < ManagerCap /\ inbox' = [inbox EXCEPT ![m] = Append(@, Head(toLoad))]
  /\ toLoad' = Tail(toLoad)
  /\ UNCHANGED <<file, phase, requests, hand, known, asking, config, updates, bound, handshake,
                 clusters, conn, plain>>

Loaded ==
  /\ phase = "loading" /\ toLoad = <<>> /\ phase' = "serving"
  /\ UNCHANGED <<file, toLoad, requests, managers, asking, config, updates, bound, handshake,
                 clusters, conn, plain>>

\* The name of an asker's next wish is answered by nothing.
Refused(askers) ==
  /\ stage' = [x \in Names |-> IF x \in askers THEN "ask" ELSE stage[x]]
  /\ wanted' = [x \in Names |-> IF x \in askers THEN Tail(wanted[x]) ELSE wanted[x]]
  /\ UNCHANGED got

\* start() returns an error and the task panics: CONFIG has no receiver any more.
LoadFails ==
  /\ phase = "loading" /\ toLoad # <<>> /\ Head(toLoad).type = "fails"
  /\ phase' = "panicked" /\ requests' = <<>>
  /\ Refused(ToSet(requests))
  /\ UNCHANGED <<file, toLoad, managers, use_tls, config, updates, bound, handshake, clusters, conn, plain>>

\* A TLS configuration that is there may still not be fit for the purpose.
Usable(name, x) ==
  name \in DOMAIN file.tls /\ (IF x \in Listeners THEN "server" ELSE "client") \in file.tls[name]

Answer ==
  /\ phase = "serving" /\ requests # <<>> /\ requests' = Tail(requests)
  /\ LET x == Head(requests) IN
       IF Usable(Head(wanted[x]), x)
         THEN /\ stage' = [stage EXCEPT ![x] = "ask"] /\ got' = [got EXCEPT ![x] = Head(wanted[x])]
              /\ wanted' = [wanted EXCEPT ![x] = <<>>]
         ELSE Refused({x})
  /\ UNCHANGED <<file, start, managers, use_tls, config, updates, bound, handshake, clusters, conn, plain>>

ConfigStep == Load \/ Loaded \/ LoadFails \/ Answer

-------------------------------------------------------------------------------
\* ListenerManager and ClusterManager.
Spawned(x, c) ==
  /\ stage' = [stage EXCEPT ![x] = IF x \in Listeners THEN "bind" ELSE "ask"]
  /\ wanted' = [wanted EXCEPT ![x] = c.tls]
  /\ config' = [config EXCEPT ![x] = c]
  /\ known' = known \cup {x}
  /\ keepalive' = [k \in Clusters |-> IF k = x THEN c.keepalive ELSE keepalive[k]]

\* The new name gets a worker, the known one the message.  A TLS configuration goes to
\* every listener there is; they are announced before any.
ManagerReceives(m) ==
  /\ hand[m] = <<>> /\ inbox[m] # <<>> /\ inbox' = [inbox EXCEPT ![m] = Tail(@)]
  /\ LET message == Head(inbox[m]) IN
     \/ /\ message.type = "tls"
        /\ hand' = [hand EXCEPT ![m] = [i \in DOMAIN SetToSeq(known \cap Listeners) |->
                      [message EXCEPT !.to = SetToSeq(known \cap Listeners)[i]]]]
        /\ UNCHANGED <<known, stage, wanted, config, keepalive, conn>>
     \/ /\ message.type # "tls" /\ message.to \in known
        /\ hand' = [hand EXCEPT ![m] = <<message>>]
        /\ UNCHANGED <<known, stage, wanted, config, keepalive, conn>>
     \/ /\ message.type = "config" /\ message.to \notin known
        /\ Spawned(message.to, message.config)
        /\ UNCHANGED <<hand, conn>>
     \/ /\ message.type = "request" /\ message.to \notin known
        /\ conn' = [conn EXCEPT ![message.config] = "notfound"]
        /\ UNCHANGED <<hand, known, stage, wanted, config, keepalive>>
  /\ UNCHANGED <<file, start, requests, got, use_tls, updates, bound, handshake, passing, queue, busy,
                 locked, plain>>

\* Faulty variant: a worker that has ended keeps its channel.
ManagerSendsToTheEnded(m) ==
  /\ hand[m] # <<>> /\ Len(updates[Head(hand[m]).to]) < Cap
  /\ updates' = [updates EXCEPT ![Head(hand[m]).to] = Append(@, Head(hand[m]))]
  /\ hand' = [hand EXCEPT ![m] = Tail(@)]
  /\ UNCHANGED <<file, start, requests, inbox, known, asking, config, bound, handshake, clusters,
                 conn, plain>>

\* A worker that has ended has no receiver: what is sent to it is lost.
ManagerSends(m) ==
  /\ hand[m] # <<>>
  /\ LET x == Head(hand[m]).to IN
       IF stage[x] = "ended" THEN UNCHANGED updates
       ELSE Len(updates[x]) < Cap /\ updates' = [updates EXCEPT ![x] = Append(@, Head(hand[m]))]
  /\ hand' = [hand EXCEPT ![m] = Tail(@)]
  /\ UNCHANGED <<file, start, requests, inbox, known, asking, config, bound, handshake, clusters,
                 conn, plain>>

ManagerStep(m) == ManagerReceives(m) \/ ManagerSends(m)

-------------------------------------------------------------------------------
\* listener::work and run_member up to their loops.
Bind(l) ==
  /\ stage[l] = "bind"
  /\ IF \E k \in Listeners : bound[k] = config[l].listen
       THEN stage' = [stage EXCEPT ![l] = "ended"] /\ updates' = [updates EXCEPT ![l] = <<>>]
            /\ UNCHANGED bound
       ELSE /\ stage' = [stage EXCEPT ![l] = "ask"]
            /\ bound' = [bound EXCEPT ![l] = config[l].listen]
            /\ UNCHANGED updates
  /\ UNCHANGED <<file, start, requests, managers, wanted, got, use_tls, config, handshake, clusters,
                 conn, plain>>

\* A TLS preprocessor is reached, whatever becomes of its name.
Reached(x) == use_tls' = [l \in Listeners |-> l = x \/ use_tls[l]]

\* Faulty variants: a full CONFIG is taken for a closed one; TLS is in use when it could
\* be asked for.
AskOnce(x) ==
  /\ stage[x] = "ask" /\ wanted[x] # <<>>
  /\ IF phase = "panicked" \/ Len(requests) = ConfigCap
       THEN Refused({x}) /\ UNCHANGED requests
       ELSE /\ requests' = Append(requests, x)
            /\ stage' = [stage EXCEPT ![x] = "waiting"] /\ UNCHANGED <<wanted, got>>
  /\ Reached(x)
  /\ UNCHANGED <<file, start, managers, config, updates, bound, handshake, clusters, conn, plain>>
AskThenUse(x) ==
  /\ stage[x] = "ask" /\ wanted[x] # <<>>
  /\ IF phase = "panicked"
       THEN Refused({x}) /\ UNCHANGED <<requests, use_tls>>
       ELSE /\ Len(requests) < ConfigCap /\ requests' = Append(requests, x)
            /\ stage' = [stage EXCEPT ![x] = "waiting"] /\ UNCHANGED <<wanted, got>> /\ Reached(x)
  /\ UNCHANGED <<file, start, managers, config, updates, bound, handshake, clusters, conn, plain>>

\* The next name is asked for; when CONFIG is closed the send fails.
Ask(x) ==
  /\ stage[x] = "ask" /\ wanted[x] # <<>>
  /\ IF phase = "panicked"
       THEN Refused({x}) /\ UNCHANGED requests
       ELSE /\ Len(requests) < ConfigCap /\ requests' = Append(requests, x)
            /\ stage' = [stage EXCEPT ![x] = "waiting"] /\ UNCHANGED <<wanted, got>>
  /\ Reached(x)
  /\ UNCHANGED <<file, start, managers, config, updates, bound, handshake, clusters, conn, plain>>

Ready(x) ==
  /\ stage[x] = "ask" /\ wanted[x] = <<>> /\ stage' = [stage EXCEPT ![x] = "run"]
  /\ UNCHANGED <<file, start, requests, managers, wanted, got, use_tls, config, updates, bound,
                 handshake, clusters, conn, plain>>

\* What the file lists under a name; the worker is started with the first of it.
Section(f, x) == IF x \in Listeners THEN f.listeners ELSE f.clusters
Entries(f, x) == {i \in DOMAIN Section(f, x) : Section(f, x)[i].name = x}
First(x) == Section(file, x)[Min(Entries(file, x))]

-------------------------------------------------------------------------------
\* The accept loop: select! of an accept, the handshake included, and an update.
Serves(l, c) ==
  IF use_tls[l] THEN \E i \in DOMAIN config[l].protocols : Sni[c] \in config[l].protocols[i]
  ELSE config[l].protocols # <<>>

\* The socket is handed to a process_client of its own, or dropped.
HandedOver(l, c, how) ==
  conn' = [conn EXCEPT ![c] = IF Serves(l, c) THEN how ELSE "closed"]

\* Faulty variants: an error of the handshake ends the worker; an update waits for the
\* accept branch.
HandshakeEndsWorker(l) ==
  /\ handshake[l] # Nothing /\ handshake' = [handshake EXCEPT ![l] = Nothing]
  /\ \/ HandedOver(l, handshake[l], "client") /\ UNCHANGED stage
     \/ conn' = [conn EXCEPT ![handshake[l]] = "closed"] /\ stage' = [stage EXCEPT ![l] = "ended"]
  /\ UNCHANGED <<file, start, requests, managers, wanted, got, use_tls, config, updates, bound, clusters,
                 plain>>
UpdateBetweenAccepts(l) ==
  /\ stage[l] = "run" /\ handshake[l] = Nothing /\ updates[l] # <<>>
  /\ config' = [config EXCEPT ![l] = Head(updates[l]).config]
  /\ updates' = [updates EXCEPT ![l] = Tail(@)]
  /\ UNCHANGED <<file, start, requests, managers, asking, bound, handshake, clusters, conn, plain>>

Accept(l, c) ==
  /\ stage[l] = "run" /\ handshake[l] = Nothing /\ conn[c] = "backlog" /\ Through[c] = l
  /\ \/ /\ use_tls[l] /\ got[l] # Nothing
        /\ handshake' = [handshake EXCEPT ![l] = c] /\ conn' = [conn EXCEPT ![c] = "handshake"]
        /\ UNCHANGED plain
     \/ /\ use_tls[l] /\ got[l] = Nothing
        /\ conn' = [conn EXCEPT ![c] = "closed"] /\ UNCHANGED <<handshake, plain>>
     \/ /\ ~use_tls[l]
        /\ HandedOver(l, c, "client") /\ plain' = plain \cup {c} /\ UNCHANGED handshake
  /\ UNCHANGED <<file, start, requests, managers, asking, config, updates, bound, clusters>>

HandshakeEnds(l) ==
  /\ handshake[l] # Nothing /\ handshake' = [handshake EXCEPT ![l] = Nothing]
  /\ \/ HandedOver(l, handshake[l], "client")
     \/ conn' = [conn EXCEPT ![handshake[l]] = "closed"]
  /\ UNCHANGED <<file, start, requests, managers, asking, config, updates, bound, clusters, plain>>

\* The update branch wins: what the accept branch had in its hands is dropped.
UpdateListener(l) ==
  /\ stage[l] = "run" /\ updates[l] # <<>> /\ updates' = [updates EXCEPT ![l] = Tail(@)]
  /\ LET message == Head(updates[l]) IN
       IF message.type = "tls"
         THEN /\ got' = [got EXCEPT ![l] = IF Usable(message.config, l) THEN message.config ELSE @]
              /\ UNCHANGED config
         ELSE config' = [config EXCEPT ![l] = message.config] /\ UNCHANGED got
  /\ handshake' = [handshake EXCEPT ![l] = Nothing]
  /\ conn' = [c \in Connections |-> IF c = handshake[l] THEN "cancelled" ELSE conn[c]]
  /\ UNCHANGED <<file, start, requests, managers, stage, wanted, use_tls, bound, clusters, plain>>

-------------------------------------------------------------------------------
\* cluster::work: a changed keepalive and the requests go on to the member; a request for
\* which no member is chosen is dropped.
ClusterReceives(c) ==
  /\ c \in known /\ passing[c] = <<>> /\ updates[c] # <<>>
  /\ updates' = [updates EXCEPT ![c] = Tail(@)]
  /\ LET message == Head(updates[c]) IN
     \/ /\ message.type = "config"
        /\ config' = [config EXCEPT ![c] = message.config]
        /\ passing' = [passing EXCEPT ![c] =
             IF message.config.keepalive # config[c].keepalive THEN <<message>> ELSE <<>>]
        /\ UNCHANGED conn
     \/ /\ message.type = "request"
        /\ passing' = [passing EXCEPT ![c] = <<message>>] /\ UNCHANGED <<config, conn>>
     \/ /\ message.type = "request" /\ locked[c] # "holding"
        /\ conn' = [conn EXCEPT ![message.config] = "closed"] /\ UNCHANGED <<config, passing>>
  /\ UNCHANGED <<file, start, requests, managers, asking, bound, handshake, queue, member, plain>>

\* A request goes to the member that is chosen by its status, an update to all there are.
Kept(c) == Head(passing[c]).type = "request" /\ locked[c] = "holding"

ClusterSends(c) ==
  /\ passing[c] # <<>> /\ ~Kept(c) /\ Len(queue[c]) < Cap
  /\ queue' = [queue EXCEPT ![c] = @ \o passing[c]] /\ passing' = [passing EXCEPT ![c] = <<>>]
  /\ UNCHANGED <<file, start, requests, managers, asking, config, updates, bound, handshake, member, conn, plain>>

\* run_member takes a message, and the next one when it is through with it.
MemberReceives(c) ==
  /\ stage[c] = "run" /\ busy[c] = <<>> /\ queue[c] # <<>>
  /\ queue' = [queue EXCEPT ![c] = Tail(@)] /\ busy' = [busy EXCEPT ![c] = <<Head(queue[c])>>]
  /\ UNCHANGED <<file, start, requests, managers, asking, config, updates, bound, handshake, passing,
                 keepalive, locked, conn, plain>>

\* The session is over; the keepalive is written, and the checker that it ends is joined.
MemberEnds(c) ==
  /\ busy[c] # <<>> /\ locked[c] = "no" /\ busy' = [busy EXCEPT ![c] = <<>>]
  /\ LET message == Head(busy[c]) IN
     \/ /\ message.type = "request"
        /\ conn' = [conn EXCEPT ![message.config] = "served"] /\ UNCHANGED keepalive
     \/ /\ message.type = "config"
        /\ keepalive' = [keepalive EXCEPT ![c] = message.config.keepalive] /\ UNCHANGED conn
  /\ UNCHANGED <<file, start, requests, managers, asking, config, updates, bound, handshake, passing,
                 queue, locked, plain>>

\* The write waits for a checker which waits behind it, for good: at a read of its member,
\* with the statuses in its hands or not.
LocksUp(c) ==
  /\ busy[c] # <<>> /\ Head(busy[c]).type = "config" /\ locked[c] = "no"
  /\ keepalive[c] # NoKeepalive /\ Head(busy[c]).config.keepalive # keepalive[c]
  /\ \E how \in {"yes", "holding"} : locked' = [locked EXCEPT ![c] = how]
  /\ UNCHANGED <<file, start, requests, managers, asking, config, updates, bound, handshake, passing,
                 queue, busy, keepalive, conn, plain>>

\* The member takes no message any more, or not before its session ends.
HeldUp(c) ==
  \/ locked[c] # "no"
  \/ busy[c] # <<>> /\ Head(busy[c]).type = "request" /\ Head(busy[c]).config \in Endless

\* A client connects to a bound socket.
Connect(c) ==
  /\ conn[c] = "out" /\ bound[Through[c]] # Nothing /\ conn' = [conn EXCEPT ![c] = "backlog"]
  /\ UNCHANGED <<file, start, requests, managers, asking, config, updates, bound, handshake, clusters, plain>>

\* Once accepted its request is sent to the cluster manager.
SendRequest(c) ==
  /\ conn[c] = "client" /\ Len(inbox["cluster"]) < ManagerCap
  /\ inbox' = [inbox EXCEPT !["cluster"] =
       Append(@, [type |-> "request", to |-> For[c], config |-> c])]
  /\ conn' = [conn EXCEPT ![c] = "sent"]
  /\ UNCHANGED <<file, start, requests, hand, known, asking, config, updates, bound, handshake,
                 clusters, plain>>

AcceptStep(l) ==
  \/ \E c \in Connections : Accept(l, c)
  \/ handshake[l] \notin Slow /\ HandshakeEnds(l)
ListenerStep(l) == Bind(l) \/ Ask(l) \/ Ready(l) \/ UpdateListener(l)
ClusterStep(c) == ClusterReceives(c) \/ ClusterSends(c)
MemberStep(c) == Ask(c) \/ Ready(c) \/ MemberReceives(c) \/ LocksUp(c) \/ (~HeldUp(c) /\ MemberEnds(c))

Next ==
  \/ ConfigStep
  \/ \E m \in Managers : ManagerStep(m)
  \/ \E l \in Listeners : ListenerStep(l) \/ (\E c \in Connections : Accept(l, c)) \/ HandshakeEnds(l)
  \/ \E c \in Clusters : ClusterStep(c) \/ MemberStep(c) \/ MemberEnds(c)
  \/ \E c \in Connections : Connect(c) \/ SendRequest(c)

Spec == Init /\ [][Next]_vars

\* Tasks are polled; clients come as they like, and the handshakes of Slow clients need
\* not end, nor the sessions of the Endless.  An update ends or locks up.
FairSpec ==
  /\ Spec /\ WF_vars(ConfigStep) /\ \A m \in Managers : WF_vars(ManagerStep(m))
  /\ \A l \in Listeners : WF_vars(ListenerStep(l)) /\ WF_vars(AcceptStep(l))
  /\ \A c \in Clusters : WF_vars(ClusterStep(c)) /\ WF_vars(MemberStep(c))
  /\ \A c \in Connections : WF_vars(SendRequest(c))
-------------------------------------------------------------------------------
Message == [type : {"tls"}, to : Names \cup {Nothing}, config : UNION {DOMAIN f.tls : f \in Files}]
           \cup [type : {"config"}, to : Names, config : UNION {ToSet(f.listeners) \cup ToSet(f.clusters) : f \in Files}]
           \cup [type : {"request"}, to : Clusters, config : Connections]

TypeOK ==
  /\ file \in Files /\ phase \in {"loading", "serving", "panicked"}
  /\ requests \in Seq(Names) /\ Len(requests) <= ConfigCap /\ known \subseteq Names
  /\ \A m \in Managers : inbox[m] \in Seq(Message) /\ Len(inbox[m]) <= ManagerCap /\ hand[m] \in Seq(Message)
  /\ stage \in [Names -> {"none", "bind", "ask", "waiting", "run", "ended"}]
  /\ \A x \in Names : updates[x] \in Seq(Message) /\ Len(updates[x]) <= Cap
  /\ use_tls \in [Listeners -> BOOLEAN]
  /\ \A c \in Clusters : passing[c] \in Seq(Message) /\ queue[c] \in Seq(Message) /\ Len(queue[c]) <= Cap
  /\ \A c \in Clusters : busy[c] \in Seq(Message) /\ Len(busy[c]) <= 1
  /\ locked \in [Clusters -> {"no", "yes", "holding"}]
  /\ handshake \in [Listeners -> Connections \cup {Nothing}] /\ plain \subseteq Connections
  /\ conn \in [Connections -> {"out", "backlog", "handshake", "cancelled", "closed", "client", "sent",
                               "served", "notfound"}]

\* A listener whose first configuration has a TLS preprocessor serves nobody in plain text:
\* not when its TLS name is unknown or unfit, not when the start fails before it asks or
\* while it waits, not when an update of it has no TLS any more.  And no other listener
\* asks for a handshake.
NeverPlainWithTls ==
  /\ \A c \in plain : First(Through[c]).tls = <<>>
  /\ \A l \in Listeners : stage[l] = "run" => (use_tls[l] <=> First(l).tls # <<>>)

\* Its acceptor is the first of its names that the file has, fit for a server: no other
\* TLS configuration that is announced gets there, and its name does not matter there.
AcceptorAsNamed ==
  \A l \in Listeners : got[l] # Nothing =>
    \E i \in DOMAIN First(l).tls :
      /\ got[l] = First(l).tls[i] /\ Usable(got[l], l)
      /\ \A j \in 1..(i - 1) : ~Usable(First(l).tls[j], l)

\* A member with TLS talks to its backend in plain text when its name is unknown or
\* unfit, or the start failed; but not because it asked too early or too late.
PlainBackendForAReason ==
  \A c \in Clusters : stage[c] = "run" /\ First(c).tls # <<>> /\ got[c] = Nothing =>
    phase = "panicked" \/ ~\E i \in DOMAIN First(c).tls : Usable(First(c).tls[i], c)

\* When the start fails nobody is ever served, although listeners may be up.
FailedStartServesNobody ==
  file.missing # "none" => \A c \in Connections : conn[c] # "served"

\* An accepted connection is cancelled in its handshake only by an update, and the only
\* updates there are come from a file that lists the listener again.
CancelledByRepeats ==
  \A c \in Connections : conn[c] = "cancelled" =>
    Cardinality(Entries(file, Through[c])) > 1

\* start() waits for room at a manager, which waits for a worker, which waits, itself or
\* through its member: for the answer that start() gives when it is through, or because
\* the member is held up by its checker or by a session.
WaitsForTls(x) == stage[x] \in {"ask", "waiting"} /\ wanted[x] # <<>>
Stuck ==
  /\ phase = "loading" /\ toLoad # <<>> /\ Head(toLoad).type # "fails"
  /\ LET m == ManagerOf(Head(toLoad)) IN
       /\ Len(inbox[m]) = ManagerCap /\ hand[m] # <<>>
       /\ LET x == Head(hand[m]).to IN
            /\ Len(updates[x]) = Cap /\ (WaitsForTls(x) \/ (x \in Clusters /\ HeldUp(x)))
            /\ x \in Clusters => passing[x] # <<>> /\ (Len(queue[x]) = Cap \/ Kept(x))

\* It takes more messages for one worker than the channels and hands on the way hold: a
\* file that repeats a name, or early connections.
StuckByCrowding ==
  Stuck => LET x == Head(hand[ManagerOf(Head(toLoad))]).to
               repeats == Cardinality(Entries(file, x)) - 1
               early   == Cardinality({c \in Connections : conn[c] = "sent" /\ For[c] = x})
           IN IF x \in Listeners THEN repeats >= Cap + 1 ELSE repeats + early >= 2 * Cap + 2

\* In every other case the start comes to its end.
StartEnds == phase = "loading" ~> (phase # "loading" \/ []Stuck)

\* The tasks that have to ask for their TLS configuration all get to take messages.
Preparing == {x \in Names : stage[x] \in {"bind", "ask", "waiting"}}
TasksGetReady == Preparing # {} ~> (Preparing = {} \/ []Stuck)

\* An accepted request is answered or its connection closed, but for a cluster whose member
\* is held up for good, or one that has the manager wait for it.
Jams(c) ==
  HeldUp(c) /\ hand["cluster"] # <<>> /\ Head(hand["cluster"]).to = c /\ Len(updates[c]) = Cap
RequestsAreAnswered ==
  \A c \in Connections : conn[c] = "client" ~>
    (conn[c] \in {"served", "notfound", "closed"} \/ []Stuck \/ []HeldUp(For[c])
     \/ \E k \in Clusters : []Jams(k))

\* Whatever the order of the sections and of the first connections, the start gets through
\* and its tasks and requests with it, or they wait in one of these ways.
StartGetsThrough == StartEnds /\ TasksGetReady /\ RequestsAreAnswered

\* The tasks of the start, in every state: typed, with the TLS the file gives them, and
\* with a reason for every plain backend, closed connection, silence and deadlock.
StartInv ==
  /\ TypeOK /\ AcceptorAsNamed /\ PlainBackendForAReason
  /\ FailedStartServesNobody /\ CancelledByRepeats /\ StuckByCrowding

\* The last configuration of each listener arrives, whatever handshake it is in.
LastConfigArrives ==
  phase = "serving" ~>
    \A l \in {k \in Listeners : Entries(file, k) # {}} :
      (stage[l] = "run" /\ config[l] = Section(file, l)[Max(Entries(file, l))]) \/ stage[l] = "ended"

\* Only a handshake that does not end keeps a listener from accepting: there is one at a
\* time, and no timeout.  The other listeners do not notice.
OneHandshakeHoldsOneListener ==
  \A c \in Connections :
    conn[c] = "backlog" ~> (conn[c] # "backlog" \/ handshake[Through[c]] \in Slow \/ Stuck)

===============================================================================
