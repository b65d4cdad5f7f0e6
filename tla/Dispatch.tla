-------------------------------- MODULE Dispatch -------------------------------
(***************************************************************************)
(* The way of a request from its connection to a backend, and of the answer *)
(* back: the connections of one listener (process_client), the buffer manager,*)
(* the cluster manager, one worker per cluster and one task per member        *)
(* (run_member, with the process_cluster it awaits), and the bounded channels  *)
(* between them.  A request travels as one message that owns the oneshot of    *)
(* its connection: whoever holds the message is the only one who can answer,   *)
(* and dropping it closes the connection without a word.                      *)
(*                                                                         *)
(*   connection -> buffer manager -> connection -> cluster manager            *)
(*              -> cluster worker -> member -> connection                     *)
(*                                                                         *)
(* The buffer manager is the one of BufferManager, whose clients never release *)
(* anything.  What a session does is Relay; here it only lasts.                *)
(***************************************************************************)
EXTENDS Integers, Sequences, FiniteSets, SequencesExt

CONSTANTS
  Clients,          \* the connections, each of which makes one request
  Clusters, Members,
  Target,           \* [Clients -> ...]: the cluster that route() names
  MembersOf,        \* [Clusters -> sequence of the members in its configuration]
  Listener, Limit,  \* the listener and its "buffer", in requests
  ManagerCap,       \* capacity of the channels of the managers (main.rs: 10)
  Watched,          \* members of clusters with a keepalive: they have a checker
  Slow,             \* clusters whose sessions may last for ever
  Nobody            \* no connection

WorkerCap == 1      \* capacity of the channels of workers and members

ASSUME MembersAssumption ==
  /\ MembersOf \in [Clusters -> Seq(Members)]
  /\ \A k1, k2 \in Clusters :
       k1 # k2 => ToSet(MembersOf[k1]) \cap ToSet(MembersOf[k2]) = {}
ASSUME ClientsAssumption == Nobody \notin Clients /\ DOMAIN Target = Clients /\ IsFiniteSet(Clients)
ASSUME ClustersAssumption == IsFiniteSet(Clusters) /\ "limit" \notin Clusters
ASSUME SlowAssumption == Slow \subseteq Clusters /\ Watched \subseteq Members
ASSUME CapAssumption == ManagerCap \in Nat \ {0} /\ Limit \in Nat

VARIABLES
  listeners, allocated_listeners, allocated_clusters, live, first, highest, uncounted,
  state,        \* of each connection
  toBuffers,    \* channel of the buffer manager
  toClusters,   \* channel of the cluster manager
  known,        \* clusters: the workers the cluster manager has started
  managerHand,  \* the request the cluster manager is sending on
  toWorker,     \* channel of each worker
  workerHand,   \* the request each worker is sending on, and to which member
  toMember,     \* channel of each member
  member,       \* what each member does
  serving,      \* and for which connection
  unavailable,  \* members whose status is Unavailable
  toLoad,       \* what the configuration manager has still to send
  early         \* history: connections that asked before their cluster was announced

books == <<listeners, allocated_listeners, allocated_clusters, live, first, highest, uncounted>>
backend == <<toWorker, workerHand, toMember, member, serving, unavailable>>
vars == <<books, state, toBuffers, toClusters, known, managerHand, backend, toLoad, early>>

\* Each request, of a listener or of a cluster, has size 1.  MaxLive bounds nothing:
\* there are as many cluster buffers as connections at the most.
Buffers == INSTANCE BufferManager WITH
  Listeners <- {Listener}, Sizes <- {1}, Limits <- {0, Limit}, Releasing <- {},
  MaxLive <- Cardinality(Clients)

\* The states of a connection.
Waiting  == {"idle", "waitBuffer", "granted", "waitCluster"}
Answered == {"relaying", "overLimit503", "notFound404", "noMember503", "dropped"}

Init ==
  /\ Buffers!ManagerInit
  /\ state = [c \in Clients |-> "idle"]
  /\ toBuffers = <<>> /\ toClusters = <<>>
  /\ known = {} /\ managerHand = Nobody
  /\ toWorker = [k \in Clusters |-> <<>>]
  /\ workerHand = [k \in Clusters |-> <<>>]
  /\ toMember = [m \in Members |-> <<>>]
  /\ member = [m \in Members |-> "idle"]
  /\ serving = [m \in Members |-> Nobody]
  /\ unavailable = {}
  /\ toLoad \in {<<"limit">> \o ks : ks \in SetToSeqs(Clusters)}
  /\ early = {}

Becomes(c, s) == state' = [state EXCEPT ![c] = s]

MemberSteps(m, from, to) == member[m] = from /\ member' = [member EXCEPT ![m] = to]

\* work() and get_round_robin_member: the places of the members that are not Unavailable
\* in the configuration; the index is not kept from one call to the next, so it is always
\* the second of them, or the first when there is no second.
Selection(k) == {i \in DOMAIN MembersOf[k] : MembersOf[k][i] \notin unavailable}
RoundRobin(s) == LET rest == s \ {Min(s)} IN Min(IF rest = {} THEN s ELSE rest)

-------------------------------------------------------------------------------
\* Faulty variants of the operations below.

\* The worker of a new cluster is spawned and not remembered.
ManagerForgets ==
  /\ managerHand = Nobody /\ toClusters # <<>> /\ Head(toClusters).type = "config"
  /\ toClusters' = Tail(toClusters)
  /\ UNCHANGED <<books, state, toBuffers, known, managerHand, backend, toLoad, early>>

\* The worker hands a request over only to a member that is free.
WorkerSendsDirectly(k) ==
  /\ workerHand[k] # <<>> /\ Len(toMember[workerHand[k][2]]) < WorkerCap
  /\ member[workerHand[k][2]] = "idle"
  /\ toMember' = [toMember EXCEPT ![workerHand[k][2]] = Append(@, workerHand[k][1])]
  /\ workerHand' = [workerHand EXCEPT ![k] = <<>>]
  /\ UNCHANGED <<books, state, toBuffers, toClusters, known, managerHand, toWorker, member,
                 serving, unavailable, toLoad, early>>

\* A failed connection to the backend is not reported.
ConnectFailsSilently(m) ==
  /\ MemberSteps(m, "connecting", "idle")
  /\ serving' = [serving EXCEPT ![m] = Nobody]
  /\ UNCHANGED <<books, state, toBuffers, toClusters, known, managerHand, toWorker, workerHand,
                 toMember, unavailable, toLoad, early>>

-------------------------------------------------------------------------------
\* ConfigManager::start, after the listener has been started: the limit of the
\* listener, then the clusters, in the order of the file.
LoadLimit ==
  /\ toLoad # <<>> /\ Head(toLoad) = "limit" /\ Len(toBuffers) < ManagerCap
  /\ toBuffers' = Append(toBuffers, [type |-> "limit"])
  /\ toLoad' = Tail(toLoad)
  /\ UNCHANGED <<books, state, toClusters, known, managerHand, backend, early>>

LoadCluster ==
  /\ toLoad # <<>> /\ Head(toLoad) # "limit" /\ Len(toClusters) < ManagerCap
  /\ toClusters' = Append(toClusters, [type |-> "config", cluster |-> Head(toLoad)])
  /\ toLoad' = Tail(toLoad)
  /\ UNCHANGED <<books, state, toBuffers, known, managerHand, backend, early>>

-------------------------------------------------------------------------------
\* process_client: a buffer is requested, then a backend.
AskBuffer(c) ==
  /\ state[c] = "idle" /\ Len(toBuffers) < ManagerCap
  /\ toBuffers' = Append(toBuffers, [type |-> "listener", client |-> c])
  /\ Becomes(c, "waitBuffer")
  /\ UNCHANGED <<books, toClusters, known, managerHand, backend, toLoad, early>>

AskCluster(c) ==
  /\ state[c] = "granted" /\ Len(toClusters) < ManagerCap
  /\ toClusters' = Append(toClusters, [type |-> "request", client |-> c])
  /\ Becomes(c, "waitCluster")
  /\ early' = IF \E i \in DOMAIN toLoad : toLoad[i] = Target[c] THEN early \cup {c} ELSE early
  /\ UNCHANGED <<books, toBuffers, known, managerHand, backend, toLoad>>

-------------------------------------------------------------------------------
\* BufferManager::worker, one message.
HandleLimit ==
  /\ toBuffers # <<>> /\ Head(toBuffers).type = "limit"
  /\ Buffers!ConfigUpdate(Listener, Limit)
  /\ toBuffers' = Tail(toBuffers)
  /\ UNCHANGED <<state, toClusters, known, managerHand, backend, toLoad, early>>

HandleListener ==
  /\ toBuffers # <<>> /\ Head(toBuffers).type = "listener"
  /\ Buffers!RequestListener(Listener, 1)
  /\ Becomes(Head(toBuffers).client,
             IF Buffers!Refuses(Listener, 1) THEN "overLimit503" ELSE "granted")
  /\ toBuffers' = Tail(toBuffers)
  /\ UNCHANGED <<toClusters, known, managerHand, backend, toLoad, early>>

HandleMember ==
  /\ toBuffers # <<>> /\ Head(toBuffers).type = "member"
  /\ LET m == Head(toBuffers).member IN
       /\ Buffers!RequestCluster(Target[serving[m]], 1)
       /\ member' = [member EXCEPT ![m] = "granted"]
  /\ toBuffers' = Tail(toBuffers)
  /\ UNCHANGED <<state, toClusters, known, managerHand, toWorker, workerHand, toMember,
                 serving, unavailable, toLoad, early>>

-------------------------------------------------------------------------------
\* ClusterManager::worker.  A new cluster gets a worker; a request for a cluster
\* without one is answered; any other is sent on, and nothing else is received
\* until that send is done.
ManagerConfigures ==
  /\ managerHand = Nobody /\ toClusters # <<>> /\ Head(toClusters).type = "config"
  /\ known' = known \cup {Head(toClusters).cluster}
  /\ toClusters' = Tail(toClusters)
  /\ UNCHANGED <<books, state, toBuffers, managerHand, backend, toLoad, early>>

ManagerReceives ==
  /\ managerHand = Nobody /\ toClusters # <<>> /\ Head(toClusters).type = "request"
  /\ LET c == Head(toClusters).client IN
       IF Target[c] \in known THEN managerHand' = c /\ UNCHANGED state
       ELSE Becomes(c, "notFound404") /\ UNCHANGED managerHand
  /\ toClusters' = Tail(toClusters)
  /\ UNCHANGED <<books, toBuffers, known, backend, toLoad, early>>

ManagerSends ==
  /\ managerHand # Nobody
  /\ LET k == Target[managerHand] IN
       /\ Len(toWorker[k]) < WorkerCap
       /\ toWorker' = [toWorker EXCEPT ![k] = Append(@, managerHand)]
  /\ managerHand' = Nobody
  /\ UNCHANGED <<books, state, toBuffers, toClusters, known, workerHand, toMember, member,
                 serving, unavailable, toLoad, early>>

-------------------------------------------------------------------------------
\* With nobody left to choose the message is dropped, and its oneshot with it.
WorkerReceives(k) ==
  /\ workerHand[k] = <<>> /\ toWorker[k] # <<>>
  /\ LET c == Head(toWorker[k]) IN
       IF Selection(k) = {} THEN Becomes(c, "dropped") /\ UNCHANGED workerHand
       ELSE /\ workerHand' = [workerHand EXCEPT ![k] = <<c, MembersOf[k][RoundRobin(Selection(k))]>>]
            /\ UNCHANGED state
  /\ toWorker' = [toWorker EXCEPT ![k] = Tail(@)]
  /\ UNCHANGED <<books, toBuffers, toClusters, known, managerHand, toMember, member, serving,
                 unavailable, toLoad, early>>

WorkerSends(k) ==
  /\ workerHand[k] # <<>> /\ Len(toMember[workerHand[k][2]]) < WorkerCap
  /\ toMember' = [toMember EXCEPT ![workerHand[k][2]] = Append(@, workerHand[k][1])]
  /\ workerHand' = [workerHand EXCEPT ![k] = <<>>]
  /\ UNCHANGED <<books, state, toBuffers, toClusters, known, managerHand, toWorker, member,
                 serving, unavailable, toLoad, early>>

-------------------------------------------------------------------------------
\* run_member: one request at a time, until its session is over.

MemberReceives(m) ==
  /\ MemberSteps(m, "idle", "connecting") /\ toMember[m] # <<>>
  /\ serving' = [serving EXCEPT ![m] = Head(toMember[m])]
  /\ toMember' = [toMember EXCEPT ![m] = Tail(@)]
  /\ UNCHANGED <<books, state, toBuffers, toClusters, known, managerHand, toWorker, workerHand,
                 unavailable, toLoad, early>>

\* TcpStream::connect, or the TLS handshake, fails.
ConnectFails(m) ==
  /\ MemberSteps(m, "connecting", "idle")
  /\ Becomes(serving[m], "noMember503")
  /\ serving' = [serving EXCEPT ![m] = Nobody]
  /\ UNCHANGED <<books, toBuffers, toClusters, known, managerHand, toWorker, workerHand,
                 toMember, unavailable, toLoad, early>>

\* process_cluster asks the buffer manager for a buffer of its own ...
Connects(m) ==
  /\ MemberSteps(m, "connecting", "waitBuffer") /\ Len(toBuffers) < ManagerCap
  /\ toBuffers' = Append(toBuffers, [type |-> "member", member |-> m])
  /\ UNCHANGED <<books, state, toClusters, known, managerHand, toWorker, workerHand, toMember,
                 serving, unavailable, toLoad, early>>

\* ... and hands its reader to the connection.
SessionStarts(m) ==
  /\ MemberSteps(m, "granted", "session")
  /\ Becomes(serving[m], "relaying")
  /\ UNCHANGED <<books, toBuffers, toClusters, known, managerHand, toWorker, workerHand,
                 toMember, serving, unavailable, toLoad, early>>

\* process_cluster returns or panics.
SessionEnds(m) ==
  /\ MemberSteps(m, "session", "idle")
  /\ serving' = [serving EXCEPT ![m] = Nobody]
  /\ UNCHANGED <<books, state, toBuffers, toClusters, known, managerHand, toWorker, workerHand,
                 toMember, unavailable, toLoad, early>>

\* The checker of a member gives it up, for good.
GivenUp(m) ==
  /\ m \in Watched \ unavailable
  /\ unavailable' = unavailable \cup {m}
  /\ UNCHANGED <<books, state, toBuffers, toClusters, known, managerHand, toWorker, workerHand,
                 toMember, member, serving, toLoad, early>>

Load           == LoadLimit \/ LoadCluster
ClientStep(c)  == AskBuffer(c) \/ AskCluster(c)
BufferStep     == HandleLimit \/ HandleListener \/ HandleMember
ManagerStep    == ManagerConfigures \/ ManagerReceives \/ ManagerSends
WorkerStep(k)  == WorkerReceives(k) \/ WorkerSends(k)
MemberStep(m)  == MemberReceives(m) \/ ConnectFails(m) \/ Connects(m) \/ SessionStarts(m)

Next ==
  \/ Load \/ BufferStep \/ ManagerStep
  \/ \E c \in Clients : ClientStep(c)
  \/ \E k \in Clusters : WorkerStep(k)
  \/ \E m \in Members : MemberStep(m) \/ SessionEnds(m) \/ GivenUp(m)

Spec == Init /\ [][Next]_vars

\* Every task of the gateway is polled while it can run, and sessions end, except
\* those of the clusters in Slow.  Nobody has to lose a member.
Fairness ==
  /\ WF_vars(Load) /\ WF_vars(BufferStep) /\ WF_vars(ManagerStep)
  /\ \A c \in Clients : WF_vars(ClientStep(c))
  /\ \A k \in Clusters : WF_vars(WorkerStep(k))
  /\ \A m \in Members : WF_vars(MemberStep(m))
  /\ \A k \in Clusters \ Slow : \A m \in ToSet(MembersOf[k]) : WF_vars(SessionEnds(m))

FairSpec == Spec /\ Fairness

-------------------------------------------------------------------------------
Requests == [type : {"request"}, client : Clients]

TypeOK ==
  /\ Buffers!ManagerTypeOK
  /\ state \in [Clients -> Waiting \cup Answered]
  /\ toBuffers \in Seq([type : {"limit"}] \cup [type : {"listener"}, client : Clients]
                       \cup [type : {"member"}, member : Members])
  /\ toClusters \in Seq(Requests \cup [type : {"config"}, cluster : Clusters])
  /\ Len(toBuffers) <= ManagerCap /\ Len(toClusters) <= ManagerCap
  /\ known \subseteq Clusters /\ managerHand \in Clients \cup {Nobody}
  /\ \A k \in Clusters : /\ toWorker[k] \in Seq(Clients) /\ Len(toWorker[k]) <= WorkerCap
                        /\ workerHand[k] \in {<<>>} \cup (Clients \X ToSet(MembersOf[k]))
  /\ \A m \in Members : /\ toMember[m] \in Seq(Clients) /\ Len(toMember[m]) <= WorkerCap
                       /\ (member[m] = "idle") <=> (serving[m] = Nobody)
  /\ unavailable \subseteq Members /\ early \subseteq Clients

\* Where the message of a connection is, and with it the only way to answer it: the kind
\* of place, and which one it is.
Holders(c) ==
  {<<"toClusters", i>> : i \in {i \in DOMAIN toClusters : toClusters[i] = [type |-> "request", client |-> c]}}
  \cup {<<"managerHand", 1>> : i \in {i \in {1} : managerHand = c}}
  \cup {<<"toWorker", k>>   : k \in {k \in Clusters : c \in ToSet(toWorker[k])}}
  \cup {<<"workerHand", k>> : k \in {k \in Clusters : workerHand[k] # <<>> /\ workerHand[k][1] = c}}
  \cup {<<"toMember", m>>   : m \in {m \in Members : c \in ToSet(toMember[m])}}
  \cup {<<"serving", m>>    : m \in {m \in Members : serving[m] = c /\ member[m] # "session"}}

\* A connection that waits for its backend has its message in exactly one place,
\* and one that does not wait has none anywhere: no request is lost between two
\* tasks, answered twice, or worked on after it was answered.
OneHolder ==
  \A c \in Clients :
    Cardinality(Holders(c)) = IF state[c] = "waitCluster" THEN 1 ELSE 0

\* 404 "Cluster not found" is never the answer for a configured cluster, unless the
\* connection overtook the start of the gateway (listeners accept before the
\* clusters are announced, config.rs:50-84).
NotFoundOnlyWhileStarting ==
  \A c \in Clients : state[c] = "notFound404" => Target[c] \notin Clusters \/ c \in early

\* 503 "Out of memory" is given only once Limit - 1 buffers have been granted,
\* whenever the limit arrived among the requests.
RefusedOnlyWhenSpent ==
  \A c \in Clients : state[c] = "overLimit503" =>
    Cardinality({d \in Clients : state[d] \notin {"idle", "waitBuffer", "overLimit503"}})
      >= Limit - 1

\* Of every connection, in every state: one task or channel has its message, and what it
\* was answered is what its manager had reason to answer.
DispatchInv == TypeOK /\ OneHolder /\ NotFoundOnlyWhileStarting /\ RefusedOnlyWhenSpent

\* Every connection is answered in the end, were its answer only a closed socket:
\* the tasks and channels never end up waiting for each other in a circle.  With
\* clusters that never end a session, the others are served as long as no more
\* requests name a slow one than it can hold without its manager (one in session,
\* one with the worker, one in each of their two channels), however many members
\* it has.
OthersAreAnswered ==
  \A c \in Clients : Target[c] \notin Slow => <>(state[c] \in Answered)

===============================================================================
