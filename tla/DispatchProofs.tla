----------------------------- MODULE DispatchProofs -----------------------------
(* Theorems about Dispatch, for every number of connections, clusters and     *)
(* members, every capacity of the managers' channels and every limit.        *)
EXTENDS Dispatch, TLAPS, SequenceTheorems, FiniteSetTheorems, WellFoundedInduction

\* The messages of the two channels, and what a channel that holds one request may hold.
ToBuffers  == [type : {"limit"}] \cup [type : {"listener"}, client : Clients]
              \cup [type : {"member"}, member : Members]
ToClusters == Requests \cup [type : {"config"}, cluster : Clusters]
Slots == {<<>>} \cup {<<c>> : c \in Clients}

RequestOf(c) == [type |-> "request", client |-> c]
ConfigOf(k)  == [type |-> "config", cluster |-> k]

\* The types, with what the manager and the members hold at the same time.
Shapes ==
  /\ state \in [Clients -> Waiting \cup Answered]
  /\ toBuffers \in Seq(ToBuffers) /\ Len(toBuffers) <= ManagerCap
  /\ toClusters \in Seq(ToClusters) /\ Len(toClusters) <= ManagerCap
  /\ known \subseteq Clusters /\ managerHand \in Clients \cup {Nobody}
  /\ managerHand # Nobody => Target[managerHand] \in known
  /\ toWorker \in [Clusters -> Slots]
  /\ workerHand \in [Clusters -> {<<>>} \cup (Clients \X Members)]
  /\ \A k \in Clusters : workerHand[k] # <<>> => workerHand[k][2] \in ToSet(MembersOf[k])
  /\ toMember \in [Members -> Slots]
  /\ member \in [Members -> {"idle", "connecting", "waitBuffer", "granted", "session"}]
  /\ serving \in [Members -> Clients \cup {Nobody}]
  /\ \A m \in Members : member[m] = "idle" <=> serving[m] = Nobody
  /\ unavailable \subseteq Members /\ early \subseteq Clients
  /\ toLoad \in Seq(Clusters \cup {"limit"})

\* Whoever asks for a buffer waits for it, and asks once.
AskersInv ==
  /\ \A i \in DOMAIN toBuffers :
       /\ toBuffers[i].type = "listener" => state[toBuffers[i].client] = "waitBuffer"
       /\ toBuffers[i].type = "member" => member[toBuffers[i].member] = "waitBuffer"
  /\ \A i, j \in DOMAIN toBuffers :
       toBuffers[i] = toBuffers[j] => i = j \/ toBuffers[i].type = "limit"

\* A request is in the channel of the cluster manager once at the most.
RequestsOnce ==
  \A c \in Clients : \A i, j \in DOMAIN toClusters :
    toClusters[i] = RequestOf(c) /\ toClusters[j] = RequestOf(c) => i = j

\* The places of the requests, by kind: whose request, the kind, and which place of it.
InClusters == {<<c, "toClusters", 1>> : c \in {c \in Clients : \E i \in DOMAIN toClusters : toClusters[i] = RequestOf(c)}}
InManager  == {<<c, "managerHand", 1>> : c \in {c \in Clients : managerHand = c}}
InWorkers  == {p \in Clients \X {"toWorker"} \X Clusters : toWorker[p[3]] = <<p[1]>>}
InHands    == {p \in Clients \X {"workerHand"} \X Clusters :
                 workerHand[p[3]] # <<>> /\ workerHand[p[3]][1] = p[1]}
InMembers  == {p \in Clients \X {"toMember"} \X Members : toMember[p[3]] = <<p[1]>>}
InService  == {p \in Clients \X {"serving"} \X Members : serving[p[3]] = p[1] /\ member[p[3]] # "session"}
Places == InClusters \cup InManager \cup InWorkers \cup InHands \cup InMembers \cup InService

\* A connection that waits has its request somewhere, in one place; the others nowhere.
PlacesInv ==
  /\ \A c \in Clients : state[c] = "waitCluster" <=> \E kind, x : <<c, kind, x>> \in Places
  /\ \A c \in Clients : \A kind1, x1, kind2, x2 :
       <<c, kind1, x1>> \in Places /\ <<c, kind2, x2>> \in Places => kind1 = kind2 /\ x1 = x2

\* Every cluster is started, on its way to the cluster manager, or still to be sent
\* there; and a request that did not overtake it is behind it.
AheadInv ==
  /\ \A k \in Clusters :
       \/ k \in known \/ \E i \in DOMAIN toLoad : toLoad[i] = k
       \/ \E i \in DOMAIN toClusters : toClusters[i] = ConfigOf(k)
  /\ \A c \in Clients \ early : \A j \in DOMAIN toClusters :
       toClusters[j] = RequestOf(c) /\ Target[c] \in Clusters =>
         \/ Target[c] \in known
         \/ \E i \in DOMAIN toClusters : i < j /\ toClusters[i] = ConfigOf(Target[c])

\* The connections that were granted a buffer, whatever became of them since.
Granted == {d \in Clients : state[d] \notin {"idle", "waitBuffer", "overLimit503"}}

\* The books of the listener count no more than that.
GrantsInv ==
  /\ Buffers!ManagerTypeOK /\ listeners[Listener] \in {0, Limit}
  /\ allocated_listeners[Listener] # Buffers!NoEntry =>
       allocated_listeners[Listener] <= Cardinality(Granted)
  /\ RefusedOnlyWhenSpent

RequestsInv == Shapes /\ AskersInv /\ RequestsOnce /\ PlacesInv
FlowInv == RequestsInv /\ AheadInv /\ NotFoundOnlyWhileStarting /\ GrantsInv
-------------------------------------------------------------------------------
\* What the operators on sequences do to the elements.
LEMMA Appended ==
  ASSUME NEW S, NEW s \in Seq(S), NEW e \in S
  PROVE  /\ Append(s, e) \in Seq(S) /\ Len(Append(s, e)) = Len(s) + 1 /\ Len(s) \in Nat
         /\ DOMAIN s = 1..Len(s) /\ DOMAIN Append(s, e) = 1..(Len(s) + 1)
         /\ \A i \in 1..Len(s) : Append(s, e)[i] = s[i]
         /\ Append(s, e)[Len(s) + 1] = e
BY AppendProperties, LenProperties

LEMMA Received ==
  ASSUME NEW S, NEW s \in Seq(S), s # <<>>
  PROVE  /\ Tail(s) \in Seq(S) /\ Len(Tail(s)) = Len(s) - 1 /\ Len(s) \in Nat /\ Len(s) >= 1
         /\ DOMAIN s = 1..Len(s) /\ DOMAIN Tail(s) = 1..(Len(s) - 1)
         /\ \A i \in 1..(Len(s) - 1) : Tail(s)[i] = s[i + 1]
         /\ Head(s) = s[1] /\ Head(s) \in S
<1>1. /\ Len(s) \in Nat /\ Len(s) >= 1 /\ DOMAIN s = 1..Len(s)
  BY EmptySeq, LenProperties
<1>2. QED BY <1>1

LEMMA SlotKinds ==
  /\ \A s : s \in Slots <=> s = <<>> \/ \E c \in Clients : s = <<c>>
  /\ \A c \in Clients : <<c>> \in Seq(Clients) /\ Len(<<c>>) = 1 /\ Head(<<c>>) = c /\ <<c>> # <<>>
BY DEF Slots

\* A channel with room for one request is empty or holds one.
LEMMA SlotFacts ==
  /\ \A s \in Slots : Len(s) < WorkerCap => s = <<>>
  /\ \A s \in Slots : s # <<>> => Head(s) \in Clients /\ s = <<Head(s)>> /\ Tail(s) = <<>>
  /\ \A c \in Clients : Append(<<>>, c) = <<c>> /\ <<c>> # <<>> /\ <<c>> \in Slots
  /\ \A c, d \in Clients : <<c>> = <<d>> => c = d
  /\ <<>> \in Slots
<1>1. ASSUME NEW c \in Clients PROVE Append(<<>>, c) = <<c>> /\ Tail(<<c>>) = <<>>
  <2>1. Tail(<<c>>) \in Seq(Clients) /\ Len(Tail(<<c>>)) = 0
    BY SlotKinds
  <2>2. QED BY <2>1, EmptySeq
<1>2. \A s \in Slots : Len(s) < WorkerCap => s = <<>>
  BY SlotKinds DEF WorkerCap
<1>3. ASSUME NEW s \in Slots, s # <<>> PROVE Head(s) \in Clients /\ s = <<Head(s)>> /\ Tail(s) = <<>>
  <2>1. PICK c \in Clients : s = <<c>>
    BY <1>3, SlotKinds
  <2>2. QED BY <1>1, <2>1, SlotKinds
<1>4. QED BY <1>1, <1>2, <1>3, SlotKinds

LEMMA SlotTypes ==
  \A s \in Slots : s \in Seq(Clients) /\ Len(s) <= WorkerCap
                  /\ \A c \in Clients : c \in ToSet(s) <=> s = <<c>>
<1>1. ASSUME NEW c \in Clients PROVE <<c>> \in Seq(Clients) /\ Len(<<c>>) = 1 /\ ToSet(<<c>>) = {c}
  BY DEF ToSet
<1>2. <<>> \in Seq(Clients) /\ Len(<<>>) = 0 /\ ToSet(<<>>) = {}
  BY DEF ToSet
<1>3. \A c, d \in Clients : <<c>> # <<>> /\ (<<c>> = <<d>> => c = d)
  OBVIOUS
<1>4. \A c, d \in Clients : d \in ToSet(<<c>>) <=> <<c>> = <<d>>
  BY <1>1, <1>3
<1>5. ASSUME NEW s \in Slots
      PROVE  s \in Seq(Clients) /\ Len(s) <= WorkerCap /\ \A c \in Clients : c \in ToSet(s) <=> s = <<c>>
  <2>1. CASE s = <<>>
    BY <1>2, <1>3, <2>1 DEF WorkerCap
  <2>2. CASE \E c \in Clients : s = <<c>>
    <3>1. PICK c \in Clients : s = <<c>>
      BY <2>2
    <3>2. QED BY <1>1, <1>4, <3>1 DEF WorkerCap
  <2>3. QED BY <2>1, <2>2, SlotKinds
<1>6. QED BY <1>5

\* The messages are told apart by their type and their sender.
LEMMA Messages ==
  /\ \A c \in Clients : RequestOf(c) \in ToClusters /\ RequestOf(c).type = "request" /\ RequestOf(c).client = c
  /\ \A k \in Clusters : ConfigOf(k) \in ToClusters /\ ConfigOf(k).type = "config" /\ ConfigOf(k).cluster = k
  /\ \A r \in ToClusters : r.type = "request" => r.client \in Clients /\ r = RequestOf(r.client)
  /\ \A r \in ToClusters : r.type = "config" => r.cluster \in Clusters /\ r = ConfigOf(r.cluster)
BY DEF ToClusters, Requests, RequestOf, ConfigOf

\* A place is of one kind.
LEMMA PlaceKinds ==
  \A c, kind, x :
    /\ <<c, kind, x>> \in InClusters => kind = "toClusters"
    /\ <<c, kind, x>> \in InManager => kind = "managerHand"
    /\ <<c, kind, x>> \in InWorkers => kind = "toWorker"
    /\ <<c, kind, x>> \in InHands => kind = "workerHand"
    /\ <<c, kind, x>> \in InMembers => kind = "toMember"
    /\ <<c, kind, x>> \in InService => kind = "serving"
BY DEF InClusters, InManager, InWorkers, InHands, InMembers, InService

\* A request that moves from one place to another.
LEMMA Moved ==
  ASSUME PlacesInv, NEW d \in Clients, NEW kind0, NEW x0, NEW kind1, NEW x1,
         <<d, kind0, x0>> \in Places,
         Places' = (Places \ {<<d, kind0, x0>>}) \cup {<<d, kind1, x1>>},
         \A c \in Clients : state'[c] = "waitCluster" <=> state[c] = "waitCluster"
  PROVE  PlacesInv'
<1>1. \A c, kind, x : <<c, kind, x>> \in Places' <=>
        (<<c, kind, x>> \in Places /\ ~(c = d /\ kind = kind0 /\ x = x0)) \/ (c = d /\ kind = kind1 /\ x = x1)
  OBVIOUS
<1>2. QED BY <1>1 DEF PlacesInv

\* A request that leaves, with its connection.
LEMMA Left ==
  ASSUME PlacesInv, NEW d \in Clients, NEW kind0, NEW x0, <<d, kind0, x0>> \in Places,
         Places' = Places \ {<<d, kind0, x0>>},
         state'[d] # "waitCluster",
         \A c \in Clients \ {d} : state'[c] = "waitCluster" <=> state[c] = "waitCluster"
  PROVE  PlacesInv'
<1>1. \A c, kind, x : <<c, kind, x>> \in Places' <=>
        (<<c, kind, x>> \in Places /\ ~(c = d /\ kind = kind0 /\ x = x0))
  OBVIOUS
<1>2. \A c \in Clients : state'[c] = "waitCluster" => c # d /\ state[c] = "waitCluster"
  OBVIOUS
<1>3. \A kind, x : <<d, kind, x>> \in Places => kind = kind0 /\ x = x0
  BY DEF PlacesInv
<1>4. QED BY <1>1, <1>2, <1>3 DEF PlacesInv

\* A request that is made.
LEMMA Came ==
  ASSUME PlacesInv, NEW d \in Clients, NEW kind1, NEW x1, state[d] # "waitCluster",
         Places' = Places \cup {<<d, kind1, x1>>}, state'[d] = "waitCluster",
         \A c \in Clients \ {d} : state'[c] = "waitCluster" <=> state[c] = "waitCluster"
  PROVE  PlacesInv'
<1>1. \A c, kind, x : <<c, kind, x>> \in Places' <=>
        <<c, kind, x>> \in Places \/ (c = d /\ kind = kind1 /\ x = x1)
  OBVIOUS
<1>2. QED BY <1>1 DEF PlacesInv

\* Nothing moves.
LEMMA Stayed ==
  ASSUME PlacesInv, Places' = Places,
         \A c \in Clients : state'[c] = "waitCluster" <=> state[c] = "waitCluster"
  PROVE  PlacesInv'
BY DEF PlacesInv

-------------------------------------------------------------------------------
\* What becomes of those who wait for a buffer when the channel of the buffer manager
\* stays, grows or shrinks.
ListenerOf(c) == [type |-> "listener", client |-> c]
MemberOf(m)   == [type |-> "member", member |-> m]

LEMMA BufferMessages ==
  /\ \A c \in Clients : ListenerOf(c) \in ToBuffers /\ ListenerOf(c).type = "listener" /\ ListenerOf(c).client = c
  /\ \A m \in Members : MemberOf(m) \in ToBuffers /\ MemberOf(m).type = "member" /\ MemberOf(m).member = m
  /\ \A r \in ToBuffers : r.type = "listener" => r.client \in Clients /\ r = ListenerOf(r.client)
  /\ \A r \in ToBuffers : r.type = "member" => r.member \in Members /\ r = MemberOf(r.member)
  /\ [type |-> "limit"] \in ToBuffers /\ [type |-> "limit"].type = "limit"
  /\ \A r \in ToBuffers : r.type \in {"limit", "listener", "member"}
BY DEF ToBuffers, ListenerOf, MemberOf

LEMMA AskersStay ==
  ASSUME Shapes, AskersInv, UNCHANGED toBuffers,
         \A c \in Clients : state[c] = "waitBuffer" => state'[c] = "waitBuffer",
         \A m \in Members : member[m] = "waitBuffer" => member'[m] = "waitBuffer"
  PROVE  AskersInv'
<1>1. \A i \in DOMAIN toBuffers : toBuffers[i] \in ToBuffers
  BY ElementOfSeq, LenProperties DEF Shapes
<1>2. QED BY <1>1, BufferMessages DEF AskersInv

LEMMA AskersGrow ==
  ASSUME Shapes, AskersInv, NEW r \in ToBuffers, toBuffers' = Append(toBuffers, r),
         \A c \in Clients : state[c] = "waitBuffer" => state'[c] = "waitBuffer",
         \A m \in Members : member[m] = "waitBuffer" => member'[m] = "waitBuffer",
         r.type = "listener" => state[r.client] # "waitBuffer" /\ state'[r.client] = "waitBuffer",
         r.type = "member" => member[r.member] # "waitBuffer" /\ member'[r.member] = "waitBuffer"
  PROVE  AskersInv'
<1>1. \A i \in DOMAIN toBuffers : toBuffers[i] \in ToBuffers
  BY ElementOfSeq, LenProperties DEF Shapes
<1>2. /\ Len(toBuffers) \in Nat /\ DOMAIN toBuffers = 1..Len(toBuffers)
      /\ DOMAIN toBuffers' = 1..(Len(toBuffers) + 1)
      /\ \A i \in 1..Len(toBuffers) : toBuffers'[i] = toBuffers[i]
      /\ toBuffers'[Len(toBuffers) + 1] = r
  BY Appended DEF Shapes
<1>3. \A i \in DOMAIN toBuffers' : i \in DOMAIN toBuffers \/ i = Len(toBuffers) + 1
  BY <1>2
<1>4. \A i \in DOMAIN toBuffers : toBuffers[i] = r => r.type = "limit"
  BY <1>1, BufferMessages DEF AskersInv
<1>5. \A i \in DOMAIN toBuffers' :
        /\ toBuffers'[i].type = "listener" => state'[toBuffers'[i].client] = "waitBuffer"
        /\ toBuffers'[i].type = "member" => member'[toBuffers'[i].member] = "waitBuffer"
  BY <1>1, <1>2, <1>3, BufferMessages DEF AskersInv
<1>6. \A i, j \in DOMAIN toBuffers' :
        toBuffers'[i] = toBuffers'[j] => i = j \/ toBuffers'[i].type = "limit"
  BY <1>2, <1>3, <1>4 DEF AskersInv
<1>7. QED BY <1>5, <1>6 DEF AskersInv

LEMMA AskersShrink ==
  ASSUME Shapes, AskersInv, toBuffers # <<>>, toBuffers' = Tail(toBuffers),
         \A c \in Clients : state[c] = "waitBuffer" => state'[c] = "waitBuffer" \/ Head(toBuffers) = ListenerOf(c),
         \A m \in Members : member[m] = "waitBuffer" => member'[m] = "waitBuffer" \/ Head(toBuffers) = MemberOf(m)
  PROVE  AskersInv'
<1>1. \A i \in DOMAIN toBuffers : toBuffers[i] \in ToBuffers
  BY ElementOfSeq, LenProperties DEF Shapes
<1>2. /\ Len(toBuffers) \in Nat /\ Len(toBuffers) >= 1 /\ DOMAIN toBuffers = 1..Len(toBuffers)
      /\ DOMAIN toBuffers' = 1..(Len(toBuffers) - 1)
      /\ \A i \in 1..(Len(toBuffers) - 1) : toBuffers'[i] = toBuffers[i + 1]
      /\ Head(toBuffers) = toBuffers[1]
  BY Received DEF Shapes
<1>3. \A i \in DOMAIN toBuffers' :
        i \in Nat /\ i + 1 \in DOMAIN toBuffers /\ i + 1 # 1 /\ toBuffers'[i] = toBuffers[i + 1] /\ 1 \in DOMAIN toBuffers
  BY <1>2
<1>4. \A i \in DOMAIN toBuffers' : toBuffers[i + 1] = Head(toBuffers) => toBuffers[i + 1].type = "limit"
  BY <1>2, <1>3 DEF AskersInv
<1>5. \A i \in DOMAIN toBuffers' :
        /\ toBuffers'[i].type = "listener" => state'[toBuffers'[i].client] = "waitBuffer"
        /\ toBuffers'[i].type = "member" => member'[toBuffers'[i].member] = "waitBuffer"
  BY <1>1, <1>3, <1>4, BufferMessages DEF AskersInv
<1>6. \A i, j \in DOMAIN toBuffers' :
        toBuffers'[i] = toBuffers'[j] => i = j \/ toBuffers'[i].type = "limit"
  <2>1. SUFFICES ASSUME NEW i \in DOMAIN toBuffers', NEW j \in DOMAIN toBuffers', toBuffers'[i] = toBuffers'[j]
                 PROVE  i = j \/ toBuffers'[i].type = "limit"
    OBVIOUS
  <2>2. i + 1 = j + 1 \/ toBuffers[i + 1].type = "limit"
    BY <1>3, <2>1 DEF AskersInv
  <2>3. i + 1 = j + 1 => i = j
    BY <1>3
  <2>4. QED BY <1>3, <2>2, <2>3
<1>7. QED BY <1>5, <1>6 DEF AskersInv

\* And of the requests in the channel of the cluster manager.
LEMMA ClustersGrow ==
  ASSUME Shapes, RequestsOnce, NEW r \in ToClusters, toClusters' = Append(toClusters, r),
         r.type = "request" => <<r.client, "toClusters", 1>> \notin InClusters
  PROVE  /\ RequestsOnce'
         /\ InClusters' = InClusters \cup {<<c, "toClusters", 1>> : c \in {c \in Clients : r = RequestOf(c)}}
<1>1. /\ Len(toClusters) \in Nat /\ DOMAIN toClusters = 1..Len(toClusters)
      /\ DOMAIN toClusters' = 1..(Len(toClusters) + 1)
      /\ \A i \in 1..Len(toClusters) : toClusters'[i] = toClusters[i]
      /\ toClusters'[Len(toClusters) + 1] = r
  BY Appended DEF Shapes
<1>2. /\ \A i \in DOMAIN toClusters' : i \in DOMAIN toClusters \/ i = Len(toClusters) + 1
      /\ \A i \in DOMAIN toClusters : i \in DOMAIN toClusters' /\ toClusters'[i] = toClusters[i]
      /\ Len(toClusters) + 1 \in DOMAIN toClusters'
  BY <1>1
<1>3. \A c \in Clients : (\E i \in DOMAIN toClusters' : toClusters'[i] = RequestOf(c)) <=>
        (\E i \in DOMAIN toClusters : toClusters[i] = RequestOf(c)) \/ r = RequestOf(c)
  BY <1>1, <1>2
<1>4. InClusters' = InClusters \cup {<<c, "toClusters", 1>> : c \in {c \in Clients : r = RequestOf(c)}}
  BY <1>3 DEF InClusters
<1>5. \A c \in Clients : r = RequestOf(c) => ~\E i \in DOMAIN toClusters : toClusters[i] = RequestOf(c)
  BY Messages DEF InClusters
<1>6. RequestsOnce'
  BY <1>1, <1>2, <1>5 DEF RequestsOnce
<1>7. QED BY <1>4, <1>6

LEMMA ClustersShrink ==
  ASSUME Shapes, RequestsOnce, toClusters # <<>>, toClusters' = Tail(toClusters)
  PROVE  /\ RequestsOnce'
         /\ InClusters' = InClusters \ {<<c, "toClusters", 1>> : c \in {c \in Clients : Head(toClusters) = RequestOf(c)}}
         /\ \A c \in Clients : Head(toClusters) = RequestOf(c) => <<c, "toClusters", 1>> \in InClusters
<1>1. /\ Len(toClusters) \in Nat /\ Len(toClusters) >= 1 /\ DOMAIN toClusters = 1..Len(toClusters)
      /\ DOMAIN toClusters' = 1..(Len(toClusters) - 1)
      /\ \A i \in 1..(Len(toClusters) - 1) : toClusters'[i] = toClusters[i + 1]
      /\ Head(toClusters) = toClusters[1]
  BY Received DEF Shapes
<1>2. /\ \A i \in DOMAIN toClusters' : i \in Nat /\ i + 1 \in DOMAIN toClusters /\ i + 1 # 1 /\ toClusters'[i] = toClusters[i + 1]
      /\ \A i \in DOMAIN toClusters : i = 1 \/ (i - 1 \in DOMAIN toClusters' /\ toClusters'[i - 1] = toClusters[i])
      /\ 1 \in DOMAIN toClusters
  BY <1>1
<1>3. \A c \in Clients : (\E i \in DOMAIN toClusters' : toClusters'[i] = RequestOf(c)) <=>
        (\E i \in DOMAIN toClusters : toClusters[i] = RequestOf(c)) /\ Head(toClusters) # RequestOf(c)
  BY <1>1, <1>2 DEF RequestsOnce
<1>4. InClusters' = InClusters \ {<<c, "toClusters", 1>> : c \in {c \in Clients : Head(toClusters) = RequestOf(c)}}
  BY <1>3 DEF InClusters
<1>5. RequestsOnce'
  <2>1. SUFFICES ASSUME NEW c \in Clients, NEW i \in DOMAIN toClusters', NEW j \in DOMAIN toClusters',
                        toClusters'[i] = RequestOf(c), toClusters'[j] = RequestOf(c)
                 PROVE  i = j
    BY DEF RequestsOnce
  <2>2. i + 1 = j + 1
    BY <1>2, <2>1 DEF RequestsOnce
  <2>3. QED BY <1>2, <2>2
<1>6. \A c \in Clients : Head(toClusters) = RequestOf(c) => <<c, "toClusters", 1>> \in InClusters
  BY <1>1, <1>2 DEF InClusters
<1>7. QED BY <1>4, <1>5, <1>6

-------------------------------------------------------------------------------
\* One lemma per action: the requests stay in shape, in place and in order.
LEMMA LoadLimitRequests ==
  ASSUME RequestsInv, LoadLimit
  PROVE  RequestsInv'
<1>1. /\ toLoad # <<>> /\ Len(toBuffers) < ManagerCap /\ toLoad' = Tail(toLoad)
      /\ toBuffers' = Append(toBuffers, [type |-> "limit"])
      /\ UNCHANGED <<state, toClusters, known, managerHand, toWorker, workerHand, toMember, member,
                     serving, unavailable, early>>
  BY DEF LoadLimit, backend
<1>2. Shapes'
  BY <1>1, Received, Appended, BufferMessages, CapAssumption DEF RequestsInv, Shapes
<1>3. AskersInv'
  BY <1>1, AskersGrow, BufferMessages DEF RequestsInv
<1>4. RequestsOnce' /\ Places' = Places
  BY <1>1 DEF RequestsInv, RequestsOnce, Places, InClusters, InManager, InWorkers, InHands, InMembers, InService
<1>5. PlacesInv'
  BY <1>1, <1>4, Stayed DEF RequestsInv
<1>6. QED BY <1>2, <1>3, <1>4, <1>5 DEF RequestsInv

LEMMA LoadClusterRequests ==
  ASSUME RequestsInv, LoadCluster
  PROVE  RequestsInv'
<1> DEFINE k == Head(toLoad)
<1>1. /\ toLoad # <<>> /\ k # "limit" /\ Len(toClusters) < ManagerCap /\ toLoad' = Tail(toLoad)
      /\ toClusters' = Append(toClusters, ConfigOf(k))
      /\ UNCHANGED <<state, toBuffers, known, managerHand, toWorker, workerHand, toMember, member,
                     serving, unavailable, early>>
  BY DEF LoadCluster, backend, ConfigOf
<1>2. k \in Clusters /\ toLoad' \in Seq(Clusters \cup {"limit"})
  BY <1>1, Received DEF RequestsInv, Shapes
<1>3. ConfigOf(k) \in ToClusters /\ ConfigOf(k).type = "config"
  BY <1>2, Messages
<1>4. Shapes'
  BY <1>1, <1>2, <1>3, Appended, CapAssumption DEF RequestsInv, Shapes
<1>5. AskersInv'
  BY <1>1, AskersStay DEF RequestsInv
<1>6. RequestsOnce' /\ InClusters' = InClusters
  <2>1. RequestsOnce' /\ InClusters' = InClusters \cup {<<d, "toClusters", 1>> : d \in {d \in Clients : ConfigOf(k) = RequestOf(d)}}
    BY <1>1, <1>3, ClustersGrow DEF RequestsInv
  <2>2. \A d \in Clients : ConfigOf(k) # RequestOf(d)
    BY <1>3, Messages
  <2>3. QED BY <2>1, <2>2
<1>7. Places' = Places
  BY <1>1, <1>6 DEF Places, InManager, InWorkers, InHands, InMembers, InService
<1>8. PlacesInv'
  BY <1>1, <1>7, Stayed DEF RequestsInv
<1>9. QED BY <1>4, <1>5, <1>6, <1>8 DEF RequestsInv

LEMMA AskBufferRequests ==
  ASSUME RequestsInv, NEW c \in Clients, AskBuffer(c)
  PROVE  RequestsInv'
<1>1. /\ state[c] = "idle" /\ Len(toBuffers) < ManagerCap
      /\ toBuffers' = Append(toBuffers, ListenerOf(c))
      /\ state' = [state EXCEPT ![c] = "waitBuffer"]
      /\ UNCHANGED <<toClusters, known, managerHand, toWorker, workerHand, toMember, member,
                     serving, unavailable, toLoad, early>>
  BY DEF AskBuffer, backend, ListenerOf, Becomes
<1>2. state \in [Clients -> Waiting \cup Answered]
  BY DEF RequestsInv, Shapes
<1>3. state'[c] = "waitBuffer" /\ \A d \in Clients \ {c} : state'[d] = state[d]
  BY <1>1, <1>2
<1>4. ListenerOf(c) \in ToBuffers /\ ListenerOf(c).type = "listener" /\ ListenerOf(c).client = c
  BY BufferMessages
<1>5. Shapes'
  BY <1>1, <1>4, Appended, CapAssumption DEF RequestsInv, Shapes, Waiting
<1>6. AskersInv'
  BY <1>1, <1>3, <1>4, AskersGrow DEF RequestsInv
<1>7. RequestsOnce' /\ Places' = Places
  BY <1>1 DEF RequestsInv, RequestsOnce, Places, InClusters, InManager, InWorkers, InHands, InMembers, InService
<1>8. PlacesInv'
  BY <1>1, <1>3, <1>7, Stayed DEF RequestsInv
<1>9. QED BY <1>5, <1>6, <1>7, <1>8 DEF RequestsInv

LEMMA AskClusterRequests ==
  ASSUME RequestsInv, NEW c \in Clients, AskCluster(c)
  PROVE  RequestsInv'
<1>1. /\ state[c] = "granted" /\ Len(toClusters) < ManagerCap
      /\ toClusters' = Append(toClusters, RequestOf(c))
      /\ state' = [state EXCEPT ![c] = "waitCluster"]
      /\ early' \in {early, early \cup {c}}
      /\ UNCHANGED <<toBuffers, known, managerHand, toWorker, workerHand, toMember, member,
                     serving, unavailable, toLoad>>
  BY DEF AskCluster, backend, RequestOf, Becomes
<1>2. state \in [Clients -> Waiting \cup Answered]
  BY DEF RequestsInv, Shapes
<1>3. state'[c] = "waitCluster" /\ \A d \in Clients \ {c} : state'[d] = state[d]
  BY <1>1, <1>2
<1>4. RequestOf(c) \in ToClusters /\ RequestOf(c).type = "request" /\ RequestOf(c).client = c
      /\ \A d \in Clients : RequestOf(c) = RequestOf(d) => d = c
  BY Messages
<1>5. Shapes'
  BY <1>1, <1>4, Appended, CapAssumption DEF RequestsInv, Shapes, Waiting
<1>6. AskersInv'
  BY <1>1, <1>3, AskersStay DEF RequestsInv
<1>7. \A kind, x : <<c, kind, x>> \notin Places
  BY <1>1 DEF RequestsInv, PlacesInv
<1>8. RequestsOnce' /\ InClusters' = InClusters \cup {<<c, "toClusters", 1>>}
  <2>1. <<c, "toClusters", 1>> \notin InClusters
    BY <1>7 DEF Places
  <2>2. RequestsOnce' /\ InClusters' = InClusters \cup {<<d, "toClusters", 1>> : d \in {d \in Clients : RequestOf(c) = RequestOf(d)}}
    BY <1>1, <1>4, <2>1, ClustersGrow DEF RequestsInv
  <2>3. {<<d, "toClusters", 1>> : d \in {d \in Clients : RequestOf(c) = RequestOf(d)}} = {<<c, "toClusters", 1>>}
    BY <1>4
  <2>4. QED BY <2>2, <2>3
<1>9. Places' = Places \cup {<<c, "toClusters", 1>>}
  BY <1>1, <1>8 DEF Places, InManager, InWorkers, InHands, InMembers, InService
<1>10. PlacesInv'
  BY <1>1, <1>3, <1>9, Came DEF RequestsInv
<1>11. QED BY <1>5, <1>6, <1>8, <1>10 DEF RequestsInv

LEMMA BufferStepRequests ==
  ASSUME RequestsInv, BufferStep
  PROVE  RequestsInv'
<1>1. /\ toBuffers # <<>> /\ toBuffers' = Tail(toBuffers)
      /\ UNCHANGED <<toClusters, known, managerHand, toWorker, workerHand, toMember, serving,
                     unavailable, toLoad, early>>
  BY DEF BufferStep, HandleLimit, HandleListener, HandleMember, backend
<1>2. /\ state \in [Clients -> Waiting \cup Answered] /\ Head(toBuffers) \in ToBuffers
      /\ member \in [Members -> {"idle", "connecting", "waitBuffer", "granted", "session"}]
      /\ toBuffers[1] = Head(toBuffers) /\ 1 \in DOMAIN toBuffers
      /\ toBuffers' \in Seq(ToBuffers) /\ Len(toBuffers') <= ManagerCap
  BY <1>1, Received, CapAssumption DEF RequestsInv, Shapes
<1>3. /\ state' \in [Clients -> Waiting \cup Answered] /\ \A c \in Clients : state'[c] = "waitCluster" <=> state[c] = "waitCluster"
      /\ member' \in [Members -> {"idle", "connecting", "waitBuffer", "granted", "session"}]
      /\ \A m \in Members : (member'[m] = "idle" <=> member[m] = "idle") /\ (member'[m] = "session" <=> member[m] = "session")
      /\ \A c \in Clients : state[c] = "waitBuffer" => state'[c] = "waitBuffer" \/ Head(toBuffers) = ListenerOf(c)
      /\ \A m \in Members : member[m] = "waitBuffer" => member'[m] = "waitBuffer" \/ Head(toBuffers) = MemberOf(m)
  <2>1. CASE HandleLimit
    BY <1>2, <2>1 DEF HandleLimit, backend
  <2>2. CASE HandleListener
    <3> DEFINE c == Head(toBuffers).client
    <3>1. c \in Clients /\ Head(toBuffers) = ListenerOf(c) /\ state[c] = "waitBuffer"
      BY <1>2, <2>2, BufferMessages DEF HandleListener, RequestsInv, AskersInv
    <3>2. \E s \in {"overLimit503", "granted"} : state' = [state EXCEPT ![c] = s] /\ UNCHANGED member
      BY <2>2 DEF HandleListener, Becomes, backend
    <3>3. QED BY <1>2, <3>1, <3>2 DEF Waiting, Answered
  <2>3. CASE HandleMember
    <3> DEFINE m == Head(toBuffers).member
    <3>1. m \in Members /\ Head(toBuffers) = MemberOf(m) /\ member[m] = "waitBuffer"
      BY <1>2, <2>3, BufferMessages DEF HandleMember, RequestsInv, AskersInv
    <3>2. UNCHANGED state /\ member' = [member EXCEPT ![m] = "granted"]
      BY <2>3 DEF HandleMember
    <3>3. QED BY <1>2, <3>1, <3>2
  <2>4. QED BY <2>1, <2>2, <2>3 DEF BufferStep
<1>4. Shapes'
  BY <1>1, <1>2, <1>3 DEF RequestsInv, Shapes
<1>5. AskersInv'
  BY <1>1, <1>3, AskersShrink DEF RequestsInv
<1>6. RequestsOnce'
  BY <1>1 DEF RequestsInv, RequestsOnce
<1>7. Places' = Places
  <2>1. InService' = InService
    BY <1>1, <1>3 DEF InService
  <2>2. QED BY <1>1, <2>1 DEF Places, InClusters, InManager, InWorkers, InHands, InMembers
<1>8. PlacesInv'
  BY <1>3, <1>7, Stayed DEF RequestsInv
<1>9. QED BY <1>4, <1>5, <1>6, <1>8 DEF RequestsInv

LEMMA ManagerConfiguresRequests ==
  ASSUME RequestsInv, ManagerConfigures
  PROVE  RequestsInv'
<1>1. /\ toClusters # <<>> /\ toClusters' = Tail(toClusters) /\ Head(toClusters).type = "config"
      /\ known' = known \cup {Head(toClusters).cluster} /\ managerHand = Nobody
      /\ UNCHANGED <<state, toBuffers, managerHand, toWorker, workerHand, toMember, member,
                     serving, unavailable, toLoad, early>>
  BY DEF ManagerConfigures, backend
<1>2. /\ Head(toClusters).cluster \in Clusters /\ \A c \in Clients : Head(toClusters) # RequestOf(c)
      /\ toClusters' \in Seq(ToClusters) /\ Len(toClusters') <= ManagerCap
  BY <1>1, Received, Messages, CapAssumption DEF RequestsInv, Shapes
<1>3. Shapes'
  BY <1>1, <1>2 DEF RequestsInv, Shapes
<1>4. AskersInv'
  BY <1>1, AskersStay DEF RequestsInv
<1>5. RequestsOnce' /\ InClusters' = InClusters
  <2>1. RequestsOnce' /\ InClusters' = InClusters \ {<<c, "toClusters", 1>> : c \in {c \in Clients : Head(toClusters) = RequestOf(c)}}
    BY <1>1, ClustersShrink DEF RequestsInv
  <2>2. QED BY <1>2, <2>1
<1>6. Places' = Places
  BY <1>1, <1>5 DEF Places, InManager, InWorkers, InHands, InMembers, InService
<1>7. PlacesInv'
  BY <1>1, <1>6, Stayed DEF RequestsInv
<1>8. QED BY <1>3, <1>4, <1>5, <1>7 DEF RequestsInv

\* What the manager receives is a request of somebody who waits; it takes it into its
\* hand, which was empty, or answers it.
LEMMA ManagerReceivesRequests ==
  ASSUME RequestsInv, ManagerReceives
  PROVE  /\ RequestsInv'
         /\ \E c \in Clients : /\ Head(toClusters) = RequestOf(c) /\ state[c] = "waitCluster"
                             /\ \/ UNCHANGED state
                                \/ state' = [state EXCEPT ![c] = "notFound404"] /\ Target[c] \notin known
<1> DEFINE c == Head(toClusters).client
<1>1. /\ toClusters # <<>> /\ toClusters' = Tail(toClusters) /\ Head(toClusters).type = "request" /\ managerHand = Nobody
      /\ \/ managerHand' = c /\ UNCHANGED state /\ Target[c] \in known
         \/ state' = [state EXCEPT ![c] = "notFound404"] /\ UNCHANGED managerHand /\ Target[c] \notin known
      /\ UNCHANGED <<toBuffers, known, toWorker, workerHand, toMember, member,
                     serving, unavailable, toLoad, early>>
  BY DEF ManagerReceives, backend, Becomes
<1>2. /\ c \in Clients /\ Head(toClusters) = RequestOf(c) /\ c # Nobody
      /\ toClusters' \in Seq(ToClusters) /\ Len(toClusters') <= ManagerCap
      /\ state \in [Clients -> Waiting \cup Answered]
  BY <1>1, Received, Messages, CapAssumption, ClientsAssumption DEF RequestsInv, Shapes
<1>3. /\ RequestsOnce' /\ InClusters' = InClusters \ {<<c, "toClusters", 1>>}
      /\ <<c, "toClusters", 1>> \in Places
  <2>1. /\ RequestsOnce'
        /\ InClusters' = InClusters \ {<<d, "toClusters", 1>> : d \in {d \in Clients : Head(toClusters) = RequestOf(d)}}
        /\ <<c, "toClusters", 1>> \in InClusters
    BY <1>1, <1>2, ClustersShrink DEF RequestsInv
  <2>2. {<<d, "toClusters", 1>> : d \in {d \in Clients : Head(toClusters) = RequestOf(d)}} = {<<c, "toClusters", 1>>}
    BY <1>2, Messages
  <2>3. QED BY <2>1, <2>2 DEF Places
<1>4. state[c] = "waitCluster"
  BY <1>2, <1>3 DEF RequestsInv, PlacesInv
<1>5. InManager = {}
  BY <1>1, ClientsAssumption DEF InManager
<1>6. InWorkers' = InWorkers /\ InHands' = InHands /\ InMembers' = InMembers /\ InService' = InService
  BY <1>1 DEF InWorkers, InHands, InMembers, InService
<1>7. CASE managerHand' = c /\ UNCHANGED state /\ Target[c] \in known
  <2>1. Shapes'
    BY <1>1, <1>2, <1>7 DEF RequestsInv, Shapes
  <2>2. AskersInv'
    BY <1>1, <1>7, AskersStay DEF RequestsInv
  <2>3. InManager' = {<<c, "managerHand", 1>>}
    BY <1>2, <1>7 DEF InManager
  <2>4. Places' = (Places \ {<<c, "toClusters", 1>>}) \cup {<<c, "managerHand", 1>>}
    BY <1>3, <1>5, <1>6, <2>3, PlaceKinds DEF Places
  <2>5. PlacesInv'
    BY <1>2, <1>3, <1>7, <2>4, Moved DEF RequestsInv
  <2>6. QED BY <1>2, <1>3, <1>4, <1>7, <2>1, <2>2, <2>5 DEF RequestsInv
<1>8. CASE state' = [state EXCEPT ![c] = "notFound404"] /\ UNCHANGED managerHand /\ Target[c] \notin known
  <2>1. state'[c] = "notFound404" /\ \A d \in Clients \ {c} : state'[d] = state[d]
    BY <1>2, <1>8
  <2>2. Shapes'
    BY <1>1, <1>2, <1>8 DEF RequestsInv, Shapes, Answered
  <2>3. AskersInv'
    BY <1>1, <1>4, <2>1, AskersStay DEF RequestsInv
  <2>4. InManager' = {}
    BY <1>5, <1>8 DEF InManager
  <2>5. Places' = Places \ {<<c, "toClusters", 1>>}
    BY <1>3, <1>5, <1>6, <2>4, PlaceKinds DEF Places
  <2>6. PlacesInv'
    BY <1>2, <1>3, <2>1, <2>5, Left DEF RequestsInv
  <2>7. QED BY <1>2, <1>3, <1>4, <1>8, <2>2, <2>3, <2>6 DEF RequestsInv
<1>9. QED BY <1>1, <1>7, <1>8

LEMMA ManagerSendsRequests ==
  ASSUME RequestsInv, ManagerSends
  PROVE  RequestsInv'
<1> DEFINE c == managerHand
           k == Target[managerHand]
<1>1. /\ managerHand # Nobody /\ managerHand' = Nobody /\ Len(toWorker[k]) < WorkerCap
      /\ toWorker' = [toWorker EXCEPT ![k] = Append(@, c)]
      /\ UNCHANGED <<state, toBuffers, toClusters, known, workerHand, toMember, member,
                     serving, unavailable, toLoad, early>>
  BY DEF ManagerSends
<1>2. c \in Clients /\ k \in Clusters /\ toWorker \in [Clusters -> Slots]
  BY <1>1 DEF RequestsInv, Shapes
<1>3. toWorker[k] = <<>> /\ toWorker' \in [Clusters -> Slots] /\ toWorker'[k] = <<c>>
      /\ \A j \in Clusters \ {k} : toWorker'[j] = toWorker[j]
  <2>1. toWorker[k] = <<>>
    BY <1>1, <1>2, SlotFacts
  <2>2. toWorker' = [toWorker EXCEPT ![k] = <<c>>]
    BY <1>1, <1>2, <2>1, SlotFacts
  <2>3. QED BY <1>2, <2>1, <2>2, SlotFacts
<1>4. Shapes'
  BY <1>1, <1>3 DEF RequestsInv, Shapes
<1>5. AskersInv'
  BY <1>1, AskersStay DEF RequestsInv
<1>6. RequestsOnce' /\ InClusters' = InClusters /\ InHands' = InHands /\ InMembers' = InMembers /\ InService' = InService
  BY <1>1 DEF RequestsInv, RequestsOnce, InClusters, InHands, InMembers, InService
<1>7. InManager = {<<c, "managerHand", 1>>} /\ InManager' = {}
  BY <1>1, <1>2, ClientsAssumption DEF InManager
<1>8. InWorkers' = InWorkers \cup {<<c, "toWorker", k>>}
  <2>1. \A d \in Clients, j \in Clusters : toWorker'[j] = <<d>> <=> toWorker[j] = <<d>> \/ (d = c /\ j = k)
    BY <1>2, <1>3, SlotFacts
  <2>2. QED BY <1>2, <2>1 DEF InWorkers
<1>9. Places' = (Places \ {<<c, "managerHand", 1>>}) \cup {<<c, "toWorker", k>>}
  BY <1>6, <1>7, <1>8, PlaceKinds DEF Places
<1>10. PlacesInv'
  BY <1>1, <1>2, <1>7, <1>9, Moved DEF RequestsInv, Places
<1>11. QED BY <1>4, <1>5, <1>6, <1>10 DEF RequestsInv

LEMMA MinIsMember ==
  ASSUME NEW S, S \subseteq Nat, S # {}
  PROVE  Min(S) \in S
<1>1. PICK x \in S : \A y \in S : <<y, x>> \notin OpToRel(<, Nat)
  BY NatLessThanWellFounded, WFMin, Zenon
<1>2. \A y \in S : ~(y < x)
  BY <1>1, Zenon DEF OpToRel
<1>3. \A y \in S : x <= y
  BY <1>2
<1>4. QED BY <1>3 DEF Min

\* Whom a worker chooses is a member of its cluster.
LEMMA ChosenMember ==
  ASSUME NEW k \in Clusters, Selection(k) # {}
  PROVE  MembersOf[k][RoundRobin(Selection(k))] \in ToSet(MembersOf[k]) \cap Members
<1>1. MembersOf[k] \in Seq(Members)
  BY MembersAssumption
<1>2. Selection(k) \subseteq DOMAIN MembersOf[k] /\ DOMAIN MembersOf[k] \subseteq Nat
  BY <1>1, LenProperties DEF Selection
<1> DEFINE rest == Selection(k) \ {Min(Selection(k))}
           among == IF rest = {} THEN Selection(k) ELSE rest
<1>3. among \subseteq Selection(k) /\ among # {} /\ among \subseteq Nat
  BY <1>2
<1>4. Min(among) \in DOMAIN MembersOf[k]
  BY <1>2, <1>3, MinIsMember
<1>5. RoundRobin(Selection(k)) \in DOMAIN MembersOf[k]
  BY <1>4 DEF RoundRobin
<1>6. QED BY <1>1, <1>5, ElementOfSeq, LenProperties DEF ToSet

\* What a worker receives is a request of somebody who waits.
LEMMA WorkerReceivesRequests ==
  ASSUME RequestsInv, NEW k \in Clusters, WorkerReceives(k)
  PROVE  /\ RequestsInv'
         /\ \E c \in Clients : /\ state[c] = "waitCluster"
                             /\ (UNCHANGED state \/ state' = [state EXCEPT ![c] = "dropped"])
<1> DEFINE c == Head(toWorker[k])
           m == MembersOf[k][RoundRobin(Selection(k))]
<1>1. /\ workerHand[k] = <<>> /\ toWorker[k] # <<>> /\ toWorker' = [toWorker EXCEPT ![k] = Tail(@)]
      /\ \/ Selection(k) = {} /\ state' = [state EXCEPT ![c] = "dropped"] /\ UNCHANGED workerHand
         \/ Selection(k) # {} /\ workerHand' = [workerHand EXCEPT ![k] = <<c, m>>] /\ UNCHANGED state
      /\ UNCHANGED <<toBuffers, toClusters, known, managerHand, toMember, member,
                     serving, unavailable, toLoad, early>>
  BY DEF WorkerReceives, Becomes
<1>2. /\ toWorker \in [Clusters -> Slots] /\ state \in [Clients -> Waiting \cup Answered]
      /\ workerHand \in [Clusters -> {<<>>} \cup (Clients \X Members)]
      /\ toWorker[k] \in Slots
  BY DEF RequestsInv, Shapes
<1>3. /\ c \in Clients /\ toWorker[k] = <<c>> /\ toWorker' \in [Clusters -> Slots] /\ toWorker'[k] = <<>>
      /\ \A j \in Clusters \ {k} : toWorker'[j] = toWorker[j]
  <2>1. c \in Clients /\ toWorker[k] = <<c>> /\ Tail(toWorker[k]) = <<>>
    BY <1>1, <1>2, SlotFacts
  <2>2. toWorker' = [toWorker EXCEPT ![k] = <<>>]
    BY <1>1, <2>1
  <2>3. QED BY <1>2, <2>1, <2>2, SlotFacts
<1>4. <<c, "toWorker", k>> \in Places /\ state[c] = "waitCluster"
  <2>1. <<c, "toWorker", k>> \in InWorkers
    BY <1>3 DEF InWorkers
  <2>2. QED BY <1>3, <2>1 DEF Places, RequestsInv, PlacesInv
<1>5. RequestsOnce' /\ InClusters' = InClusters /\ InManager' = InManager /\ InMembers' = InMembers /\ InService' = InService
  BY <1>1 DEF RequestsInv, RequestsOnce, InClusters, InManager, InMembers, InService
<1>6. InWorkers' = InWorkers \ {<<c, "toWorker", k>>}
  <2>1. \A d \in Clients, j \in Clusters : toWorker'[j] = <<d>> <=> toWorker[j] = <<d>> /\ ~(d = c /\ j = k)
    BY <1>2, <1>3, SlotFacts
  <2>2. QED BY <1>3, <2>1 DEF InWorkers
<1>7. CASE Selection(k) = {} /\ state' = [state EXCEPT ![c] = "dropped"] /\ UNCHANGED workerHand
  <2>1. state'[c] = "dropped" /\ \A d \in Clients \ {c} : state'[d] = state[d]
    BY <1>2, <1>3, <1>7
  <2>2. Shapes'
    BY <1>1, <1>3, <1>7 DEF RequestsInv, Shapes, Answered
  <2>3. AskersInv'
    BY <1>1, <1>4, <2>1, AskersStay DEF RequestsInv
  <2>4. InHands' = InHands
    BY <1>7 DEF InHands
  <2>5. Places' = Places \ {<<c, "toWorker", k>>}
    BY <1>5, <1>6, <2>4, PlaceKinds DEF Places
  <2>6. PlacesInv'
    BY <1>3, <1>4, <2>1, <2>5, Left DEF RequestsInv
  <2>7. QED BY <1>3, <1>4, <1>5, <1>7, <2>2, <2>3, <2>6 DEF RequestsInv
<1>8. CASE Selection(k) # {} /\ workerHand' = [workerHand EXCEPT ![k] = <<c, m>>] /\ UNCHANGED state
  <2>1. m \in ToSet(MembersOf[k]) /\ m \in Members
    BY <1>8, ChosenMember
  <2>2. <<c, m>> \in Clients \X Members /\ <<c, m>>[1] = c /\ <<c, m>>[2] = m /\ <<c, m>> # <<>>
    BY <1>3, <2>1
  <2>3. /\ workerHand' \in [Clusters -> {<<>>} \cup (Clients \X Members)] /\ workerHand'[k] = <<c, m>>
        /\ \A j \in Clusters \ {k} : workerHand'[j] = workerHand[j]
    BY <1>2, <1>8, <2>2
  <2>4. \A j \in Clusters : workerHand'[j] # <<>> => workerHand'[j][2] \in ToSet(MembersOf[j])
    BY <2>1, <2>2, <2>3 DEF RequestsInv, Shapes
  <2>5. Shapes'
    BY <1>1, <1>3, <1>8, <2>3, <2>4 DEF RequestsInv, Shapes
  <2>6. AskersInv'
    BY <1>1, <1>8, AskersStay DEF RequestsInv
  <2>7. InHands' = InHands \cup {<<c, "workerHand", k>>}
    <3>1. \A d \in Clients, j \in Clusters : (workerHand'[j] # <<>> /\ workerHand'[j][1] = d) <=>
            (workerHand[j] # <<>> /\ workerHand[j][1] = d) \/ (d = c /\ j = k)
      BY <1>1, <1>3, <2>2, <2>3
    <3>2. QED BY <1>3, <3>1 DEF InHands
  <2>8. Places' = (Places \ {<<c, "toWorker", k>>}) \cup {<<c, "workerHand", k>>}
    BY <1>5, <1>6, <2>7, PlaceKinds DEF Places
  <2>9. PlacesInv'
    BY <1>3, <1>4, <1>8, <2>8, Moved DEF RequestsInv
  <2>10. QED BY <1>3, <1>4, <1>5, <1>8, <2>5, <2>6, <2>9 DEF RequestsInv
<1>9. QED BY <1>1, <1>7, <1>8

LEMMA WorkerSendsRequests ==
  ASSUME RequestsInv, NEW k \in Clusters, WorkerSends(k)
  PROVE  RequestsInv'
<1> DEFINE c == workerHand[k][1]
           m == workerHand[k][2]
<1>1. /\ workerHand[k] # <<>> /\ Len(toMember[m]) < WorkerCap
      /\ toMember' = [toMember EXCEPT ![m] = Append(@, c)]
      /\ workerHand' = [workerHand EXCEPT ![k] = <<>>]
      /\ UNCHANGED <<state, toBuffers, toClusters, known, managerHand, toWorker, member,
                     serving, unavailable, toLoad, early>>
  BY DEF WorkerSends
<1>2. /\ workerHand \in [Clusters -> {<<>>} \cup (Clients \X Members)] /\ toMember \in [Members -> Slots]
      /\ c \in Clients /\ m \in Members
  BY <1>1 DEF RequestsInv, Shapes
<1>3. /\ toMember[m] = <<>> /\ toMember' \in [Members -> Slots] /\ toMember'[m] = <<c>>
      /\ \A n \in Members \ {m} : toMember'[n] = toMember[n]
  <2>1. toMember[m] = <<>>
    BY <1>1, <1>2, SlotFacts
  <2>2. toMember' = [toMember EXCEPT ![m] = <<c>>]
    BY <1>1, <1>2, <2>1, SlotFacts
  <2>3. QED BY <1>2, <2>1, <2>2, SlotFacts
<1>4. /\ workerHand' \in [Clusters -> {<<>>} \cup (Clients \X Members)] /\ workerHand'[k] = <<>>
      /\ \A j \in Clusters \ {k} : workerHand'[j] = workerHand[j]
  BY <1>1, <1>2
<1>5. Shapes'
  BY <1>1, <1>3, <1>4 DEF RequestsInv, Shapes
<1>6. AskersInv'
  BY <1>1, AskersStay DEF RequestsInv
<1>7. RequestsOnce' /\ InClusters' = InClusters /\ InManager' = InManager /\ InWorkers' = InWorkers /\ InService' = InService
  BY <1>1 DEF RequestsInv, RequestsOnce, InClusters, InManager, InWorkers, InService
<1>8. InHands' = InHands \ {<<c, "workerHand", k>>} /\ <<c, "workerHand", k>> \in Places
  <2>1. \A d \in Clients, j \in Clusters : (workerHand'[j] # <<>> /\ workerHand'[j][1] = d) <=>
          (workerHand[j] # <<>> /\ workerHand[j][1] = d) /\ ~(d = c /\ j = k)
    BY <1>4
  <2>2. InHands' = InHands \ {<<c, "workerHand", k>>}
    BY <2>1 DEF InHands
  <2>3. <<c, "workerHand", k>> \in InHands
    BY <1>1, <1>2 DEF InHands
  <2>4. QED BY <2>2, <2>3 DEF Places
<1>9. InMembers' = InMembers \cup {<<c, "toMember", m>>}
  <2>1. \A d \in Clients, n \in Members : toMember'[n] = <<d>> <=> toMember[n] = <<d>> \/ (d = c /\ n = m)
    BY <1>2, <1>3, SlotFacts
  <2>2. QED BY <1>2, <2>1 DEF InMembers
<1>10. Places' = (Places \ {<<c, "workerHand", k>>}) \cup {<<c, "toMember", m>>}
  BY <1>7, <1>8, <1>9, PlaceKinds DEF Places
<1>11. PlacesInv'
  BY <1>1, <1>2, <1>8, <1>10, Moved DEF RequestsInv
<1>12. QED BY <1>5, <1>6, <1>7, <1>11 DEF RequestsInv

LEMMA MemberReceivesRequests ==
  ASSUME RequestsInv, NEW m \in Members, MemberReceives(m)
  PROVE  RequestsInv'
<1> DEFINE c == Head(toMember[m])
<1>1. /\ member[m] = "idle" /\ member' = [member EXCEPT ![m] = "connecting"] /\ toMember[m] # <<>>
      /\ serving' = [serving EXCEPT ![m] = c] /\ toMember' = [toMember EXCEPT ![m] = Tail(@)]
      /\ UNCHANGED <<state, toBuffers, toClusters, known, managerHand, toWorker, workerHand,
                     unavailable, toLoad, early>>
  BY DEF MemberReceives, MemberSteps
<1>2. /\ toMember \in [Members -> Slots] /\ serving \in [Members -> Clients \cup {Nobody}]
      /\ member \in [Members -> {"idle", "connecting", "waitBuffer", "granted", "session"}]
      /\ serving[m] = Nobody
  BY <1>1 DEF RequestsInv, Shapes
<1>3. /\ c \in Clients /\ c # Nobody /\ toMember[m] = <<c>> /\ toMember' \in [Members -> Slots] /\ toMember'[m] = <<>>
      /\ \A n \in Members \ {m} : toMember'[n] = toMember[n]
  <2>1. c \in Clients /\ toMember[m] = <<c>> /\ Tail(toMember[m]) = <<>>
    BY <1>1, <1>2, SlotFacts
  <2>2. toMember' = [toMember EXCEPT ![m] = <<>>]
    BY <1>1, <2>1
  <2>3. QED BY <1>2, <2>1, <2>2, SlotFacts, ClientsAssumption
<1>4. /\ serving' \in [Members -> Clients \cup {Nobody}] /\ serving'[m] = c
      /\ member' \in [Members -> {"idle", "connecting", "waitBuffer", "granted", "session"}] /\ member'[m] = "connecting"
      /\ \A n \in Members \ {m} : serving'[n] = serving[n] /\ member'[n] = member[n]
  BY <1>1, <1>2, <1>3
<1>5. Shapes'
  BY <1>1, <1>3, <1>4 DEF RequestsInv, Shapes
<1>6. AskersInv'
  BY <1>1, <1>4, AskersStay DEF RequestsInv
<1>7. RequestsOnce' /\ InClusters' = InClusters /\ InManager' = InManager /\ InWorkers' = InWorkers /\ InHands' = InHands
  BY <1>1 DEF RequestsInv, RequestsOnce, InClusters, InManager, InWorkers, InHands
<1>8. InMembers' = InMembers \ {<<c, "toMember", m>>} /\ <<c, "toMember", m>> \in Places
  <2>1. \A d \in Clients, n \in Members : toMember'[n] = <<d>> <=> toMember[n] = <<d>> /\ ~(d = c /\ n = m)
    BY <1>2, <1>3, SlotFacts
  <2>2. InMembers' = InMembers \ {<<c, "toMember", m>>}
    BY <2>1 DEF InMembers
  <2>3. <<c, "toMember", m>> \in InMembers
    BY <1>3 DEF InMembers
  <2>4. QED BY <2>2, <2>3 DEF Places
<1>9. InService' = InService \cup {<<c, "serving", m>>}
  <2>1. \A d \in Clients, n \in Members : (serving'[n] = d /\ member'[n] # "session") <=>
          (serving[n] = d /\ member[n] # "session") \/ (d = c /\ n = m)
    BY <1>1, <1>2, <1>4, ClientsAssumption
  <2>2. QED BY <1>3, <2>1 DEF InService
<1>10. Places' = (Places \ {<<c, "toMember", m>>}) \cup {<<c, "serving", m>>}
  BY <1>7, <1>8, <1>9, PlaceKinds DEF Places
<1>11. PlacesInv'
  BY <1>1, <1>3, <1>8, <1>10, Moved DEF RequestsInv
<1>12. QED BY <1>5, <1>6, <1>7, <1>11 DEF RequestsInv

\* A member answers somebody who waits.
LEMMA MemberAnswersRequests ==
  ASSUME RequestsInv, NEW m \in Members, ConnectFails(m) \/ SessionStarts(m)
  PROVE  /\ RequestsInv'
         /\ state[serving[m]] = "waitCluster" /\ serving[m] \in Clients
         /\ \E s \in {"noMember503", "relaying"} : state' = [state EXCEPT ![serving[m]] = s]
<1> DEFINE c == serving[m]
<1>1. /\ UNCHANGED <<toBuffers, toClusters, known, managerHand, toWorker, workerHand, toMember,
                     unavailable, toLoad, early>>
      /\ \/ /\ member[m] = "connecting" /\ member' = [member EXCEPT ![m] = "idle"]
            /\ serving' = [serving EXCEPT ![m] = Nobody] /\ state' = [state EXCEPT ![c] = "noMember503"]
         \/ /\ member[m] = "granted" /\ member' = [member EXCEPT ![m] = "session"]
            /\ UNCHANGED serving /\ state' = [state EXCEPT ![c] = "relaying"]
  BY DEF ConnectFails, SessionStarts, MemberSteps, Becomes
<1>2. /\ serving \in [Members -> Clients \cup {Nobody}] /\ state \in [Clients -> Waiting \cup Answered]
      /\ member \in [Members -> {"idle", "connecting", "waitBuffer", "granted", "session"}]
      /\ c \in Clients /\ c # Nobody
  BY <1>1, ClientsAssumption DEF RequestsInv, Shapes
<1>3. <<c, "serving", m>> \in Places /\ state[c] = "waitCluster"
  <2>1. <<c, "serving", m>> \in InService
    BY <1>1, <1>2 DEF InService
  <2>2. QED BY <1>2, <2>1 DEF Places, RequestsInv, PlacesInv
<1>4. PICK s \in {"noMember503", "relaying"} : state' = [state EXCEPT ![c] = s]
  BY <1>1
<1>5. state'[c] = s /\ s \in Answered /\ s # "waitCluster" /\ \A d \in Clients \ {c} : state'[d] = state[d]
  BY <1>2, <1>4 DEF Answered
<1>6. /\ serving' \in [Members -> Clients \cup {Nobody}]
      /\ member' \in [Members -> {"idle", "connecting", "waitBuffer", "granted", "session"}]
      /\ member'[m] = "idle" <=> serving'[m] = Nobody
      /\ member[m] # "waitBuffer" /\ (member'[m] = "session" \/ serving'[m] = Nobody)
      /\ \A n \in Members \ {m} : serving'[n] = serving[n] /\ member'[n] = member[n]
  BY <1>1, <1>2
<1>7. state' \in [Clients -> Waiting \cup Answered]
  BY <1>2, <1>4, <1>5
<1>8. Shapes'
  BY <1>1, <1>6, <1>7 DEF RequestsInv, Shapes
<1>9. AskersInv'
  BY <1>1, <1>3, <1>5, <1>6, AskersStay DEF RequestsInv
<1>10. RequestsOnce' /\ InClusters' = InClusters /\ InManager' = InManager /\ InWorkers' = InWorkers
       /\ InHands' = InHands /\ InMembers' = InMembers
  BY <1>1 DEF RequestsInv, RequestsOnce, InClusters, InManager, InWorkers, InHands, InMembers
<1>11. InService' = InService \ {<<c, "serving", m>>}
  <2>1. \A d \in Clients, n \in Members : (serving'[n] = d /\ member'[n] # "session") <=>
          (serving[n] = d /\ member[n] # "session") /\ ~(d = c /\ n = m)
    BY <1>6, ClientsAssumption
  <2>2. QED BY <2>1 DEF InService
<1>12. Places' = Places \ {<<c, "serving", m>>}
  BY <1>10, <1>11, PlaceKinds DEF Places
<1>13. PlacesInv'
  BY <1>2, <1>3, <1>5, <1>12, Left DEF RequestsInv
<1>14. QED BY <1>2, <1>3, <1>4, <1>8, <1>9, <1>10, <1>13 DEF RequestsInv

LEMMA ConnectsRequests ==
  ASSUME RequestsInv, NEW m \in Members, Connects(m)
  PROVE  RequestsInv'
<1>1. /\ member[m] = "connecting" /\ member' = [member EXCEPT ![m] = "waitBuffer"] /\ Len(toBuffers) < ManagerCap
      /\ toBuffers' = Append(toBuffers, MemberOf(m))
      /\ UNCHANGED <<state, toClusters, known, managerHand, toWorker, workerHand, toMember, serving,
                     unavailable, toLoad, early>>
  BY DEF Connects, MemberSteps, MemberOf
<1>2. member \in [Members -> {"idle", "connecting", "waitBuffer", "granted", "session"}]
  BY DEF RequestsInv, Shapes
<1>3. /\ member' \in [Members -> {"idle", "connecting", "waitBuffer", "granted", "session"}]
      /\ member'[m] = "waitBuffer" /\ \A n \in Members \ {m} : member'[n] = member[n]
  BY <1>1, <1>2
<1>4. MemberOf(m) \in ToBuffers /\ MemberOf(m).type = "member" /\ MemberOf(m).member = m
  BY BufferMessages
<1>5. Shapes'
  <2>1. toBuffers' \in Seq(ToBuffers) /\ Len(toBuffers') <= ManagerCap
    BY <1>1, <1>4, Appended, CapAssumption DEF RequestsInv, Shapes
  <2>2. \A n \in Members : member'[n] = "idle" <=> member[n] = "idle"
    BY <1>1, <1>3
  <2>3. QED BY <1>1, <1>3, <2>1, <2>2 DEF RequestsInv, Shapes
<1>6. AskersInv'
  BY <1>1, <1>3, <1>4, AskersGrow DEF RequestsInv
<1>7. RequestsOnce' /\ InClusters' = InClusters /\ InManager' = InManager /\ InWorkers' = InWorkers
      /\ InHands' = InHands /\ InMembers' = InMembers
  BY <1>1 DEF RequestsInv, RequestsOnce, InClusters, InManager, InWorkers, InHands, InMembers
<1>8. InService' = InService
  <2>1. \A n \in Members : member'[n] = "session" <=> member[n] = "session"
    BY <1>1, <1>3
  <2>2. QED BY <1>1, <2>1 DEF InService
<1>9. PlacesInv'
  BY <1>1, <1>7, <1>8, Stayed DEF RequestsInv, Places
<1>10. QED BY <1>5, <1>6, <1>7, <1>9 DEF RequestsInv

LEMMA SessionEndsRequests ==
  ASSUME RequestsInv, NEW m \in Members, SessionEnds(m)
  PROVE  RequestsInv'
<1>1. /\ member[m] = "session" /\ member' = [member EXCEPT ![m] = "idle"] /\ serving' = [serving EXCEPT ![m] = Nobody]
      /\ UNCHANGED <<state, toBuffers, toClusters, known, managerHand, toWorker, workerHand, toMember,
                     unavailable, toLoad, early>>
  BY DEF SessionEnds, MemberSteps
<1>2. /\ serving \in [Members -> Clients \cup {Nobody}]
      /\ member \in [Members -> {"idle", "connecting", "waitBuffer", "granted", "session"}]
  BY DEF RequestsInv, Shapes
<1>3. /\ serving' \in [Members -> Clients \cup {Nobody}] /\ serving'[m] = Nobody
      /\ member' \in [Members -> {"idle", "connecting", "waitBuffer", "granted", "session"}] /\ member'[m] = "idle"
      /\ \A n \in Members \ {m} : serving'[n] = serving[n] /\ member'[n] = member[n]
  BY <1>1, <1>2
<1>4. Shapes'
  BY <1>1, <1>3 DEF RequestsInv, Shapes
<1>5. AskersInv'
  BY <1>1, <1>3, AskersStay DEF RequestsInv
<1>6. RequestsOnce' /\ InClusters' = InClusters /\ InManager' = InManager /\ InWorkers' = InWorkers
      /\ InHands' = InHands /\ InMembers' = InMembers
  BY <1>1 DEF RequestsInv, RequestsOnce, InClusters, InManager, InWorkers, InHands, InMembers
<1>7. InService' = InService
  <2>1. \A d \in Clients, n \in Members : (serving'[n] = d /\ member'[n] # "session") <=>
          (serving[n] = d /\ member[n] # "session")
    BY <1>1, <1>3, ClientsAssumption
  <2>2. QED BY <2>1 DEF InService
<1>8. PlacesInv'
  BY <1>1, <1>6, <1>7, Stayed DEF RequestsInv, Places
<1>9. QED BY <1>4, <1>5, <1>6, <1>8 DEF RequestsInv

\* Steps that leave the requests alone.
LEMMA RestRequests ==
  ASSUME RequestsInv, unavailable' \subseteq Members,
         UNCHANGED <<state, toBuffers, toClusters, known, managerHand, toWorker, workerHand, toMember,
                     member, serving, toLoad, early>>
  PROVE  RequestsInv'
<1>1. Shapes' /\ RequestsOnce'
  BY DEF RequestsInv, Shapes, RequestsOnce
<1>2. AskersInv'
  BY AskersStay DEF RequestsInv
<1>3. Places' = Places
  BY DEF Places, InClusters, InManager, InWorkers, InHands, InMembers, InService
<1>4. PlacesInv'
  BY <1>3, Stayed DEF RequestsInv
<1>5. QED BY <1>1, <1>2, <1>4 DEF RequestsInv

LEMMA NextRequests == RequestsInv /\ [Next]_vars => RequestsInv'
<1> SUFFICES ASSUME RequestsInv, [Next]_vars PROVE RequestsInv'
  OBVIOUS
<1>1. CASE Load
  BY <1>1, LoadLimitRequests, LoadClusterRequests DEF Load
<1>2. CASE BufferStep
  BY <1>2, BufferStepRequests
<1>3. CASE ManagerStep
  BY <1>3, ManagerConfiguresRequests, ManagerReceivesRequests, ManagerSendsRequests DEF ManagerStep
<1>4. ASSUME NEW c \in Clients, ClientStep(c) PROVE RequestsInv'
  BY <1>4, AskBufferRequests, AskClusterRequests DEF ClientStep
<1>5. ASSUME NEW k \in Clusters, WorkerStep(k) PROVE RequestsInv'
  BY <1>5, WorkerReceivesRequests, WorkerSendsRequests DEF WorkerStep
<1>6. ASSUME NEW m \in Members, MemberStep(m) PROVE RequestsInv'
  BY <1>6, MemberReceivesRequests, MemberAnswersRequests, ConnectsRequests DEF MemberStep
<1>7. ASSUME NEW m \in Members, SessionEnds(m) PROVE RequestsInv'
  BY <1>7, SessionEndsRequests
<1>8. ASSUME NEW m \in Members, GivenUp(m) PROVE RequestsInv'
  <2>1. unavailable' \subseteq Members
    BY <1>8 DEF GivenUp, RequestsInv, Shapes
  <2>2. QED BY <1>8, <2>1, RestRequests DEF GivenUp
<1>9. CASE UNCHANGED vars
  <2>1. unavailable' \subseteq Members
    BY <1>9 DEF vars, backend, RequestsInv, Shapes
  <2>2. QED BY <1>9, <2>1, RestRequests DEF vars, backend
<1>10. QED BY <1>1, <1>2, <1>3, <1>4, <1>5, <1>6, <1>7, <1>8, <1>9 DEF Next

-------------------------------------------------------------------------------
\* The order of announcements and requests.
LEMMA LoadClusterAhead ==
  ASSUME RequestsInv, AheadInv, LoadCluster
  PROVE  AheadInv'
<1> DEFINE k == Head(toLoad)
<1>1. /\ toLoad # <<>> /\ k # "limit" /\ toLoad' = Tail(toLoad)
      /\ toClusters' = Append(toClusters, ConfigOf(k)) /\ UNCHANGED <<known, early>>
  BY DEF LoadCluster, ConfigOf
<1>2. /\ k \in Clusters /\ DOMAIN toLoad = 1..Len(toLoad) /\ Len(toLoad) \in Nat
      /\ \A i \in DOMAIN toLoad : i = 1 \/ (i - 1 \in DOMAIN toLoad' /\ toLoad'[i - 1] = toLoad[i])
      /\ toLoad[1] = k
  BY <1>1, Received DEF RequestsInv, Shapes
<1>3. ConfigOf(k) \in ToClusters /\ \A c \in Clients : ConfigOf(k) # RequestOf(c)
  BY <1>2, Messages
<1>4. /\ Len(toClusters) \in Nat /\ DOMAIN toClusters = 1..Len(toClusters)
      /\ DOMAIN toClusters' = 1..(Len(toClusters) + 1)
      /\ \A i \in 1..Len(toClusters) : toClusters'[i] = toClusters[i]
      /\ toClusters'[Len(toClusters) + 1] = ConfigOf(k)
  BY <1>1, <1>3, Appended DEF RequestsInv, Shapes
<1>5. /\ \A i \in DOMAIN toClusters : i \in DOMAIN toClusters' /\ toClusters'[i] = toClusters[i]
      /\ \A i \in DOMAIN toClusters' : i \in DOMAIN toClusters \/ toClusters'[i] = ConfigOf(k)
      /\ \E i \in DOMAIN toClusters' : toClusters'[i] = ConfigOf(k)
  BY <1>4
<1>6. ASSUME NEW j \in Clusters
      PROVE  \/ j \in known' \/ \E i \in DOMAIN toLoad' : toLoad'[i] = j
             \/ \E i \in DOMAIN toClusters' : toClusters'[i] = ConfigOf(j)
  <2>1. CASE j \in known \/ \E i \in DOMAIN toClusters : toClusters[i] = ConfigOf(j)
    BY <1>1, <1>5, <2>1
  <2>2. CASE \E i \in DOMAIN toLoad : toLoad[i] = j
    <3>1. PICK i \in DOMAIN toLoad : toLoad[i] = j
      BY <2>2
    <3>2. CASE i = 1
      BY <1>2, <1>5, <3>1, <3>2
    <3>3. CASE i # 1
      <4>1. i - 1 \in DOMAIN toLoad' /\ toLoad'[i - 1] = j
        BY <1>2, <3>1, <3>3
      <4>2. QED BY <4>1
    <3>4. QED BY <3>2, <3>3
  <2>3. QED BY <2>1, <2>2 DEF AheadInv
<1>7. \A c \in Clients \ early' : \A j \in DOMAIN toClusters' :
        toClusters'[j] = RequestOf(c) /\ Target[c] \in Clusters =>
          \/ Target[c] \in known'
          \/ \E i \in DOMAIN toClusters' : i < j /\ toClusters'[i] = ConfigOf(Target[c])
  BY <1>1, <1>3, <1>5 DEF AheadInv
<1>8. QED BY <1>6, <1>7 DEF AheadInv

LEMMA LoadLimitAhead ==
  ASSUME RequestsInv, AheadInv, LoadLimit
  PROVE  AheadInv'
<1>1. toLoad # <<>> /\ Head(toLoad) = "limit" /\ toLoad' = Tail(toLoad) /\ UNCHANGED <<toClusters, known, early>>
  BY DEF LoadLimit
<1>2. \A i \in DOMAIN toLoad : toLoad[i] = "limit" \/ (i - 1 \in DOMAIN toLoad' /\ toLoad'[i - 1] = toLoad[i])
  BY <1>1, Received DEF RequestsInv, Shapes
<1>3. QED BY <1>1, <1>2, ClustersAssumption DEF AheadInv

\* A request that is not early comes after the announcement of its cluster.
LEMMA AskClusterAhead ==
  ASSUME RequestsInv, AheadInv, NEW c \in Clients, AskCluster(c)
  PROVE  AheadInv'
<1>1. /\ state[c] = "granted" /\ toClusters' = Append(toClusters, RequestOf(c)) /\ UNCHANGED <<known, toLoad>>
      /\ early \subseteq early' /\ (c \notin early' => ~\E i \in DOMAIN toLoad : toLoad[i] = Target[c])
  BY DEF AskCluster, RequestOf
<1>2. RequestOf(c) \in ToClusters /\ (\A d \in Clients : RequestOf(c) = RequestOf(d) => d = c)
      /\ \A k \in Clusters : ConfigOf(k) # RequestOf(c)
  BY Messages
<1>3. /\ Len(toClusters) \in Nat /\ DOMAIN toClusters = 1..Len(toClusters)
      /\ DOMAIN toClusters' = 1..(Len(toClusters) + 1)
      /\ \A i \in 1..Len(toClusters) : toClusters'[i] = toClusters[i]
      /\ toClusters'[Len(toClusters) + 1] = RequestOf(c)
  BY <1>1, <1>2, Appended DEF RequestsInv, Shapes
<1>4. /\ \A i \in DOMAIN toClusters : i \in DOMAIN toClusters' /\ toClusters'[i] = toClusters[i]
      /\ \A j \in DOMAIN toClusters' :
           j \in DOMAIN toClusters \/ (toClusters'[j] = RequestOf(c) /\ \A i \in DOMAIN toClusters : i < j)
  BY <1>3
<1>5. \A k \in Clusters : \/ k \in known' \/ \E i \in DOMAIN toLoad' : toLoad'[i] = k
                        \/ \E i \in DOMAIN toClusters' : toClusters'[i] = ConfigOf(k)
  BY <1>1, <1>4 DEF AheadInv
<1>6. ASSUME NEW d \in Clients \ early', NEW j \in DOMAIN toClusters',
             toClusters'[j] = RequestOf(d), Target[d] \in Clusters
      PROVE  \/ Target[d] \in known'
             \/ \E i \in DOMAIN toClusters' : i < j /\ toClusters'[i] = ConfigOf(Target[d])
  <2>1. CASE j \in DOMAIN toClusters
    BY <1>1, <1>4, <1>6, <2>1 DEF AheadInv
  <2>2. CASE toClusters'[j] = RequestOf(c) /\ \A i \in DOMAIN toClusters : i < j
    <3>1. d = c
      BY <1>2, <1>6, <2>2
    <3>2. Target[d] \in known \/ \E i \in DOMAIN toClusters : toClusters[i] = ConfigOf(Target[d])
      BY <1>1, <1>6, <3>1 DEF AheadInv
    <3>3. QED BY <1>1, <1>4, <2>2, <3>2
  <2>3. QED BY <1>4, <2>1, <2>2
<1>7. QED BY <1>5, <1>6 DEF AheadInv

LEMMA ManagerAhead ==
  ASSUME RequestsInv, AheadInv, ManagerConfigures \/ ManagerReceives
  PROVE  AheadInv'
<1>1. /\ toClusters # <<>> /\ toClusters' = Tail(toClusters) /\ UNCHANGED <<toLoad, early>>
      /\ \/ Head(toClusters).type = "config" /\ known' = known \cup {Head(toClusters).cluster}
         \/ Head(toClusters).type = "request" /\ known' = known
  BY DEF ManagerConfigures, ManagerReceives
<1>2. /\ Len(toClusters) \in Nat /\ Len(toClusters) >= 1 /\ DOMAIN toClusters = 1..Len(toClusters)
      /\ DOMAIN toClusters' = 1..(Len(toClusters) - 1)
      /\ \A i \in 1..(Len(toClusters) - 1) : toClusters'[i] = toClusters[i + 1]
      /\ Head(toClusters) = toClusters[1] /\ Head(toClusters) \in ToClusters
  BY <1>1, Received DEF RequestsInv, Shapes
<1>3. /\ \A i \in DOMAIN toClusters' : i \in Nat /\ i + 1 \in DOMAIN toClusters /\ toClusters'[i] = toClusters[i + 1]
      /\ \A i \in DOMAIN toClusters : i = 1 \/ (i - 1 \in DOMAIN toClusters' /\ toClusters'[i - 1] = toClusters[i])
      /\ \A i \in DOMAIN toClusters : i \in Nat /\ (i - 1) + 1 = i
  BY <1>2
<1>4. known \subseteq known' /\ \A k \in Clusters : toClusters[1] = ConfigOf(k) => k \in known'
  BY <1>1, <1>2, Messages
<1>5. ASSUME NEW k \in Clusters
      PROVE  \/ k \in known' \/ \E i \in DOMAIN toLoad' : toLoad'[i] = k
             \/ \E i \in DOMAIN toClusters' : toClusters'[i] = ConfigOf(k)
  <2>1. CASE k \in known
    BY <1>4, <2>1
  <2>2. CASE \E i \in DOMAIN toLoad : toLoad[i] = k
    BY <1>1, <2>2
  <2>3. CASE \E i \in DOMAIN toClusters : toClusters[i] = ConfigOf(k)
    <3>1. PICK i \in DOMAIN toClusters : toClusters[i] = ConfigOf(k)
      BY <2>3
    <3>2. CASE i = 1
      BY <1>4, <3>1, <3>2
    <3>3. CASE i # 1
      <4>1. i - 1 \in DOMAIN toClusters' /\ toClusters'[i - 1] = ConfigOf(k)
        BY <1>3, <3>1, <3>3
      <4>2. QED BY <4>1
    <3>4. QED BY <3>2, <3>3
  <2>4. QED BY <2>1, <2>2, <2>3 DEF AheadInv
<1>6. ASSUME NEW d \in Clients \ early', NEW j \in DOMAIN toClusters',
             toClusters'[j] = RequestOf(d), Target[d] \in Clusters, Target[d] \notin known'
      PROVE  \E i \in DOMAIN toClusters' : i < j /\ toClusters'[i] = ConfigOf(Target[d])
  <2>1. PICK i \in DOMAIN toClusters : i < j + 1 /\ toClusters[i] = ConfigOf(Target[d])
    BY <1>1, <1>3, <1>4, <1>6 DEF AheadInv
  <2>2. i # 1
    BY <1>4, <1>6, <2>1
  <2>3. i - 1 \in DOMAIN toClusters' /\ toClusters'[i - 1] = ConfigOf(Target[d]) /\ i - 1 < j
    BY <1>3, <2>1, <2>2
  <2>4. QED BY <2>3
<1>7. QED BY <1>5, <1>6 DEF AheadInv

LEMMA AheadStays ==
  ASSUME AheadInv, UNCHANGED <<toLoad, toClusters, known, early>>
  PROVE  AheadInv'
BY DEF AheadInv

\* 404 is given only to a request whose cluster is not known: one that is not early
\* would have found it.
LEMMA ReceivesAhead ==
  ASSUME RequestsInv, AheadInv, NotFoundOnlyWhileStarting, ManagerReceives
  PROVE  NotFoundOnlyWhileStarting'
<1>1. UNCHANGED early /\ toClusters # <<>> /\ state \in [Clients -> Waiting \cup Answered]
  BY DEF ManagerReceives, RequestsInv, Shapes
<1>2. PICK c \in Clients : /\ Head(toClusters) = RequestOf(c)
                           /\ \/ UNCHANGED state
                              \/ state' = [state EXCEPT ![c] = "notFound404"] /\ Target[c] \notin known
  BY ManagerReceivesRequests
<1>3. /\ toClusters[1] = RequestOf(c) /\ 1 \in DOMAIN toClusters
      /\ \A i \in DOMAIN toClusters : ~(i < 1)
  BY <1>1, <1>2, Received DEF RequestsInv, Shapes
<1>4. c \notin early /\ Target[c] \in Clusters => Target[c] \in known
  BY <1>3 DEF AheadInv
<1>5. \A d \in Clients : state'[d] = state[d] \/ (d = c /\ Target[c] \notin known)
  BY <1>1, <1>2
<1>6. QED BY <1>1, <1>4, <1>5 DEF NotFoundOnlyWhileStarting

-------------------------------------------------------------------------------
\* What the steps of the tasks other than the buffer manager do to the connections: they
\* ask, or are answered after they waited for a backend.
LEMMA StateSteps ==
  ASSUME RequestsInv,
         \/ Load \/ ManagerStep \/ UNCHANGED vars
         \/ \E c \in Clients : ClientStep(c)
         \/ \E k \in Clusters : WorkerStep(k)
         \/ \E m \in Members : MemberStep(m) \/ SessionEnds(m) \/ GivenUp(m)
  PROVE  /\ UNCHANGED books
         /\ \A c \in Clients :
              \/ state'[c] = state[c]
              \/ state[c] = "idle" /\ state'[c] = "waitBuffer"
              \/ state'[c] \in {"waitCluster", "notFound404", "dropped", "noMember503", "relaying"}
         /\ ~ManagerReceives => \A c \in Clients : state'[c] = "notFound404" => state[c] = "notFound404"
<1>1. state \in [Clients -> Waiting \cup Answered]
  BY DEF RequestsInv, Shapes
<1>2. CASE Load \/ UNCHANGED vars
  BY <1>2 DEF Load, LoadLimit, LoadCluster, vars
<1>3. CASE ManagerStep
  <2>1. UNCHANGED books
    BY <1>3 DEF ManagerStep, ManagerConfigures, ManagerReceives, ManagerSends
  <2>2. CASE ManagerReceives
    <3>1. PICK c \in Clients : UNCHANGED state \/ state' = [state EXCEPT ![c] = "notFound404"]
      BY <2>2, ManagerReceivesRequests
    <3>2. QED BY <1>1, <2>1, <2>2, <3>1
  <2>3. CASE ~ManagerReceives
    BY <1>3, <2>1, <2>3 DEF ManagerStep, ManagerConfigures, ManagerSends
  <2>4. QED BY <2>2, <2>3
<1>4. ASSUME NEW c \in Clients, ClientStep(c)
      PROVE  /\ UNCHANGED books
             /\ \/ state[c] = "idle" /\ state' = [state EXCEPT ![c] = "waitBuffer"]
                \/ state' = [state EXCEPT ![c] = "waitCluster"]
  BY <1>4 DEF ClientStep, AskBuffer, AskCluster, Becomes
<1>5. ASSUME NEW k \in Clusters, WorkerStep(k)
      PROVE  UNCHANGED books /\ (UNCHANGED state \/ \E c \in Clients : state' = [state EXCEPT ![c] = "dropped"])
  <2>1. UNCHANGED books
    BY <1>5 DEF WorkerStep, WorkerReceives, WorkerSends
  <2>2. QED BY <1>5, <2>1, WorkerReceivesRequests DEF WorkerStep, WorkerSends
<1>6. ASSUME NEW m \in Members, MemberStep(m) \/ SessionEnds(m) \/ GivenUp(m)
      PROVE  /\ UNCHANGED books
             /\ UNCHANGED state \/ \E c \in Clients, s \in {"noMember503", "relaying"} : state' = [state EXCEPT ![c] = s]
  <2>1. UNCHANGED books
    BY <1>6 DEF MemberStep, MemberReceives, ConnectFails, Connects, SessionStarts, SessionEnds, GivenUp
  <2>2. CASE ConnectFails(m) \/ SessionStarts(m)
    BY <2>1, <2>2, MemberAnswersRequests
  <2>3. CASE ~(ConnectFails(m) \/ SessionStarts(m))
    BY <1>6, <2>1, <2>3 DEF MemberStep, MemberReceives, Connects, SessionEnds, GivenUp
  <2>4. QED BY <2>2, <2>3
<1>7. CASE \E c \in Clients : ClientStep(c)
  BY <1>1, <1>4, <1>7
<1>8. CASE \E k \in Clusters : WorkerStep(k)
  BY <1>1, <1>5, <1>8
<1>9. CASE \E m \in Members : MemberStep(m) \/ SessionEnds(m) \/ GivenUp(m)
  BY <1>1, <1>6, <1>9
<1>10. QED BY <1>2, <1>3, <1>7, <1>8, <1>9

\* A larger set of connections is not smaller.
LEMMA MoreGranted ==
  ASSUME Granted \subseteq Granted'
  PROVE  Cardinality(Granted) \in Nat /\ Cardinality(Granted') \in Nat
         /\ Cardinality(Granted) <= Cardinality(Granted')
<1>1. IsFiniteSet(Clients)
  BY ClientsAssumption
<1>2. Granted \subseteq Clients /\ Granted' \subseteq Clients
  BY DEF Granted
<1>3. IsFiniteSet(Granted) /\ IsFiniteSet(Granted')
  BY <1>1, <1>2, FS_Subset
<1>4. QED BY <1>3, FS_CardinalityType, FS_Subset

LEMMA GrantsStay ==
  ASSUME GrantsInv, UNCHANGED <<listeners, allocated_listeners>>, Buffers!ManagerTypeOK',
         Granted \subseteq Granted',
         \A c \in Clients : state'[c] = "overLimit503" => state[c] = "overLimit503"
  PROVE  GrantsInv'
<1>1. /\ Cardinality(Granted) \in Nat /\ Cardinality(Granted') \in Nat
      /\ Cardinality(Granted) <= Cardinality(Granted')
  BY MoreGranted
<1>2. /\ allocated_listeners[Listener] \in Nat \cup {Buffers!NoEntry} /\ Buffers!NoEntry = -1
      /\ Limit \in Nat
  BY CapAssumption DEF GrantsInv, Buffers!ManagerTypeOK, Buffers!NoEntry
<1>3. RefusedOnlyWhenSpent <=> \A c \in Clients : state[c] = "overLimit503" => Cardinality(Granted) >= Limit - 1
  BY DEF RefusedOnlyWhenSpent, Granted
<1>4. RefusedOnlyWhenSpent' <=> \A c \in Clients : state'[c] = "overLimit503" => Cardinality(Granted') >= Limit - 1
  BY DEF RefusedOnlyWhenSpent, Granted
<1>5. RefusedOnlyWhenSpent'
  BY <1>1, <1>2, <1>3, <1>4 DEF GrantsInv
<1>6. allocated_listeners'[Listener] # Buffers!NoEntry => allocated_listeners'[Listener] <= Cardinality(Granted')
  BY <1>1, <1>2 DEF GrantsInv
<1>7. QED BY <1>5, <1>6 DEF GrantsInv, Buffers!NoEntry

\* The books stay books, whatever the buffer manager handles.
LEMMA BooksTypes ==
  ASSUME Buffers!ManagerTypeOK, BufferStep
  PROVE  Buffers!ManagerTypeOK'
<1>1. CASE HandleLimit
  BY <1>1, CapAssumption DEF HandleLimit, Buffers!ConfigUpdate, Buffers!ManagerTypeOK, Buffers!NoEntry
<1>2. CASE HandleListener
  BY <1>2 DEF HandleListener, Buffers!RequestListener, Buffers!GrantFirst, Buffers!GrantCounted,
    Buffers!GrantUncounted, Buffers!RefuseListener, Buffers!Refuses, Buffers!managerVars, Buffers!ManagerTypeOK, Buffers!NoEntry
<1>3. CASE HandleMember
  <2> DEFINE k == Target[serving[Head(toBuffers).member]]
             names == {Listener} \cup Clusters
  <2>1. /\ allocated_clusters' = [allocated_clusters EXCEPT ![k] = IF @ = Buffers!NoEntry THEN 1 ELSE @]
        /\ live' = [live EXCEPT ![k] = @ + 1]
        /\ UNCHANGED <<listeners, allocated_listeners, first, highest, uncounted>>
    BY <1>3 DEF HandleMember, Buffers!RequestCluster
  <2>2. /\ allocated_clusters \in [Clusters -> Nat \cup {Buffers!NoEntry}]
        /\ live \in [names -> Nat] /\ \A n \in Nat : n + 1 \in Nat
    BY DEF Buffers!ManagerTypeOK
  <2> HIDE DEF k, names
  <2>3. allocated_clusters' \in [Clusters -> Nat \cup {Buffers!NoEntry}]
    BY <2>1, <2>2
  <2>4. live' \in [names -> Nat]
    BY <2>1, <2>2
  <2>5. QED BY <2>1, <2>3, <2>4 DEF names, Buffers!ManagerTypeOK, Buffers!NoEntry
<1>4. QED BY <1>1, <1>2, <1>3 DEF BufferStep

LEMMA BufferStepGrants ==
  ASSUME RequestsInv, GrantsInv, BufferStep
  PROVE  /\ GrantsInv'
         /\ \A c \in Clients : state'[c] = "notFound404" => state[c] = "notFound404"
<1>1. Buffers!ManagerTypeOK' /\ Buffers!ManagerTypeOK
  BY BooksTypes DEF GrantsInv
<1>2. /\ state \in [Clients -> Waiting \cup Answered] /\ Head(toBuffers) \in ToBuffers
      /\ toBuffers[1] = Head(toBuffers) /\ 1 \in DOMAIN toBuffers
  BY Received DEF RequestsInv, Shapes, BufferStep, HandleLimit, HandleListener, HandleMember
<1>3. CASE HandleLimit
  <2>1. UNCHANGED <<state, allocated_listeners>> /\ listeners'[Listener] = Limit
    BY <1>1, <1>3 DEF HandleLimit, Buffers!ConfigUpdate, Buffers!ManagerTypeOK
  <2>2. QED BY <1>1, <2>1 DEF GrantsInv, Granted, RefusedOnlyWhenSpent, Buffers!NoEntry
<1>4. CASE HandleMember
  <2>1. UNCHANGED <<state, listeners, allocated_listeners>>
    BY <1>4 DEF HandleMember, Buffers!RequestCluster
  <2>2. Granted \subseteq Granted'
    BY <2>1 DEF Granted
  <2>3. QED BY <1>1, <2>1, <2>2, GrantsStay
<1>5. CASE HandleListener
  <2> DEFINE c == Head(toBuffers).client
             answer == IF Buffers!Refuses(Listener, 1) THEN "overLimit503" ELSE "granted"
  <2>1. /\ c \in Clients /\ state[c] = "waitBuffer" /\ state' = [state EXCEPT ![c] = answer]
        /\ Buffers!RequestListener(Listener, 1)
    BY <1>2, <1>5, BufferMessages DEF HandleListener, Becomes, RequestsInv, AskersInv
  <2>2. state'[c] = answer /\ (\A d \in Clients \ {c} : state'[d] = state[d]) /\ c \notin Granted
        /\ answer # "notFound404"
    BY <1>2, <2>1 DEF Granted
  <2>3. Granted \subseteq Granted'
    BY <2>1, <2>2 DEF Granted
  <2>4. /\ allocated_listeners[Listener] \in Nat \cup {-1} /\ listeners[Listener] \in Nat /\ Limit \in Nat
        /\ Cardinality(Granted) \in Nat /\ Cardinality(Granted') \in Nat
        /\ Cardinality(Granted) <= Cardinality(Granted') /\ Buffers!NoEntry = -1
    BY <1>1, <2>3, MoreGranted, CapAssumption DEF Buffers!ManagerTypeOK, Buffers!NoEntry
  <2>5. RefusedOnlyWhenSpent <=> \A d \in Clients : state[d] = "overLimit503" => Cardinality(Granted) >= Limit - 1
    BY DEF RefusedOnlyWhenSpent, Granted
  <2>6. RefusedOnlyWhenSpent' <=> \A d \in Clients : state'[d] = "overLimit503" => Cardinality(Granted') >= Limit - 1
    BY DEF RefusedOnlyWhenSpent, Granted
  <2>7. CASE Buffers!Refuses(Listener, 1)
    <3>1. /\ allocated_listeners[Listener] # -1 /\ listeners[Listener] # 0
          /\ allocated_listeners[Listener] + 1 >= listeners[Listener]
          /\ UNCHANGED <<listeners, allocated_listeners>>
      BY <1>1, <2>1, <2>4, <2>7 DEF Buffers!Refuses, Buffers!RequestListener, Buffers!GrantFirst, Buffers!GrantCounted,
        Buffers!GrantUncounted, Buffers!RefuseListener, Buffers!managerVars, Buffers!ManagerTypeOK
    <3>2. listeners[Listener] = Limit /\ allocated_listeners[Listener] <= Cardinality(Granted)
      BY <2>4, <3>1 DEF GrantsInv
    <3>3. Cardinality(Granted) >= Limit - 1 /\ Cardinality(Granted') >= Limit - 1
      BY <2>4, <3>1, <3>2
    <3>4. RefusedOnlyWhenSpent'
      BY <2>6, <3>3
    <3>5. allocated_listeners'[Listener] <= Cardinality(Granted')
      BY <2>4, <3>1, <3>2
    <3>6. QED BY <1>1, <2>2, <3>1, <3>4, <3>5 DEF GrantsInv, Buffers!NoEntry
  <2>8. CASE ~Buffers!Refuses(Listener, 1)
    <3>1. Granted' = Granted \cup {c} /\ answer = "granted"
      BY <1>2, <2>1, <2>2, <2>8 DEF Granted
    <3>2. Cardinality(Granted') = Cardinality(Granted) + 1
      <4>1. Granted \subseteq Clients
        BY DEF Granted
      <4>2. IsFiniteSet(Granted)
        BY <4>1, ClientsAssumption, FS_Subset
      <4>3. QED BY <2>2, <3>1, <4>2, FS_AddElement
    <3>3. /\ UNCHANGED listeners
          /\ \/ allocated_listeners[Listener] = -1 /\ allocated_listeners'[Listener] = 1
             \/ allocated_listeners[Listener] # -1 /\ allocated_listeners'[Listener] = allocated_listeners[Listener] + 1
             \/ UNCHANGED allocated_listeners
      BY <1>1, <2>1, <2>4, <2>8 DEF Buffers!Refuses, Buffers!RequestListener, Buffers!GrantFirst, Buffers!GrantCounted,
        Buffers!GrantUncounted, Buffers!RefuseListener, Buffers!ManagerTypeOK
    <3>4. allocated_listeners[Listener] # -1 => allocated_listeners[Listener] <= Cardinality(Granted)
      BY <2>4 DEF GrantsInv
    <3>5. allocated_listeners'[Listener] # -1 => allocated_listeners'[Listener] <= Cardinality(Granted')
      BY <2>4, <3>2, <3>3, <3>4
    <3>6. RefusedOnlyWhenSpent'
      <4>1. ASSUME NEW d \in Clients, state'[d] = "overLimit503"
            PROVE  Cardinality(Granted') >= Limit - 1
        <5>1. d # c /\ state[d] = "overLimit503"
          BY <2>2, <3>1, <4>1
        <5>2. RefusedOnlyWhenSpent
          BY DEF GrantsInv
        <5>3. Cardinality(Granted) >= Limit - 1
          BY <2>5, <5>1, <5>2
        <5>4. QED BY <2>4, <5>3
      <4>2. QED BY <2>6, <4>1
    <3>7. QED BY <1>1, <2>2, <3>1, <3>3, <3>5, <3>6 DEF GrantsInv, Buffers!NoEntry
  <2>9. QED BY <2>7, <2>8
<1>6. QED BY <1>3, <1>4, <1>5 DEF BufferStep

-------------------------------------------------------------------------------
LEMMA NextFlow == FlowInv /\ [Next]_vars => FlowInv'
<1> SUFFICES ASSUME FlowInv, [Next]_vars PROVE FlowInv'
  OBVIOUS
<1>1. RequestsInv' /\ RequestsInv /\ AheadInv /\ NotFoundOnlyWhileStarting /\ GrantsInv
  BY NextRequests DEF FlowInv
<1>2. CASE BufferStep
  <2>1. UNCHANGED <<toLoad, toClusters, known, early>>
    BY <1>2 DEF BufferStep, HandleLimit, HandleListener, HandleMember
  <2>2. GrantsInv' /\ \A c \in Clients : state'[c] = "notFound404" => state[c] = "notFound404"
    BY <1>1, <1>2, BufferStepGrants
  <2>3. NotFoundOnlyWhileStarting'
    BY <1>1, <2>1, <2>2 DEF NotFoundOnlyWhileStarting
  <2>4. QED BY <1>1, <2>1, <2>2, <2>3, AheadStays DEF FlowInv
<1>3. CASE \/ Load \/ ManagerStep \/ UNCHANGED vars
           \/ \E c \in Clients : ClientStep(c)
           \/ \E k \in Clusters : WorkerStep(k)
           \/ \E m \in Members : MemberStep(m) \/ SessionEnds(m) \/ GivenUp(m)
  <2>1. /\ UNCHANGED books
        /\ \A c \in Clients :
             \/ state'[c] = state[c]
             \/ state[c] = "idle" /\ state'[c] = "waitBuffer"
             \/ state'[c] \in {"waitCluster", "notFound404", "dropped", "noMember503", "relaying"}
        /\ ~ManagerReceives => \A c \in Clients : state'[c] = "notFound404" => state[c] = "notFound404"
    BY <1>1, <1>3, StateSteps
  <2>2. Granted \subseteq Granted' /\ \A c \in Clients : state'[c] = "overLimit503" => state[c] = "overLimit503"
    BY <2>1 DEF Granted
  <2>3. Buffers!ManagerTypeOK'
    BY <1>1, <2>1 DEF GrantsInv, Buffers!ManagerTypeOK, Buffers!NoEntry, books
  <2>4. GrantsInv'
    BY <1>1, <2>1, <2>2, <2>3, GrantsStay DEF books
  <2>5. AheadInv'
    <3>1. CASE Load
      BY <1>1, <3>1, LoadLimitAhead, LoadClusterAhead DEF Load
    <3>2. CASE ManagerStep
      <4>1. CASE ManagerSends
        BY <1>1, <4>1, AheadStays DEF ManagerSends
      <4>2. QED BY <1>1, <3>2, <4>1, ManagerAhead DEF ManagerStep
    <3>3. CASE UNCHANGED vars
      BY <1>1, <3>3, AheadStays DEF vars
    <3>4. ASSUME NEW c \in Clients, ClientStep(c) PROVE AheadInv'
      <4>1. CASE AskBuffer(c)
        BY <1>1, <4>1, AheadStays DEF AskBuffer
      <4>2. QED BY <1>1, <3>4, <4>1, AskClusterAhead DEF ClientStep
    <3>5. ASSUME NEW k \in Clusters, WorkerStep(k) PROVE AheadInv'
      BY <1>1, <3>5, AheadStays DEF WorkerStep, WorkerReceives, WorkerSends
    <3>6. ASSUME NEW m \in Members, MemberStep(m) \/ SessionEnds(m) \/ GivenUp(m) PROVE AheadInv'
      BY <1>1, <3>6, AheadStays DEF MemberStep, MemberReceives, ConnectFails, Connects, SessionStarts, SessionEnds, GivenUp
    <3>7. QED BY <1>3, <3>1, <3>2, <3>3, <3>4, <3>5, <3>6
  <2>6. NotFoundOnlyWhileStarting'
    <3>1. CASE ManagerReceives
      BY <1>1, <3>1, ReceivesAhead
    <3>2. CASE ~ManagerReceives
      <4>1. early \subseteq early'
        <5>1. CASE Load \/ ManagerStep \/ UNCHANGED vars
          BY <5>1 DEF Load, LoadLimit, LoadCluster, ManagerStep, ManagerConfigures, ManagerReceives, ManagerSends, vars
        <5>2. ASSUME NEW c \in Clients, ClientStep(c) PROVE early \subseteq early'
          BY <5>2 DEF ClientStep, AskBuffer, AskCluster
        <5>3. ASSUME NEW k \in Clusters, WorkerStep(k) PROVE early \subseteq early'
          BY <5>3 DEF WorkerStep, WorkerReceives, WorkerSends
        <5>4. ASSUME NEW m \in Members, MemberStep(m) \/ SessionEnds(m) \/ GivenUp(m) PROVE early \subseteq early'
          BY <5>4 DEF MemberStep, MemberReceives, ConnectFails, Connects, SessionStarts, SessionEnds, GivenUp
        <5>5. QED BY <1>3, <5>1, <5>2, <5>3, <5>4
      <4>2. QED BY <1>1, <2>1, <3>2, <4>1 DEF NotFoundOnlyWhileStarting
    <3>3. QED BY <3>1, <3>2
  <2>7. QED BY <1>1, <2>4, <2>5, <2>6 DEF FlowInv
<1>4. QED BY <1>2, <1>3 DEF Next

\* The configuration manager has every cluster to announce.
LEMMA Listing ==
  ASSUME NEW ks \in SetToSeqs(Clusters)
  PROVE  /\ ks \in Seq(Clusters) /\ Len(ks) \in Nat /\ DOMAIN ks = 1..Len(ks)
         /\ \A k \in Clusters : \E i \in 1..Len(ks) : ks[i] = k
<1> DEFINE n == Cardinality(Clusters)
<1>1. n \in Nat /\ IsFiniteSet(Clusters)
  BY ClustersAssumption, FS_CardinalityType
<1>2. ks \in [1..n -> Clusters] /\ \A i, j \in 1..n : i # j => ks[i] # ks[j]
  BY DEF SetToSeqs
<1>3. ks \in Injection(1..n, Clusters)
  BY <1>2 DEF Injection, IsInjective
<1>4. Cardinality(1..n) = n
  BY <1>1, FS_Interval
<1>5. ks \in Surjection(1..n, Clusters)
  BY <1>1, <1>3, <1>4, FS_Injection
<1>6. ks \in Seq(Clusters) /\ Len(ks) = n /\ DOMAIN ks = 1..n
  BY <1>1, <1>2
<1>7. QED BY <1>1, <1>5, <1>6 DEF Surjection

LEMMA InitFlow == Init => FlowInv
<1> SUFFICES ASSUME Init PROVE FlowInv
  OBVIOUS
<1>1. PICK ks \in SetToSeqs(Clusters) : toLoad = <<"limit">> \o ks
  BY DEF Init
<1>2. /\ toLoad \in Seq(Clusters \cup {"limit"})
      /\ \A k \in Clusters : \E i \in DOMAIN toLoad : toLoad[i] = k
  <2>1. <<"limit">> \in Seq(Clusters \cup {"limit"}) /\ Len(<<"limit">>) = 1
    OBVIOUS
  <2>2. /\ ks \in Seq(Clusters) /\ Len(ks) \in Nat
        /\ \A k \in Clusters : \E i \in 1..Len(ks) : ks[i] = k
    BY Listing
  <2>3. ks \in Seq(Clusters \cup {"limit"})
    BY <2>2
  <2>4. /\ toLoad \in Seq(Clusters \cup {"limit"}) /\ DOMAIN toLoad = 1..(1 + Len(ks))
        /\ \A i \in 1..Len(ks) : toLoad[i + 1] = ks[i]
    BY <1>1, <2>1, <2>2, <2>3, ConcatProperties, LenProperties
  <2>5. \A i \in 1..Len(ks) : i + 1 \in DOMAIN toLoad
    BY <2>2, <2>4
  <2>6. QED BY <2>2, <2>4, <2>5
<1>3. /\ toBuffers = <<>> /\ toClusters = <<>> /\ Len(<<>>) = 0
      /\ <<>> \in Seq(ToBuffers) /\ <<>> \in Seq(ToClusters) /\ DOMAIN <<>> = {}
  BY EmptySeq DEF Init
<1>4. Shapes
  BY <1>2, <1>3, CapAssumption, SlotFacts DEF Init, Shapes, Waiting
<1>5. AskersInv /\ RequestsOnce
  BY <1>3 DEF AskersInv, RequestsOnce
<1>6. PlacesInv
  <2>1. InClusters = {} /\ InManager = {}
    BY <1>3, ClientsAssumption DEF InClusters, InManager, Init
  <2>2. InWorkers = {}
    BY SlotFacts DEF Init, InWorkers
  <2>3. InHands = {}
    BY DEF Init, InHands
  <2>4. InMembers = {}
    BY SlotFacts DEF Init, InMembers
  <2>5. InService = {}
    BY ClientsAssumption DEF Init, InService
  <2>6. Places = {} /\ \A c \in Clients : state[c] = "idle"
    BY <2>1, <2>2, <2>3, <2>4, <2>5 DEF Places, Init
  <2>7. QED BY <2>6 DEF PlacesInv
<1>7. AheadInv
  BY <1>2, <1>3 DEF AheadInv
<1>8. NotFoundOnlyWhileStarting /\ RefusedOnlyWhenSpent
  BY DEF Init, NotFoundOnlyWhileStarting, RefusedOnlyWhenSpent
<1>9. Buffers!ManagerTypeOK /\ listeners[Listener] = 0 /\ allocated_listeners[Listener] = Buffers!NoEntry
  BY DEF Init, Buffers!ManagerInit, Buffers!ManagerTypeOK, Buffers!NoEntry
<1>10. QED BY <1>4, <1>5, <1>6, <1>7, <1>8, <1>9 DEF FlowInv, RequestsInv, GrantsInv

\* Every place of a request is one of its holders, and the only one.
LEMMA HoldersOf ==
  ASSUME RequestsInv, NEW c \in Clients
  PROVE  IF state[c] = "waitCluster" THEN \E p : Holders(c) = {p} ELSE Holders(c) = {}
<1>1. /\ \A k \in Clusters : toWorker[k] \in Slots
      /\ \A m \in Members : toMember[m] \in Slots
  BY DEF RequestsInv, Shapes
<1>2. /\ \A k \in Clusters : c \in ToSet(toWorker[k]) <=> toWorker[k] = <<c>>
      /\ \A m \in Members : c \in ToSet(toMember[m]) <=> toMember[m] = <<c>>
  BY <1>1, SlotTypes
<1>3. \A p : p \in Holders(c) <=>
        \/ \E i \in DOMAIN toClusters : toClusters[i] = RequestOf(c) /\ p = <<"toClusters", i>>
        \/ managerHand = c /\ p = <<"managerHand", 1>>
        \/ \E k \in Clusters : toWorker[k] = <<c>> /\ p = <<"toWorker", k>>
        \/ \E k \in Clusters : workerHand[k] # <<>> /\ workerHand[k][1] = c /\ p = <<"workerHand", k>>
        \/ \E m \in Members : toMember[m] = <<c>> /\ p = <<"toMember", m>>
        \/ \E m \in Members : serving[m] = c /\ member[m] # "session" /\ p = <<"serving", m>>
  BY <1>2 DEF Holders, RequestOf
<1>4. \A kind, x : <<c, kind, x>> \in Places <=>
        \/ kind = "toClusters" /\ x = 1 /\ \E i \in DOMAIN toClusters : toClusters[i] = RequestOf(c)
        \/ kind = "managerHand" /\ x = 1 /\ managerHand = c
        \/ kind = "toWorker" /\ x \in Clusters /\ toWorker[x] = <<c>>
        \/ kind = "workerHand" /\ x \in Clusters /\ workerHand[x] # <<>> /\ workerHand[x][1] = c
        \/ kind = "toMember" /\ x \in Members /\ toMember[x] = <<c>>
        \/ kind = "serving" /\ x \in Members /\ serving[x] = c /\ member[x] # "session"
  BY DEF Places, InClusters, InManager, InWorkers, InHands, InMembers, InService
<1>5. ASSUME NEW p \in Holders(c)
      PROVE  \E kind, x :
               /\ <<c, kind, x>> \in Places
               /\ \/ p = <<kind, x>> /\ kind # "toClusters"
                  \/ kind = "toClusters" /\ \E i \in DOMAIN toClusters : toClusters[i] = RequestOf(c) /\ p = <<"toClusters", i>>
  <2>1. CASE \E i \in DOMAIN toClusters : toClusters[i] = RequestOf(c) /\ p = <<"toClusters", i>>
    <3>1. <<c, "toClusters", 1>> \in Places
      BY <1>4, <2>1
    <3>2. QED BY <2>1, <3>1
  <2>2. CASE managerHand = c /\ p = <<"managerHand", 1>>
    <3>1. <<c, "managerHand", 1>> \in Places
      BY <1>4, <2>2
    <3>2. QED BY <2>2, <3>1
  <2>3. CASE \E k \in Clusters : toWorker[k] = <<c>> /\ p = <<"toWorker", k>>
    <3>1. PICK k \in Clusters : toWorker[k] = <<c>> /\ p = <<"toWorker", k>>
      BY <2>3
    <3>2. <<c, "toWorker", k>> \in Places
      BY <1>4, <3>1
    <3>3. p = <<"toWorker", k>> /\ "toWorker" # "toClusters"
      BY <3>1
    <3>4. QED BY <3>2, <3>3
  <2>4. CASE \E k \in Clusters : workerHand[k] # <<>> /\ workerHand[k][1] = c /\ p = <<"workerHand", k>>
    <3>1. PICK k \in Clusters : workerHand[k] # <<>> /\ workerHand[k][1] = c /\ p = <<"workerHand", k>>
      BY <2>4
    <3>2. <<c, "workerHand", k>> \in Places
      BY <1>4, <3>1
    <3>3. p = <<"workerHand", k>> /\ "workerHand" # "toClusters"
      BY <3>1
    <3>4. QED BY <3>2, <3>3
  <2>5. CASE \E m \in Members : toMember[m] = <<c>> /\ p = <<"toMember", m>>
    <3>1. PICK m \in Members : toMember[m] = <<c>> /\ p = <<"toMember", m>>
      BY <2>5
    <3>2. <<c, "toMember", m>> \in Places
      BY <1>4, <3>1
    <3>3. p = <<"toMember", m>> /\ "toMember" # "toClusters"
      BY <3>1
    <3>4. QED BY <3>2, <3>3
  <2>6. CASE \E m \in Members : serving[m] = c /\ member[m] # "session" /\ p = <<"serving", m>>
    <3>1. PICK m \in Members : serving[m] = c /\ member[m] # "session" /\ p = <<"serving", m>>
      BY <2>6
    <3>2. <<c, "serving", m>> \in Places
      BY <1>4, <3>1
    <3>3. p = <<"serving", m>> /\ "serving" # "toClusters"
      BY <3>1
    <3>4. QED BY <3>2, <3>3
  <2>7. QED BY <1>3, <2>1, <2>2, <2>3, <2>4, <2>5, <2>6
<1>6. ASSUME NEW kind, NEW x, <<c, kind, x>> \in Places PROVE Holders(c) # {}
  <2>1. CASE \E i \in DOMAIN toClusters : toClusters[i] = RequestOf(c)
    <3>1. PICK i \in DOMAIN toClusters : toClusters[i] = RequestOf(c)
      BY <2>1
    <3>2. <<"toClusters", i>> \in Holders(c)
      BY <1>3, <3>1
    <3>3. QED BY <3>2
  <2>2. CASE managerHand = c
    <3>1. <<"managerHand", 1>> \in Holders(c)
      BY <1>3, <2>2
    <3>2. QED BY <3>1
  <2>3. CASE x \in Clusters /\ toWorker[x] = <<c>>
    <3>1. <<"toWorker", x>> \in Holders(c)
      BY <1>3, <2>3
    <3>2. QED BY <3>1
  <2>4. CASE x \in Clusters /\ workerHand[x] # <<>> /\ workerHand[x][1] = c
    <3>1. <<"workerHand", x>> \in Holders(c)
      BY <1>3, <2>4
    <3>2. QED BY <3>1
  <2>5. CASE x \in Members /\ toMember[x] = <<c>>
    <3>1. <<"toMember", x>> \in Holders(c)
      BY <1>3, <2>5
    <3>2. QED BY <3>1
  <2>6. CASE x \in Members /\ serving[x] = c /\ member[x] # "session"
    <3>1. <<"serving", x>> \in Holders(c)
      BY <1>3, <2>6
    <3>2. QED BY <3>1
  <2>7. QED BY <1>4, <1>6, <2>1, <2>2, <2>3, <2>4, <2>5, <2>6
<1>7. ASSUME NEW p \in Holders(c), NEW q \in Holders(c) PROVE p = q
  <2>1. PICK kind1, x1 :
          /\ <<c, kind1, x1>> \in Places
          /\ \/ p = <<kind1, x1>> /\ kind1 # "toClusters"
             \/ kind1 = "toClusters" /\ \E i \in DOMAIN toClusters : toClusters[i] = RequestOf(c) /\ p = <<"toClusters", i>>
    BY <1>5
  <2>2. PICK kind2, x2 :
          /\ <<c, kind2, x2>> \in Places
          /\ \/ q = <<kind2, x2>> /\ kind2 # "toClusters"
             \/ kind2 = "toClusters" /\ \E i \in DOMAIN toClusters : toClusters[i] = RequestOf(c) /\ q = <<"toClusters", i>>
    BY <1>5
  <2>3. kind1 = kind2 /\ x1 = x2
    BY <2>1, <2>2 DEF RequestsInv, PlacesInv
  <2>4. QED BY <2>1, <2>2, <2>3 DEF RequestsInv, RequestsOnce
<1>8. CASE state[c] = "waitCluster"
  <2>1. PICK p : p \in Holders(c)
    BY <1>6, <1>8 DEF RequestsInv, PlacesInv
  <2>2. Holders(c) = {p}
    BY <1>7, <2>1
  <2>3. QED BY <1>8, <2>2
<1>9. CASE state[c] # "waitCluster"
  BY <1>5, <1>9 DEF RequestsInv, PlacesInv
<1>10. QED BY <1>8, <1>9

LEMMA FlowIsDispatch == FlowInv => DispatchInv
<1> SUFFICES ASSUME FlowInv PROVE DispatchInv
  OBVIOUS
<1>1. RequestsInv /\ Shapes
  BY DEF FlowInv, RequestsInv
<1>2. OneHolder
  <2>1. SUFFICES ASSUME NEW c \in Clients
                 PROVE  Cardinality(Holders(c)) = IF state[c] = "waitCluster" THEN 1 ELSE 0
    BY DEF OneHolder
  <2>2. IF state[c] = "waitCluster" THEN \E p : Holders(c) = {p} ELSE Holders(c) = {}
    BY <1>1, HoldersOf
  <2>3. QED BY <2>2, FS_Singleton, FS_EmptySet
<1>3. \A k \in Clusters : /\ toWorker[k] \in Seq(Clients) /\ Len(toWorker[k]) <= WorkerCap
                          /\ workerHand[k] \in {<<>>} \cup (Clients \X ToSet(MembersOf[k]))
  BY <1>1, SlotTypes DEF Shapes
<1>4. \A m \in Members : toMember[m] \in Seq(Clients) /\ Len(toMember[m]) <= WorkerCap
  BY <1>1, SlotTypes DEF Shapes
<1>5. TypeOK
  BY <1>1, <1>3, <1>4 DEF TypeOK, FlowInv, GrantsInv, Shapes, ToBuffers, ToClusters
<1>6. QED BY <1>2, <1>5 DEF DispatchInv, FlowInv, GrantsInv

\* However the tasks and channels between a connection and its backend interleave, the
\* message of a connection that waits is in exactly one of them, so no request is lost,
\* answered twice or worked on after its answer (the oneshot travels with it); no
\* configured cluster is answered 404 to a request that did not overtake its
\* announcement; and no connection is refused a buffer before Limit - 1 were granted.
THEOREM RequestsAreAccountedFor == Spec => []DispatchInv
<1>1. Init => FlowInv
  BY InitFlow
<1>2. FlowInv /\ [Next]_vars => FlowInv'
  BY NextFlow
<1>3. FlowInv => DispatchInv
  BY FlowIsDispatch
<1>4. QED BY <1>1, <1>2, <1>3, PTL DEF Spec

=============================================================================
