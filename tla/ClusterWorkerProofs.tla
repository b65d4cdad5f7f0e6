---------------------------- MODULE ClusterWorkerProofs ----------------------------
(* Theorems about ClusterWorker, for every set of configurations and every   *)
(* order of updates, requests, verdicts, panics and removals.                *)
EXTENDS ClusterWorker, TLAPS, SequenceTheorems, FiniteSetTheorems, WellFoundedInduction

Member == [address : Addresses, status : {"Active", "Disabled"}]
Inward == [type : {"config"}, config : Configs] \cup [type : {"request"}, request : Requests]

\* What the argument needs of the types.
Types ==
  /\ inbox \in Seq(Inward) /\ config \in Configs /\ todo \in Seq(Member)
  /\ members \in [Addresses -> Tasks \cup {NoTask}]
  /\ statuses \in [Addresses -> Status] /\ address \in [Tasks -> Addresses]

\* A listed member has a sender or is still to be added, and whoever has a sender has a
\* status.
MapsInv ==
  /\ Types
  /\ worker # "dead" => \A a \in Listed : members[a] # NoTask \/ \E m \in ToSet(todo) : m.address = a
  /\ \A a \in Addresses : members[a] # NoTask => statuses[a] # "none"

LEMMA ToSetTail ==
  ASSUME NEW S, NEW s \in Seq(S), s # <<>>
  PROVE  ToSet(s) = {Head(s)} \cup ToSet(Tail(s))
<1>1. /\ Len(s) \in Nat /\ Len(s) >= 1 /\ DOMAIN s = 1..Len(s)
  BY EmptySeq, LenProperties
<1>2. /\ Tail(s) \in Seq(S) /\ DOMAIN Tail(s) = 1..(Len(s) - 1)
      /\ \A i \in 1..(Len(s) - 1) : Tail(s)[i] = s[i + 1]
  BY <1>1
<1>3. ASSUME NEW x \in ToSet(s) PROVE x = Head(s) \/ x \in ToSet(Tail(s))
  <2>1. PICK i \in 1..Len(s) : x = s[i]
    BY <1>1 DEF ToSet
  <2>2. CASE i = 1
    BY <2>1, <2>2
  <2>3. CASE i # 1
    <3>1. i - 1 \in 1..(Len(s) - 1) /\ Tail(s)[i - 1] = x
      BY <1>1, <1>2, <2>1, <2>3
    <3>2. QED BY <1>2, <3>1 DEF ToSet
  <2>4. QED BY <2>2, <2>3
<1>4. ASSUME NEW x \in ToSet(Tail(s)) PROVE x \in ToSet(s)
  <2>1. PICK i \in 1..(Len(s) - 1) : x = s[i + 1]
    BY <1>2 DEF ToSet
  <2>2. i + 1 \in 1..Len(s)
    BY <1>1
  <2>3. QED BY <1>1, <2>1, <2>2 DEF ToSet
<1>5. Head(s) \in ToSet(s)
  BY <1>1 DEF ToSet
<1>6. QED BY <1>3, <1>4, <1>5

LEMMA ConfigTypes ==
  ASSUME NEW c \in Configs
  PROVE  c.members \in Seq(Member)
BY ConfigsAssumption DEF Member

LEMMA ListedAddresses ==
  ASSUME config \in Configs
  PROVE  Listed \subseteq Addresses
<1>1. config.members \in Seq(Member)
  BY ConfigTypes
<1>2. \A m \in ToSet(config.members) : m \in Member
  BY <1>1, ElementOfSeq, LenProperties DEF ToSet
<1>3. QED BY <1>2 DEF Listed, Member

\* Steps that change none of the maps.
LEMMA MapsUnchanged ==
  ASSUME MapsInv, inbox' \in Seq(Inward), worker' = "dead" <=> worker = "dead",
         UNCHANGED <<config, todo, members, statuses, address>>
  PROVE  MapsInv'
BY DEF MapsInv, Types, Listed

LEMMA InitMaps == Init => MapsInv
<1> SUFFICES ASSUME Init PROVE MapsInv
  OBVIOUS
<1>1. todo \in Seq(Member) /\ config \in Configs /\ todo = config.members
  BY ConfigTypes DEF Init
<1>2. inbox \in Seq(Inward)
  BY EmptySeq DEF Init
<1>3. members \in [Addresses -> Tasks \cup {NoTask}] /\ \A a \in Addresses : members[a] = NoTask
  BY DEF Init
<1>4. statuses \in [Addresses -> Status]
  BY DEF Init, Status
<1>5. address \in [Tasks -> Addresses]
  <2>1. address = [t \in Tasks |-> CHOOSE a \in Addresses : TRUE]
    BY DEF Init
  <2>2. QED BY <2>1, AddressesAssumption
<1>6. \A a \in Listed : \E m \in ToSet(todo) : m.address = a
  BY <1>1 DEF Listed
<1>7. QED BY <1>1, <1>2, <1>3, <1>4, <1>5, <1>6 DEF MapsInv, Types

\* A member that is to be added has a sender afterwards, old or new, and a new one
\* comes with a status.
LEMMA AddMaps ==
  ASSUME MapsInv, Add
  PROVE  MapsInv'
<1> DEFINE m == Head(todo)
<1>1. /\ todo \in Seq(Member) /\ todo # <<>> /\ todo' = Tail(todo)
      /\ UNCHANGED <<inbox, worker, config>>
  BY DEF Add, MapsInv, Types
<1>2. m \in Member /\ todo' \in Seq(Member) /\ ToSet(todo) = {m} \cup ToSet(todo')
  BY <1>1, ToSetTail
<1>3. m.address \in Addresses /\ m.status \in {"Active", "Disabled"}
  BY <1>2 DEF Member
<1>4. CASE IsAdded(m)
  <2>1. PICK t \in Tasks : Spawned(m, t)
    BY <1>4 DEF Add
  <2>2. /\ members' = [members EXCEPT ![m.address] = t]
        /\ statuses' = [statuses EXCEPT ![m.address] = m.status]
        /\ address' = [address EXCEPT ![t] = m.address] /\ t # NoTask
    BY <2>1, BoundsAssumption DEF Spawned, Tasks, NoTask
  <2>3. Types'
    BY <1>1, <1>2, <1>3, <2>2 DEF MapsInv, Types, Status
  <2>4. \A a \in Addresses : a # m.address => members'[a] = members[a] /\ statuses'[a] = statuses[a]
    BY <2>2 DEF MapsInv, Types
  <2>5. members'[m.address] = t /\ statuses'[m.address] = m.status
    BY <1>3, <2>2 DEF MapsInv, Types
  <2>6. Listed \subseteq Addresses
    BY ListedAddresses DEF MapsInv, Types
  <2>7. \A a \in Addresses : members'[a] # NoTask => statuses'[a] # "none"
    BY <1>3, <2>4, <2>5 DEF MapsInv
  <2>8. worker' # "dead" => \A a \in Listed' : members'[a] # NoTask \/ \E n \in ToSet(todo') : n.address = a
    BY <1>1, <1>2, <2>2, <2>4, <2>5, <2>6 DEF MapsInv, Listed
  <2>9. QED BY <2>3, <2>7, <2>8 DEF MapsInv
<1>5. CASE ~IsAdded(m)
  <2>1. UNCHANGED <<members, statuses, address>> /\ members[m.address] # NoTask
    BY <1>5 DEF Add, IsAdded
  <2>2. QED BY <1>1, <1>2, <2>1 DEF MapsInv, Types, Listed
<1>6. QED BY <1>4, <1>5

\* Only members that are not listed leave.
LEMMA LeaveMaps ==
  ASSUME MapsInv, NEW a \in Addresses, Leave(a)
  PROVE  MapsInv'
<1>1. /\ a \notin Listed /\ members' = [members EXCEPT ![a] = NoTask]
      /\ UNCHANGED <<inbox, worker, config, todo, statuses, address>>
  BY DEF Leave
<1>2. Types'
  BY <1>1 DEF MapsInv, Types
<1>3. \A b \in Addresses : (b # a => members'[b] = members[b]) /\ (members'[b] # NoTask => b # a)
  BY <1>1 DEF MapsInv, Types
<1>4. Listed \subseteq Addresses /\ Listed' = Listed
  BY <1>1, ListedAddresses DEF MapsInv, Types, Listed
<1>5. QED BY <1>1, <1>2, <1>3, <1>4 DEF MapsInv

\* A new configuration is still to be added as a whole.
LEMMA ReceiveMaps ==
  ASSUME MapsInv, Receive
  PROVE  MapsInv'
<1>1. /\ inbox \in Seq(Inward) /\ inbox # <<>> /\ inbox' = Tail(inbox)
      /\ UNCHANGED <<worker, members, statuses, address>>
  BY DEF Receive, MapsInv, Types, tasks
<1>2. Head(inbox) \in Inward /\ inbox' \in Seq(Inward)
  BY <1>1
<1>3. CASE Head(inbox).type = "config" /\ Update(Head(inbox).config)
  <2> DEFINE c == Head(inbox).config
  <2>1. c \in Configs
    BY <1>2, <1>3 DEF Inward
  <2>2. config' = c /\ todo' = c.members
    BY <1>3 DEF Update
  <2>3. todo' \in Seq(Member)
    BY <2>1, <2>2, ConfigTypes
  <2>4. \A a \in Listed' : \E n \in ToSet(todo') : n.address = a
    BY <2>2 DEF Listed
  <2>5. QED BY <1>1, <1>2, <2>1, <2>2, <2>3, <2>4 DEF MapsInv, Types
<1>4. CASE UNCHANGED <<config, todo>>
  BY <1>1, <1>2, <1>4, MapsUnchanged
<1>5. QED BY <1>3, <1>4 DEF Receive

\* A worker that panics has no senders any more; any other choice leaves the maps alone.
LEMMA ChooseMaps ==
  ASSUME MapsInv, Choose
  PROVE  MapsInv'
<1>1. UNCHANGED <<config, todo, statuses, address>>
  BY DEF Choose, tasks
<1>2. CASE Dies
  <2>1. worker' = "dead" /\ members' = [a \in Addresses |-> NoTask] /\ inbox' = <<>>
    BY <1>2 DEF Dies
  <2>2. inbox' \in Seq(Inward)
    BY <2>1, EmptySeq
  <2>3. QED BY <1>1, <2>1, <2>2 DEF MapsInv, Types
<1>3. CASE UNCHANGED <<inbox, worker, members>>
  BY <1>1, <1>3, MapsUnchanged DEF MapsInv, Types
<1>4. QED BY <1>2, <1>3 DEF Choose

\* The verdict of a checker is a status.
LEMMA VerdictMaps ==
  ASSUME MapsInv, NEW t \in Tasks, Verdict(t)
  PROVE  MapsInv'
<1>1. UNCHANGED <<inbox, worker, config, todo, members, address>>
  BY DEF Verdict, own, tasks
<1>2. PICK s \in {"Active", "Unavailable"} : statuses' = [statuses EXCEPT ![address[t]] = s]
  BY DEF Verdict
<1>3. statuses' \in [Addresses -> Status]
      /\ \A a \in Addresses : statuses[a] # "none" => statuses'[a] # "none"
  BY <1>2 DEF MapsInv, Types, Status
<1>4. QED BY <1>1, <1>3 DEF MapsInv, Types, Listed

LEMMA NextMaps == MapsInv /\ [Next]_vars => MapsInv'
<1> SUFFICES ASSUME MapsInv, [Next]_vars PROVE MapsInv'
  OBVIOUS
<1> USE DEF own, tasks
<1>1. CASE Started
  BY <1>1, MapsUnchanged DEF Started, MapsInv, Types
<1>2. CASE Select \/ Forward
  BY <1>2, MapsUnchanged DEF Select, Forward, MapsInv, Types
<1>3. CASE \E a \in Addresses : Tell(a)
  BY <1>3, MapsUnchanged DEF Tell, MapsInv, Types
<1>4. CASE \E t \in Tasks : TaskReceives(t)
  BY <1>4, MapsUnchanged DEF TaskReceives, MapsInv, Types
<1>5. CASE \E t \in Tasks : UpdateEnds(t) \/ LocksUp(t) \/ TaskAnswers(t) \/ TaskPanics(t) \/ CheckerStarts(t)
  BY <1>5, MapsUnchanged DEF UpdateEnds, LocksUp, TaskAnswers, TaskPanics, CheckerStarts, MapsInv, Types
<1>6. CASE \E c \in Configs : SendUpdate(c)
  <2>1. PICK c \in Configs : SendUpdate(c)
    BY <1>6
  <2>2. inbox' \in Seq(Inward)
    BY <2>1 DEF SendUpdate, MapsInv, Types, Inward
  <2>3. QED BY <2>1, <2>2, MapsUnchanged DEF SendUpdate
<1>7. CASE \E r \in Requests : SendRequest(r)
  <2>1. PICK r \in Requests : SendRequest(r)
    BY <1>7
  <2>2. [type |-> "request", request |-> r] \in Inward
    BY DEF Inward
  <2>3. inbox' = inbox \/ inbox' = Append(inbox, [type |-> "request", request |-> r])
    BY <2>1 DEF SendRequest
  <2>4. inbox' \in Seq(Inward)
    BY <2>2, <2>3 DEF MapsInv, Types
  <2>5. QED BY <2>1, <2>4, MapsUnchanged DEF SendRequest
<1>8. CASE UNCHANGED vars
  BY <1>8, MapsUnchanged DEF vars, MapsInv, Types
<1>9. QED
  BY <1>1, <1>2, <1>3, <1>4, <1>5, <1>6, <1>7, <1>8, AddMaps, LeaveMaps, ReceiveMaps,
     ChooseMaps, VerdictMaps
     DEF Next, WorkerStep, TaskStep

\* The steps that touch the statuses: a member is spawned, which an update does only for
\* one without a sender, and the verdict of a checker, which is no step of the worker.
LEMMA StatusSteps ==
  ASSUME MapsInv, Next, worker = "run", NEW a \in Addresses, members[a] # NoTask,
         statuses'[a] # statuses[a]
  PROVE  UNCHANGED own
<1>1. CASE Add
  <2>1. PICK t \in Tasks : IsAdded(Head(todo)) /\ Spawned(Head(todo), t)
    BY <1>1 DEF Add
  <2>2. members[Head(todo).address] = NoTask
    BY <2>1 DEF IsAdded
  <2>3. statuses'[a] = statuses[a]
    BY <2>1, <2>2 DEF Spawned, MapsInv, Types
  <2>4. QED BY <2>3
<1>2. CASE \E t \in Tasks : Verdict(t)
  BY <1>2 DEF Verdict
<1>3. CASE Started \/ Receive \/ Select \/ Choose \/ Forward \/ \E b \in Addresses : Tell(b) \/ Leave(b)
  BY <1>3 DEF Started, Receive, Select, Choose, Forward, Tell, Leave
<1>4. CASE \E t \in Tasks : \/ TaskReceives(t) \/ UpdateEnds(t) \/ LocksUp(t)
                          \/ TaskAnswers(t) \/ TaskPanics(t) \/ CheckerStarts(t)
  BY <1>4 DEF TaskReceives, UpdateEnds, LocksUp, TaskAnswers, TaskPanics, CheckerStarts
<1>5. CASE (\E c \in Configs : SendUpdate(c)) \/ (\E r \in Requests : SendRequest(r))
  BY <1>5 DEF SendUpdate, SendRequest
<1>6. QED BY <1>1, <1>2, <1>3, <1>4, <1>5 DEF Next, WorkerStep, TaskStep

\* No update of the configuration overwrites what the checker of a member found, however
\* often and with whatever status it lists the member.
THEOREM FindingsSurviveUpdates == Spec => UpdatesKeepStatuses
<1> DEFINE Kept == \A a \in Addresses :
             worker = "run" /\ members[a] # NoTask /\ statuses'[a] # statuses[a] => UNCHANGED own
<1>1. MapsInv /\ [Next]_vars => [Kept]_vars
  BY StatusSteps
<1>2. QED BY InitMaps, NextMaps, <1>1, PTL DEF Spec, UpdatesKeepStatuses

-------------------------------------------------------------------------------
(* What the tasks are left with.  The tasks are spawned in the order of their    *)
(* numbers; what a task was told and what it was replaced by settle between them  *)
(* why an older task of an address has lost its sender.                        *)

Removal == [type |-> "remove"]

\* The types of the rest.
TaskTypes ==
  /\ Len(inbox) <= Cap /\ worker \in {"start", "run", "dead"}
  /\ hand \in {<<>>} \cup (Requests \X Tasks)
  /\ place \in [Tasks -> {"unborn", "up", "returned", "panicked"}]
  /\ serving \in [Tasks -> Requests \cup {Nobody}]
  /\ queue \in [Tasks -> Seq(Messages)] /\ \A t \in Tasks : Len(queue[t]) <= Cap
  /\ checker \in [Tasks -> Status \cup {"start"}]
  /\ update \in [Tasks -> Seq(Changes)] /\ \A t \in Tasks : Len(update[t]) <= 1
  /\ locked \in [Tasks -> {"no", "yes", "holding"}]
  /\ outcome \in [Requests -> {"unsent", "waiting", "answered", "dropped"}]

\* The spawned tasks are the first n of them.
BornInOrder == \E n \in 0..MaxTasks : \A t \in Tasks : place[t] # "unborn" <=> t <= n

\* A task that was not spawned has nothing, one that returned has no checker.
BlankOrQuiet ==
  \A t \in Tasks :
    /\ place[t] = "unborn" => queue[t] = <<>> /\ update[t] = <<>> /\ checker[t] = "none"
    /\ place[t] = "returned" => checker[t] = "none"

ChoosingType == {<<>>} \cup {<<r>> : r \in Requests} \cup (Requests \X [Addresses -> Status])

\* The worker has a request only between two updates, to choose for or in hand for a
\* task with a sender.  It tells only members with a sender.
HandAtRest ==
  /\ untold \subseteq Known
  /\ choosing \in ChoosingType /\ (hand = <<>> \/ choosing = <<>>)
  /\ hand # <<>> \/ choosing # <<>> => Settled
  /\ Len(choosing) = 2 => config.lb_method = "LeastConn"
  /\ hand # <<>> => \E a \in Known : hand[2] = members[a]

SendersInv ==
  \A a \in Known :
    /\ address[members[a]] = a /\ place[members[a]] \in {"up", "panicked"}
    /\ \A t \in Tasks : place[t] # "unborn" /\ address[t] = a => t <= members[a]
    /\ ~ToldToLeave(members[a])

\* Of two tasks of one address that were spawned, the older was told or replaced.
OlderAreTold ==
  \A t, u \in Tasks :
    t < u /\ address[t] = address[u] /\ place[u] # "unborn" /\ place[t] = "up"
    => ToldToLeave(t) \/ t \in replaced

AgesInv == BornInOrder /\ SendersInv /\ SpinsForAReason /\ OlderAreTold
WorkerInv == MapsInv /\ TaskTypes /\ BlankOrQuiet /\ HandAtRest /\ AgesInv

LEMMA TasksAreNumbers == Tasks \subseteq Nat /\ NoTask \notin Tasks /\ 0 \notin Tasks
BY BoundsAssumption DEF Tasks, NoTask

LEMMA KnownTasks ==
  ASSUME MapsInv, NEW a \in Known
  PROVE  a \in Addresses /\ members[a] \in Tasks /\ members[a] # NoTask
BY DEF Known, MapsInv, Types

\* A channel has room for one message.
LEMMA OneMessage ==
  ASSUME NEW S, NEW s \in Seq(S), Len(s) <= Cap
  PROVE  /\ s = <<>> => ToSet(s) = {}
         /\ s # <<>> => ToSet(s) = {Head(s)} /\ Head(s) \in S /\ Tail(s) = <<>>
         /\ Len(s) < Cap => s = <<>>
<1>1. Len(s) \in Nat /\ DOMAIN s = 1..Len(s) /\ (s = <<>> <=> Len(s) = 0)
  BY EmptySeq, LenProperties
<1>2. CASE s = <<>>
  BY <1>1, <1>2 DEF ToSet, Cap
<1>3. CASE s # <<>>
  <2>1. Len(s) = 1
    BY <1>1, <1>3 DEF Cap
  <2>2. DOMAIN s = {1} /\ Head(s) = s[1] /\ s[1] \in S
    BY <1>1, <2>1, <1>3
  <2>3. Tail(s) \in Seq(S) /\ Len(Tail(s)) = 0
    BY <2>1, <1>3
  <2>4. Tail(s) = <<>>
    BY <2>3, EmptySeq
  <2>5. QED BY <2>1, <2>2, <2>4, <1>3 DEF ToSet, Cap
<1>4. QED BY <1>2, <1>3

LEMMA MessageKinds ==
  /\ Removal \in Messages
  /\ \A k \in Nat : [type |-> "keepalive", keepalive |-> k] \in Messages
                   /\ [type |-> "keepalive", keepalive |-> k] # Removal
  /\ \A r \in Requests : [type |-> "request", request |-> r] \in Messages
                         /\ [type |-> "request", request |-> r] # Removal
<1>1. \A k : [type |-> "keepalive", keepalive |-> k].type = "keepalive"
  OBVIOUS
<1>2. \A r : [type |-> "request", request |-> r].type = "request"
  OBVIOUS
<1>3. Removal.type = "remove"
  BY DEF Removal
<1>4. QED BY <1>1, <1>2, <1>3 DEF Messages, Changes, Removal

\* What a send does to the channels: it fills the empty one of a task that goes on.
LEMMA SendSteps ==
  ASSUME TaskTypes, NEW t \in Tasks, NEW m \in Messages, Send(t, m)
  PROVE  /\ queue' \in [Tasks -> Seq(Messages)] /\ \A u \in Tasks : Len(queue'[u]) <= Cap
         /\ \A u \in Tasks : u # t \/ Over(u) => queue'[u] = queue[u]
         /\ ~Over(t) => queue'[t] = <<m>> /\ ToSet(queue'[t]) = {m} /\ ToSet(queue[t]) = {}
<1>1. queue \in [Tasks -> Seq(Messages)] /\ \A u \in Tasks : Len(queue[u]) <= Cap
  BY DEF TaskTypes
<1>2. CASE Over(t)
  BY <1>1, <1>2 DEF Send
<1>3. CASE ~Over(t)
  <2>1. Len(queue[t]) < Cap /\ queue' = [queue EXCEPT ![t] = Append(queue[t], m)]
    BY <1>3 DEF Send
  <2>2. queue[t] = <<>> /\ ToSet(queue[t]) = {}
    BY <1>1, <2>1, OneMessage
  <2>3. queue'[t] = <<m>>
    BY <1>1, <2>1, <2>2
  <2>4. <<m>> \in Seq(Messages) /\ Len(<<m>>) <= Cap /\ <<m>> # <<>> /\ Head(<<m>>) = m
    BY DEF Cap
  <2>5. ToSet(<<m>>) = {m}
    BY <2>4, OneMessage
  <2>6. QED BY <1>1, <1>3, <2>1, <2>2, <2>3, <2>4, <2>5
<1>4. QED BY <1>2, <1>3

\* A message that is no removal tells nobody to leave.
LEMMA SendTellsNobody ==
  ASSUME TaskTypes, NEW t \in Tasks, NEW m \in Messages, Send(t, m), m # Removal, UNCHANGED update
  PROVE  \A u \in Tasks : ToldToLeave(u)' <=> ToldToLeave(u)
<1> SUFFICES ASSUME NEW u \in Tasks PROVE ToldToLeave(u)' <=> ToldToLeave(u)
  OBVIOUS
<1>1. (Removal \in ToSet(queue'[u])) <=> (Removal \in ToSet(queue[u]))
  BY SendSteps
<1>2. QED BY <1>1 DEF ToldToLeave, Removal

\* Steps that neither spawn, end, replace nor tell a task.
LEMMA SameAges ==
  ASSUME AgesInv, UNCHANGED <<members, place, address, replaced>>, worker = "dead" => worker' = "dead",
         \A u \in Tasks : ToldToLeave(u)' <=> ToldToLeave(u),
         MapsInv
  PROVE  AgesInv'
<1>1. BornInOrder'
  BY DEF AgesInv, BornInOrder
<1>2. SendersInv'
  <2>1. \A a \in Known : members[a] \in Tasks
    BY KnownTasks
  <2>2. Known' = Known
    BY DEF Known
  <2>3. QED BY <2>1, <2>2 DEF AgesInv, SendersInv
<1>3. SpinsForAReason'
  BY DEF AgesInv, SpinsForAReason
<1>4. OlderAreTold'
  BY DEF AgesInv, OlderAreTold
<1>5. QED BY <1>1, <1>2, <1>3, <1>4 DEF AgesInv

LEMMA InitWorker == Init => WorkerInv
<1> SUFFICES ASSUME Init PROVE WorkerInv
  OBVIOUS
<1>1. MapsInv
  BY InitMaps
<1>2. Known = {}
  BY DEF Init, Known
<1>3. \A t \in Tasks : place[t] = "unborn" /\ queue[t] = <<>> /\ update[t] = <<>> /\ checker[t] = "none"
  BY DEF Init
<1>4. TaskTypes
  <2>1. Len(inbox) = 0 /\ 0 <= Cap
    BY DEF Init, Cap
  <2>2. queue \in [Tasks -> Seq(Messages)] /\ \A t \in Tasks : Len(queue[t]) = 0
    BY EmptySeq DEF Init
  <2>3. update \in [Tasks -> Seq(Changes)] /\ \A t \in Tasks : Len(update[t]) <= 1
    BY EmptySeq DEF Init
  <2>4. QED BY <2>1, <2>2, <2>3 DEF Init, TaskTypes, Status
<1>5. BornInOrder
  <2>1. 0 \in 0..MaxTasks /\ \A t \in Tasks : ~(t <= 0)
    BY BoundsAssumption DEF Tasks
  <2>2. QED BY <1>3, <2>1 DEF BornInOrder
<1>6. SendersInv /\ SpinsForAReason /\ OlderAreTold /\ BlankOrQuiet
  BY <1>2, <1>3 DEF SendersInv, SpinsForAReason, OlderAreTold, BlankOrQuiet
<1>7. HandAtRest
  BY DEF Init, HandAtRest, ChoosingType
<1>8. QED BY <1>1, <1>4, <1>5, <1>6, <1>7 DEF WorkerInv, AgesInv

\* The task an address gets is younger than all others, and the sender it overwrites
\* leads to one that counts as replaced.
LEMMA AddWorker ==
  ASSUME WorkerInv, Add
  PROVE  WorkerInv'
<1> DEFINE m == Head(todo)
<1>1. MapsInv' /\ MapsInv /\ TaskTypes /\ BlankOrQuiet /\ HandAtRest /\ AgesInv
  BY AddMaps DEF WorkerInv
<1>2. /\ todo # <<>> /\ untold = {} /\ worker # "dead" /\ hand = <<>> /\ choosing = <<>>
      /\ UNCHANGED <<inbox, worker, config, untold, choosing, hand, queue, serving, update, locked, outcome>>
  BY <1>1 DEF Add, Spawned, HandAtRest, Settled
<1>3. HandAtRest'
  BY <1>1, <1>2 DEF HandAtRest
<1>4. CASE ~IsAdded(m)
  <2>1. UNCHANGED <<members, statuses, place, address, checker, replaced>>
    BY <1>4 DEF Add
  <2>2. \A u \in Tasks : ToldToLeave(u)' <=> ToldToLeave(u)
    BY <1>2 DEF ToldToLeave
  <2>3. AgesInv'
    BY <1>1, <1>2, <2>1, <2>2, SameAges
  <2>4. TaskTypes' /\ BlankOrQuiet'
    BY <1>1, <1>2, <2>1 DEF TaskTypes, BlankOrQuiet
  <2>5. QED BY <1>1, <1>3, <2>3, <2>4 DEF WorkerInv
<1>5. CASE IsAdded(m)
  <2> DEFINE t == Cardinality({u \in Tasks : place[u] # "unborn"}) + 1
             a == m.address
  <2>1. t \in Tasks /\ Spawned(m, t)
    BY <1>5 DEF Add
  <2>2. PICK n \in 0..MaxTasks : \A u \in Tasks : place[u] # "unborn" <=> u <= n
    BY <1>1 DEF AgesInv, BornInOrder
  <2>3. t = n + 1
    <3>1. n \in Nat /\ {u \in Tasks : place[u] # "unborn"} = 1..n
      BY <2>2, BoundsAssumption DEF Tasks
    <3>2. Cardinality(1..n) = n
      BY <3>1, FS_Interval
    <3>3. QED BY <3>1, <3>2
  <2>4. place[t] = "unborn" /\ n \in Nat /\ n + 1 \in 0..MaxTasks /\ Tasks \subseteq Nat
    BY <2>1, <2>2, <2>3, BoundsAssumption DEF Tasks
  <2> HIDE DEF t
  <2>5. a \in Addresses /\ m.status \in Status
    <3>1. m \in Member
      BY <1>1, <1>2, ToSetTail DEF MapsInv, Types
    <3>2. QED BY <3>1 DEF Member, Status
  <2> HIDE DEF m, a
  <2>6. /\ members' = [members EXCEPT ![a] = t]
        /\ place' = [place EXCEPT ![t] = "up"]
        /\ address' = [address EXCEPT ![t] = a]
        /\ checker' = [checker EXCEPT ![t] = IF config.keepalive # NoKeepalive THEN "start" ELSE "none"]
        /\ replaced' = IF members[a] = NoTask THEN replaced ELSE replaced \cup {members[a]}
    BY <2>1 DEF Spawned, a
  <2>7. /\ members \in [Addresses -> Tasks \cup {NoTask}] /\ address \in [Tasks -> Addresses]
        /\ place \in [Tasks -> {"unborn", "up", "returned", "panicked"}]
    BY <1>1 DEF MapsInv, Types, TaskTypes
  <2>8. /\ members'[a] = t /\ place'[t] = "up" /\ address'[t] = a
        /\ \A b \in Addresses \ {a} : members'[b] = members[b]
        /\ \A u \in Tasks \ {t} : place'[u] = place[u] /\ address'[u] = address[u]
    BY <2>1, <2>5, <2>6, <2>7
  <2>9. TaskTypes' /\ BlankOrQuiet'
    <3>1. checker' \in [Tasks -> Status \cup {"start"}] /\ place' \in [Tasks -> {"unborn", "up", "returned", "panicked"}]
      BY <1>1, <2>6 DEF TaskTypes, Status
    <3>2. \A u \in Tasks \ {t} : checker'[u] = checker[u]
      BY <1>1, <2>6 DEF TaskTypes
    <3>3. TaskTypes'
      BY <1>1, <1>2, <3>1 DEF TaskTypes
    <3>4. BlankOrQuiet'
      BY <1>1, <1>2, <2>8, <3>2 DEF BlankOrQuiet
    <3>5. QED BY <3>3, <3>4
  <2>10. \A u \in Tasks : ToldToLeave(u)' <=> ToldToLeave(u)
    BY <1>2 DEF ToldToLeave
  <2>11. ~ToldToLeave(t)
    <3>1. queue[t] = <<>> /\ update[t] = <<>>
      BY <1>1, <2>1, <2>4 DEF BlankOrQuiet
    <3>2. QED BY <3>1 DEF ToldToLeave, ToSet
  <2>12. \A u \in Tasks : place'[u] # "unborn" <=> u <= t
    BY <2>1, <2>2, <2>3, <2>4, <2>8
  <2>13. BornInOrder'
    BY <2>3, <2>4, <2>12 DEF BornInOrder
  <2>14. SendersInv'
    <3> SUFFICES ASSUME NEW b \in Known'
                 PROVE  /\ address'[members'[b]] = b /\ place'[members'[b]] \in {"up", "panicked"}
                        /\ \A u \in Tasks : place'[u] # "unborn" /\ address'[u] = b => u <= members'[b]
                        /\ ~ToldToLeave(members[b])'
      BY DEF SendersInv
    <3>1. CASE b = a
      BY <2>1, <2>8, <2>10, <2>11, <2>12, <3>1 DEF ToldToLeave
    <3>2. CASE b # a
      <4>1. b \in Known /\ members'[b] = members[b]
        BY <2>8, <3>2 DEF Known
      <4>2. members[b] \in Tasks /\ members[b] # t
        BY <1>1, <2>4, <4>1, KnownTasks DEF AgesInv, SendersInv
      <4>3. ~ToldToLeave(members[b])
        BY <1>1, <4>1 DEF AgesInv, SendersInv
      <4>4. ~ToldToLeave(members[b])'
        BY <1>2, <4>1, <4>3 DEF ToldToLeave
      <4>5. QED BY <1>1, <2>8, <3>2, <4>1, <4>2, <4>4 DEF AgesInv, SendersInv
    <3>3. QED BY <3>1, <3>2
  <2>15. SpinsForAReason'
    <3> SUFFICES ASSUME NEW u \in Tasks, place'[u] = "up", members'[address'[u]] # u, ~ToldToLeave(u)'
                 PROVE  u \in replaced'
      BY DEF SpinsForAReason
    <3>1. u # t
      BY <2>8
    <3>2. place[u] = "up" /\ address[u] \in Addresses /\ address'[u] = address[u] /\ ~ToldToLeave(u)
      BY <2>7, <2>8, <2>10, <3>1
    <3>3. CASE members[address[u]] = u
      <4>1. address[u] = a /\ members[a] # NoTask
        BY <2>8, <3>2, <3>3, TasksAreNumbers
      <4>2. QED BY <2>6, <3>3, <4>1
    <3>4. CASE members[address[u]] # u
      <4>1. u \in replaced
        BY <1>1, <1>2, <3>2, <3>4 DEF AgesInv, SpinsForAReason
      <4>2. QED BY <2>6, <4>1
    <3>5. QED BY <3>3, <3>4
  <2>16. OlderAreTold'
    <3> SUFFICES ASSUME NEW u \in Tasks, NEW v \in Tasks, u < v, address'[u] = address'[v],
                        place'[v] # "unborn", place'[u] = "up", ~ToldToLeave(u)'
                 PROVE  u \in replaced'
      BY DEF OlderAreTold
    <3>1. u # t /\ ~ToldToLeave(u) /\ place[u] = "up" /\ address'[u] = address[u]
      BY <2>4, <2>8, <2>10, <2>12
    <3>2. CASE v = t
      <4>1. address[u] = a
        BY <2>8, <3>1, <3>2
      <4>2. CASE members[a] = u
        BY <2>6, <4>2, TasksAreNumbers
      <4>3. CASE members[a] # u
        <5>1. u \in replaced
          BY <1>1, <1>2, <3>1, <4>1, <4>3 DEF AgesInv, SpinsForAReason
        <5>2. QED BY <2>6, <5>1
      <4>4. QED BY <4>2, <4>3
    <3>3. CASE v # t
      <4>1. u \in replaced
        BY <1>1, <2>8, <3>1, <3>3 DEF AgesInv, OlderAreTold
      <4>2. QED BY <2>6, <4>1
    <3>4. QED BY <3>2, <3>3
  <2>17. QED BY <1>1, <1>3, <2>9, <2>13, <2>14, <2>15, <2>16 DEF WorkerInv, AgesInv
<1>6. QED BY <1>4, <1>5

LEMMA MinIsMember ==
  ASSUME NEW S, S \subseteq Nat, S # {}
  PROVE  Min(S) \in S
<1>1. PICK x \in S : \A y \in S : <<y, x>> \notin OpToRel(<, Nat)
  BY NatLessThanWellFounded, WFMin, Zenon
<1>2. \A y \in S : ~(y < x)
  BY <1>1, Zenon DEF OpToRel
<1>3. \A y \in S : x <= y
  BY <1>2
<1>4. QED BY <1>3 DEF Min

\* A selection is made of listed members, and who is missing in it was Unavailable.
LEMMA SelectionMembers ==
  ASSUME MapsInv, NEW seen
  PROVE  /\ Selection(seen) \subseteq Nat
         /\ \A i \in Selection(seen) : At(i) \in Listed /\ At(i) \in Addresses /\ seen[At(i)] # "Unavailable"
         /\ Selection(seen) = {} => \A a \in Listed : seen[a] = "Unavailable"
<1>1. config.members \in Seq(Member) /\ Listed \subseteq Addresses
  BY ConfigTypes, ListedAddresses DEF MapsInv, Types
<1>2. DOMAIN config.members \subseteq Nat
  BY <1>1, LenProperties
<1>3. \A i \in DOMAIN config.members : At(i) \in Listed
  BY DEF At, Listed, ToSet
<1>4. ASSUME Selection(seen) = {}, NEW a \in Listed PROVE seen[a] = "Unavailable"
  <2>1. PICK i \in DOMAIN config.members : At(i) = a
    BY DEF At, Listed, ToSet
  <2>2. QED BY <1>4, <2>1 DEF Selection
<1>5. QED BY <1>1, <1>2, <1>3, <1>4 DEF Selection

\* Whom the worker chooses is the sender of a member of its selection.
LEMMA RoundRobinMembers ==
  ASSUME NEW S, S \subseteq Nat
  PROVE  \/ S = {} /\ RoundRobin(S) = NoTask
         \/ \E i \in S : RoundRobin(S) = members[At(i)]
<1>1. CASE S = {}
  BY <1>1 DEF RoundRobin
<1>2. CASE S # {}
  <2> DEFINE rest == S \ {Min(S)}
             among == IF rest = {} THEN S ELSE rest
  <2>1. among \subseteq S /\ among # {} /\ among \subseteq Nat
    BY <1>2
  <2>2. Min(among) \in S
    BY <2>1, MinIsMember
  <2>3. RoundRobin(S) = members[At(Min(among))]
    BY <1>2 DEF RoundRobin
  <2>4. QED BY <2>2, <2>3
<1>3. QED BY <1>1, <1>2

LEMMA LeastConnMembers ==
  ASSUME NEW S, S \subseteq Nat, S # {}
  PROVE  \/ \E i \in S : LeastConn(S) = members[At(i)]
         \/ LeastConn(S) = NoTask /\ \E i \in S : statuses[At(i)] # "Active"
<1>1. Min(S) \in S
  BY MinIsMember
<1>2. QED BY <1>1 DEF LeastConn

\* Steps that touch no task.
LEMMA SameTasks ==
  ASSUME WorkerInv, UNCHANGED <<members, place, address, queue, update, replaced>>,
         worker = "dead" => worker' = "dead"
  PROVE  AgesInv' /\ (checker' = checker => BlankOrQuiet')
<1>1. \A u \in Tasks : ToldToLeave(u)' <=> ToldToLeave(u)
  BY DEF ToldToLeave
<1>2. AgesInv'
  BY <1>1, SameAges DEF WorkerInv
<1>3. QED BY <1>2 DEF WorkerInv, BlankOrQuiet

LEMMA StartedWorker ==
  ASSUME WorkerInv, Started
  PROVE  WorkerInv'
<1>1. /\ worker = "start" /\ worker' = "run"
      /\ UNCHANGED <<inbox, config, untold, todo, choosing, hand, members, statuses, tasks, outcome>>
  BY DEF Started
<1>2. MapsInv'
  BY <1>1, MapsUnchanged DEF WorkerInv, MapsInv, Types, tasks
<1>3. TaskTypes' /\ HandAtRest'
  BY <1>1 DEF WorkerInv, TaskTypes, HandAtRest, Settled, Known, tasks
<1>4. QED BY <1>1, <1>2, <1>3, SameTasks DEF WorkerInv, tasks

LEMMA TellWorker ==
  ASSUME WorkerInv, NEW a \in Addresses, Tell(a)
  PROVE  WorkerInv'
<1> DEFINE m == [type |-> "keepalive", keepalive |-> config.keepalive]
<1>1. MapsInv /\ TaskTypes /\ BlankOrQuiet /\ HandAtRest /\ AgesInv
  BY DEF WorkerInv
<1>2. /\ a \in untold /\ Send(members[a], m) /\ untold' = untold \ {a}
      /\ UNCHANGED <<inbox, worker, config, todo, choosing, hand, members, statuses, place, address,
                     serving, checker, update, locked, replaced, outcome>>
  BY DEF Tell
<1>3. a \in Known /\ members[a] \in Tasks /\ m \in Messages /\ m # Removal
  <2>1. config.keepalive \in Nat
    BY <1>1, ConfigsAssumption DEF MapsInv, Types
  <2>2. QED BY <1>1, <1>2, <2>1, KnownTasks, MessageKinds DEF HandAtRest
<1> HIDE DEF m
<1>4. /\ queue' \in [Tasks -> Seq(Messages)] /\ \A u \in Tasks : Len(queue'[u]) <= Cap
      /\ \A u \in Tasks : u # members[a] => queue'[u] = queue[u]
      /\ \A u \in Tasks : ToldToLeave(u)' <=> ToldToLeave(u)
  BY <1>1, <1>2, <1>3, SendSteps, SendTellsNobody
<1>5. TaskTypes' /\ HandAtRest'
  BY <1>1, <1>2, <1>4 DEF TaskTypes, HandAtRest, Settled, Known
<1>6. BlankOrQuiet'
  BY <1>1, <1>2, <1>3, <1>4 DEF BlankOrQuiet, AgesInv, SendersInv
<1>7. AgesInv' /\ MapsInv'
  BY <1>1, <1>2, <1>4, SameAges, MapsUnchanged DEF MapsInv, Types
<1>8. QED BY <1>5, <1>6, <1>7 DEF WorkerInv

\* Whoever loses its sender is over or has the removal in its channel.
LEMMA LeaveWorker ==
  ASSUME WorkerInv, NEW a \in Addresses, Leave(a)
  PROVE  WorkerInv'
<1> DEFINE t == members[a]
<1>1. MapsInv' /\ MapsInv /\ TaskTypes /\ BlankOrQuiet /\ HandAtRest /\ AgesInv
  BY LeaveMaps DEF WorkerInv
<1>2. /\ worker = "run" /\ untold = {} /\ todo = <<>> /\ a \in Known
      /\ Send(t, Removal) /\ members' = [members EXCEPT ![a] = NoTask]
      /\ UNCHANGED <<inbox, worker, config, untold, todo, choosing, hand, statuses, place, address,
                     serving, checker, update, locked, replaced, outcome>>
  BY DEF Leave, Removal
<1>3. t \in Tasks /\ Removal \in Messages /\ t # NoTask
  BY <1>2, KnownTasks, MessageKinds, <1>1
<1>4. address[t] = a /\ place[t] \in {"up", "panicked"}
  BY <1>1, <1>2 DEF AgesInv, SendersInv
<1>5. /\ queue' \in [Tasks -> Seq(Messages)] /\ \A u \in Tasks : Len(queue'[u]) <= Cap
      /\ \A u \in Tasks : u # t => queue'[u] = queue[u]
      /\ place[t] = "up" => Removal \in ToSet(queue'[t])
  BY <1>1, <1>2, <1>3, SendSteps DEF Over
<1>6. \A b \in Known' : b \in Known /\ b # a /\ members'[b] = members[b] /\ members[b] # t
  BY <1>1, <1>2, <1>4, KnownTasks DEF Known, AgesInv, SendersInv, MapsInv, Types
<1>7. \A u \in Tasks : u # t => (ToldToLeave(u)' <=> ToldToLeave(u))
  BY <1>2, <1>5 DEF ToldToLeave
<1>8. \A u \in Tasks : place[u] = "up" /\ ToldToLeave(u) => ToldToLeave(u)'
  BY <1>2, <1>5, <1>7 DEF ToldToLeave, Removal
<1>9. TaskTypes' /\ BlankOrQuiet'
  BY <1>1, <1>2, <1>4, <1>5 DEF TaskTypes, BlankOrQuiet
<1>10. HandAtRest'
  <2>1. hand = <<>> /\ choosing = <<>>
    BY <1>1, <1>2 DEF HandAtRest, Settled, Leave
  <2>2. QED BY <1>2, <2>1 DEF HandAtRest, ChoosingType
<1>11. BornInOrder'
  BY <1>1, <1>2 DEF AgesInv, BornInOrder
<1>12. SendersInv'
  <2> SUFFICES ASSUME NEW b \in Known'
               PROVE  /\ address'[members'[b]] = b /\ place'[members'[b]] \in {"up", "panicked"}
                      /\ \A u \in Tasks : place'[u] # "unborn" /\ address'[u] = b => u <= members'[b]
                      /\ ~ToldToLeave(members[b])'
    BY DEF SendersInv
  <2>1. b \in Known /\ members'[b] = members[b] /\ members[b] # t /\ members[b] \in Tasks
    BY <1>1, <1>6, KnownTasks
  <2>2. ~ToldToLeave(members[b])
    BY <1>1, <2>1 DEF AgesInv, SendersInv
  <2>3. ~ToldToLeave(members[b])'
    BY <1>2, <1>5, <2>1, <2>2 DEF ToldToLeave
  <2>4. QED BY <1>1, <1>2, <2>1, <2>3 DEF AgesInv, SendersInv
<1>13. SpinsForAReason'
  <2> SUFFICES ASSUME NEW u \in Tasks, place'[u] = "up", members'[address'[u]] # u, ~ToldToLeave(u)'
               PROVE  u \in replaced'
    BY DEF SpinsForAReason
  <2>1. u # t
    BY <1>2, <1>5 DEF ToldToLeave, Removal
  <2>2. address[u] \in Addresses /\ (address[u] # a => members[address[u]] # u)
        /\ (address[u] = a => members[address[u]] # u)
    BY <1>1, <1>2, <2>1 DEF MapsInv, Types
  <2>3. QED BY <1>1, <1>2, <1>7, <2>1, <2>2 DEF AgesInv, SpinsForAReason
<1>14. OlderAreTold'
  BY <1>1, <1>2, <1>8 DEF AgesInv, OlderAreTold
<1>15. QED BY <1>1, <1>9, <1>10, <1>11, <1>12, <1>13, <1>14 DEF WorkerInv, AgesInv

LEMMA ReceiveWorker ==
  ASSUME WorkerInv, Receive
  PROVE  WorkerInv'
<1>1. MapsInv' /\ MapsInv /\ TaskTypes /\ BlankOrQuiet /\ HandAtRest /\ AgesInv
  BY ReceiveMaps DEF WorkerInv
<1>2. /\ Idle /\ inbox' = Tail(inbox) /\ inbox \in Seq(Inward) /\ inbox # <<>>
      /\ UNCHANGED <<worker, hand, members, statuses, tasks, outcome>>
  BY <1>1 DEF Receive, MapsInv, Types
<1>3. Head(inbox) \in Inward /\ Len(inbox') <= Cap
  <2>1. Len(inbox) <= Cap
    BY <1>1 DEF TaskTypes
  <2>2. Head(inbox) \in Inward /\ Tail(inbox) = <<>>
    BY <1>2, <2>1, OneMessage
  <2>3. Len(inbox') = 0
    BY <1>2, <2>2
  <2>4. QED BY <2>2, <2>3 DEF Cap
<1>4. Known' = Known /\ TaskTypes'
  BY <1>1, <1>2, <1>3 DEF TaskTypes, Known, tasks
<1>5. HandAtRest'
  <2>1. CASE Head(inbox).type = "config" /\ Update(Head(inbox).config)
    <3>1. untold' \subseteq Known /\ UNCHANGED choosing /\ hand = <<>> /\ choosing = <<>>
      BY <1>2, <2>1 DEF Update, Idle
    <3>2. QED BY <1>1, <1>2, <1>4, <3>1 DEF HandAtRest
  <2>2. CASE /\ Head(inbox).type = "request" /\ choosing' = <<Head(inbox).request>>
             /\ UNCHANGED <<config, untold, todo>>
    <3>1. Head(inbox).request \in Requests
      BY <1>3, <2>2 DEF Inward
    <3>2. choosing' \in ChoosingType
      BY <2>2, <3>1 DEF ChoosingType
    <3>3. Settled'
      BY <1>2, <1>4, <2>2 DEF Idle, Settled, Listed
    <3>4. QED BY <1>1, <1>2, <1>4, <2>2, <3>2, <3>3 DEF HandAtRest, Idle
  <2>3. QED BY <2>1, <2>2 DEF Receive
<1>6. QED BY <1>1, <1>2, <1>4, <1>5, SameTasks DEF WorkerInv, tasks

LEMMA ChoosingKinds ==
  ASSUME choosing \in ChoosingType
  PROVE  /\ choosing = <<>> \/ choosing[1] \in Requests
         /\ Len(choosing) = 1 => choosing # <<>>
         /\ Len(choosing) = 2 => choosing # <<>> /\ choosing[2] \in [Addresses -> Status]
<1>1. CASE choosing = <<>>
  BY <1>1
<1>2. CASE \E r \in Requests : choosing = <<r>>
  BY <1>2
<1>3. CASE choosing \in Requests \X [Addresses -> Status]
  BY <1>3
<1>4. QED BY <1>1, <1>2, <1>3 DEF ChoosingType

\* What the worker takes in hand is for a task with a sender.
LEMMA HandsWorker ==
  ASSUME WorkerInv, Settled, hand = <<>>, choosing' = <<>>, NEW r \in Requests, NEW task,
         task = NoTask \/ \E a \in Known : task = members[a], Hands(r, task),
         UNCHANGED <<inbox, worker, config, untold, todo, members, statuses, tasks>>
  PROVE  WorkerInv'
<1>1. MapsInv /\ TaskTypes /\ BlankOrQuiet /\ HandAtRest /\ AgesInv
  BY DEF WorkerInv
<1>2. MapsInv'
  BY <1>1, MapsUnchanged DEF MapsInv, Types, tasks
<1>3. Known' = Known /\ Settled'
  BY DEF Settled, Known, Listed
<1>4. CASE task = NoTask
  <2>1. outcome' = [outcome EXCEPT ![r] = "dropped"] /\ UNCHANGED hand
    BY <1>4 DEF Hands
  <2>2. TaskTypes' /\ HandAtRest'
    BY <1>1, <1>3, <2>1 DEF TaskTypes, HandAtRest, ChoosingType, tasks
  <2>3. QED BY <1>2, <2>2, SameTasks DEF WorkerInv, tasks
<1>5. CASE task # NoTask
  <2>1. hand' = <<r, task>> /\ UNCHANGED outcome
    BY <1>5 DEF Hands
  <2>2. PICK a \in Known : task = members[a]
    BY <1>5
  <2>3. task \in Tasks
    BY <1>1, <2>2, KnownTasks
  <2>4. TaskTypes'
    BY <1>1, <2>1, <2>3 DEF TaskTypes, tasks
  <2>5. HandAtRest'
    BY <1>1, <1>3, <2>1, <2>2 DEF HandAtRest, ChoosingType
  <2>6. QED BY <1>2, <2>4, <2>5, SameTasks DEF WorkerInv, tasks
<1>6. QED BY <1>4, <1>5

\* A choice out of a selection is nobody, or has a sender.
LEMMA ChoicesHaveSenders ==
  ASSUME MapsInv, NEW seen
  PROVE  /\ \/ RoundRobin(Selection(seen)) = NoTask
            \/ \E a \in Known : RoundRobin(Selection(seen)) = members[a]
         /\ Selection(seen) # {} =>
              \/ LeastConn(Selection(seen)) = NoTask
              \/ \E a \in Known : LeastConn(Selection(seen)) = members[a]
<1>1. Selection(seen) \subseteq Nat /\ \A i \in Selection(seen) : At(i) \in Addresses
  BY SelectionMembers
<1>2. \A i \in Selection(seen) : members[At(i)] # NoTask => At(i) \in Known
  BY <1>1 DEF Known
<1>3. QED BY <1>1, <1>2, RoundRobinMembers, LeastConnMembers

LEMMA SelectWorker ==
  ASSUME WorkerInv, Select
  PROVE  WorkerInv'
<1>1. MapsInv /\ TaskTypes /\ BlankOrQuiet /\ HandAtRest /\ AgesInv
  BY DEF WorkerInv
<1>2. /\ Len(choosing) = 1
      /\ UNCHANGED <<inbox, worker, config, untold, todo, members, statuses, tasks>>
  BY DEF Select
<1>3. choosing \in ChoosingType /\ choosing # <<>> /\ choosing[1] \in Requests
  BY <1>1, <1>2, ChoosingKinds DEF HandAtRest
<1>4. Settled /\ hand = <<>>
  BY <1>1, <1>3 DEF HandAtRest
<1>5. CASE config.lb_method = "RoundRobin"
  <2>1. choosing' = <<>> /\ Hands(choosing[1], RoundRobin(Selection(statuses)))
    BY <1>5 DEF Select
  <2>2. QED BY <1>1, <1>2, <1>3, <1>4, <2>1, HandsWorker, ChoicesHaveSenders
<1>6. CASE config.lb_method # "RoundRobin"
  <2>1. choosing' = <<choosing[1], statuses>> /\ UNCHANGED <<hand, outcome>>
    BY <1>3, <1>6 DEF Select
  <2>2. statuses \in [Addresses -> Status]
    BY <1>1 DEF MapsInv, Types
  <2>3. choosing' \in ChoosingType
    BY <1>3, <2>1, <2>2 DEF ChoosingType
  <2>4. Known' = Known /\ Settled' /\ config'.lb_method = "LeastConn"
    BY <1>1, <1>2, <1>4, <1>6, ConfigsAssumption DEF Settled, Known, Listed, MapsInv, Types
  <2>5. TaskTypes' /\ HandAtRest'
    BY <1>1, <1>2, <1>4, <2>1, <2>3, <2>4 DEF TaskTypes, HandAtRest, tasks
  <2>6. MapsInv'
    BY <1>1, <1>2, MapsUnchanged DEF MapsInv, Types, tasks
  <2>7. QED BY <1>2, <2>5, <2>6, SameTasks DEF WorkerInv, tasks
<1>7. QED BY <1>5, <1>6

\* When the worker panics nothing is in hand, and nobody has a sender any more.
LEMMA DiesWorker ==
  ASSUME WorkerInv, MapsInv', Dies, choosing # <<>>, choosing' = <<>>,
         UNCHANGED <<config, untold, todo, statuses, tasks>>
  PROVE  WorkerInv'
<1>1. MapsInv /\ TaskTypes /\ BlankOrQuiet /\ HandAtRest /\ AgesInv
  BY DEF WorkerInv
<1>2. /\ worker' = "dead" /\ members' = [a \in Addresses |-> NoTask] /\ inbox' = <<>> /\ UNCHANGED hand
      /\ UNCHANGED <<place, address, queue, serving, checker, update, locked, replaced>>
  BY DEF Dies, tasks
<1>3. hand = <<>> /\ untold = {}
  BY <1>1 DEF HandAtRest, Settled
<1>4. Known' = {} /\ \A a \in Addresses : members'[a] = NoTask
  BY <1>2 DEF Known
<1>5. outcome' \in [Requests -> {"unsent", "waiting", "answered", "dropped"}]
  BY <1>1 DEF Dies, TaskTypes
<1>6. Len(inbox') <= Cap
  BY <1>2 DEF Cap
<1>7. TaskTypes' /\ BlankOrQuiet' /\ HandAtRest'
  BY <1>1, <1>2, <1>3, <1>5, <1>6 DEF TaskTypes, BlankOrQuiet, HandAtRest, ChoosingType
<1>8. \A u \in Tasks : ToldToLeave(u)' <=> ToldToLeave(u)
  BY <1>2 DEF ToldToLeave
<1>9. BornInOrder' /\ OlderAreTold'
  BY <1>1, <1>2, <1>8 DEF AgesInv, BornInOrder, OlderAreTold
<1>10. SendersInv' /\ SpinsForAReason'
  BY <1>2, <1>4 DEF SendersInv, SpinsForAReason
<1>11. QED BY <1>7, <1>9, <1>10 DEF WorkerInv, AgesInv

LEMMA ChooseWorker ==
  ASSUME WorkerInv, Choose
  PROVE  WorkerInv'
<1>1. MapsInv' /\ MapsInv /\ TaskTypes /\ BlankOrQuiet /\ HandAtRest /\ AgesInv
  BY ChooseMaps DEF WorkerInv
<1>2. Len(choosing) = 2 /\ choosing' = <<>> /\ UNCHANGED <<config, untold, todo, statuses, tasks>>
  BY DEF Choose
<1>3. choosing # <<>> /\ choosing[1] \in Requests /\ Settled /\ hand = <<>>
  BY <1>1, <1>2, ChoosingKinds DEF HandAtRest
<1>4. CASE Panics(choosing[2])
  BY <1>1, <1>2, <1>3, <1>4, DiesWorker DEF Choose
<1>5. CASE ~Panics(choosing[2])
  <2>1. /\ Hands(choosing[1], LeastConn(Selection(choosing[2])))
        /\ UNCHANGED <<inbox, worker, members>> /\ Selection(choosing[2]) # {}
    BY <1>5 DEF Choose, Panics
  <2>2. QED BY <1>1, <1>2, <1>3, <2>1, HandsWorker, ChoicesHaveSenders
<1>6. QED BY <1>4, <1>5

LEMMA ForwardWorker ==
  ASSUME WorkerInv, Forward
  PROVE  WorkerInv'
<1> DEFINE m == [type |-> "request", request |-> hand[1]]
<1>1. MapsInv /\ TaskTypes /\ BlankOrQuiet /\ HandAtRest /\ AgesInv
  BY DEF WorkerInv
<1>2. /\ hand # <<>> /\ Send(hand[2], m) /\ hand' = <<>>
      /\ outcome' = IF Over(hand[2]) THEN [outcome EXCEPT ![hand[1]] = "dropped"] ELSE outcome
      /\ UNCHANGED <<inbox, worker, config, untold, todo, choosing, members, statuses, place, address,
                     serving, checker, update, locked, replaced>>
  BY DEF Forward
<1>3. hand[1] \in Requests /\ hand[2] \in Tasks
  BY <1>1, <1>2 DEF TaskTypes
<1>4. PICK a \in Known : hand[2] = members[a]
  BY <1>1, <1>2 DEF HandAtRest
<1>5. m \in Messages /\ m # Removal
  BY <1>3, MessageKinds
<1> HIDE DEF m
<1>6. /\ queue' \in [Tasks -> Seq(Messages)] /\ \A u \in Tasks : Len(queue'[u]) <= Cap
      /\ \A u \in Tasks : u # hand[2] => queue'[u] = queue[u]
      /\ \A u \in Tasks : ToldToLeave(u)' <=> ToldToLeave(u)
  BY <1>1, <1>2, <1>3, <1>5, SendSteps, SendTellsNobody
<1>7. TaskTypes' /\ HandAtRest'
  BY <1>1, <1>2, <1>3, <1>6 DEF TaskTypes, HandAtRest, Settled, Known, Listed
<1>8. BlankOrQuiet'
  BY <1>1, <1>2, <1>4, <1>6 DEF BlankOrQuiet, AgesInv, SendersInv
<1>9. AgesInv' /\ MapsInv'
  BY <1>1, <1>2, <1>6, SameAges, MapsUnchanged DEF MapsInv, Types
<1>10. QED BY <1>7, <1>8, <1>9 DEF WorkerInv

\* A task that was told to leave and returns has no sender any more.
LEMMA Returns ==
  ASSUME WorkerInv, NEW t \in Tasks, ToldToLeave(t), place[t] # "unborn",
         place' = [place EXCEPT ![t] = "returned"],
         \A u \in Tasks : u # t => (ToldToLeave(u)' <=> ToldToLeave(u)),
         UNCHANGED <<worker, members, address, replaced>>
  PROVE  AgesInv'
<1>1. MapsInv /\ TaskTypes /\ AgesInv
  BY DEF WorkerInv
<1>2. place'[t] = "returned" /\ \A u \in Tasks : u # t => place'[u] = place[u]
  BY <1>1 DEF TaskTypes
<1>3. BornInOrder'
  BY <1>1, <1>2 DEF AgesInv, BornInOrder
<1>4. SendersInv'
  <2> SUFFICES ASSUME NEW b \in Known'
               PROVE  /\ address'[members'[b]] = b /\ place'[members'[b]] \in {"up", "panicked"}
                      /\ \A u \in Tasks : place'[u] # "unborn" /\ address'[u] = b => u <= members'[b]
                      /\ ~ToldToLeave(members[b])'
    BY DEF SendersInv
  <2>1. b \in Known /\ members'[b] = members[b]
    BY DEF Known
  <2>2. members[b] \in Tasks /\ ~ToldToLeave(members[b])
    BY <1>1, <2>1, KnownTasks DEF AgesInv, SendersInv
  <2>3. members[b] # t
    BY <2>2
  <2>4. ~ToldToLeave(members[b])'
    BY <2>1, <2>2, <2>3 DEF ToldToLeave
  <2>5. QED BY <1>1, <1>2, <2>1, <2>2, <2>3, <2>4 DEF AgesInv, SendersInv
<1>5. SpinsForAReason' /\ OlderAreTold'
  BY <1>1, <1>2 DEF AgesInv, SpinsForAReason, OlderAreTold
<1>6. QED BY <1>3, <1>4, <1>5 DEF AgesInv

\* A task that takes a removal it has to stop its checker for is still told.
LEMMA TaskReceivesWorker ==
  ASSUME WorkerInv, NEW t \in Tasks, TaskReceives(t)
  PROVE  WorkerInv'
<1>1. MapsInv /\ TaskTypes /\ BlankOrQuiet /\ HandAtRest /\ AgesInv
  BY DEF WorkerInv
<1>2. /\ place[t] = "up" /\ update[t] = <<>> /\ queue[t] # <<>>
      /\ UNCHANGED <<inbox, worker, config, untold, todo, choosing, hand, members, statuses, address,
                     locked, replaced, outcome>>
  BY DEF TaskReceives, own
<1>3. queue[t] \in Seq(Messages) /\ Len(queue[t]) <= Cap /\ Head(queue[t]) \in Messages
      /\ ToSet(queue[t]) = {Head(queue[t])} /\ Tail(queue[t]) = <<>>
  BY <1>1, <1>2, OneMessage DEF TaskTypes
<1> DEFINE message == Head(queue[t])
<1>4. queue' = [queue EXCEPT ![t] = <<>>]
  BY <1>3, <1>1 DEF TaskReceives, TaskTypes
<1>5. /\ queue' \in [Tasks -> Seq(Messages)] /\ \A u \in Tasks : Len(queue'[u]) <= Cap
      /\ \A u \in Tasks : u # t => queue'[u] = queue[u]
      /\ queue'[t] = <<>> /\ ToSet(queue'[t]) = {}
  <2>1. <<>> \in Seq(Messages) /\ Len(<<>>) <= Cap
    BY EmptySeq DEF Cap
  <2>2. queue'[t] = <<>> /\ \A u \in Tasks : u # t => queue'[u] = queue[u]
    BY <1>1, <1>4 DEF TaskTypes
  <2>3. ToSet(queue'[t]) = {}
    BY <2>2 DEF ToSet
  <2>4. QED BY <1>1, <1>4, <2>1, <2>2, <2>3 DEF TaskTypes
<1>6. MapsInv'
  BY <1>1, <1>2, MapsUnchanged DEF MapsInv, Types
<1>7. HandAtRest'
  BY <1>1, <1>2 DEF HandAtRest, Settled, Known, Listed
<1>8. ToSet(update[t]) = {} /\ (ToldToLeave(t) <=> message = Removal)
  <2>1. ToSet(update[t]) = {}
    BY <1>2 DEF ToSet
  <2>2. QED BY <1>3, <2>1 DEF ToldToLeave, Removal
<1> HIDE DEF message
<1>9. CASE message.type = "remove" /\ checker[t] = "none"
  <2>1. message = Removal
    BY <1>3, <1>9 DEF Messages, Changes, Removal, message
  <2>2. place' = [place EXCEPT ![t] = "returned"] /\ UNCHANGED <<update, serving, checker>>
    BY <1>9 DEF TaskReceives, TaskRemoved, TaskKeepalive, TaskServes, message
  <2>3. \A u \in Tasks : u # t => (ToldToLeave(u)' <=> ToldToLeave(u))
    BY <1>5, <2>2 DEF ToldToLeave
  <2>4. AgesInv'
    BY <1>2, <1>8, <2>1, <2>2, <2>3, Returns
  <2>5. TaskTypes'
    BY <1>1, <1>2, <1>5, <2>2 DEF TaskTypes
  <2>6. place'[t] = "returned" /\ \A u \in Tasks : u # t => place'[u] = place[u]
    BY <1>1, <2>2 DEF TaskTypes
  <2>7. BlankOrQuiet'
    BY <1>1, <1>5, <1>9, <2>2, <2>6 DEF BlankOrQuiet
  <2>8. QED BY <1>6, <1>7, <2>4, <2>5, <2>7 DEF WorkerInv
<1>10. CASE ~(message.type = "remove" /\ checker[t] = "none")
  <2>1. /\ UNCHANGED place
        /\ \/ UNCHANGED <<serving, update>> /\ message.type = "keepalive"
              /\ \E c \in {"none", "start"} : checker' = [checker EXCEPT ![t] = c]
           \/ UNCHANGED <<serving, checker>> /\ update' = [update EXCEPT ![t] = <<message>>]
              /\ message.type \in {"keepalive", "remove"}
           \/ /\ message.type = "request" /\ UNCHANGED <<checker, update>>
              /\ serving' = [serving EXCEPT ![t] = message.request]
    <3>1. CASE TaskKeepalive(t)
      BY <3>1 DEF TaskKeepalive, message
    <3>2. CASE TaskRemoved(t)
      BY <1>10, <3>2 DEF TaskRemoved, message
    <3>3. CASE TaskServes(t)
      BY <3>3 DEF TaskServes, message
    <3>4. QED BY <3>1, <3>2, <3>3 DEF TaskReceives
  <2>2. /\ serving' \in [Tasks -> Requests \cup {Nobody}]
        /\ checker' \in [Tasks -> Status \cup {"start"}]
        /\ \A u \in Tasks : u # t => checker'[u] = checker[u]
    <3>1. message.type = "request" => message.request \in Requests
      BY <1>3 DEF message, Messages, Changes
    <3>2. /\ serving \in [Tasks -> Requests \cup {Nobody}] /\ checker \in [Tasks -> Status \cup {"start"}]
          /\ "none" \in Status
      BY <1>1 DEF TaskTypes, Status
    <3>3. CASE UNCHANGED serving /\ \E c \in {"none", "start"} : checker' = [checker EXCEPT ![t] = c]
      BY <3>2, <3>3
    <3>4. CASE UNCHANGED <<serving, checker>>
      BY <3>2, <3>4
    <3>5. CASE UNCHANGED checker /\ message.type = "request" /\ serving' = [serving EXCEPT ![t] = message.request]
      BY <3>1, <3>2, <3>5
    <3>6. QED BY <2>1, <3>3, <3>4, <3>5
  <2>3. /\ update' \in [Tasks -> Seq(Changes)] /\ \A u \in Tasks : Len(update'[u]) <= 1
        /\ \A u \in Tasks : u # t => update'[u] = update[u]
        /\ \/ update'[t] = <<>> /\ message.type # "remove"
           \/ update'[t] = <<message>>
    <3>1. CASE UNCHANGED update /\ message.type # "remove"
      BY <1>1, <1>2, <3>1 DEF TaskTypes
    <3>2. CASE update' = [update EXCEPT ![t] = <<message>>] /\ message.type \in {"keepalive", "remove"}
      <4>1. message \in Changes
        BY <1>3, <3>2 DEF message, Messages, Changes
      <4>2. <<message>> \in Seq(Changes) /\ Len(<<message>>) <= 1
        BY <4>1
      <4>3. QED BY <1>1, <3>2, <4>2 DEF TaskTypes
    <3>3. QED BY <2>1, <3>1, <3>2
  <2>4. \A u \in Tasks : ToldToLeave(u)' <=> ToldToLeave(u)
    <3>1. \A u \in Tasks : u # t => (ToldToLeave(u)' <=> ToldToLeave(u))
      BY <1>5, <2>3 DEF ToldToLeave
    <3>2. CASE update'[t] = <<>> /\ message.type # "remove"
      <4>1. ToSet(update'[t]) = {} /\ message # Removal
        BY <3>2 DEF ToSet, Removal
      <4>2. ~ToldToLeave(t)' /\ ~ToldToLeave(t)
        BY <1>5, <1>8, <4>1 DEF ToldToLeave
      <4>3. QED BY <3>1, <4>2
    <3>3. CASE update'[t] = <<message>>
      <4>1. ToSet(update'[t]) = {message}
        BY <3>3 DEF ToSet
      <4>2. ToldToLeave(t)' <=> message = Removal
        BY <1>5, <4>1 DEF ToldToLeave, Removal
      <4>3. QED BY <1>8, <3>1, <4>2
    <3>4. QED BY <2>3, <3>2, <3>3
  <2>5. AgesInv'
    BY <1>1, <1>2, <2>1, <2>4, SameAges
  <2>6. TaskTypes'
    BY <1>1, <1>2, <1>5, <2>1, <2>2, <2>3 DEF TaskTypes
  <2>7. BlankOrQuiet'
    BY <1>1, <1>2, <1>5, <2>1, <2>2, <2>3 DEF BlankOrQuiet
  <2>8. QED BY <1>6, <1>7, <2>5, <2>6, <2>7 DEF WorkerInv
<1>11. QED BY <1>9, <1>10

\* The end of a removal is the end of a task that was told; that of another update leaves
\* the ages alone.
LEMMA UpdateEndsWorker ==
  ASSUME WorkerInv, NEW t \in Tasks, UpdateEnds(t)
  PROVE  WorkerInv'
<1> DEFINE message == Head(update[t])
           removed == message.type = "remove"
<1>1. MapsInv /\ TaskTypes /\ BlankOrQuiet /\ HandAtRest /\ AgesInv
  BY DEF WorkerInv
<1>2. /\ update[t] # <<>> /\ update' = [update EXCEPT ![t] = <<>>]
      /\ checker' = [checker EXCEPT ![t] = IF removed \/ message.keepalive = NoKeepalive THEN "none" ELSE @]
      /\ place' = [place EXCEPT ![t] = IF removed THEN "returned" ELSE @]
      /\ UNCHANGED <<inbox, own, statuses, address, queue, serving, locked, replaced, outcome>>
  BY DEF UpdateEnds
<1>3. message \in Changes /\ ToSet(update[t]) = {message}
  BY <1>1, <1>2, OneMessage DEF TaskTypes, Cap
<1> HIDE DEF message
<1>4. place[t] # "unborn"
  BY <1>1, <1>2 DEF BlankOrQuiet
<1>5. /\ update' \in [Tasks -> Seq(Changes)] /\ \A u \in Tasks : Len(update'[u]) <= 1
      /\ update'[t] = <<>> /\ \A u \in Tasks : u # t => update'[u] = update[u]
  <2>1. <<>> \in Seq(Changes) /\ Len(<<>>) <= 1
    BY EmptySeq
  <2>2. QED BY <1>1, <1>2, <2>1 DEF TaskTypes
<1>6. \A u \in Tasks : u # t => (ToldToLeave(u)' <=> ToldToLeave(u))
  BY <1>2, <1>5 DEF ToldToLeave
<1>7. UNCHANGED <<inbox, worker, config, untold, todo, choosing, hand, members>>
  BY <1>2 DEF own
<1>8. MapsInv'
  BY <1>1, <1>2, <1>7, MapsUnchanged DEF MapsInv, Types
<1>9. HandAtRest'
  BY <1>1, <1>7 DEF HandAtRest, Settled, Known, Listed
<1>10. /\ checker' \in [Tasks -> Status \cup {"start"}]
       /\ place' \in [Tasks -> {"unborn", "up", "returned", "panicked"}]
       /\ \A u \in Tasks : u # t => checker'[u] = checker[u] /\ place'[u] = place[u]
  BY <1>1, <1>2 DEF TaskTypes, Status
<1>11. TaskTypes'
  BY <1>1, <1>2, <1>5, <1>7, <1>10 DEF TaskTypes
<1>12. CASE removed
  <2>1. place' = [place EXCEPT ![t] = "returned"] /\ checker' = [checker EXCEPT ![t] = "none"]
    BY <1>2, <1>12
  <2>2. message = Removal
    BY <1>3, <1>12 DEF Changes, Removal
  <2>3. ToldToLeave(t)
    BY <1>3, <2>2 DEF ToldToLeave, Removal
  <2>4. AgesInv'
    BY <1>2, <1>4, <1>6, <1>7, <2>1, <2>3, Returns
  <2>5. place'[t] = "returned" /\ checker'[t] = "none"
    BY <1>1, <2>1 DEF TaskTypes
  <2>6. BlankOrQuiet'
    BY <1>1, <1>2, <1>5, <1>10, <2>5 DEF BlankOrQuiet
  <2>7. QED BY <1>8, <1>9, <1>11, <2>4, <2>6 DEF WorkerInv
<1>13. CASE ~removed
  <2>1. UNCHANGED place
    BY <1>1, <1>2, <1>13 DEF TaskTypes
  <2>2. message # Removal
    BY <1>13 DEF Removal
  <2>3. ToldToLeave(t)' <=> ToldToLeave(t)
    <3>1. ToSet(update'[t]) = {}
      BY <1>5 DEF ToSet
    <3>2. QED BY <1>2, <1>3, <2>2, <3>1 DEF ToldToLeave, Removal
  <2>4. AgesInv'
    BY <1>1, <1>2, <1>6, <1>7, <2>1, <2>3, SameAges
  <2>5. checker'[t] \in {checker[t], "none"}
    BY <1>1, <1>2 DEF TaskTypes
  <2>6. BlankOrQuiet'
    BY <1>1, <1>2, <1>5, <1>10, <2>1, <2>5 DEF BlankOrQuiet
  <2>7. QED BY <1>8, <1>9, <1>11, <2>4, <2>6 DEF WorkerInv
<1>14. QED BY <1>12, <1>13

LEMMA LocksUpWorker ==
  ASSUME WorkerInv, NEW t \in Tasks, LocksUp(t)
  PROVE  WorkerInv'
<1>1. MapsInv /\ TaskTypes /\ HandAtRest
  BY DEF WorkerInv
<1>2. /\ locked' \in [Tasks -> {"no", "yes", "holding"}]
      /\ UNCHANGED <<inbox, own, statuses, place, address, queue, serving, checker, update, replaced, outcome>>
  BY <1>1 DEF LocksUp, TaskTypes
<1>3. MapsInv'
  BY <1>1, <1>2, MapsUnchanged DEF MapsInv, Types, own
<1>4. TaskTypes' /\ HandAtRest'
  BY <1>1, <1>2 DEF TaskTypes, HandAtRest, Settled, Known, Listed, own
<1>5. AgesInv' /\ BlankOrQuiet'
  BY <1>2, SameTasks DEF own
<1>6. QED BY <1>3, <1>4, <1>5 DEF WorkerInv

LEMMA TaskAnswersWorker ==
  ASSUME WorkerInv, NEW t \in Tasks, TaskAnswers(t)
  PROVE  WorkerInv'
<1>1. MapsInv /\ TaskTypes /\ BlankOrQuiet /\ HandAtRest /\ AgesInv
  BY DEF WorkerInv
<1>2. /\ serving[t] # Nobody /\ outcome' = [outcome EXCEPT ![serving[t]] = "answered"]
      /\ serving' = [serving EXCEPT ![t] = Nobody]
      /\ UNCHANGED <<inbox, own, statuses, place, address, queue, checker, update, locked, replaced>>
  BY DEF TaskAnswers
<1>3. TaskTypes' /\ HandAtRest'
  BY <1>1, <1>2 DEF TaskTypes, HandAtRest, Settled, Known, Listed, own
<1>4. MapsInv'
  BY <1>1, <1>2, MapsUnchanged DEF MapsInv, Types, own
<1>5. AgesInv' /\ BlankOrQuiet'
  BY <1>2, SameTasks DEF own
<1>6. QED BY <1>3, <1>4, <1>5 DEF WorkerInv

\* A task that panics keeps its sender, and is none of the tasks that go on.
LEMMA TaskPanicsWorker ==
  ASSUME WorkerInv, NEW t \in Tasks, TaskPanics(t)
  PROVE  WorkerInv'
<1>1. MapsInv /\ TaskTypes /\ BlankOrQuiet /\ HandAtRest /\ AgesInv
  BY DEF WorkerInv
<1>2. /\ place[t] = "up" /\ place' = [place EXCEPT ![t] = "panicked"]
      /\ queue' = [queue EXCEPT ![t] = <<>>] /\ serving' = [serving EXCEPT ![t] = Nobody]
      /\ UNCHANGED <<inbox, own, statuses, address, checker, update, locked, replaced>>
  BY DEF TaskPanics
<1>3. outcome' \in [Requests -> {"unsent", "waiting", "answered", "dropped"}]
  BY <1>1 DEF TaskPanics, TaskTypes
<1>4. /\ place'[t] = "panicked" /\ queue'[t] = <<>> /\ (ToldToLeave(t)' => ToldToLeave(t))
      /\ \A u \in Tasks : u # t => /\ place'[u] = place[u] /\ queue'[u] = queue[u]
                                   /\ (ToldToLeave(u)' <=> ToldToLeave(u))
  <2>1. /\ place'[t] = "panicked" /\ queue'[t] = <<>>
        /\ \A u \in Tasks : u # t => place'[u] = place[u] /\ queue'[u] = queue[u]
    BY <1>1, <1>2 DEF TaskTypes
  <2>2. Removal \notin ToSet(queue'[t])
    BY <2>1 DEF ToSet
  <2>3. QED BY <1>2, <2>1, <2>2 DEF ToldToLeave, Removal
<1>5. TaskTypes' /\ HandAtRest'
  <2>1. <<>> \in Seq(Messages) /\ Len(<<>>) <= Cap
    BY EmptySeq DEF Cap
  <2>2. QED BY <1>1, <1>2, <1>3, <1>4, <2>1 DEF TaskTypes, HandAtRest, Settled, Known, Listed, own
<1>6. MapsInv'
  BY <1>1, <1>2, MapsUnchanged DEF MapsInv, Types, own
<1>7. BlankOrQuiet' /\ BornInOrder'
  BY <1>1, <1>2, <1>4 DEF BlankOrQuiet, AgesInv, BornInOrder
<1>8. SendersInv'
  <2> SUFFICES ASSUME NEW b \in Known'
               PROVE  /\ address'[members'[b]] = b /\ place'[members'[b]] \in {"up", "panicked"}
                      /\ \A u \in Tasks : place'[u] # "unborn" /\ address'[u] = b => u <= members'[b]
                      /\ ~ToldToLeave(members[b])'
    BY DEF SendersInv
  <2>1. b \in Known /\ members'[b] = members[b] /\ UNCHANGED address
    BY <1>2 DEF Known, own
  <2>2. members[b] \in Tasks /\ ~ToldToLeave(members[b])
    BY <1>1, <2>1, KnownTasks DEF AgesInv, SendersInv
  <2>3. ~ToldToLeave(members[b])'
    BY <1>4, <2>1, <2>2 DEF ToldToLeave
  <2>4. QED BY <1>1, <1>2, <1>4, <2>1, <2>2, <2>3 DEF AgesInv, SendersInv
<1>9. SpinsForAReason' /\ OlderAreTold'
  BY <1>1, <1>2, <1>4 DEF AgesInv, SpinsForAReason, OlderAreTold, own
<1>10. QED BY <1>5, <1>6, <1>7, <1>8, <1>9 DEF WorkerInv, AgesInv

LEMMA CheckerWorker ==
  ASSUME WorkerInv, NEW t \in Tasks, CheckerStarts(t) \/ Verdict(t)
  PROVE  WorkerInv'
<1>1. MapsInv /\ TaskTypes /\ BlankOrQuiet /\ HandAtRest /\ AgesInv
  BY DEF WorkerInv
<1>2. UNCHANGED <<inbox, own, place, address, queue, serving, update, locked, replaced, outcome>>
  BY DEF CheckerStarts, Verdict, tasks
<1>3. CASE CheckerStarts(t)
  <2>1. /\ checker[t] = "start" /\ checker' = [checker EXCEPT ![t] = statuses[address[t]]]
        /\ UNCHANGED statuses
    BY <1>3 DEF CheckerStarts
  <2>2. statuses[address[t]] \in Status
    BY <1>1 DEF MapsInv, Types
  <2>3. checker' \in [Tasks -> Status \cup {"start"}] /\ \A u \in Tasks : u # t => checker'[u] = checker[u]
    BY <1>1, <2>1, <2>2 DEF TaskTypes
  <2>4. BlankOrQuiet'
    BY <1>1, <1>2, <2>1, <2>3 DEF BlankOrQuiet
  <2>5. MapsInv'
    BY <1>1, <1>2, <2>1, MapsUnchanged DEF MapsInv, Types, own
  <2>6. TaskTypes' /\ HandAtRest'
    BY <1>1, <1>2, <2>3 DEF TaskTypes, HandAtRest, Settled, Known, Listed, own
  <2>7. QED BY <1>2, <2>4, <2>5, <2>6, SameTasks DEF WorkerInv, own
<1>4. CASE Verdict(t)
  <2>1. UNCHANGED checker
    BY <1>4 DEF Verdict, tasks
  <2>2. MapsInv'
    BY <1>1, <1>4, VerdictMaps
  <2>3. TaskTypes' /\ HandAtRest'
    BY <1>1, <1>2, <2>1 DEF TaskTypes, HandAtRest, Settled, Known, Listed, own
  <2>4. QED BY <1>2, <2>1, <2>2, <2>3, SameTasks DEF WorkerInv, own
<1>5. QED BY <1>3, <1>4

LEMMA SentWorker ==
  ASSUME WorkerInv, MapsInv', (\E c \in Configs : SendUpdate(c)) \/ (\E r \in Requests : SendRequest(r))
  PROVE  WorkerInv'
<1>1. MapsInv /\ TaskTypes /\ BlankOrQuiet /\ HandAtRest /\ AgesInv
  BY DEF WorkerInv
<1>2. UNCHANGED <<own, statuses, tasks>>
  BY DEF SendUpdate, SendRequest
<1>3. Len(inbox') <= Cap
  <2>1. inbox \in Seq(Inward) /\ Len(inbox) <= Cap /\ Len(inbox) \in Nat
    BY <1>1, LenProperties DEF MapsInv, Types, TaskTypes
  <2>2. \A m : Len(inbox) < Cap => Len(Append(inbox, m)) <= Cap
    BY <2>1 DEF Cap
  <2>3. CASE \E c \in Configs : SendUpdate(c)
    BY <2>2, <2>3 DEF SendUpdate
  <2>4. CASE \E r \in Requests : SendRequest(r)
    BY <2>1, <2>2, <2>4 DEF SendRequest
  <2>5. QED BY <2>3, <2>4
<1>4. outcome' \in [Requests -> {"unsent", "waiting", "answered", "dropped"}]
  BY <1>1 DEF SendUpdate, SendRequest, TaskTypes
<1>5. TaskTypes' /\ HandAtRest'
  BY <1>1, <1>2, <1>3, <1>4 DEF TaskTypes, HandAtRest, Settled, Known, Listed, own, tasks
<1>6. AgesInv' /\ BlankOrQuiet'
  BY <1>2, SameTasks DEF own, tasks
<1>7. QED BY <1>5, <1>6 DEF WorkerInv

LEMMA NextWorker == WorkerInv /\ [Next]_vars => WorkerInv'
<1> SUFFICES ASSUME WorkerInv, [Next]_vars PROVE WorkerInv'
  OBVIOUS
<1>1. MapsInv'
  BY NextMaps DEF WorkerInv
<1>2. CASE Add \/ Started \/ Receive \/ Select \/ Choose \/ Forward
  BY <1>2, AddWorker, StartedWorker, ReceiveWorker, SelectWorker, ChooseWorker, ForwardWorker
<1>3. CASE \E a \in Addresses : Tell(a) \/ Leave(a)
  BY <1>3, TellWorker, LeaveWorker
<1>4. CASE \E t \in Tasks : \/ TaskStep(t) \/ UpdateEnds(t) \/ LocksUp(t) \/ TaskPanics(t)
                          \/ CheckerStarts(t) \/ Verdict(t)
  BY <1>4, TaskReceivesWorker, UpdateEndsWorker, LocksUpWorker, TaskAnswersWorker, TaskPanicsWorker,
     CheckerWorker DEF TaskStep
<1>5. CASE (\E c \in Configs : SendUpdate(c)) \/ (\E r \in Requests : SendRequest(r))
  BY <1>1, <1>5, SentWorker
<1>6. CASE UNCHANGED vars
  <2>1. UNCHANGED <<inbox, own, tasks, outcome>>
    BY <1>6 DEF vars
  <2>2. TaskTypes' /\ HandAtRest'
    BY <2>1 DEF WorkerInv, TaskTypes, HandAtRest, Settled, Known, Listed, own, tasks
  <2>3. QED BY <1>1, <2>1, <2>2, SameTasks DEF WorkerInv, own, tasks
<1>7. QED BY <1>2, <1>3, <1>4, <1>5, <1>6 DEF Next, WorkerStep

LEMMA WorkerHolds == Spec => []WorkerInv
BY InitWorker, NextWorker, PTL DEF Spec

\* For every order of updates that add, remove, add again and repeat members: whenever
\* the worker takes a message or chooses a member, its two maps have an entry for every
\* listed member, and the selection, which indexes both, misses none.
THEOREM SelectionFindsItsEntries == Spec => []ListedHaveSenders
<1>1. WorkerInv => ListedHaveSenders
  <2> SUFFICES ASSUME WorkerInv, Idle \/ choosing # <<>>
               PROVE  Known = Listed /\ \A a \in Listed : statuses[a] # "none"
    BY DEF ListedHaveSenders
  <2>1. Settled /\ MapsInv
    BY DEF WorkerInv, HandAtRest, Idle
  <2>2. \A a \in Listed : members[a] # NoTask
    BY <2>1 DEF MapsInv, Settled, ToSet
  <2>3. Listed \subseteq Addresses
    BY <2>1, ListedAddresses DEF MapsInv, Types
  <2>4. Listed \subseteq Known /\ Known \subseteq Listed
    BY <2>1, <2>2, <2>3 DEF Known, Settled
  <2>5. QED BY <2>1, <2>2, <2>3, <2>4 DEF MapsInv
<1>2. QED BY WorkerHolds, <1>1, PTL

\* Whatever updates, removals and panics come in whatever order: a sender leads to the
\* youngest task of its address, a task that goes on without one was told, replaced or
\* left by a worker that died, and only such a task, or one that panicked, has a checker
\* beside that of a younger one.
THEOREM TasksAreAccountedFor == Spec => []TasksInv
<1>1. WorkerInv => TasksInv
  <2> SUFFICES ASSUME WorkerInv PROVE TasksInv
    OBVIOUS
  <2>1. MapsInv /\ TaskTypes /\ BlankOrQuiet /\ HandAtRest /\ AgesInv
    BY DEF WorkerInv
  <2>2. TypeOK
    <3>1. untold \subseteq Addresses
      BY <2>1 DEF HandAtRest, Known
    <3>2. \A t \in Tasks : queue[t] \in Seq(Messages) /\ Len(queue[t]) <= Cap
      BY <2>1 DEF TaskTypes
    <3>3. \A t \in Tasks : update[t] \in Seq(Changes) /\ Len(update[t]) <= 1
      BY <2>1 DEF TaskTypes
    <3>4. choosing \in {<<>>} \cup {<<r>> : r \in Requests} \cup (Requests \X [Addresses -> Status])
      BY <2>1 DEF HandAtRest, ChoosingType
    <3>5. QED BY <2>1, <3>1, <3>2, <3>3, <3>4 DEF TypeOK, MapsInv, Types, TaskTypes, Inward
  <2>3. SendersLeadToTheNewest
    BY <2>1 DEF AgesInv, SendersInv, HandAtRest, SendersLeadToTheNewest
  <2>4. OneCheckerOrALeftOne
    <3> SUFFICES ASSUME NEW t \in Tasks, NEW u \in Tasks, t < u, address[t] = address[u],
                        checker[t] # "none", checker[u] # "none"
                 PROVE  ToldToLeave(t) \/ t \in replaced \/ place[t] = "panicked"
      BY DEF OneCheckerOrALeftOne
    <3>1. place[u] # "unborn" /\ place[t] \in {"up", "panicked"}
      BY <2>1 DEF BlankOrQuiet, TaskTypes
    <3>2. QED BY <2>1, <3>1 DEF AgesInv, OlderAreTold
  <2>5. QED BY <2>1, <2>2, <2>3, <2>4 DEF TasksInv, AgesInv
<1>2. QED BY WorkerHolds, <1>1, PTL

\* Why the worker drops what it has to choose a member for.
NobodyFound ==
  \/ config.lb_method = "RoundRobin" /\ \A a \in Listed : statuses[a] = "Unavailable"
  \/ /\ config.lb_method = "LeastConn" /\ Len(choosing) = 2
     /\ \/ \A a \in Listed : choosing[2][a] = "Unavailable"
        \/ \E a \in Listed : choosing[2][a] # "Unavailable" /\ statuses[a] # "Active"

LostByPanic(r) ==
  \E t \in Tasks : /\ place'[t] = "panicked"
                  /\ \/ r = serving[t] \/ hand = <<r, t>>
                     \/ [type |-> "request", request |-> r] \in ToSet(queue[t])

\* What is chosen from is a selection of the listed members, all of which have senders,
\* so a choice that is nobody is of an empty one or of a member that is not Active.
LEMMA NobodyFoundSteps ==
  ASSUME WorkerInv, NEW r \in Requests, outcome[r] = "waiting", outcome'[r] = "dropped",
         Select \/ Choose
  PROVE  NobodyFound
<1>1. MapsInv /\ TaskTypes /\ HandAtRest /\ config.lb_method \in {"RoundRobin", "LeastConn"}
  BY ConfigsAssumption DEF WorkerInv, MapsInv, Types
<1>2. choosing # <<>> /\ Settled
  BY <1>1, ChoosingKinds DEF HandAtRest, Select, Choose
<1>3. \A a \in Listed : members[a] # NoTask
  BY <1>1, <1>2 DEF MapsInv, Settled, ToSet
<1>4. CASE Select
  <2>1. config.lb_method = "RoundRobin" /\ RoundRobin(Selection(statuses)) = NoTask
    BY <1>4 DEF Select, Hands
  <2>2. \A i \in Selection(statuses) : At(i) \in Listed
    BY <1>1, SelectionMembers
  <2>3. Selection(statuses) = {}
    BY <1>1, <1>3, <2>1, <2>2, SelectionMembers, RoundRobinMembers
  <2>4. QED BY <1>1, <2>1, <2>3, SelectionMembers DEF NobodyFound
<1>5. CASE Choose
  <2> DEFINE seen == choosing[2]
  <2>1. Len(choosing) = 2 /\ config.lb_method = "LeastConn"
    BY <1>1, <1>5 DEF Choose, HandAtRest
  <2>2. CASE Panics(seen)
    <3>1. \A a \in Listed : seen[a] = "Unavailable"
      BY <1>1, <2>2, SelectionMembers DEF Panics
    <3>2. QED BY <2>1, <3>1 DEF NobodyFound
  <2>3. CASE ~Panics(seen)
    <3>1. Selection(seen) # {} /\ LeastConn(Selection(seen)) = NoTask
      BY <1>5, <2>3 DEF Choose, Hands, Panics
    <3>2. \A i \in Selection(seen) : At(i) \in Listed /\ seen[At(i)] # "Unavailable"
      BY <1>1, SelectionMembers
    <3>3. \E i \in Selection(seen) : statuses[At(i)] # "Active"
      BY <1>1, <1>3, <3>1, <3>2, SelectionMembers, LeastConnMembers
    <3>4. QED BY <2>1, <3>2, <3>3 DEF NobodyFound
  <2>4. QED BY <2>2, <2>3
<1>6. QED BY <1>4, <1>5

\* A request is dropped by the worker only for the selection it met, and by a task only
\* when it panics or has panicked.
LEMMA DropSteps ==
  ASSUME WorkerInv, Next, NEW r \in Requests, outcome[r] = "waiting", outcome'[r] = "dropped"
  PROVE  NobodyFound \/ LostByPanic(r)
<1>1. MapsInv /\ TaskTypes /\ HandAtRest /\ AgesInv
  BY DEF WorkerInv
<1>2. CASE Select \/ Choose
  BY <1>2, NobodyFoundSteps
<1>3. CASE Forward
  <2>1. hand # <<>> /\ hand \in Requests \X Tasks /\ UNCHANGED place
    BY <1>1, <1>3 DEF Forward, TaskTypes
  <2>2. Over(hand[2]) /\ r = hand[1]
    BY <1>1, <1>3 DEF Forward, TaskTypes
  <2>3. place[hand[2]] = "panicked"
    BY <1>1, <2>1, <2>2 DEF HandAtRest, AgesInv, SendersInv, Over
  <2>4. hand = <<r, hand[2]>> /\ hand[2] \in Tasks
    BY <2>1, <2>2
  <2>5. QED BY <2>1, <2>3, <2>4 DEF LostByPanic
<1>4. CASE \E t \in Tasks : TaskPanics(t)
  <2>1. PICK t \in Tasks : TaskPanics(t)
    BY <1>4
  <2>2. place'[t] = "panicked"
    BY <1>1, <2>1 DEF TaskPanics, TaskTypes
  <2>3. r = serving[t] \/ [type |-> "request", request |-> r] \in ToSet(queue[t])
    BY <2>1 DEF TaskPanics
  <2>4. QED BY <2>2, <2>3 DEF LostByPanic
<1>5. CASE \E t \in Tasks : TaskAnswers(t)
  BY <1>1, <1>5 DEF TaskAnswers, TaskTypes
<1>6. CASE Add \/ Started \/ Receive \/ \E a \in Addresses : Tell(a) \/ Leave(a)
  BY <1>6 DEF Add, Started, Receive, Tell, Leave
<1>7. CASE \E t \in Tasks : \/ TaskReceives(t) \/ UpdateEnds(t) \/ LocksUp(t)
                          \/ CheckerStarts(t) \/ Verdict(t)
  BY <1>7 DEF TaskReceives, UpdateEnds, LocksUp, CheckerStarts, Verdict
<1>8. CASE (\E c \in Configs : SendUpdate(c)) \/ (\E s \in Requests : SendRequest(s))
  BY <1>1, <1>8 DEF SendUpdate, SendRequest, TaskTypes
<1>9. QED BY <1>2, <1>3, <1>4, <1>5, <1>6, <1>7, <1>8 DEF Next, WorkerStep, TaskStep

\* Why a request can be dropped, whatever the checkers write between and after the two
\* readings of the statuses: the member that was chosen panicked; the round robin found
\* everybody given up; least_conn did, or met a member that was not Active any more.
THEOREM DropsHaveAReason == Spec => DropsForAReason
<1> DEFINE Drops == \A r \in Requests : outcome[r] = "waiting" /\ outcome'[r] = "dropped"
                                          => NobodyFound \/ LostByPanic(r)
<1>1. WorkerInv /\ [Next]_vars => [Drops]_vars
  BY DropSteps
<1>2. Spec => [][Drops]_vars
  BY WorkerHolds, <1>1, PTL DEF Spec
<1>3. Drops => \A r \in Requests : outcome[r] = "waiting" /\ outcome'[r] = "dropped" =>
         \/ \E t \in Tasks : /\ place'[t] = "panicked"
                           /\ \/ r = serving[t] \/ hand = <<r, t>>
                              \/ [type |-> "request", request |-> r] \in ToSet(queue[t])
         \/ config.lb_method = "RoundRobin" /\ \A a \in Listed : statuses[a] = "Unavailable"
         \/ /\ config.lb_method = "LeastConn" /\ Len(choosing) = 2
            /\ \/ \A a \in Listed : choosing[2][a] = "Unavailable"
               \/ \E a \in Listed : choosing[2][a] # "Unavailable" /\ statuses[a] # "Active"
  BY Zenon DEF NobodyFound, LostByPanic
<1> HIDE DEF Drops
<1>4. QED BY <1>2, <1>3, PTL DEF DropsForAReason

\* The worker dies of an empty selection alone; a dead one sends nothing.
LEMMA DeathSteps ==
  ASSUME WorkerInv, Next
  PROVE  /\ worker # "dead" /\ worker' = "dead" =>
              /\ config.lb_method = "LeastConn" /\ Len(choosing) = 2
              /\ \A a \in Listed : choosing[2][a] = "Unavailable"
         /\ worker = "dead" => \A t \in Tasks : Len(queue'[t]) <= Len(queue[t])
<1>1. MapsInv /\ TaskTypes /\ HandAtRest
  BY DEF WorkerInv
<1>2. \A t \in Tasks : Len(queue[t]) \in Nat
  BY <1>1, LenProperties DEF TaskTypes
<1>3. CASE Choose
  <2>1. /\ Len(choosing) = 2 /\ worker # "dead"
        /\ config.lb_method = "LeastConn"
    BY <1>1, <1>3, ChoosingKinds DEF Choose, HandAtRest, Settled
  <2>2. ASSUME worker' = "dead" PROVE Panics(choosing[2])
    BY <1>3, <2>1, <2>2 DEF Choose
  <2>3. QED BY <1>1, <2>1, <2>2, SelectionMembers DEF Panics
<1>4. CASE Add \/ Started \/ Receive \/ Select \/ Forward \/ \E a \in Addresses : Tell(a) \/ Leave(a)
  <2>1. Select => worker # "dead" /\ worker' # "dead"
    BY <1>1, ChoosingKinds DEF Select, HandAtRest, Settled
  <2>2. worker # "dead" /\ worker' # "dead"
    BY <1>4, <2>1 DEF Add, Started, Receive, Idle, Settled, Forward, Tell, Leave
  <2>3. QED BY <2>2
<1>5. CASE \E t \in Tasks : TaskReceives(t)
  <2>1. PICK t \in Tasks : TaskReceives(t)
    BY <1>5
  <2>2. queue[t] \in Seq(Messages) /\ queue[t] # <<>> /\ Len(queue[t]) <= Cap
    BY <1>1, <2>1 DEF TaskReceives, TaskTypes
  <2>3. Tail(queue[t]) = <<>> /\ Len(<<>>) = 0
    BY <2>2, OneMessage
  <2>4. queue' = [queue EXCEPT ![t] = <<>>] /\ UNCHANGED worker
    BY <2>1, <2>3, <1>1 DEF TaskReceives, TaskTypes, own
  <2>5. QED BY <1>1, <1>2, <2>3, <2>4 DEF TaskTypes
<1>6. CASE \E t \in Tasks : TaskPanics(t)
  <2>1. PICK t \in Tasks : TaskPanics(t)
    BY <1>6
  <2>2. queue' = [queue EXCEPT ![t] = <<>>] /\ UNCHANGED worker /\ Len(<<>>) = 0
    BY <2>1 DEF TaskPanics, own
  <2>3. QED BY <1>1, <1>2, <2>2 DEF TaskTypes
<1>7. CASE \E t \in Tasks : \/ UpdateEnds(t) \/ LocksUp(t) \/ TaskAnswers(t)
                          \/ CheckerStarts(t) \/ Verdict(t)
  <2>1. UNCHANGED <<worker, queue>>
    BY <1>7 DEF UpdateEnds, LocksUp, TaskAnswers, CheckerStarts, Verdict, own, tasks
  <2>2. QED BY <1>2, <2>1
<1>8. CASE (\E c \in Configs : SendUpdate(c)) \/ (\E r \in Requests : SendRequest(r))
  <2>1. UNCHANGED <<worker, queue>>
    BY <1>8 DEF SendUpdate, SendRequest, own, tasks
  <2>2. QED BY <1>2, <2>1
<1>9. QED BY <1>3, <1>4, <1>5, <1>6, <1>7, <1>8 DEF Next, WorkerStep, TaskStep

\* The worker of a cluster dies only of a least_conn that made its selection when every
\* listed member was given up, and from then on no request reaches a member.
THEOREM WorkersDieOfAnEmptySelection == Spec => DiesOfAnEmptySelection
<1> DEFINE Death ==
             /\ worker # "dead" /\ worker' = "dead" =>
                  /\ config.lb_method = "LeastConn" /\ Len(choosing) = 2
                  /\ \A a \in Listed : choosing[2][a] = "Unavailable"
             /\ worker = "dead" => \A t \in Tasks : Len(queue'[t]) <= Len(queue[t])
<1>1. WorkerInv /\ [Next]_vars => [Death]_vars
  BY DeathSteps
<1>2. QED BY WorkerHolds, <1>1, PTL DEF Spec, DiesOfAnEmptySelection
===============================================================================
