----------------------------- MODULE ClusterWorker -----------------------------
(***************************************************************************)
(* The worker of one cluster (workers/cluster.rs): its member list, its map of *)
(* senders and its map of statuses under configuration updates, and the tasks   *)
(* of its members as far as they depend on it: a queue of one message, one       *)
(* session at a time, the checker that shares the map of statuses, the end by    *)
(* RemoveCluster or by a panic.                                               *)
(*                                                                         *)
(* A task outlives its place in the map of senders: it is told to go through     *)
(* its queue, behind the session it serves.  MemberChecker has the locks of a    *)
(* member step by step; here is what comes of them: a task that changes the       *)
(* keepalive of a running checker, or stops it, gets to the end of that or locks   *)
(* up with the checker for good, and the checker may hold the statuses as it does. *)
(***************************************************************************)
EXTENDS Integers, Sequences, FiniteSets, SequencesExt

CONSTANTS
  Addresses,
  Configs,       \* records [members, lb_method, keepalive]: members is a sequence of
                 \* records [address, status], the keepalive 0 is none
  Requests,      \* the connections that ask for this cluster, numbered as they come
  Tls,           \* whether the members are reached by TLS, with the SNI of the client
  MaxUpdates,    \* bound on the updates
  MaxMessages,   \* bound on the updates and requests together
  MaxTasks       \* bound on the tasks ever spawned

ASSUME BoundsAssumption ==
  /\ MaxUpdates \in Nat /\ MaxMessages \in Nat /\ MaxTasks \in Nat /\ Tls \in BOOLEAN
ASSUME AddressesAssumption == Addresses # {}
ASSUME RequestsAssumption == Requests \subseteq Nat \ {0}
ASSUME ConfigsAssumption == \A c \in Configs :
  /\ c.members \in Seq([address : Addresses, status : {"Active", "Disabled"}])
  /\ c.lb_method \in {"RoundRobin", "LeastConn"} /\ c.keepalive \in Nat

Tasks == 1..MaxTasks
NoTask == 0
Nobody == 0              \* no request
NoKeepalive == 0
Cap == 1                 \* capacity of the channels of the worker and of the members

VARIABLES
  inbox,         \* channel of the worker
  worker,        \* "start", "run" or "dead"
  config,
  untold,        \* members still to be sent the new keepalive
  todo,          \* members of the configuration still to be added
  choosing,      \* the request to choose a member for, with the statuses the selection
                 \* was made by as soon as it is, or <<>>
  hand,          \* the request in hand and the task chosen for it, or <<>>
  members,       \* the senders: address -> task
  statuses,      \* address -> status, "none" before it was ever listed
  place,         \* of each task: "unborn", "up", "returned" or "panicked"
  address, queue, serving, checker,
  update,        \* the change of its checker a task is at, or <<>>
  locked,        \* "no", "yes": locked up with its checker, or "holding": and the checker
                 \* has the statuses
  replaced,      \* history: tasks whose sender was overwritten by a duplicate
  outcome,       \* of each request
  updates        \* number of updates sent

own == <<worker, config, untold, todo, choosing, hand, members>>
tasks == <<place, address, queue, serving, checker, update, locked, replaced>>
vars == <<inbox, own, statuses, tasks, outcome, updates>>

Listed == {m.address : m \in ToSet(config.members)}
Known  == {a \in Addresses : members[a] # NoTask}

\* A checker has the lock of the statuses for ever.
Held == \E t \in Tasks : locked[t] = "holding"

Init ==
  /\ config \in Configs
  /\ inbox = <<>> /\ worker = "start" /\ untold = {} /\ todo = config.members
  /\ choosing = <<>> /\ hand = <<>>
  /\ members = [a \in Addresses |-> NoTask]
  /\ statuses = [a \in Addresses |-> "none"]
  /\ place = [t \in Tasks |-> "unborn"]
  /\ address \in {[t \in Tasks |-> CHOOSE a \in Addresses : TRUE]}
  /\ queue = [t \in Tasks |-> <<>>]
  /\ serving = [t \in Tasks |-> Nobody]
  /\ checker = [t \in Tasks |-> "none"]
  /\ update = [t \in Tasks |-> <<>>]
  /\ locked = [t \in Tasks |-> "no"]
  /\ replaced = {}
  /\ outcome = [r \in Requests |-> "unsent"]
  /\ updates = 0

-------------------------------------------------------------------------------
\* The receiver of a task that is over is dropped: a send to it fails at once.
Over(t) == place[t] \in {"returned", "panicked"}

\* A faulty variant: the channel of a task that is over stays open.
SendOpen(t, message) ==
  Len(queue[t]) < Cap /\ queue' = [queue EXCEPT ![t] = Append(@, message)]

Send(t, message) ==
  \/ Over(t) /\ UNCHANGED queue
  \/ ~Over(t) /\ Len(queue[t]) < Cap /\ queue' = [queue EXCEPT ![t] = Append(@, message)]

\* The places in the list of the members that are not Unavailable in a reading of the
\* statuses: a Disabled one is among them.  The selection keeps their order.
At(i) == config.members[i].address
Selection(seen) == {i \in DOMAIN config.members : seen[At(i)] # "Unavailable"}

-------------------------------------------------------------------------------
\* Faulty variants of the operations below.

\* The index of the round robin does not wrap.
RoundRobinOnce(s) == IF s \ {Min(s)} = {} THEN NoTask ELSE members[At(Min(s \ {Min(s)}))]

\* The worker panics also when the list is empty by the second reading.
PanicsLate(seen) == {} \in {Selection(seen), Selection(statuses)}

\* entry().or_insert(): the sender that is there stays.
SpawnedBehind(m, t) ==
  /\ members' = [members EXCEPT ![m.address] = IF @ = NoTask THEN t ELSE @]
  /\ statuses' = [statuses EXCEPT ![m.address] = m.status]
  /\ place' = [place EXCEPT ![t] = "up"]
  /\ address' = [address EXCEPT ![t] = m.address]
  /\ checker' = [checker EXCEPT ![t] = IF config.keepalive # NoKeepalive THEN "start" ELSE "none"]
  /\ UNCHANGED <<update, locked, replaced>>

\* Every member of an update is added, known or not; or only one without a status.
IsAddedAlways(m) == TRUE
IsAddedOnce(m) == worker = "start" \/ statuses[m.address] = "none"

-------------------------------------------------------------------------------
\* add_member, by a task that was never used.
Spawned(m, t) ==
  /\ members' = [members EXCEPT ![m.address] = t]
  /\ statuses' = [statuses EXCEPT ![m.address] = m.status]
  /\ place' = [place EXCEPT ![t] = "up"]
  /\ address' = [address EXCEPT ![t] = m.address]
  /\ checker' = [checker EXCEPT ![t] = IF config.keepalive # NoKeepalive THEN "start" ELSE "none"]
  /\ replaced' = IF members[m.address] = NoTask THEN replaced ELSE replaced \cup {members[m.address]}
  /\ UNCHANGED <<update, locked>>

\* The members of the first configuration are all added, those of an update only
\* when there is no sender for their address.
IsAdded(m) == worker = "start" \/ members[m.address] = NoTask

\* It waits for the statuses with the new sender in the map already, which is the
\* worker's own.
Add ==
  /\ worker # "dead" /\ untold = {} /\ todo # <<>>
  /\ IF IsAdded(Head(todo))
       THEN LET t == Cardinality({u \in Tasks : place[u] # "unborn"}) + 1
            IN ~Held /\ t \in Tasks /\ Spawned(Head(todo), t)
       ELSE UNCHANGED <<members, statuses, place, address, checker, update, locked, replaced>>
  /\ todo' = Tail(todo)
  /\ UNCHANGED <<inbox, worker, config, untold, choosing, hand, queue, serving, outcome, updates>>

Started ==
  /\ worker = "start" /\ todo = <<>> /\ worker' = "run"
  /\ UNCHANGED <<inbox, config, untold, todo, choosing, hand, members, statuses, tasks, outcome, updates>>

\* A keepalive that changed is sent to every sender there is.
Tell(a) ==
  /\ worker # "dead" /\ a \in untold
  /\ Send(members[a], [type |-> "keepalive", keepalive |-> config.keepalive])
  /\ untold' = untold \ {a}
  /\ UNCHANGED <<inbox, worker, config, todo, choosing, hand, members, statuses, place, address,
                 serving, checker, update, locked, replaced, outcome, updates>>

\* The sender of a member that is no longer listed is taken out of the map, for one
\* last message.
Leave(a) ==
  /\ worker = "run" /\ untold = {} /\ todo = <<>> /\ a \in Known \ Listed
  /\ Send(members[a], [type |-> "remove"])
  /\ members' = [members EXCEPT ![a] = NoTask]
  /\ UNCHANGED <<inbox, worker, config, untold, todo, choosing, hand, statuses, place, address,
                 serving, checker, update, locked, replaced, outcome, updates>>

\* The worker is through with a configuration, and waits for its next message.
Settled == worker = "run" /\ untold = {} /\ todo = <<>> /\ Known \subseteq Listed
Idle == Settled /\ choosing = <<>> /\ hand = <<>>

Update(c) ==
  /\ config' = c
  /\ untold' = IF c.keepalive # config.keepalive THEN Known ELSE {}
  /\ todo' = c.members
  /\ UNCHANGED choosing

Receive ==
  /\ Idle /\ inbox # <<>> /\ inbox' = Tail(inbox)
  /\ \/ Head(inbox).type = "config"  /\ Update(Head(inbox).config)
     \/ /\ Head(inbox).type = "request"
        /\ choosing' = <<Head(inbox).request>> /\ UNCHANGED <<config, untold, todo>>
  /\ UNCHANGED <<worker, hand, members, statuses, tasks, outcome, updates>>

\* The index is 0 in every call: the second of them, or the only one.
RoundRobin(s) ==
  IF s = {} THEN NoTask
  ELSE LET rest == s \ {Min(s)} IN members[At(Min(IF rest = {} THEN s ELSE rest))]

\* The counts of connections stay 0, so nobody has more than the first: it is the
\* first or, when that one is not Active at the second reading, nobody.
LeastConn(s) ==
  LET first == At(Min(s)) IN IF statuses[first] = "Active" THEN members[first] ELSE NoTask

\* The request goes to the task chosen, or is dropped when there is none.
Hands(r, task) ==
  IF task = NoTask
    THEN outcome' = [outcome EXCEPT ![r] = "dropped"] /\ UNCHANGED hand
    ELSE hand' = <<r, task>> /\ UNCHANGED outcome

\* The first reading of the statuses makes the selection.  The round robin chooses from
\* it, get_least_conn_member reads the statuses again.
Select ==
  /\ Len(choosing) = 1 /\ ~Held
  /\ IF config.lb_method = "RoundRobin"
       THEN choosing' = <<>> /\ Hands(choosing[1], RoundRobin(Selection(statuses)))
       ELSE choosing' = <<choosing[1], statuses>> /\ UNCHANGED <<hand, outcome>>
  /\ UNCHANGED <<inbox, worker, config, untold, todo, members, statuses, tasks, updates>>

\* get_least_conn_member looks at the first of the list, also of an empty one: the
\* worker panics, its receiver and the senders of the members are dropped with it.
Panics(seen) == Selection(seen) = {}

Dies ==
  /\ worker' = "dead" /\ members' = [a \in Addresses |-> NoTask] /\ inbox' = <<>>
  /\ outcome' = [r \in Requests |->
       IF r = choosing[1] \/ [type |-> "request", request |-> r] \in ToSet(inbox)
       THEN "dropped" ELSE outcome[r]]
  /\ UNCHANGED hand

Choose ==
  /\ Len(choosing) = 2 /\ ~Held
  /\ choosing' = <<>>
  /\ IF Panics(choosing[2])
       THEN Dies
       ELSE /\ Hands(choosing[1], LeastConn(Selection(choosing[2])))
            /\ UNCHANGED <<inbox, worker, members>>
  /\ UNCHANGED <<config, untold, todo, statuses, tasks, updates>>

\* active_member_sender.send(message)
Forward ==
  /\ worker = "run" /\ hand # <<>>
  /\ Send(hand[2], [type |-> "request", request |-> hand[1]])
  /\ outcome' = IF Over(hand[2]) THEN [outcome EXCEPT ![hand[1]] = "dropped"] ELSE outcome
  /\ hand' = <<>>
  /\ UNCHANGED <<inbox, worker, config, untold, todo, choosing, members, statuses, place, address,
                 serving, checker, update, locked, replaced, updates>>

-------------------------------------------------------------------------------
\* run_member: a keepalive starts a checker when there is none.  To change the one a
\* checker has, or to end the checker, takes the lock of the member, which comes later.
\* The worker tells of changes alone, so the keepalive is never the one there is.
TaskKeepalive(t) ==
  LET message == Head(queue[t]) IN
  /\ message.type = "keepalive"
  /\ IF checker[t] = "none"
       THEN /\ checker' = [checker EXCEPT ![t] = IF message.keepalive # NoKeepalive THEN "start" ELSE @]
            /\ UNCHANGED update
       ELSE update' = [update EXCEPT ![t] = <<message>>] /\ UNCHANGED checker
  /\ UNCHANGED <<place, serving>>

TaskRemoved(t) ==
  /\ Head(queue[t]).type = "remove"
  /\ IF checker[t] = "none"
       THEN place' = [place EXCEPT ![t] = "returned"] /\ UNCHANGED update
       ELSE update' = [update EXCEPT ![t] = <<Head(queue[t])>>] /\ UNCHANGED place
  /\ UNCHANGED <<serving, checker>>

TaskServes(t) ==
  /\ Head(queue[t]).type = "request"
  /\ serving' = [serving EXCEPT ![t] = Head(queue[t]).request]
  /\ UNCHANGED <<place, checker, update>>

TaskReceives(t) ==
  /\ place[t] = "up" /\ serving[t] = Nobody /\ update[t] = <<>> /\ queue[t] # <<>>
  /\ queue' = [queue EXCEPT ![t] = Tail(@)]
  /\ TaskKeepalive(t) \/ TaskRemoved(t) \/ TaskServes(t)
  /\ UNCHANGED <<inbox, own, statuses, address, locked, replaced, outcome, updates>>

\* The keepalive is written, between two rounds of the checker; one that was taken away
\* ends the checker, and the task waits for that.
UpdateEnds(t) ==
  /\ update[t] # <<>> /\ locked[t] = "no"
  /\ LET message == Head(update[t])
         removed == message.type = "remove"
     IN /\ checker' = [checker EXCEPT ![t] =
             IF removed \/ message.keepalive = NoKeepalive THEN "none" ELSE @]
        /\ place' = [place EXCEPT ![t] = IF removed THEN "returned" ELSE @]
  /\ update' = [update EXCEPT ![t] = <<>>]
  /\ UNCHANGED <<inbox, own, statuses, address, queue, serving, locked, replaced, outcome, updates>>

\* The write waits for the read lock of a round, and the round for a second one behind
\* the write: both wait for ever.  A round that was about to write its verdict does so
\* with the statuses locked.
LocksUp(t) ==
  /\ update[t] # <<>> /\ locked[t] = "no" /\ checker[t] \notin {"none", "start"}
  /\ \/ locked' = [locked EXCEPT ![t] = "yes"]
     \/ /\ checker[t] \in {"Active", "Unavailable"} /\ ~Held
        /\ locked' = [locked EXCEPT ![t] = "holding"]
  /\ UNCHANGED <<inbox, own, statuses, place, address, queue, serving, checker, update, replaced,
                 outcome, updates>>

\* The session is over, or the connection was refused and the client told so.
TaskAnswers(t) ==
  /\ place[t] = "up" /\ serving[t] # Nobody
  /\ outcome' = [outcome EXCEPT ![serving[t]] = "answered"]
  /\ serving' = [serving EXCEPT ![t] = Nobody]
  /\ UNCHANGED <<inbox, own, statuses, place, address, queue, checker, update, locked, replaced,
                 updates>>

\* ServerName::try_from(..).unwrap(): the task is over with its request and what is in
\* its channel; its checker is a task of its own and goes on.
TaskPanics(t) ==
  /\ Tls /\ place[t] = "up" /\ serving[t] # Nobody
  /\ outcome' = [r \in Requests |->
       IF r = serving[t] \/ [type |-> "request", request |-> r] \in ToSet(queue[t])
       THEN "dropped" ELSE outcome[r]]
  /\ place' = [place EXCEPT ![t] = "panicked"]
  /\ queue' = [queue EXCEPT ![t] = <<>>]
  /\ serving' = [serving EXCEPT ![t] = Nobody]
  /\ UNCHANGED <<inbox, own, statuses, address, checker, update, locked, replaced, updates>>

\* checker: the status is read once and decides what the probes may change.
CheckerStarts(t) ==
  /\ checker[t] = "start" /\ ~Held
  /\ checker' = [checker EXCEPT ![t] = statuses[address[t]]]
  /\ UNCHANGED <<inbox, own, statuses, place, address, queue, serving, update, locked, replaced,
                 outcome, updates>>

Verdict(t) ==
  /\ locked[t] = "no" /\ ~Held
  /\ \/ checker[t] = "Active" /\ statuses' = [statuses EXCEPT ![address[t]] = "Unavailable"]
     \/ checker[t] = "Unavailable" /\ statuses' = [statuses EXCEPT ![address[t]] = "Active"]
  /\ UNCHANGED <<inbox, own, tasks, outcome, updates>>

-------------------------------------------------------------------------------
Sent == updates + Cardinality({r \in Requests : outcome[r] # "unsent"})

\* ClusterManager::worker, for this cluster: once the worker is dead its channel is
\* closed, and what is sent into it lost.
SendUpdate(c) ==
  /\ worker # "dead" /\ Len(inbox) < Cap /\ updates < MaxUpdates /\ Sent < MaxMessages
  /\ inbox' = Append(inbox, [type |-> "config", config |-> c])
  /\ updates' = updates + 1
  /\ UNCHANGED <<own, statuses, tasks, outcome>>

SendRequest(r) ==
  /\ outcome[r] = "unsent" /\ \A q \in Requests : q < r => outcome[q] # "unsent"
  /\ Sent < MaxMessages
  /\ \/ /\ worker = "dead" /\ UNCHANGED inbox
        /\ outcome' = [outcome EXCEPT ![r] = "dropped"]
     \/ /\ worker # "dead" /\ Len(inbox) < Cap
        /\ inbox' = Append(inbox, [type |-> "request", request |-> r])
        /\ outcome' = [outcome EXCEPT ![r] = "waiting"]
  /\ UNCHANGED <<own, statuses, tasks, updates>>

WorkerStep == Add \/ Started \/ Receive \/ Select \/ Choose \/ Forward \/ \E a \in Addresses : Tell(a) \/ Leave(a)
TaskStep(t) == TaskReceives(t) \/ TaskAnswers(t)

Next ==
  \/ WorkerStep
  \/ \E t \in Tasks : \/ TaskStep(t) \/ UpdateEnds(t) \/ LocksUp(t) \/ TaskPanics(t)
                     \/ CheckerStarts(t) \/ Verdict(t)
  \/ \E c \in Configs : SendUpdate(c)
  \/ \E r \in Requests : SendRequest(r)

Spec == Init /\ [][Next]_vars

\* The tasks are polled, and sessions end.  A checker that is not locked up comes to the
\* end of its round, unless it waits for the statuses for ever.
FairSpec ==
  /\ Spec /\ WF_vars(WorkerStep)
  /\ \A t \in Tasks : WF_vars(TaskStep(t)) /\ WF_vars(~Held /\ UpdateEnds(t))

-------------------------------------------------------------------------------
Changes  == [type : {"keepalive"}, keepalive : Nat] \cup [type : {"remove"}]
Messages == Changes \cup [type : {"request"}, request : Requests]

Status   == {"none", "Active", "Disabled", "Unavailable"}

TypeOK ==
  /\ inbox \in Seq([type : {"config"}, config : Configs] \cup [type : {"request"}, request : Requests])
  /\ Len(inbox) <= Cap /\ worker \in {"start", "run", "dead"} /\ config \in Configs
  /\ untold \subseteq Addresses /\ hand \in {<<>>} \cup (Requests \X Tasks)
  /\ choosing \in {<<>>} \cup {<<r>> : r \in Requests} \cup (Requests \X [Addresses -> Status])
  /\ members \in [Addresses -> Tasks \cup {NoTask}] /\ statuses \in [Addresses -> Status]
  /\ place \in [Tasks -> {"unborn", "up", "returned", "panicked"}]
  /\ address \in [Tasks -> Addresses] /\ serving \in [Tasks -> Requests \cup {Nobody}]
  /\ \A t \in Tasks : queue[t] \in Seq(Messages) /\ Len(queue[t]) <= Cap
  /\ checker \in [Tasks -> Status \cup {"start"}]
  /\ \A t \in Tasks : update[t] \in Seq(Changes) /\ Len(update[t]) <= 1
  /\ locked \in [Tasks -> {"no", "yes", "holding"}]
  /\ outcome \in [Requests -> {"unsent", "waiting", "answered", "dropped"}]

\* Whenever the worker takes a message or chooses a member, exactly the listed members
\* have a sender, and each has a status: statuses[x], get(x).unwrap() and members.get(x)
\* of the selection never miss, for every order of updates that add, remove, add again
\* and repeat members.
ListedHaveSenders ==
  Idle \/ choosing # <<>> => Known = Listed /\ \A a \in Listed : statuses[a] # "none"

\* The task has the last message of its sender in its channel or is at it.
ToldToLeave(t) == [type |-> "remove"] \in ToSet(queue[t]) \cup ToSet(update[t])

\* A sender leads to the last task that was spawned for its address, and to one that
\* was not told to leave, and so does the choice of the worker.
SendersLeadToTheNewest ==
  \A a \in Known :
    /\ address[members[a]] = a /\ place[members[a]] \in {"up", "panicked"}
    /\ \A t \in Tasks : place[t] # "unborn" /\ address[t] = a => t <= members[a]
    /\ ~ToldToLeave(members[a])
    /\ hand # <<>> => hand[2] \in {members[b] : b \in Known}

\* A task without a sender that was not told to leave receives nothing for ever, in a
\* loop that never waits: that happens to those whose address the first configuration
\* lists again, and to all of them when the worker panics.
SpinsForAReason ==
  \A t \in Tasks :
    place[t] = "up" /\ members[address[t]] # t /\ ~ToldToLeave(t)
    => t \in replaced \/ worker = "dead"

\* Two checkers write the status of one address only while the older task has still to
\* come to its RemoveCluster, or has no way to be told: it was replaced, or it panicked
\* and left its checker alone.
OneCheckerOrALeftOne ==
  \A t, u \in Tasks :
    t < u /\ address[t] = address[u] /\ "none" \notin {checker[t], checker[u]}
    => ToldToLeave(t) \/ t \in replaced \/ place[t] = "panicked"

\* What updates, panics and removals leave of tasks, senders and checkers.
TasksInv == TypeOK /\ SendersLeadToTheNewest /\ SpinsForAReason /\ OneCheckerOrALeftOne

\* What the worker drops has a reason: its member panicked; or the round robin found
\* every listed member Unavailable; or least_conn found that at its first reading, or a
\* member Disabled or given up since at its second, though others may be Active.
DropsForAReason ==
  [][\A r \in Requests :
       outcome[r] = "waiting" /\ outcome'[r] = "dropped" =>
         \/ \E t \in Tasks : /\ place'[t] = "panicked"
                           /\ \/ r = serving[t] \/ hand = <<r, t>>
                              \/ [type |-> "request", request |-> r] \in ToSet(queue[t])
         \/ config.lb_method = "RoundRobin" /\ \A a \in Listed : statuses[a] = "Unavailable"
         \/ /\ config.lb_method = "LeastConn" /\ Len(choosing) = 2
            /\ \/ \A a \in Listed : choosing[2][a] = "Unavailable"
               \/ \E a \in Listed : choosing[2][a] # "Unavailable" /\ statuses[a] # "Active"]_vars

\* The worker dies only of least_conn with every listed member Unavailable when it made
\* its selection, whatever they are by then, and from then on nobody is served.
DiesOfAnEmptySelection ==
  [][/\ worker # "dead" /\ worker' = "dead" =>
          /\ config.lb_method = "LeastConn" /\ Len(choosing) = 2
          /\ \A a \in Listed : choosing[2][a] = "Unavailable"
     /\ worker = "dead" => \A t \in Tasks : Len(queue'[t]) <= Len(queue[t])]_vars

\* What the checker of a member found is never overwritten by an update that lists the
\* member again.
UpdatesKeepStatuses ==
  [][\A a \in Addresses : worker = "run" /\ members[a] # NoTask /\ statuses'[a] # statuses[a]
       => UNCHANGED own]_vars

\* A task that is at an update for ever: locked up, or behind the lock of the statuses.
Occupied(t) == locked[t] # "no" \/ (update[t] # <<>> /\ Held)

\* The request waits in the channel of such a task; or the worker still has it, and waits
\* for the statuses a locked up checker holds, or for room in the channel of such a task.
HeldUp(r) ==
  \/ \E t \in Tasks : Occupied(t) /\ [type |-> "request", request |-> r] \in ToSet(queue[t])
  \/ /\ \/ [type |-> "request", request |-> r] \in ToSet(inbox)
        \/ choosing # <<>> /\ choosing[1] = r
        \/ hand # <<>> /\ hand[1] = r
     /\ \/ Held
        \/ \E t \in Tasks : /\ Occupied(t) /\ Len(queue[t]) = Cap
                          /\ \/ hand # <<>> /\ hand[2] = t
                             \/ \E a \in untold \cup (Known \ Listed) : members[a] = t

\* Every request is answered or its connection is closed, unless a member that changes
\* its keepalive locks up with its checker and holds it up for good.
RequestsEnd ==
  \A r \in Requests :
    outcome[r] = "waiting" ~> outcome[r] \in {"answered", "dropped"} \/ []HeldUp(r)

===============================================================================
