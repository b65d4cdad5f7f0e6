# A verification project for rust-gateway

TLA+ modules of the gateway in `src/`, the TLC configurations that check them on
small instances, and TLAPS proofs of what matters most for every instance. The
repository has no design document: every definition is read off the code.

Contents: 1 the system, 2 the modules, 3 the runs, 4 fairness, 5 the proofs,
6 what the checks show about the code, 7 what is not modelled, 8 what is left.

## 1. The system

A reverse HTTP proxy on tokio. Every component is a task; tasks share nothing but
bounded `mpsc` channels, `oneshot` answers, two `RwLock`s per cluster member and the
two `StrictBuffer`s of a request.

```
 config file
     |                    CONFIG (TLS requests)
 ConfigManager <-----------------------------------------------+
     |  \ \------> BufferManager <-- RequestListener --+       |
     |   \             ^                               |       |
     v    v            | RequestCluster                |       |
 Listener  ClusterManager <-- ClusterConnection -- process_client (one per connection)
 Manager        |                                      ^    |  ^
     |          v   (capacity 1)                       |    |  |  "down" StrictBuffer
  listener   cluster worker                            |    |  +--------------+
   worker       |   (capacity 1)                       |    +-------------+   |
     |          v                                      |   "up"           v   |
     +--> accept+spawn    member task --(oneshot)------+         process_cluster
                          + checker                                  (the backend)
```

| component | state | operations | hard behaviour | what makes it correct |
|---|---|---|---|---|
| `StrictBuffer` (configs/buffer.rs) | bytes, two cursors, shutdown flag, one waker, Arc count | poll_write, poll_read, poll_shutdown, drop of a half | two tasks, one waker slot, partial writes, no Drop | bytes in order, none lost or repeated; nobody parked who could go on; end only after the writer |
| `BufferManager` (managers/buffer.rs) | limit per listener, amount allocated per listener and cluster | ConfigUpdate, Request and Release of both kinds | limits change under grants, saturating release, first grant unseen | memory within the limit, books not above the memory |
| relay (connections/http.rs: process_cluster, process_*_request) | two buffers, two sockets, two futures | the header loop, the two select! loops | cancellation of a branch, blocking inside a branch, short writes, peer gone | bytes in order; a sleeping task is registered; requests end |
| dispatch (process_client, managers/cluster.rs, workers/cluster.rs, run_member) | channels, one request in each hand, member statuses | request a buffer, request a backend, forward, connect, answer | bounded channels in series, oneshots dropped, start-up order | every request has one holder and gets one, correct, answer |
| cluster worker (workers/cluster.rs) | senders, order, statuses | ConfigUpdate, connection, add_member | updates while requests wait, members removed and added again, repeated members, an empty selection | a request goes to a member of the current configuration; nothing is indexed that is not there; findings survive updates |
| checker (workers/clustermember.rs) | keepalive behind a RwLock, status map behind another | probe, count, write the status, start and stop | nested read guards across awaits, stale status | status follows the probes; updates take effect |
| header parser (connections/http.rs) | array, two positions | read_line, read_headers | reads that cut a line, stale bytes in the array | the same head for every cut; no read that is not needed |
| router (connections/http.rs, utils/utils.rs, configs/listener.rs) | the configuration of the connection | parse, match_vhost, match_route | updates under open connections, conditions that are kept and not looked up, panics | the first route of the document that fits answers |
| URI (utils/http.rs) | none | normalized, normalize_term | escapes, dot segments, the order of a HashMap | the same meaning in one spelling |
| `ListenerManager`, listener worker | channel per listener; config, use_tls, acceptor | ask for TLS, update, accept, handshake | select! that cancels the accept branch, a handshake without a timeout, TLS set-up before any message | TLS is never skipped; updates take effect; a connection is cancelled only by one |
| `ConfigManager` (managers/config.rs) | loaded configuration | start, answer TLS requests | answers nothing while it loads; fails in the middle | the start ends; a failed one serves nobody |
| `MetricManager` (managers/metric.rs) | entry per source and name | add, tick | division by the elapsed seconds | counts are conserved |
| configs/cluster.rs, configs/tls.rs, main.rs | none | parse, spawn | none | none of its own |

The list of hazards, each at its line, is `hazards` in `PROJECT.json`.

## 2. The modules

**StrictBuffer** (no variables) has the struct as a record and its methods as
operators. The mutex is held from the first to the last line of every method, so a
method is one step. `NoTask` is `None` in the waker slot; `handles` stands for the
Arc count. BufferPipe and Relay both use it.

**BufferPipe** puts a writer and a reader task around one buffer. One action is one
return of `poll_write`, `poll_read` or `poll_shutdown`. A task that is parked may
also be scheduled by something else (`Nudge`): the halves are polled inside
`select!` with a socket. Bytes are numbered as they are accepted: a byte's number
says whether it is the right one.

**BytePipe** is the abstract specification: a bounded FIFO without cursors, wakers or
tasks. `BufferPipe!ImplementsPipe` is the refinement, with the window between the
cursors as the content of the pipe.

**BufferManager** has one action per answer to each message. Its specification is `ManagerSpec`,
so that one module can prove things about it and about BufferPipe. `listeners[l] = 0` is
the absent entry, as `unwrap_or(&0)` makes it. `live`, `first`, `highest` and
`uncounted` are history variables: what is really held, which the code does not
know. Clients keep to the protocol: they release what they were granted.
`Releasing` is the set of names whose clients send the releases at all: in
the code as it is, nobody does.

**Relay** is one request after the backend has been connected. `pc` names the await
point of each task; a step goes from one await to the next, which is the granularity
tokio can interleave, and the buffer's own steps are those of StrictBuffer. The
branches of `select!` are polled in random order, so a branch that did not win may
have left its waker (`MaybePolledPipe`), and a branch that loses is dropped
(`HeadCancelled`). A head is three numbers: length, length of the first line, and how
much has been stored. Each socket is what the remote end has sent, what it has not
taken, and whether it has closed. A remote end closes both directions at once.
A body is what comes behind the head; the text of a head, the order of the header
lines (a HashMap) and the separate small writes of one line are abstracted to two
slices, the first line and the rest.

**Dispatch** composes the managers: the connections, the buffer manager (an INSTANCE
of BufferManager), the cluster manager, a worker per cluster, a member per address,
and their bounded channels. A task that received a message and awaits the next send
holds it in its hand and receives nothing else. The oneshot of a connection is part
of the message. `Selection` is the set of places in the list of members that round robin
chooses from. What a session does is Relay's; here it lasts, or (`Slow`) need not
end. `toLoad` is ConfigManager::start.

**FairRwLock** (no variables) is tokio's RwLock as the gateway relies on it: guards
are granted in the order in which they are asked for, so a reader queues behind a
waiting writer even when it already holds a guard.

**MemberChecker** is one member: run_member's updates, its checker, and the two locks
they share. A checker's step goes from one await to the next, `cpc` names the await. A
guard in the scrutinee of an `if let`, in the argument of a call or in the receiver of
`insert` lives to the end of its statement; the model drops each where Rust does.
Everybody else who takes the map of statuses is one task that reads or writes it.
run_member is the only writer of the member, its own reads never wait and are no steps.
`failed` and `answered` are history: the probes of the running checker.

**Metrics** is MetricManager with the requests and the checker that report to it. Time
is a clock of `Second` ticks per second, kept as the age of an entry and the time to the
next tick, so that as_secs() rounds down as it does in the code. A division by zero
seconds is the action `Panic`. `window` and `fresh` are history.

**ClusterWorker** is the worker of one cluster with its three collections (`config`'s
order, `members`, `statuses`) and the tasks behind the senders, which outlive their place
in the map. An update is several steps (`untold`, `todo`, then the removals), as
each awaits a send or a lock. A request is several too: `Select` is the reading of the statuses that
makes the selection, which `choosing` keeps, `Choose` the second reading, that of
get_least_conn_member, with checkers in between, and `hand` is a request between choice and send. A task
is a place, a queue of one, a session, a checker, and the change of its checker it is at (`update`): that
ends (`UpdateEnds`), or run_member and the checker are `locked` up for good (`LocksUp`), the
checker "holding" the statuses or not. Any change of a checker that runs may do either, a checker can hold the statuses only
if it has a status to write, and who then needs the statuses waits. Which interleavings of the two locks lead there is
MemberChecker's. The order in which a HashMap is walked is any order.

**Startup** runs ConfigManager::start against the two managers, the listener workers and
the members, with the connections that come meanwhile. `toLoad` is what start() has still to
send, `requests` the channel CONFIG, `stage` the await point of a worker or member that
asks for TLS before it takes messages. What a TLS configuration can be built for stands for the
certificates. The accept branch and the update branch of a listener are two actions of
which `UpdateListener` cancels the handshake of the other. `use_tls` is the variable of that
name, set when a TLS preprocessor is reached (`Reached`). One member stands for a cluster: it is `busy` with one
message, a session (of the `Endless` ones it need not end) or an update of its keepalive, which ends or locks up as in
ClusterWorker; which member is chosen, or none, is left open.

**HeaderReader** reads one head. A step is one byte, one line end or one read of any
length the stream and the array allow; characters are those the code tells apart. `Whole` is
the reference definition: the lines of a stream and the head they make, without an array.

**UriNormal** (no variables) is utils/http.rs over code points; `normalized` has one
result per order of the parameters. **Routing** parses a document, takes a
connection, reads a head and walks hosts and routes as `route` does, one comparison a
step, while the listener may be given another document. `WrittenRoute` and `Left`,
`BytesOf`, `Spelled` are the reference definitions: they read the document and the URI as they
were written. The method, port and protocol of a request decide nothing.

**MCBufferPipe, MCBufferManager, MCRelay, MCDispatch, MCMemberChecker, MCMetrics,
MCClusterWorker, MCStartup, MCHeaderReader, MCRouting** instantiate these for TLC.
**BufferProofs** (of BufferPipe and BufferManager), **RelayProofs, DispatchProofs,
ClusterWorkerProofs, MemberCheckerProofs, MetricsProofs, StartupProofs** and
**HeadProofs** (of HeaderReader and Routing) hold the theorems.

Operators under the heading "Faulty variants" are not part of a specification. Each
is an operation with one slip in it, and replaces that operation when a property's
ability to fail is tested (`mutants` in `PROJECT.json`).

## 3. The runs

| run | constants | what it shows |
|---|---|---|
| pipe | size 3, chunks to 4, 7 bytes | type; the window is the backlog; a drained buffer is rewound; no registration is lost; nobody is parked without reason; the end is last; refinement of BytePipe; accepted bytes are read and blocked writes complete |
| manager | two listeners, a cluster, sizes 1 and 2, limits 0, 3, 4, one listener whose clients never release | books never above the memory; exact unless something was granted without a limit; memory below the limit but for the first grant; without releases a refusal is final and comes in the end |
| relay | buffers of 1 and 3, sockets of 3, reads of 2, heads of 2 with a first line of 1, 3 bytes up and 4 down | order, wholeness of short messages, registration of sleepers; a request ends or is stuck in the shapes of `Stuck` |
| dispatch | 2 connections to a cluster of 2 members, 1 to another, manager channels of 2, limit 3, a checker that gives members up | one holder; 404 only during the start; 503 only with the quota spent; every connection is answered |
| dispatch_slow | 4 connections to a cluster whose sessions never end, 1 to another | the other one is answered |
| checker | keepalives of 2/2 and 1/1 (failures to give up, answers to come back) and an HTTP one, any updates and the removal | one checker at most, and none without its handle; a status is earned by probes; an update ends or locks up; the others go on or are stopped by that; without updates a member that stays down is given up, and for good |
| metrics | 2 requests and a checker, a second of 2 clock ticks, a period of 3, late by 1 at most, a channel of 1 | names kept; rates are averages; only a new entry panics |
| cluster | 2 addresses, 3 configurations (both methods, with and without keepalive, one that repeats an address), 2 requests and 2 updates, 3 messages in all, 4 tasks | listed members have senders and statuses; a sender leads to the newest task; why a task spins, a request is dropped, the worker dies; two checkers only while the older is to be removed or was left; findings survive; requests end or are held up by a lock-up |
| startup | 8 files, 2 listeners, 2 clusters, 3 connections of which one need not finish its handshake and one its session, channels of 1 | nobody is served in plain text by a TLS listener; acceptors; plain backends only for a reason; a failed start serves nobody; only repeats cancel a handshake; the start, its tasks and requests get through unless one task is crowded or held up, and then are stuck for good; the last configuration arrives; a handshake holds one listener |
| head | an array of 3, requests and responses with 7 first lines, pairs of header lines, both line breaks, what follows the head, a peer that closes at every place in it | the same head for every cut; the positions show the last read only; no read when a head is complete; the error of `received` |
| routing | 7 documents, 1 update, 4 server names, 750 URIs and 13 sets of headers | the route that answers is the one the document says; query and fragment decide by a regex or a prefix with "?" or "#" only; a proper request is answered; no dot segments; a URI keeps its meaning, in one spelling |
| escapes | as routing | violated: the normalized path is properly percent-encoded |

What is said of single states is one invariant per module, a conjunction of named parts;
what a part is about stands in the comment above it:

| invariant | parts |
|---|---|
| BufferPipe `IInv` | TypeOK, WindowIsTheBacklog, EmptyIsRewound, NoLostWakeup, ParkedForAReason, EndIsLast |
| BufferManager `BooksInv` | TypeOK, NeverOverCounts, ExactUnlessUnlimited, EntryWithinLimit |
| Relay `RelayInv` | TypeOK, InOrder, SleepersAreRegistered |
| Dispatch `DispatchInv` | TypeOK, OneHolder, NotFoundOnlyWhileStarting, RefusedOnlyWhenSpent |
| Metrics `MetricsInv` | TypeOK, FirstNameOnly |
| ClusterWorker `TasksInv` | TypeOK, SendersLeadToTheNewest, SpinsForAReason, OneCheckerOrALeftOne |
| Startup `StartInv` | TypeOK, AcceptorAsNamed, PlainBackendForAReason, FailedStartServesNobody, CancelledByRepeats, StuckByCrowding |
| HeaderReader `ReaderInv` | TypeOK, WindowIsTheStream |
| Routing `RoutingInv` | TypeOK, WellFormedIsAnswered, NoDotSegments |

`WaitersGoOn` of BufferPipe and `StartGetsThrough` of Startup join what must happen in the end,
`HeadAsSent` of HeaderReader what has been read when it is over.

Why the bounds are enough. A StrictBuffer has three regimes (empty, partly read,
full) and rewinds; a size of 3 with 7 bytes passes the end twice, with chunks that
fit, that are cut and that find no room. In the manager a limit of 4 takes two
grants of different sizes before it refuses, a limit of 3 is below the sum of two of the
larger. The manager and relay runs were also checked for the shapes a run must reach
to mean anything: in Relay, both tasks blocked on full buffers, each of them
blocked with the other gone, and a head lost by a cancellation are all reachable.
`MaxUp`, `MaxDown`, `MaxLive` and `MaxWindow` only bound what the environment sends; `SockCap` is a
socket's send buffer, `ManagerCap` and `ConfigCap` the 10 of main.rs, smaller so that they fill.
Nowhere is a symmetry used. Thresholds of 2 and 1 separate "as many" from "one short" and change under a
running count; `Most` caps the history counters at the highest
threshold, where they saturate. In MemberChecker the lock-up is reachable both with and
without the write guard of the statuses. Metrics has a period that is just long enough
for a tick that follows a late one (`Second + MaxLate = Period`), the tightest case that
MetricsAssumption allows; RATE_TIMER is 30 seconds.

In ClusterWorker two updates remove a member and add it again while its old task serves;
`MaxTasks` is as many tasks as that can spawn, a repeated member included: RequestsEnd
shows that no addition waits for a number. With `MaxMessages` of 3, two updates and a
request, or one update and two requests, each way in which `HeldUp` holds a request up is reachable but one, a changed keepalive on its
way to a full channel, which takes a message more; and so is each second reading that matters: the first member given up in between, and one that came back. Requests are numbered
and come in that order, as they differ in nothing else. In Startup the files list each way a name can be unfit, repeat a listener and a
cluster often enough to crowd the channels of one task and just too rarely, share an address, and
miss each section; with channels of 10 the same takes ten more messages. A start that is stuck
behind a missing answer, a lock-up of either kind or a session is reachable, and so is a cluster that has the manager wait
with another cluster's request behind it. In
HeaderReader an array of 3 is shorter than most lines, so that a line takes several reads and is cut in
all places, and longer than a line break, so that one read holds the ends of two lines. A document of two hosts that share a name, with the route that
fits in the second, shows the fall-through; URIs are up to four segments of dots, names, escapes
of one and of two bytes, of characters that need one and that do not, cut short ones, and what read_line
makes of a byte above 127. MCRouting also evaluates the example of the unit test of `normalized`.

Deadlock is checked in the manager, metrics, routing and escapes runs. The
other systems stop: all bytes sent or read, all requests answered, stuck as `Stuck` says, or,
with updates, a member gone or locked up for good.

## 4. Fairness

* BufferPipe: a scheduled reader polls, a woken writer polls again (weak fairness:
  the executor runs what is scheduled). Nothing obliges a writer to write, and
  `Nudge` is never fair, so nobody is saved by an accident.
* BufferManager `BusySpec`: requests of every size keep coming for every listener.
  This is the load for which the question is asked, not a property of the code.
* Relay: scheduled tasks run; remote ends take what they are sent and close in the
  end. The code has no timeout, so without the closing nothing would end.
* Dispatch: every task runs while it can; sessions end, except those of `Slow`
  clusters (no fairness on `SessionEnds` there). Members are never obliged to fail.
* MemberChecker: a task that holds what it asked for, whose probe is over or whose
  sleep has ended is polled. Updates, requests and the backend's answers are never fair.
* ClusterWorker: the worker and the tasks are polled, which includes that sessions end. An
  update of a keepalive ends when it does not lock up, as a checker comes to the end of its round
  (MemberChecker shows that: UpdateEndsOrLocksUp), but for one that waits for the statuses another member's checker keeps.
  Updates, requests, panics and the verdicts of checkers are never fair.
* Startup: every task is polled, each branch of a listener's `select!` is served
  (they are polled in random order), a client that is through its handshake sends its request.
  Connections need not come, the handshakes of `Slow` clients need not end, nor the sessions of
  `Endless` ones; an update of a keepalive ends or locks up.
* HeaderReader, Routing and Metrics: none; what is checked of them never needs it.

## 5. The proofs

TLAPS checks every theorem for every value of the constants that satisfies the named
ASSUMEs.

*BufferProofs*, BufferPipe. `IInv` is the conjunction of the type, the window, the rewind,
the two facts about the waker slot, and the end. None but the type is inductive
alone: that a writer's registration survives the reader's park needs that a reader
parks only on an empty buffer, that an empty buffer is rewound and thus not full, and
that a parked writer saw it full. `NextIInv` has a step per action over the lemmas
`ParkSpec`, `WriteSpec`, `ReadSpec`, `ShutdownSpec`, `DropSpec`, which say what a
method does to each field. Theorems: `Invariance` and its parts `Typing`, `Backlog`, `OneSlotIsEnough`,
`DrainedIsRewound`, `NobodyIsParkedForNothing`, `EndOfStream`, and the refinement
`BufferIsAPipe`: the initial buffer is the empty pipe, and by `WriteAppends` and `ReadTakes`,
from the invariant, every step is a step of BytePipe or leaves it alone.

*BufferProofs*, BufferManager. `BooksInv` relates the books to the history: exact and below
the highest limit or at the first grant for a listener that was never granted
anything off the books, never above in general. Theorems: `Books` and its parts `ManagerTyping`, `BooksNeverOverCount`,
`BooksAreExact`, `MemoryIsBounded`, and, for listeners whose clients release nothing, the action
property `RefusalsAreFinal`.

*DispatchProofs*. OneHolder says of each request where it is by what its connection waits for. To keep that
through a step the proof needs more: `Shapes` types every channel and hand, `AskersInv` that what is
on the way to the buffer manager was asked by somebody who waits for it, once (the limit's message aside),
`RequestsOnce` that a request is in the channel of the cluster manager once at most, and `PlacesInv`,
over the set `Places` of triples (request, kind of place, place), that each request which waits for
a backend has exactly one place and the others have none. The lemmas `Moved`, `Left`, `Came`, `Stayed` say what
the four kinds of step do to that set, so that each action of the model has only to show which of them it
is. `AheadInv`: every cluster is known, still to be loaded, or announced in the channel, and the
request of a client that was not early is behind the announcement of its cluster: a 404 is left to the start. `GrantsInv` bounds the books by the number of grants,
which is why a 503 shows the quota spent. Theorem: `RequestsAreAccountedFor`, all of `DispatchInv`.

*RelayProofs*. `Flow` is the core: what the reader of a direction took out of its buffer, the buffer, and the
slices its writer still has to write are one `Chain` of byte numbers from the last one that went out up to
`Base`, the last that the writer's task accepted (nothing before the header loop ends, the part of the
head that was stored when it ends too early, all that was read otherwise), and for short messages nothing
is missing in it (`Whole`). The pieces of a chain are `Ascends`: increasing, with room below and above for as
many as there are. The room is needed: from it the read cursor, which counts bytes that went through, is no
higher than the numbers of those bytes, so that a slice of a short message always fits behind the write
cursor. `Own` says where a task can be with what is left in its hands and that an empty buffer is a rewound one,
so that no buffer is full and empty at once (`FullIsNotEmpty`): hence whoever parks for reading never
takes the slot from a parked writer (`Sleeper`). `HeadInv` follows the header loop; one that failed undisturbed
was failed by the backend's close, after which nothing is read. `ChainWritten`, `ChainRead`, `ChainSent` and
`ChainLonger` say what the four moves of bytes do to a chain, and each action has a lemma of its own. Theorems:
`RelayInvHolds`, all of `RelayInv`, and `ShortMessages`.

*MemberCheckerProofs*. `HandleInv` adds to CheckerHasItsHandle what run_member's await
says of the handle: it stops only a checker it holds. It needs nothing of the locks: the
handle is given up after the join and a checker started only without one. `EarnedInv` bounds the counter of
the checker by the history of its probes, in the two phases of its loop. `LockInv` and `StatusesInv`
list, for each pair of awaits, the few states the two RwLocks can be in (`Shape`: readers, writer,
queue); the lemmas about `Settle` compute what asking and dropping make of each. Theorems: `OneCheckerAtATime`,
`VerdictsAreEarned`, `LocksStayInShape`.

*ClusterWorkerProofs*. ListedHaveSenders speaks of the moments when the worker takes
a message. `MapsInv` says what holds in between: every listed member has a sender or is
still to be added, every sender has a status, and, once all are added, who has a sender and is not
listed is still to be removed. That a worker choosing a member is between configurations (`Settled`) is what makes
both readings of the statuses find the entries. `WorkerInv` adds the tasks: `TaskTypes`; a number that was not
given out yet has an empty queue, no checker and no place (`BlankOrQuiet`); the worker has a request in its
hand only between updates and for a task that has a sender (`HandAtRest`); the sender of an address is that of the newest
of its tasks, which was not told to leave, and the older ones were told, replaced or are down (`AgesInv`). A task that was told may
have the message in its channel or be at it. Theorems:
`SelectionFindsItsEntries`, `FindingsSurviveUpdates`, `TasksAreAccountedFor`, `DropsHaveAReason`,
`WorkersDieOfAnEmptySelection`.

*MetricsProofs*. `ReportsInv` is what the three properties rest on. `OrderInv`: while the Cluster has no entry, a later
report of a request in the channel, or the next of a task, has a first one before it in the channel; therefore the
first that is received is `bytes_received`. `NamesInv`: one name at most for a source, and none of the Cluster without one of
the member. `RatesInv`: what a rate has counted is what was reported since the last tick, and its age and the time
to the next tick add up to a period at most and, for an entry that has seen a tick, to no less than a late one leaves of it.
Theorems: `SourcesKeepTheirFirstName`, `RatesAreAveraged`, `OldEntriesAreOldEnough`.

*StartupProofs*. `TlsInUse` is what NeverPlainWithTls rests on, beside the invariant of the tasks below: a listener sets
use_tls only for a TLS name of its first configuration; it has set it when it waits for an answer and when there is nothing
left to ask for, if there was anything (`UsedTls`). The steps that shorten what is to be asked for, the answers and the failure of the start, concern only
listeners that wait, which have set it (`UseKept`), and an update of the configuration changes neither. For all of StartInv the invariant `StartIInv` has six parts. `Typed`: a channel holds only messages that
go through it, configurations of the file and requests of the connections, and nothing is on the way to a
name that is unknown except in the channel of its manager. `Ordered`: TLS configurations are
announced and received before any listener is known, and the first configuration of a name stays ahead of its others
up to the manager, so that a task starts with the first one (the lemmas about `Announced` show it of the
file, `LeadsWith` and `TlsFirst` carry it through the channels). `Tasks` and `Waiting`: what a task has still to ask for is
the end of its list of names, those before were refused for being unusable, or the start failed; who waits
is in CONFIG once. `Counted` says how often a message can come: `OnTheWay(T, x)` adds up the messages of
a set T in every channel and hand towards x, no step but a new request raises it for any T, and a message
that arrives lowers it. From that no configuration is
delivered more often than the file lists it and no request twice. `Accepting` pairs each handshake
with its connection. A cancelled handshake then needs two entries, a cluster that a failed start never announced has no
member to serve anybody, and a listener or cluster in whose channels the start is stuck has as many
entries and early requests as it has places filled (`FullChannels` counts them: the four
messages are different ones of the file or of different connections). Theorems: `TlsIsNeverSkipped`, `StartInvHolds`.

*HeadProofs*. The library's induction theorems cannot be instantiated here, so `Induction`, `DownwardInduction` and the
rest go by the least element of a set of numbers, and a recursive function is unfolded once and for all: `FoldExists` and
`UnfoldExists` give a function with the same equations, which is then the one that CHOOSE picks. With that `SplitIs`,
`FlattenIs`, `PathIs`, `TermsAre`, `LinesAre` say what the recursions of the model return, and everything else is a
proof about their equations.

HeaderReader: `WindowInv` and `TypeInv` are the positions and the types. For what is read, `HeadKept` says at every
moment that the line under way is the text of the stream from the last line feed to the last byte looked at, and that
line, protocol and fields are those of `Whole` over the lines before: `ByteKeeps` and `LineKeeps` are one byte and one
line more. Where the reads cut does not occur in it; the size of the array does in what is said of `received`, which
lies between the characters so far and those with the white space that `Trim` takes off (`BlanksOf`) and as much per line
as an array can hold behind it. `HeadIsAsSent` and `HeadNeedsWhatItReads` then compare with `Whole`.
Theorems: `NothingStaleIsParsed`, `Typing`, both as `ReaderIsSound`, `HeadsAreAsSent`, `NothingIsAwaitedInVain`.

Routing: `Searching` says which hosts and routes were tried and that none of them matches. Its step lemmas rest on `FitsAsMatched`: what the parser kept of a condition matches
exactly what the document says, for conditions that were passed over too. Theorem: `RoutesAsWritten`. `SlashIsEnough`: a path that
begins with "/" never panics, hence `RequestsAreAnswered`, whose other half is `NoNewDots`: a term that is neither "." nor ".."
does not become one, as dots come out only where dots went in. `PathIsEnough` compares the answers with and without what
stands behind the path, for `QueriesDoNotRoute`: a prefix without "?" and "#" ends before the first of either or does not match (`LocalPathCuts`, `MeetsPath`).

`UrisKeepTheirMeaning` has three lines of argument. What a segment is spelled as: `Spelled` and `BytesOf` join over the
pieces of a text (`SpelledJoins`, `SpelledFromIs`), one character or escape of a proper text makes the piece `OneTerm` says, and by
descent `ProperTerm` has normalize_term return `Spelled(BytesOf(s))`. Which segments stay: `Balance(k)` is how many more names
than ".." there are among the first k; the stack after k segments is what the last name with the present balance was put
on (`Stacked`), and the names in it are `LeftAt(k)` (`StackStep`, `LeftStep`), so that `PathIsLaid` lays out just `Left`.
What is behind the path: `TogetherSplits` splits a query that was put together into the same parameters, as none of
them has an "&" (`SplitPure`), their keys differ (`KeysDiffer`), and `CutParts` finds the query and the
fragment where `normalized` put them. `UriIsOfRequest` is the invariant: the URI that is routed is one that
`normalized` returns for the request that was read.

The constants are what the ASSUMEs beside them say: finite sets of connections and clusters where the
proof counts, files whose sections are sequences of entries with names of listeners and clusters and which name
finitely many TLS configurations, capacities of 1 at least, no cluster that is called as the message for the limit,
`Most` no lower than any threshold, documents whose lists are lists, URIs made of code points. Sequences and finite sets come with the theorems of the
standard proof modules.

Only model-checked: the properties that say what must happen in the end (WaitersGoOn, EndsUpRefusing, EndsOrIsStuck,
OthersAreAnswered, UpdateEndsOrLocksUp, OthersGoOnOrLockUp, DownIsNoticed, RequestsEnd, StartGetsThrough,
LastConfigArrives, OneHandshakeHoldsOneListener): fairness and ENABLED are out of the prover's reach. Every invariant
and action property of a passing run is a theorem; EscapesAreEscapes is what the code violates.

## 6. What the checks show about the code

* StrictBuffer is right about bytes and wakers while both halves live; one slot is
  enough, because of the rewind. `poll_shutdown` strands unread bytes.
* Nothing tells a parked reader that the writer has been dropped. The client's task
  sleeps through the end of the response until its own socket is heard of, which is why
  `EndsOrIsStuck` needs remote ends that close.
* The two tasks of a request can block on each other for ever, each awaiting room
  inside its `select!` branch; one can block alone when the other has returned
  (`Stuck`). These are the only ways not to end, given remote ends that close.
* `read_headers` in a `select!` loses what it had read when the request's bytes
  arrive in the middle of the response head, and messages longer than the room left
  are cut. Within these limits everything arrives, and always in order.
* The quota only grows, as nobody sends a release: a listener with `buffer` set
  serves a fixed number of requests, then answers 503 for good.
* Dispatch has no circular wait. A slow cluster delays the others from its fifth
  unfinished request on: one in session, one each in the two channels and with the
  worker, the fifth in the manager's hand. How many members it has does not matter,
  as round robin always takes the second.
* An update of a keepalive that arrives while the checker has a guard and will ask for
  another locks run_member and the checker up for good: the writer waits for the guard,
  the next read waits for the writer. When the checker was about to write a status it
  holds the map of statuses, and every request of the cluster waits too. Without updates
  this cannot happen.
* The checker compares with the status it read at its start. A member it gave up stays
  given up until a new checker is started.
* The selection of a cluster's worker never misses an entry. Round robin takes the second
  available member, always. least_conn takes the first, as the counts of connections stay 0, or nobody when the
  first is Disabled, or was given up between the two readings of the statuses, though others are Active. With
  every member given up at the first reading it panics, also when one has come back by the second, and the cluster is dead.
* A member that changes its keepalive and locks up with its checker holds up the request in its channel, and the worker when it
  has the next message for it; when the checker holds the statuses every request of the cluster waits (`HeldUp`). No other request of a cluster
  is left without an end, given sessions that end.
* A member that the first configuration repeats leaves a task that reads the end of its
  channel in a loop that never waits. So do all tasks of a worker that died.
* A member whose task panicked (an SNI that is no server name) stays listed; its requests
  are dropped until an update leaves it out, and its checker lives on.
* Start-up deadlocks when a name that waits for its TLS configuration is sent more than
  its channels hold: a file that repeats it, or early connections to a cluster with TLS. So it does when a member
  that has its answer takes no message: it locked up with its checker when the file repeated its cluster with another keepalive, or a
  session of an early connection does not end. These are the only ways (`Stuck`), each takes more messages for one name than its
  channels hold, and the first and the lock-up are for good.
* A TLS listener whose names are unknown or unfit, or whose start failed, accepts and closes;
  it never falls back to plain text. A cluster in the same place does: its member talks to the
  backend in plain text. Updates change neither. A failed start leaves the listeners up,
  and they answer 404.
* A listener does one handshake at a time, without a timeout, and an update cancels it. A
  failure to bind is final and nobody is told.
* Where a read cuts a head does not matter. Two bytes above 127 become U+0000 when the
  first is from 192 on, others vanish. `received` counts what is behind a line again with
  every line.
* The first route of the document that fits answers, with two surprises: an exact
  `header_value` is never compared, and the route is found by the normalized URI while the backend is sent
  the line as it came (http.rs:439).
* A request without a Host panics its connection at the first virtual host, an empty path
  before that.
* An escape of a character that needs none loses it: "%2e" becomes "%" (run `escapes`; the
  comment at utils/http.rs:57 promises otherwise). A dot segment cannot be hidden that way.
  The parameters come out in any order, so the unit test of `normalized` passes by chance.
* A rate that is less than a second old when the timer ticks panics the metric manager.
  Rates are exact otherwise, but of the names of a
  source only the first to arrive is kept: bytes sent and connections never are.

## 7. What is not modelled

The fields of clusters and TLS read from YAML (configs/cluster.rs, configs/tls.rs) and
certificates: they become records without behaviour, which are constants of the modules. Logging,
formatting of the error responses, the text of metrics, TLS records. TCP beyond a bounded buffer
per direction. Panics except those on the modelled paths; texts of the wrong YAML type, which
panic the start. Regular expressions beyond texts that are found. Messages that exist and
are never sent have no sender to model: RemoveListener, RemoveCluster to the managers,
ClusterConnectionClosed, TLS updates of a cluster, Counter. The composition of Relay with
Dispatch and of MemberChecker's locks with ClusterWorker and Startup are left apart, as together they are out of TLC's
reach. What a module takes of the other is an action that may end in each way the other shows: a session in Dispatch ends or
does not (`Slow`), so does one in Startup (`Endless`), a change of a checker in ClusterWorker and Startup ends or locks up, with the
statuses or without. Where sessions are taken to end (ClusterWorker, Dispatch but for `Slow`) section 4 says so.

## 8. What is left

Relay with Dispatch, and MemberChecker's locks with ClusterWorker, as compositions: TLC cannot explore them, but their
safety could be proved from the invariants of the parts. The fields of clusters and TLS, once they decide
anything.
