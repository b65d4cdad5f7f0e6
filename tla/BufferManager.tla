----------------------------- MODULE BufferManager -----------------------------
(***************************************************************************)
(* BufferManager::worker (managers/buffer.rs): one task that receives one    *)
(* message at a time and answers each buffer request through a oneshot.  It   *)
(* keeps a limit per listener and an amount allocated per listener and per    *)
(* cluster; nothing else in the gateway bounds the memory of the requests.    *)
(*                                                                         *)
(* Its clients follow the message protocol: whoever was granted a buffer may *)
(* give it back, once.  In the code as it stands nobody does: Releasing names *)
(* the listeners and clusters whose clients are taken to do it.              *)
(***************************************************************************)
EXTENDS Integers

CONSTANTS
  Listeners, Clusters,   \* names
  Sizes,                 \* the sizes requested: never 0 (http.rs:147, :15)
  Limits,                \* the values of "buffer" in a listener's configuration
  Releasing,             \* the names for which ReleaseListener / ReleaseCluster is sent
  MaxLive                \* bound: bytes held through one name, for a grant that no
                         \* limit bounds

ASSUME SizesAssumption   == Sizes \subseteq Nat \ {0}
ASSUME LimitsAssumption  == Limits \subseteq Nat
ASSUME MaxLiveAssumption == MaxLive \in Nat
ASSUME NamesAssumption   == Listeners \cap Clusters = {}

NoEntry == -1            \* the name is not a key of the map

VARIABLES
  listeners,             \* the limits; 0 stands for no entry, as in unwrap_or(&0)
  allocated_listeners, allocated_clusters,
  live,                  \* history: the buffers really held, by name, in bytes
  first,                 \* history: the grant that created the listener's entry
  highest,               \* history: the highest limit a listener ever had
  uncounted              \* history: listeners granted a buffer off the books

managerVars == <<listeners, allocated_listeners, allocated_clusters, live, first, highest,
          uncounted>>
history == <<live, first, highest, uncounted>>

ManagerInit ==
  /\ listeners = [l \in Listeners |-> 0]
  /\ allocated_listeners = [l \in Listeners |-> NoEntry]
  /\ allocated_clusters = [c \in Clusters |-> NoEntry]
  /\ live = [x \in Listeners \cup Clusters |-> 0]
  /\ first = [l \in Listeners |-> 0]
  /\ highest = [l \in Listeners |-> 0]
  /\ uncounted = {}

-------------------------------------------------------------------------------
\* Faulty variants of the operations next to or below them.

\* entry(name).and_modify(..).or_insert(0) of the two releases.
Released(entry, size) ==
  IF entry = NoEntry \/ entry < size THEN 0 ELSE entry - size

\* A refused request is counted before the limit is looked at.
RefusesAndCounts(l, size) ==
  /\ allocated_listeners[l] # NoEntry
  /\ listeners[l] # 0
  /\ allocated_listeners[l] + size >= listeners[l]
  /\ allocated_listeners' = [allocated_listeners EXCEPT ![l] = listeners[l]]
  /\ UNCHANGED <<listeners, allocated_clusters, history>>

\* A grant below the limit is not counted.
CountedNever(l, size) ==
  /\ allocated_listeners[l] # NoEntry
  /\ allocated_listeners[l] + size < listeners[l]
  /\ live[l] + size <= MaxLive
  /\ live' = [live EXCEPT ![l] = @ + size]
  /\ UNCHANGED <<listeners, allocated_listeners, allocated_clusters, first, highest,
                 uncounted>>

\* The limit is compared with what is allocated, not with what would be.
CountedLate(l, size) ==
  /\ allocated_listeners[l] # NoEntry
  /\ allocated_listeners[l] < listeners[l]
  /\ allocated_listeners' = [allocated_listeners EXCEPT ![l] = @ + size]
  /\ live' = [live EXCEPT ![l] = @ + size]
  /\ UNCHANGED <<listeners, allocated_clusters, first, highest, uncounted>>

\* A new limit clears the books.
ConfigUpdateResets(l, limit) ==
  /\ listeners' = [listeners EXCEPT ![l] = limit]
  /\ highest' = [highest EXCEPT ![l] = IF limit > @ THEN limit ELSE @]
  /\ allocated_listeners' = [allocated_listeners EXCEPT ![l] = NoEntry]
  /\ UNCHANGED <<allocated_clusters, live, first, uncounted>>

-------------------------------------------------------------------------------
\* ConfigUpdate(ListenerConfig): the limit is replaced, the books are kept.
ConfigUpdate(l, limit) ==
  /\ listeners' = [listeners EXCEPT ![l] = limit]
  /\ highest' = [highest EXCEPT ![l] = IF limit > @ THEN limit ELSE @]
  /\ UNCHANGED <<allocated_listeners, allocated_clusters, live, first, uncounted>>

\* RequestListener, first request under this name: granted whatever the limit.
GrantFirst(l, size) ==
  /\ allocated_listeners[l] = NoEntry
  /\ allocated_listeners' = [allocated_listeners EXCEPT ![l] = size]
  /\ live' = [live EXCEPT ![l] = @ + size]
  /\ first' = [first EXCEPT ![l] = size]
  /\ UNCHANGED <<listeners, allocated_clusters, highest, uncounted>>

\* RequestListener, it stays below the limit: granted and counted.
GrantCounted(l, size) ==
  /\ allocated_listeners[l] # NoEntry
  /\ allocated_listeners[l] + size < listeners[l]
  /\ allocated_listeners' = [allocated_listeners EXCEPT ![l] = @ + size]
  /\ live' = [live EXCEPT ![l] = @ + size]
  /\ UNCHANGED <<listeners, allocated_clusters, first, highest, uncounted>>

\* RequestListener, no limit known: granted and not counted.
GrantUncounted(l, size) ==
  /\ allocated_listeners[l] # NoEntry
  /\ listeners[l] = 0
  /\ live[l] + size <= MaxLive
  /\ live' = [live EXCEPT ![l] = @ + size]
  /\ uncounted' = uncounted \cup {l}
  /\ UNCHANGED <<listeners, allocated_listeners, allocated_clusters, first, highest>>

\* RequestListener, answered OverLimit: nothing changes.
Refuses(l, size) ==
  /\ allocated_listeners[l] # NoEntry
  /\ listeners[l] # 0
  /\ allocated_listeners[l] + size >= listeners[l]

RefuseListener(l, size) == Refuses(l, size) /\ UNCHANGED managerVars

RequestListener(l, size) ==
  \/ GrantFirst(l, size)   \/ GrantCounted(l, size)
  \/ GrantUncounted(l, size) \/ RefuseListener(l, size)

\* RequestCluster: clusters has no limit, so the answer is always a buffer, and
\* only the one that creates the entry is counted.
RequestCluster(c, size) ==
  /\ live[c] + size <= MaxLive
  /\ allocated_clusters' = [allocated_clusters EXCEPT ![c] = IF @ = NoEntry THEN size ELSE @]
  /\ live' = [live EXCEPT ![c] = @ + size]
  /\ UNCHANGED <<listeners, allocated_listeners, first, highest, uncounted>>

\* ReleaseListener, ReleaseCluster: somebody gives back a buffer of that size.
ReleaseListener(l, size) ==
  /\ l \in Releasing /\ live[l] >= size
  /\ allocated_listeners' = [allocated_listeners EXCEPT ![l] = Released(@, size)]
  /\ live' = [live EXCEPT ![l] = @ - size]
  /\ UNCHANGED <<listeners, allocated_clusters, first, highest, uncounted>>

ReleaseCluster(c, size) ==
  /\ c \in Releasing /\ live[c] >= size
  /\ allocated_clusters' = [allocated_clusters EXCEPT ![c] = Released(@, size)]
  /\ live' = [live EXCEPT ![c] = @ - size]
  /\ UNCHANGED <<listeners, allocated_listeners, first, highest, uncounted>>

Configure == \E l \in Listeners, limit \in Limits : ConfigUpdate(l, limit)
Request == \E size \in Sizes :
  \/ \E l \in Listeners : RequestListener(l, size)
  \/ \E c \in Clusters : RequestCluster(c, size)
Release == \E size \in Sizes :
  \/ \E l \in Listeners : ReleaseListener(l, size)
  \/ \E c \in Clusters : ReleaseCluster(c, size)

ManagerNext == Configure \/ Request \/ Release

ManagerSpec == ManagerInit /\ [][ManagerNext]_managerVars

\* An environment that keeps asking: clients of every listener go on sending
\* requests of every size.  This is an assumption about the load, not about the
\* scheduler.
Grant(l, size) == GrantFirst(l, size) \/ GrantCounted(l, size) \/ GrantUncounted(l, size)
BusySpec == ManagerSpec /\ \A l \in Listeners, size \in Sizes : WF_managerVars(Grant(l, size))

-------------------------------------------------------------------------------
ManagerTypeOK ==
  /\ listeners \in [Listeners -> Nat]
  /\ allocated_listeners \in [Listeners -> Nat \cup {NoEntry}]
  /\ allocated_clusters \in [Clusters -> Nat \cup {NoEntry}]
  /\ live \in [Listeners \cup Clusters -> Nat]
  /\ first \in [Listeners -> Nat]
  /\ highest \in [Listeners -> Nat]
  /\ uncounted \subseteq Listeners

\* The books never show more than what is held, so nobody is refused for memory
\* that was given back or was never granted: not with grants off the books, not
\* with releases that saturate, not with limits that change under the traffic.
NeverOverCounts ==
  /\ \A l \in Listeners : allocated_listeners[l] <= live[l]
  /\ \A c \in Clusters : allocated_clusters[c] <= live[c]

\* They are exact as long as no buffer was granted while the limit was unknown
\* (GrantUncounted, the window of config.rs:56-61), and only then.
ExactUnlessUnlimited ==
  \A l \in Listeners \ uncounted :
    IF allocated_listeners[l] = NoEntry THEN live[l] = 0
    ELSE allocated_listeners[l] = live[l]

\* What the manager is for: the memory really held through a listener stays below
\* the highest limit it was given, but for the first request, which is granted
\* unseen, and for what was granted while no limit was known.
MemoryWithinLimit ==
  \A l \in Listeners \ uncounted : live[l] < highest[l] \/ live[l] <= first[l]

\* What each entry of the books says about the limits: but for its first grant it
\* never passed the highest limit of its listener.
EntryWithinLimit ==
  \A l \in Listeners :
    /\ listeners[l] <= highest[l]
    /\ allocated_listeners[l] < highest[l] \/ allocated_listeners[l] <= first[l]

\* The books of the manager, after any messages: of their type, never above what is held,
\* exact where every grant was counted, and within the limits.
BooksInv == ManagerTypeOK /\ NeverOverCounts /\ ExactUnlessUnlimited /\ EntryWithinLimit

\* Without releases the books of a listener only grow: once it refuses a size it goes
\* on refusing it until its limit is raised or removed.
RefusalIsFinal ==
  [][\A l \in Listeners \ Releasing, size \in Sizes :
       /\ Refuses(l, size)
       /\ listeners'[l] <= listeners[l] /\ listeners'[l] # 0
       => Refuses(l, size)']_managerVars

\* And a listener whose limit settles and that is kept busy ends up refusing every
\* request for good, however few are in flight: no reply, no closed connection
\* and no finished request ever gives memory back.
EndsUpRefusing ==
  \A l \in Listeners \ Releasing, size \in Sizes, limit \in Limits \ {0} :
    <>[](listeners[l] = limit) => <>[]Refuses(l, size)

===============================================================================
