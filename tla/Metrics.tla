------------------------------- MODULE Metrics --------------------------------
(***************************************************************************)
(* MetricManager (managers/metric.rs) between its timer and the tasks that     *)
(* report to it: requests (HttpConnection::send_metrics) and the checker of a  *)
(* member.                                                                  *)
(*                                                                         *)
(* Time is counted in ticks of a clock, Second of which make a second.  Nobody   *)
(* but the manager takes its mutex, so neither branch of the select! is ever    *)
(* suspended after its first await: a branch is one step.  Counter has no        *)
(* sender.  The timestamp of what is no rate is never looked at and left out,     *)
(* and so is what a gauge or a string says.                                 *)
(***************************************************************************)
EXTENDS Integers, Sequences, FiniteSets, TLC

CONSTANTS
  Connections,    \* tasks of requests
  Checker,        \* the checker of the member that serves them
  Amounts,        \* bytes of a request
  Second, Period, \* clock ticks of a second and of RATE_TIMER
  MaxLate,        \* how late the executor polls a timer at most
  Cap,            \* of the channel to the manager
  MaxWindow       \* bound of what is reported between two ticks of the timer

ASSUME MetricsAssumption ==
  /\ Checker \notin Connections /\ Amounts \subseteq Nat
  /\ Second \in Nat \ {0} /\ Period \in Nat /\ MaxLate \in Nat /\ Cap \in Nat \ {0}
  /\ Second + MaxLate <= Period /\ MaxWindow \in Nat

Sources == {"Cluster", "ClusterMember"}
Rates   == {"bytes_received", "bytes_sent", "connections"}
Names   == Rates \cup {"rtt", "availability"}
Senders == Connections \cup {Checker}

VARIABLES
  metrics,        \* by source and by name
  due,            \* time to the next tick of the timer, negative when it is late
  channel,        \* to the manager
  todo,           \* the messages a task has yet to send
  crashed,        \* the manager's task has panicked
  window, fresh   \* history: reported since the last tick for the entry of a source;
                  \* the sources whose entry is younger than that tick

vars == <<metrics, due, channel, todo, crashed, window, fresh>>

Message(scope, name, value) == [scope |-> scope, name |-> name, value |-> value]
Entry == [metric : Nat, last_value : Nat, current_value : Nat, age : 0..Period + MaxLate]
Nothing == [s \in Sources |-> <<>>]

Init ==
  /\ metrics = Nothing /\ due = 0 /\ channel = <<>>
  /\ todo = [t \in Senders |-> <<>>]
  /\ crashed = FALSE
  /\ window = [s \in Sources |-> 0] /\ fresh = {}

-------------------------------------------------------------------------------
\* The tasks that report.

\* send_metrics: three rates, one after the other.
ReportTraffic(c) ==
  /\ todo[c] = <<>> /\ \A s \in Sources : window[s] < MaxWindow
  /\ \E received, sent \in Amounts :
       todo' = [todo EXCEPT ![c] = <<Message(Sources, "bytes_received", received),
                                     Message(Sources, "bytes_sent", sent),
                                     Message(Sources, "connections", 1)>>]
  /\ UNCHANGED <<metrics, due, channel, crashed, window, fresh>>

\* The round of a checker: a time and a state, or a state alone.
ReportProbe ==
  /\ todo[Checker] = <<>>
  /\ LET state == Message({"ClusterMember"}, "availability", 0)
         rtt   == Message({"ClusterMember"}, "rtt", 0)
     IN \E report \in {<<rtt, state>>, <<state>>} : todo' = [todo EXCEPT ![Checker] = report]
  /\ UNCHANGED <<metrics, due, channel, crashed, window, fresh>>

\* A send waits for room; without a receiver it fails, which is ignored.
Send(t) ==
  /\ todo[t] # <<>> /\ (crashed \/ Len(channel) < Cap)
  /\ todo' = [todo EXCEPT ![t] = Tail(@)]
  /\ channel' = IF crashed THEN channel ELSE Append(channel, Head(todo[t]))
  /\ UNCHANGED <<metrics, due, crashed, window, fresh>>

-------------------------------------------------------------------------------
\* The manager.

NewEntry(m) == [metric |-> m.value, last_value |-> 0, age |-> 0,
                current_value |-> IF m.name \in Rates THEN m.value ELSE 0]

\* A faulty variant: a report renews the timestamp of a rate.
UpdatedAnew(e, m) == [e EXCEPT !.current_value = @ + m.value, !.age = 0]

Updated(e, m) ==
  IF m.name \in Rates THEN [e EXCEPT !.current_value = @ + m.value]
  ELSE [e EXCEPT !.metric = m.value]

\* A faulty variant: a source takes every name.
StoredByName(names, m) ==
  IF m.name \in DOMAIN names THEN [names EXCEPT ![m.name] = Updated(@, m)]
  ELSE (m.name :> NewEntry(m)) @@ names

\* or_insert_with is for a source nobody has reported on: the names that come after
\* its first are dropped.
Stored(names, m) ==
  IF names = <<>> THEN [n \in {m.name} |-> NewEntry(m)]
  ELSE IF m.name \in DOMAIN names THEN [names EXCEPT ![m.name] = Updated(@, m)]
  ELSE names

Receive ==
  /\ ~crashed /\ channel # <<>> /\ channel' = Tail(channel)
  /\ LET m == Head(channel) IN
     /\ metrics' = [s \in Sources |->
                      IF s \in m.scope THEN Stored(metrics[s], m) ELSE metrics[s]]
     /\ fresh' = fresh \cup {s \in m.scope : metrics[s] = <<>>}
     /\ window' = [s \in Sources |->
          IF s \in m.scope /\ m.name \in DOMAIN metrics'[s] /\ m.name \in Rates
            THEN window[s] + m.value ELSE window[s]]
  /\ UNCHANGED <<due, todo, crashed>>

AsSecs(age) == age \div Second
TooYoung(s) == \E n \in DOMAIN metrics[s] \cap Rates : AsSecs(metrics[s][n].age) = 0

\* A faulty variant: the sum goes on.
RatedOnAndOn(e) ==
  [e EXCEPT !.metric = (e.current_value - e.last_value) \div AsSecs(e.age), !.age = 0]

Rated(e) ==
  [metric |-> (e.current_value - e.last_value) \div AsSecs(e.age),
   current_value |-> e.last_value, last_value |-> 0, age |-> 0]

\* interval() asks for the next tick a Period after this one was due.
Tick ==
  /\ ~crashed /\ due <= 0 /\ due' = due + Period
  /\ \A s \in Sources : ~TooYoung(s)
  /\ metrics' = [s \in Sources |-> [n \in DOMAIN metrics[s] |->
                   IF n \in Rates THEN Rated(metrics[s][n]) ELSE metrics[s][n]]]
  /\ window' = [s \in Sources |-> 0] /\ fresh' = {}
  /\ UNCHANGED <<channel, todo, crashed>>

\* A division by zero seconds: the task panics, its metrics and its receiver go.
Panic ==
  /\ ~crashed /\ due <= 0 /\ \E s \in Sources : TooYoung(s)
  /\ crashed' = TRUE /\ metrics' = Nothing /\ channel' = <<>>
  /\ window' = [s \in Sources |-> 0] /\ fresh' = {}
  /\ UNCHANGED <<due, todo>>

\* Time passes, and a timer that is due is not left alone for ever.  The clock goes on
\* without the manager, whose timer is gone.
Pass ==
  /\ IF crashed THEN due' = due ELSE due > -MaxLate /\ due' = due - 1
  /\ metrics' = [s \in Sources |-> [n \in DOMAIN metrics[s] |->
                   IF n \in Rates THEN [metrics[s][n] EXCEPT !.age = @ + 1]
                   ELSE metrics[s][n]]]
  /\ UNCHANGED <<channel, todo, crashed, window, fresh>>

Next ==
  \/ Tick \/ Panic \/ Receive \/ Pass \/ ReportProbe
  \/ \E c \in Connections : ReportTraffic(c)
  \/ \E t \in Senders : Send(t)

Spec == Init /\ [][Next]_vars

-------------------------------------------------------------------------------
TypeOK ==
  /\ \A s \in Sources : /\ DOMAIN metrics[s] \subseteq Names
                        /\ \A n \in DOMAIN metrics[s] : metrics[s][n] \in Entry
  /\ due \in -MaxLate..Period /\ Len(channel) <= Cap
  /\ \A t \in Senders : Len(todo[t]) <= 3
  /\ crashed \in BOOLEAN /\ fresh \subseteq Sources /\ window \in [Sources -> Nat]

\* What a tick writes down is the average of exactly what was reported since the tick
\* before it, or since the entry was made: the shuffle of last_value and current_value
\* loses nothing and counts nothing twice.
RatesAreAverages ==
  [][Tick => \A s \in Sources : \A n \in DOMAIN metrics[s] \cap Rates :
       metrics'[s][n].metric = window[s] \div AsSecs(metrics[s][n].age)]_vars

\* A source keeps the first name it was reported with and no other.  For what only
\* requests report on it is the bytes received: each sends them first, and a channel
\* keeps its order.  For a member it is that, or what its checker said first, and
\* then its traffic is never counted.
FirstNameOnly ==
  /\ \A s \in Sources : Cardinality(DOMAIN metrics[s]) <= 1
  /\ DOMAIN metrics["Cluster"] \subseteq {"bytes_received"}
  /\ DOMAIN metrics["ClusterMember"] \subseteq {"bytes_received", "rtt", "availability"}

\* The metrics and the channel are typed, and every source has one name.
MetricsInv == TypeOK /\ FirstNameOnly

\* The manager panics only over an entry made since the last tick: one that survived a
\* tick is old enough for the next, also when that one comes early after a late one.
OnlyNewcomersPanic == [][Panic => \E s \in fresh : TooYoung(s)]_vars

===============================================================================
