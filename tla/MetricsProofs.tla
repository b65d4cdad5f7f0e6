------------------------------ MODULE MetricsProofs ------------------------------
(* Theorems about Metrics, for every number of requests, every period and      *)
(* every delay of the timer up to one that leaves a second between two ticks.    *)
EXTENDS Metrics, TLAPS, SequenceTheorems, FiniteSetTheorems

\* What requests and checkers send.
Traffic == [scope : {Sources}, name : Rates, value : Nat]
Probes  == [scope : {{"ClusterMember"}}, name : {"rtt", "availability"}, value : {0}]
Reports == Traffic \cup Probes

\* The report of a request that is sent first, and those that come after it.
IsFirst(m) == m.name = "bytes_received"
IsLater(m) == m.name \in {"bytes_sent", "connections"}

\* An entry without its bound on the age.
Numbers == [metric : Nat, last_value : Nat, current_value : Nat, age : Nat]

Shapes ==
  /\ due \in Int /\ -MaxLate <= due /\ due <= Period
  /\ channel \in Seq(Reports) /\ Len(channel) <= Cap
  /\ todo \in [Senders -> Seq(Reports)]
  /\ \A c \in Connections : todo[c] \in Seq(Traffic)
  /\ todo[Checker] \in Seq(Probes)
  /\ \A t \in Senders : Len(todo[t]) <= 3
  /\ \A c \in Connections : \A i \in DOMAIN todo[c] : i > 1 => IsLater(todo[c][i])
  /\ crashed \in BOOLEAN /\ fresh \subseteq Sources /\ window \in [Sources -> Nat]

\* The first report of a request comes before its others, so whoever has received nothing
\* from requests yet receives that one first.
OrderInv ==
  ~crashed /\ DOMAIN metrics["Cluster"] = {} =>
    /\ \A j \in DOMAIN channel : IsLater(channel[j]) => \E i \in DOMAIN channel : i < j /\ IsFirst(channel[i])
    /\ \A c \in Connections : todo[c] # <<>> /\ IsLater(Head(todo[c])) => \E i \in DOMAIN channel : IsFirst(channel[i])

\* Each source has one name at the most, the first it was reported with.
NamesInv ==
  /\ \A s \in Sources : metrics[s] \in [DOMAIN metrics[s] -> Numbers] /\ DOMAIN metrics[s] \subseteq Names
  /\ \A s \in Sources : \A m, n \in DOMAIN metrics[s] : m = n
  /\ DOMAIN metrics["Cluster"] \subseteq {"bytes_received"}
  /\ DOMAIN metrics["ClusterMember"] \subseteq {"bytes_received", "rtt", "availability"}
  /\ DOMAIN metrics["ClusterMember"] = {} => DOMAIN metrics["Cluster"] = {}
  /\ crashed => \A s \in Sources : DOMAIN metrics[s] = {}

\* A rate has counted what was reported since the last tick, and its age and the timer
\* add up: to a period at the most, and to no less than a late tick leaves of one, unless
\* it was made since.
RatesInv ==
  /\ \A s \in Sources : DOMAIN metrics[s] = {} => window[s] = 0
  /\ \A s \in Sources : \A n \in DOMAIN metrics[s] :
       /\ metrics[s][n].last_value = 0
       /\ n \in Rates => /\ metrics[s][n].current_value = window[s]
                         /\ metrics[s][n].age + due <= Period
                         /\ s \notin fresh => metrics[s][n].age + due >= Period - MaxLate
       /\ n \notin Rates => metrics[s][n].age = 0

ReportsInv == Shapes /\ OrderInv /\ NamesInv /\ RatesInv

-------------------------------------------------------------------------------
\* Whole seconds.
LEMMA Seconds ==
  ASSUME NEW a \in Nat
  PROVE  AsSecs(a) \in Nat /\ (a >= Second => AsSecs(a) # 0)
BY MetricsAssumption DEF AsSecs

LEMMA Quotients ==
  ASSUME NEW a \in Nat, NEW b \in Nat, b # 0
  PROVE  a \div b \in Nat
OBVIOUS

\* A source without names is the empty map.
LEMMA NoNames ==
  ASSUME NEW S, NEW f, f \in [DOMAIN f -> S]
  PROVE  f = <<>> <=> DOMAIN f = {}
<1>1. ASSUME DOMAIN f = {} PROVE f = <<>>
  <2>1. f \in [1..0 -> S]
    BY <1>1
  <2>2. f \in Seq(S) /\ Len(f) = 0
    BY <2>1
  <2>3. QED BY <2>2, EmptySeq
<1>2. DOMAIN <<>> = {}
  OBVIOUS
<1>3. QED BY <1>1, <1>2

LEMMA SeqAppended ==
  ASSUME NEW S, NEW s \in Seq(S), NEW e \in S
  PROVE  /\ Append(s, e) \in Seq(S) /\ Len(Append(s, e)) = Len(s) + 1 /\ Len(s) \in Nat
         /\ DOMAIN s = 1..Len(s) /\ DOMAIN Append(s, e) = 1..(Len(s) + 1)
         /\ \A i \in 1..Len(s) : Append(s, e)[i] = s[i]
         /\ Append(s, e)[Len(s) + 1] = e
BY AppendProperties, LenProperties

LEMMA SeqTaken ==
  ASSUME NEW S, NEW s \in Seq(S), s # <<>>
  PROVE  /\ Tail(s) \in Seq(S) /\ Len(Tail(s)) = Len(s) - 1 /\ Len(s) \in Nat /\ Len(s) >= 1
         /\ DOMAIN s = 1..Len(s) /\ DOMAIN Tail(s) = 1..(Len(s) - 1)
         /\ \A i \in 1..(Len(s) - 1) : Tail(s)[i] = s[i + 1]
         /\ Head(s) = s[1] /\ Head(s) \in S
<1>1. /\ Len(s) \in Nat /\ Len(s) >= 1 /\ DOMAIN s = 1..Len(s)
  BY EmptySeq, LenProperties
<1>2. QED BY <1>1

\* The three reports of a request, and what a checker reports.
LEMMA Messages ==
  /\ \A n \in Rates, v \in Nat : Message(Sources, n, v) \in Traffic /\ Message(Sources, n, v).name = n
  /\ \A n \in {"rtt", "availability"} : Message({"ClusterMember"}, n, 0) \in Probes
  /\ \A m \in Traffic : m.scope = Sources /\ m.name \in Rates /\ m.value \in Nat /\ (IsFirst(m) \/ IsLater(m))
  /\ \A m \in Probes : m.scope = {"ClusterMember"} /\ m.name \in {"rtt", "availability"} /\ m.value \in Nat
                      /\ m.name \notin Rates /\ ~IsFirst(m) /\ ~IsLater(m)
BY DEF Message, Traffic, Probes, Sources, Rates, IsFirst, IsLater

LEMMA InitReports == Init => ReportsInv
<1> SUFFICES ASSUME Init PROVE ReportsInv
  OBVIOUS
<1>1. /\ channel = <<>> /\ <<>> \in Seq(Reports) /\ <<>> \in Seq(Traffic) /\ <<>> \in Seq(Probes)
      /\ Len(<<>>) = 0 /\ DOMAIN <<>> = {}
  BY EmptySeq DEF Init
<1>2. \A s \in Sources : metrics[s] = <<>>
  BY DEF Init, Nothing
<1>3. todo = [t \in Senders |-> <<>>] /\ Connections \subseteq Senders /\ Checker \in Senders
  BY DEF Init, Senders
<1>4. Shapes
  <2>1. todo \in [Senders -> Seq(Reports)] /\ (\A t \in Senders : todo[t] = <<>>)
    BY <1>1, <1>3
  <2>2. due \in Int /\ -MaxLate <= due /\ due <= Period /\ Len(channel) <= Cap
    BY <1>1, MetricsAssumption DEF Init
  <2>3. crashed \in BOOLEAN /\ fresh \subseteq Sources /\ window \in [Sources -> Nat]
    BY DEF Init
  <2>4. \A t \in Senders : Len(todo[t]) <= 3 /\ DOMAIN todo[t] = {}
    BY <1>1, <2>1
  <2>5. QED BY <1>1, <1>3, <2>1, <2>2, <2>3, <2>4 DEF Shapes
<1>5. OrderInv
  BY <1>1, <1>3 DEF OrderInv
<1>6. "Cluster" \in Sources /\ "ClusterMember" \in Sources
  BY DEF Sources
<1>7. <<>> \in [{} -> Numbers]
  <2>1. <<>> \in Seq(Numbers) /\ Len(<<>>) = 0
    BY EmptySeq
  <2>2. <<>> \in [1..0 -> Numbers] /\ 1..0 = {}
    BY <2>1, LenProperties
  <2>3. QED BY <2>2
<1>8. NamesInv
  BY <1>1, <1>2, <1>6, <1>7 DEF NamesInv
<1>9. RatesInv
  BY <1>1, <1>2 DEF RatesInv, Init
<1>10. QED BY <1>4, <1>5, <1>8, <1>9 DEF ReportsInv

\* The names and rates look at no task.
LEMMA EntriesStay ==
  ASSUME NamesInv, RatesInv, UNCHANGED <<metrics, due, crashed, window, fresh>>
  PROVE  NamesInv' /\ RatesInv'
BY DEF NamesInv, RatesInv

LEMMA TrafficReports ==
  ASSUME ReportsInv, NEW c \in Connections, ReportTraffic(c)
  PROVE  ReportsInv'
<1>1. PICK received \in Amounts, sent \in Amounts :
        todo' = [todo EXCEPT ![c] = <<Message(Sources, "bytes_received", received),
                                      Message(Sources, "bytes_sent", sent),
                                      Message(Sources, "connections", 1)>>]
  BY DEF ReportTraffic
<1> DEFINE m1 == Message(Sources, "bytes_received", received)
           m2 == Message(Sources, "bytes_sent", sent)
           m3 == Message(Sources, "connections", 1)
           report == <<m1, m2, m3>>
<1>2. UNCHANGED <<metrics, due, channel, crashed, window, fresh>>
  BY DEF ReportTraffic
<1>3. /\ m1 \in Traffic /\ m2 \in Traffic /\ m3 \in Traffic
      /\ IsLater(m2) /\ IsLater(m3) /\ ~IsLater(m1)
  BY Messages, MetricsAssumption DEF IsLater, Rates
<1> HIDE DEF m1, m2, m3
<1>11. Len(report) = 3
  BY <1>3
<1>4. /\ report \in Seq(Traffic) /\ report \in Seq(Reports) /\ Len(report) <= 3 /\ DOMAIN report = 1..3
      /\ Head(report) = m1 /\ \A i \in DOMAIN report : i > 1 => IsLater(report[i])
  BY <1>3, <1>11 DEF Reports
<1>5. todo' = [todo EXCEPT ![c] = report]
  BY <1>1 DEF m1, m2, m3
<1> HIDE DEF report
<1>6. c \in Senders /\ c # Checker /\ Connections \subseteq Senders
  BY MetricsAssumption DEF Senders
<1>7. todo'[c] = report /\ todo' \in [Senders -> Seq(Reports)]
      /\ \A t \in Senders \ {c} : todo'[t] = todo[t]
  BY <1>4, <1>5, <1>6 DEF ReportsInv, Shapes
<1>8. Shapes'
  <2>1. \A d \in Connections : todo'[d] \in Seq(Traffic)
    BY <1>4, <1>6, <1>7 DEF ReportsInv, Shapes
  <2>2. todo'[Checker] \in Seq(Probes)
    BY <1>6, <1>7 DEF ReportsInv, Shapes, Senders
  <2>3. \A t \in Senders : Len(todo'[t]) <= 3
    <3>1. \A t \in Senders \ {c} : Len(todo'[t]) <= 3
      BY <1>7 DEF ReportsInv, Shapes
    <3>2. Len(todo'[c]) <= 3
      BY <1>4, <1>7
    <3>3. QED BY <3>1, <3>2
  <2>4. \A d \in Connections : \A i \in DOMAIN todo'[d] : i > 1 => IsLater(todo'[d][i])
    BY <1>4, <1>6, <1>7 DEF ReportsInv, Shapes
  <2>5. QED BY <1>2, <1>7, <2>1, <2>2, <2>3, <2>4 DEF ReportsInv, Shapes
<1>9. OrderInv'
  BY <1>2, <1>3, <1>4, <1>6, <1>7 DEF ReportsInv, OrderInv
<1>10. QED BY <1>2, <1>8, <1>9, EntriesStay DEF ReportsInv

LEMMA ProbeReports ==
  ASSUME ReportsInv, ReportProbe
  PROVE  ReportsInv'
<1> DEFINE state == Message({"ClusterMember"}, "availability", 0)
           rtt   == Message({"ClusterMember"}, "rtt", 0)
<1>1. PICK report \in {<<rtt, state>>, <<state>>} : todo' = [todo EXCEPT ![Checker] = report]
  BY DEF ReportProbe
<1>2. UNCHANGED <<metrics, due, channel, crashed, window, fresh>>
  BY DEF ReportProbe
<1>3. state \in Probes /\ rtt \in Probes
  BY Messages
<1> HIDE DEF state, rtt
<1>4. report \in Seq(Probes) /\ report \in Seq(Reports) /\ Len(report) <= 3
  <2>1. <<rtt, state>> \in Seq(Probes) /\ <<rtt, state>> \in Seq(Reports) /\ Len(<<rtt, state>>) = 2
    BY <1>3 DEF Reports
  <2>2. <<state>> \in Seq(Probes) /\ <<state>> \in Seq(Reports) /\ Len(<<state>>) = 1
    BY <1>3 DEF Reports
  <2>3. CASE report = <<rtt, state>>
    BY <2>1, <2>3
  <2>4. CASE report = <<state>>
    BY <2>2, <2>4
  <2>5. QED BY <1>1, <2>3, <2>4
<1>5. Checker \in Senders /\ Checker \notin Connections /\ Connections \subseteq Senders
  BY MetricsAssumption DEF Senders
<1>6. todo'[Checker] = report /\ todo' \in [Senders -> Seq(Reports)]
      /\ \A t \in Senders \ {Checker} : todo'[t] = todo[t]
  BY <1>1, <1>4, <1>5 DEF ReportsInv, Shapes
<1>7. Shapes'
  BY <1>2, <1>4, <1>5, <1>6 DEF ReportsInv, Shapes
<1>8. OrderInv'
  BY <1>2, <1>5, <1>6 DEF ReportsInv, OrderInv
<1>9. QED BY <1>2, <1>7, <1>8, EntriesStay DEF ReportsInv

LEMMA SendReports ==
  ASSUME ReportsInv, NEW t \in Senders, Send(t)
  PROVE  ReportsInv'
<1> DEFINE m == Head(todo[t])
<1>1. /\ crashed \/ Len(channel) < Cap
      /\ todo' = [todo EXCEPT ![t] = Tail(@)]
      /\ channel' = IF crashed THEN channel ELSE Append(channel, m)
      /\ UNCHANGED <<metrics, due, crashed, window, fresh>>
  BY DEF Send
<1>0. todo[t] # <<>>
  BY DEF Send
<1>2. /\ todo \in [Senders -> Seq(Reports)] /\ todo[t] \in Seq(Reports) /\ channel \in Seq(Reports)
      /\ Connections \subseteq Senders /\ Checker \in Senders /\ Checker \notin Connections
      /\ t = Checker \/ t \in Connections
  BY MetricsAssumption DEF ReportsInv, Shapes, Senders
<1>3. /\ Tail(todo[t]) \in Seq(Reports) /\ Len(Tail(todo[t])) <= 3 /\ m \in Reports
      /\ DOMAIN Tail(todo[t]) = 1..(Len(todo[t]) - 1) /\ DOMAIN todo[t] = 1..Len(todo[t]) /\ Len(todo[t]) \in Nat
      /\ \A i \in 1..(Len(todo[t]) - 1) : Tail(todo[t])[i] = todo[t][i + 1]
  <2>1. Len(todo[t]) <= 3
    BY DEF ReportsInv, Shapes
  <2>2. todo[t] \in Seq(Reports)
    BY <1>2
  <2>3. /\ Tail(todo[t]) \in Seq(Reports) /\ Len(Tail(todo[t])) = Len(todo[t]) - 1 /\ m \in Reports
        /\ DOMAIN Tail(todo[t]) = 1..(Len(todo[t]) - 1) /\ DOMAIN todo[t] = 1..Len(todo[t]) /\ Len(todo[t]) \in Nat
        /\ \A i \in 1..(Len(todo[t]) - 1) : Tail(todo[t])[i] = todo[t][i + 1]
    BY <1>0, <2>2, SeqTaken
  <2>4. QED BY <2>1, <2>3
<1>4. /\ todo' \in [Senders -> Seq(Reports)] /\ todo'[t] = Tail(todo[t])
      /\ \A u \in Senders \ {t} : todo'[u] = todo[u]
  BY <1>1, <1>2, <1>3
<1>5. channel' \in Seq(Reports) /\ Len(channel') <= Cap
  BY <1>1, <1>2, <1>3, SeqAppended, MetricsAssumption DEF ReportsInv, Shapes
<1>12. ASSUME t \in Connections PROVE m \in Traffic /\ Tail(todo[t]) \in Seq(Traffic)
  <2>1. todo[t] \in Seq(Traffic)
    BY <1>12 DEF ReportsInv, Shapes
  <2>2. QED BY <1>0, <2>1, SeqTaken
<1>13. ASSUME t = Checker PROVE m \in Probes /\ Tail(todo[t]) \in Seq(Probes)
  <2>1. todo[t] \in Seq(Probes)
    BY <1>13 DEF ReportsInv, Shapes
  <2>2. QED BY <1>0, <2>1, SeqTaken
<1>6. \A c \in Connections : todo'[c] \in Seq(Traffic)
  <2>1. t \in Connections => Tail(todo[t]) \in Seq(Traffic)
    BY <1>12
  <2>2. QED BY <1>2, <1>4, <2>1 DEF ReportsInv, Shapes
<1>7. todo'[Checker] \in Seq(Probes)
  <2>1. t = Checker => Tail(todo[t]) \in Seq(Probes)
    BY <1>13
  <2>2. QED BY <1>2, <1>4, <2>1 DEF ReportsInv, Shapes
<1>8. \A i \in DOMAIN Tail(todo[t]) : t \in Connections => IsLater(Tail(todo[t])[i])
  <2>1. \A i \in DOMAIN Tail(todo[t]) : i + 1 \in DOMAIN todo[t] /\ i + 1 > 1 /\ Tail(todo[t])[i] = todo[t][i + 1]
    BY <1>3
  <2>2. QED BY <2>1 DEF ReportsInv, Shapes
<1>9. Shapes'
  <2>1. \A c \in Connections : \A i \in DOMAIN todo'[c] : i > 1 => IsLater(todo'[c][i])
    BY <1>2, <1>4, <1>8 DEF ReportsInv, Shapes
  <2>2. \A u \in Senders : Len(todo'[u]) <= 3
    BY <1>3, <1>4 DEF ReportsInv, Shapes
  <2>3. QED BY <1>1, <1>4, <1>5, <1>6, <1>7, <2>1, <2>2 DEF ReportsInv, Shapes
<1>10. OrderInv'
  <2>1. SUFFICES ASSUME ~crashed, DOMAIN metrics["Cluster"] = {}
                 PROVE  /\ \A j \in DOMAIN channel' : IsLater(channel'[j]) => \E i \in DOMAIN channel' : i < j /\ IsFirst(channel'[i])
                        /\ \A c \in Connections : todo'[c] # <<>> /\ IsLater(Head(todo'[c])) =>
                             \E i \in DOMAIN channel' : IsFirst(channel'[i])
    BY <1>1 DEF OrderInv
  <2>2. /\ \A j \in DOMAIN channel : IsLater(channel[j]) => \E i \in DOMAIN channel : i < j /\ IsFirst(channel[i])
        /\ \A c \in Connections : todo[c] # <<>> /\ IsLater(Head(todo[c])) => \E i \in DOMAIN channel : IsFirst(channel[i])
    BY <2>1 DEF ReportsInv, OrderInv
  <2>3. /\ Len(channel) \in Nat /\ DOMAIN channel = 1..Len(channel) /\ DOMAIN channel' = 1..(Len(channel) + 1)
        /\ \A i \in 1..Len(channel) : channel'[i] = channel[i]
        /\ channel'[Len(channel) + 1] = m
    BY <1>1, <1>2, <1>3, <2>1, SeqAppended
  <2>4. /\ \A i \in DOMAIN channel : i \in DOMAIN channel' /\ channel'[i] = channel[i]
        /\ \A j \in DOMAIN channel' : j \in DOMAIN channel \/ (channel'[j] = m /\ \A i \in DOMAIN channel : i < j)
        /\ \E i \in DOMAIN channel' : channel'[i] = m
    BY <2>3
  <2>5. IsLater(m) => t \in Connections /\ \E i \in DOMAIN channel : IsFirst(channel[i])
    <3>1. t = Checker => m \in Probes
      BY <1>13
    <3>2. t \in Connections \/ ~IsLater(m)
      BY <1>2, <3>1, Messages
    <3>3. t \in Connections /\ IsLater(Head(todo[t])) => \E i \in DOMAIN channel : IsFirst(channel[i])
      BY <1>0, <2>2
    <3>4. QED BY <3>2, <3>3
  <2>6. t \in Connections => \E i \in DOMAIN channel' : IsFirst(channel'[i])
    <3>1. t \in Connections => m \in Traffic
      BY <1>12
    <3>2. QED BY <2>4, <2>5, <3>1, Messages
  <2>7. \A j \in DOMAIN channel' : IsLater(channel'[j]) => \E i \in DOMAIN channel' : i < j /\ IsFirst(channel'[i])
    BY <2>2, <2>4, <2>5
  <2>8. \A c \in Connections : todo'[c] # <<>> /\ IsLater(Head(todo'[c])) =>
          \E i \in DOMAIN channel' : IsFirst(channel'[i])
    BY <1>2, <1>4, <2>2, <2>4, <2>6
  <2>9. QED BY <2>7, <2>8
<1>11. QED BY <1>1, <1>9, <1>10, EntriesStay DEF ReportsInv


\* What a source has stored after a message, by what it had before.
LEMMA StoredNames ==
  ASSUME NEW f, f \in [DOMAIN f -> Numbers], NEW m
  PROVE  /\ DOMAIN f = {} => /\ DOMAIN Stored(f, m) = {m.name}
                             /\ Stored(f, m) = [n \in {m.name} |-> NewEntry(m)]
         /\ DOMAIN f # {} /\ m.name \in DOMAIN f =>
              Stored(f, m) = [n \in DOMAIN f |-> IF n = m.name THEN Updated(f[n], m) ELSE f[n]]
         /\ DOMAIN f # {} /\ m.name \notin DOMAIN f => Stored(f, m) = f
<1>1. f = <<>> <=> DOMAIN f = {}
  BY NoNames
<1>2. [f EXCEPT ![m.name] = Updated(@, m)] = [n \in DOMAIN f |-> IF n = m.name THEN Updated(f[n], m) ELSE f[n]]
  OBVIOUS
<1>3. QED BY <1>1, <1>2 DEF Stored

\* An entry begins with the message and adds up what follows.
LEMMA EntriesAddUp ==
  ASSUME NEW m, m.value \in Nat
  PROVE  /\ /\ NewEntry(m) \in Numbers /\ NewEntry(m).last_value = 0 /\ NewEntry(m).age = 0
            /\ m.name \in Rates => NewEntry(m).current_value = m.value
         /\ \A e \in Numbers :
              /\ Updated(e, m) \in Numbers
              /\ Updated(e, m).last_value = e.last_value /\ Updated(e, m).age = e.age
              /\ m.name \in Rates => Updated(e, m).current_value = e.current_value + m.value
<1>1. /\ NewEntry(m) \in Numbers /\ NewEntry(m).last_value = 0 /\ NewEntry(m).age = 0
      /\ m.name \in Rates => NewEntry(m).current_value = m.value
  BY DEF NewEntry, Numbers
<1>2. ASSUME NEW e \in Numbers
      PROVE  /\ Updated(e, m) \in Numbers
             /\ Updated(e, m).last_value = e.last_value /\ Updated(e, m).age = e.age
             /\ m.name \in Rates => Updated(e, m).current_value = e.current_value + m.value
  <2>1. CASE m.name \in Rates
    <3>1. Updated(e, m) = [e EXCEPT !.current_value = @ + m.value]
      BY <2>1 DEF Updated
    <3>2. QED BY <3>1, <2>1 DEF Numbers
  <2>2. CASE m.name \notin Rates
    <3>1. Updated(e, m) = [e EXCEPT !.metric = m.value]
      BY <2>2 DEF Updated
    <3>2. QED BY <3>1, <2>2 DEF Numbers
  <2>3. QED BY <2>1, <2>2
<1>3. QED BY <1>1, <1>2

LEMMA ReceiveReports ==
  ASSUME ReportsInv, Receive
  PROVE  ReportsInv'
<1> DEFINE m == Head(channel)
<1>1. /\ ~crashed /\ channel' = Tail(channel) /\ UNCHANGED <<due, todo, crashed>>
      /\ fresh' = fresh \cup {s \in m.scope : metrics[s] = <<>>}
      /\ metrics' = [s \in Sources |-> IF s \in m.scope THEN Stored(metrics[s], m) ELSE metrics[s]]
      /\ window' = [s \in Sources |->
           IF s \in m.scope /\ m.name \in DOMAIN metrics'[s] /\ m.name \in Rates
             THEN window[s] + m.value ELSE window[s]]
  BY DEF Receive
<1>2. channel # <<>>
  BY DEF Receive
<1>3. channel \in Seq(Reports) /\ Len(channel) <= Cap /\ window \in [Sources -> Nat] /\ fresh \subseteq Sources
  BY DEF ReportsInv, Shapes
<1>4. /\ Tail(channel) \in Seq(Reports) /\ Len(Tail(channel)) = Len(channel) - 1 /\ Len(channel) \in Nat
      /\ Len(channel) >= 1 /\ DOMAIN channel = 1..Len(channel) /\ DOMAIN Tail(channel) = 1..(Len(channel) - 1)
      /\ \A i \in 1..(Len(channel) - 1) : Tail(channel)[i] = channel[i + 1]
      /\ m = channel[1] /\ m \in Reports
  BY <1>2, <1>3, SeqTaken
<1> HIDE DEF m
<1>5. /\ "Cluster" \in Sources /\ "ClusterMember" \in Sources
      /\ m.scope \subseteq Sources /\ "ClusterMember" \in m.scope /\ m.value \in Nat
      /\ "Cluster" \in m.scope => IsFirst(m) \/ IsLater(m)
      /\ "Cluster" \notin m.scope => ~IsFirst(m) /\ ~IsLater(m)
      /\ m.name \in Names
      /\ ~IsLater(m) => m.name \in {"bytes_received", "rtt", "availability"}
      /\ ~IsLater(m) /\ "Cluster" \in m.scope => m.name = "bytes_received"
  BY <1>4, Messages DEF Reports, Sources, Names, IsFirst, IsLater, Traffic, Probes, Rates
<1>6. Shapes'
  <2>1. window' \in [Sources -> Nat]
    BY <1>1, <1>3, <1>5
  <2>2. channel' \in Seq(Reports) /\ Len(channel') <= Cap
    BY <1>1, <1>3, <1>4, MetricsAssumption
  <2>3. fresh' \subseteq Sources
    BY <1>1, <1>3, <1>5
  <2>4. QED BY <1>1, <2>1, <2>2, <2>3 DEF ReportsInv, Shapes
<1>7. \A s \in Sources : metrics[s] \in [DOMAIN metrics[s] -> Numbers] /\ DOMAIN metrics[s] \subseteq Names
  BY DEF ReportsInv, NamesInv
<1>8. \A s \in Sources : metrics[s] = <<>> <=> DOMAIN metrics[s] = {}
  BY <1>7, NoNames
<1>9. \A s \in Sources : s \notin m.scope => metrics'[s] = metrics[s] /\ window'[s] = window[s]
  BY <1>1
<1>10. \A s \in m.scope :
         /\ DOMAIN metrics[s] = {} => /\ DOMAIN metrics'[s] = {m.name}
                                      /\ metrics'[s] = [n \in {m.name} |-> NewEntry(m)]
         /\ DOMAIN metrics[s] # {} /\ m.name \in DOMAIN metrics[s] =>
              metrics'[s] = [n \in DOMAIN metrics[s] |->
                               IF n = m.name THEN Updated(metrics[s][n], m) ELSE metrics[s][n]]
         /\ DOMAIN metrics[s] # {} /\ m.name \notin DOMAIN metrics[s] => metrics'[s] = metrics[s]
  <2> SUFFICES ASSUME NEW s \in m.scope
               PROVE  /\ DOMAIN metrics[s] = {} => /\ DOMAIN metrics'[s] = {m.name}
                                                   /\ metrics'[s] = [n \in {m.name} |-> NewEntry(m)]
                      /\ DOMAIN metrics[s] # {} /\ m.name \in DOMAIN metrics[s] =>
                           metrics'[s] = [n \in DOMAIN metrics[s] |->
                                            IF n = m.name THEN Updated(metrics[s][n], m) ELSE metrics[s][n]]
                      /\ DOMAIN metrics[s] # {} /\ m.name \notin DOMAIN metrics[s] => metrics'[s] = metrics[s]
    OBVIOUS
  <2>1. metrics'[s] = Stored(metrics[s], m) /\ metrics[s] \in [DOMAIN metrics[s] -> Numbers]
    BY <1>1, <1>5, <1>7
  <2>2. QED BY <2>1, StoredNames
<1>11. \A s \in Sources : DOMAIN metrics[s] # {} => DOMAIN metrics'[s] = DOMAIN metrics[s]
  BY <1>9, <1>10
<1>12. DOMAIN metrics["Cluster"] = {} /\ "Cluster" \in m.scope => ~IsLater(m)
  BY <1>1, <1>4 DEF ReportsInv, OrderInv
<1>13. DOMAIN metrics["ClusterMember"] = {} => ~IsLater(m)
  <2>1. DOMAIN metrics["ClusterMember"] = {} => DOMAIN metrics["Cluster"] = {}
    BY DEF ReportsInv, NamesInv
  <2>2. QED BY <1>5, <1>12, <2>1


<1>14. OrderInv'
  <2>1. SUFFICES ASSUME DOMAIN metrics'["Cluster"] = {}
                 PROVE  /\ \A j \in DOMAIN channel' : IsLater(channel'[j]) => \E i \in DOMAIN channel' : i < j /\ IsFirst(channel'[i])
                        /\ \A c \in Connections : todo'[c] # <<>> /\ IsLater(Head(todo'[c])) =>
                             \E i \in DOMAIN channel' : IsFirst(channel'[i])
    BY DEF OrderInv
  <2>2. DOMAIN metrics["Cluster"] = {} /\ "Cluster" \notin m.scope
    BY <1>5, <1>10, <1>11, <2>1
  <2>3. ~IsFirst(m) /\ ~IsLater(m)
    BY <1>5, <2>2
  <2>4. /\ \A j \in DOMAIN channel : IsLater(channel[j]) => \E i \in DOMAIN channel : i < j /\ IsFirst(channel[i])
        /\ \A c \in Connections : todo[c] # <<>> /\ IsLater(Head(todo[c])) => \E i \in DOMAIN channel : IsFirst(channel[i])
    BY <1>1, <2>2 DEF ReportsInv, OrderInv
  <2>5. \A i \in DOMAIN channel : IsFirst(channel[i]) => i - 1 \in DOMAIN channel' /\ channel'[i - 1] = channel[i]
    BY <1>1, <1>4, <2>3
  <2>6. \A j \in DOMAIN channel' : j + 1 \in DOMAIN channel /\ channel'[j] = channel[j + 1] /\ j \in Int
    BY <1>1, <1>4
  <2>7. ASSUME NEW j \in DOMAIN channel', IsLater(channel'[j])
        PROVE  \E i \in DOMAIN channel' : i < j /\ IsFirst(channel'[i])
    <3>1. PICK i \in DOMAIN channel : i < j + 1 /\ IsFirst(channel[i])
      BY <2>4, <2>6, <2>7
    <3>2. i - 1 \in DOMAIN channel' /\ channel'[i - 1] = channel[i] /\ i - 1 < j
      BY <1>4, <2>5, <2>6, <3>1
    <3>3. QED BY <3>1, <3>2
  <2>8. QED BY <1>1, <2>4, <2>5, <2>7
<1>15. \A s \in Sources : metrics'[s] \in [DOMAIN metrics'[s] -> Numbers] /\ DOMAIN metrics'[s] \subseteq Names
  <2> SUFFICES ASSUME NEW s \in Sources
               PROVE  metrics'[s] \in [DOMAIN metrics'[s] -> Numbers] /\ DOMAIN metrics'[s] \subseteq Names
    OBVIOUS
  <2>1. CASE s \notin m.scope
    BY <1>7, <1>9, <2>1
  <2>6. /\ NewEntry(m) \in Numbers
        /\ s \in m.scope /\ DOMAIN metrics[s] = {} =>
             DOMAIN metrics'[s] = {m.name} /\ metrics'[s] = [n \in {m.name} |-> NewEntry(m)]
    BY <1>5, <1>10, EntriesAddUp
  <2>2. CASE s \in m.scope /\ DOMAIN metrics[s] = {}
    BY <1>5, <2>2, <2>6
  <2>3. CASE s \in m.scope /\ DOMAIN metrics[s] # {} /\ m.name \in DOMAIN metrics[s]
    <3>1. \A n \in DOMAIN metrics[s] : metrics[s][n] \in Numbers /\ Updated(metrics[s][n], m) \in Numbers
      BY <1>5, <1>7, EntriesAddUp
    <3>2. metrics'[s] = [n \in DOMAIN metrics[s] |->
                           IF n = m.name THEN Updated(metrics[s][n], m) ELSE metrics[s][n]]
      BY <1>10, <2>3
    <3>3. QED BY <1>7, <3>1, <3>2
  <2>4. CASE s \in m.scope /\ DOMAIN metrics[s] # {} /\ m.name \notin DOMAIN metrics[s]
    BY <1>7, <1>10, <2>4
  <2>5. QED BY <2>1, <2>2, <2>3, <2>4
<1>16. NamesInv'
  <2>1. \A s \in Sources : \A k, n \in DOMAIN metrics'[s] : k = n
    BY <1>9, <1>10, <1>11 DEF ReportsInv, NamesInv
  <2>2. DOMAIN metrics'["Cluster"] \subseteq {"bytes_received"}
    BY <1>5, <1>9, <1>10, <1>11, <1>12 DEF ReportsInv, NamesInv
  <2>3. DOMAIN metrics'["ClusterMember"] \subseteq {"bytes_received", "rtt", "availability"}
    BY <1>5, <1>10, <1>11, <1>13 DEF ReportsInv, NamesInv
  <2>4. DOMAIN metrics'["ClusterMember"] # {}
    BY <1>5, <1>10, <1>11
  <2>5. QED BY <1>1, <1>15, <2>1, <2>2, <2>3, <2>4 DEF NamesInv
<1>17. RatesInv'
  <2> SUFFICES ASSUME NEW s \in Sources
               PROVE  /\ DOMAIN metrics'[s] = {} => window'[s] = 0
                      /\ \A n \in DOMAIN metrics'[s] :
                           /\ metrics'[s][n].last_value = 0
                           /\ n \in Rates => /\ metrics'[s][n].current_value = window'[s]
                                             /\ metrics'[s][n].age + due' <= Period
                                             /\ s \notin fresh' => metrics'[s][n].age + due' >= Period - MaxLate
                           /\ n \notin Rates => metrics'[s][n].age = 0
    BY DEF RatesInv
  <2>1. /\ DOMAIN metrics[s] = {} => window[s] = 0
        /\ \A n \in DOMAIN metrics[s] :
             /\ metrics[s][n].last_value = 0
             /\ n \in Rates => /\ metrics[s][n].current_value = window[s]
                               /\ metrics[s][n].age + due <= Period
                               /\ s \notin fresh => metrics[s][n].age + due >= Period - MaxLate
             /\ n \notin Rates => metrics[s][n].age = 0
    BY DEF ReportsInv, RatesInv
  <2>2. due' = due /\ (s \notin fresh' => s \notin fresh) /\ due \in Int /\ due <= Period
    BY <1>1 DEF ReportsInv, Shapes
  <2>3. window'[s] = IF s \in m.scope /\ m.name \in DOMAIN metrics'[s] /\ m.name \in Rates
                       THEN window[s] + m.value ELSE window[s]
    BY <1>1
  <2>4. CASE s \notin m.scope
    BY <1>9, <2>1, <2>2, <2>4
  <2>5. CASE s \in m.scope /\ DOMAIN metrics[s] = {}
    <3>6. metrics'[s] = [n \in {m.name} |-> NewEntry(m)]
      BY <1>10, <2>5
    <3>1. DOMAIN metrics'[s] = {m.name} /\ metrics'[s][m.name] = NewEntry(m)
      BY <3>6
    <3>2. s \in fresh'
      BY <1>1, <1>8, <2>5
    <3>3. m.name \in Rates => window'[s] = m.value
      BY <1>5, <2>1, <2>3, <2>5, <3>1
    <3>4. NewEntry(m).last_value = 0 /\ NewEntry(m).age = 0 /\ (m.name \in Rates => NewEntry(m).current_value = m.value)
      BY <1>5, EntriesAddUp
    <3>5. QED BY <2>2, <3>1, <3>2, <3>3, <3>4
  <2>6. CASE s \in m.scope /\ DOMAIN metrics[s] # {} /\ m.name \in DOMAIN metrics[s]
    <3>1. /\ metrics'[s] = [n \in DOMAIN metrics[s] |->
                              IF n = m.name THEN Updated(metrics[s][n], m) ELSE metrics[s][n]]
          /\ DOMAIN metrics'[s] = DOMAIN metrics[s]
      BY <1>10, <2>6
    <3>2. DOMAIN metrics[s] = {m.name}
      BY <2>6 DEF ReportsInv, NamesInv
    <3>3. metrics'[s][m.name] = Updated(metrics[s][m.name], m) /\ metrics[s][m.name] \in Numbers
      BY <1>7, <2>6, <3>1
    <3>4. /\ metrics'[s][m.name].last_value = metrics[s][m.name].last_value
          /\ metrics'[s][m.name].age = metrics[s][m.name].age
          /\ m.name \in Rates => metrics'[s][m.name].current_value = metrics[s][m.name].current_value + m.value
      BY <1>5, <3>3, EntriesAddUp
    <3>5. m.name \in Rates => window'[s] = window[s] + m.value
      BY <2>3, <2>6, <3>1
    <3>6. QED BY <2>1, <2>2, <2>6, <3>1, <3>2, <3>4, <3>5
  <2>7. CASE s \in m.scope /\ DOMAIN metrics[s] # {} /\ m.name \notin DOMAIN metrics[s]
    <3>1. metrics'[s] = metrics[s]
      BY <1>10, <2>7
    <3>2. window'[s] = window[s]
      BY <2>3, <2>7, <3>1
    <3>3. QED BY <2>1, <2>2, <2>7, <3>1, <3>2
  <2>8. QED BY <2>4, <2>5, <2>6, <2>7
<1>18. QED BY <1>6, <1>14, <1>16, <1>17 DEF ReportsInv


\* What a tick makes of a rate: the average of what it had counted, from which it starts anew.
LEMMA Averages ==
  ASSUME NEW e \in Numbers, e.last_value = 0, AsSecs(e.age) # 0
  PROVE  /\ Rated(e) \in Numbers /\ Rated(e).metric = e.current_value \div AsSecs(e.age)
         /\ Rated(e).last_value = 0 /\ Rated(e).current_value = 0 /\ Rated(e).age = 0
<1>1. e.age \in Nat /\ e.current_value \in Nat /\ e.current_value - e.last_value = e.current_value
  BY DEF Numbers
<1>2. AsSecs(e.age) \in Nat
  BY <1>1, Seconds
<1>3. e.current_value \div AsSecs(e.age) \in Nat
  BY <1>1, <1>2, Quotients
<1>4. Rated(e) = [metric |-> e.current_value \div AsSecs(e.age), current_value |-> e.last_value,
                  last_value |-> 0, age |-> 0]
  BY <1>1 DEF Rated
<1>5. QED BY <1>3, <1>4 DEF Numbers

LEMMA TickReports ==
  ASSUME ReportsInv, Tick
  PROVE  ReportsInv'
<1>1. /\ ~crashed /\ due <= 0 /\ due' = due + Period /\ UNCHANGED <<channel, todo, crashed>>
      /\ window' = [s \in Sources |-> 0] /\ fresh' = {}
      /\ metrics' = [s \in Sources |-> [n \in DOMAIN metrics[s] |->
                       IF n \in Rates THEN Rated(metrics[s][n]) ELSE metrics[s][n]]]
  BY DEF Tick
<1>2. \A s \in Sources : \A n \in DOMAIN metrics[s] : n \in Rates => AsSecs(metrics[s][n].age) # 0
  BY DEF Tick, TooYoung
<1>3. \A s \in Sources : \A n \in DOMAIN metrics[s] : metrics[s][n] \in Numbers /\ metrics[s][n].last_value = 0
  BY DEF ReportsInv, NamesInv, RatesInv
<1>4. /\ "Cluster" \in Sources /\ "ClusterMember" \in Sources
      /\ \A s \in Sources : DOMAIN metrics'[s] = DOMAIN metrics[s]
      /\ \A s \in Sources : \A n \in DOMAIN metrics[s] :
           metrics'[s][n] = IF n \in Rates THEN Rated(metrics[s][n]) ELSE metrics[s][n]
  BY <1>1 DEF Sources
<1>5. \A s \in Sources : \A n \in DOMAIN metrics[s] :
        /\ metrics'[s][n] \in Numbers /\ metrics'[s][n].last_value = 0
        /\ n \in Rates => metrics'[s][n].current_value = 0 /\ metrics'[s][n].age = 0
        /\ n \notin Rates => metrics'[s][n] = metrics[s][n]
  <2> SUFFICES ASSUME NEW s \in Sources, NEW n \in DOMAIN metrics[s]
               PROVE  /\ metrics'[s][n] \in Numbers /\ metrics'[s][n].last_value = 0
                      /\ n \in Rates => metrics'[s][n].current_value = 0 /\ metrics'[s][n].age = 0
                      /\ n \notin Rates => metrics'[s][n] = metrics[s][n]
    OBVIOUS
  <2>1. CASE n \in Rates
    <3>1. metrics'[s][n] = Rated(metrics[s][n])
      BY <1>4, <2>1
    <3>2. metrics[s][n] \in Numbers /\ metrics[s][n].last_value = 0 /\ AsSecs(metrics[s][n].age) # 0
      BY <1>2, <1>3, <2>1
    <3>3. /\ Rated(metrics[s][n]) \in Numbers /\ Rated(metrics[s][n]).last_value = 0
          /\ Rated(metrics[s][n]).current_value = 0 /\ Rated(metrics[s][n]).age = 0
      BY <3>2, Averages
    <3>4. QED BY <2>1, <3>1, <3>3
  <2>2. CASE n \notin Rates
    BY <1>3, <1>4, <2>2
  <2>3. QED BY <2>1, <2>2
<1>6. due \in Int /\ -MaxLate <= due /\ due' \in Int /\ -MaxLate <= due' /\ due' <= Period /\ due' >= Period - MaxLate
  BY <1>1, MetricsAssumption DEF ReportsInv, Shapes
<1>7. Shapes'
  <2>1. window' \in [Sources -> Nat] /\ fresh' \subseteq Sources
    BY <1>1
  <2>2. QED BY <1>1, <1>6, <2>1 DEF ReportsInv, Shapes
<1>8. OrderInv'
  BY <1>1, <1>4 DEF ReportsInv, OrderInv
<1>9. NamesInv'
  <2>1. \A s \in Sources : metrics'[s] = [n \in DOMAIN metrics[s] |->
                                            IF n \in Rates THEN Rated(metrics[s][n]) ELSE metrics[s][n]]
    BY <1>1
  <2>2. \A s \in Sources : metrics'[s] \in [DOMAIN metrics[s] -> Numbers]
    BY <1>4, <1>5, <2>1
  <2>3. \A s \in Sources : metrics'[s] \in [DOMAIN metrics'[s] -> Numbers]
    BY <1>4, <2>2
  <2>4. QED BY <1>1, <1>4, <2>3 DEF ReportsInv, NamesInv
<1>10. RatesInv'
  <2>1. \A s \in Sources : window'[s] = 0
    BY <1>1
  <2>2. \A s \in Sources : \A n \in DOMAIN metrics[s] : n \notin Rates => metrics[s][n].age = 0
    BY DEF ReportsInv, RatesInv
  <2>3. \A s \in Sources : \A n \in DOMAIN metrics[s] : n \in Rates =>
          metrics'[s][n].age + due' <= Period /\ metrics'[s][n].age + due' >= Period - MaxLate
    BY <1>5, <1>6, MetricsAssumption
  <2>4. QED BY <1>4, <1>5, <2>1, <2>2, <2>3 DEF RatesInv
<1>11. QED BY <1>7, <1>8, <1>9, <1>10 DEF ReportsInv

LEMMA PanicReports ==
  ASSUME ReportsInv, Panic
  PROVE  ReportsInv'
<1>1. /\ crashed' = TRUE /\ metrics' = Nothing /\ channel' = <<>>
      /\ window' = [s \in Sources |-> 0] /\ fresh' = {} /\ UNCHANGED <<due, todo>>
  BY DEF Panic
<1>2. <<>> \in Seq(Reports) /\ <<>> \in Seq(Numbers) /\ Len(<<>>) = 0 /\ DOMAIN <<>> = {}
  BY EmptySeq
<1>3. \A s \in Sources : metrics'[s] = <<>> /\ DOMAIN metrics'[s] = {}
  BY <1>1, <1>2 DEF Nothing
<1>4. <<>> \in [{} -> Numbers]
  <2>1. <<>> \in [1..0 -> Numbers] /\ 1..0 = {}
    BY <1>2, LenProperties
  <2>2. QED BY <2>1
<1>5. "Cluster" \in Sources /\ "ClusterMember" \in Sources
  BY DEF Sources
<1>6. Shapes'
  <2>1. window' \in [Sources -> Nat] /\ fresh' \subseteq Sources /\ Len(channel') <= Cap /\ channel' \in Seq(Reports)
    BY <1>1, <1>2, MetricsAssumption
  <2>2. QED BY <1>1, <2>1 DEF ReportsInv, Shapes
<1>7. OrderInv'
  BY <1>1 DEF OrderInv
<1>8. NamesInv'
  BY <1>3, <1>4, <1>5 DEF NamesInv
<1>9. RatesInv'
  BY <1>1, <1>3 DEF RatesInv
<1>10. QED BY <1>6, <1>7, <1>8, <1>9 DEF ReportsInv

LEMMA PassReports ==
  ASSUME ReportsInv, Pass
  PROVE  ReportsInv'
<1>1. /\ UNCHANGED <<channel, todo, crashed, window, fresh>>
      /\ metrics' = [s \in Sources |-> [n \in DOMAIN metrics[s] |->
                       IF n \in Rates THEN [metrics[s][n] EXCEPT !.age = @ + 1] ELSE metrics[s][n]]]
  BY DEF Pass
<1>2. /\ crashed => due' = due
      /\ ~crashed => due > -MaxLate /\ due' = due - 1
  BY DEF Pass
<1>3. \A s \in Sources : \A n \in DOMAIN metrics[s] : metrics[s][n] \in Numbers
  BY DEF ReportsInv, NamesInv
<1>4. /\ "Cluster" \in Sources /\ "ClusterMember" \in Sources
      /\ \A s \in Sources : DOMAIN metrics'[s] = DOMAIN metrics[s]
      /\ \A s \in Sources : \A n \in DOMAIN metrics[s] :
           metrics'[s][n] = IF n \in Rates THEN [metrics[s][n] EXCEPT !.age = @ + 1] ELSE metrics[s][n]
  BY <1>1 DEF Sources
<1>5. \A s \in Sources : \A n \in DOMAIN metrics[s] :
        /\ metrics'[s][n] \in Numbers /\ metrics'[s][n].last_value = metrics[s][n].last_value
        /\ metrics'[s][n].current_value = metrics[s][n].current_value
        /\ n \in Rates => metrics'[s][n].age = metrics[s][n].age + 1
        /\ n \notin Rates => metrics'[s][n].age = metrics[s][n].age
  <2> DEFINE Older(e) == [e EXCEPT !.age = @ + 1]
  <2>1. \A e \in Numbers : /\ Older(e) \in Numbers /\ Older(e).last_value = e.last_value
                           /\ Older(e).current_value = e.current_value /\ Older(e).age = e.age + 1
    BY DEF Numbers
  <2>2. \A s \in Sources : \A n \in DOMAIN metrics[s] :
          metrics'[s][n] = IF n \in Rates THEN Older(metrics[s][n]) ELSE metrics[s][n]
    BY <1>4
  <2> HIDE DEF Older
  <2>3. QED BY <1>3, <2>1, <2>2
<1>6. due \in Int /\ due' \in Int /\ -MaxLate <= due' /\ due' <= Period /\ (~crashed => due' = due - 1)
  BY <1>2, MetricsAssumption DEF ReportsInv, Shapes
<1>7. Shapes'
  BY <1>1, <1>6 DEF ReportsInv, Shapes
<1>8. OrderInv'
  BY <1>1, <1>4 DEF ReportsInv, OrderInv
<1>9. NamesInv'
  <2>1. \A s \in Sources : metrics'[s] = [n \in DOMAIN metrics[s] |->
                  IF n \in Rates THEN [metrics[s][n] EXCEPT !.age = @ + 1] ELSE metrics[s][n]]
    BY <1>1
  <2>2. \A s \in Sources : metrics'[s] \in [DOMAIN metrics[s] -> Numbers]
    BY <1>4, <1>5, <2>1
  <2>3. \A s \in Sources : metrics'[s] \in [DOMAIN metrics'[s] -> Numbers]
    BY <1>4, <2>2
  <2>4. QED BY <1>1, <1>4, <2>3 DEF ReportsInv, NamesInv
<1>10. RatesInv'
  <2>1. \A s \in Sources : \A n \in DOMAIN metrics[s] :
          /\ metrics[s][n].last_value = 0 /\ metrics[s][n].age \in Nat /\ ~crashed
          /\ n \in Rates => /\ metrics[s][n].current_value = window[s]
                            /\ metrics[s][n].age + due <= Period
                            /\ s \notin fresh => metrics[s][n].age + due >= Period - MaxLate
          /\ n \notin Rates => metrics[s][n].age = 0
    BY <1>3 DEF ReportsInv, RatesInv, NamesInv, Numbers
  <2>2. \A s \in Sources : \A n \in DOMAIN metrics[s] : n \in Rates =>
          metrics'[s][n].age + due' = metrics[s][n].age + due
    BY <1>5, <1>6, <2>1
  <2>3. \A s \in Sources : DOMAIN metrics'[s] = {} => window'[s] = 0
    BY <1>1, <1>4 DEF ReportsInv, RatesInv
  <2>5. ASSUME NEW s \in Sources, NEW n \in DOMAIN metrics'[s]
        PROVE  /\ metrics'[s][n].last_value = 0
               /\ n \in Rates => /\ metrics'[s][n].current_value = window'[s]
                                 /\ metrics'[s][n].age + due' <= Period
                                 /\ s \notin fresh' => metrics'[s][n].age + due' >= Period - MaxLate
               /\ n \notin Rates => metrics'[s][n].age = 0
    <3>1. n \in DOMAIN metrics[s]
      BY <1>4
    <3>2. window'[s] = window[s] /\ fresh' = fresh
      BY <1>1
    <3>3. QED BY <1>5, <2>1, <2>2, <3>1, <3>2
  <2>4. QED BY <2>3, <2>5 DEF RatesInv
<1>11. QED BY <1>7, <1>8, <1>9, <1>10 DEF ReportsInv

LEMMA NextReports == ReportsInv /\ [Next]_vars => ReportsInv'
<1> SUFFICES ASSUME ReportsInv, [Next]_vars PROVE ReportsInv'
  OBVIOUS
<1>1. CASE UNCHANGED vars
  BY <1>1 DEF vars, ReportsInv, Shapes, OrderInv, NamesInv, RatesInv
<1>2. CASE \E c \in Connections : ReportTraffic(c)
  BY <1>2, TrafficReports
<1>3. CASE \E t \in Senders : Send(t)
  BY <1>3, SendReports
<1>4. QED BY <1>1, <1>2, <1>3, TickReports, PanicReports, ReceiveReports, PassReports, ProbeReports DEF Next

LEMMA SpecReports == Spec => []ReportsInv
BY InitReports, NextReports, PTL DEF Spec

LEMMA ReportsMetrics == ReportsInv => MetricsInv
<1> SUFFICES ASSUME ReportsInv PROVE MetricsInv
  OBVIOUS
<1>1. \A s \in Sources : \A n \in DOMAIN metrics[s] : metrics[s][n] \in Entry
  <2> SUFFICES ASSUME NEW s \in Sources, NEW n \in DOMAIN metrics[s] PROVE metrics[s][n] \in Entry
    OBVIOUS
  <2>1. metrics[s][n] \in Numbers /\ metrics[s][n].age \in Nat
    BY DEF ReportsInv, NamesInv, Numbers
  <2>2. metrics[s][n].age + due <= Period \/ metrics[s][n].age = 0
    BY DEF ReportsInv, RatesInv
  <2>3. metrics[s][n].age \in 0..Period + MaxLate
    BY <2>1, <2>2, MetricsAssumption DEF ReportsInv, Shapes
  <2>4. QED BY <2>1, <2>3 DEF Entry, Numbers
<1>2. TypeOK
  BY <1>1 DEF TypeOK, ReportsInv, Shapes, NamesInv
<1>3. \A s \in Sources : Cardinality(DOMAIN metrics[s]) <= 1
  <2> SUFFICES ASSUME NEW s \in Sources PROVE Cardinality(DOMAIN metrics[s]) <= 1
    OBVIOUS
  <2>1. CASE DOMAIN metrics[s] = {}
    BY <2>1, FS_EmptySet
  <2>2. CASE DOMAIN metrics[s] # {}
    <3>1. PICK n \in DOMAIN metrics[s] : TRUE
      BY <2>2
    <3>2. DOMAIN metrics[s] = {n}
      BY <3>1 DEF ReportsInv, NamesInv
    <3>3. Cardinality({n}) = 1
      BY FS_Singleton
    <3>4. QED BY <3>2, <3>3
  <2>3. QED BY <2>1, <2>2
<1>4. FirstNameOnly
  BY <1>3 DEF FirstNameOnly, ReportsInv, NamesInv
<1>5. QED BY <1>2, <1>4 DEF MetricsInv

\* The entries, the timer and the channel keep their shapes, and every source keeps one
\* name: or_insert_with of the manager takes the name of the first report alone, and the
\* order of send_metrics and of the channel says which that is.
THEOREM SourcesKeepTheirFirstName == Spec => []MetricsInv
BY SpecReports, ReportsMetrics, PTL

\* The rate that a tick writes is what was reported since the tick before, over the seconds
\* since then: the shuffle of current_value and last_value loses and repeats nothing.
THEOREM RatesAreAveraged == Spec => RatesAreAverages
<1>1. ReportsInv /\ [Next]_vars =>
        [Tick => \A s \in Sources : \A n \in DOMAIN metrics[s] \cap Rates :
           metrics'[s][n].metric = window[s] \div AsSecs(metrics[s][n].age)]_vars
  <2> SUFFICES ASSUME ReportsInv, Tick, NEW s \in Sources, NEW n \in DOMAIN metrics[s] \cap Rates
               PROVE  metrics'[s][n].metric = window[s] \div AsSecs(metrics[s][n].age)
    OBVIOUS
  <2>1. metrics'[s][n] = Rated(metrics[s][n])
    BY DEF Tick
  <2>2. metrics[s][n] \in Numbers /\ metrics[s][n].last_value = 0 /\ metrics[s][n].current_value = window[s]
    BY DEF ReportsInv, NamesInv, RatesInv
  <2>3. AsSecs(metrics[s][n].age) # 0
    BY DEF Tick, TooYoung
  <2>4. QED BY <2>1, <2>2, <2>3, Averages
<1>2. QED BY <1>1, SpecReports, PTL DEF Spec, RatesAreAverages

\* The manager divides by zero seconds only over an entry it made since its last tick: one
\* that a tick has seen is at least a second old at the next, however late the executor
\* polled either, as long as a late tick leaves a second of the period.
THEOREM OldEntriesAreOldEnough == Spec => OnlyNewcomersPanic
<1>1. ReportsInv /\ [Next]_vars => [Panic => \E s \in fresh : TooYoung(s)]_vars
  <2> SUFFICES ASSUME ReportsInv, Panic PROVE \E s \in fresh : TooYoung(s)
    OBVIOUS
  <2>1. PICK s \in Sources : TooYoung(s)
    BY DEF Panic
  <2>2. PICK n \in DOMAIN metrics[s] \cap Rates : AsSecs(metrics[s][n].age) = 0
    BY <2>1 DEF TooYoung
  <2>3. metrics[s][n].age \in Nat /\ due \in Int /\ due <= 0
    BY DEF ReportsInv, NamesInv, Numbers, Shapes, Panic
  <2>4. metrics[s][n].age < Second
    BY <2>2, <2>3, Seconds, MetricsAssumption
  <2>5. s \notin fresh => metrics[s][n].age + due >= Period - MaxLate
    BY DEF ReportsInv, RatesInv
  <2>6. s \in fresh
    BY <2>3, <2>4, <2>5, MetricsAssumption
  <2>7. QED BY <2>1, <2>6
<1>2. QED BY <1>1, SpecReports, PTL DEF Spec, OnlyNewcomersPanic

=============================================================================
