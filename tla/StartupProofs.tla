------------------------------ MODULE StartupProofs ------------------------------
(* Theorems about Startup, for every file and set of connections.            *)
EXTENDS Startup, FiniteSetTheorems, SequenceTheorems, TLAPS

\* What can be sent to a worker, and through which manager it comes.
MgrOf(x) == IF x \in Listeners THEN "listener" ELSE "cluster"
ConfigTo(f, x) == {[type |-> "config", to |-> x, config |-> Section(f, x)[i]] : i \in Entries(f, x)}
RequestOf(c) == [type |-> "request", to |-> For[c], config |-> c]
MessageTo(f, x) == ConfigTo(f, x) \cup {RequestOf(c) : c \in {d \in Connections : For[d] = x}}
TlsOf(f) == [type : {"tls"}, to : {Nothing}, config : DOMAIN f.tls]
InletOf(f, m) ==
  IF m = "listener" THEN TlsOf(f) \cup UNION {ConfigTo(f, l) : l \in Listeners}
  ELSE UNION {MessageTo(f, c) : c \in Clusters}
ToAnnounce(f) == TlsOf(f) \cup (UNION {ConfigTo(f, x) : x \in Names}) \cup {[type |-> "fails"]}

\* Every channel holds messages of the file and of the connections, under their own names.
Typed ==
  /\ file \in Files /\ phase \in {"loading", "serving", "panicked"} /\ known \subseteq Names
  /\ toLoad \in Seq(ToAnnounce(file))
  /\ DOMAIN inbox = Managers /\ DOMAIN hand = Managers
  /\ \A m \in Managers :
       /\ inbox[m] \in Seq(InletOf(file, m)) /\ Len(inbox[m]) <= ManagerCap
       /\ hand[m] = <<>> \/ \E x \in known : MgrOf(x) = m /\ \E e \in MessageTo(file, x) : hand[m] = <<e>>
  /\ DOMAIN updates = Names
  /\ \A x \in Names : updates[x] \in Seq(MessageTo(file, x)) /\ Len(updates[x]) <= Cap
  /\ DOMAIN passing = Clusters /\ DOMAIN queue = Clusters /\ DOMAIN busy = Clusters
  /\ locked \in [Clusters -> {"no", "yes", "holding"}]
  /\ \A c \in Clusters :
       /\ passing[c] = <<>> \/ \E e \in MessageTo(file, c) : passing[c] = <<e>>
       /\ queue[c] \in Seq(MessageTo(file, c)) /\ Len(queue[c]) <= Cap
       /\ busy[c] = <<>> \/ \E e \in MessageTo(file, c) : busy[c] = <<e>>
       /\ locked[c] # "no" => busy[c] # <<>>
  /\ \A x \in Names \ known :
       updates[x] = <<>> /\ (x \in Clusters => passing[x] = <<>> /\ queue[x] = <<>> /\ busy[x] = <<>>)

\* TLS configurations come before every listener, and the first configuration of a name
\* before its others.
Tls(e) == e.type = "tls"
ConfigFor(e, x) == e.type = "config" /\ e.to = x
NoneFor(s, x) == \A k \in DOMAIN s : ~ConfigFor(s[k], x)
LeadsWith(s, x, c) ==
  \A k \in DOMAIN s : ConfigFor(s[k], x) =>
    s[k].config = c \/ \E j \in 1..(k - 1) : ConfigFor(s[j], x)
TlsFirst(s) == \A k \in DOMAIN s : Tls(s[k]) => \A j \in 1..k : Tls(s[j])
Ordered ==
  /\ TlsFirst(toLoad) /\ TlsFirst(inbox["listener"])
  /\ toLoad # <<>> /\ Tls(Head(toLoad)) =>
       (\A k \in DOMAIN inbox["listener"] : Tls(inbox["listener"][k])) /\ known \cap Listeners = {}
  /\ inbox["listener"] # <<>> /\ Tls(Head(inbox["listener"])) => known \cap Listeners = {}
  /\ \A x \in Names \ known :
       /\ LeadsWith(inbox[MgrOf(x)], x, First(x))
       /\ NoneFor(inbox[MgrOf(x)], x) => LeadsWith(toLoad, x, First(x))

\* A task has asked for the names before its next one in vain, or, when start() failed,
\* not at all.
TlsNames(x) == First(x).tls
AskedFor(x) == Len(TlsNames(x)) - Len(wanted[x])
AskedInVain(x) ==
  /\ Len(wanted[x]) <= Len(TlsNames(x))
  /\ \A k \in 1..Len(wanted[x]) : wanted[x][k] = TlsNames(x)[AskedFor(x) + k]
  /\ phase = "panicked" \/ \A j \in 1..AskedFor(x) : ~Usable(TlsNames(x)[j], x)
Obtained(x) ==
  \E i \in DOMAIN TlsNames(x) :
    /\ got[x] = TlsNames(x)[i] /\ Usable(got[x], x)
    /\ \A j \in 1..(i - 1) : ~Usable(TlsNames(x)[j], x)
Asking(x) ==
  /\ TlsNames(x) \in Seq(ToSet(TlsNames(x))) /\ wanted[x] \in Seq(ToSet(TlsNames(x)))
  /\ IF got[x] = Nothing THEN AskedInVain(x) ELSE wanted[x] = <<>> /\ Obtained(x)
  /\ stage[x] = "waiting" => wanted[x] # <<>>
  /\ stage[x] = "run" => wanted[x] = <<>>
Tasks ==
  /\ stage \in [Names -> {"none", "bind", "ask", "waiting", "run", "ended"}]
  /\ DOMAIN wanted = Names /\ DOMAIN got = Names
  /\ \A x \in known : stage[x] # "none" /\ Asking(x)
  /\ \A x \in Names \ known : stage[x] = "none" /\ got[x] = Nothing
Waiting ==
  /\ requests \in Seq(known) /\ Len(requests) <= ConfigCap
  /\ \A i \in DOMAIN requests :
       /\ stage[requests[i]] = "waiting"
       /\ \A j \in DOMAIN requests : requests[i] = requests[j] => i = j

\* The messages of T in s, and on the way to x.
Num(s, T) == Cardinality({i \in DOMAIN s : s[i] \in T})
Behind(T, x) == IF x \in Clusters THEN Num(passing[x], T) + Num(queue[x], T) + Num(busy[x], T) ELSE 0
OnTheWay(T, x) ==
  Num(toLoad, T) + Num(inbox[MgrOf(x)], T) + Num(hand[MgrOf(x)], T) + Num(updates[x], T) + Behind(T, x)
Due(f, x) == IF f.missing # "none" /\ x \in Clusters THEN 0 ELSE Cardinality(Entries(f, x))

\* No configuration is delivered more often than the file lists it, and no request twice.
ListedFor(f) ==
  \A x \in Names : OnTheWay(ConfigTo(f, x), x) + (IF x \in known THEN 1 ELSE 0) <= Due(f, x)
Counted ==
  /\ \A f \in Files : f = file => ListedFor(f)
  /\ \A c \in Connections : OnTheWay({RequestOf(c)}, For[c]) <= IF conn[c] = "sent" THEN 1 ELSE 0

Accepting ==
  /\ handshake \in [Listeners -> Connections \cup {Nothing}] /\ plain \subseteq Connections
  /\ conn \in [Connections -> {"out", "backlog", "handshake", "cancelled", "closed", "client", "sent",
                               "served", "notfound"}]
  /\ \A l \in Listeners : handshake[l] # Nothing =>
       Through[handshake[l]] = l /\ conn[handshake[l]] = "handshake"
  /\ \A c \in Connections : conn[c] = "served" => For[c] \in known
  /\ CancelledByRepeats

StartIInv == Typed /\ Ordered /\ Tasks /\ Waiting /\ Counted /\ Accepting
-------------------------------------------------------------------------------
Bit(e, T) == IF e \in T THEN 1 ELSE 0

\* Counting the messages of T in a channel.
LEMMA NumNat ==
  ASSUME NEW S, NEW s \in Seq(S), NEW T
  PROVE  Num(s, T) \in Nat /\ IsFiniteSet({i \in DOMAIN s : s[i] \in T})
<1>1. IsFiniteSet(1..Len(s)) /\ {i \in DOMAIN s : s[i] \in T} \subseteq 1..Len(s)
  BY FS_Interval
<1>2. QED BY <1>1, FS_Subset, FS_CardinalityType DEF Num

LEMMA NumEmpty == ASSUME NEW T PROVE Num(<<>>, T) = 0
<1>1. {i \in DOMAIN <<>> : <<>>[i] \in T} = {}
  OBVIOUS
<1>2. QED BY <1>1, FS_EmptySet DEF Num

LEMMA NumOne == ASSUME NEW e, NEW T PROVE Num(<<e>>, T) = Bit(e, T)
<1>1. CASE e \in T
  <2>1. {i \in DOMAIN <<e>> : <<e>>[i] \in T} = {1}
    BY <1>1
  <2>2. Cardinality({1}) = 1
    BY FS_Singleton
  <2>3. QED BY <1>1, <2>1, <2>2 DEF Num, Bit
<1>2. CASE e \notin T
  <2>1. {i \in DOMAIN <<e>> : <<e>>[i] \in T} = {}
    BY <1>2
  <2>2. QED BY <1>2, <2>1, FS_EmptySet DEF Num, Bit
<1>3. QED BY <1>1, <1>2

LEMMA NumAppend ==
  ASSUME NEW S, NEW s \in Seq(S), NEW e \in S, NEW T
  PROVE  Num(Append(s, e), T) = Num(s, T) + Bit(e, T)
<1> DEFINE At == {i \in DOMAIN s : s[i] \in T}
           r == Append(s, e)
<1>1. IsFiniteSet(At) /\ Cardinality(At) \in Nat /\ Len(s) + 1 \notin At /\ Len(s) \in Nat
  <2>1. IsFiniteSet(At)
    BY NumNat
  <2>2. Cardinality(At) \in Nat
    BY <2>1, FS_CardinalityType
  <2>3. DOMAIN s = 1..Len(s) /\ Len(s) \in Nat
    OBVIOUS
  <2>4. QED BY <2>1, <2>2, <2>3
<1>2. /\ DOMAIN r = 1..(Len(s) + 1) /\ r[Len(s) + 1] = e
      /\ \A i \in 1..Len(s) : r[i] = s[i]
  OBVIOUS
<1>3. CASE e \in T
  <2>1. {i \in DOMAIN r : r[i] \in T} = At \cup {Len(s) + 1}
    BY <1>1, <1>2, <1>3
  <2>2. Num(r, T) = Cardinality(At \cup {Len(s) + 1}) /\ Num(s, T) = Cardinality(At)
    BY <2>1 DEF Num
  <2> HIDE DEF At, r
  <2>3. Cardinality(At \cup {Len(s) + 1}) = Cardinality(At) + 1
    BY <1>1, FS_AddElement
  <2>4. Num(r, T) = Num(s, T) + Bit(e, T)
    BY <1>3, <2>2, <2>3 DEF Bit
  <2>5. QED BY <2>4 DEF r
<1>4. CASE e \notin T
  <2>1. {i \in DOMAIN r : r[i] \in T} = At
    BY <1>1, <1>2, <1>4
  <2>2. Num(r, T) = Cardinality(At) /\ Num(s, T) = Cardinality(At)
    BY <2>1 DEF Num
  <2> HIDE DEF At, r
  <2>3. Num(r, T) = Num(s, T) + Bit(e, T)
    BY <1>1, <1>4, <2>2 DEF Bit
  <2>4. QED BY <2>3 DEF r
<1>5. QED BY <1>3, <1>4

LEMMA NumTail ==
  ASSUME NEW S, NEW s \in Seq(S), s # <<>>, NEW T
  PROVE  Num(Tail(s), T) + Bit(Head(s), T) <= Num(s, T)
<1> DEFINE At == {i \in DOMAIN s : s[i] \in T}
           Rest == {i \in DOMAIN Tail(s) : Tail(s)[i] \in T}
           Later == At \ {1}
<1>1. /\ Len(s) \in Nat \ {0} /\ Tail(s) \in Seq(S) /\ DOMAIN Tail(s) = 1..(Len(s) - 1)
      /\ \A i \in DOMAIN Tail(s) : Tail(s)[i] = s[i + 1]
      /\ DOMAIN s = 1..Len(s) /\ Head(s) = s[1]
  OBVIOUS
<1>2. IsFiniteSet(At) /\ IsFiniteSet(Rest) /\ Num(s, T) = Cardinality(At) /\ Num(Tail(s), T) = Cardinality(Rest)
  BY <1>1, NumNat DEF Num
<1>3. IsFiniteSet(Later)
  BY <1>2, FS_Subset
<1>4. Cardinality(Rest) <= Cardinality(Later)
  <2> DEFINE g == [i \in Rest |-> i + 1]
  <2>1. g \in Injection(Rest, Later)
    BY <1>1 DEF Injection, IsInjective
  <2> HIDE DEF Rest, Later, g
  <2>2. QED BY <2>1, <1>3, FS_Injection
<1> HIDE DEF Rest
<1>5. CASE Head(s) \in T
  <2>1. At = Later \cup {1} /\ 1 \notin Later
    BY <1>1, <1>5
  <2> HIDE DEF At, Later
  <2>2. Cardinality(At) = Cardinality(Later) + 1
    BY <2>1, <1>3, FS_AddElement
  <2>3. Cardinality(Later) \in Nat /\ Cardinality(Rest) \in Nat
    BY <1>2, <1>3, FS_CardinalityType
  <2>4. QED BY <1>2, <1>4, <1>5, <2>2, <2>3 DEF Bit
<1>6. CASE Head(s) \notin T
  <2>1. At = Later
    BY <1>1, <1>6
  <2> HIDE DEF At, Later
  <2>2. Cardinality(Later) \in Nat /\ Cardinality(Rest) \in Nat
    BY <1>2, <1>3, FS_CardinalityType
  <2>3. QED BY <1>2, <1>4, <1>6, <2>1, <2>2 DEF Bit
<1>7. QED BY <1>5, <1>6

LEMMA NumMember ==
  ASSUME NEW S, NEW s \in Seq(S), NEW k \in DOMAIN s, NEW T, s[k] \in T
  PROVE  Num(s, T) >= 1
<1> DEFINE At == {i \in DOMAIN s : s[i] \in T}
<1>1. IsFiniteSet(At) /\ k \in At /\ Num(s, T) = Cardinality(At)
  BY NumNat DEF Num
<1> HIDE DEF At
<1>2. Cardinality(At) \in Nat /\ Cardinality(At) # 0
  BY <1>1, FS_EmptySet, FS_CardinalityType
<1>3. QED BY <1>1, <1>2

LEMMA NumNone ==
  ASSUME NEW s, NEW T, \A i \in DOMAIN s : s[i] \notin T
  PROVE  Num(s, T) = 0
<1>1. {i \in DOMAIN s : s[i] \in T} = {}
  OBVIOUS
<1>2. QED BY <1>1, FS_EmptySet DEF Num
-------------------------------------------------------------------------------
LEMMA SetToSeqIsSeq ==
  ASSUME NEW S, IsFiniteSet(S)
  PROVE  SetToSeq(S) \in Seq(S) /\ Len(SetToSeq(S)) = Cardinality(S)
<1>1. PICK g \in Bijection(1..Cardinality(S), S) : Cardinality(S) \in Nat
  BY FS_CardinalityType DEF ExistsBijection
<1>2. \E g1 \in [1..Cardinality(S) -> S] : IsInjective(g1)
  BY <1>1 DEF Bijection, Injection
<1>3. SetToSeq(S) \in [1..Cardinality(S) -> S]
  BY <1>2 DEF SetToSeq
<1>4. QED BY <1>1, <1>3

\* What a file lists under a name.
LEMMA FileFacts ==
  ASSUME NEW f \in Files, NEW x \in Names
  PROVE  /\ Section(f, x) \in Seq(ToSet(Section(f, x)))
         /\ \A i \in DOMAIN Section(f, x) : Section(f, x)[i].tls \in Seq(ToSet(Section(f, x)[i].tls))
         /\ Section(f, x) = IF x \in Listeners THEN f.listeners ELSE f.clusters
         /\ Section(f, x) \in {f.listeners, f.clusters}
         /\ IsFiniteSet(Entries(f, x)) /\ Cardinality(Entries(f, x)) \in Nat
<1>1. Section(f, x) \in Seq(ToSet(Section(f, x)))
  BY FileAssumption DEF Section
<1>2. \A i \in DOMAIN Section(f, x) : Section(f, x)[i].tls \in Seq(ToSet(Section(f, x)[i].tls))
  <2>1. \A i \in DOMAIN Section(f, x) : Section(f, x)[i] \in ToSet(Section(f, x))
    BY DEF ToSet
  <2>2. CASE x \in Listeners
    BY <2>1, <2>2, FileAssumption DEF Section
  <2>3. CASE x \notin Listeners
    BY <2>1, <2>3, FileAssumption DEF Section
  <2>4. QED BY <2>2, <2>3
<1>3. IsFiniteSet(Entries(f, x)) /\ Cardinality(Entries(f, x)) \in Nat
  <2>1. IsFiniteSet(1..Len(Section(f, x))) /\ Entries(f, x) \subseteq 1..Len(Section(f, x))
    BY <1>1, FS_Interval DEF Entries
  <2>2. QED BY <2>1, FS_Subset, FS_CardinalityType
<1>4. QED BY <1>1, <1>2, <1>3 DEF Section

LEMMA FirstIs ==
  ASSUME NEW x \in Names, NEW i \in Entries(file, x), file \in Files,
         \A j \in 1..(i - 1) : j \notin Entries(file, x)
  PROVE  First(x) = Section(file, x)[i]
<1>1. i \in Nat /\ Entries(file, x) \subseteq Nat \ {0}
  BY FileFacts DEF Entries
<1>2. \A j \in Entries(file, x) : i <= j
  BY <1>1
<1>3. Min(Entries(file, x)) = i
  <2> DEFINE E == Entries(file, x)
  <2> HIDE DEF E
  <2>1. i \in E /\ E \subseteq Nat /\ \A j \in E : i <= j
    BY <1>1, <1>2 DEF E
  <2>2. \A k \in E : (\A j \in E : k =< j) => k = i
    BY <2>1
  <2>3. Min(E) \in E /\ \A j \in E : Min(E) =< j
    BY <2>1 DEF Min
  <2>4. QED BY <2>2, <2>3 DEF E
<1>4. QED BY <1>3 DEF First

ConfigOf(e) == [type |-> "config", to |-> e.name, config |-> e]
TlsPart(f) == [i \in DOMAIN SetToSeq(DOMAIN f.tls) |->
                [type |-> "tls", to |-> Nothing, config |-> SetToSeq(DOMAIN f.tls)[i]]]
ConfigPart(s) == [i \in DOMAIN s |-> [type |-> "config", to |-> s[i].name, config |-> s[i]]]

LEMMA AnnouncedIs ==
  ASSUME NEW f
  PROVE  Announced(f) =
           CASE f.missing = "tls"       -> <<[type |-> "fails"]>>
             [] f.missing = "listeners" -> TlsPart(f) \o <<[type |-> "fails"]>>
             [] f.missing = "clusters"  -> TlsPart(f) \o ConfigPart(f.listeners) \o <<[type |-> "fails"]>>
             [] OTHER                   -> TlsPart(f) \o ConfigPart(f.listeners) \o ConfigPart(f.clusters)
BY DEF Announced, TlsPart, ConfigPart

Joined(S, a, b, c) ==
  /\ c \in Seq(S) /\ Len(c) = Len(a) + Len(b) /\ DOMAIN c = 1..Len(c)
  /\ \A k \in 1..Len(a) : c[k] = a[k]
  /\ \A k \in 1..Len(b) : c[Len(a) + k] = b[k]

LEMMA Concat ==
  ASSUME NEW S, NEW a \in Seq(S), NEW b \in Seq(S)
  PROVE  Joined(S, a, b, a \o b)
BY DEF Joined

LEMMA PartsTyped ==
  ASSUME NEW f \in Files
  PROVE  /\ TlsPart(f) \in Seq(TlsOf(f)) /\ TlsPart(f) \in Seq(ToAnnounce(f))
         /\ ConfigPart(f.listeners) \in Seq(ToAnnounce(f)) /\ ConfigPart(f.clusters) \in Seq(ToAnnounce(f))
         /\ <<[type |-> "fails"]>> \in Seq(ToAnnounce(f))
         /\ Len(ConfigPart(f.listeners)) = Len(f.listeners) /\ Len(ConfigPart(f.clusters)) = Len(f.clusters)
         /\ Len(f.listeners) \in Nat /\ Len(f.clusters) \in Nat
         /\ f.listeners \in Seq(ToSet(f.listeners)) /\ f.clusters \in Seq(ToSet(f.clusters))
<1>1. TlsPart(f) \in Seq(TlsOf(f)) /\ TlsPart(f) \in Seq(ToAnnounce(f))
  <2>1. SetToSeq(DOMAIN f.tls) \in Seq(DOMAIN f.tls)
    BY SetToSeqIsSeq, FileAssumption
  <2>2. \A i \in DOMAIN SetToSeq(DOMAIN f.tls) : TlsPart(f)[i] \in TlsOf(f)
    BY <2>1 DEF TlsPart, TlsOf
  <2>3. DOMAIN TlsPart(f) = 1..Len(SetToSeq(DOMAIN f.tls)) /\ Len(SetToSeq(DOMAIN f.tls)) \in Nat
    BY <2>1 DEF TlsPart
  <2>4. TlsPart(f) \in Seq(TlsOf(f))
    <3>1. TlsPart(f) = [i \in 1..Len(SetToSeq(DOMAIN f.tls)) |-> TlsPart(f)[i]]
      BY <2>3 DEF TlsPart
    <3>2. \A i \in 1..Len(SetToSeq(DOMAIN f.tls)) : TlsPart(f)[i] \in TlsOf(f)
      BY <2>2, <2>3
    <3>3. TlsPart(f) \in [1..Len(SetToSeq(DOMAIN f.tls)) -> TlsOf(f)]
      BY <3>1, <3>2
    <3>4. QED BY <3>3, <2>3
  <2>5. TlsOf(f) \subseteq ToAnnounce(f)
    BY DEF ToAnnounce
  <2>6. QED BY <2>4, <2>5
<1>2. ASSUME NEW s, NEW Kind \in {Listeners, Clusters}, s \in Seq(ToSet(s)), \A e \in ToSet(s) : e.name \in Kind,
             \A x \in Kind : Section(f, x) = s
      PROVE  ConfigPart(s) \in Seq(ToAnnounce(f)) /\ Len(ConfigPart(s)) = Len(s) /\ Len(s) \in Nat
  <2>1. ASSUME NEW i \in DOMAIN s PROVE ConfigPart(s)[i] \in ToAnnounce(f)
    <3>1. s[i].name \in Kind /\ s[i].name \in Names
      BY <1>2 DEF ToSet, Names
    <3>2. i \in Entries(f, s[i].name)
      BY <3>1, <1>2 DEF Entries
    <3>3. ConfigPart(s)[i] \in ConfigTo(f, s[i].name)
      BY <3>1, <3>2, <1>2 DEF ConfigTo, ConfigPart
    <3>4. QED BY <3>1, <3>3 DEF ToAnnounce
  <2>2. DOMAIN s = 1..Len(s) /\ Len(s) \in Nat
    BY <1>2
  <2>3. ConfigPart(s) = [i \in 1..Len(s) |-> ConfigPart(s)[i]]
    BY <2>2 DEF ConfigPart
  <2>4. QED BY <2>1, <2>2, <2>3
<1>3. f.listeners \in Seq(ToSet(f.listeners)) /\ f.clusters \in Seq(ToSet(f.clusters))
  BY FileAssumption
<1>4. /\ ConfigPart(f.listeners) \in Seq(ToAnnounce(f)) /\ Len(ConfigPart(f.listeners)) = Len(f.listeners)
      /\ Len(f.listeners) \in Nat
  <2>1. \A x \in Listeners : Section(f, x) = f.listeners
    BY DEF Section
  <2>2. \A e \in ToSet(f.listeners) : e.name \in Listeners
    BY FileAssumption
  <2>3. QED BY <2>1, <2>2, <1>2, <1>3
<1>5. /\ ConfigPart(f.clusters) \in Seq(ToAnnounce(f)) /\ Len(ConfigPart(f.clusters)) = Len(f.clusters)
      /\ Len(f.clusters) \in Nat
  <2>1. \A x \in Clusters : Section(f, x) = f.clusters
    BY NameAssumption DEF Section
  <2>2. \A e \in ToSet(f.clusters) : e.name \in Clusters
    BY FileAssumption
  <2>3. QED BY <2>1, <2>2, <1>2, <1>3
<1>6. <<[type |-> "fails"]>> \in Seq(ToAnnounce(f))
  BY DEF ToAnnounce
<1>7. QED BY <1>1, <1>3, <1>4, <1>5, <1>6
-------------------------------------------------------------------------------
\* What stands at each place of what start() announces.
AnnouncedHere(f, s, k) ==
  LET n == Len(TlsPart(f))
      l == Len(f.listeners)
  IN \/ k = Len(s) /\ s[k] = [type |-> "fails"]
     \/ k <= n /\ s[k] \in TlsOf(f)
     \/ k - n \in DOMAIN f.listeners /\ s[k] = ConfigOf(f.listeners[k - n])
     \/ f.missing = "none" /\ k - n - l \in DOMAIN f.clusters /\ s[k] = ConfigOf(f.clusters[k - n - l])

LEMMA AnnouncedAt ==
  ASSUME NEW f \in Files
  PROVE  /\ Announced(f) \in Seq(ToAnnounce(f))
         /\ \A k \in DOMAIN Announced(f) : AnnouncedHere(f, Announced(f), k)
<1> DEFINE A == ToAnnounce(f)
           tls == TlsPart(f)
           ls == ConfigPart(f.listeners)
           cs == ConfigPart(f.clusters)
           end == <<[type |-> "fails"]>>
           n == Len(tls)
           l == Len(f.listeners)
           c == Len(f.clusters)
<1>1. /\ tls \in Seq(TlsOf(f)) /\ tls \in Seq(A) /\ ls \in Seq(A) /\ cs \in Seq(A) /\ end \in Seq(A)
      /\ Len(ls) = l /\ Len(cs) = c /\ l \in Nat /\ c \in Nat /\ n \in Nat
      /\ Len(tls) = n /\ DOMAIN f.listeners = 1..l /\ DOMAIN f.clusters = 1..c
  BY PartsTyped
<1>2. /\ \A k \in 1..n : tls[k] \in TlsOf(f)
      /\ \A k \in 1..l : ls[k] = ConfigOf(f.listeners[k])
      /\ \A k \in DOMAIN f.clusters : cs[k] = ConfigOf(f.clusters[k])
      /\ Len(end) = 1 /\ end[1] = [type |-> "fails"]
  BY <1>1 DEF ConfigPart, ConfigOf
<1>3. f.missing \in {"none", "tls", "listeners", "clusters"}
  BY FileAssumption
<1> HIDE DEF A, tls, ls, cs, end, n, l, c
<1>4. CASE f.missing = "tls"
  <2>1. Announced(f) = end
    BY <1>4, AnnouncedIs DEF end
  <2>2. QED BY <2>1, <1>1, <1>2 DEF AnnouncedHere, A, n, l
<1>5. CASE f.missing = "listeners"
  <2>1. Announced(f) = tls \o end
    BY <1>5, AnnouncedIs DEF tls, end
  <2>2. /\ tls \o end \in Seq(A) /\ Len(tls \o end) = n + 1
        /\ \A k \in 1..n : (tls \o end)[k] = tls[k]
        /\ (tls \o end)[n + 1] = end[1]
    <3>1. Joined(A, tls, end, tls \o end)
      BY <1>1, Concat
    <3>2. QED BY <3>1, <1>1, <1>2 DEF Joined
  <2>3. ASSUME NEW k \in DOMAIN (tls \o end) PROVE AnnouncedHere(f, tls \o end, k)
    <3>1. k \in 1..n \/ k = n + 1
      BY <2>2, <1>1
    <3>2. QED BY <3>1, <2>2, <1>1, <1>2 DEF AnnouncedHere, tls, n, l
  <2>4. QED BY <2>1, <2>2, <2>3 DEF A
<1>6. /\ tls \o ls \in Seq(A) /\ Len(tls \o ls) = n + l
      /\ \A k \in 1..n : (tls \o ls)[k] = tls[k]
      /\ \A k \in 1..l : (tls \o ls)[n + k] = ls[k]
  <2>1. Joined(A, tls, ls, tls \o ls)
    BY <1>1, Concat
  <2>2. QED BY <2>1, <1>1 DEF Joined
<1> DEFINE b == tls \o ls
<1> HIDE DEF b
<1>7. ASSUME NEW k \in 1..(n + l)
      PROVE  (k <= n /\ b[k] \in TlsOf(f)) \/ (k - n \in DOMAIN f.listeners /\ b[k] = ConfigOf(f.listeners[k - n]))
  <2>1. CASE k <= n
    BY <2>1, <1>1, <1>2, <1>6 DEF b
  <2>2. CASE k > n
    <3>1. k - n \in 1..l /\ k = n + (k - n)
      BY <2>2, <1>1
    <3>2. b[k] = ls[k - n]
      BY <3>1, <1>6 DEF b
    <3>3. QED BY <3>1, <3>2, <1>1, <1>2
  <2>3. QED BY <2>1, <2>2, <1>1
<1>8. CASE f.missing = "clusters"
  <2>1. Announced(f) = b \o end
    BY <1>8, AnnouncedIs DEF tls, end, ls, b
  <2>2. /\ b \o end \in Seq(A) /\ Len(b \o end) = n + l + 1
        /\ \A k \in 1..(n + l) : (b \o end)[k] = b[k]
        /\ (b \o end)[n + l + 1] = end[1]
    <3>1. b \in Seq(A) /\ Len(b) = n + l
      BY <1>6 DEF b
    <3>2. Joined(A, b, end, b \o end)
      BY <1>1, <3>1, Concat
    <3>3. QED BY <3>1, <3>2, <1>1, <1>2 DEF Joined
  <2>3. ASSUME NEW k \in DOMAIN (b \o end) PROVE AnnouncedHere(f, b \o end, k)
    <3>1. k \in 1..(n + l) \/ k = n + l + 1
      BY <2>2, <1>1
    <3>2. QED BY <3>1, <2>2, <1>2, <1>7 DEF AnnouncedHere, tls, n, l
  <2>4. QED BY <2>1, <2>2, <2>3 DEF A
<1>9. CASE f.missing = "none"
  <2>1. Announced(f) = b \o cs
    BY <1>9, AnnouncedIs DEF tls, cs, ls, b
  <2>2. /\ b \o cs \in Seq(A) /\ Len(b \o cs) = n + l + c /\ DOMAIN (b \o cs) = 1..(n + l + c)
        /\ \A k \in 1..(n + l) : (b \o cs)[k] = b[k]
        /\ \A k \in 1..c : (b \o cs)[n + l + k] = cs[k]
    <3>1. b \in Seq(A) /\ Len(b) = n + l
      BY <1>6 DEF b
    <3>2. Joined(A, b, cs, b \o cs)
      BY <1>1, <3>1, Concat
    <3>3. QED BY <3>1, <3>2, <1>1, <1>2 DEF Joined
  <2>3. ASSUME NEW k \in DOMAIN (b \o cs) PROVE AnnouncedHere(f, b \o cs, k)
    <3>1. CASE k \in 1..(n + l)
      BY <3>1, <2>2, <1>2, <1>7 DEF AnnouncedHere, tls, n, l
    <3>2. CASE k \notin 1..(n + l)
      <4>1. k - n - l \in 1..c /\ k = n + l + (k - n - l)
        <5>1. n \in Nat /\ l \in Nat /\ c \in Nat /\ k \in Nat /\ k > n + l /\ k <= n + l + c
          BY <3>2, <2>2, <1>1
        <5>2. QED BY <5>1
      <4>2. (b \o cs)[k] = cs[k - n - l]
        BY <4>1, <2>2
      <4>3. (b \o cs)[k] = ConfigOf(f.clusters[k - n - l])
        BY <4>1, <4>2, <1>1, <1>2
      <4>4. QED BY <4>1, <4>3, <1>1, <1>9 DEF AnnouncedHere, tls, n, l
    <3>3. QED BY <3>1, <3>2
  <2>4. QED BY <2>1, <2>2, <2>3 DEF A
<1>10. QED BY <1>3, <1>4, <1>5, <1>8, <1>9

\* Where the section of x starts.
Offset(f, x) == Len(TlsPart(f)) + (IF x \in Listeners THEN 0 ELSE Len(f.listeners))

LEMMA AnnouncedFor ==
  ASSUME NEW f \in Files, NEW x \in Names, NEW k \in DOMAIN Announced(f)
  PROVE  /\ ConfigFor(Announced(f)[k], x) =>
              /\ k - Offset(f, x) \in Entries(f, x)
              /\ Announced(f)[k].config = Section(f, x)[k - Offset(f, x)]
              /\ x \in Listeners \/ f.missing = "none"
         /\ k < Len(Announced(f)) /\ k - Offset(f, x) \in Entries(f, x) => ConfigFor(Announced(f)[k], x)
         /\ Offset(f, x) \in Nat
<1> DEFINE s == Announced(f)
           e == s[k]
           n == Len(TlsPart(f))
           l == Len(f.listeners)
           i == k - Offset(f, x)
<1>1. /\ n \in Nat /\ l \in Nat /\ DOMAIN f.listeners = 1..l /\ DOMAIN f.clusters = 1..Len(f.clusters)
      /\ Len(f.clusters) \in Nat
  BY PartsTyped
<1>2. /\ \A j \in DOMAIN f.listeners : f.listeners[j].name \in Listeners
      /\ \A j \in DOMAIN f.clusters : f.clusters[j].name \in Clusters
  BY FileAssumption DEF ToSet
<1>3. AnnouncedHere(f, s, k) /\ k \in Nat \ {0} /\ k <= Len(s) /\ Len(s) \in Nat
  BY AnnouncedAt
<1>4. i = (IF x \in Listeners THEN k - n ELSE k - n - l) /\ Offset(f, x) \in Nat /\ i \in Int
  BY <1>1, <1>3 DEF Offset
<1>5. i \in Entries(f, x) <=> i \in DOMAIN Section(f, x) /\ Section(f, x)[i].name = x
  BY DEF Entries
<1>6. x \in Listeners => Section(f, x) = f.listeners
  BY DEF Section
<1>7. x \notin Listeners => Section(f, x) = f.clusters /\ x \in Clusters
  BY DEF Section, Names
<1> HIDE DEF s, n, l, i
<1>8. CASE k = Len(s) /\ e = [type |-> "fails"]
  <2>1. ~ConfigFor(e, x)
    BY <1>8 DEF ConfigFor
  <2>2. QED BY <2>1, <1>8, <1>3, <1>4 DEF s, i, n
<1>9. CASE k <= n /\ e \in TlsOf(f)
  <2>1. ~ConfigFor(e, x)
    BY <1>9 DEF ConfigFor, TlsOf
  <2>2. i \notin Entries(f, x)
    BY <1>9, <1>1, <1>3, <1>4, <1>5, <1>6, <1>7
  <2>3. QED BY <2>1, <2>2, <1>9, <1>4 DEF s, i, n
<1>10. CASE k - n \in DOMAIN f.listeners /\ e = ConfigOf(f.listeners[k - n])
  <2>1. e.type = "config" /\ e.to = f.listeners[k - n].name /\ e.config = f.listeners[k - n]
    BY <1>10 DEF ConfigOf
  <2>3. CASE x \in Listeners
    <3>1. ConfigFor(e, x) <=> i \in Entries(f, x)
      BY <2>1, <2>3, <1>4, <1>5, <1>6, <1>10 DEF ConfigFor
    <3>2. e.config = Section(f, x)[i]
      BY <2>1, <2>3, <1>4, <1>6
    <3>3. QED BY <3>1, <3>2, <2>3, <1>1, <1>3, <1>4 DEF s, i, n
  <2>4. CASE x \notin Listeners
    <3>1. ~ConfigFor(e, x)
      BY <2>1, <2>4, <1>2, <1>10 DEF ConfigFor
    <3>2. i \notin Entries(f, x)
      BY <2>4, <1>1, <1>3, <1>4, <1>5, <1>7, <1>10
    <3>3. QED BY <3>1, <3>2, <1>1, <1>3, <1>4 DEF s, i, n
  <2>5. QED BY <2>3, <2>4
<1>11. CASE f.missing = "none" /\ k - n - l \in DOMAIN f.clusters /\ e = ConfigOf(f.clusters[k - n - l])
  <2>1. e.type = "config" /\ e.to = f.clusters[k - n - l].name /\ e.config = f.clusters[k - n - l]
    BY <1>11 DEF ConfigOf
  <2>3. CASE x \in Listeners
    <3>1. ~ConfigFor(e, x)
      BY <2>1, <2>3, <1>2, <1>11, NameAssumption DEF ConfigFor
    <3>2. i \notin Entries(f, x)
      BY <2>3, <1>1, <1>3, <1>4, <1>5, <1>6, <1>11
    <3>3. QED BY <3>1, <3>2, <1>1, <1>3, <1>4 DEF s, i, n
  <2>4. CASE x \notin Listeners
    <3>1. ConfigFor(e, x) <=> i \in Entries(f, x)
      BY <2>1, <2>4, <1>4, <1>5, <1>7, <1>11 DEF ConfigFor
    <3>2. e.config = Section(f, x)[i]
      BY <2>1, <2>4, <1>4, <1>7
    <3>3. QED BY <3>1, <3>2, <1>1, <1>3, <1>4, <1>11 DEF s, i, n
  <2>5. QED BY <2>3, <2>4
<1>12. QED BY <1>3, <1>8, <1>9, <1>10, <1>11 DEF AnnouncedHere, n, l, s

LEMMA AnnouncedTls ==
  ASSUME NEW f \in Files, NEW k \in DOMAIN Announced(f)
  PROVE  /\ Tls(Announced(f)[k]) => k <= Len(TlsPart(f))
         /\ k <= Len(TlsPart(f)) /\ k < Len(Announced(f)) => Tls(Announced(f)[k])
<1> DEFINE e == Announced(f)[k]
           n == Len(TlsPart(f))
<1>1. /\ n \in Nat /\ Len(f.listeners) \in Nat /\ DOMAIN f.listeners = 1..Len(f.listeners)
      /\ DOMAIN f.clusters = 1..Len(f.clusters) /\ Len(f.clusters) \in Nat
  BY PartsTyped
<1>2. AnnouncedHere(f, Announced(f), k) /\ k \in Nat /\ k <= Len(Announced(f)) /\ Len(Announced(f)) \in Nat
  BY AnnouncedAt
<1>3. CASE k = Len(Announced(f)) /\ e = [type |-> "fails"]
  BY <1>3, <1>2 DEF Tls
<1>4. CASE k <= n /\ e \in TlsOf(f)
  BY <1>4 DEF Tls, TlsOf
<1>5. ASSUME k - n \in Nat \ {0}, NEW c, e = ConfigOf(c)
      PROVE  ~Tls(e) /\ ~(k <= n)
  BY <1>1, <1>2, <1>5 DEF Tls, ConfigOf
<1>6. CASE k - n \in DOMAIN f.listeners /\ e = ConfigOf(f.listeners[k - n])
  BY <1>1, <1>5, <1>6
<1>7. CASE k - n - Len(f.listeners) \in DOMAIN f.clusters /\ e = ConfigOf(f.clusters[k - n - Len(f.listeners)])
  <2>1. k - n - Len(f.listeners) \in Nat \ {0}
    BY <1>1, <1>7
  <2>2. k - n \in Nat \ {0}
    BY <2>1, <1>1, <1>2
  <2>3. QED BY <2>2, <1>5, <1>7
<1>8. QED BY <1>2, <1>3, <1>4, <1>6, <1>7 DEF AnnouncedHere

\* The start of the announcements: TLS first, first configurations first, each at most as
\* often as the file has it.
LEMMA AnnouncedOrder ==
  ASSUME NEW f \in Files
  PROVE  /\ TlsFirst(Announced(f))
         /\ \A x \in Names : Num(Announced(f), ConfigTo(f, x)) <= Due(f, x)
<1> DEFINE s == Announced(f)
<1>1. s \in Seq(ToAnnounce(f)) /\ Len(s) \in Nat /\ DOMAIN s = 1..Len(s)
  BY AnnouncedAt
<1>2. TlsFirst(s)
  <2> SUFFICES ASSUME NEW k \in DOMAIN s, Tls(s[k]), NEW j \in 1..k PROVE Tls(s[j])
    BY DEF TlsFirst
  <2>1. j \in DOMAIN s /\ (j = k \/ (j < Len(s) /\ j <= k))
    BY <1>1
  <2>2. Len(TlsPart(f)) \in Nat
    BY PartsTyped
  <2>3. QED BY <1>1, <2>1, <2>2, AnnouncedTls
<1>3. ASSUME NEW x \in Names PROVE Num(s, ConfigTo(f, x)) <= Due(f, x)
  <2> DEFINE At == {k \in DOMAIN s : s[k] \in ConfigTo(f, x)}
             o == Offset(f, x)
             g == [k \in At |-> k - o]
  <2>1. ASSUME NEW k \in At PROVE ConfigFor(s[k], x)
    BY DEF ConfigTo, ConfigFor
  <2>2. ASSUME NEW k \in At PROVE k - o \in Entries(f, x) /\ (x \in Listeners \/ f.missing = "none") /\ o \in Nat
    BY <2>1, AnnouncedFor
  <2>3. IsFiniteSet(Entries(f, x)) /\ Cardinality(Entries(f, x)) \in Nat
    BY FileFacts
  <2>4. CASE f.missing # "none" /\ x \in Clusters
    <3>1. At = {}
      BY <2>2, <2>4, NameAssumption
    <3>2. QED BY <3>1, <2>4, FS_EmptySet DEF Num, Due
  <2>5. CASE ~(f.missing # "none" /\ x \in Clusters)
    <3>1. g \in Injection(At, Entries(f, x))
      <4>1. \A k \in At : k \in Nat
        BY <1>1
      <4>2. QED BY <2>2, <4>1 DEF Injection, IsInjective
    <3>2. Cardinality(At) <= Cardinality(Entries(f, x))
      <4> HIDE DEF At, g
      <4>1. QED BY <3>1, <2>3, FS_Injection
    <3>3. QED BY <3>2, <2>5 DEF Num, Due
  <2>6. QED BY <2>4, <2>5
<1>4. QED BY <1>2, <1>3

LEMMA AnnouncedFirst ==
  ASSUME file \in Files, NEW x \in Names
  PROVE  LeadsWith(Announced(file), x, First(x))
<1> DEFINE s == Announced(file)
           o == Offset(file, x)
<1> SUFFICES ASSUME NEW k \in DOMAIN s, ConfigFor(s[k], x), \A j \in 1..(k - 1) : ~ConfigFor(s[j], x)
             PROVE  s[k].config = First(x)
  BY DEF LeadsWith
<1>1. Len(s) \in Nat /\ DOMAIN s = 1..Len(s)
  BY AnnouncedAt
<1>2. k - o \in Entries(file, x) /\ s[k].config = Section(file, x)[k - o] /\ o \in Nat
  BY AnnouncedFor
<1>3. ASSUME NEW i \in 1..(k - o - 1), i \in Entries(file, x) PROVE FALSE
  <2>1. i + o \in DOMAIN s /\ i + o < Len(s) /\ i + o \in 1..(k - 1) /\ (i + o) - o = i
    BY <1>1, <1>2
  <2>2. ConfigFor(s[i + o], x)
    BY <2>1, <1>3, AnnouncedFor
  <2>3. QED BY <2>1, <2>2
<1>4. QED BY <1>2, <1>3, FirstIs

LEMMA NotRequested ==
  ASSUME NEW f, NEW s \in Seq(ToAnnounce(f)), NEW c
  PROVE  Num(s, {RequestOf(c)}) = 0
<1>1. \A i \in DOMAIN s : s[i] \in ToAnnounce(f)
  OBVIOUS
<1>2. RequestOf(c) \notin ToAnnounce(f)
  <2>1. \A e \in TlsOf(f) : e.type = "tls"
    BY DEF TlsOf
  <2>2. \A x \in Names : \A e \in ConfigTo(f, x) : e.type = "config"
    BY DEF ConfigTo
  <2>3. RequestOf(c).type = "request"
    BY DEF RequestOf
  <2>4. QED BY <2>1, <2>2, <2>3 DEF ToAnnounce
<1>3. QED BY <1>1, <1>2, NumNone

LEMMA StartInit == Init => StartIInv
<1> SUFFICES ASSUME Init PROVE StartIInv
  OBVIOUS
<1>1. file \in Files /\ toLoad = Announced(file) /\ known = {}
  BY DEF Init
<1>2. Typed
  <2>1. toLoad \in Seq(ToAnnounce(file))
    BY <1>1, AnnouncedAt
  <2>2. QED BY <1>1, <2>1, CapAssumption DEF Init, Typed, Cap
<1>3. Ordered
  <2>1. TlsFirst(toLoad) /\ \A x \in Names : LeadsWith(toLoad, x, First(x))
    BY <1>1, AnnouncedOrder, AnnouncedFirst
  <2>2. \A m \in Managers : inbox[m] = <<>>
    BY DEF Init
  <2>3. TlsFirst(<<>>) /\ \A x \in Names : LeadsWith(<<>>, x, First(x))
    BY DEF TlsFirst, LeadsWith
  <2>4. \A x \in Names : MgrOf(x) \in Managers /\ "listener" \in Managers
    BY DEF MgrOf, Managers
  <2>5. QED BY <1>1, <2>1, <2>2, <2>3, <2>4 DEF Ordered, Managers
<1>4. Tasks /\ Waiting
  <2>1. requests \in Seq(known) /\ Len(requests) <= ConfigCap /\ DOMAIN requests = {}
    BY CapAssumption DEF Init
  <2>2. QED BY <1>1, <2>1 DEF Init, Tasks, Waiting
<1>5. Counted
  <2>1. ASSUME NEW x \in Names, NEW T PROVE OnTheWay(T, x) = Num(toLoad, T)
    <3>1. /\ inbox[MgrOf(x)] = <<>> /\ hand[MgrOf(x)] = <<>> /\ updates[x] = <<>>
          /\ x \in Clusters => passing[x] = <<>> /\ queue[x] = <<>> /\ busy[x] = <<>>
      BY DEF Init, MgrOf, Managers
    <3>2. Num(toLoad, T) \in Nat
      BY <1>2, NumNat DEF Typed
    <3>3. QED BY <3>1, <3>2, NumEmpty DEF OnTheWay, Behind
  <2>2. ASSUME NEW x \in Names PROVE OnTheWay(ConfigTo(file, x), x) + (IF x \in known THEN 1 ELSE 0) <= Due(file, x)
    <3>1. OnTheWay(ConfigTo(file, x), x) = Num(toLoad, ConfigTo(file, x)) /\ Num(toLoad, ConfigTo(file, x)) \in Nat
      BY <2>1, <1>2, NumNat DEF Typed
    <3>2. QED BY <3>1, <1>1, AnnouncedOrder
  <2>3. ASSUME NEW c \in Connections PROVE OnTheWay({RequestOf(c)}, For[c]) = 0
    <3>1. For[c] \in Names
      BY ConnectionAssumption DEF Names
    <3>2. OnTheWay({RequestOf(c)}, For[c]) = Num(toLoad, {RequestOf(c)})
      BY <3>1, <2>1
    <3>3. toLoad \in Seq(ToAnnounce(file))
      BY <1>2 DEF Typed
    <3>4. QED BY <3>2, <3>3, NotRequested
  <2>4. \A c \in Connections : conn[c] = "out"
    BY DEF Init
  <2>5. QED BY <2>2, <2>3, <2>4 DEF Counted, ListedFor
<1>6. Accepting
  BY DEF Init, Accepting, CancelledByRepeats
<1>7. QED BY <1>2, <1>3, <1>4, <1>5, <1>6 DEF StartIInv
-------------------------------------------------------------------------------
\* What a message is, by the place where it is found.
LEMMA MessageIs ==
  ASSUME NEW f, NEW x \in Names, NEW e \in MessageTo(f, x)
  PROVE  /\ e.to = x /\ ~Tls(e) /\ e.type \in {"config", "request"}
         /\ e.type = "config" => e \in ConfigTo(f, x) /\ ConfigFor(e, x)
         /\ e.type = "request" => /\ e.config \in Connections /\ For[e.config] = x /\ x \in Clusters
                                  /\ e = RequestOf(e.config)
<1>1. CASE e \in ConfigTo(f, x)
  BY <1>1 DEF ConfigTo, Tls, ConfigFor
<1>2. CASE \E c \in Connections : For[c] = x /\ e = RequestOf(c)
  BY <1>2, ConnectionAssumption DEF RequestOf, Tls
<1>3. QED BY <1>1, <1>2 DEF MessageTo

LEMMA InletIs ==
  ASSUME NEW f, NEW m \in Managers, NEW e \in InletOf(f, m)
  PROVE  \/ m = "listener" /\ e \in TlsOf(f) /\ Tls(e)
         \/ e.to \in Names /\ MgrOf(e.to) = m /\ e \in MessageTo(f, e.to)
<1>1. CASE m = "listener" /\ e \in TlsOf(f)
  BY <1>1 DEF TlsOf, Tls
<1>2. CASE m = "listener" /\ \E l \in Listeners : e \in ConfigTo(f, l)
  BY <1>2 DEF ConfigTo, MessageTo, Names, MgrOf
<1>3. CASE m = "cluster" /\ \E c \in Clusters : e \in MessageTo(f, c)
  <2>1. PICK c \in Clusters : e \in MessageTo(f, c)
    BY <1>3
  <2>2. c \in Names /\ c \notin Listeners
    BY NameAssumption DEF Names
  <2>3. e.to = c
    BY <2>1, <2>2, MessageIs
  <2>4. QED BY <1>3, <2>1, <2>2, <2>3 DEF MgrOf
<1>4. QED BY <1>1, <1>2, <1>3 DEF InletOf, Managers

LEMMA AnnouncedGoesTo ==
  ASSUME NEW f, NEW e \in ToAnnounce(f), e.type # "fails"
  PROVE  /\ ManagerOf(e) \in Managers /\ e \in InletOf(f, ManagerOf(e))
         /\ Tls(e) => ManagerOf(e) = "listener"
         /\ \A x \in Names : e \in MessageTo(f, x) => ManagerOf(e) = MgrOf(x)
<1>1. \A x \in Names : e \in MessageTo(f, x) => e.to = x /\ ~Tls(e)
  BY MessageIs
<1>2. \A x \in Names : e \in MessageTo(f, x) => ManagerOf(e) = MgrOf(x)
  BY <1>1 DEF ManagerOf, MgrOf, Tls
<1>3. CASE e \in TlsOf(f)
  BY <1>2, <1>3 DEF TlsOf, ManagerOf, InletOf, Managers, Tls
<1>4. CASE \E x \in Names : e \in ConfigTo(f, x)
  <2>1. PICK x \in Names : e \in ConfigTo(f, x)
    BY <1>4
  <2>2. e \in MessageTo(f, x) /\ ManagerOf(e) = MgrOf(x) /\ ~Tls(e)
    BY <2>1, <1>1, <1>2 DEF MessageTo
  <2>3. CASE x \in Listeners
    BY <1>2, <2>1, <2>2, <2>3 DEF MgrOf, Managers, InletOf
  <2>4. CASE x \in Clusters /\ x \notin Listeners
    BY <1>2, <2>2, <2>4 DEF MgrOf, Managers, InletOf
  <2>5. QED BY <2>3, <2>4 DEF Names
<1>5. QED BY <1>3, <1>4 DEF ToAnnounce

LEMMA EmptyToSeq == SetToSeq({}) = <<>>
<1>1. SetToSeq({}) \in Seq({}) /\ Len(SetToSeq({})) = 0
  BY SetToSeqIsSeq, FS_EmptySet
<1>2. QED BY <1>1

LEMMA EmptyFunction == ASSUME NEW g \in [1..0 -> {}] PROVE g = <<>>
<1>1. g \in Seq({}) /\ Len(g) = 0
  OBVIOUS
<1>2. QED BY <1>1

LEMMA Managing == \A x \in Names : MgrOf(x) \in Managers
BY DEF MgrOf, Managers

-------------------------------------------------------------------------------
\* The channels stay typed.
LEMMA TypedKept ==
  ASSUME Typed, UNCHANGED <<file, phase, known, toLoad, inbox, hand, updates, passing, queue, busy, locked>>
  PROVE  Typed' /\ file' = file
BY DEF Typed

LEMMA TypedConfig ==
  ASSUME Typed, ConfigStep
  PROVE  Typed' /\ file' = file
<1>1. CASE Load
  <2> DEFINE e == Head(toLoad)
             m == ManagerOf(e)
  <2>1. toLoad # <<>> /\ e \in ToAnnounce(file) /\ e.type # "fails" /\ toLoad' \in Seq(ToAnnounce(file))
    BY <1>1 DEF Load, Typed
  <2>2. m \in Managers /\ e \in InletOf(file, m)
    BY <2>1, AnnouncedGoesTo
  <2>3. Len(inbox[m]) < ManagerCap /\ inbox' = [inbox EXCEPT ![m] = Append(@, e)]
    BY <1>1 DEF Load
  <2>4. inbox[m] \in Seq(InletOf(file, m)) /\ DOMAIN inbox = Managers
    BY <2>2 DEF Typed
  <2>5. Append(inbox[m], e) \in Seq(InletOf(file, m)) /\ Len(Append(inbox[m], e)) <= ManagerCap
    BY <2>2, <2>3, <2>4, CapAssumption
  <2>6. DOMAIN inbox' = Managers /\ \A k \in Managers : inbox'[k] \in Seq(InletOf(file, k)) /\ Len(inbox'[k]) <= ManagerCap
    <3> HIDE DEF m, e
    <3>1. QED BY <2>2, <2>3, <2>4, <2>5 DEF Typed
  <2>7. UNCHANGED <<file, phase, hand, known, updates, passing, queue, busy, locked>>
    BY <1>1 DEF Load, clusters, member
  <2>8. QED BY <2>1, <2>6, <2>7 DEF Typed
<1>2. CASE Loaded
  <2>1. phase' = "serving" /\ UNCHANGED <<file, known, toLoad, inbox, hand, updates, passing, queue, busy, locked>>
    BY <1>2 DEF Loaded, managers, clusters, member
  <2>2. QED BY <2>1 DEF Typed
<1>3. CASE LoadFails
  <2>1. phase' = "panicked" /\ UNCHANGED <<file, known, toLoad, inbox, hand, updates, passing, queue, busy, locked>>
    BY <1>3 DEF LoadFails, managers, clusters, member
  <2>2. QED BY <2>1 DEF Typed
<1>4. CASE Answer
  <2>1. UNCHANGED <<file, phase, known, toLoad, inbox, hand, updates, passing, queue, busy, locked>>
    BY <1>4 DEF Answer, managers, clusters, member, start
  <2>2. QED BY <2>1, TypedKept
<1>5. QED BY <1>1, <1>2, <1>3, <1>4 DEF ConfigStep

\* A manager only ever has one message to send on.
LEMMA TypedReceives ==
  ASSUME Typed, Ordered, NEW m \in Managers, ManagerReceives(m)
  PROVE  /\ Typed' /\ file' = file
         /\ Head(inbox[m]) \in InletOf(file, m)
         /\ Tls(Head(inbox[m])) => hand' = [hand EXCEPT ![m] = <<>>] /\ known \cap Listeners = {}
<1> DEFINE e == Head(inbox[m])
<1>1. /\ inbox[m] # <<>> /\ hand[m] = <<>> /\ inbox' = [inbox EXCEPT ![m] = Tail(@)]
      /\ UNCHANGED <<file, phase, toLoad, updates, passing, queue, busy, locked>>
  BY DEF ManagerReceives, start, clusters, member
<1>2. inbox[m] \in Seq(InletOf(file, m)) /\ Len(inbox[m]) <= ManagerCap /\ DOMAIN inbox = Managers
  BY DEF Typed
<1>3. e \in InletOf(file, m) /\ Tail(inbox[m]) \in Seq(InletOf(file, m)) /\ Len(Tail(inbox[m])) <= ManagerCap
  BY <1>1, <1>2, CapAssumption
<1>4. DOMAIN inbox' = Managers /\ \A k \in Managers : inbox'[k] \in Seq(InletOf(file, k)) /\ Len(inbox'[k]) <= ManagerCap
  BY <1>1, <1>2, <1>3 DEF Typed
<1>5. Tls(e) => m = "listener" /\ known \cap Listeners = {}
  BY <1>1, <1>3, InletIs, MessageIs DEF Ordered
<1>6. Tls(e) => hand' = [hand EXCEPT ![m] = <<>>] /\ UNCHANGED known
  <2> HAVE Tls(e)
  <2>1. e.type = "tls"
    BY DEF Tls
  <2>2. UNCHANGED known /\ hand' = [hand EXCEPT ![m] = [i \in DOMAIN SetToSeq(known \cap Listeners) |->
                      [e EXCEPT !.to = SetToSeq(known \cap Listeners)[i]]]]
    BY <2>1 DEF ManagerReceives
  <2>3. DOMAIN SetToSeq(known \cap Listeners) = {}
    <3>1. known \cap Listeners = {}
      BY <1>5
    <3>2. SetToSeq(known \cap Listeners) = <<>>
      BY <3>1, EmptyToSeq
    <3>3. DOMAIN <<>> = {}
      OBVIOUS
    <3>4. QED BY <3>2, <3>3
  <2>4. [i \in DOMAIN SetToSeq(known \cap Listeners) |-> [e EXCEPT !.to = SetToSeq(known \cap Listeners)[i]]] = <<>>
    <3> DEFINE G(i) == [e EXCEPT !.to = SetToSeq(known \cap Listeners)[i]]
    <3> HIDE DEF G
    <3>1. [i \in DOMAIN SetToSeq(known \cap Listeners) |-> G(i)] \in [1..0 -> {}]
      BY <2>3
    <3>2. [i \in DOMAIN SetToSeq(known \cap Listeners) |-> G(i)] = <<>>
      BY <3>1, EmptyFunction
    <3>3. QED BY <3>2 DEF G
  <2>5. QED BY <2>2, <2>4
<1>7. ~Tls(e) => /\ e.to \in Names /\ MgrOf(e.to) = m /\ e \in MessageTo(file, e.to)
                 /\ \/ e.to \in known /\ hand' = [hand EXCEPT ![m] = <<e>>] /\ UNCHANGED known
                    \/ UNCHANGED hand /\ known' = known \cup {e.to}
                    \/ UNCHANGED <<hand, known>>
  <2>1. ~Tls(e) => e.to \in Names /\ MgrOf(e.to) = m /\ e \in MessageTo(file, e.to)
    BY <1>3, InletIs
  <2>2. QED BY <2>1 DEF ManagerReceives, Spawned, Tls
<1> HIDE DEF e
<1>8. known \subseteq known' /\ known' \subseteq Names
  BY <1>6, <1>7 DEF Typed
<1>9. /\ DOMAIN hand' = Managers
      /\ \A k \in Managers : hand'[k] = <<>> \/ \E x \in known' : MgrOf(x) = k /\ \E d \in MessageTo(file, x) : hand'[k] = <<d>>
  <2>1. CASE Tls(e)
    <3>1. hand' = [hand EXCEPT ![m] = <<>>] /\ DOMAIN hand = Managers
      BY <2>1, <1>6 DEF Typed
    <3>2. DOMAIN hand' = Managers /\ \A k \in Managers : hand'[k] = hand[k] \/ hand'[k] = <<>>
      BY <3>1
    <3>3. ASSUME NEW k \in Managers, hand[k] # <<>>
          PROVE  \E x \in known' : MgrOf(x) = k /\ \E d \in MessageTo(file, x) : hand[k] = <<d>>
      BY <3>3, <1>8 DEF Typed
    <3>4. QED BY <3>2, <3>3
  <2>2. CASE ~Tls(e) /\ e.to \in known /\ hand' = [hand EXCEPT ![m] = <<e>>]
    <3>1. ASSUME NEW k \in Managers, k # m
          PROVE  hand'[k] = <<>> \/ \E x \in known' : MgrOf(x) = k /\ \E d \in MessageTo(file, x) : hand'[k] = <<d>>
      BY <3>1, <2>2, <1>8 DEF Typed
    <3>2. hand'[m] = <<e>> /\ e.to \in known' /\ MgrOf(e.to) = m /\ e \in MessageTo(file, e.to)
      BY <2>2, <1>7, <1>8 DEF Typed
    <3>3. DOMAIN hand' = Managers
      BY <2>2 DEF Typed
    <3>4. QED BY <3>1, <3>2, <3>3
  <2>3. CASE UNCHANGED hand
    BY <2>3, <1>8 DEF Typed
  <2>4. QED BY <2>1, <2>2, <2>3, <1>7
<1>10. \A x \in Names \ known' : updates'[x] = <<>> /\ (x \in Clusters => passing'[x] = <<>> /\ queue'[x] = <<>> /\ busy'[x] = <<>>)
  BY <1>1, <1>8 DEF Typed
<1>11. Typed'
  BY <1>1, <1>4, <1>8, <1>9, <1>10 DEF Typed
<1>12. QED BY <1>1, <1>3, <1>5, <1>6, <1>11 DEF e

LEMMA HandIs ==
  ASSUME Typed, NEW m \in Managers, hand[m] # <<>>
  PROVE  /\ Head(hand[m]).to \in known /\ MgrOf(Head(hand[m]).to) = m
         /\ Head(hand[m]) \in MessageTo(file, Head(hand[m]).to)
         /\ hand[m] = <<Head(hand[m])>> /\ Tail(hand[m]) = <<>>
<1>1. PICK x \in known : MgrOf(x) = m /\ \E e \in MessageTo(file, x) : hand[m] = <<e>>
  BY DEF Typed
<1>2. PICK e \in MessageTo(file, x) : hand[m] = <<e>>
  BY <1>1
<1>3. x \in Names
  BY DEF Typed
<1>4. e.to = x
  BY <1>3, MessageIs
<1>5. Head(hand[m]) = e /\ Tail(hand[m]) = <<>>
  BY <1>2
<1>6. QED BY <1>1, <1>2, <1>4, <1>5

\* Sending on: the updates of one name grow by one, or are lost.
LEMMA TypedSends ==
  ASSUME Typed, NEW m \in Managers, ManagerSends(m)
  PROVE  Typed' /\ file' = file
<1> DEFINE e == Head(hand[m])
<1>1. e.to \in known /\ e.to \in Names /\ e \in MessageTo(file, e.to) /\ Tail(hand[m]) = <<>>
  BY HandIs DEF ManagerSends, Typed
<1>2. hand' = [hand EXCEPT ![m] = <<>>] /\ UNCHANGED <<file, phase, known, toLoad, inbox, passing, queue, busy, locked>>
  BY <1>1 DEF ManagerSends, clusters, member, start
<1>3. UNCHANGED updates \/ (Len(updates[e.to]) < Cap /\ updates' = [updates EXCEPT ![e.to] = Append(@, e)])
  BY DEF ManagerSends
<1> HIDE DEF e
<1>4. Len(updates[e.to]) < Cap => Append(updates[e.to], e) \in Seq(MessageTo(file, e.to)) /\ Len(Append(updates[e.to], e)) <= Cap
  <2>1. updates[e.to] \in Seq(MessageTo(file, e.to))
    BY <1>1 DEF Typed
  <2>2. QED BY <1>1, <2>1 DEF Cap
<1>5. /\ DOMAIN updates' = Names
      /\ \A x \in Names : updates'[x] \in Seq(MessageTo(file, x)) /\ Len(updates'[x]) <= Cap
      /\ \A x \in Names \ known : updates'[x] = updates[x]
  BY <1>1, <1>3, <1>4 DEF Typed
<1>6. DOMAIN hand' = Managers /\ \A k \in Managers : hand'[k] = hand[k] \/ hand'[k] = <<>>
  BY <1>2 DEF Typed
<1>7. \A k \in Managers : hand'[k] = <<>> \/ \E x \in known : MgrOf(x) = k /\ \E d \in MessageTo(file, x) : hand'[k] = <<d>>
  <2>1. \A k \in Managers : hand[k] = <<>> \/ \E x \in known : MgrOf(x) = k /\ \E d \in MessageTo(file, x) : hand[k] = <<d>>
    BY DEF Typed
  <2>2. QED BY <1>6, <2>1
<1>8. \A x \in Names \ known : updates'[x] = <<>> /\ (x \in Clusters => passing[x] = <<>> /\ queue[x] = <<>> /\ busy[x] = <<>>)
  BY <1>5 DEF Typed
<1>9. QED BY <1>2, <1>5, <1>6, <1>7, <1>8 DEF Typed

\* A worker drops its updates or takes one.
LEMMA TypedListener ==
  ASSUME Typed, NEW l \in Listeners, Bind(l) \/ Ask(l) \/ Ready(l) \/ UpdateListener(l) \/ HandshakeEnds(l)
  PROVE  Typed' /\ file' = file
<1>1. l \in Names /\ updates[l] \in Seq(MessageTo(file, l)) /\ Len(updates[l]) <= Cap /\ DOMAIN updates = Names
  BY DEF Names, Typed
<1>2. UNCHANGED <<file, phase, known, toLoad, inbox, hand, passing, queue, busy, locked>>
  BY DEF Bind, Ask, Ready, UpdateListener, HandshakeEnds, clusters, member, start, managers
<1>3. \/ UNCHANGED updates
      \/ updates' = [updates EXCEPT ![l] = <<>>]
      \/ updates[l] # <<>> /\ updates' = [updates EXCEPT ![l] = Tail(@)]
  BY DEF Bind, Ask, Ready, UpdateListener, HandshakeEnds
<1>4. updates[l] # <<>> => Tail(updates[l]) \in Seq(MessageTo(file, l)) /\ Len(Tail(updates[l])) <= Cap
  BY <1>1 DEF Cap
<1>5. /\ DOMAIN updates' = Names
      /\ \A x \in Names : updates'[x] \in Seq(MessageTo(file, x)) /\ Len(updates'[x]) <= Cap
      /\ \A x \in Names \ known : updates[x] = <<>> => updates'[x] = <<>>
  <2>1. CASE UNCHANGED updates
    BY <2>1 DEF Typed
  <2>2. CASE updates' = [updates EXCEPT ![l] = <<>>]
    <3>1. <<>> \in Seq(MessageTo(file, l)) /\ Len(<<>>) <= Cap
      BY DEF Cap
    <3>2. QED BY <1>1, <2>2, <3>1 DEF Typed
  <2>3. CASE updates[l] # <<>> /\ updates' = [updates EXCEPT ![l] = Tail(@)]
    BY <1>1, <1>4, <2>3 DEF Typed
  <2>4. QED BY <1>3, <2>1, <2>2, <2>3
<1>6. QED BY <1>2, <1>5 DEF Typed

LEMMA TypedCluster ==
  ASSUME Typed, NEW c \in Clusters, ClusterStep(c) \/ MemberStep(c) \/ MemberEnds(c)
  PROVE  Typed' /\ file' = file
<1>1. /\ c \in Names /\ updates[c] \in Seq(MessageTo(file, c)) /\ Len(updates[c]) <= Cap /\ DOMAIN updates = Names
      /\ queue[c] \in Seq(MessageTo(file, c)) /\ Len(queue[c]) <= Cap /\ DOMAIN queue = Clusters
      /\ DOMAIN passing = Clusters /\ DOMAIN busy = Clusters
  BY DEF Names, Typed
<1>2. CASE ClusterReceives(c)
  <2> DEFINE e == Head(updates[c])
  <2>1. /\ c \in known /\ updates[c] # <<>> /\ passing[c] = <<>> /\ updates' = [updates EXCEPT ![c] = Tail(@)]
        /\ \/ passing' = [passing EXCEPT ![c] = <<e>>]
           \/ passing' = [passing EXCEPT ![c] = <<>>]
           \/ UNCHANGED passing
        /\ UNCHANGED <<file, phase, known, toLoad, inbox, hand, queue, busy, locked>>
    BY <1>2 DEF ClusterReceives, start, managers, member
  <2>2. e \in MessageTo(file, c) /\ Tail(updates[c]) \in Seq(MessageTo(file, c)) /\ Len(Tail(updates[c])) <= Cap
    BY <1>1, <2>1 DEF Cap
  <2> HIDE DEF e
  <2>3. /\ DOMAIN updates' = Names
        /\ \A x \in Names : updates'[x] \in Seq(MessageTo(file, x)) /\ Len(updates'[x]) <= Cap
        /\ \A x \in Names \ known : updates'[x] = updates[x]
    BY <1>1, <2>1, <2>2 DEF Typed
  <2>4. /\ DOMAIN passing' = Clusters
        /\ \A d \in Clusters : passing'[d] = <<>> \/ \E g \in MessageTo(file, d) : passing'[d] = <<g>>
        /\ \A x \in Clusters \ known : passing'[x] = passing[x]
    BY <1>1, <2>1, <2>2 DEF Typed
  <2>5. QED BY <2>1, <2>3, <2>4 DEF Typed
<1>3. CASE ClusterSends(c)
  <2>1. /\ passing[c] # <<>> /\ Len(queue[c]) < Cap /\ queue' = [queue EXCEPT ![c] = @ \o passing[c]]
        /\ passing' = [passing EXCEPT ![c] = <<>>]
        /\ UNCHANGED <<file, phase, known, toLoad, inbox, hand, updates, busy, locked>>
    BY <1>3 DEF ClusterSends, start, managers, member
  <2>2. PICK e \in MessageTo(file, c) : passing[c] = <<e>>
    BY <2>1 DEF Typed
  <2>3. c \in known
    BY <1>1, <2>1 DEF Typed
  <2>4. queue[c] = <<>> /\ queue[c] \o passing[c] = <<e>> /\ Len(<<e>>) <= Cap /\ <<e>> \in Seq(MessageTo(file, c))
    <3>1. queue[c] = <<>>
      BY <1>1, <2>1 DEF Cap
    <3>2. <<>> \o <<e>> = <<e>> /\ Len(<<e>>) = 1
      OBVIOUS
    <3>3. QED BY <3>1, <3>2, <2>2 DEF Cap
  <2>5. /\ DOMAIN queue' = Clusters
        /\ \A d \in Clusters : queue'[d] \in Seq(MessageTo(file, d)) /\ Len(queue'[d]) <= Cap
        /\ \A x \in Clusters \ known : queue'[x] = queue[x]
    BY <1>1, <2>1, <2>3, <2>4 DEF Typed
  <2>6. DOMAIN passing' = Clusters /\ \A d \in Clusters : passing'[d] = passing[d] \/ passing'[d] = <<>>
    BY <1>1, <2>1
  <2>7. QED BY <2>1, <2>5, <2>6 DEF Typed
<1>4. CASE MemberReceives(c)
  <2> DEFINE e == Head(queue[c])
  <2>1. /\ queue[c] # <<>> /\ queue' = [queue EXCEPT ![c] = Tail(@)] /\ busy' = [busy EXCEPT ![c] = <<e>>]
        /\ UNCHANGED <<file, phase, known, toLoad, inbox, hand, updates, passing, locked>>
    BY <1>4 DEF MemberReceives, start, managers
  <2>2. e \in MessageTo(file, c) /\ Tail(queue[c]) \in Seq(MessageTo(file, c)) /\ Len(Tail(queue[c])) <= Cap
    BY <1>1, <2>1 DEF Cap
  <2>3. c \in known
    BY <1>1, <2>1 DEF Typed
  <2> HIDE DEF e
  <2>4. /\ DOMAIN queue' = Clusters
        /\ \A d \in Clusters : queue'[d] \in Seq(MessageTo(file, d)) /\ Len(queue'[d]) <= Cap
        /\ \A x \in Clusters \ known : queue'[x] = queue[x]
    BY <1>1, <2>1, <2>2, <2>3 DEF Typed
  <2>5. /\ DOMAIN busy' = Clusters
        /\ \A d \in Clusters : busy'[d] = <<>> \/ \E g \in MessageTo(file, d) : busy'[d] = <<g>>
        /\ \A d \in Clusters : busy[d] # <<>> => busy'[d] # <<>>
        /\ \A x \in Clusters \ known : busy'[x] = busy[x]
    BY <1>1, <2>1, <2>2, <2>3 DEF Typed
  <2>6. QED BY <2>1, <2>4, <2>5 DEF Typed
<1>5. CASE Ask(c) \/ Ready(c)
  <2>1. UNCHANGED <<file, phase, known, toLoad, inbox, hand, updates, passing, queue, busy, locked>>
    BY <1>5 DEF Ask, Ready, clusters, member, start, managers
  <2>2. QED BY <2>1, TypedKept
<1>6. CASE MemberEnds(c)
  <2>1. /\ locked[c] = "no" /\ busy' = [busy EXCEPT ![c] = <<>>]
        /\ UNCHANGED <<file, phase, known, toLoad, inbox, hand, updates, passing, queue, locked>>
    BY <1>6 DEF MemberEnds, start, managers
  <2>2. DOMAIN busy' = Clusters /\ busy'[c] = <<>> /\ \A d \in Clusters : d # c => busy'[d] = busy[d]
    BY <1>1, <2>1
  <2>3. QED BY <2>1, <2>2 DEF Typed
<1>7. CASE LocksUp(c)
  <2>1. /\ busy[c] # <<>>
        /\ UNCHANGED <<file, phase, known, toLoad, inbox, hand, updates, passing, queue, busy>>
    BY <1>7 DEF LocksUp, start, managers
  <2>2. PICK how \in {"yes", "holding"} : locked' = [locked EXCEPT ![c] = how]
    BY <1>7 DEF LocksUp
  <2>3. /\ locked' \in [Clusters -> {"no", "yes", "holding"}]
        /\ \A d \in Clusters : locked'[d] # "no" => busy[d] # <<>>
    BY <2>1, <2>2 DEF Typed
  <2>4. QED BY <2>1, <2>3 DEF Typed
<1>8. QED BY <1>2, <1>3, <1>4, <1>5, <1>6, <1>7 DEF ClusterStep, MemberStep

LEMMA TypedConnection ==
  ASSUME Typed, NEW c \in Connections, Connect(c) \/ SendRequest(c) \/ \E l \in Listeners : Accept(l, c)
  PROVE  Typed' /\ file' = file
<1>1. CASE SendRequest(c)
  <2> DEFINE e == [type |-> "request", to |-> For[c], config |-> c]
             m == "cluster"
  <2>1. /\ Len(inbox[m]) < ManagerCap /\ inbox' = [inbox EXCEPT ![m] = Append(@, e)]
        /\ UNCHANGED <<file, phase, known, toLoad, hand, updates, passing, queue, busy, locked>>
    BY <1>1 DEF SendRequest, start, clusters, member
  <2>2. m \in Managers /\ e \in InletOf(file, m)
    BY ConnectionAssumption DEF Managers, InletOf, MessageTo, RequestOf
  <2>3. inbox[m] \in Seq(InletOf(file, m)) /\ DOMAIN inbox = Managers
    BY <2>2 DEF Typed
  <2>4. Append(inbox[m], e) \in Seq(InletOf(file, m)) /\ Len(Append(inbox[m], e)) <= ManagerCap
    BY <2>1, <2>2, <2>3, CapAssumption
  <2> HIDE DEF e, m
  <2>5. DOMAIN inbox' = Managers /\ \A k \in Managers : inbox'[k] \in Seq(InletOf(file, k)) /\ Len(inbox'[k]) <= ManagerCap
    BY <2>1, <2>2, <2>3, <2>4 DEF Typed
  <2>6. QED BY <2>1, <2>5 DEF Typed
<1>2. CASE Connect(c) \/ \E l \in Listeners : Accept(l, c)
  <2>1. UNCHANGED <<file, phase, known, toLoad, inbox, hand, updates, passing, queue, busy, locked>>
    BY <1>2 DEF Connect, Accept, start, managers, clusters, member
  <2>2. QED BY <2>1, TypedKept
<1>3. QED BY <1>1, <1>2
-------------------------------------------------------------------------------
\* How the order of a channel survives.
LEMMA TailKeepsOrder ==
  ASSUME NEW S, NEW s \in Seq(S), s # <<>>
  PROVE  /\ TlsFirst(s) => TlsFirst(Tail(s)) /\ (Tail(s) # <<>> /\ Tls(Head(Tail(s))) => Tls(Head(s)))
         /\ (\A k \in DOMAIN s : Tls(s[k])) => \A k \in DOMAIN Tail(s) : Tls(Tail(s)[k])
<1>1. /\ Len(s) \in Nat \ {0} /\ Tail(s) \in Seq(S) /\ DOMAIN Tail(s) = 1..(Len(s) - 1)
      /\ \A i \in DOMAIN Tail(s) : Tail(s)[i] = s[i + 1] /\ i + 1 \in DOMAIN s
      /\ DOMAIN s = 1..Len(s) /\ Head(s) = s[1]
  OBVIOUS
<1>2. ASSUME TlsFirst(s) PROVE TlsFirst(Tail(s))
  <2> SUFFICES ASSUME NEW k \in DOMAIN Tail(s), Tls(Tail(s)[k]), NEW j \in 1..k PROVE Tls(Tail(s)[j])
    BY DEF TlsFirst
  <2>1. k + 1 \in DOMAIN s /\ Tls(s[k + 1]) /\ j + 1 \in 1..(k + 1) /\ j \in DOMAIN Tail(s)
    BY <1>1
  <2>2. Tls(s[j + 1])
    BY <1>2, <2>1 DEF TlsFirst
  <2>3. QED BY <1>1, <2>1, <2>2
<1>3. ASSUME TlsFirst(s), Tail(s) # <<>>, Tls(Head(Tail(s))) PROVE Tls(Head(s))
  <2>1. 2 \in DOMAIN s /\ Tls(s[2])
    BY <1>1, <1>3
  <2>2. QED BY <1>1, <1>3, <2>1 DEF TlsFirst
<1>4. QED BY <1>1, <1>2, <1>3

LEMMA AppendKeepsOrder ==
  ASSUME NEW S, NEW s \in Seq(S), NEW e \in S
  PROVE  /\ TlsFirst(s) /\ (Tls(e) => \A k \in DOMAIN s : Tls(s[k])) => TlsFirst(Append(s, e))
         /\ (\A k \in DOMAIN s : Tls(s[k])) /\ Tls(e) => \A k \in DOMAIN Append(s, e) : Tls(Append(s, e)[k])
         /\ s # <<>> => Head(Append(s, e)) = Head(s)
         /\ s = <<>> => Head(Append(s, e)) = e
<1> DEFINE r == Append(s, e)
<1>1. /\ Len(s) \in Nat /\ DOMAIN s = 1..Len(s) /\ DOMAIN r = 1..(Len(s) + 1)
      /\ \A i \in DOMAIN s : r[i] = s[i]
      /\ r[Len(s) + 1] = e
      /\ s # <<>> => Head(r) = Head(s)
      /\ s = <<>> => Head(r) = e
  OBVIOUS
<1> HIDE DEF r
<1>2. ASSUME \A k \in DOMAIN s : Tls(s[k]), Tls(e) PROVE \A k \in DOMAIN r : Tls(r[k])
  BY <1>1, <1>2
<1>3. ASSUME TlsFirst(s), Tls(e) => \A k \in DOMAIN s : Tls(s[k]) PROVE TlsFirst(r)
  <2> SUFFICES ASSUME NEW k \in DOMAIN r, Tls(r[k]), NEW j \in 1..k PROVE Tls(r[j])
    BY DEF TlsFirst
  <2>1. CASE k = Len(s) + 1
    BY <1>1, <1>2, <1>3, <2>1
  <2>2. CASE k \in DOMAIN s
    <3>1. j \in DOMAIN s /\ Tls(s[k])
      BY <1>1, <2>2
    <3>2. QED BY <1>1, <1>3, <2>2, <3>1 DEF TlsFirst
  <2>3. QED BY <1>1, <2>1, <2>2
<1>4. QED BY <1>1, <1>2, <1>3 DEF r

LEMMA TailKeepsLead ==
  ASSUME NEW S, NEW s \in Seq(S), s # <<>>, NEW x, NEW c, ~ConfigFor(Head(s), x)
  PROVE  /\ LeadsWith(s, x, c) => LeadsWith(Tail(s), x, c)
         /\ NoneFor(Tail(s), x) => NoneFor(s, x)
<1>1. /\ Len(s) \in Nat \ {0} /\ Tail(s) \in Seq(S) /\ DOMAIN Tail(s) = 1..(Len(s) - 1)
      /\ \A i \in DOMAIN Tail(s) : Tail(s)[i] = s[i + 1] /\ i + 1 \in DOMAIN s
      /\ DOMAIN s = 1..Len(s) /\ Head(s) = s[1]
  OBVIOUS
<1>2. ASSUME LeadsWith(s, x, c) PROVE LeadsWith(Tail(s), x, c)
  <2> SUFFICES ASSUME NEW k \in DOMAIN Tail(s), ConfigFor(Tail(s)[k], x), Tail(s)[k].config # c
               PROVE  \E j \in 1..(k - 1) : ConfigFor(Tail(s)[j], x)
    BY DEF LeadsWith
  <2>1. k + 1 \in DOMAIN s /\ ConfigFor(s[k + 1], x) /\ s[k + 1].config # c
    BY <1>1
  <2>2. PICK j \in 1..k : ConfigFor(s[j], x)
    BY <1>2, <2>1 DEF LeadsWith
  <2>3. j # 1
    BY <1>1, <2>2
  <2>4. j - 1 \in 1..(k - 1) /\ j - 1 \in DOMAIN Tail(s) /\ (j - 1) + 1 = j
    BY <1>1, <2>2, <2>3
  <2>5. ConfigFor(Tail(s)[j - 1], x)
    BY <1>1, <2>2, <2>4
  <2>6. QED BY <2>4, <2>5
<1>3. ASSUME NoneFor(Tail(s), x), NEW k \in DOMAIN s PROVE ~ConfigFor(s[k], x)
  <2>1. CASE k = 1
    BY <1>1, <2>1
  <2>2. CASE k # 1
    <3>1. k - 1 \in DOMAIN Tail(s) /\ (k - 1) + 1 = k
      BY <1>1, <2>2
    <3>2. QED BY <1>1, <1>3, <3>1 DEF NoneFor
  <2>3. QED BY <2>1, <2>2
<1>4. QED BY <1>2, <1>3 DEF NoneFor

LEMMA AppendKeepsLead ==
  ASSUME NEW S, NEW s \in Seq(S), NEW e \in S, NEW x, NEW c
  PROVE  /\ LeadsWith(s, x, c) /\ (NoneFor(s, x) /\ ConfigFor(e, x) => e.config = c) => LeadsWith(Append(s, e), x, c)
         /\ NoneFor(Append(s, e), x) => NoneFor(s, x) /\ ~ConfigFor(e, x)
<1> DEFINE r == Append(s, e)
<1>1. /\ Len(s) \in Nat /\ DOMAIN s = 1..Len(s) /\ DOMAIN r = 1..(Len(s) + 1)
      /\ \A i \in DOMAIN s : r[i] = s[i]
      /\ r[Len(s) + 1] = e
  OBVIOUS
<1> HIDE DEF r
<1>2. ASSUME LeadsWith(s, x, c), NoneFor(s, x) /\ ConfigFor(e, x) => e.config = c PROVE LeadsWith(r, x, c)
  <2> SUFFICES ASSUME NEW k \in DOMAIN r, ConfigFor(r[k], x), r[k].config # c
               PROVE  \E j \in 1..(k - 1) : ConfigFor(r[j], x)
    BY DEF LeadsWith
  <2>1. CASE k = Len(s) + 1
    <3>1. ~NoneFor(s, x)
      BY <1>1, <1>2, <2>1
    <3>2. PICK j \in DOMAIN s : ConfigFor(s[j], x)
      BY <3>1 DEF NoneFor
    <3>3. j \in 1..(k - 1) /\ ConfigFor(r[j], x)
      BY <1>1, <2>1, <3>2
    <3>4. QED BY <3>3
  <2>2. CASE k \in DOMAIN s
    <3>1. PICK j \in 1..(k - 1) : ConfigFor(s[j], x)
      BY <1>1, <1>2, <2>2 DEF LeadsWith
    <3>2. j \in DOMAIN s
      BY <1>1, <2>2
    <3>3. QED BY <1>1, <3>1, <3>2
  <2>3. QED BY <1>1, <2>1, <2>2
<1>3. ASSUME NoneFor(r, x) PROVE NoneFor(s, x) /\ ~ConfigFor(e, x)
  <2>1. Len(s) + 1 \in DOMAIN r /\ \A k \in DOMAIN s : k \in DOMAIN r
    BY <1>1
  <2>2. QED BY <1>1, <1>3, <2>1 DEF NoneFor
<1>4. QED BY <1>2, <1>3 DEF r

LEMMA FirstStays ==
  ASSUME file' = file, NEW x
  PROVE  First(x)' = First(x)
BY DEF First, Section, Entries

LEMMA OrderedKept ==
  ASSUME Ordered, UNCHANGED <<file, toLoad, inbox, known>>
  PROVE  Ordered'
<1>1. \A x : First(x)' = First(x)
  BY FirstStays
<1>2. QED BY <1>1 DEF Ordered

LEMMA OrderedLoad ==
  ASSUME Typed, Ordered, Load
  PROVE  Ordered'
<1> DEFINE e == Head(toLoad)
           m == ManagerOf(e)
           in == inbox["listener"]
           A == ToAnnounce(file)
<1>1. /\ toLoad # <<>> /\ e.type # "fails" /\ toLoad' = Tail(toLoad)
      /\ inbox' = [inbox EXCEPT ![m] = Append(@, e)] /\ UNCHANGED <<file, known>>
  BY DEF Load
<1>2. toLoad \in Seq(A) /\ e \in A /\ toLoad[1] = e /\ 1 \in DOMAIN toLoad
  BY <1>1 DEF Typed
<1>3. m \in Managers /\ e \in InletOf(file, m) /\ (Tls(e) => m = "listener")
  BY <1>1, <1>2, AnnouncedGoesTo
<1>4. DOMAIN inbox = Managers /\ \A k \in Managers : inbox[k] \in Seq(InletOf(file, k))
  BY DEF Typed
<1>5. /\ inbox'[m] = Append(inbox[m], e)
      /\ \A k \in Managers : k # m => inbox'[k] = inbox[k]
      /\ "listener" \in Managers
  BY <1>1, <1>3, <1>4 DEF Managers
<1> HIDE DEF m, e
<1>6. TlsFirst(toLoad') /\ (toLoad' # <<>> /\ Tls(Head(toLoad')) => Tls(e))
  BY <1>1, <1>2, TailKeepsOrder DEF Ordered, e
<1>7. TlsFirst(in) /\ (Tls(e) => (\A k \in DOMAIN in : Tls(in[k])) /\ known \cap Listeners = {})
  BY <1>1 DEF Ordered, e
<1>8. /\ TlsFirst(in')
      /\ Tls(e) => \A k \in DOMAIN in' : Tls(in'[k])
      /\ in' # <<>> /\ Tls(Head(in')) => known \cap Listeners = {}
  <2>1. CASE m = "listener"
    <3>1. in' = Append(in, e) /\ in \in Seq(InletOf(file, m)) /\ e \in InletOf(file, m)
      BY <2>1, <1>3, <1>4, <1>5
    <3>2. /\ TlsFirst(Append(in, e))
          /\ Tls(e) => \A k \in DOMAIN Append(in, e) : Tls(Append(in, e)[k])
          /\ in # <<>> => Head(Append(in, e)) = Head(in)
          /\ in = <<>> => Head(Append(in, e)) = e
      BY <3>1, <1>7, AppendKeepsOrder
    <3>3. in # <<>> /\ Tls(Head(in)) => known \cap Listeners = {}
      BY DEF Ordered
    <3>4. QED BY <3>1, <3>2, <3>3, <1>7
  <2>2. CASE m # "listener"
    BY <2>2, <1>3, <1>5, <1>7 DEF Ordered
  <2>3. QED BY <2>1, <2>2
<1>9. ASSUME NEW x \in Names \ known
      PROVE  /\ LeadsWith(inbox'[MgrOf(x)], x, First(x))
             /\ NoneFor(inbox'[MgrOf(x)], x) => LeadsWith(toLoad', x, First(x))
  <2> DEFINE i == inbox[MgrOf(x)]
  <2>1. /\ LeadsWith(i, x, First(x)) /\ (NoneFor(i, x) => LeadsWith(toLoad, x, First(x)))
        /\ MgrOf(x) \in Managers
    BY Managing DEF Ordered
  <2>2. NoneFor(i, x) /\ ConfigFor(e, x) => e.config = First(x)
    BY <2>1, <1>2 DEF LeadsWith
  <2>3. ~ConfigFor(e, x) => (LeadsWith(toLoad, x, First(x)) => LeadsWith(toLoad', x, First(x)))
    BY <1>1, <1>2, TailKeepsLead DEF e
  <2>4. CASE MgrOf(x) = m
    <3>1. inbox'[MgrOf(x)] = Append(i, e) /\ i \in Seq(InletOf(file, m)) /\ e \in InletOf(file, m)
      BY <2>4, <1>3, <1>4, <1>5
    <3>2. /\ LeadsWith(Append(i, e), x, First(x))
          /\ NoneFor(Append(i, e), x) => NoneFor(i, x) /\ ~ConfigFor(e, x)
      BY <3>1, <2>1, <2>2, AppendKeepsLead
    <3>3. QED BY <3>1, <3>2, <2>1, <2>3
  <2>5. CASE MgrOf(x) # m
    <3>1. inbox'[MgrOf(x)] = i
      BY <2>1, <2>5, <1>5
    <3>2. ~ConfigFor(e, x)
      <4>1. ConfigFor(e, x) => e.to = x /\ ManagerOf(e) = MgrOf(x)
        BY DEF ConfigFor, ManagerOf, MgrOf
      <4>2. QED BY <4>1, <2>5 DEF m
    <3>3. QED BY <3>1, <3>2, <2>1, <2>3
  <2>6. QED BY <2>4, <2>5
<1>10. \A x : First(x)' = First(x)
  BY <1>1, FirstStays
<1>11. QED BY <1>1, <1>6, <1>7, <1>8, <1>9, <1>10 DEF Ordered

LEMMA OrderedReceives ==
  ASSUME Typed, Ordered, NEW m \in Managers, ManagerReceives(m)
  PROVE  Ordered'
<1> DEFINE e == Head(inbox[m])
           in == inbox["listener"]
<1>1. inbox[m] # <<>> /\ inbox' = [inbox EXCEPT ![m] = Tail(@)] /\ UNCHANGED <<file, toLoad>>
  BY DEF ManagerReceives, start
<1>2. e \in InletOf(file, m) /\ (Tls(e) => known \cap Listeners = {})
  BY TypedReceives
<1>3. DOMAIN inbox = Managers /\ \A k \in Managers : inbox[k] \in Seq(InletOf(file, k))
  BY DEF Typed
<1>4. /\ inbox'[m] = Tail(inbox[m])
      /\ \A k \in Managers : k # m => inbox'[k] = inbox[k]
      /\ "listener" \in Managers
  BY <1>1, <1>3 DEF Managers
<1>5. \/ UNCHANGED known
      \/ ~Tls(e) /\ known' = known \cup {e.to} /\ e.to \notin known
  BY DEF ManagerReceives, Spawned, Tls
<1>6. ~Tls(e) => MgrOf(e.to) = m /\ e.to \in Names
  BY <1>2, InletIs
<1>7. ASSUME NEW x \in Names, ConfigFor(e, x) PROVE x \in known'
  BY <1>7 DEF ConfigFor, ManagerReceives, Spawned
<1> HIDE DEF e
<1>8. m = "cluster" => known' \cap Listeners = known \cap Listeners
  BY <1>5, <1>6 DEF MgrOf
<1>9. TlsFirst(in') /\ (in' # <<>> /\ Tls(Head(in')) => known' \cap Listeners = {})
  <2>1. CASE m = "listener"
    <3>1. in' = Tail(in) /\ in \in Seq(InletOf(file, m)) /\ in # <<>> /\ TlsFirst(in)
      BY <2>1, <1>1, <1>3, <1>4 DEF Ordered
    <3>2. TlsFirst(Tail(in)) /\ (Tail(in) # <<>> /\ Tls(Head(Tail(in))) => Tls(Head(in)))
      BY <3>1, TailKeepsOrder
    <3>3. QED BY <3>1, <3>2, <2>1, <1>2, <1>5 DEF e
  <2>2. CASE m # "listener"
    BY <2>2, <1>4, <1>8 DEF Ordered, Managers
  <2>3. QED BY <2>1, <2>2
<1>10. toLoad # <<>> /\ Tls(Head(toLoad)) => (\A k \in DOMAIN in' : Tls(in'[k])) /\ known' \cap Listeners = {}
  <2> HAVE toLoad # <<>> /\ Tls(Head(toLoad))
  <2>1. (\A k \in DOMAIN in : Tls(in[k])) /\ known \cap Listeners = {}
    BY DEF Ordered
  <2>2. CASE m = "listener"
    <3>1. in' = Tail(in) /\ in \in Seq(InletOf(file, m)) /\ in # <<>> /\ e = in[1] /\ 1 \in DOMAIN in
      BY <2>2, <1>1, <1>3, <1>4 DEF e
    <3>2. \A k \in DOMAIN Tail(in) : Tls(Tail(in)[k])
      BY <3>1, <2>1, TailKeepsOrder
    <3>3. QED BY <3>1, <3>2, <2>1, <1>5
  <2>3. CASE m # "listener"
    BY <2>1, <2>3, <1>4, <1>8 DEF Managers
  <2>4. QED BY <2>2, <2>3
<1>11. ASSUME NEW x \in Names \ known'
      PROVE  /\ LeadsWith(inbox'[MgrOf(x)], x, First(x))
             /\ NoneFor(inbox'[MgrOf(x)], x) => LeadsWith(toLoad, x, First(x))
  <2> DEFINE i == inbox[MgrOf(x)]
  <2>1. /\ LeadsWith(i, x, First(x)) /\ (NoneFor(i, x) => LeadsWith(toLoad, x, First(x)))
        /\ MgrOf(x) \in Managers
    BY <1>5, Managing DEF Ordered
  <2>2. CASE MgrOf(x) = m
    <3>1. inbox'[MgrOf(x)] = Tail(i) /\ i \in Seq(InletOf(file, m)) /\ i # <<>> /\ ~ConfigFor(Head(i), x)
      BY <2>2, <1>1, <1>3, <1>4, <1>7 DEF e
    <3>2. QED BY <3>1, <2>1, TailKeepsLead
  <2>3. CASE MgrOf(x) # m
    BY <2>1, <2>3, <1>4
  <2>4. QED BY <2>2, <2>3
<1>12. \A x : First(x)' = First(x)
  BY <1>1, FirstStays
<1>13. QED BY <1>1, <1>9, <1>10, <1>11, <1>12 DEF Ordered

LEMMA OrderedRequest ==
  ASSUME Typed, Ordered, NEW c \in Connections, SendRequest(c)
  PROVE  Ordered'
<1> DEFINE e == [type |-> "request", to |-> For[c], config |-> c]
           m == "cluster"
<1>1. inbox' = [inbox EXCEPT ![m] = Append(@, e)] /\ UNCHANGED <<file, toLoad, known>>
  BY DEF SendRequest, start
<1>2. m \in Managers /\ e \in InletOf(file, m) /\ inbox[m] \in Seq(InletOf(file, m)) /\ DOMAIN inbox = Managers
  BY ConnectionAssumption DEF Managers, InletOf, MessageTo, RequestOf, Typed
<1>3. \A x : ~ConfigFor(e, x)
  BY DEF ConfigFor
<1> HIDE DEF e
<1>4. inbox'[m] = Append(inbox[m], e) /\ inbox'["listener"] = inbox["listener"]
  BY <1>1, <1>2 DEF Managers
<1>5. ASSUME NEW x \in Names \ known
      PROVE  /\ LeadsWith(inbox'[MgrOf(x)], x, First(x))
             /\ NoneFor(inbox'[MgrOf(x)], x) => LeadsWith(toLoad, x, First(x))
  <2>1. /\ LeadsWith(inbox[MgrOf(x)], x, First(x))
        /\ NoneFor(inbox[MgrOf(x)], x) => LeadsWith(toLoad, x, First(x))
    BY DEF Ordered
  <2>2. CASE MgrOf(x) = m
    <3>1. LeadsWith(inbox[m], x, First(x)) => LeadsWith(Append(inbox[m], e), x, First(x))
      BY <1>2, <1>3, AppendKeepsLead
    <3>2. NoneFor(Append(inbox[m], e), x) => NoneFor(inbox[m], x)
      BY <1>2, AppendKeepsLead
    <3>3. QED BY <2>1, <2>2, <3>1, <3>2, <1>4
  <2>3. CASE MgrOf(x) # m
    BY <2>1, <2>3, <1>4 DEF MgrOf
  <2>4. QED BY <2>2, <2>3
<1>6. \A x : First(x)' = First(x)
  BY <1>1, FirstStays
<1>7. QED BY <1>1, <1>4, <1>5, <1>6 DEF Ordered
-------------------------------------------------------------------------------
\* How a task gets on with its TLS names.
LEMMA FileSays ==
  ASSUME file' = file, NEW x
  PROVE  First(x)' = First(x) /\ TlsNames(x)' = TlsNames(x) /\ \A n : Usable(n, x)' = Usable(n, x)
BY DEF First, Section, Entries, TlsNames, Usable

LEMMA AskingKept ==
  ASSUME file' = file, NEW x, Asking(x), wanted'[x] = wanted[x], got'[x] = got[x],
         phase = "panicked" => phase' = "panicked",
         stage'[x] = "waiting" => wanted[x] # <<>>, stage'[x] = "run" => wanted[x] = <<>>
  PROVE  Asking(x)'
<1>1. TlsNames(x)' = TlsNames(x) /\ \A n : Usable(n, x)' = Usable(n, x)
  BY FileSays
<1>2. got[x] = Nothing /\ AskedInVain(x) => AskedInVain(x)'
  BY <1>1 DEF AskedInVain, AskedFor
<1>3. Obtained(x) => Obtained(x)'
  BY <1>1 DEF Obtained
<1>4. QED BY <1>1, <1>2, <1>3 DEF Asking

LEMMA AskingRefused ==
  ASSUME file' = file, NEW x, Asking(x), wanted[x] # <<>>, wanted'[x] = Tail(wanted[x]), got'[x] = got[x],
         phase = "panicked" => phase' = "panicked", phase' = "panicked" \/ ~Usable(Head(wanted[x]), x),
         stage'[x] = "ask"
  PROVE  Asking(x)'
<1> DEFINE t == TlsNames(x)
           w == wanted[x]
           a == Len(t) - Len(w)
           v == Tail(w)
<1>1. TlsNames(x)' = t /\ \A n : Usable(n, x)' = Usable(n, x)
  BY FileSays
<1>2. t \in Seq(ToSet(t)) /\ w \in Seq(ToSet(t)) /\ w # <<>> /\ got[x] = Nothing /\ AskedInVain(x)
  BY DEF Asking
<1>3. /\ Len(w) <= Len(t) /\ \A k \in 1..Len(w) : w[k] = t[a + k]
      /\ phase = "panicked" \/ \A j \in 1..a : ~Usable(t[j], x)
  BY <1>2 DEF AskedInVain, AskedFor
<1>4. /\ v \in Seq(ToSet(t)) /\ Len(v) = Len(w) - 1 /\ Len(w) \in Nat \ {0} /\ Len(t) \in Nat /\ Len(v) \in Nat
      /\ \A k \in 1..Len(v) : v[k] = w[k + 1] /\ k + 1 \in 1..Len(w)
      /\ Head(w) = w[1]
  BY <1>2
<1> HIDE DEF v, w, t
<1>5. Len(t) - Len(v) = a + 1 /\ a \in Nat
  BY <1>3, <1>4
<1>6. \A k \in 1..Len(v) : v[k] = t[a + 1 + k]
  <2> TAKE k \in 1..Len(v)
  <2>1. a + (k + 1) = a + 1 + k
    BY <1>5
  <2>2. v[k] = t[a + (k + 1)]
    BY <1>3, <1>4
  <2>3. QED BY <2>1, <2>2
<1>7. phase' = "panicked" \/ \A j \in 1..(a + 1) : ~Usable(t[j], x)
  <2>1. Head(w) = t[a + 1]
    BY <1>3, <1>4
  <2>2. phase' = "panicked" \/ ~Usable(t[a + 1], x)
    BY <2>1 DEF w
  <2>3. \A j \in 1..(a + 1) : j \in 1..a \/ j = a + 1
    BY <1>5
  <2>4. QED BY <2>2, <2>3, <1>3
<1>8. wanted'[x] = v /\ Len(v) <= Len(t)
  BY <1>3, <1>4 DEF v, w
<1> HIDE DEF a
<1>9. AskedFor(x)' = a + 1
  BY <1>1, <1>5, <1>8 DEF AskedFor
<1>10. AskedInVain(x)'
  BY <1>1, <1>6, <1>7, <1>8, <1>9 DEF AskedInVain
<1>11. QED BY <1>1, <1>2, <1>4, <1>8, <1>10 DEF Asking

LEMMA AskingObtained ==
  ASSUME file' = file, file \in Files, NEW x, Asking(x), wanted[x] # <<>>, wanted'[x] = <<>>, phase # "panicked",
         Usable(Head(wanted[x]), x), got'[x] = Head(wanted[x]), stage'[x] = "ask"
  PROVE  Asking(x)'
<1> DEFINE t == TlsNames(x)
           w == wanted[x]
           a == Len(t) - Len(w)
<1>1. TlsNames(x)' = t /\ \A n : Usable(n, x)' = Usable(n, x)
  BY FileSays
<1>2. t \in Seq(ToSet(t)) /\ w \in Seq(ToSet(t)) /\ w # <<>> /\ AskedInVain(x)
  BY DEF Asking
<1>3. Len(w) <= Len(t) /\ (\A k \in 1..Len(w) : w[k] = t[a + k]) /\ \A j \in 1..a : ~Usable(t[j], x)
  BY <1>2 DEF AskedInVain, AskedFor
<1>4. Len(w) \in Nat \ {0} /\ Len(t) \in Nat /\ Head(w) = w[1] /\ DOMAIN t = 1..Len(t)
  BY <1>2
<1> HIDE DEF t, w
<1>5. a + 1 \in DOMAIN t /\ Head(w) = t[a + 1] /\ (a + 1) - 1 = a
  <2>1. a \in Nat /\ a + 1 <= Len(t) /\ 1 \in 1..Len(w)
    BY <1>3, <1>4
  <2>2. QED BY <2>1, <1>3, <1>4
<1>6. Usable(Head(w), x) /\ Head(w) # Nothing
  BY FileAssumption DEF Usable, w
<1> HIDE DEF a
<1>7. Obtained(x)'
  <2>1. got'[x] = t[a + 1] /\ Usable(got'[x], x) /\ \A j \in 1..((a + 1) - 1) : ~Usable(t[j], x)
    BY <1>3, <1>5, <1>6 DEF w
  <2>2. QED BY <2>1, <1>1, <1>5 DEF Obtained
<1>8. QED BY <1>1, <1>2, <1>6, <1>7 DEF Asking, w

LEMMA AskingSpawned ==
  ASSUME file' = file, file \in Files, NEW x \in Names, NEW i \in Entries(file, x), First(x) = Section(file, x)[i],
         wanted'[x] = First(x).tls, got'[x] = Nothing, stage'[x] \in {"bind", "ask"}
  PROVE  Asking(x)'
<1> DEFINE t == TlsNames(x)
<1>1. TlsNames(x)' = t /\ \A n : Usable(n, x)' = Usable(n, x)
  BY FileSays
<1>2. i \in DOMAIN Section(file, x)
  BY DEF Entries
<1>3. t \in Seq(ToSet(t))
  BY <1>2, FileFacts DEF TlsNames
<1>4. wanted'[x] = t /\ Len(t) \in Nat
  BY <1>3 DEF TlsNames
<1> HIDE DEF t
<1>5. AskedFor(x)' = 0
  BY <1>1, <1>4 DEF AskedFor
<1>6. AskedInVain(x)'
  BY <1>1, <1>4, <1>5 DEF AskedInVain
<1>7. QED BY <1>1, <1>3, <1>4, <1>6 DEF Asking

PhaseGoesOn == phase = "panicked" => phase' = "panicked"

\* The frame: nobody asks and nobody is answered.
LEMMA TasksKept ==
  ASSUME Tasks, UNCHANGED <<file, known, stage, wanted, got>>, PhaseGoesOn
  PROVE  Tasks'
<1>1. ASSUME NEW x \in known PROVE Asking(x)'
  <2>1. Asking(x)
    BY DEF Tasks
  <2>2. (stage[x] = "waiting" => wanted[x] # <<>>) /\ (stage[x] = "run" => wanted[x] = <<>>)
    BY <2>1 DEF Asking
  <2>3. QED BY <2>1, <2>2, AskingKept DEF PhaseGoesOn
<1>2. QED BY <1>1 DEF Tasks

LEMMA WaitingKept ==
  ASSUME Waiting, UNCHANGED <<known, requests>>, \A x \in known : stage[x] = "waiting" => stage'[x] = "waiting"
  PROVE  Waiting'
<1>1. \A i \in DOMAIN requests : requests[i] \in known
  BY DEF Waiting
<1>2. QED BY <1>1 DEF Waiting

LEMMA TasksRefused ==
  ASSUME Tasks, Typed, UNCHANGED <<file, known>>, PhaseGoesOn, NEW R \in SUBSET known, Refused(R),
         \A x \in R : wanted[x] # <<>> /\ (phase' = "panicked" \/ ~Usable(Head(wanted[x]), x))
  PROVE  Tasks'
<1>1. /\ DOMAIN stage = Names /\ DOMAIN wanted = Names /\ known \subseteq Names
      /\ stage' = [x \in Names |-> IF x \in R THEN "ask" ELSE stage[x]]
      /\ wanted' = [x \in Names |-> IF x \in R THEN Tail(wanted[x]) ELSE wanted[x]]
      /\ got' = got
  BY DEF Tasks, Typed, Refused
<1>2. ASSUME NEW x \in known PROVE stage'[x] # "none" /\ Asking(x)'
  <2>1. Asking(x) /\ stage[x] # "none" /\ x \in Names
    BY <1>1 DEF Tasks
  <2>2. CASE x \in R
    <3>1. stage'[x] = "ask" /\ wanted'[x] = Tail(wanted[x]) /\ got'[x] = got[x]
      BY <1>1, <2>1, <2>2
    <3>2. wanted[x] # <<>> /\ (phase' = "panicked" \/ ~Usable(Head(wanted[x]), x))
      BY <2>2
    <3>3. QED BY <2>1, <3>1, <3>2, AskingRefused DEF PhaseGoesOn
  <2>3. CASE x \notin R
    <3>1. stage'[x] = stage[x] /\ wanted'[x] = wanted[x] /\ got'[x] = got[x]
      BY <1>1, <2>1, <2>3
    <3>2. (stage[x] = "waiting" => wanted[x] # <<>>) /\ (stage[x] = "run" => wanted[x] = <<>>)
      BY <2>1 DEF Asking
    <3>3. QED BY <2>1, <3>1, <3>2, AskingKept DEF PhaseGoesOn
  <2>4. QED BY <2>2, <2>3
<1>3. \A x \in Names \ known : stage'[x] = "none" /\ got'[x] = Nothing
  BY <1>1 DEF Tasks
<1>4. stage' \in [Names -> {"none", "bind", "ask", "waiting", "run", "ended"}] /\ DOMAIN wanted' = Names /\ DOMAIN got' = Names
  BY <1>1 DEF Tasks
<1>5. QED BY <1>2, <1>3, <1>4 DEF Tasks

\* One task moves on and its names stay.
LEMMA TasksMove ==
  ASSUME Tasks, Typed, UNCHANGED <<file, phase, known, wanted, got>>, NEW x \in known,
         NEW v \in {"ask", "waiting", "run", "ended"}, stage' = [stage EXCEPT ![x] = v],
         v = "waiting" => wanted[x] # <<>>, v = "run" => wanted[x] = <<>>
  PROVE  Tasks'
<1>1. DOMAIN stage = Names /\ known \subseteq Names
  BY DEF Tasks, Typed
<1>2. ASSUME NEW y \in known PROVE stage'[y] # "none" /\ Asking(y)'
  <2>1. Asking(y) /\ stage[y] # "none" /\ y \in Names
    BY <1>1 DEF Tasks
  <2>2. stage'[y] = IF y = x THEN v ELSE stage[y]
    BY <1>1, <2>1
  <2>3. (stage[y] = "waiting" => wanted[y] # <<>>) /\ (stage[y] = "run" => wanted[y] = <<>>)
    BY <2>1 DEF Asking
  <2>4. (stage'[y] = "waiting" => wanted[y] # <<>>) /\ (stage'[y] = "run" => wanted[y] = <<>>)
    BY <2>2, <2>3
  <2>5. QED BY <2>1, <2>2, <2>4, AskingKept
<1>3. QED BY <1>1, <1>2 DEF Tasks

LEMMA TasksAnswer ==
  ASSUME Tasks, Waiting, Typed, ConfigStep
  PROVE  Tasks' /\ Waiting'
<1>1. CASE Load
  <2>1. UNCHANGED <<file, phase, known, stage, wanted, got, requests>>
    BY <1>1 DEF Load, asking
  <2>2. QED BY <2>1, TasksKept, WaitingKept DEF PhaseGoesOn
<1>2. CASE Loaded
  <2>1. UNCHANGED <<file, known, stage, wanted, got, requests>> /\ PhaseGoesOn
    BY <1>2 DEF Loaded, asking, managers, PhaseGoesOn
  <2>2. QED BY <2>1, TasksKept, WaitingKept
<1>3. CASE LoadFails
  <2>1. UNCHANGED <<file, known>> /\ PhaseGoesOn /\ phase' = "panicked" /\ requests' = <<>> /\ Refused(ToSet(requests))
    BY <1>3 DEF LoadFails, managers, PhaseGoesOn
  <2>2. ASSUME NEW x \in ToSet(requests) PROVE x \in known /\ wanted[x] # <<>>
    <3>1. PICK i \in DOMAIN requests : x = requests[i]
      BY DEF ToSet
    <3>2. x \in known /\ stage[x] = "waiting"
      BY <3>1 DEF Waiting
    <3>3. QED BY <3>2 DEF Tasks, Asking
  <2>3. Tasks'
    BY <2>1, <2>2, TasksRefused
  <2>4. Waiting'
    BY <2>1, CapAssumption DEF Waiting
  <2>5. QED BY <2>3, <2>4
<1>4. CASE Answer
  <2>0. PICK x : x = Head(requests)
    OBVIOUS
  <2> DEFINE n == Head(wanted[x])
  <2>1. phase = "serving" /\ requests # <<>> /\ requests' = Tail(requests) /\ UNCHANGED <<file, phase, known>> /\ PhaseGoesOn
    BY <1>4 DEF Answer, start, managers, PhaseGoesOn
  <2>2. requests \in Seq(known) /\ 1 \in DOMAIN requests /\ x = requests[1]
    BY <2>0, <2>1 DEF Waiting
  <2>3. x \in known /\ stage[x] = "waiting" /\ x \in Names /\ Asking(x) /\ wanted[x] # <<>>
    BY <2>2 DEF Waiting, Tasks, Asking, Typed
  <2>4. \/ /\ Usable(n, x) /\ stage' = [stage EXCEPT ![x] = "ask"] /\ got' = [got EXCEPT ![x] = n]
           /\ wanted' = [wanted EXCEPT ![x] = <<>>]
        \/ ~Usable(n, x) /\ Refused({x})
    BY <1>4, <2>0 DEF Answer
  <2>5. Tasks'
    <3>1. CASE ~Usable(n, x) /\ Refused({x})
      <4>1. {x} \in SUBSET known /\ \A y \in {x} : wanted[y] # <<>> /\ ~Usable(Head(wanted[y]), y)
        BY <2>3, <3>1
      <4>2. QED BY <2>1, <3>1, <4>1, TasksRefused
    <3>2. CASE /\ Usable(n, x) /\ stage' = [stage EXCEPT ![x] = "ask"] /\ got' = [got EXCEPT ![x] = n]
               /\ wanted' = [wanted EXCEPT ![x] = <<>>]
      <4>1. DOMAIN stage = Names /\ DOMAIN wanted = Names /\ DOMAIN got = Names /\ known \subseteq Names
        BY DEF Tasks, Typed
      <4>2. ASSUME NEW y \in known PROVE stage'[y] # "none" /\ Asking(y)'
        <5>1. Asking(y) /\ stage[y] # "none" /\ y \in Names
          BY <4>1 DEF Tasks
        <5>2. CASE y = x
          <6>1. stage'[x] = "ask" /\ got'[x] = n /\ wanted'[x] = <<>>
            BY <2>3, <3>2, <4>1
          <6>2. file \in Files /\ phase # "panicked"
            BY <2>1 DEF Typed
          <6>3. Asking(x)'
            BY <2>1, <2>3, <3>2, <6>1, <6>2, AskingObtained
          <6>4. QED BY <5>2, <6>1, <6>3
        <5>3. CASE y # x
          <6>1. stage'[y] = stage[y] /\ got'[y] = got[y] /\ wanted'[y] = wanted[y]
            BY <3>2, <4>1, <5>1, <5>3
          <6>2. (stage[y] = "waiting" => wanted[y] # <<>>) /\ (stage[y] = "run" => wanted[y] = <<>>)
            BY <5>1 DEF Asking
          <6>3. QED BY <2>1, <5>1, <6>1, <6>2, AskingKept
        <5>4. QED BY <5>2, <5>3
      <4>3. \A y \in Names \ known : stage'[y] = "none" /\ got'[y] = Nothing
        BY <2>3, <3>2, <4>1 DEF Tasks
      <4>4. stage' \in [Names -> {"none", "bind", "ask", "waiting", "run", "ended"}] /\ DOMAIN wanted' = Names /\ DOMAIN got' = Names
        BY <3>2, <4>1 DEF Tasks
      <4>5. QED BY <2>1, <4>2, <4>3, <4>4 DEF Tasks
    <3>3. QED BY <2>4, <3>1, <3>2
  <2>6. \A y \in known : y # x => stage'[y] = stage[y]
    <3>1. known \subseteq Names /\ DOMAIN stage = Names
      BY DEF Tasks, Typed
    <3>2. QED BY <2>4, <3>1 DEF Refused
  <2>7. Waiting'
    <3> DEFINE r == Tail(requests)
    <3>1. /\ r \in Seq(known) /\ Len(r) <= ConfigCap
          /\ \A i \in DOMAIN r : i + 1 \in DOMAIN requests /\ r[i] = requests[i + 1] /\ i \in Nat \ {0}
      BY <2>1, <2>2, CapAssumption DEF Waiting
    <3> HIDE DEF r
    <3>2. ASSUME NEW i \in DOMAIN r PROVE r[i] # x /\ r[i] \in known /\ stage[r[i]] = "waiting"
      <4>1. i + 1 # 1 /\ requests[i + 1] # requests[1]
        BY <3>1, <2>2 DEF Waiting
      <4>2. QED BY <3>1, <4>1, <2>2 DEF Waiting
    <3>3. ASSUME NEW i \in DOMAIN r, NEW j \in DOMAIN r, r[i] = r[j] PROVE i = j
      <4>1. i + 1 = j + 1
        BY <3>1, <3>3 DEF Waiting
      <4>2. QED BY <3>1, <4>1
    <3>4. \A i \in DOMAIN r : stage'[r[i]] = "waiting"
      BY <3>2, <2>6
    <3>5. requests' = r
      BY <2>1 DEF r
    <3>6. QED BY <3>1, <3>3, <3>4, <3>5, <2>1 DEF Waiting
  <2>8. QED BY <2>5, <2>7
<1>5. QED BY <1>1, <1>2, <1>3, <1>4 DEF ConfigStep

\* A new task starts with the first configuration of its name.
LEMMA SpawnsFirst ==
  ASSUME Typed, Ordered, NEW m \in Managers, inbox[m] # <<>>, NEW x, x = Head(inbox[m]).to, x \notin known,
         Head(inbox[m]).type = "config"
  PROVE  /\ x \in Names /\ MgrOf(x) = m /\ Head(inbox[m]) \in ConfigTo(file, x)
         /\ Head(inbox[m]).config = First(x)
         /\ \E i \in Entries(file, x) : First(x) = Section(file, x)[i]
<1> DEFINE e == Head(inbox[m])
<1>1. inbox[m] \in Seq(InletOf(file, m)) /\ e \in InletOf(file, m) /\ 1 \in DOMAIN inbox[m] /\ e = inbox[m][1]
  BY DEF Typed
<1>2. ~Tls(e) /\ ConfigFor(e, x)
  BY DEF Tls, ConfigFor
<1>3. x \in Names /\ MgrOf(x) = m /\ e \in MessageTo(file, x)
  BY <1>1, <1>2, InletIs
<1>4. e \in ConfigTo(file, x)
  BY <1>3, MessageIs
<1>5. e.config = First(x)
  <2>1. LeadsWith(inbox[m], x, First(x))
    BY <1>3 DEF Ordered
  <2>2. QED BY <2>1, <1>1, <1>2 DEF LeadsWith
<1>6. \E i \in Entries(file, x) : e.config = Section(file, x)[i]
  BY <1>4 DEF ConfigTo
<1>7. QED BY <1>3, <1>4, <1>5, <1>6

LEMMA TasksReceives ==
  ASSUME Tasks, Waiting, Typed, Ordered, NEW m \in Managers, ManagerReceives(m)
  PROVE  Tasks' /\ Waiting'
<1>1. inbox[m] # <<>> /\ UNCHANGED <<file, phase, got, requests>>
  BY DEF ManagerReceives, start
<1>2. CASE UNCHANGED <<known, stage, wanted>>
  BY <1>1, <1>2, TasksKept, WaitingKept DEF PhaseGoesOn
<1>3. CASE ~UNCHANGED <<known, stage, wanted>>
  <2>1. PICK x : x = Head(inbox[m]).to
    OBVIOUS
  <2>2. Head(inbox[m]).type = "config" /\ x \notin known /\ Spawned(x, Head(inbox[m]).config)
    BY <1>3, <2>1 DEF ManagerReceives
  <2>3. x \in Names /\ Head(inbox[m]).config = First(x) /\ \E i \in Entries(file, x) : First(x) = Section(file, x)[i]
    BY <1>1, <2>1, <2>2, SpawnsFirst
  <2>4. /\ stage' = [stage EXCEPT ![x] = IF x \in Listeners THEN "bind" ELSE "ask"]
        /\ wanted' = [wanted EXCEPT ![x] = First(x).tls] /\ known' = known \cup {x}
    BY <2>2, <2>3 DEF Spawned
  <2>5. DOMAIN stage = Names /\ DOMAIN wanted = Names /\ known \subseteq Names /\ file \in Files
    BY DEF Tasks, Typed
  <2>6. Asking(x)' /\ stage'[x] # "none"
    <3>1. wanted'[x] = First(x).tls /\ got'[x] = Nothing /\ stage'[x] \in {"bind", "ask"}
      BY <1>1, <2>2, <2>3, <2>4, <2>5 DEF Tasks
    <3>2. PICK i \in Entries(file, x) : First(x) = Section(file, x)[i]
      BY <2>3
    <3>3. file' = file
      BY <1>1
    <3>4. Asking(x)'
      BY <2>3, <2>5, <3>1, <3>2, <3>3, AskingSpawned
    <3>5. QED BY <3>1, <3>4
  <2>7. ASSUME NEW y \in known PROVE Asking(y)' /\ stage'[y] = stage[y] /\ stage[y] # "none"
    <3>1. y \in Names /\ y # x /\ Asking(y) /\ stage[y] # "none"
      BY <2>2, <2>5 DEF Tasks
    <3>2. stage'[y] = stage[y] /\ wanted'[y] = wanted[y] /\ got'[y] = got[y]
      BY <1>1, <2>4, <2>5, <3>1
    <3>3. (stage[y] = "waiting" => wanted[y] # <<>>) /\ (stage[y] = "run" => wanted[y] = <<>>)
      BY <3>1 DEF Asking
    <3>4. QED BY <1>1, <3>1, <3>2, <3>3, AskingKept
  <2>8. \A y \in Names \ known' : stage'[y] = "none" /\ got'[y] = Nothing
    BY <1>1, <2>4, <2>5 DEF Tasks
  <2>9. stage' \in [Names -> {"none", "bind", "ask", "waiting", "run", "ended"}] /\ DOMAIN wanted' = Names /\ DOMAIN got' = Names
    BY <1>1, <2>4, <2>5 DEF Tasks
  <2>10. Tasks'
    BY <2>4, <2>6, <2>7, <2>8, <2>9 DEF Tasks
  <2>11. Waiting'
    <3>1. requests \in Seq(known') /\ \A i \in DOMAIN requests : requests[i] \in known
      <4>1. requests \in Seq(known) /\ known \subseteq known'
        BY <2>4 DEF Waiting
      <4>2. QED BY <4>1
    <3>2. QED BY <1>1, <2>7, <3>1 DEF Waiting
  <2>12. QED BY <2>10, <2>11
<1>4. QED BY <1>2, <1>3

\* The listener with its socket; a name that is asked for; the loop.
LEMMA TasksOfOne ==
  ASSUME Tasks, Waiting, Typed, NEW x \in Names, (x \in Listeners /\ Bind(x)) \/ Ask(x) \/ Ready(x)
  PROVE  Tasks' /\ Waiting'
<1>1. UNCHANGED <<file, phase, known>>
  BY DEF Bind, Ask, Ready, start, managers
<1>2. stage[x] \in {"bind", "ask"} /\ x \in known
  BY DEF Bind, Ask, Ready, Tasks
<1>3. ASSUME NEW y \in known, stage[y] = "waiting" PROVE y # x
  BY <1>2, <1>3
<1>4. DOMAIN stage = Names /\ known \subseteq Names
  BY DEF Tasks, Typed
<1>5. ASSUME NEW v \in {"ask", "run", "ended"}, stage' = [stage EXCEPT ![x] = v], UNCHANGED <<wanted, got, requests>>,
             v = "run" => wanted[x] = <<>>
      PROVE  Tasks' /\ Waiting'
  <2>1. \A y \in known : stage[y] = "waiting" => stage'[y] = "waiting"
    BY <1>3, <1>4, <1>5
  <2>2. QED BY <1>1, <1>2, <1>5, <2>1, TasksMove, WaitingKept
<1>6. CASE x \in Listeners /\ Bind(x)
  <2>1. PICK v \in {"ask", "ended"} : stage' = [stage EXCEPT ![x] = v]
    BY <1>6 DEF Bind
  <2>2. UNCHANGED <<wanted, got, requests>>
    BY <1>6 DEF Bind
  <2>3. QED BY <1>5, <2>1, <2>2
<1>7. CASE Ready(x)
  <2>1. wanted[x] = <<>> /\ stage' = [stage EXCEPT ![x] = "run"] /\ UNCHANGED <<wanted, got, requests>>
    BY <1>7 DEF Ready
  <2>2. QED BY <1>5, <2>1
<1>8. CASE Ask(x) /\ phase = "panicked"
  <2>1. wanted[x] # <<>> /\ Refused({x}) /\ UNCHANGED requests
    BY <1>8 DEF Ask
  <2>2. {x} \in SUBSET known /\ PhaseGoesOn /\ phase' = "panicked" /\ \A y \in {x} : wanted[y] # <<>>
    BY <1>1, <1>2, <1>8, <2>1 DEF PhaseGoesOn
  <2>3. Tasks'
    BY <1>1, <2>1, <2>2, TasksRefused
  <2>4. \A y \in known : stage[y] = "waiting" => stage'[y] = "waiting"
    BY <1>3, <1>4, <2>1 DEF Refused
  <2>5. QED BY <1>1, <2>1, <2>3, <2>4, WaitingKept
<1>9. CASE Ask(x) /\ phase # "panicked"
  <2>1. /\ wanted[x] # <<>> /\ Len(requests) < ConfigCap /\ requests' = Append(requests, x)
        /\ stage' = [stage EXCEPT ![x] = "waiting"] /\ UNCHANGED <<wanted, got>>
    BY <1>9 DEF Ask
  <2>2. Tasks'
    BY <1>1, <1>2, <2>1, TasksMove
  <2>3. Waiting'
    <3> DEFINE r == Append(requests, x)
    <3>1. /\ r \in Seq(known) /\ Len(r) <= ConfigCap /\ DOMAIN requests = 1..Len(requests) /\ Len(requests) \in Nat
          /\ DOMAIN r = 1..(Len(requests) + 1) /\ r[Len(requests) + 1] = x
          /\ \A i \in DOMAIN requests : r[i] = requests[i]
      BY <1>2, <2>1, CapAssumption DEF Waiting
    <3> HIDE DEF r
    <3>2. \A i \in DOMAIN requests : requests[i] \in known /\ stage[requests[i]] = "waiting" /\ requests[i] # x
      BY <1>3 DEF Waiting
    <3>3. \A i \in DOMAIN r : i \in DOMAIN requests \/ i = Len(requests) + 1
      BY <3>1
    <3>4. \A i \in DOMAIN r : stage'[r[i]] = "waiting"
      BY <1>2, <1>4, <2>1, <3>1, <3>2, <3>3
    <3>5. ASSUME NEW i \in DOMAIN r, NEW j \in DOMAIN r, r[i] = r[j] PROVE i = j
      BY <3>1, <3>2, <3>3, <3>5 DEF Waiting
    <3>6. requests' = r
      BY <2>1 DEF r
    <3>7. QED BY <1>1, <3>1, <3>4, <3>5, <3>6 DEF Waiting
  <2>4. QED BY <2>2, <2>3
<1>10. QED BY <1>6, <1>7, <1>8, <1>9

\* Nothing but configurations comes to a listener that is there.
LEMMA ListenerUpdates ==
  ASSUME Typed, NEW l \in Listeners, UpdateListener(l)
  PROVE  got' = got /\ Head(updates[l]) \in ConfigTo(file, l) /\ updates[l] # <<>>
<1>1. l \in Names /\ l \notin Clusters /\ updates[l] # <<>> /\ updates[l] \in Seq(MessageTo(file, l))
  BY NameAssumption DEF Names, Typed, UpdateListener
<1>2. Head(updates[l]) \in MessageTo(file, l)
  BY <1>1
<1>3. Head(updates[l]) \in ConfigTo(file, l) /\ Head(updates[l]).type # "tls"
  BY <1>1, <1>2, MessageIs DEF Tls
<1>4. QED BY <1>1, <1>3 DEF UpdateListener
-------------------------------------------------------------------------------
\* How many of some messages are on the way to a name, before and after a step.
LEMMA BitNat == \A e, T : Bit(e, T) \in {0, 1}
BY DEF Bit

LEMMA NumShort ==
  ASSUME NEW s, s = <<>> \/ \E e : s = <<e>>, NEW T
  PROVE  Num(s, T) \in Nat
<1>1. CASE s = <<>>
  BY <1>1, NumEmpty
<1>2. ASSUME NEW e, s = <<e>> PROVE Num(s, T) \in Nat
  <2>1. Num(<<e>>, T) = Bit(e, T) /\ Bit(e, T) \in {0, 1}
    BY NumOne, BitNat
  <2>2. QED BY <1>2, <2>1
<1>3. QED BY <1>1, <1>2

LEMMA WayNat ==
  ASSUME Typed, NEW x \in Names, NEW T
  PROVE  /\ Num(toLoad, T) \in Nat /\ Num(inbox[MgrOf(x)], T) \in Nat /\ Num(hand[MgrOf(x)], T) \in Nat
         /\ Num(updates[x], T) \in Nat /\ Behind(T, x) \in Nat /\ OnTheWay(T, x) \in Nat
         /\ x \in Clusters => Num(passing[x], T) \in Nat /\ Num(queue[x], T) \in Nat /\ Num(busy[x], T) \in Nat
<1>1. MgrOf(x) \in Managers
  BY Managing
<1>2. Num(toLoad, T) \in Nat /\ Num(inbox[MgrOf(x)], T) \in Nat /\ Num(updates[x], T) \in Nat
  BY <1>1, NumNat DEF Typed
<1>3. Num(hand[MgrOf(x)], T) \in Nat
  <2>1. hand[MgrOf(x)] = <<>> \/ \E e : hand[MgrOf(x)] = <<e>>
    BY <1>1 DEF Typed
  <2>2. QED BY <2>1, NumShort
<1>4. x \in Clusters => Num(passing[x], T) \in Nat /\ Num(queue[x], T) \in Nat /\ Num(busy[x], T) \in Nat
  <2> HAVE x \in Clusters
  <2>1. (passing[x] = <<>> \/ \E e : passing[x] = <<e>>) /\ (busy[x] = <<>> \/ \E e : busy[x] = <<e>>)
    BY DEF Typed
  <2>2. Num(passing[x], T) \in Nat /\ Num(busy[x], T) \in Nat
    BY <2>1, NumShort
  <2>3. QED BY <2>2, NumNat DEF Typed
<1>5. Behind(T, x) \in Nat
  BY <1>4 DEF Behind
<1>6. QED BY <1>2, <1>3, <1>4, <1>5 DEF OnTheWay

LEMMA WayLoad ==
  ASSUME Typed, Load, NEW x \in Names, NEW T, T \subseteq MessageTo(file, x)
  PROVE  OnTheWay(T, x)' <= OnTheWay(T, x)
<1> DEFINE e == Head(toLoad)
           m == ManagerOf(e)
           b == Bit(e, T)
<1>1. /\ toLoad # <<>> /\ e.type # "fails" /\ toLoad' = Tail(toLoad)
      /\ inbox' = [inbox EXCEPT ![m] = Append(@, e)] /\ UNCHANGED <<hand, updates, passing, queue, busy, locked>>
  BY DEF Load, clusters, member
<1>2. toLoad \in Seq(ToAnnounce(file)) /\ e \in ToAnnounce(file)
  BY <1>1 DEF Typed
<1>3. m \in Managers /\ e \in InletOf(file, m) /\ (e \in MessageTo(file, x) => m = MgrOf(x))
  BY <1>1, <1>2, AnnouncedGoesTo
<1>4. DOMAIN inbox = Managers /\ inbox[m] \in Seq(InletOf(file, m)) /\ MgrOf(x) \in Managers
  BY <1>3, Managing DEF Typed
<1>5. Num(toLoad', T) + b <= Num(toLoad, T)
  BY <1>1, <1>2, NumTail
<1>6. Num(inbox'[MgrOf(x)], T) = Num(inbox[MgrOf(x)], T) + b
  <2>1. CASE MgrOf(x) = m
    <3>1. inbox'[m] = Append(inbox[m], e)
      BY <1>1, <1>3, <1>4
    <3>2. Num(Append(inbox[m], e), T) = Num(inbox[m], T) + b
      BY <1>3, <1>4, NumAppend
    <3>3. QED BY <2>1, <3>1, <3>2
  <2>2. CASE MgrOf(x) # m
    <3>1. b = 0
      BY <2>2, <1>3 DEF Bit
    <3>2. inbox'[MgrOf(x)] = inbox[MgrOf(x)]
      BY <1>1, <1>4, <2>2
    <3>3. Num(inbox[MgrOf(x)], T) \in Nat
      BY WayNat
    <3>4. QED BY <3>1, <3>2, <3>3
  <2>3. QED BY <2>1, <2>2
<1>7. Behind(T, x)' = Behind(T, x)
  BY <1>1 DEF Behind
<1>8. /\ Num(toLoad, T) \in Nat /\ Num(inbox[MgrOf(x)], T) \in Nat /\ Num(hand[MgrOf(x)], T) \in Nat
      /\ Num(updates[x], T) \in Nat /\ Behind(T, x) \in Nat /\ b \in {0, 1}
  BY WayNat, BitNat
<1>9. Num(toLoad', T) \in Nat
  <2>1. Tail(toLoad) \in Seq(ToAnnounce(file))
    BY <1>1, <1>2
  <2>2. QED BY <1>1, <2>1, NumNat
<1> HIDE DEF b
<1>10. OnTheWay(T, x)' = Num(toLoad', T) + (Num(inbox[MgrOf(x)], T) + b) + Num(hand[MgrOf(x)], T) + Num(updates[x], T) + Behind(T, x)
  BY <1>1, <1>6, <1>7 DEF OnTheWay
<1>11. QED BY <1>5, <1>8, <1>9, <1>10 DEF OnTheWay

\* What a manager takes is on its way still, or it is the first configuration of its
\* name or a request for a name nobody has.
LEMMA WayReceives ==
  ASSUME Typed, Ordered, NEW m \in Managers, ManagerReceives(m), NEW x \in Names, NEW T, T \subseteq MessageTo(file, x)
  PROVE  /\ OnTheWay(T, x)' <= OnTheWay(T, x)
         /\ Head(inbox[m]) \in T /\ x \notin known => OnTheWay(T, x)' + 1 <= OnTheWay(T, x)
<1> DEFINE e == Head(inbox[m])
           b == Bit(e, T)
           k == MgrOf(x)
<1>1. /\ inbox[m] # <<>> /\ hand[m] = <<>> /\ inbox' = [inbox EXCEPT ![m] = Tail(@)]
      /\ UNCHANGED <<toLoad, updates, passing, queue, busy, locked>>
  BY DEF ManagerReceives, start, clusters, member
<1>2. e \in InletOf(file, m) /\ (Tls(e) => hand' = [hand EXCEPT ![m] = <<>>])
  BY TypedReceives
<1>3. inbox[m] \in Seq(InletOf(file, m)) /\ DOMAIN inbox = Managers /\ DOMAIN hand = Managers /\ k \in Managers
  BY Managing DEF Typed
<1>4. e \in T => k = m /\ ~Tls(e) /\ e.to = x
  BY <1>2, InletIs, MessageIs
<1>5. b \in {0, 1} /\ (e \in T <=> b = 1)
  BY DEF Bit
<1>6. Num(inbox'[k], T) + b <= Num(inbox[k], T) /\ Num(inbox'[k], T) \in Nat
  <2>1. CASE k = m
    <3>1. inbox'[k] = Tail(inbox[m]) /\ Tail(inbox[m]) \in Seq(InletOf(file, m))
      BY <1>1, <1>3, <2>1
    <3>2. QED BY <1>1, <1>3, <2>1, <3>1, NumTail, NumNat
  <2>2. CASE k # m
    <3>1. inbox'[k] = inbox[k] /\ b = 0 /\ Num(inbox[k], T) \in Nat
      BY <1>1, <1>3, <1>4, <1>5, <2>2, WayNat
    <3>2. QED BY <3>1
  <2>3. QED BY <2>1, <2>2
<1>7. \/ hand' = [hand EXCEPT ![m] = <<>>]
      \/ hand' = [hand EXCEPT ![m] = <<e>>] /\ e.to \in known /\ ~Tls(e)
      \/ UNCHANGED hand
  BY <1>2 DEF ManagerReceives, Tls
<1>8. Num(hand'[k], T) <= Num(hand[k], T) + b /\ Num(hand'[k], T) \in Nat /\ (x \notin known => Num(hand'[k], T) <= Num(hand[k], T))
  <2>1. Num(hand[k], T) \in Nat
    BY WayNat
  <2>2. CASE UNCHANGED hand
    BY <2>1, <2>2, <1>5
  <2>3. CASE hand' = [hand EXCEPT ![m] = <<>>]
    <3>1. hand'[k] = hand[k] \/ hand'[k] = <<>>
      BY <1>3, <2>3
    <3>2. QED BY <3>1, <2>1, <1>5, NumEmpty
  <2>4. CASE hand' = [hand EXCEPT ![m] = <<e>>] /\ e.to \in known
    <3>1. CASE k = m
      <4>1. hand'[k] = <<e>> /\ Num(<<e>>, T) = b
        BY <1>3, <2>4, <3>1, NumOne
      <4>2. x \notin known => b = 0
        BY <1>4, <1>5, <2>4
      <4>3. QED BY <4>1, <4>2, <2>1, <1>5
    <3>2. CASE k # m
      <4>1. hand'[k] = hand[k]
        BY <1>3, <2>4, <3>2
      <4>2. QED BY <4>1, <2>1, <1>5
    <3>3. QED BY <3>1, <3>2
  <2>5. QED BY <1>7, <2>2, <2>3, <2>4
<1>9. Behind(T, x)' = Behind(T, x)
  BY <1>1 DEF Behind
<1>10. /\ Num(toLoad, T) \in Nat /\ Num(inbox[k], T) \in Nat /\ Num(hand[k], T) \in Nat
       /\ Num(updates[x], T) \in Nat /\ Behind(T, x) \in Nat
  BY WayNat
<1> HIDE DEF b
<1>11. OnTheWay(T, x)' = Num(toLoad, T) + Num(inbox'[k], T) + Num(hand'[k], T) + Num(updates[x], T) + Behind(T, x)
  BY <1>1, <1>9 DEF OnTheWay
<1>12. OnTheWay(T, x) = Num(toLoad, T) + Num(inbox[k], T) + Num(hand[k], T) + Num(updates[x], T) + Behind(T, x)
  BY DEF OnTheWay
<1> HIDE DEF k
<1>13. OnTheWay(T, x)' <= OnTheWay(T, x)
  BY <1>5, <1>6, <1>8, <1>10, <1>11, <1>12
<1>14. e \in T /\ x \notin known => OnTheWay(T, x)' + 1 <= OnTheWay(T, x)
  BY <1>5, <1>6, <1>8, <1>10, <1>11, <1>12
<1>15. QED BY <1>13, <1>14

LEMMA WaySends ==
  ASSUME Typed, NEW m \in Managers, ManagerSends(m), NEW x \in Names, NEW T, T \subseteq MessageTo(file, x)
  PROVE  OnTheWay(T, x)' <= OnTheWay(T, x)
<1> DEFINE e == Head(hand[m])
           b == Bit(e, T)
           k == MgrOf(x)
<1>1. /\ hand[m] = <<e>> /\ e \in MessageTo(file, e.to) /\ MgrOf(e.to) = m /\ e.to \in Names /\ Tail(hand[m]) = <<>>
  BY HandIs DEF ManagerSends, Typed
<1>2. hand' = [hand EXCEPT ![m] = <<>>] /\ UNCHANGED <<toLoad, inbox, passing, queue, busy, locked>>
  BY <1>1 DEF ManagerSends, clusters, member, start
<1>3. UNCHANGED updates \/ updates' = [updates EXCEPT ![e.to] = Append(@, e)]
  BY DEF ManagerSends
<1>4. b \in {0, 1} /\ (e \in T => e.to = x) /\ (e \notin T => b = 0)
  BY MessageIs DEF Bit
<1>5. Num(hand'[k], T) <= Num(hand[k], T) /\ (k = m => Num(hand'[k], T) + b = Num(hand[k], T)) /\ Num(hand'[k], T) \in Nat
  <2>1. DOMAIN hand = Managers /\ Num(hand[k], T) \in Nat
    BY WayNat DEF Typed
  <2>2. CASE k = m
    <3>1. hand'[k] = <<>> /\ Num(<<>>, T) = 0 /\ Num(hand[k], T) = b
      BY <1>1, <1>2, <2>1, <2>2, NumEmpty, NumOne
    <3>2. QED BY <3>1, <1>4
  <2>3. CASE k # m
    <3>1. hand'[k] = hand[k]
      BY <1>2, <2>1, <2>3, Managing
    <3>2. QED BY <3>1, <2>1, <2>3
  <2>4. QED BY <2>2, <2>3
<1>6. Num(updates'[x], T) <= Num(updates[x], T) + b /\ Num(updates'[x], T) \in Nat
  <2>1. DOMAIN updates = Names /\ Num(updates[x], T) \in Nat
    BY WayNat DEF Typed
  <2>2. CASE updates'[x] = updates[x]
    BY <1>4, <2>1, <2>2
  <2>3. CASE updates'[x] # updates[x]
    <3>1. x = e.to /\ updates'[x] = Append(updates[x], e)
      BY <1>1, <1>3, <2>1, <2>3
    <3>2. updates[x] \in Seq(MessageTo(file, x)) /\ e \in MessageTo(file, x)
      BY <1>1, <3>1 DEF Typed
    <3>3. Num(Append(updates[x], e), T) = Num(updates[x], T) + b
      BY <3>2, NumAppend
    <3>4. Num(updates'[x], T) = Num(updates[x], T) + b
      BY <3>1, <3>3
    <3> HIDE DEF b
    <3>5. QED BY <3>4, <2>1, <1>4
  <2>4. QED BY <2>2, <2>3
<1>7. b = 1 => k = m
  BY <1>1, <1>4
<1>8. Behind(T, x)' = Behind(T, x)
  BY <1>2 DEF Behind
<1>9. /\ Num(toLoad, T) \in Nat /\ Num(inbox[k], T) \in Nat /\ Num(hand[k], T) \in Nat
      /\ Num(updates[x], T) \in Nat /\ Behind(T, x) \in Nat
  BY WayNat
<1> HIDE DEF b
<1>10. OnTheWay(T, x)' = Num(toLoad, T) + Num(inbox[k], T) + Num(hand'[k], T) + Num(updates'[x], T) + Behind(T, x)
  BY <1>2, <1>8 DEF OnTheWay
<1>11. OnTheWay(T, x) = Num(toLoad, T) + Num(inbox[k], T) + Num(hand[k], T) + Num(updates[x], T) + Behind(T, x)
  BY DEF OnTheWay
<1> HIDE DEF k
<1>12. QED BY <1>4, <1>5, <1>6, <1>7, <1>9, <1>10, <1>11

\* A listener takes its updates or ends without them.
LEMMA WayListener ==
  ASSUME Typed, NEW l \in Listeners, Bind(l) \/ UpdateListener(l), NEW x \in Names, NEW T
  PROVE  OnTheWay(T, x)' <= OnTheWay(T, x)
<1>1. UNCHANGED <<toLoad, inbox, hand, passing, queue, busy, locked>>
  BY DEF Bind, UpdateListener, clusters, member, start, managers
<1>2. \/ UNCHANGED updates
      \/ updates' = [updates EXCEPT ![l] = <<>>]
      \/ updates[l] # <<>> /\ updates' = [updates EXCEPT ![l] = Tail(@)]
  BY DEF Bind, UpdateListener
<1>3. DOMAIN updates = Names /\ updates[x] \in Seq(MessageTo(file, x)) /\ Num(updates[x], T) \in Nat
  BY WayNat DEF Typed
<1>4. updates'[x] = updates[x] \/ updates'[x] = <<>> \/ (updates[x] # <<>> /\ updates'[x] = Tail(updates[x]))
  BY <1>2, <1>3
<1>5. Num(updates'[x], T) <= Num(updates[x], T) /\ Num(updates'[x], T) \in Nat
  <2>1. CASE updates[x] # <<>> /\ updates'[x] = Tail(updates[x])
    <3>1. Num(Tail(updates[x]), T) + Bit(Head(updates[x]), T) <= Num(updates[x], T) /\ Num(Tail(updates[x]), T) \in Nat
      <4>1. Tail(updates[x]) \in Seq(MessageTo(file, x))
        BY <1>3, <2>1
      <4>2. QED BY <1>3, <2>1, <4>1, NumTail, NumNat
    <3>2. Bit(Head(updates[x]), T) \in {0, 1}
      BY BitNat
    <3>3. QED BY <2>1, <3>1, <3>2, <1>3
  <2>2. QED BY <1>3, <1>4, <2>1, NumEmpty
<1>6. Behind(T, x)' = Behind(T, x)
  BY <1>1 DEF Behind
<1>7. /\ Num(toLoad, T) \in Nat /\ Num(inbox[MgrOf(x)], T) \in Nat /\ Num(hand[MgrOf(x)], T) \in Nat
      /\ Num(updates[x], T) \in Nat /\ Behind(T, x) \in Nat
  BY WayNat
<1>8. OnTheWay(T, x)' = Num(toLoad, T) + Num(inbox[MgrOf(x)], T) + Num(hand[MgrOf(x)], T) + Num(updates'[x], T) + Behind(T, x)
  BY <1>1, <1>6 DEF OnTheWay
<1>9. QED BY <1>5, <1>7, <1>8 DEF OnTheWay

Pieces(T, x) ==
  /\ Num(toLoad, T) \in Nat /\ Num(inbox[MgrOf(x)], T) \in Nat /\ Num(hand[MgrOf(x)], T) \in Nat
  /\ Num(updates[x], T) \in Nat /\ OnTheWay(T, x) \in Nat
  /\ x \in Clusters => Num(passing[x], T) \in Nat /\ Num(queue[x], T) \in Nat /\ Num(busy[x], T) \in Nat

LEMMA WayPieces == Typed => \A x \in Names : \A T : Pieces(T, x)
BY WayNat DEF Pieces

LEMMA WayPiecesNext == Typed' => \A x \in Names : \A T : Pieces(T, x)'
<1>1. (Typed => \A x \in Names : \A T : Pieces(T, x))'
  BY WayPieces, PTL
<1>2. QED BY <1>1

\* A step behind the channel of c moves the messages of c only, and loses d of them.
Held(T, c) == Num(updates[c], T) + Num(passing[c], T) + Num(queue[c], T) + Num(busy[c], T)

LEMMA WayBehind ==
  ASSUME Typed, Typed', NEW c \in Clusters, UNCHANGED <<toLoad, inbox, hand>>, NEW x \in Names, NEW T, NEW d \in {0, 1},
         x # c => /\ updates'[x] = updates[x]
                  /\ x \in Clusters => passing'[x] = passing[x] /\ queue'[x] = queue[x] /\ busy'[x] = busy[x],
         Held(T, c)' + d <= Held(T, c)
  PROVE  OnTheWay(T, x)' <= OnTheWay(T, x) /\ (c = x => OnTheWay(T, x)' + d <= OnTheWay(T, x))
<1>1. Pieces(T, x) /\ Pieces(T, x)'
  BY WayPieces, WayPiecesNext
<1>2. CASE x # c
  <2>1. Behind(T, x)' = Behind(T, x)
    BY <1>2 DEF Behind
  <2>2. OnTheWay(T, x)' = OnTheWay(T, x)
    BY <1>2, <2>1 DEF OnTheWay
  <2>3. QED BY <1>1, <1>2, <2>2 DEF Pieces
<1>3. CASE x = c
  <2>1. OnTheWay(T, x) = Num(toLoad, T) + Num(inbox[MgrOf(x)], T) + Num(hand[MgrOf(x)], T) + Num(updates[x], T)
                           + (Num(passing[x], T) + Num(queue[x], T) + Num(busy[x], T))
    BY <1>3 DEF OnTheWay, Behind
  <2>2. OnTheWay(T, x)' = Num(toLoad, T) + Num(inbox[MgrOf(x)], T) + Num(hand[MgrOf(x)], T) + Num(updates'[x], T)
                           + (Num(passing'[x], T) + Num(queue'[x], T) + Num(busy'[x], T))
    BY <1>3 DEF OnTheWay, Behind
  <2>3. Num(updates'[x], T) + Num(passing'[x], T) + Num(queue'[x], T) + Num(busy'[x], T) + d
          <= Num(updates[x], T) + Num(passing[x], T) + Num(queue[x], T) + Num(busy[x], T)
    BY <1>3 DEF Held
  <2>4. /\ Num(toLoad, T) \in Nat /\ Num(inbox[MgrOf(x)], T) \in Nat /\ Num(hand[MgrOf(x)], T) \in Nat
        /\ Num(updates[x], T) \in Nat /\ Num(passing[x], T) \in Nat /\ Num(queue[x], T) \in Nat /\ Num(busy[x], T) \in Nat
        /\ Num(updates'[x], T) \in Nat /\ Num(passing'[x], T) \in Nat /\ Num(queue'[x], T) \in Nat /\ Num(busy'[x], T) \in Nat
    BY <1>1, <1>3 DEF Pieces
  <2>5. OnTheWay(T, x)' + d <= OnTheWay(T, x)
    BY <2>1, <2>2, <2>3, <2>4
  <2>6. OnTheWay(T, x)' \in Nat /\ OnTheWay(T, x) \in Nat
    BY <1>1 DEF Pieces
  <2>7. QED BY <2>5, <2>6
<1>4. QED BY <1>2, <1>3

\* A worker takes a message, which it may drop.
LEMMA WayTaken ==
  ASSUME Typed, Typed', NEW c \in Clusters, ClusterReceives(c), NEW x \in Names, NEW T
  PROVE  /\ OnTheWay(T, x)' <= OnTheWay(T, x)
         /\ c = x /\ passing'[c] = <<>> /\ Head(updates[c]) \in T => OnTheWay(T, x)' + 1 <= OnTheWay(T, x)
<1> DEFINE u == updates[c]
           e == Head(u)
           d == IF passing'[c] = <<>> THEN Bit(e, T) ELSE 0
<1>1. c \in Names /\ DOMAIN updates = Names /\ DOMAIN passing = Clusters
  BY DEF Typed, Names
<1>2. /\ passing[c] = <<>> /\ u # <<>> /\ updates'[c] = Tail(u) /\ queue' = queue /\ busy' = busy
      /\ passing'[c] = <<e>> \/ passing'[c] = <<>>
  BY <1>1 DEF ClusterReceives, member
<1>3. /\ UNCHANGED <<toLoad, inbox, hand>>
      /\ x # c => updates'[x] = updates[x] /\ (x \in Clusters => passing'[x] = passing[x])
  BY <1>1 DEF ClusterReceives, start, managers
<1>4. Num(Tail(u), T) + Bit(e, T) <= Num(u, T)
  <2>1. u \in Seq(MessageTo(file, c))
    BY <1>1 DEF Typed
  <2>2. QED BY <1>2, <2>1, NumTail
<1>5. Num(<<>>, T) = 0 /\ Num(<<e>>, T) = Bit(e, T) /\ Bit(e, T) \in {0, 1}
  BY NumEmpty, NumOne, BitNat
<1>6. Pieces(T, c) /\ Pieces(T, c)'
  BY <1>1, WayPieces, WayPiecesNext
<1>7. d \in {0, 1} /\ Num(passing'[c], T) + d = Bit(e, T)
  <2>1. CASE passing'[c] = <<>>
    BY <1>5, <2>1
  <2>2. CASE passing'[c] # <<>>
    BY <1>2, <1>5, <2>2
  <2>3. QED BY <2>1, <2>2
<1>8. passing'[c] = <<>> /\ e \in T => d = 1
  BY DEF Bit
<1> HIDE DEF u, e, d
<1>9. Held(T, c)' + d <= Held(T, c)
  <2>1. Held(T, c)' = Num(Tail(u), T) + Num(passing'[c], T) + Num(queue[c], T) + Num(busy[c], T)
    BY <1>2 DEF Held
  <2>2. Held(T, c) = Num(u, T) + 0 + Num(queue[c], T) + Num(busy[c], T)
    BY <1>2, <1>5 DEF Held, u
  <2>3. /\ Num(Tail(u), T) \in Nat /\ Num(passing'[c], T) \in Nat /\ Num(queue[c], T) \in Nat
        /\ Num(busy[c], T) \in Nat /\ Num(u, T) \in Nat
    BY <1>2, <1>6 DEF Pieces, u
  <2>4. QED BY <1>4, <1>5, <1>7, <2>1, <2>2, <2>3
<1>10. OnTheWay(T, x)' <= OnTheWay(T, x) /\ (c = x => OnTheWay(T, x)' + d <= OnTheWay(T, x))
  BY <1>2, <1>3, <1>7, <1>9, WayBehind
<1>11. QED BY <1>8, <1>10 DEF u, e

\* It passes messages on to the member, which takes them.
LEMMA WayCluster ==
  ASSUME Typed, Typed', NEW c \in Clusters, ClusterSends(c) \/ MemberReceives(c), NEW x \in Names, NEW T
  PROVE  OnTheWay(T, x)' <= OnTheWay(T, x)
<1>1. /\ c \in Names /\ DOMAIN passing = Clusters /\ DOMAIN queue = Clusters /\ DOMAIN busy = Clusters
      /\ queue[c] \in Seq(MessageTo(file, c))
  BY DEF Typed, Names
<1>2. /\ UNCHANGED <<toLoad, inbox, hand, updates>>
      /\ x # c => (x \in Clusters => passing'[x] = passing[x] /\ queue'[x] = queue[x] /\ busy'[x] = busy[x])
  BY <1>1 DEF ClusterSends, MemberReceives, start, managers, member
<1>3. Pieces(T, c) /\ Pieces(T, c)'
  BY <1>1, WayPieces, WayPiecesNext
<1>4. Num(passing'[c], T) + Num(queue'[c], T) + Num(busy'[c], T) <= Num(passing[c], T) + Num(queue[c], T) + Num(busy[c], T)
  <2>1. CASE ClusterSends(c)
    <3>1. passing[c] # <<>> /\ passing'[c] = <<>> /\ queue'[c] = queue[c] \o passing[c] /\ busy'[c] = busy[c]
      BY <1>1, <2>1 DEF ClusterSends, member
    <3>2. PICK e \in MessageTo(file, c) : passing[c] = <<e>>
      BY <3>1 DEF Typed
    <3>3. queue[c] \o <<e>> = Append(queue[c], e)
      BY <1>1
    <3>4. Num(Append(queue[c], e), T) = Num(queue[c], T) + Bit(e, T) /\ Num(<<e>>, T) = Bit(e, T) /\ Num(<<>>, T) = 0
      BY <1>1, <3>2, NumAppend, NumOne, NumEmpty
    <3>5. /\ Num(queue'[c], T) = Num(queue[c], T) + Bit(e, T) /\ Num(passing[c], T) = Bit(e, T)
          /\ Num(passing'[c], T) = 0 /\ Num(busy'[c], T) = Num(busy[c], T)
      BY <3>1, <3>2, <3>3, <3>4
    <3>6. /\ Num(queue[c], T) \in Nat /\ Bit(e, T) \in {0, 1} /\ Num(busy[c], T) \in Nat
      BY <1>3, BitNat DEF Pieces
    <3>7. QED BY <3>5, <3>6
  <2>2. CASE MemberReceives(c)
    <3> DEFINE e == Head(queue[c])
    <3>1. /\ queue[c] # <<>> /\ queue'[c] = Tail(queue[c]) /\ busy[c] = <<>> /\ busy'[c] = <<e>>
          /\ passing'[c] = passing[c]
      BY <1>1, <2>2 DEF MemberReceives
    <3>2. Num(Tail(queue[c]), T) + Bit(e, T) <= Num(queue[c], T)
      BY <1>1, <3>1, NumTail
    <3> HIDE DEF e
    <3>3. Num(busy[c], T) = 0 /\ Num(busy'[c], T) = Bit(e, T)
      BY <3>1, NumEmpty, NumOne
    <3>4. Num(queue'[c], T) + Bit(e, T) <= Num(queue[c], T) /\ Num(passing'[c], T) = Num(passing[c], T)
      BY <3>1, <3>2
    <3>5. /\ Num(queue[c], T) \in Nat /\ Num(queue'[c], T) \in Nat /\ Bit(e, T) \in {0, 1} /\ Num(passing[c], T) \in Nat
      BY <1>3, BitNat DEF Pieces
    <3>6. QED BY <3>3, <3>4, <3>5
  <2>3. QED BY <2>1, <2>2
<1>5. Held(T, c)' + 0 <= Held(T, c)
  <2>1. Held(T, c)' = Num(updates[c], T) + Num(passing'[c], T) + Num(queue'[c], T) + Num(busy'[c], T)
    BY <1>2 DEF Held
  <2>2. /\ Num(passing[c], T) \in Nat /\ Num(queue[c], T) \in Nat /\ Num(busy[c], T) \in Nat
        /\ Num(passing'[c], T) \in Nat /\ Num(queue'[c], T) \in Nat /\ Num(busy'[c], T) \in Nat
        /\ Num(updates[c], T) \in Nat
    BY <1>3 DEF Pieces
  <2>3. QED BY <1>4, <2>1, <2>2 DEF Held
<1>6. QED BY <1>2, <1>5, WayBehind

\* The member is through with a message.
LEMMA WayEnds ==
  ASSUME Typed, Typed', NEW c \in Clusters, MemberEnds(c), NEW x \in Names, NEW T
  PROVE  /\ OnTheWay(T, x)' <= OnTheWay(T, x)
         /\ c = x /\ Head(busy[c]) \in T => OnTheWay(T, x)' + 1 <= OnTheWay(T, x)
<1> DEFINE e == Head(busy[c])
           d == Bit(e, T)
<1>1. c \in Names /\ DOMAIN busy = Clusters
  BY DEF Typed, Names
<1>2. /\ UNCHANGED <<toLoad, inbox, hand, updates, passing, queue>> /\ busy[c] # <<>> /\ busy'[c] = <<>>
      /\ x # c => (x \in Clusters => busy'[x] = busy[x])
  BY <1>1 DEF MemberEnds, start, managers
<1>3. busy[c] = <<e>>
  <2>1. PICK g : busy[c] = <<g>>
    BY <1>2 DEF Typed
  <2>2. QED BY <2>1
<1>4. Num(busy[c], T) = d /\ Num(busy'[c], T) = 0 /\ d \in {0, 1} /\ (e \in T => d = 1)
  <2>1. Num(<<e>>, T) = d /\ Num(<<>>, T) = 0
    BY NumOne, NumEmpty
  <2>2. QED BY <1>2, <1>3, <2>1 DEF Bit
<1>5. Pieces(T, c)
  BY <1>1, WayPieces
<1> HIDE DEF e, d
<1>6. Held(T, c)' + d <= Held(T, c)
  <2>1. Num(updates[c], T) \in Nat /\ Num(passing[c], T) \in Nat /\ Num(queue[c], T) \in Nat
    BY <1>5 DEF Pieces
  <2>2. Held(T, c)' = Num(updates[c], T) + Num(passing[c], T) + Num(queue[c], T) + 0
    BY <1>2, <1>4 DEF Held
  <2>3. QED BY <1>4, <2>1, <2>2 DEF Held
<1>7. OnTheWay(T, x)' <= OnTheWay(T, x) /\ (c = x => OnTheWay(T, x)' + d <= OnTheWay(T, x))
  BY <1>2, <1>4, <1>6, WayBehind
<1>8. QED BY <1>4, <1>7 DEF e

\* A request sets out.
LEMMA WayRequest ==
  ASSUME Typed, NEW c \in Connections, SendRequest(c), NEW x \in Names, NEW T
  PROVE  OnTheWay(T, x)' <= OnTheWay(T, x) + Bit(RequestOf(c), T)
<1> DEFINE e == RequestOf(c)
           m == "cluster"
           k == MgrOf(x)
<1>1. inbox' = [inbox EXCEPT ![m] = Append(@, e)] /\ UNCHANGED <<toLoad, hand, updates, passing, queue, busy, locked>>
  BY DEF SendRequest, start, clusters, member, RequestOf
<1>2. m \in Managers /\ e \in InletOf(file, m) /\ inbox[m] \in Seq(InletOf(file, m)) /\ DOMAIN inbox = Managers
  BY ConnectionAssumption DEF Managers, InletOf, MessageTo, Typed
<1>3. Num(inbox[k], T) \in Nat /\ Bit(e, T) \in {0, 1}
  BY WayNat, BitNat
<1>4. Num(inbox'[k], T) <= Num(inbox[k], T) + Bit(e, T) /\ Num(inbox'[k], T) \in Nat
  <2>1. CASE k = m
    <3>1. inbox'[k] = Append(inbox[m], e)
      BY <1>1, <1>2, <2>1
    <3>2. Num(Append(inbox[m], e), T) = Num(inbox[m], T) + Bit(e, T)
      BY <1>2, NumAppend
    <3>3. QED BY <1>3, <2>1, <3>1, <3>2
  <2>2. CASE k # m
    <3>1. inbox'[k] = inbox[k]
      BY <1>1, <1>2, <2>2, Managing
    <3>2. QED BY <1>3, <3>1
  <2>3. QED BY <2>1, <2>2
<1>5. Behind(T, x)' = Behind(T, x)
  BY <1>1 DEF Behind
<1>6. /\ Num(toLoad, T) \in Nat /\ Num(hand[k], T) \in Nat /\ Num(updates[x], T) \in Nat /\ Behind(T, x) \in Nat
  BY WayNat
<1> HIDE DEF e
<1>7. OnTheWay(T, x)' = Num(toLoad, T) + Num(inbox'[k], T) + Num(hand[k], T) + Num(updates[x], T) + Behind(T, x)
  BY <1>1, <1>5 DEF OnTheWay
<1>8. OnTheWay(T, x) = Num(toLoad, T) + Num(inbox[k], T) + Num(hand[k], T) + Num(updates[x], T) + Behind(T, x)
  BY DEF OnTheWay
<1> HIDE DEF k
<1>9. OnTheWay(T, x)' <= OnTheWay(T, x) + Bit(e, T)
  BY <1>3, <1>4, <1>6, <1>7, <1>8
<1>10. QED BY <1>9 DEF e

LEMMA WayInt == Typed => \A x \in Names : \A T : OnTheWay(T, x) \in Nat
BY WayNat

LEMMA WayIntNext == Typed' => \A x \in Names : \A T : OnTheWay(T, x)' \in Nat
<1>1. (Typed => \A x \in Names : \A T : OnTheWay(T, x) \in Nat)'
  BY WayInt, PTL
<1>2. QED BY <1>1

LEMMA CountedKept ==
  ASSUME Typed, Typed', Counted, UNCHANGED <<file, known>>,
         \A x \in Names : \A T \in SUBSET MessageTo(file, x) : OnTheWay(T, x)' <= OnTheWay(T, x),
         \A c \in Connections : conn[c] = "sent" => conn'[c] = "sent"
  PROVE  Counted'
<1>1. PICK f \in Files : f = file
  BY DEF Typed
<1>2. ASSUME NEW x \in Names
      PROVE  OnTheWay(ConfigTo(f, x), x)' + (IF x \in known THEN 1 ELSE 0) <= Due(f, x)
  <2>1. ConfigTo(f, x) \in SUBSET MessageTo(file, x)
    BY <1>1 DEF MessageTo
  <2>2. OnTheWay(ConfigTo(f, x), x)' <= OnTheWay(ConfigTo(f, x), x)
    BY <2>1
  <2>3. OnTheWay(ConfigTo(f, x), x)' \in Nat /\ OnTheWay(ConfigTo(f, x), x) \in Nat
    BY WayInt, WayIntNext
  <2>4. OnTheWay(ConfigTo(f, x), x) + (IF x \in known THEN 1 ELSE 0) <= Due(f, x)
    BY <1>1 DEF Counted, ListedFor
  <2>5. Due(f, x) \in Nat
    BY <1>1, FileFacts DEF Due, Typed
  <2>6. QED BY <2>2, <2>3, <2>4, <2>5
<1>3. ASSUME NEW c \in Connections PROVE OnTheWay({RequestOf(c)}, For[c])' <= IF conn'[c] = "sent" THEN 1 ELSE 0
  <2>1. For[c] \in Names /\ {RequestOf(c)} \in SUBSET MessageTo(file, For[c])
    BY ConnectionAssumption DEF Names, MessageTo
  <2>2. OnTheWay({RequestOf(c)}, For[c])' <= OnTheWay({RequestOf(c)}, For[c])
    BY <2>1
  <2>3. OnTheWay({RequestOf(c)}, For[c])' \in Nat /\ OnTheWay({RequestOf(c)}, For[c]) \in Nat
    BY <2>1, WayInt, WayIntNext
  <2>4. OnTheWay({RequestOf(c)}, For[c]) <= IF conn[c] = "sent" THEN 1 ELSE 0
    BY DEF Counted
  <2>5. QED BY <2>2, <2>3, <2>4
<1>4. ListedFor(f)'
  BY <1>1, <1>2 DEF ListedFor
<1>5. QED BY <1>1, <1>3, <1>4 DEF Counted

LEMMA WaySame ==
  ASSUME Typed, UNCHANGED <<toLoad, inbox, hand, updates, passing, queue, busy>>, NEW x \in Names, NEW T
  PROVE  OnTheWay(T, x)' <= OnTheWay(T, x)
<1>1. OnTheWay(T, x)' = OnTheWay(T, x)
  BY DEF OnTheWay, Behind
<1>2. OnTheWay(T, x) \in Nat
  BY WayInt
<1>3. QED BY <1>1, <1>2

\* A request that is on its way is of a connection that waits for it.
LEMMA OnTheWayIsSent ==
  ASSUME Typed, Counted, NEW c \in Connections, NEW n \in Nat, n + 1 <= OnTheWay({RequestOf(c)}, For[c])
  PROVE  conn[c] = "sent" /\ n = 0
<1>1. OnTheWay({RequestOf(c)}, For[c]) <= IF conn[c] = "sent" THEN 1 ELSE 0
  BY DEF Counted
<1>2. OnTheWay({RequestOf(c)}, For[c]) \in Nat
  BY WayInt, ConnectionAssumption DEF Names
<1>3. QED BY <1>1, <1>2

\* The request of c has arrived and there is no second one.
LEMMA CountedAnswered ==
  ASSUME Typed, Typed', Counted, UNCHANGED <<file, known>>, NEW c \in Connections,
         \A x \in Names : \A T \in SUBSET MessageTo(file, x) : OnTheWay(T, x)' <= OnTheWay(T, x),
         OnTheWay({RequestOf(c)}, For[c])' + 1 <= OnTheWay({RequestOf(c)}, For[c]),
         \A d \in Connections : d # c => conn'[d] = conn[d]
  PROVE  Counted' /\ conn[c] = "sent"
<1>1. PICK f \in Files : f = file
  BY DEF Typed
<1>2. OnTheWay({RequestOf(c)}, For[c])' \in Nat
  BY WayIntNext, ConnectionAssumption DEF Names
<1>3. conn[c] = "sent" /\ OnTheWay({RequestOf(c)}, For[c])' = 0
  BY <1>2, OnTheWayIsSent
<1>4. ASSUME NEW x \in Names
      PROVE  OnTheWay(ConfigTo(f, x), x)' + (IF x \in known THEN 1 ELSE 0) <= Due(f, x)
  <2>1. ConfigTo(f, x) \in SUBSET MessageTo(file, x)
    BY <1>1 DEF MessageTo
  <2>2. OnTheWay(ConfigTo(f, x), x)' <= OnTheWay(ConfigTo(f, x), x)
    BY <2>1
  <2>3. OnTheWay(ConfigTo(f, x), x)' \in Nat /\ OnTheWay(ConfigTo(f, x), x) \in Nat
    BY WayInt, WayIntNext
  <2>4. OnTheWay(ConfigTo(f, x), x) + (IF x \in known THEN 1 ELSE 0) <= Due(f, x)
    BY <1>1 DEF Counted, ListedFor
  <2>5. Due(f, x) \in Nat
    BY <1>1, FileFacts DEF Due, Typed
  <2>6. QED BY <2>2, <2>3, <2>4, <2>5
<1>5. ASSUME NEW d \in Connections PROVE OnTheWay({RequestOf(d)}, For[d])' <= IF conn'[d] = "sent" THEN 1 ELSE 0
  <2>1. CASE d = c
    BY <1>3, <2>1
  <2>2. CASE d # c
    <3>1. For[d] \in Names /\ {RequestOf(d)} \in SUBSET MessageTo(file, For[d])
      BY ConnectionAssumption DEF Names, MessageTo
    <3>2. OnTheWay({RequestOf(d)}, For[d])' <= OnTheWay({RequestOf(d)}, For[d])
      BY <3>1
    <3>3. OnTheWay({RequestOf(d)}, For[d])' \in Nat /\ OnTheWay({RequestOf(d)}, For[d]) \in Nat
      BY <3>1, WayInt, WayIntNext
    <3>4. OnTheWay({RequestOf(d)}, For[d]) <= IF conn'[d] = "sent" THEN 1 ELSE 0
      BY <2>2 DEF Counted
    <3>5. QED BY <3>2, <3>3, <3>4
  <2>3. QED BY <2>1, <2>2
<1>6. ListedFor(f)'
  BY <1>1, <1>4 DEF ListedFor
<1>7. QED BY <1>1, <1>3, <1>5, <1>6 DEF Counted

\* A request is answered and its connection leaves "sent".
Answered(how) ==
  \E c \in Connections : conn[c] = "sent" /\ conn' = [conn EXCEPT ![c] = how]
                         /\ (how = "served" => For[c] \in known)

LEMMA CountedSpawned ==
  ASSUME Typed, Typed', Counted, UNCHANGED <<file, conn>>, NEW y \in Names \ known, known' = known \cup {y},
         \A x \in Names : \A T \in SUBSET MessageTo(file, x) : OnTheWay(T, x)' <= OnTheWay(T, x),
         \A T \in SUBSET MessageTo(file, y) : ConfigTo(file, y) \subseteq T => OnTheWay(T, y)' + 1 <= OnTheWay(T, y)
  PROVE  Counted'
<1>1. PICK f \in Files : f = file
  BY DEF Typed
<1>2. ASSUME NEW x \in Names
      PROVE  OnTheWay(ConfigTo(f, x), x)' + (IF x \in known' THEN 1 ELSE 0) <= Due(f, x)
  <2>1. ConfigTo(f, x) \in SUBSET MessageTo(file, x)
    BY <1>1 DEF MessageTo
  <2>2. OnTheWay(ConfigTo(f, x), x)' <= OnTheWay(ConfigTo(f, x), x)
    BY <2>1
  <2>3. OnTheWay(ConfigTo(f, x), x)' \in Nat /\ OnTheWay(ConfigTo(f, x), x) \in Nat
    BY WayInt, WayIntNext
  <2>4. OnTheWay(ConfigTo(f, x), x) + (IF x \in known THEN 1 ELSE 0) <= Due(f, x)
    BY <1>1 DEF Counted, ListedFor
  <2>5. Due(f, x) \in Nat
    BY <1>1, FileFacts DEF Due, Typed
  <2>6. CASE x = y
    <3>1. OnTheWay(ConfigTo(f, x), x)' + 1 <= OnTheWay(ConfigTo(f, x), x)
      BY <1>1, <2>1, <2>6
    <3>2. QED BY <3>1, <2>3, <2>4, <2>5, <2>6
  <2>7. CASE x # y
    BY <2>2, <2>3, <2>4, <2>5, <2>7
  <2>8. QED BY <2>6, <2>7
<1>3. ASSUME NEW c \in Connections PROVE OnTheWay({RequestOf(c)}, For[c])' <= IF conn'[c] = "sent" THEN 1 ELSE 0
  <2>1. For[c] \in Names /\ {RequestOf(c)} \in SUBSET MessageTo(file, For[c])
    BY ConnectionAssumption DEF Names, MessageTo
  <2>2. OnTheWay({RequestOf(c)}, For[c])' <= OnTheWay({RequestOf(c)}, For[c])
    BY <2>1
  <2>3. OnTheWay({RequestOf(c)}, For[c])' \in Nat /\ OnTheWay({RequestOf(c)}, For[c]) \in Nat
    BY <2>1, WayInt, WayIntNext
  <2>4. OnTheWay({RequestOf(c)}, For[c]) <= IF conn[c] = "sent" THEN 1 ELSE 0
    BY DEF Counted
  <2>5. QED BY <2>2, <2>3, <2>4
<1>4. ListedFor(f)'
  BY <1>1, <1>2 DEF ListedFor
<1>5. QED BY <1>1, <1>3, <1>4 DEF Counted

LEMMA CountedReceives ==
  ASSUME Typed, Typed', Ordered, Counted, NEW m \in Managers, ManagerReceives(m), DOMAIN conn = Connections
  PROVE  Counted' /\ (UNCHANGED conn \/ Answered("notfound"))
<1>1. PICK e : e = Head(inbox[m])
  OBVIOUS
<1>2. inbox[m] # <<>> /\ e \in InletOf(file, m) /\ UNCHANGED file
  BY <1>1, TypedReceives DEF ManagerReceives
<1>3. \A x \in Names : \A T \in SUBSET MessageTo(file, x) : OnTheWay(T, x)' <= OnTheWay(T, x)
  BY WayReceives
<1>4. CASE UNCHANGED <<known, conn>>
  BY <1>2, <1>3, <1>4, CountedKept
<1>5. CASE e.type = "config" /\ e.to \notin known /\ known' = known \cup {e.to} /\ UNCHANGED conn
  <2>1. PICK y : y = e.to
    OBVIOUS
  <2>2. y \in Names \ known /\ e \in ConfigTo(file, y)
    BY <1>1, <1>2, <1>5, <2>1, SpawnsFirst
  <2>3. \A T \in SUBSET MessageTo(file, y) : ConfigTo(file, y) \subseteq T => OnTheWay(T, y)' + 1 <= OnTheWay(T, y)
    BY <1>1, <2>2, WayReceives
  <2>4. known' = known \cup {y}
    BY <1>5, <2>1
  <2>5. Counted'
    BY <1>2, <1>3, <1>5, <2>2, <2>3, <2>4, CountedSpawned
  <2>6. QED BY <1>5, <2>5
<1>6. CASE e.type = "request" /\ e.to \notin known /\ conn' = [conn EXCEPT ![e.config] = "notfound"] /\ UNCHANGED known
  <2>1. PICK c : c = e.config
    OBVIOUS
  <2>2. ~Tls(e)
    BY <1>6 DEF Tls
  <2>3. e.to \in Names /\ e \in MessageTo(file, e.to)
    BY <1>2, <2>2, InletIs
  <2>4. c \in Connections /\ For[c] = e.to /\ e = RequestOf(c)
    BY <1>6, <2>1, <2>3, MessageIs
  <2>5. OnTheWay({RequestOf(c)}, For[c])' + 1 <= OnTheWay({RequestOf(c)}, For[c])
    BY <1>1, <1>6, <2>3, <2>4, WayReceives
  <2>6. conn' = [conn EXCEPT ![c] = "notfound"] /\ \A d \in Connections : d # c => conn'[d] = conn[d]
    BY <1>6, <2>1
  <2>7. Counted' /\ conn[c] = "sent"
    BY <1>2, <1>3, <1>6, <2>4, <2>5, <2>6, CountedAnswered
  <2>8. QED BY <2>4, <2>6, <2>7 DEF Answered
<1>7. QED BY <1>1, <1>4, <1>5, <1>6 DEF ManagerReceives, Spawned

\* A request leaves by its member, or because there is none for it.
LEMMA CountedLeaves ==
  ASSUME Typed, Typed', Counted, UNCHANGED <<file, known>>, NEW c \in Clusters, c \in known, DOMAIN conn = Connections,
         NEW e \in MessageTo(file, c), e.type = "request", NEW how \in {"served", "closed"},
         conn' = [conn EXCEPT ![e.config] = how],
         \A x \in Names : \A T \in SUBSET MessageTo(file, x) : OnTheWay(T, x)' <= OnTheWay(T, x),
         OnTheWay({e}, c)' + 1 <= OnTheWay({e}, c)
  PROVE  Counted' /\ Answered(how)
<1>1. PICK d : d = e.config
  OBVIOUS
<1>2. c \in Names
  BY DEF Names
<1>3. d \in Connections /\ For[d] = c /\ e = RequestOf(d)
  BY <1>1, <1>2, MessageIs
<1>4. OnTheWay({RequestOf(d)}, For[d])' + 1 <= OnTheWay({RequestOf(d)}, For[d])
  BY <1>3
<1>5. conn' = [conn EXCEPT ![d] = how] /\ \A k \in Connections : k # d => conn'[k] = conn[k]
  BY <1>1
<1>6. Counted' /\ conn[d] = "sent"
  BY <1>3, <1>4, <1>5, CountedAnswered
<1>7. QED BY <1>3, <1>5, <1>6 DEF Answered

LEMMA CountedEnds ==
  ASSUME Typed, Typed', Counted, NEW c \in Clusters, MemberEnds(c), DOMAIN conn = Connections
  PROVE  Counted' /\ (UNCHANGED conn \/ Answered("served"))
<1>1. PICK e \in MessageTo(file, c) : busy[c] = <<e>>
  BY DEF MemberEnds, Typed
<1>2. Head(busy[c]) = e /\ c \in Names
  BY <1>1 DEF Names
<1>3. UNCHANGED <<file, known>> /\ c \in known
  <2>1. c \notin known => busy[c] = <<>>
    BY <1>2 DEF Typed
  <2>2. QED BY <1>1, <2>1 DEF MemberEnds, managers
<1>4. \A x \in Names : \A T \in SUBSET MessageTo(file, x) : OnTheWay(T, x)' <= OnTheWay(T, x)
  <2>1. SUFFICES ASSUME NEW x \in Names, NEW T PROVE OnTheWay(T, x)' <= OnTheWay(T, x)
    OBVIOUS
  <2>2. QED BY WayEnds
<1>5. OnTheWay({e}, c)' + 1 <= OnTheWay({e}, c)
  BY <1>2, WayEnds
<1>6. CASE UNCHANGED conn
  BY <1>3, <1>4, <1>6, CountedKept
<1>7. CASE e.type = "request" /\ conn' = [conn EXCEPT ![e.config] = "served"]
  BY <1>3, <1>4, <1>5, <1>7, CountedLeaves
<1>8. QED BY <1>2, <1>6, <1>7 DEF MemberEnds

LEMMA CountedTaken ==
  ASSUME Typed, Typed', Counted, NEW c \in Clusters, ClusterReceives(c), DOMAIN conn = Connections
  PROVE  Counted' /\ (UNCHANGED conn \/ Answered("closed"))
<1>1. PICK e : e = Head(updates[c])
  OBVIOUS
<1>2. updates[c] # <<>> /\ c \in known /\ c \in Names /\ UNCHANGED <<file, known>> /\ passing[c] = <<>>
  BY DEF ClusterReceives, managers, Names
<1>3. e \in MessageTo(file, c)
  <2>1. updates[c] \in Seq(MessageTo(file, c))
    BY <1>2 DEF Typed
  <2>2. QED BY <1>1, <1>2, <2>1
<1>4. \A x \in Names : \A T \in SUBSET MessageTo(file, x) : OnTheWay(T, x)' <= OnTheWay(T, x)
  <2>1. SUFFICES ASSUME NEW x \in Names, NEW T PROVE OnTheWay(T, x)' <= OnTheWay(T, x)
    OBVIOUS
  <2>2. QED BY WayTaken
<1>5. CASE UNCHANGED conn
  BY <1>2, <1>4, <1>5, CountedKept
<1>6. CASE e.type = "request" /\ conn' = [conn EXCEPT ![e.config] = "closed"] /\ UNCHANGED passing
  <2>1. OnTheWay({e}, c)' + 1 <= OnTheWay({e}, c)
    BY <1>1, <1>2, <1>6, WayTaken
  <2>2. QED BY <1>2, <1>3, <1>4, <1>6, <2>1, CountedLeaves
<1>7. QED BY <1>1, <1>5, <1>6 DEF ClusterReceives

LEMMA CountedRequest ==
  ASSUME Typed, Typed', Counted, NEW c \in Connections, SendRequest(c), DOMAIN conn = Connections
  PROVE  Counted'
<1>1. UNCHANGED <<file, known>> /\ conn[c] = "client" /\ conn' = [conn EXCEPT ![c] = "sent"]
  BY DEF SendRequest
<1>2. PICK f \in Files : f = file
  BY DEF Typed
<1>3. ASSUME NEW x \in Names
      PROVE  OnTheWay(ConfigTo(f, x), x)' + (IF x \in known THEN 1 ELSE 0) <= Due(f, x)
  <2>1. OnTheWay(ConfigTo(f, x), x)' <= OnTheWay(ConfigTo(f, x), x) + Bit(RequestOf(c), ConfigTo(f, x))
    BY WayRequest
  <2>2. Bit(RequestOf(c), ConfigTo(f, x)) = 0
    BY DEF Bit, RequestOf, ConfigTo
  <2>3. OnTheWay(ConfigTo(f, x), x)' \in Nat /\ OnTheWay(ConfigTo(f, x), x) \in Nat
    BY WayInt, WayIntNext
  <2>4. OnTheWay(ConfigTo(f, x), x) + (IF x \in known THEN 1 ELSE 0) <= Due(f, x)
    BY <1>2 DEF Counted, ListedFor
  <2>5. Due(f, x) \in Nat
    BY <1>2, FileFacts DEF Due, Typed
  <2>6. QED BY <2>1, <2>2, <2>3, <2>4, <2>5
<1>4. ASSUME NEW d \in Connections PROVE OnTheWay({RequestOf(d)}, For[d])' <= IF conn'[d] = "sent" THEN 1 ELSE 0
  <2>1. For[d] \in Names
    BY ConnectionAssumption DEF Names
  <2>2. OnTheWay({RequestOf(d)}, For[d])' <= OnTheWay({RequestOf(d)}, For[d]) + Bit(RequestOf(c), {RequestOf(d)})
    BY <2>1, WayRequest
  <2>3. OnTheWay({RequestOf(d)}, For[d])' \in Nat /\ OnTheWay({RequestOf(d)}, For[d]) \in Nat
    BY <2>1, WayInt, WayIntNext
  <2>4. OnTheWay({RequestOf(d)}, For[d]) <= IF conn[d] = "sent" THEN 1 ELSE 0
    BY DEF Counted
  <2>5. CASE d = c
    <3>1. Bit(RequestOf(c), {RequestOf(d)}) \in {0, 1} /\ conn'[d] = "sent" /\ conn[d] # "sent"
      BY <1>1, <2>5, BitNat
    <3>2. QED BY <2>2, <2>3, <2>4, <3>1
  <2>6. CASE d # c
    <3>1. Bit(RequestOf(c), {RequestOf(d)}) = 0 /\ conn'[d] = conn[d]
      BY <1>1, <2>6 DEF Bit, RequestOf
    <3>2. QED BY <2>2, <2>3, <2>4, <3>1
  <2>7. QED BY <2>5, <2>6
<1>5. ListedFor(f)'
  BY <1>1, <1>3 DEF ListedFor
<1>6. QED BY <1>1, <1>2, <1>4, <1>5 DEF Counted
-------------------------------------------------------------------------------
\* The accept loop keeps its handshakes apart.
LEMMA AcceptingKept ==
  ASSUME Accepting, UNCHANGED <<file, handshake, plain, conn>>, known \subseteq known'
  PROVE  Accepting'
<1>1. \A c \in Connections : Entries(file, Through[c])' = Entries(file, Through[c])
  BY ConnectionAssumption DEF Entries, Section
<1>2. CancelledByRepeats'
  BY <1>1 DEF Accepting, CancelledByRepeats
<1>3. QED BY <1>2 DEF Accepting

Moves(c, v) ==
  /\ c \in Connections /\ conn' = [conn EXCEPT ![c] = v]
  /\ v \in {"backlog", "closed", "client", "sent", "served", "notfound"}
  /\ v = "served" => For[c] \in known

\* One connection goes on that is in no handshake.
LEMMA AcceptingMoves ==
  ASSUME Accepting, UNCHANGED <<file, handshake, known>>, plain' \subseteq Connections, NEW c, NEW v, Moves(c, v),
         conn[c] # "handshake"
  PROVE  Accepting'
<1>1. /\ DOMAIN conn = Connections /\ c \in Connections
      /\ \A d \in Connections : conn'[d] = IF d = c THEN v ELSE conn[d]
      /\ v # "cancelled" /\ v # "handshake"
  BY DEF Accepting, Moves
<1>2. \A d \in Connections : Entries(file, Through[d])' = Entries(file, Through[d])
  BY ConnectionAssumption DEF Entries, Section
<1>3. CancelledByRepeats'
  BY <1>1, <1>2 DEF Accepting, CancelledByRepeats
<1>4. conn' \in [Connections -> {"out", "backlog", "handshake", "cancelled", "closed", "client", "sent",
                               "served", "notfound"}]
  BY DEF Accepting, Moves
<1>5. ASSUME NEW l \in Listeners, handshake[l] # Nothing
      PROVE  Through[handshake[l]] = l /\ conn'[handshake[l]] = "handshake"
  <2>1. Through[handshake[l]] = l /\ conn[handshake[l]] = "handshake" /\ handshake[l] \in Connections
    BY <1>5 DEF Accepting
  <2>2. QED BY <1>1, <2>1
<1>6. \A d \in Connections : conn'[d] = "served" => For[d] \in known
  BY <1>1 DEF Accepting, Moves
<1>7. QED BY <1>3, <1>4, <1>5, <1>6 DEF Accepting

LEMMA AcceptingAccept ==
  ASSUME Accepting, NEW l \in Listeners, NEW c \in Connections, Accept(l, c)
  PROVE  Accepting' /\ \A d \in Connections : conn[d] = "sent" => conn'[d] = "sent"
<1>1. /\ handshake[l] = Nothing /\ conn[c] = "backlog" /\ Through[c] = l /\ UNCHANGED <<file, known>>
      /\ DOMAIN conn = Connections
  BY DEF Accept, managers, Accepting
<1>2. CASE handshake' = [handshake EXCEPT ![l] = c] /\ conn' = [conn EXCEPT ![c] = "handshake"] /\ UNCHANGED plain
  <2>1. \A d \in Connections : conn'[d] = IF d = c THEN "handshake" ELSE conn[d]
    BY <1>1, <1>2
  <2>2. \A k \in Listeners : handshake'[k] = IF k = l THEN c ELSE handshake[k]
    BY <1>2 DEF Accepting
  <2>3. \A d \in Connections : Entries(file, Through[d])' = Entries(file, Through[d])
    BY <1>1, ConnectionAssumption DEF Entries, Section
  <2>4. CancelledByRepeats'
    BY <2>1, <2>3 DEF Accepting, CancelledByRepeats
  <2>5. ASSUME NEW k \in Listeners, handshake'[k] # Nothing
        PROVE  Through[handshake'[k]] = k /\ conn'[handshake'[k]] = "handshake"
    <3>1. CASE k = l
      BY <1>1, <2>1, <2>2, <3>1
    <3>2. CASE k # l
      <4>1. Through[handshake[k]] = k /\ conn[handshake[k]] = "handshake" /\ handshake[k] \in Connections
        BY <2>2, <2>5, <3>2 DEF Accepting
      <4>2. QED BY <2>1, <2>2, <3>2, <4>1
    <3>3. QED BY <3>1, <3>2
  <2>6. /\ handshake' \in [Listeners -> Connections \cup {Nothing}] /\ plain' \subseteq Connections
        /\ conn' \in [Connections -> {"out", "backlog", "handshake", "cancelled", "closed", "client", "sent",
                               "served", "notfound"}]
    BY <1>2 DEF Accepting
  <2>7. \A d \in Connections : conn'[d] = "served" => For[d] \in known'
    BY <1>1, <2>1 DEF Accepting
  <2>8. QED BY <1>1, <2>1, <2>4, <2>5, <2>6, <2>7 DEF Accepting
<1>3. CASE UNCHANGED handshake /\ plain' \subseteq Connections /\ \E v \in {"closed", "client"} : conn' = [conn EXCEPT ![c] = v]
  <2>1. PICK v \in {"closed", "client"} : conn' = [conn EXCEPT ![c] = v]
    BY <1>3
  <2>2. Moves(c, v)
    BY <2>1 DEF Moves
  <2>3. Accepting'
    BY <1>1, <1>3, <2>2, AcceptingMoves
  <2>4. QED BY <1>1, <2>1, <2>3
<1>4. UNCHANGED plain \/ plain' = plain \cup {c}
  BY DEF Accept
<1>5. plain' \subseteq Connections
  BY <1>4 DEF Accepting
<1>6. QED BY <1>2, <1>3, <1>5 DEF Accept, HandedOver

LEMMA AcceptingEnds ==
  ASSUME Accepting, NEW l \in Listeners, HandshakeEnds(l)
  PROVE  Accepting' /\ \A d \in Connections : conn[d] = "sent" => conn'[d] = "sent"
<1>1. PICK c : c = handshake[l]
  OBVIOUS
<1>2. /\ c \in Connections /\ Through[c] = l /\ conn[c] = "handshake" /\ UNCHANGED <<file, known, plain>>
      /\ DOMAIN conn = Connections /\ handshake' = [handshake EXCEPT ![l] = Nothing]
  BY <1>1 DEF HandshakeEnds, Accepting, managers
<1>3. PICK v \in {"client", "closed"} : conn' = [conn EXCEPT ![c] = v]
  BY <1>1 DEF HandshakeEnds, HandedOver
<1>4. \A d \in Connections : conn'[d] = IF d = c THEN v ELSE conn[d]
  BY <1>2, <1>3
<1>5. \A k \in Listeners : handshake'[k] = IF k = l THEN Nothing ELSE handshake[k]
  BY <1>2 DEF Accepting
<1>6. \A d \in Connections : Entries(file, Through[d])' = Entries(file, Through[d])
  BY <1>2, ConnectionAssumption DEF Entries, Section
<1>7. CancelledByRepeats'
  BY <1>4, <1>6 DEF Accepting, CancelledByRepeats
<1>8. ASSUME NEW k \in Listeners, handshake'[k] # Nothing
      PROVE  Through[handshake'[k]] = k /\ conn'[handshake'[k]] = "handshake"
  <2>1. k # l /\ handshake'[k] = handshake[k]
    BY <1>5, <1>8
  <2>2. Through[handshake[k]] = k /\ conn[handshake[k]] = "handshake" /\ handshake[k] \in Connections
    BY <1>8, <2>1 DEF Accepting
  <2>3. QED BY <1>2, <1>4, <2>1, <2>2
<1>9. /\ handshake' \in [Listeners -> Connections \cup {Nothing}] /\ plain' \subseteq Connections
      /\ conn' \in [Connections -> {"out", "backlog", "handshake", "cancelled", "closed", "client", "sent",
                               "served", "notfound"}]
  BY <1>2, <1>3 DEF Accepting
<1>10. \A d \in Connections : conn'[d] = "served" => For[d] \in known'
  BY <1>2, <1>4 DEF Accepting
<1>11. QED BY <1>2, <1>4, <1>7, <1>8, <1>9, <1>10 DEF Accepting

\* The update that cancels a handshake is not the first configuration of the listener.
LEMMA AcceptingUpdate ==
  ASSUME Typed, Tasks, Counted, Accepting, NEW l \in Listeners, UpdateListener(l)
  PROVE  Accepting' /\ \A d \in Connections : conn[d] = "sent" => conn'[d] = "sent"
<1>1. /\ UNCHANGED <<file, known, plain>> /\ handshake' = [handshake EXCEPT ![l] = Nothing]
      /\ conn' = [c \in Connections |-> IF c = handshake[l] THEN "cancelled" ELSE conn[c]]
      /\ stage[l] = "run"
  BY DEF UpdateListener, managers
<1>2. handshake[l] \in Connections => Through[handshake[l]] = l /\ conn[handshake[l]] = "handshake"
  BY ConnectionAssumption DEF Accepting
<1>3. \A k \in Listeners : handshake'[k] = IF k = l THEN Nothing ELSE handshake[k]
  BY <1>1 DEF Accepting
<1>4. \A d \in Connections : conn'[d] = IF d = handshake[l] THEN "cancelled" ELSE conn[d]
  BY <1>1
<1>5. Cardinality(Entries(file, l)) > 1
  <2>1. PICK f \in Files : f = file
    BY DEF Typed
  <2>2. l \in Names /\ l \notin Clusters /\ l \in known
    BY <1>1, NameAssumption DEF Names, Tasks
  <2>3. updates[l] # <<>> /\ Head(updates[l]) \in ConfigTo(f, l)
    BY <2>1, ListenerUpdates
  <2>4. Num(updates[l], ConfigTo(f, l)) >= 1
    <3>1. updates[l] \in Seq(MessageTo(file, l))
      BY <2>2 DEF Typed
    <3>2. 1 \in DOMAIN updates[l] /\ Head(updates[l]) = updates[l][1]
      BY <2>3, <3>1
    <3>3. QED BY <2>3, <3>1, <3>2, NumMember
  <2>5. OnTheWay(ConfigTo(f, l), l) >= 1 /\ OnTheWay(ConfigTo(f, l), l) \in Nat
    BY <2>2, <2>4, WayNat DEF OnTheWay
  <2>6. OnTheWay(ConfigTo(f, l), l) + 1 <= Due(f, l)
    BY <2>1, <2>2 DEF Counted, ListedFor
  <2>7. Due(f, l) = Cardinality(Entries(f, l)) /\ Cardinality(Entries(f, l)) \in Nat
    BY <2>2, FileFacts DEF Due
  <2>8. QED BY <2>1, <2>5, <2>6, <2>7
<1>6. \A d \in Connections : Entries(file, Through[d])' = Entries(file, Through[d])
  BY <1>1, ConnectionAssumption DEF Entries, Section
<1>7. CancelledByRepeats'
  BY <1>2, <1>4, <1>5, <1>6 DEF Accepting, CancelledByRepeats
<1>8. ASSUME NEW k \in Listeners, handshake'[k] # Nothing
      PROVE  Through[handshake'[k]] = k /\ conn'[handshake'[k]] = "handshake"
  <2>1. k # l /\ handshake'[k] = handshake[k]
    BY <1>3, <1>8
  <2>2. Through[handshake[k]] = k /\ conn[handshake[k]] = "handshake" /\ handshake[k] \in Connections
    BY <1>8, <2>1 DEF Accepting
  <2>3. QED BY <1>2, <1>4, <2>1, <2>2
<1>9. /\ handshake' \in [Listeners -> Connections \cup {Nothing}] /\ plain' \subseteq Connections
      /\ conn' \in [Connections -> {"out", "backlog", "handshake", "cancelled", "closed", "client", "sent",
                               "served", "notfound"}]
  BY <1>1 DEF Accepting
<1>10. \A d \in Connections : conn'[d] = "served" => For[d] \in known'
  BY <1>1, <1>4 DEF Accepting
<1>11. QED BY <1>1, <1>2, <1>4, <1>7, <1>8, <1>9, <1>10 DEF Accepting

LEMMA AcceptingAnswered ==
  ASSUME Accepting, UNCHANGED <<file, handshake, known, plain>>, NEW how \in {"served", "closed", "notfound"}, Answered(how)
  PROVE  Accepting'
<1>1. PICK c \in Connections : conn[c] = "sent" /\ conn' = [conn EXCEPT ![c] = how] /\ (how = "served" => For[c] \in known)
  BY DEF Answered
<1>2. Moves(c, how)
  BY <1>1 DEF Moves
<1>3. plain' \subseteq Connections
  BY DEF Accepting
<1>4. QED BY <1>1, <1>2, <1>3, AcceptingMoves
-------------------------------------------------------------------------------
\* No step gets more messages on the way, a request that sets out excepted.
Fewer == \A x \in Names : \A T \in SUBSET MessageTo(file, x) : OnTheWay(T, x)' <= OnTheWay(T, x)

LEMMA ConfigKeeps ==
  ASSUME StartIInv, ConfigStep
  PROVE  StartIInv'
<1>1. Typed /\ Ordered /\ Tasks /\ Waiting /\ Counted /\ Accepting
  BY DEF StartIInv
<1>2. Typed' /\ UNCHANGED <<file, known, hand, updates, passing, queue, busy, locked, conn, handshake, plain>>
  BY <1>1, TypedConfig DEF ConfigStep, Load, Loaded, LoadFails, Answer, managers, clusters, member
<1>3. Ordered' /\ Fewer
  <2>1. CASE Load
    BY <1>1, <2>1, OrderedLoad, WayLoad DEF Fewer
  <2>2. CASE ~Load
    <3>1. UNCHANGED <<toLoad, inbox>>
      BY <2>2 DEF ConfigStep, Loaded, LoadFails, Answer, managers, start
    <3>2. QED BY <1>1, <1>2, <3>1, OrderedKept, WaySame DEF Fewer
  <2>3. QED BY <2>1, <2>2
<1>4. Counted'
  BY <1>1, <1>2, <1>3, CountedKept DEF Fewer
<1>5. Accepting'
  BY <1>1, <1>2, AcceptingKept
<1>6. QED BY <1>1, <1>2, <1>3, <1>4, <1>5, TasksAnswer DEF StartIInv

LEMMA ManagerKeeps ==
  ASSUME StartIInv, NEW m \in Managers, ManagerStep(m)
  PROVE  StartIInv'
<1>1. Typed /\ Ordered /\ Tasks /\ Waiting /\ Counted /\ Accepting /\ DOMAIN conn = Connections
  BY DEF StartIInv, Accepting
<1>2. CASE ManagerReceives(m)
  <2>1. Typed' /\ UNCHANGED <<file, handshake, plain>>
    BY <1>1, <1>2, TypedReceives DEF ManagerReceives
  <2>2. Counted' /\ (UNCHANGED conn \/ Answered("notfound"))
    BY <1>1, <1>2, <2>1, CountedReceives
  <2>3. known \subseteq known' /\ (UNCHANGED conn \/ UNCHANGED known)
    BY <1>2 DEF ManagerReceives, Spawned
  <2>4. Accepting'
    BY <1>1, <2>1, <2>2, <2>3, AcceptingKept, AcceptingAnswered
  <2>5. QED BY <1>1, <1>2, <2>1, <2>2, <2>4, OrderedReceives, TasksReceives DEF StartIInv
<1>3. CASE ManagerSends(m)
  <2>1. Typed' /\ UNCHANGED <<file, phase, known, toLoad, inbox, requests, stage, wanted, got, conn, handshake, plain>>
    BY <1>1, <1>3, TypedSends DEF ManagerSends, start, asking
  <2>2. Fewer
    BY <1>1, <1>3, WaySends DEF Fewer
  <2>3. Counted'
    BY <1>1, <2>1, <2>2, CountedKept DEF Fewer
  <2>4. Tasks' /\ Waiting'
    BY <1>1, <2>1, TasksKept, WaitingKept DEF PhaseGoesOn
  <2>5. QED BY <1>1, <2>1, <2>3, <2>4, OrderedKept, AcceptingKept DEF StartIInv
<1>4. QED BY <1>2, <1>3 DEF ManagerStep

LEMMA TaskKeeps ==
  ASSUME StartIInv, NEW x \in Names, (x \in Listeners /\ Bind(x)) \/ Ask(x) \/ Ready(x), Typed'
  PROVE  StartIInv'
<1>1. Typed /\ Ordered /\ Tasks /\ Waiting /\ Counted /\ Accepting
  BY DEF StartIInv
<1>2. UNCHANGED <<file, known, toLoad, inbox, hand, passing, queue, busy, locked, conn, handshake, plain>>
  BY DEF Bind, Ask, Ready, start, managers, clusters, member
<1>3. Fewer
  <2>1. CASE x \in Listeners /\ Bind(x)
    BY <1>1, <2>1, WayListener DEF Fewer
  <2>2. CASE Ask(x) \/ Ready(x)
    <3>1. UNCHANGED updates
      BY <2>2 DEF Ask, Ready
    <3>2. QED BY <1>1, <1>2, <3>1, WaySame DEF Fewer
  <2>3. QED BY <2>1, <2>2
<1>4. Counted'
  BY <1>1, <1>2, <1>3, CountedKept DEF Fewer
<1>5. QED BY <1>1, <1>2, <1>4, OrderedKept, TasksOfOne, AcceptingKept DEF StartIInv

LEMMA AcceptorKeeps ==
  ASSUME StartIInv, NEW l \in Listeners,
         UpdateListener(l) \/ HandshakeEnds(l) \/ \E c \in Connections : Accept(l, c)
  PROVE  StartIInv'
<1>1. Typed /\ Ordered /\ Tasks /\ Waiting /\ Counted /\ Accepting
  BY DEF StartIInv
<1>2. Typed'
  BY <1>1, TypedListener, TypedConnection
<1>3. UNCHANGED <<file, phase, known, toLoad, inbox, hand, requests, stage, wanted, passing, queue, busy, locked>>
  BY DEF UpdateListener, HandshakeEnds, Accept, start, managers, clusters, member, asking
<1>4. got' = got
  BY <1>1, ListenerUpdates DEF HandshakeEnds, Accept, asking
<1>5. Accepting' /\ \A d \in Connections : conn[d] = "sent" => conn'[d] = "sent"
  BY <1>1, AcceptingUpdate, AcceptingEnds, AcceptingAccept
<1>6. Fewer
  <2>1. CASE UpdateListener(l)
    BY <1>1, <2>1, WayListener DEF Fewer
  <2>2. CASE ~UpdateListener(l)
    <3>1. UNCHANGED updates
      BY <2>2 DEF HandshakeEnds, Accept
    <3>2. QED BY <1>1, <1>3, <3>1, WaySame DEF Fewer
  <2>3. QED BY <2>1, <2>2
<1>7. Counted'
  BY <1>1, <1>2, <1>3, <1>5, <1>6, CountedKept DEF Fewer
<1>8. Tasks' /\ Waiting'
  BY <1>1, <1>3, <1>4, TasksKept, WaitingKept DEF PhaseGoesOn
<1>9. QED BY <1>1, <1>2, <1>3, <1>5, <1>7, <1>8, OrderedKept DEF StartIInv

LEMMA ClusterKeeps ==
  ASSUME StartIInv, NEW c \in Clusters,
         ClusterReceives(c) \/ ClusterSends(c) \/ MemberReceives(c) \/ MemberEnds(c) \/ LocksUp(c)
  PROVE  StartIInv'
<1>1. Typed /\ Ordered /\ Tasks /\ Waiting /\ Counted /\ Accepting /\ DOMAIN conn = Connections
  BY DEF StartIInv, Accepting
<1>2. Typed'
  <2>1. CASE LocksUp(c)
    BY <1>1, <2>1, TypedCluster DEF MemberStep
  <2>2. CASE ~LocksUp(c)
    BY <1>1, <2>2, TypedCluster DEF ClusterStep, MemberStep
  <2>3. QED BY <2>1, <2>2
<1>3. UNCHANGED <<file, phase, known, toLoad, inbox, hand, requests, stage, wanted, got, handshake, plain>>
  BY DEF ClusterReceives, ClusterSends, MemberReceives, MemberEnds, LocksUp, start, managers, asking
<1>4. Counted' /\ (UNCHANGED conn \/ Answered("served") \/ Answered("closed"))
  <2>1. CASE MemberEnds(c)
    BY <1>1, <1>2, <2>1, CountedEnds
  <2>2. CASE ClusterReceives(c)
    BY <1>1, <1>2, <2>2, CountedTaken
  <2>3. CASE ClusterSends(c) \/ MemberReceives(c)
    <3>1. UNCHANGED conn /\ Fewer
      BY <1>1, <1>2, <2>3, WayCluster DEF ClusterSends, MemberReceives, Fewer
    <3>2. QED BY <1>1, <1>2, <1>3, <3>1, CountedKept DEF Fewer
  <2>4. CASE LocksUp(c)
    <3>1. UNCHANGED <<toLoad, inbox, hand, updates, passing, queue, busy>> /\ UNCHANGED conn
      BY <1>3, <2>4 DEF LocksUp
    <3>2. Fewer
      BY <1>1, <3>1, WaySame DEF Fewer
    <3>3. QED BY <1>1, <1>2, <1>3, <3>1, <3>2, CountedKept DEF Fewer
  <2>5. QED BY <2>1, <2>2, <2>3, <2>4
<1>5. Accepting'
  BY <1>1, <1>3, <1>4, AcceptingKept, AcceptingAnswered
<1>6. Tasks' /\ Waiting'
  BY <1>1, <1>3, TasksKept, WaitingKept DEF PhaseGoesOn
<1>7. QED BY <1>1, <1>2, <1>3, <1>4, <1>5, <1>6, OrderedKept DEF StartIInv

LEMMA ConnectionKeeps ==
  ASSUME StartIInv, NEW c \in Connections, Connect(c) \/ SendRequest(c)
  PROVE  StartIInv'
<1>1. Typed /\ Ordered /\ Tasks /\ Waiting /\ Counted /\ Accepting /\ DOMAIN conn = Connections
  BY DEF StartIInv, Accepting
<1>2. Typed'
  BY <1>1, TypedConnection
<1>3. UNCHANGED <<file, phase, known, toLoad, hand, updates, requests, stage, wanted, got, passing, queue, busy, locked, handshake, plain>>
  BY DEF Connect, SendRequest, start, managers, asking, clusters, member
<1>4. PICK v \in {"backlog", "sent"} : conn' = [conn EXCEPT ![c] = v]
  BY DEF Connect, SendRequest
<1>5. conn[c] \in {"out", "client"}
  BY DEF Connect, SendRequest
<1>6. Accepting'
  <2>1. Moves(c, v) /\ plain' \subseteq Connections
    BY <1>1, <1>3, <1>4 DEF Moves, Accepting
  <2>2. QED BY <1>1, <1>3, <1>5, <2>1, AcceptingMoves
<1>7. Tasks' /\ Waiting'
  BY <1>1, <1>3, TasksKept, WaitingKept DEF PhaseGoesOn
<1>8. Ordered' /\ Counted'
  <2>1. CASE SendRequest(c)
    BY <1>1, <1>2, <2>1, OrderedRequest, CountedRequest
  <2>2. CASE Connect(c)
    <3>1. UNCHANGED inbox
      BY <2>2 DEF Connect, managers
    <3>2. Fewer
      BY <1>1, <1>3, <3>1, WaySame DEF Fewer
    <3>3. \A d \in Connections : conn[d] = "sent" => conn'[d] = "sent"
      BY <1>1, <1>4, <1>5
    <3>4. QED BY <1>1, <1>2, <1>3, <3>1, <3>2, <3>3, OrderedKept, CountedKept DEF Fewer
  <2>3. QED BY <2>1, <2>2
<1>9. QED BY <1>2, <1>6, <1>7, <1>8 DEF StartIInv

LEMMA NothingKeeps ==
  ASSUME StartIInv, UNCHANGED vars
  PROVE  StartIInv'
<1>1. Typed /\ Ordered /\ Tasks /\ Waiting /\ Counted /\ Accepting
  BY DEF StartIInv
<1>2. /\ UNCHANGED <<file, phase, known, toLoad, inbox, hand, requests, stage, wanted, got, updates, passing, queue, busy, locked>>
      /\ UNCHANGED <<conn, handshake, plain>>
  BY DEF vars, start, managers, asking, clusters, member
<1>3. Typed'
  BY <1>1, <1>2, TypedKept
<1>4. Counted'
  BY <1>1, <1>2, <1>3, WaySame, CountedKept
<1>5. QED BY <1>1, <1>2, <1>3, <1>4, OrderedKept, TasksKept, WaitingKept, AcceptingKept DEF StartIInv, PhaseGoesOn

LEMMA StartKeeps == StartIInv /\ [Next]_vars => StartIInv'
<1> SUFFICES ASSUME StartIInv, [Next]_vars PROVE StartIInv'
  OBVIOUS
<1>1. CASE UNCHANGED vars
  BY <1>1, NothingKeeps
<1>2. CASE ConfigStep
  BY <1>2, ConfigKeeps
<1>3. ASSUME NEW m \in Managers, ManagerStep(m) PROVE StartIInv'
  BY <1>3, ManagerKeeps
<1>4. ASSUME NEW l \in Listeners, ListenerStep(l) \/ (\E c \in Connections : Accept(l, c)) \/ HandshakeEnds(l)
      PROVE  StartIInv'
  <2>1. CASE UpdateListener(l) \/ HandshakeEnds(l) \/ \E c \in Connections : Accept(l, c)
    BY <2>1, AcceptorKeeps
  <2>2. CASE Bind(l) \/ Ask(l) \/ Ready(l)
    <3>1. Typed' /\ l \in Names
      BY <2>2, TypedListener DEF StartIInv, Names
    <3>2. QED BY <2>2, <3>1, TaskKeeps
  <2>3. QED BY <1>4, <2>1, <2>2 DEF ListenerStep
<1>5. ASSUME NEW c \in Clusters, ClusterStep(c) \/ MemberStep(c) \/ MemberEnds(c) PROVE StartIInv'
  <2>1. CASE ClusterReceives(c) \/ ClusterSends(c) \/ MemberReceives(c) \/ MemberEnds(c) \/ LocksUp(c)
    BY <2>1, ClusterKeeps
  <2>2. CASE Ask(c) \/ Ready(c)
    <3>1. Typed' /\ c \in Names
      BY <1>5, TypedCluster DEF StartIInv, Names
    <3>2. QED BY <2>2, <3>1, TaskKeeps
  <2>3. QED BY <1>5, <2>1, <2>2 DEF ClusterStep, MemberStep
<1>6. ASSUME NEW c \in Connections, Connect(c) \/ SendRequest(c) PROVE StartIInv'
  BY <1>6, ConnectionKeeps
<1>7. QED BY <1>1, <1>2, <1>3, <1>4, <1>5, <1>6 DEF Next
-------------------------------------------------------------------------------
\* A listener has come across a TLS preprocessor when it waits for an answer, or has
\* asked for all of its names, one at least.
UsedTls(l) ==
  /\ use_tls[l] => TlsNames(l) # <<>>
  /\ wanted[l] = <<>> /\ TlsNames(l) # <<>> => use_tls[l]
  /\ stage[l] = "waiting" => use_tls[l]
TlsInUse ==
  /\ use_tls \in [Listeners -> BOOLEAN]
  /\ \A l \in Listeners : IF l \in known THEN UsedTls(l) ELSE ~use_tls[l]
  /\ \A c \in plain : TlsNames(Through[c]) = <<>>

StaysAs(l) == wanted'[l] = wanted[l] /\ (stage'[l] = "waiting" => stage[l] = "waiting")

\* Nothing new is reached: a listener whose names become fewer, or which begins to wait,
\* has reached one before.
LEMMA UseKept ==
  ASSUME TlsInUse, UNCHANGED <<file, known, use_tls, plain>>,
         \A l \in Listeners : l \in known => use_tls[l] \/ StaysAs(l)
  PROVE  TlsInUse'
<1>1. \A x : TlsNames(x)' = TlsNames(x)
  BY FileSays
<1>2. ASSUME NEW l \in Listeners, l \in known PROVE UsedTls(l)'
  <2>1. UsedTls(l)
    BY <1>2 DEF TlsInUse
  <2>2. QED BY <1>1, <1>2, <2>1 DEF UsedTls, StaysAs
<1>3. QED BY <1>1, <1>2 DEF TlsInUse

LEMMA UseRefused ==
  ASSUME StartIInv, TlsInUse, UNCHANGED <<file, known, use_tls, plain>>, NEW R, Refused(R), \A x \in R : stage[x] = "waiting"
  PROVE  TlsInUse'
<1>1. ASSUME NEW l \in Listeners, l \in known, ~use_tls[l]
      PROVE  StaysAs(l)
  <2>1. stage[l] # "waiting" /\ l \in Names
    BY <1>1 DEF TlsInUse, UsedTls, Names
  <2>2. l \notin R
    BY <2>1
  <2>3. QED BY <2>1, <2>2 DEF Refused, StaysAs
<1>2. QED BY <1>1, UseKept

LEMMA UseConfig ==
  ASSUME StartIInv, TlsInUse, ConfigStep
  PROVE  TlsInUse'
<1>1. UNCHANGED <<file, known, use_tls, plain>>
  BY DEF ConfigStep, Load, Loaded, LoadFails, Answer, managers, asking
<1>2. \A i \in DOMAIN requests : stage[requests[i]] = "waiting"
  BY DEF StartIInv, Waiting
<1>3. CASE Load \/ Loaded
  <2>1. UNCHANGED <<wanted, stage>>
    BY <1>3 DEF Load, Loaded, asking
  <2>2. QED BY <1>1, <2>1, UseKept DEF StaysAs
<1>4. CASE LoadFails
  <2>1. Refused(ToSet(requests)) /\ \A x \in ToSet(requests) : stage[x] = "waiting"
    BY <1>2, <1>4 DEF LoadFails, ToSet
  <2>2. QED BY <1>1, <2>1, UseRefused
<1>5. CASE Answer
  <2>1. PICK x : x = Head(requests)
    OBVIOUS
  <2>2. stage[x] = "waiting"
    <3>1. requests \in Seq(known) /\ requests # <<>>
      BY <1>5 DEF Answer, StartIInv, Waiting
    <3>2. 1 \in DOMAIN requests /\ x = requests[1]
      BY <2>1, <3>1
    <3>3. QED BY <1>2, <3>2
  <2>3. CASE Refused({x})
    BY <1>1, <2>2, <2>3, UseRefused
  <2>4. CASE stage' = [stage EXCEPT ![x] = "ask"] /\ wanted' = [wanted EXCEPT ![x] = <<>>]
    <3>1. ASSUME NEW l \in Listeners, l \in known, ~use_tls[l]
          PROVE  StaysAs(l)
      <4>1. l # x
        BY <2>2, <3>1 DEF TlsInUse, UsedTls
      <4>2. l \in Names /\ DOMAIN stage = Names /\ DOMAIN wanted = Names
        BY DEF Names, StartIInv, Tasks
      <4>3. QED BY <2>4, <4>1, <4>2 DEF StaysAs
    <3>2. QED BY <1>1, <3>1, UseKept
  <2>5. QED BY <1>5, <2>1, <2>3, <2>4 DEF Answer
<1>6. QED BY <1>3, <1>4, <1>5 DEF ConfigStep

LEMMA UseManager ==
  ASSUME StartIInv, TlsInUse, NEW m \in Managers, ManagerStep(m)
  PROVE  TlsInUse'
<1>1. UNCHANGED <<file, use_tls, plain>> /\ DOMAIN stage = Names /\ DOMAIN wanted = Names
  BY DEF ManagerStep, ManagerReceives, ManagerSends, asking, StartIInv, Tasks
<1>2. CASE UNCHANGED <<known, stage, wanted>>
  BY <1>1, <1>2, UseKept DEF StaysAs
<1>3. CASE ~UNCHANGED <<known, stage, wanted>>
  <2>1. ManagerReceives(m)
    BY <1>3 DEF ManagerStep, ManagerSends, asking
  <2>2. PICK x : x = Head(inbox[m]).to
    OBVIOUS
  <2>3. inbox[m] # <<>> /\ Head(inbox[m]).type = "config" /\ x \notin known /\ Spawned(x, Head(inbox[m]).config)
    BY <1>3, <2>1, <2>2 DEF ManagerReceives
  <2>4. x \in Names /\ Head(inbox[m]).config = First(x)
    BY <2>2, <2>3, SpawnsFirst DEF StartIInv
  <2>5. /\ stage' = [stage EXCEPT ![x] = IF x \in Listeners THEN "bind" ELSE "ask"]
        /\ wanted' = [wanted EXCEPT ![x] = TlsNames(x)] /\ known' = known \cup {x}
    BY <2>3, <2>4 DEF Spawned, TlsNames
  <2>6. \A y : TlsNames(y)' = TlsNames(y)
    BY <1>1, FileSays
  <2>7. ASSUME NEW l \in Listeners PROVE IF l \in known' THEN UsedTls(l)' ELSE ~use_tls[l]
    <3>1. l \in Names
      BY DEF Names
    <3>2. CASE l = x
      <4>1. wanted'[l] = TlsNames(l) /\ stage'[l] = "bind" /\ ~use_tls[l]
        BY <1>1, <2>3, <2>5, <3>1, <3>2 DEF TlsInUse
      <4>2. QED BY <1>1, <2>5, <2>6, <3>2, <4>1 DEF UsedTls
    <3>3. CASE l # x
      <4>1. wanted'[l] = wanted[l] /\ stage'[l] = stage[l] /\ (l \in known' <=> l \in known)
        BY <1>1, <2>5, <3>1, <3>3
      <4>2. IF l \in known THEN UsedTls(l) ELSE ~use_tls[l]
        BY DEF TlsInUse
      <4>3. QED BY <1>1, <2>6, <4>1, <4>2 DEF UsedTls
    <3>4. QED BY <3>2, <3>3
  <2>8. QED BY <1>1, <2>6, <2>7 DEF TlsInUse
<1>4. QED BY <1>2, <1>3

\* A name that is asked for is one of those the file gives.
LEMMA UseAsk ==
  ASSUME StartIInv, TlsInUse, NEW x \in Names, Ask(x)
  PROVE  TlsInUse'
<1>1. UNCHANGED <<file, known, plain>> /\ wanted[x] # <<>> /\ stage[x] = "ask" /\ Reached(x)
  BY DEF Ask, managers
<1>2. \A y : TlsNames(y)' = TlsNames(y)
  BY <1>1, FileSays
<1>3. TlsNames(x) # <<>>
  <2>1. Asking(x)
    BY <1>1 DEF StartIInv, Tasks
  <2>2. Len(wanted[x]) <= Len(TlsNames(x)) /\ wanted[x] \in Seq(ToSet(TlsNames(x)))
    BY <1>1, <2>1 DEF Asking, AskedInVain
  <2>3. QED BY <1>1, <2>2
<1>4. x \in known
  BY <1>1 DEF StartIInv, Tasks
<1>5. use_tls' \in [Listeners -> BOOLEAN] /\ \A l \in Listeners : use_tls'[l] <=> (l = x \/ use_tls[l])
  BY <1>1 DEF Reached, TlsInUse
<1>6. ASSUME NEW l \in Listeners PROVE IF l \in known THEN UsedTls(l)' ELSE ~use_tls'[l]
  <2>1. CASE l = x
    BY <1>2, <1>3, <1>4, <1>5, <2>1 DEF UsedTls
  <2>2. CASE l # x
    <3>1. l \in Names /\ DOMAIN stage = Names /\ DOMAIN wanted = Names
      BY DEF Names, StartIInv, Tasks
    <3>2. wanted'[l] = wanted[l] /\ stage'[l] = stage[l]
      BY <2>2, <3>1 DEF Ask, Refused
    <3>3. IF l \in known THEN UsedTls(l) ELSE ~use_tls[l]
      BY DEF TlsInUse
    <3>4. QED BY <1>2, <1>5, <2>2, <3>2, <3>3 DEF UsedTls
  <2>3. QED BY <2>1, <2>2
<1>7. QED BY <1>1, <1>2, <1>5, <1>6 DEF TlsInUse

\* The loop is reached when all the names are asked for: who is then served without TLS
\* has none in the file.
LEMMA UseRuns ==
  ASSUME StartIInv, TlsInUse, NEW l \in Listeners, stage[l] = "run"
  PROVE  use_tls[l] <=> TlsNames(l) # <<>>
<1>1. l \in Names /\ l \in known
  BY DEF Names, StartIInv, Tasks
<1>2. Asking(l) /\ UsedTls(l)
  BY <1>1 DEF StartIInv, Tasks, TlsInUse
<1>3. QED BY <1>2 DEF Asking, UsedTls

LEMMA UseListener ==
  ASSUME StartIInv, TlsInUse, NEW l \in Listeners,
         Bind(l) \/ Ready(l) \/ UpdateListener(l) \/ HandshakeEnds(l) \/ \E c \in Connections : Accept(l, c)
  PROVE  TlsInUse'
<1>1. UNCHANGED <<file, known, use_tls, wanted>> /\ DOMAIN stage = Names
  BY DEF Bind, Ready, UpdateListener, HandshakeEnds, Accept, managers, asking, StartIInv, Tasks
<1>2. \A k \in Listeners : stage'[k] = "waiting" => stage[k] = "waiting"
  BY <1>1 DEF Bind, Ready, UpdateListener, HandshakeEnds, Accept, asking, Names
<1>3. CASE UNCHANGED plain
  BY <1>1, <1>2, <1>3, UseKept DEF StaysAs
<1>4. CASE ~UNCHANGED plain
  <2>1. PICK c \in Connections : Accept(l, c)
    BY <1>4 DEF Bind, Ready, UpdateListener, HandshakeEnds
  <2>2. stage[l] = "run" /\ Through[c] = l /\ ~use_tls[l] /\ plain' = plain \cup {c} /\ stage' = stage
    BY <1>4, <2>1 DEF Accept, asking
  <2>3. TlsNames(l) = <<>>
    BY <2>2, UseRuns
  <2>4. \A y : TlsNames(y)' = TlsNames(y)
    BY <1>1, FileSays
  <2>5. \A d \in plain' : TlsNames(Through[d])' = <<>>
    BY <2>2, <2>3, <2>4 DEF TlsInUse
  <2>6. \A k \in Listeners : IF k \in known THEN UsedTls(k)' ELSE ~use_tls[k]
    BY <1>1, <2>2, <2>4 DEF TlsInUse, UsedTls
  <2>7. QED BY <1>1, <2>5, <2>6 DEF TlsInUse
<1>5. QED BY <1>3, <1>4

LEMMA UseCluster ==
  ASSUME StartIInv, TlsInUse, NEW c \in Clusters, ClusterStep(c) \/ MemberStep(c) \/ MemberEnds(c)
  PROVE  TlsInUse'
<1>1. c \in Names /\ c \notin Listeners
  BY NameAssumption DEF Names
<1>2. CASE Ask(c)
  BY <1>1, <1>2, UseAsk
<1>3. CASE Ready(c)
  <2>1. UNCHANGED <<file, known, use_tls, wanted, plain>> /\ DOMAIN stage = Names
    BY <1>3 DEF Ready, managers, StartIInv, Tasks
  <2>2. \A k \in Listeners : stage'[k] = stage[k]
    BY <1>1, <1>3, <2>1 DEF Ready, Names
  <2>3. QED BY <2>1, <2>2, UseKept DEF StaysAs
<1>4. CASE ClusterReceives(c) \/ ClusterSends(c) \/ MemberReceives(c) \/ MemberEnds(c) \/ LocksUp(c)
  <2>1. UNCHANGED <<file, known, use_tls, wanted, stage, plain>>
    BY <1>4 DEF ClusterReceives, ClusterSends, MemberReceives, MemberEnds, LocksUp, managers, asking
  <2>2. QED BY <2>1, UseKept DEF StaysAs
<1>5. QED BY <1>2, <1>3, <1>4 DEF ClusterStep, MemberStep

LEMMA UseKeeps == StartIInv /\ TlsInUse /\ [Next]_vars => TlsInUse'
<1> SUFFICES ASSUME StartIInv, TlsInUse, [Next]_vars PROVE TlsInUse'
  OBVIOUS
<1>1. CASE UNCHANGED vars
  <2>1. UNCHANGED <<file, known, use_tls, wanted, stage, plain>>
    BY <1>1 DEF vars, managers, asking
  <2>2. QED BY <2>1, UseKept DEF StaysAs
<1>2. ASSUME NEW l \in Listeners, ListenerStep(l) \/ (\E c \in Connections : Accept(l, c)) \/ HandshakeEnds(l)
      PROVE  TlsInUse'
  BY <1>2, UseAsk, UseListener DEF ListenerStep, Names
<1>3. ASSUME NEW c \in Connections, Connect(c) \/ SendRequest(c) PROVE TlsInUse'
  <2>1. UNCHANGED <<file, known, use_tls, wanted, stage, plain>>
    BY <1>3 DEF Connect, SendRequest, managers, asking
  <2>2. QED BY <2>1, UseKept DEF StaysAs
<1>4. QED BY <1>1, <1>2, <1>3, UseConfig, UseManager, UseCluster DEF Next

LEMMA UseInit == Init => TlsInUse
BY DEF Init, TlsInUse

\* Whatever the file says and in whatever order it is loaded, answered and updated, and
\* when the start fails before a name is asked for or answered: a listener whose first
\* configuration has a TLS preprocessor comes to know that it uses TLS before it serves
\* anybody, and hands no socket on without a handshake.
THEOREM TlsIsNeverSkipped == Spec => []NeverPlainWithTls
<1>1. StartIInv /\ TlsInUse => NeverPlainWithTls
  <2> SUFFICES ASSUME StartIInv, TlsInUse PROVE NeverPlainWithTls
    OBVIOUS
  <2>1. \A c \in plain : First(Through[c]).tls = <<>>
    BY DEF TlsInUse, TlsNames
  <2>2. \A l \in Listeners : stage[l] = "run" => (use_tls[l] <=> First(l).tls # <<>>)
    BY UseRuns DEF TlsNames
  <2>3. QED BY <2>1, <2>2 DEF NeverPlainWithTls
<1>2. QED BY <1>1, StartInit, StartKeeps, UseInit, UseKeeps, PTL DEF Spec
-------------------------------------------------------------------------------
\* The four messages for one name that fill its channels.
LEMMA NumHead ==
  ASSUME NEW S, NEW s \in Seq(S), s # <<>>, NEW T
  PROVE  Num(s, T) >= Bit(Head(s), T) /\ Num(s, T) \in Nat
<1>1. Num(s, T) \in Nat
  BY NumNat
<1>2. CASE Head(s) \in T
  <2>1. 1 \in DOMAIN s /\ s[1] \in T
    BY <1>2
  <2>2. Num(s, T) >= 1
    BY <2>1, NumMember
  <2>3. QED BY <1>1, <1>2, <2>2 DEF Bit
<1>3. CASE Head(s) \notin T
  BY <1>1, <1>3 DEF Bit
<1>4. QED BY <1>2, <1>3

LEMMA NumFour ==
  ASSUME NEW S, NEW a \in S, NEW b \in S, NEW c \in S, NEW d \in S, NEW T
  PROVE  Num(<<a, b, c, d>>, T) = Bit(a, T) + Bit(b, T) + Bit(c, T) + Bit(d, T)
<1> DEFINE s1 == <<a>>
           s2 == <<a, b>>
           s3 == <<a, b, c>>
           s4 == <<a, b, c, d>>
<1>1. /\ s1 \in Seq(S) /\ s2 \in Seq(S) /\ s3 \in Seq(S)
      /\ s2 = Append(s1, b) /\ s3 = Append(s2, c) /\ s4 = Append(s3, d)
  OBVIOUS
<1>2. Num(s1, T) = Bit(a, T)
  BY NumOne
<1> HIDE DEF s1, s2, s3, s4
<1>3. Num(s2, T) = Num(s1, T) + Bit(b, T)
  BY <1>1, NumAppend
<1>4. Num(s3, T) = Num(s2, T) + Bit(c, T)
  BY <1>1, NumAppend
<1>5. Num(s4, T) = Num(s3, T) + Bit(d, T)
  BY <1>1, NumAppend
<1>6. Num(s4, T) = Bit(a, T) + Bit(b, T) + Bit(c, T) + Bit(d, T)
  BY <1>2, <1>3, <1>4, <1>5
<1>7. QED BY <1>6 DEF s4

LEMMA TwoElements ==
  ASSUME NEW i, NEW j, i # j
  PROVE  Cardinality({i, j}) = 2
<1>1. IsFiniteSet({i}) /\ Cardinality({i}) = 1
  BY FS_Singleton
<1>2. j \notin {i} /\ {i, j} = {i} \cup {j}
  OBVIOUS
<1>3. Cardinality({i} \cup {j}) = Cardinality({i}) + 1
  BY <1>1, <1>2, FS_AddElement
<1>4. QED BY <1>1, <1>2, <1>3

LEMMA NumTwo ==
  ASSUME NEW S, NEW s \in Seq(S), NEW T, Num(s, T) <= 1,
         NEW i \in DOMAIN s, NEW j \in DOMAIN s, s[i] \in T, s[j] \in T
  PROVE  i = j
<1> DEFINE At == {k \in DOMAIN s : s[k] \in T}
<1>1. IsFiniteSet(At) /\ Cardinality(At) <= 1 /\ i \in At /\ j \in At
  BY NumNat DEF Num
<1> HIDE DEF At
<1>2. SUFFICES ASSUME i # j PROVE FALSE
  OBVIOUS
<1>3. {i, j} \in SUBSET At
  BY <1>1
<1>4. Cardinality({i, j}) = 2
  BY <1>2, TwoElements
<1>5. Cardinality({i, j}) <= Cardinality(At) /\ Cardinality(At) \in Nat
  BY <1>1, <1>3, FS_Subset, FS_CardinalityType
<1>6. QED BY <1>1, <1>4, <1>5

\* A name cannot fill its channels with fewer configurations and early requests.
LEMMA FullChannels ==
  ASSUME StartIInv, NEW x \in Clusters, x \in known, NEW m, m = MgrOf(x), hand[m] # <<>>, Head(hand[m]).to = x,
         updates[x] # <<>>, passing[x] # <<>>, queue[x] # <<>> \/ busy[x] # <<>>
  PROVE  Cardinality(Entries(file, x)) - 1 + Cardinality({c \in Connections : conn[c] = "sent" /\ For[c] = x}) >= 4
<1>1. Typed /\ Counted /\ x \in Names /\ file \in Files
  BY DEF StartIInv, Names, Typed
<1> DEFINE S == MessageTo(file, x)
           h == Head(hand[m])
           u == Head(updates[x])
           q == IF queue[x] # <<>> THEN Head(queue[x]) ELSE Head(busy[x])
           T == ConfigTo(file, x)
           U == S \ T
           E == {c \in Connections : conn[c] = "sent" /\ For[c] = x}
<1>2. h \in S /\ hand[m] = <<h>>
  BY <1>1, HandIs, Managing
<1>3. u \in S /\ updates[x] \in Seq(S)
  BY <1>1 DEF Typed
<1>4. q \in S /\ \A R : Num(queue[x], R) + Num(busy[x], R) >= Bit(q, R)
  <2>1. queue[x] \in Seq(S)
    BY DEF Typed, StartIInv
  <2>2. CASE queue[x] # <<>>
    <3>1. q = Head(queue[x]) /\ q \in S
      BY <2>1, <2>2
    <3> HIDE DEF q, S
    <3>2. ASSUME NEW R PROVE Num(queue[x], R) + Num(busy[x], R) >= Bit(q, R)
      <4>1. Num(queue[x], R) >= Bit(q, R) /\ Num(queue[x], R) \in Nat /\ Bit(q, R) \in {0, 1}
        BY <2>1, <2>2, <3>1, NumHead, BitNat
      <4>2. Num(busy[x], R) \in Nat
        BY <1>1, WayNat
      <4>3. QED BY <4>1, <4>2
    <3>3. QED BY <3>1, <3>2
  <2>3. CASE queue[x] = <<>>
    <3>1. PICK e \in S : busy[x] = <<e>>
      BY <2>3 DEF Typed, StartIInv
    <3>2. q = e
      BY <2>3, <3>1
    <3> HIDE DEF q, S
    <3>3. ASSUME NEW R PROVE Num(queue[x], R) + Num(busy[x], R) >= Bit(q, R)
      <4>1. Num(queue[x], R) = 0 /\ Num(busy[x], R) = Bit(q, R) /\ Bit(q, R) \in {0, 1}
        BY <2>3, <3>1, <3>2, NumEmpty, NumOne, BitNat
      <4>2. QED BY <4>1
    <3>4. QED BY <3>1, <3>2, <3>3
  <2>4. QED BY <2>2, <2>3
<1>5. PICK p \in S : passing[x] = <<p>>
  BY DEF Typed, StartIInv
<1> DEFINE s == <<h, u, p, q>>
<1>6. s \in Seq(S) /\ DOMAIN s = 1..4 /\ s[1] = h /\ s[2] = u /\ s[3] = p /\ s[4] = q
  BY <1>2, <1>3, <1>4, <1>5
<1>7. ASSUME NEW R PROVE Num(s, R) <= OnTheWay(R, x) /\ Num(s, R) \in Nat /\ OnTheWay(R, x) \in Nat
  <2>1. Num(s, R) = Bit(h, R) + Bit(u, R) + Bit(p, R) + Bit(q, R)
    BY <1>2, <1>3, <1>4, <1>5, NumFour
  <2>2. /\ Num(hand[m], R) = Bit(h, R) /\ Num(updates[x], R) >= Bit(u, R)
        /\ Num(passing[x], R) = Bit(p, R) /\ Num(queue[x], R) + Num(busy[x], R) >= Bit(q, R)
    BY <1>2, <1>3, <1>4, <1>5, NumOne, NumHead
  <2>3. /\ Num(toLoad, R) \in Nat /\ Num(inbox[m], R) \in Nat /\ Num(hand[m], R) \in Nat
        /\ Num(updates[x], R) \in Nat /\ Num(passing[x], R) \in Nat /\ Num(queue[x], R) \in Nat
        /\ Num(busy[x], R) \in Nat /\ OnTheWay(R, x) \in Nat
    BY <1>1, WayNat
  <2>4. OnTheWay(R, x) = Num(toLoad, R) + Num(inbox[m], R) + Num(hand[m], R) + Num(updates[x], R)
                           + (Num(passing[x], R) + Num(queue[x], R) + Num(busy[x], R))
    BY DEF OnTheWay, Behind
  <2>5. Bit(h, R) \in Nat /\ Bit(u, R) \in Nat /\ Bit(p, R) \in Nat /\ Bit(q, R) \in Nat
    BY DEF Bit
  <2> HIDE DEF s, h, u, q, S, T, U, E
  <2>6. Num(s, R) \in Nat
    BY <2>1, <2>5
  <2>7. Num(s, R) <= Num(hand[m], R) + Num(updates[x], R) + Num(passing[x], R) + (Num(queue[x], R) + Num(busy[x], R))
    BY <2>1, <2>2, <2>3, <2>5
  <2>8. Num(hand[m], R) + Num(updates[x], R) + Num(passing[x], R) + (Num(queue[x], R) + Num(busy[x], R)) <= OnTheWay(R, x)
    BY <2>3, <2>4
  <2>9. QED BY <2>3, <2>6, <2>7, <2>8
<1>8. Num(s, T) + Num(s, U) = 4
  <2>1. Num(s, T) = Bit(h, T) + Bit(u, T) + Bit(p, T) + Bit(q, T)
    BY <1>2, <1>3, <1>4, <1>5, NumFour
  <2>2. Num(s, U) = Bit(h, U) + Bit(u, U) + Bit(p, U) + Bit(q, U)
    BY <1>2, <1>3, <1>4, <1>5, NumFour
  <2>3. ASSUME NEW e \in S PROVE \/ Bit(e, T) = 1 /\ Bit(e, U) = 0
                                 \/ Bit(e, T) = 0 /\ Bit(e, U) = 1
    BY DEF Bit
  <2> HIDE DEF s, h, u, q, S, T, U
  <2>4. /\ ((Bit(h, T) = 1 /\ Bit(h, U) = 0) \/ (Bit(h, T) = 0 /\ Bit(h, U) = 1))
        /\ ((Bit(u, T) = 1 /\ Bit(u, U) = 0) \/ (Bit(u, T) = 0 /\ Bit(u, U) = 1))
        /\ ((Bit(p, T) = 1 /\ Bit(p, U) = 0) \/ (Bit(p, T) = 0 /\ Bit(p, U) = 1))
        /\ ((Bit(q, T) = 1 /\ Bit(q, U) = 0) \/ (Bit(q, T) = 0 /\ Bit(q, U) = 1))
    BY <2>3, <1>2, <1>3, <1>4, <1>5
  <2>5. QED BY <2>1, <2>2, <2>4
<1>9. Num(s, T) + 1 <= Cardinality(Entries(file, x)) /\ Cardinality(Entries(file, x)) \in Nat
  <2>1. OnTheWay(T, x) + 1 <= Due(file, x)
    BY <1>1 DEF Counted, ListedFor
  <2>2. Due(file, x) <= Cardinality(Entries(file, x)) /\ Cardinality(Entries(file, x)) \in Nat /\ Due(file, x) \in Nat
    BY <1>1, FileFacts DEF Due
  <2>3. Num(s, T) <= OnTheWay(T, x) /\ Num(s, T) \in Nat /\ OnTheWay(T, x) \in Nat
    BY <1>7
  <2>4. QED BY <2>1, <2>2, <2>3
<1>10. IsFiniteSet(E) /\ Cardinality(E) \in Nat
  BY ConnectionAssumption, FS_Subset, FS_CardinalityType
<1>11. Num(s, U) <= Cardinality(E) /\ Num(s, U) \in Nat
  <2> DEFINE At == {i \in DOMAIN s : s[i] \in U}
             g == [i \in At |-> s[i].config]
  <2>1. ASSUME NEW i \in At PROVE g[i] \in E /\ s[i] = RequestOf(g[i])
    <3>1. s[i] \in S /\ s[i] \notin T /\ i \in DOMAIN s /\ s[i].config = g[i]
      OBVIOUS
    <3>2. PICK c : c = s[i].config
      OBVIOUS
    <3>3. c \in Connections /\ For[c] = x /\ s[i] = RequestOf(c)
      BY <1>1, <3>1, <3>2, MessageIs
    <3>4. Num(s, {RequestOf(c)}) >= 1
      BY <1>6, <3>1, <3>3, NumMember
    <3>5. 0 + 1 <= OnTheWay({RequestOf(c)}, For[c]) /\ 0 \in Nat
      <4> HIDE DEF s
      <4>1. QED BY <1>7, <3>3, <3>4
    <3>6. conn[c] = "sent"
      <4> HIDE DEF s, At, g, U, T, S, h, u, q, E
      <4>1. QED BY <1>1, <3>3, <3>5, OnTheWayIsSent
    <3>7. QED BY <3>1, <3>2, <3>3, <3>6
  <2>2. ASSUME NEW i \in At, NEW j \in At, g[i] = g[j] PROVE i = j
    <3>1. PICK c : c = g[i]
      OBVIOUS
    <3>2. c \in Connections /\ For[c] = x /\ s[i] = RequestOf(c) /\ s[j] = RequestOf(c)
      BY <2>1, <2>2, <3>1
    <3>3. i \in DOMAIN s /\ j \in DOMAIN s
      OBVIOUS
    <3> HIDE DEF s, At, g, U, T, S, h, u, q, E
    <3>4. OnTheWay({RequestOf(c)}, For[c]) <= IF conn[c] = "sent" THEN 1 ELSE 0
      BY <1>1, <3>2 DEF Counted
    <3>5. Num(s, {RequestOf(c)}) <= 1
      BY <1>7, <3>2, <3>4
    <3>6. s[i] \in {RequestOf(c)} /\ s[j] \in {RequestOf(c)} /\ s \in Seq(S)
      BY <1>6, <3>2
    <3>7. QED BY <3>3, <3>5, <3>6, NumTwo
  <2>3. g \in Injection(At, E)
    <3>1. g \in [At -> E]
      BY <2>1
    <3>2. DOMAIN g = At
      OBVIOUS
    <3> HIDE DEF g, At, E, s, S, T, U
    <3>3. IsInjective(g)
      BY <3>2, <2>2 DEF IsInjective
    <3>4. QED BY <3>1, <3>3 DEF Injection
  <2>4. Num(s, U) = Cardinality(At) /\ Num(s, U) \in Nat
    BY <1>7 DEF Num
  <2> HIDE DEF At, E, g, s, U
  <2>5. Cardinality(At) <= Cardinality(E)
    BY <1>10, <2>3, FS_Injection
  <2>6. QED BY <2>4, <2>5
<1>12. Num(s, T) \in Nat
  BY <1>7
<1> HIDE DEF s, T, U, E
<1>13. Cardinality(Entries(file, x)) - 1 + Cardinality(E) >= 4
  BY <1>8, <1>9, <1>10, <1>11, <1>12
<1>14. QED BY <1>13 DEF E
-------------------------------------------------------------------------------
LEMMA MessagesTyped ==
  ASSUME NEW f \in Files
  PROVE  /\ \A x \in Names : MessageTo(f, x) \subseteq Message
         /\ \A m \in Managers : InletOf(f, m) \subseteq Message
<1>1. ASSUME NEW x \in Names, NEW e \in MessageTo(f, x) PROVE e \in Message
  <2>1. CASE e \in ConfigTo(f, x)
    <3>1. PICK i \in Entries(f, x) : e = [type |-> "config", to |-> x, config |-> Section(f, x)[i]]
      BY <2>1 DEF ConfigTo
    <3>2. Section(f, x)[i] \in ToSet(Section(f, x))
      BY DEF Entries, ToSet
    <3>3. Section(f, x)[i] \in ToSet(f.listeners) \cup ToSet(f.clusters)
      BY <3>2, FileFacts
    <3>4. Section(f, x)[i] \in UNION {ToSet(g.listeners) \cup ToSet(g.clusters) : g \in Files}
      BY <3>3
    <3>5. QED BY <3>1, <3>4 DEF Message
  <2>2. CASE \E c \in Connections : For[c] = x /\ e = RequestOf(c)
    BY <2>2, ConnectionAssumption DEF Message, RequestOf
  <2>3. QED BY <2>1, <2>2 DEF MessageTo
<1>2. TlsOf(f) \subseteq Message
  BY DEF TlsOf, Message
<1>3. ASSUME NEW m \in Managers, NEW e \in InletOf(f, m) PROVE e \in Message
  BY <1>1, <1>2, InletIs
<1>4. QED BY <1>1, <1>3

LEMMA AtMostOne ==
  ASSUME NEW S, NEW s, s = <<>> \/ \E e \in S : s = <<e>>
  PROVE  s \in Seq(S)
<1>1. CASE s = <<>>
  BY <1>1
<1>2. ASSUME NEW e \in S, s = <<e>> PROVE s \in Seq(S)
  BY <1>2
<1>3. QED BY <1>1, <1>2

LEMMA Typing == StartIInv /\ TlsInUse => TypeOK
<1> SUFFICES ASSUME StartIInv, TlsInUse PROVE TypeOK
  OBVIOUS
<1>1. Typed /\ Tasks /\ Waiting /\ Accepting /\ file \in Files /\ known \subseteq Names
  BY DEF StartIInv, Typed
<1>2. /\ \A x \in Names : MessageTo(file, x) \subseteq Message
      /\ \A m \in Managers : InletOf(file, m) \subseteq Message
  BY <1>1, MessagesTyped
<1>3. ASSUME NEW m \in Managers PROVE inbox[m] \in Seq(Message) /\ Len(inbox[m]) <= ManagerCap /\ hand[m] \in Seq(Message)
  <2>1. inbox[m] \in Seq(InletOf(file, m)) /\ Len(inbox[m]) <= ManagerCap
    BY <1>1 DEF Typed
  <2>2. hand[m] = <<>> \/ \E e \in Message : hand[m] = <<e>>
    BY <1>1, <1>2 DEF Typed
  <2>3. hand[m] \in Seq(Message)
    BY <2>2, AtMostOne
  <2>4. inbox[m] \in Seq(Message)
    BY <1>2, <2>1
  <2>5. QED BY <2>1, <2>3, <2>4
<1>4. ASSUME NEW x \in Names PROVE updates[x] \in Seq(Message) /\ Len(updates[x]) <= Cap
  <2>1. updates[x] \in Seq(MessageTo(file, x)) /\ Len(updates[x]) <= Cap
    BY <1>1 DEF Typed
  <2>2. QED BY <1>2, <2>1
<1>5. ASSUME NEW c \in Clusters PROVE passing[c] \in Seq(Message) /\ queue[c] \in Seq(Message) /\ Len(queue[c]) <= Cap
  <2>1. c \in Names /\ queue[c] \in Seq(MessageTo(file, c)) /\ Len(queue[c]) <= Cap
    BY <1>1 DEF Typed, Names
  <2>2. passing[c] = <<>> \/ \E e \in Message : passing[c] = <<e>>
    BY <1>1, <1>2, <2>1 DEF Typed
  <2>3. passing[c] \in Seq(Message)
    BY <2>2, AtMostOne
  <2>4. queue[c] \in Seq(Message)
    BY <1>2, <2>1
  <2>5. QED BY <2>1, <2>3, <2>4
<1>6. requests \in Seq(Names) /\ Len(requests) <= ConfigCap
  BY <1>1 DEF Waiting
<1>7. ASSUME NEW c \in Clusters PROVE busy[c] \in Seq(Message) /\ Len(busy[c]) <= 1
  <2>1. c \in Names /\ (busy[c] = <<>> \/ \E e \in Message : busy[c] = <<e>>)
    BY <1>1, <1>2 DEF Typed, Names
  <2>2. busy[c] \in Seq(Message)
    BY <2>1, AtMostOne
  <2>3. CASE busy[c] = <<>>
    BY <2>2, <2>3
  <2>4. ASSUME NEW e \in Message, busy[c] = <<e>> PROVE Len(busy[c]) <= 1
    BY <2>4
  <2>5. QED BY <2>1, <2>2, <2>3, <2>4
<1>8. QED BY <1>1, <1>3, <1>4, <1>5, <1>6, <1>7 DEF TypeOK, Typed, Tasks, Accepting, TlsInUse

LEMMA Acceptors == StartIInv => AcceptorAsNamed
<1> SUFFICES ASSUME StartIInv, NEW l \in Listeners, got[l] # Nothing PROVE Obtained(l)
  BY DEF AcceptorAsNamed, Obtained, TlsNames
<1>1. l \in Names
  BY DEF Names
<1>2. QED BY <1>1 DEF StartIInv, Tasks, Asking

LEMMA Backends == StartIInv => PlainBackendForAReason
<1> SUFFICES ASSUME StartIInv, NEW c \in Clusters, stage[c] = "run", got[c] = Nothing
             PROVE  phase = "panicked" \/ ~\E i \in DOMAIN First(c).tls : Usable(First(c).tls[i], c)
  BY DEF PlainBackendForAReason
<1>1. c \in Names /\ c \in known
  BY DEF Names, StartIInv, Tasks
<1>2. Asking(c)
  BY <1>1 DEF StartIInv, Tasks
<1>3. AskedInVain(c) /\ wanted[c] = <<>> /\ TlsNames(c) \in Seq(ToSet(TlsNames(c)))
  BY <1>2 DEF Asking
<1>4. AskedFor(c) = Len(TlsNames(c)) /\ DOMAIN TlsNames(c) = 1..Len(TlsNames(c))
  BY <1>3 DEF AskedFor
<1>5. QED BY <1>3, <1>4 DEF AskedInVain, TlsNames

LEMMA Failing == StartIInv => FailedStartServesNobody
<1> SUFFICES ASSUME StartIInv, file.missing # "none", NEW c \in Connections, conn[c] = "served" PROVE FALSE
  BY DEF FailedStartServesNobody
<1>1. For[c] \in known /\ For[c] \in Names /\ For[c] \in Clusters /\ Typed
  BY ConnectionAssumption DEF StartIInv, Accepting, Names
<1>2. OnTheWay(ConfigTo(file, For[c]), For[c]) + 1 <= Due(file, For[c])
  BY <1>1 DEF StartIInv, Counted, ListedFor, Typed
<1>3. Due(file, For[c]) = 0
  BY <1>1 DEF Due
<1>4. OnTheWay(ConfigTo(file, For[c]), For[c]) \in Nat
  BY <1>1, WayNat
<1>5. QED BY <1>2, <1>3, <1>4

LEMMA Crowding == StartIInv => StuckByCrowding
<1> SUFFICES ASSUME StartIInv, Stuck PROVE StuckByCrowding
  BY DEF StuckByCrowding
<1>1. PICK m : m = ManagerOf(Head(toLoad))
  OBVIOUS
<1>2. PICK x : x = Head(hand[m]).to
  OBVIOUS
<1>3. /\ hand[m] # <<>> /\ Len(updates[x]) = Cap
      /\ x \in Clusters => passing[x] # <<>> /\ (Len(queue[x]) = Cap \/ locked[x] = "holding")
  BY <1>1, <1>2 DEF Stuck, Kept
<1>4. Typed /\ m \in Managers
  BY <1>1 DEF StartIInv, ManagerOf, Managers
<1>5. /\ x \in known /\ MgrOf(x) = m /\ x \in Names /\ file \in Files
      /\ Head(hand[m]) \in MessageTo(file, x) /\ hand[m] = <<Head(hand[m])>>
  BY <1>2, <1>3, <1>4, HandIs DEF Typed
<1>6. updates[x] # <<>> /\ updates[x] \in Seq(MessageTo(file, x)) /\ (x \in Clusters => queue[x] # <<>> \/ busy[x] # <<>>)
  BY <1>3, <1>4, <1>5 DEF Typed, Cap
<1>7. CASE x \in Listeners
  <2> DEFINE T == ConfigTo(file, x)
  <2>1. MessageTo(file, x) \subseteq T
    <3>1. x \notin Clusters
      BY <1>7, NameAssumption
    <3>2. QED BY <1>5, <3>1, MessageIs
  <2>2. Num(hand[m], T) = 1
    BY <1>5, <2>1, NumOne DEF Bit
  <2>3. Num(updates[x], T) >= 1
    <3>1. 1 \in DOMAIN updates[x] /\ updates[x][1] \in T
      BY <1>6, <2>1
    <3>2. QED BY <1>6, <3>1, NumMember
  <2>4. OnTheWay(T, x) + 1 <= Due(file, x)
    BY <1>5 DEF StartIInv, Counted, ListedFor
  <2>5. Due(file, x) <= Cardinality(Entries(file, x)) /\ Cardinality(Entries(file, x)) \in Nat /\ Due(file, x) \in Nat
    BY <1>5, FileFacts DEF Due
  <2>6. /\ Num(toLoad, T) \in Nat /\ Num(inbox[m], T) \in Nat /\ Num(hand[m], T) \in Nat
        /\ Num(updates[x], T) \in Nat /\ Behind(T, x) \in Nat
    BY <1>4, <1>5, WayNat
  <2>7. OnTheWay(T, x) = Num(toLoad, T) + Num(inbox[m], T) + Num(hand[m], T) + Num(updates[x], T) + Behind(T, x)
    BY <1>5 DEF OnTheWay
  <2> HIDE DEF T
  <2>8. Cardinality(Entries(file, x)) - 1 >= Cap + 1
    BY <2>2, <2>3, <2>4, <2>5, <2>6, <2>7 DEF Cap
  <2>9. QED BY <1>1, <1>2, <1>7, <2>8 DEF StuckByCrowding
<1>8. CASE x \notin Listeners
  <2>1. x \in Clusters
    BY <1>5, <1>8 DEF Names
  <2>2. Cardinality(Entries(file, x)) - 1 + Cardinality({c \in Connections : conn[c] = "sent" /\ For[c] = x}) >= 4
    BY <1>2, <1>3, <1>5, <1>6, <2>1, FullChannels
  <2>3. QED BY <1>1, <1>2, <1>8, <2>2 DEF StuckByCrowding, Cap
<1>9. QED BY <1>7, <1>8

\* Whatever the file lists, in whatever order the tasks, the answers and the first
\* connections come: acceptors are the named ones, a member talks plainly for a reason
\* only, a failed start serves nobody, a handshake is cancelled only in a listener the
\* file repeats, and start() gets stuck only when more messages crowd before one name
\* than its channels hold.
THEOREM StartInvHolds == Spec => []StartInv
<1>1. StartIInv /\ TlsInUse => StartInv
  <2>1. StartIInv => CancelledByRepeats
    BY DEF StartIInv, Accepting
  <2>2. QED BY <2>1, Typing, Acceptors, Backends, Failing, Crowding DEF StartInv
<1>2. QED BY <1>1, StartInit, StartKeeps, UseInit, UseKeeps, PTL DEF Spec
===============================================================================
