-------------------------- MODULE MemberCheckerProofs -------------------------
(* Theorems about MemberChecker.                                            *)
EXTENDS MemberChecker, TLAPS, FiniteSetTheorems, SequenceTheorems

\* What run_member waits for says whether it holds a handle, a running checker has
\* its handle, and a member that is gone has neither.
HandleInv ==
  /\ CheckerHasItsHandle
  /\ mpc \in {"remove", "join", "joinRemoved"} => checker_handle
  /\ mpc = "remove" => wanted = None
  /\ checker_handle \in BOOLEAN

\* The steps that neither start nor end a checker: the handle and run_member's
\* place are as before, and no checker appears.
LEMMA OtherSteps ==
  ASSUME HandleInv, UNCHANGED <<mpc, wanted, checker_handle>>, cpc' # "off" => cpc # "off"
  PROVE  HandleInv'
BY DEF HandleInv, CheckerHasItsHandle

LEMMA CheckerSteps ==
  ASSUME HandleInv, CheckerStep
  PROVE  HandleInv'
<1>1. UNCHANGED <<mpc, wanted, checker_handle>>
  BY DEF CheckerStep, StatusAsked, AddressAsked, StatusRead, Leaves, RoundStarts, Probed,
         RttSent, Judged, KeyAsked, StatusWritten, Wakes, member
<1>2. cpc # "off"
  BY DEF CheckerStep, StatusAsked, AddressAsked, StatusRead, Leaves, RoundStarts, Probed,
         RttSent, Judged, KeyAsked, StatusWritten, Wakes, Goes
<1>3. QED BY <1>1, <1>2, OtherSteps

\* Receiving starts nothing: a removal without a handle finds no checker.
LEMMA Receives ==
  ASSUME HandleInv, ReceiveRemove \/ \E k \in Keepalives \cup {None} : ReceiveUpdate(k)
  PROVE  HandleInv'
<1>1. CASE ReceiveRemove
  BY <1>1 DEF ReceiveRemove, HandleInv, CheckerHasItsHandle
<1>2. CASE \E k \in Keepalives \cup {None} : ReceiveUpdate(k)
  BY <1>2 DEF ReceiveUpdate, HandleInv, CheckerHasItsHandle
<1>3. QED BY <1>1, <1>2

\* A checker is started only without a handle, and then there is none; the handle is
\* given up only when the checker is over.
LEMMA MemberSteps ==
  ASSUME HandleInv, MemberStep
  PROVE  HandleInv'
<1>1. CASE Written
  <2>1. CASE wanted # None /\ ~checker_handle
    BY <1>1, <2>1 DEF Written, HandleInv, CheckerHasItsHandle
  <2>2. CASE wanted = None /\ checker_handle
    BY <1>1, <2>2 DEF Written, HandleInv, CheckerHasItsHandle
  <2>3. CASE (wanted = None) = ~checker_handle
    BY <1>1, <2>3 DEF Written, HandleInv, CheckerHasItsHandle
  <2>4. QED BY <1>1, <2>1, <2>2, <2>3 DEF HandleInv
<1>2. CASE Joined
  BY <1>2 DEF Joined, HandleInv, CheckerHasItsHandle
<1>3. QED BY <1>1, <1>2 DEF MemberStep

LEMMA NextHandleInv == HandleInv /\ [Next]_vars => HandleInv'
<1> SUFFICES ASSUME HandleInv, [Next]_vars PROVE HandleInv'
  OBVIOUS
<1>1. CASE MemberStep
  BY <1>1, MemberSteps
<1>2. CASE CheckerStep
  BY <1>2, CheckerSteps
<1>3. CASE ReceiveRemove \/ \E k \in Keepalives \cup {None} : ReceiveUpdate(k)
  BY <1>3, Receives
<1>4. CASE OthersDone \/ \E mode \in {"read", "write"} : OthersAsk(mode)
  BY <1>4, OtherSteps DEF OthersDone, OthersAsk, member
<1>5. CASE UNCHANGED vars
  BY <1>5, OtherSteps DEF vars, member
<1>6. QED BY <1>1, <1>2, <1>3, <1>4, <1>5 DEF Next

\* However fast updates and removals follow each other, at most one checker of the
\* member runs, its handle is held, and a removed member leaves none behind
\* (run_member and start_checker), for every set of keepalives.
THEOREM OneCheckerAtATime == Spec => []CheckerHasItsHandle
<1>1. Init => HandleInv
  BY DEF Init, HandleInv, CheckerHasItsHandle
<1>2. HandleInv => CheckerHasItsHandle
  BY DEF HandleInv
<1>3. QED BY <1>1, <1>2, NextHandleInv, PTL DEF Spec

-------------------------------------------------------------------------------
(* Verdicts.  The counter of the checker never runs ahead of the probes it has   *)
(* seen, and a verdict in hand has its probes behind it.                       *)

Levels == {"Active", "Disabled", "Unavailable"}

\* The types of what the argument uses; a round has a keepalive.
CountTypes ==
  /\ keepalive \in Keepalives \cup {None} /\ wanted \in Keepalives \cup {None}
  /\ common_config \in Keepalives \cup {None}
  /\ check_counter \in 0..Most /\ failed \in 0..Most /\ answered \in 0..Most
  /\ reply \in BOOLEAN /\ status \in Levels /\ upstream_status \in Levels
  /\ cpc \in {"probe", "rtt", "availability", "verdict", "key"} => common_config \in Keepalives

\* n probes have been seen, as far as they are counted.
Seen(n, count) == n <= count \/ count = Most

CounterInv ==
  /\ upstream_status = "Active" => check_counter <= failed
  /\ upstream_status = "Unavailable" => check_counter <= answered

\* The probe that is judged next has been counted by the history.
ProbeInv ==
  /\ cpc = "rtt" => reply
  /\ cpc = "availability" /\ ~reply /\ upstream_status = "Active" => Seen(check_counter + 1, failed)
  /\ cpc \in {"rtt", "availability"} /\ reply /\ upstream_status = "Unavailable" /\ common_config.probes
       => Seen(check_counter + 1, answered)

InHandInv ==
  cpc \in {"verdict", "key"} =>
    IF reply THEN common_config.probes => answered >= common_config.live
    ELSE failed >= common_config.dead

EarnedInv == CountTypes /\ CounterInv /\ ProbeInv /\ InHandInv

\* No threshold is above Most, and a keepalive that probes nothing has none.
LEMMA ThresholdTypes ==
  ASSUME NEW k \in Keepalives
  PROVE  /\ k.dead \in 0..Most /\ k.live \in 0..Most /\ k.probes \in BOOLEAN /\ Most \in Nat
         /\ ~k.probes => k.dead = 0 /\ k.live = 0
BY KeepalivesAssumption

\* Steps that leave the counters and the checker's place in its round alone.
LEMMA SameCounts ==
  ASSUME EarnedInv,
         UNCHANGED <<status, upstream_status, check_counter, common_config, reply, failed, answered>>,
         keepalive' \in Keepalives \cup {None}, wanted' \in Keepalives \cup {None},
         \/ cpc' = cpc
         \/ cpc' \in {"off", "start", "statuses", "address", "top", "sleep"}
         \/ cpc = "rtt" /\ cpc' = "availability"
         \/ cpc = "verdict" /\ cpc' = "key"
  PROVE  EarnedInv'
BY DEF EarnedInv, CountTypes, CounterInv, ProbeInv, InHandInv, Seen

LEMMA StatusReadCounts ==
  ASSUME EarnedInv, StatusRead
  PROVE  EarnedInv'
<1>1. /\ upstream_status' = status /\ check_counter' = 0 /\ failed' = 0 /\ answered' = 0 /\ cpc' = "top"
      /\ UNCHANGED <<keepalive, status, wanted, common_config, reply>> /\ Most \in Nat
  BY KeepalivesAssumption DEF StatusRead, Goes, member
<1>2. QED BY <1>1 DEF EarnedInv, CountTypes, CounterInv, ProbeInv, InHandInv

\* A keepalive that probes nothing is judged at once, and by no threshold.
LEMMA RoundCounts ==
  ASSUME EarnedInv, RoundStarts
  PROVE  EarnedInv'
<1>1. /\ keepalive \in Keepalives /\ common_config' = keepalive
      /\ UNCHANGED <<keepalive, status, wanted, upstream_status, check_counter, failed, answered>>
      /\ \/ keepalive.probes /\ cpc' = "probe" /\ reply' = reply
         \/ ~keepalive.probes /\ cpc' = "rtt" /\ reply' = TRUE
  BY DEF RoundStarts, EarnedInv, CountTypes, member, counts
<1>2. QED BY <1>1 DEF EarnedInv, CountTypes, CounterInv, ProbeInv, InHandInv

LEMMA ProbeCounts ==
  ASSUME EarnedInv, Probed
  PROVE  EarnedInv'
<1>1. /\ common_config \in Keepalives
      /\ UNCHANGED <<keepalive, status, wanted, upstream_status, check_counter, common_config>>
      /\ \/ reply' = TRUE /\ cpc' = "rtt" /\ failed' = failed /\ answered' = More(answered)
         \/ reply' = FALSE /\ cpc' = "availability" /\ failed' = More(failed) /\ answered' = answered
  BY DEF Probed, EarnedInv, CountTypes, member
<1>2. Most \in Nat /\ failed \in 0..Most /\ answered \in 0..Most /\ check_counter \in 0..Most
  BY KeepalivesAssumption DEF EarnedInv, CountTypes
<1>3. \A n \in 0..Most : More(n) \in 0..Most /\ n <= More(n)
                         /\ \A i \in 0..Most : i <= n => Seen(i + 1, More(n)) /\ i <= More(n)
  BY <1>2 DEF More, Seen
<1>4. QED BY <1>1, <1>2, <1>3 DEF EarnedInv, CountTypes, CounterInv, ProbeInv, InHandInv

\* A verdict is given when the counter, with the probe just seen, is at the threshold.
LEMMA JudgedCounts ==
  ASSUME EarnedInv, Judged
  PROVE  EarnedInv'
<1>1. /\ cpc = "availability" /\ common_config \in Keepalives
      /\ UNCHANGED <<keepalive, status, wanted, upstream_status, common_config, reply, failed, answered>>
  BY DEF Judged, EarnedInv, CountTypes, member, counts
<1>2. /\ common_config.dead \in 0..Most /\ common_config.live \in 0..Most /\ Most \in Nat
      /\ common_config.probes \in BOOLEAN
      /\ ~common_config.probes => common_config.dead = 0 /\ common_config.live = 0
      /\ failed \in 0..Most /\ answered \in 0..Most /\ check_counter \in 0..Most
      /\ reply \in BOOLEAN
  BY <1>1, ThresholdTypes DEF EarnedInv, CountTypes
<1>3. CASE Earned
  <2>1. check_counter' = 0 /\ cpc' = "verdict"
    BY <1>3 DEF Judged
  <2>2. ~reply => failed >= common_config.dead
    BY <1>1, <1>2, <1>3 DEF Earned, EarnedInv, ProbeInv, Seen
  <2>3. reply /\ common_config.probes => answered >= common_config.live
    BY <1>1, <1>2, <1>3 DEF Earned, EarnedInv, ProbeInv, Seen
  <2>4. QED BY <1>1, <1>2, <2>1, <2>2, <2>3 DEF EarnedInv, CountTypes, CounterInv, ProbeInv, InHandInv
<1>4. CASE ~Earned
  <2>1. cpc' = "sleep" /\ check_counter' = IF Counts THEN check_counter + 1 ELSE check_counter
    BY <1>4 DEF Judged
  <2>2. check_counter' \in 0..Most
    BY <1>2, <1>4, <2>1 DEF Counts, Earned
  <2>3. upstream_status = "Active" => check_counter' <= failed
    BY <1>1, <1>2, <1>4, <2>1, <2>2 DEF Counts, EarnedInv, CounterInv, ProbeInv, Seen
  <2>4. upstream_status = "Unavailable" => check_counter' <= answered
    BY <1>1, <1>2, <1>4, <2>1, <2>2 DEF Counts, Earned, EarnedInv, CounterInv, ProbeInv, Seen
  <2>5. QED BY <1>1, <1>2, <2>1, <2>2, <2>3, <2>4 DEF EarnedInv, CountTypes, CounterInv, ProbeInv, InHandInv
<1>5. QED BY <1>3, <1>4

LEMMA StatusWrittenCounts ==
  ASSUME EarnedInv, StatusWritten
  PROVE  EarnedInv'
<1>1. status' \in Levels /\ cpc' = "sleep" /\ UNCHANGED <<keepalive, wanted, checked>>
  BY DEF StatusWritten, Goes, Levels, member
<1>2. QED BY <1>1 DEF EarnedInv, CountTypes, CounterInv, ProbeInv, InHandInv, checked, counts

LEMMA NextEarned == EarnedInv /\ [Next]_vars => EarnedInv'
<1> SUFFICES ASSUME EarnedInv, [Next]_vars PROVE EarnedInv'
  OBVIOUS
<1> USE DEF member, checked, counts
<1>1. keepalive \in Keepalives \cup {None} /\ wanted \in Keepalives \cup {None}
  BY DEF EarnedInv, CountTypes
<1>2. CASE StatusRead \/ RoundStarts \/ Probed \/ Judged \/ StatusWritten
  BY <1>2, StatusReadCounts, RoundCounts, ProbeCounts, JudgedCounts, StatusWrittenCounts
<1>3. CASE StatusAsked \/ AddressAsked \/ Leaves \/ RttSent \/ KeyAsked \/ Wakes
  BY <1>1, <1>3, SameCounts DEF StatusAsked, AddressAsked, Leaves, RttSent, KeyAsked, Wakes, Goes
<1>4. CASE MemberStep
  BY <1>1, <1>4, SameCounts DEF MemberStep, Written, Joined
<1>5. CASE ReceiveRemove \/ \E k \in Keepalives \cup {None} : ReceiveUpdate(k)
  BY <1>1, <1>5, SameCounts DEF ReceiveRemove, ReceiveUpdate
<1>6. CASE OthersDone \/ \E mode \in {"read", "write"} : OthersAsk(mode)
  BY <1>1, <1>6, SameCounts DEF OthersDone, OthersAsk
<1>7. CASE UNCHANGED vars
  BY <1>1, <1>7, SameCounts DEF vars
<1>8. QED BY <1>2, <1>3, <1>4, <1>5, <1>6, <1>7 DEF Next, CheckerStep

LEMMA InitEarned == Init => EarnedInv
<1> SUFFICES ASSUME Init PROVE EarnedInv
  OBVIOUS
<1>1. /\ keepalive \in Keepalives \cup {None} /\ wanted = None /\ common_config = keepalive
      /\ check_counter = 0 /\ failed = 0 /\ answered = 0 /\ reply = FALSE
      /\ status \in Levels /\ upstream_status = status /\ cpc \in {"off", "start"}
  BY DEF Init, Levels
<1>2. 0 \in 0..Most
  BY KeepalivesAssumption
<1>3. CountTypes
  BY <1>1, <1>2 DEF CountTypes
<1>4. CounterInv /\ ProbeInv /\ InHandInv
  BY <1>1 DEF CounterInv, ProbeInv, InHandInv
<1>5. QED BY <1>3, <1>4 DEF EarnedInv

\* Only StatusWritten changes the status.
LEMMA StatusStays ==
  ASSUME Next, ~StatusWritten
  PROVE  status' = status
<1>1. CASE CheckerStep
  BY <1>1 DEF CheckerStep, StatusAsked, AddressAsked, StatusRead, Leaves, RoundStarts, Probed,
              RttSent, Judged, KeyAsked, Wakes
<1>2. CASE ~CheckerStep
  BY <1>2 DEF Next, MemberStep, Written, Joined, ReceiveUpdate, ReceiveRemove, OthersDone, OthersAsk
<1>3. QED BY <1>1, <1>2

\* A member is given up, or taken back, only after as many probes of one checker as the
\* thresholds of the round ask for, however the keepalive changed between the rounds.
THEOREM VerdictsAreEarned == Spec => VerdictIsEarned
<1> DEFINE Fair == status' # status =>
             IF status' = "Unavailable" THEN failed >= common_config.dead
             ELSE common_config.probes => answered >= common_config.live
<1>1. EarnedInv /\ [Next]_vars => [Fair]_vars
  <2> SUFFICES ASSUME EarnedInv, Next, status' # status
               PROVE  IF status' = "Unavailable" THEN failed >= common_config.dead
                      ELSE common_config.probes => answered >= common_config.live
    OBVIOUS
  <2>1. StatusWritten
    BY StatusStays
  <2>2. cpc = "key" /\ status' = IF reply THEN "Active" ELSE "Unavailable"
    BY <2>1 DEF StatusWritten, Goes
  <2>3. QED BY <2>2 DEF EarnedInv, InHandInv
<1>2. QED BY InitEarned, NextEarned, <1>1, PTL DEF Spec, VerdictIsEarned

-------------------------------------------------------------------------------
(* The locks.  A lock of which one task at the most is left waiting has few       *)
(* shapes; what Settle makes of each of them is all the argument needs of it.     *)

\* The lock of which the checker has c read guards and the cluster w of them.
Readers(c, w) == [t \in Tasks |-> IF t = "checker" THEN c ELSE IF t = "cluster" THEN w ELSE 0]
Shape(c, w, writer, queue) == [readers |-> Readers(c, w), writer |-> writer, queue |-> queue]

CR == <<"checker", "read">>
CW == <<"checker", "write">>
WR == <<"cluster", "read">>
WW == <<"cluster", "write">>
MW == <<"member", "write">>

LEMMA ShapeFields ==
  ASSUME NEW c, NEW w, NEW t, NEW q
  PROVE  /\ Shape(c, w, t, q).writer = t /\ Shape(c, w, t, q).queue = q
         /\ DOMAIN Shape(c, w, t, q).readers = Tasks
         /\ Shape(c, w, t, q).readers["checker"] = c /\ Shape(c, w, t, q).readers["cluster"] = w
         /\ Shape(c, w, t, q).readers["member"] = 0
BY DEF Shape, Readers, Tasks

\* Nobody is granted anything while there is a writer, or while nobody asks.
LEMMA SettleWriter ==
  ASSUME NEW c, NEW w, NEW t \in Tasks, NEW q
  PROVE  Settle(Shape(c, w, t, q)) = Shape(c, w, t, q)
BY NobodyAssumption, ShapeFields DEF Settle

LEMMA NoFront ==
  ASSUME NEW c \in Nat, NEW w \in Nat, NEW q \in Seq(Tasks \X {"read", "write"}),
         q = <<>> \/ (q # <<>> /\ q[1][2] = "write")
  PROVE  FrontReads(Shape(c, w, Nobody, q)) = 0
<1> DEFINE ns == {n \in 0..Len(q) : \A i \in 1..n : q[i][2] = "read"}
<1>1. Len(q) \in Nat /\ (q # <<>> => Len(q) >= 1)
  OBVIOUS
<1>2. 0 \in ns /\ \A n \in ns : n = 0
  <2>1. 0 \in 0..Len(q) /\ \A i \in 1..0 : FALSE
    BY <1>1
  <2>2. ASSUME NEW n \in ns, n # 0 PROVE FALSE
    <3>1. n \in 1..Len(q) /\ 1 \in 1..n
      BY <1>1, <2>2
    <3>2. q[1][2] = "read" /\ q # <<>>
      BY <1>1, <3>1
    <3>3. QED BY <3>2
  <2>3. QED BY <2>1, <2>2
<1>3. FrontReads(Shape(c, w, Nobody, q)) = Max(ns)
  <2>1. Shape(c, w, Nobody, q).queue = q
    BY ShapeFields
  <2>2. \A l : l.queue = q => FrontReads(l) = Max(ns)
    BY DEF FrontReads
  <2>3. QED BY <2>1, <2>2
<1> HIDE DEF ns
<1>4. Max(ns) = 0
  BY <1>2 DEF Max
<1>5. QED BY <1>3, <1>4

\* Nor while the first who asks has to wait for readers.
LEMMA SettleStays ==
  ASSUME NEW c \in Nat, NEW w \in Nat, NEW q \in Seq(Tasks \X {"read", "write"}),
         q = <<>> \/ (q # <<>> /\ q[1][2] = "write" /\ (c # 0 \/ w # 0))
  PROVE  Settle(Shape(c, w, Nobody, q)) = Shape(c, w, Nobody, q)
<1> DEFINE l == Shape(c, w, Nobody, q)
<1>1. FrontReads(l) = 0
  BY NoFront
<1>2. /\ l.writer = Nobody /\ l.queue = q /\ DOMAIN l.readers = Tasks
      /\ l.readers["checker"] = c /\ l.readers["cluster"] = w
      /\ \A t \in Tasks : l.readers[t] \in Nat
      /\ l = [readers |-> l.readers, writer |-> l.writer, queue |-> l.queue]
  BY DEF Shape, Readers, Tasks
<1> HIDE DEF l
<1>3. ~WriteMayGo(l)
  BY <1>2 DEF WriteMayGo, Tasks
<1>4. Settle(l) = [l EXCEPT !.readers = [t \in Tasks |-> l.readers[t] + Cardinality({i \in 1..0 : l.queue[i][1] = t})],
                           !.queue = SubSeq(q, 1, Len(q))]
  BY <1>1, <1>2, <1>3 DEF Settle
<1>5. \A t \in Tasks : {i \in 1..0 : l.queue[i][1] = t} = {}
  OBVIOUS
<1>6. [t \in Tasks |-> l.readers[t] + Cardinality({i \in 1..0 : l.queue[i][1] = t})] = l.readers
  <2>1. \A t \in Tasks : l.readers[t] + Cardinality({i \in 1..0 : l.queue[i][1] = t}) = l.readers[t]
    BY <1>2, <1>5, FS_EmptySet
  <2>2. l.readers = [t \in Tasks |-> l.readers[t]]
    BY <1>2 DEF l, Shape, Readers
  <2>3. QED BY <2>1, <2>2
<1>7. SubSeq(q, 1, Len(q)) = q
  BY SubSeqFull
<1>8. QED BY <1>2, <1>4, <1>6, <1>7 DEF l

\* The first who asks to write is let in when there are no readers,
LEMMA SettleWrite ==
  ASSUME NEW t \in Tasks
  PROVE  Settle(Shape(0, 0, Nobody, <<<<t, "write">>>>)) = Shape(0, 0, t, <<>>)
<1> DEFINE l == Shape(0, 0, Nobody, <<<<t, "write">>>>)
<1>1. /\ l.writer = Nobody /\ l.queue = <<<<t, "write">>>> /\ DOMAIN l.readers = Tasks
      /\ \A u \in Tasks : l.readers[u] = 0
  BY DEF Shape, Readers, Tasks
<1>2. l.queue # <<>> /\ Head(l.queue) = <<t, "write">> /\ Tail(l.queue) = <<>>
  <2>1. \A m : Head(<<m>>) = m /\ Tail(<<m>>) = <<>> /\ <<m>> # <<>>
    OBVIOUS
  <2>2. QED BY <1>1, <2>1
<1> HIDE DEF l
<1>3. WriteMayGo(l)
  BY <1>1, <1>2 DEF WriteMayGo
<1>4. Settle(l) = [l EXCEPT !.writer = t, !.queue = <<>>]
  <2>1. Head(l.queue)[1] = t
    BY <1>2
  <2>2. QED BY <1>1, <1>2, <1>3, <2>1 DEF Settle
<1>5. QED BY <1>4 DEF Shape, Readers, l

\* and one who asks to read when nobody is in the way.
LEMMA SettleRead ==
  ASSUME NEW c \in Nat, NEW w \in Nat
  PROVE  /\ Settle(Shape(c, w, Nobody, <<CR>>)) = Shape(c + 1, w, Nobody, <<>>)
         /\ Settle(Shape(c, w, Nobody, <<WR>>)) = Shape(c, w + 1, Nobody, <<>>)
<1>1. ASSUME NEW t \in {"checker", "cluster"}
      PROVE  Settle(Shape(c, w, Nobody, <<<<t, "read">>>>)) =
               Shape(IF t = "checker" THEN c + 1 ELSE c, IF t = "cluster" THEN w + 1 ELSE w, Nobody, <<>>)
  <2> DEFINE q == <<<<t, "read">>>>
             l == Shape(c, w, Nobody, q)
             ns == {n \in 0..Len(q) : \A i \in 1..n : q[i][2] = "read"}
  <2>1. /\ l.writer = Nobody /\ l.queue = q /\ DOMAIN l.readers = Tasks
        /\ \A u \in Tasks : l.readers[u] = IF u = "checker" THEN c ELSE IF u = "cluster" THEN w ELSE 0
        /\ l = [readers |-> l.readers, writer |-> l.writer, queue |-> l.queue]
    BY DEF Shape, Readers, Tasks
  <2>2. 1 \in ns /\ \A n \in ns : n <= 1 /\ n \in Nat
    OBVIOUS
  <2>3. FrontReads(l) = Max(ns)
    <3>1. \A k : k.queue = q => FrontReads(k) = Max(ns)
      BY DEF FrontReads
    <3>2. QED BY <2>1, <3>1
  <2>4. Max(ns) = 1
    <3> HIDE DEF ns
    <3>1. QED BY <2>2 DEF Max
  <2>5. ~WriteMayGo(l)
    BY <2>1 DEF WriteMayGo
  <2>6. SubSeq(q, 2, Len(q)) = <<>>
    OBVIOUS
  <2> DEFINE more == [u \in Tasks |-> l.readers[u] + Cardinality({i \in 1..1 : q[i][1] = u})]
  <2>7. Settle(l) = [l EXCEPT !.readers = more, !.queue = <<>>]
    <3> HIDE DEF l, ns, q
    <3>1. FrontReads(l) = 1
      BY <2>3, <2>4
    <3>2. Settle(l) = [l EXCEPT !.readers = [u \in Tasks |->
                                               l.readers[u] + Cardinality({i \in 1..1 : l.queue[i][1] = u})],
                               !.queue = SubSeq(l.queue, 2, Len(l.queue))]
      BY <2>1, <2>5, <3>1 DEF Settle
    <3>3. l.queue = q /\ SubSeq(l.queue, 2, Len(l.queue)) = <<>>
      BY <2>1, <2>6
    <3> HIDE DEF more
    <3>4. more = [u \in Tasks |-> l.readers[u] + Cardinality({i \in 1..1 : l.queue[i][1] = u})]
      BY <3>3 DEF more
    <3>5. QED BY <3>2, <3>3, <3>4
  <2>8. \A u \in Tasks : Cardinality({i \in 1..1 : q[i][1] = u}) = IF u = t THEN 1 ELSE 0
    <3>1. \A u : u # t => {i \in 1..1 : q[i][1] = u} = {}
      OBVIOUS
    <3>2. {i \in 1..1 : q[i][1] = t} = {1}
      OBVIOUS
    <3>3. Cardinality({1}) = 1 /\ Cardinality({}) = 0
      BY FS_EmptySet, FS_Singleton
    <3> HIDE DEF q
    <3>4. QED BY <3>1, <3>2, <3>3
  <2>9. more = [u \in Tasks |-> IF u = "checker" THEN IF t = "checker" THEN c + 1 ELSE c
                                ELSE IF u = "cluster" THEN IF t = "cluster" THEN w + 1 ELSE w ELSE 0]
    <3> HIDE DEF l, q
    <3>1. QED BY <2>1, <2>8
  <2>10. QED BY <2>1, <2>7, <2>9 DEF Shape, Readers
<1>2. QED BY <1>1 DEF CR, WR

\* Asking and letting go, in terms of Settle.
LEMMA AskShape ==
  ASSUME NEW c, NEW w, NEW writer, NEW q, NEW r
  PROVE  Ask(Shape(c, w, writer, q), r[1], r[2]) = Settle(Shape(c, w, writer, Append(q, <<r[1], r[2]>>)))
<1> DEFINE l == Shape(c, w, writer, q)
<1>1. l.queue = q /\ \A z : [l EXCEPT !.queue = z] = Shape(c, w, writer, z)
  BY DEF Shape
<1> HIDE DEF l
<1>2. Ask(l, r[1], r[2]) = Settle(Shape(c, w, writer, Append(q, <<r[1], r[2]>>)))
  BY <1>1 DEF Ask
<1>3. QED BY <1>2 DEF l

LEMMA DropShape ==
  ASSUME NEW c \in Nat, NEW w \in Nat, NEW writer, NEW q
  PROVE  /\ DropRead(Shape(c, w, writer, q), "checker") = Settle(Shape(c - 1, w, writer, q))
         /\ DropRead(Shape(c, w, writer, q), "cluster") = Settle(Shape(c, w - 1, writer, q))
         /\ DropWrite(Shape(c, w, writer, q)) = Settle(Shape(c, w, Nobody, q))
<1> DEFINE l == Shape(c, w, writer, q)
<1>1. l.readers = Readers(c, w)
  BY DEF Shape
<1>2. [l EXCEPT !.writer = Nobody] = Shape(c, w, Nobody, q)
  BY DEF Shape
<1>3. \A m, n : [l EXCEPT !.readers = Readers(m, n)] = Shape(m, n, writer, q)
  BY DEF Shape
<1>4. /\ [Readers(c, w) EXCEPT !["checker"] = Readers(c, w)["checker"] - 1] = Readers(c - 1, w)
      /\ [Readers(c, w) EXCEPT !["cluster"] = Readers(c, w)["cluster"] - 1] = Readers(c, w - 1)
  BY DEF Readers, Tasks
<1> HIDE DEF l
<1>5. \A t : DropRead(l, t) = Settle([l EXCEPT !.readers = [l.readers EXCEPT ![t] = l.readers[t] - 1]])
  BY DEF DropRead
<1>6. /\ DropRead(l, "checker") = Settle([l EXCEPT !.readers = Readers(c - 1, w)])
      /\ DropRead(l, "cluster") = Settle([l EXCEPT !.readers = Readers(c, w - 1)])
  BY <1>1, <1>4, <1>5, Zenon
<1>7. DropWrite(l) = Settle(Shape(c, w, Nobody, q))
  BY <1>2 DEF DropWrite
<1>8. QED BY <1>3, <1>6, <1>7, Zenon DEF l

Requests == Tasks \X {"read", "write"}

LEMMA RequestTypes ==
  /\ \A r \in {CR, CW, WR, WW, MW} : r \in Requests
  /\ CR[1] = "checker" /\ CR[2] = "read" /\ CW[1] = "checker" /\ CW[2] = "write"
  /\ WR[1] = "cluster" /\ WR[2] = "read" /\ WW[1] = "cluster" /\ WW[2] = "write"
  /\ MW[1] = "member" /\ MW[2] = "write"
BY DEF CR, CW, WR, WW, MW, Requests, Tasks

LEMMA AppendFacts ==
  ASSUME NEW r \in Requests, NEW s \in Requests
  PROVE  Append(<<>>, r) = <<r>> /\ Append(<<r>>, s) = <<r, s>>
<1>1. Append(<<>>, r) = <<r>>
  OBVIOUS
<1>2. /\ <<r>> \in Seq(Requests) /\ <<r, s>> \in Seq(Requests)
      /\ Len(<<r>>) = 1 /\ Len(<<r, s>>) = 2 /\ <<r>>[1] = r /\ <<r, s>>[1] = r /\ <<r, s>>[2] = s
  OBVIOUS
<1>3. /\ Append(<<r>>, s) \in Seq(Requests) /\ Len(Append(<<r>>, s)) = 2
      /\ Append(<<r>>, s)[1] = r /\ Append(<<r>>, s)[2] = s
  BY <1>2
<1>4. \A i \in 1..2 : i = 1 \/ i = 2
  OBVIOUS
<1>5. Append(<<r>>, s) = <<r, s>>
  BY <1>2, <1>3, <1>4, SeqEqual
<1>6. QED BY <1>1, <1>5

LEMMA AskFirst ==
  ASSUME NEW c \in Nat, NEW w \in Nat, NEW writer, NEW r \in Requests
  PROVE  Ask(Shape(c, w, writer, <<>>), r[1], r[2]) = Settle(Shape(c, w, writer, <<r>>))
<1>1. Append(<<>>, <<r[1], r[2]>>) = <<r>>
  BY AppendFacts DEF Requests
<1>2. \A q : Ask(Shape(c, w, writer, q), r[1], r[2]) = Settle(Shape(c, w, writer, Append(q, <<r[1], r[2]>>)))
  BY AskShape
<1>3. Ask(Shape(c, w, writer, <<>>), r[1], r[2]) = Settle(Shape(c, w, writer, Append(<<>>, <<r[1], r[2]>>)))
  BY <1>2, Zenon
<1>4. QED BY <1>1, <1>3, Zenon

LEMMA AskSecond ==
  ASSUME NEW c \in Nat, NEW w \in Nat, NEW writer, NEW r \in Requests, NEW s \in Requests
  PROVE  Ask(Shape(c, w, writer, <<s>>), r[1], r[2]) = Settle(Shape(c, w, writer, <<s, r>>))
<1>1. Append(<<s>>, <<r[1], r[2]>>) = <<s, r>>
  BY AppendFacts DEF Requests
<1>2. \A q : Ask(Shape(c, w, writer, q), r[1], r[2]) = Settle(Shape(c, w, writer, Append(q, <<r[1], r[2]>>)))
  BY AskShape
<1>3. Ask(Shape(c, w, writer, <<s>>), r[1], r[2]) = Settle(Shape(c, w, writer, Append(<<s>>, <<r[1], r[2]>>)))
  BY <1>2, Zenon
<1>4. QED BY <1>1, <1>3, Zenon

\* Who waits in a queue of one or two.
LEMMA WaitsFacts ==
  ASSUME NEW c, NEW w, NEW writer, NEW t
  PROVE  /\ ~Waits(Shape(c, w, writer, <<>>), t)
         /\ \A r : Waits(Shape(c, w, writer, <<r>>), t) <=> r[1] = t
         /\ \A r, s : Waits(Shape(c, w, writer, <<r, s>>), t) <=> r[1] = t \/ s[1] = t
<1>1. \A q : Waits(Shape(c, w, writer, q), t) <=> \E i \in DOMAIN q : q[i][1] = t
  BY ShapeFields DEF Waits
<1>2. /\ DOMAIN <<>> = {} /\ \A r : DOMAIN <<r>> = {1} /\ <<r>>[1] = r
      /\ \A r, s : DOMAIN <<r, s>> = {1, 2} /\ <<r, s>>[1] = r /\ <<r, s>>[2] = s
  OBVIOUS
<1>3. QED BY <1>1, <1>2

\* A queue with a write in front stays as long as there are readers.
LEMMA StaysBehindReaders ==
  ASSUME NEW c \in Nat, NEW w \in Nat, c # 0 \/ w # 0, NEW r \in Requests, NEW s \in Requests, s[2] = "write"
  PROVE  /\ Settle(Shape(c, w, Nobody, <<s>>)) = Shape(c, w, Nobody, <<s>>)
         /\ Settle(Shape(c, w, Nobody, <<s, r>>)) = Shape(c, w, Nobody, <<s, r>>)
<1>1. \A q \in Seq(Tasks \X {"read", "write"}) : q # <<>> /\ q[1][2] = "write"
        => Settle(Shape(c, w, Nobody, q)) = Shape(c, w, Nobody, q)
  BY SettleStays
<1>2. <<s>> \in Seq(Tasks \X {"read", "write"}) /\ <<s>> # <<>> /\ <<s>>[1][2] = "write"
  BY DEF Requests
<1>3. <<s, r>> \in Seq(Tasks \X {"read", "write"}) /\ <<s, r>> # <<>> /\ <<s, r>>[1][2] = "write"
  BY DEF Requests
<1>4. QED BY <1>1, <1>2, <1>3, Zenon

-------------------------------------------------------------------------------
(* The lock of the member, when run_member has the write guard or waits for it:   *)
(* the checker has d read guards, or the last of the d is one it waits for.      *)

Held(l, d) ==
  \/ d = 0 /\ l = Shape(0, 0, "member", <<>>)
  \/ d = 1 /\ l = Shape(1, 0, Nobody, <<MW>>)
  \/ d = 2 /\ l = Shape(2, 0, Nobody, <<MW>>)
AskedFor(l, d) ==
  \/ Held(l, d)
  \/ d = 1 /\ l = Shape(0, 0, "member", <<CR>>)
  \/ d = 2 /\ l = Shape(1, 0, Nobody, <<MW, CR>>)

LEMMA CheckerAsks ==
  ASSUME NEW d \in {0, 1}, NEW l, Held(l, d)
  PROVE  AskedFor(Ask(l, "checker", "read"), d + 1)
<1>1. CASE d = 0
  <2>1. Ask(Shape(0, 0, "member", <<>>), CR[1], CR[2]) = Settle(Shape(0, 0, "member", <<CR>>))
    BY AskFirst, RequestTypes
  <2>2. Ask(l, "checker", "read") = Shape(0, 0, "member", <<CR>>)
    BY <1>1, <2>1, RequestTypes, SettleWriter DEF Held, Tasks
  <2>3. QED BY <1>1, <2>2 DEF AskedFor
<1>2. CASE d = 1
  <2>1. Ask(Shape(1, 0, Nobody, <<MW>>), CR[1], CR[2]) = Settle(Shape(1, 0, Nobody, <<MW, CR>>))
    BY AskSecond, RequestTypes
  <2>2. Ask(l, "checker", "read") = Shape(1, 0, Nobody, <<MW, CR>>)
    BY <1>2, <2>1, RequestTypes, StaysBehindReaders DEF Held
  <2>3. QED BY <1>2, <2>2 DEF AskedFor
<1>3. QED BY <1>1, <1>2

LEMMA CheckerDrops ==
  ASSUME NEW d \in {1, 2}, NEW l, Held(l, d)
  PROVE  Held(DropRead(l, "checker"), d - 1)
<1>1. CASE d = 1
  <2>1. DropRead(Shape(1, 0, Nobody, <<MW>>), "checker") = Settle(Shape(0, 0, Nobody, <<MW>>))
    <3>1. \A n \in Nat : \A q : DropRead(Shape(n, 0, Nobody, q), "checker") = Settle(Shape(n - 1, 0, Nobody, q))
      BY DropShape
    <3>2. DropRead(Shape(1, 0, Nobody, <<MW>>), "checker") = Settle(Shape(1 - 1, 0, Nobody, <<MW>>))
      BY <3>1
    <3>3. QED BY <3>2
  <2>2. Settle(Shape(0, 0, Nobody, <<MW>>)) = Shape(0, 0, "member", <<>>)
    BY SettleWrite DEF Tasks, MW
  <2>3. QED BY <1>1, <2>1, <2>2 DEF Held
<1>2. CASE d = 2
  <2>1. DropRead(Shape(2, 0, Nobody, <<MW>>), "checker") = Settle(Shape(1, 0, Nobody, <<MW>>))
    <3>1. \A n \in Nat : \A q : DropRead(Shape(n, 0, Nobody, q), "checker") = Settle(Shape(n - 1, 0, Nobody, q))
      BY DropShape
    <3>2. DropRead(Shape(2, 0, Nobody, <<MW>>), "checker") = Settle(Shape(2 - 1, 0, Nobody, <<MW>>))
      BY <3>1
    <3>3. QED BY <3>2
  <2>2. Settle(Shape(1, 0, Nobody, <<MW>>)) = Shape(1, 0, Nobody, <<MW>>)
    BY StaysBehindReaders, RequestTypes
  <2>3. QED BY <1>2, <2>1, <2>2 DEF Held
<1>3. QED BY <1>1, <1>2

\* A checker that does not wait has all its guards, and run_member, when he does not
\* wait, has his.
LEMMA GrantedHas ==
  ASSUME NEW d \in 0..2, NEW l, AskedFor(l, d)
  PROVE  /\ Granted("checker", l) => Held(l, d)
         /\ Granted("member", l) =>
              \/ d = 0 /\ l = Shape(0, 0, "member", <<>>)
              \/ d = 1 /\ l = Shape(0, 0, "member", <<CR>>)
<1>1. \A c, w, x : Waits(Shape(c, w, x, <<CR>>), "checker") /\ Waits(Shape(c, w, x, <<MW, CR>>), "checker")
  BY WaitsFacts, RequestTypes
<1>2. \A c, w, x : Waits(Shape(c, w, x, <<MW>>), "member") /\ Waits(Shape(c, w, x, <<MW, CR>>), "member")
  BY WaitsFacts, RequestTypes
<1>3. QED BY <1>1, <1>2 DEF AskedFor, Held, Granted

\* Alone the checker has whatever it asks for.
LEMMA Alone ==
  ASSUME NEW d \in 0..2
  PROVE  /\ d # 2 => Ask(Shape(d, 0, Nobody, <<>>), "checker", "read") = Shape(d + 1, 0, Nobody, <<>>)
         /\ d # 0 => DropRead(Shape(d, 0, Nobody, <<>>), "checker") = Shape(d - 1, 0, Nobody, <<>>)
         /\ \A t : Granted(t, Shape(d, 0, Nobody, <<>>))
         /\ Held(Ask(Shape(d, 0, Nobody, <<>>), "member", "write"), d)
<1>1. Ask(Shape(d, 0, Nobody, <<>>), "checker", "read") = Shape(d + 1, 0, Nobody, <<>>)
  <2>1. Ask(Shape(d, 0, Nobody, <<>>), CR[1], CR[2]) = Settle(Shape(d, 0, Nobody, <<CR>>))
    BY AskFirst, RequestTypes
  <2>2. Settle(Shape(d, 0, Nobody, <<CR>>)) = Shape(d + 1, 0, Nobody, <<>>)
    <3>1. d \in Nat /\ 0 \in Nat
      OBVIOUS
    <3>2. QED BY <3>1, SettleRead, Zenon
  <2>3. QED BY <2>1, <2>2, RequestTypes
<1>2. ASSUME d # 0 PROVE DropRead(Shape(d, 0, Nobody, <<>>), "checker") = Shape(d - 1, 0, Nobody, <<>>)
  <2>1. DropRead(Shape(d, 0, Nobody, <<>>), "checker") = Settle(Shape(d - 1, 0, Nobody, <<>>))
    BY DropShape
  <2>2. d - 1 \in Nat /\ <<>> \in Seq(Tasks \X {"read", "write"})
    BY <1>2
  <2>3. QED BY <2>1, <2>2, SettleStays
<1>3. \A t : Granted(t, Shape(d, 0, Nobody, <<>>))
  BY WaitsFacts DEF Granted
<1>4. Held(Ask(Shape(d, 0, Nobody, <<>>), "member", "write"), d)
  <2>1. Ask(Shape(d, 0, Nobody, <<>>), MW[1], MW[2]) = Settle(Shape(d, 0, Nobody, <<MW>>))
    BY AskFirst, RequestTypes
  <2>2. d = 0 => Settle(Shape(0, 0, Nobody, <<MW>>)) = Shape(0, 0, "member", <<>>)
    BY SettleWrite DEF MW, Tasks
  <2>3. ASSUME d # 0 PROVE Settle(Shape(d, 0, Nobody, <<MW>>)) = Shape(d, 0, Nobody, <<MW>>)
    <3>1. d \in Nat /\ 0 \in Nat /\ MW \in Requests /\ MW[2] = "write"
      BY RequestTypes
    <3>2. QED BY <2>3, <3>1, StaysBehindReaders
  <2>4. QED BY <2>1, <2>2, <2>3, RequestTypes DEF Held
<1>5. QED BY <1>1, <1>2, <1>3, <1>4

\* When run_member lets go the checker has what it waited for.
LEMMA MemberDrops ==
  ASSUME NEW d \in 0..2, NEW l, AskedFor(l, d), Granted("member", l)
  PROVE  DropWrite(l) = Shape(d, 0, Nobody, <<>>)
<1>1. CASE d = 0 /\ l = Shape(0, 0, "member", <<>>)
  <2>1. DropWrite(l) = Settle(Shape(0, 0, Nobody, <<>>))
    BY <1>1, DropShape
  <2>2. <<>> \in Seq(Tasks \X {"read", "write"})
    OBVIOUS
  <2>3. QED BY <1>1, <2>1, <2>2, SettleStays
<1>2. CASE d = 1 /\ l = Shape(0, 0, "member", <<CR>>)
  <2>1. DropWrite(l) = Settle(Shape(0, 0, Nobody, <<CR>>))
    BY <1>2, DropShape
  <2>2. Settle(Shape(0, 0, Nobody, <<CR>>)) = Shape(0 + 1, 0, Nobody, <<>>)
    BY SettleRead
  <2>3. QED BY <1>2, <2>1, <2>2
<1>3. QED BY <1>1, <1>2, GrantedHas

\* How many guards of the member the checker has asked for, by its place.
Guards(place) ==
  IF place \in {"off", "start", "statuses"} THEN 0
  ELSE IF place \in {"address", "top", "verdict", "sleep"} THEN 1 ELSE 2
Places == {"off", "start", "statuses", "address", "top", "probe", "rtt", "availability",
           "verdict", "key", "sleep"}

LockInv ==
  /\ cpc \in Places
  /\ IF mpc \in {"write", "remove"}
       THEN /\ AskedFor(lock, Guards(cpc))
            /\ cpc \in {"verdict", "sleep"} => Held(lock, Guards(cpc))
       ELSE lock = Shape(Guards(cpc), 0, Nobody, <<>>)

\* The steps of the checker, as far as this lock goes.
LEMMA LockOfChecker ==
  ASSUME LockInv, CheckerStep
  PROVE  LockInv'
<1>1. mpc' = mpc /\ Guards(cpc) \in 0..2
  BY DEF CheckerStep, StatusAsked, AddressAsked, StatusRead, Leaves, RoundStarts, Probed,
         RttSent, Judged, KeyAsked, StatusWritten, Wakes, member, Guards
<1> DEFINE d == Guards(cpc)
           wants == mpc \in {"write", "remove"}
           drops == DropRead(lock, "checker")
<1>2. CASE StatusAsked
  BY <1>1, <1>2 DEF StatusAsked, LockInv, Places, Guards, Goes, AskedFor
<1>3. CASE AddressAsked \/ KeyAsked \/ RoundStarts
  <2>1. /\ lock' = Ask(lock, "checker", "read") /\ d \in {0, 1} /\ Guards(cpc') = d + 1
        /\ cpc' \in {"address", "key", "probe", "rtt"}
        /\ cpc = "top" => Granted("checker", lock)
        /\ cpc \in {"statuses", "verdict", "top"}
    BY <1>3 DEF AddressAsked, KeyAsked, RoundStarts, Goes, Guards
  <2>2. CASE wants
    <3>1. Held(lock, d)
      BY <1>1, <2>1, <2>2, GrantedHas DEF LockInv, AskedFor, Guards
    <3>2. AskedFor(lock', Guards(cpc'))
      BY <2>1, <3>1, CheckerAsks
    <3>3. QED BY <1>1, <2>1, <2>2, <3>2 DEF LockInv, Places
  <2>3. CASE ~wants
    <3>1. lock' = Shape(d + 1, 0, Nobody, <<>>)
      BY <1>1, <2>1, <2>3, Alone DEF LockInv
    <3>2. QED BY <1>1, <2>1, <2>3, <3>1 DEF LockInv, Places
  <2>4. QED BY <2>2, <2>3
<1>4. CASE StatusRead \/ Wakes \/ Probed \/ RttSent
  <2>1. /\ lock' = Ask(drops, "checker", "read") /\ d \in {1, 2} /\ Guards(cpc') = d
        /\ cpc' \in {"top", "rtt", "availability"}
        /\ cpc # "sleep" => Granted("checker", lock)
    BY <1>4 DEF StatusRead, Wakes, Probed, RttSent, Goes, Guards
  <2>2. CASE wants
    <3>1. Held(lock, d)
      BY <1>1, <2>1, <2>2, GrantedHas DEF LockInv
    <3>2. Held(drops, d - 1) /\ d - 1 \in {0, 1} /\ (d - 1) + 1 = d
      BY <2>1, <3>1, CheckerDrops
    <3>3. AskedFor(lock', d)
      BY <2>1, <3>2, CheckerAsks
    <3>4. QED BY <1>1, <2>1, <2>2, <3>3 DEF LockInv, Places
  <2>3. CASE ~wants
    <3>1. lock' = Shape(d, 0, Nobody, <<>>)
      <4>1. drops = Shape(d - 1, 0, Nobody, <<>>) /\ d - 1 \in 0..2 /\ d - 1 # 2 /\ (d - 1) + 1 = d
        BY <1>1, <2>1, <2>3, Alone DEF LockInv
      <4>2. Ask(Shape(d - 1, 0, Nobody, <<>>), "checker", "read") = Shape((d - 1) + 1, 0, Nobody, <<>>)
        BY <4>1, Alone
      <4>3. QED BY <2>1, <4>1, <4>2
    <3>2. QED BY <1>1, <2>1, <2>3, <3>1 DEF LockInv, Places
  <2>4. QED BY <2>2, <2>3
<1>5. CASE Leaves \/ Judged \/ StatusWritten
  <2>1. /\ lock' = drops /\ d \in {1, 2} /\ Guards(cpc') = d - 1
        /\ cpc' \in {"off", "sleep", "verdict"}
        /\ Granted("checker", lock)
    BY <1>5 DEF Leaves, Judged, StatusWritten, Goes, Guards
  <2>2. CASE wants
    <3>1. Held(lock, d)
      BY <1>1, <2>1, <2>2, GrantedHas DEF LockInv
    <3>2. Held(lock', Guards(cpc'))
      BY <2>1, <3>1, CheckerDrops
    <3>3. QED BY <1>1, <2>1, <2>2, <3>2 DEF LockInv, Places, AskedFor
  <2>3. CASE ~wants
    <3>1. lock' = Shape(d - 1, 0, Nobody, <<>>)
      BY <1>1, <2>1, <2>3, Alone DEF LockInv
    <3>2. QED BY <1>1, <2>1, <2>3, <3>1 DEF LockInv, Places
  <2>4. QED BY <2>2, <2>3
<1>6. QED BY <1>2, <1>3, <1>4, <1>5 DEF CheckerStep

LEMMA LockOfMember ==
  ASSUME LockInv, HandleInv,
         MemberStep \/ ReceiveRemove \/ \E k \in Keepalives \cup {None} : ReceiveUpdate(k)
  PROVE  LockInv'
<1>1. Guards(cpc) \in 0..2
  BY DEF Guards
<1>2. CASE Written
  <2>1. DropWrite(lock) = Shape(Guards(cpc), 0, Nobody, <<>>)
    BY <1>1, <1>2, MemberDrops DEF Written, LockInv
  <2>2. lock' = DropWrite(lock) /\ mpc' \in {"recv", "join", "joinRemoved"}
    BY <1>2 DEF Written
  <2>3. cpc' = cpc \/ (cpc = "off" /\ cpc' = "start")
    BY <1>2 DEF Written, HandleInv, CheckerHasItsHandle
  <2>4. cpc' \in Places /\ Guards(cpc') = Guards(cpc)
    BY <2>3 DEF Guards, LockInv, Places
  <2>5. QED BY <2>1, <2>2, <2>4 DEF LockInv
<1>3. CASE Joined
  BY <1>3 DEF Joined, LockInv
<1>4. CASE ReceiveRemove /\ ~checker_handle
  BY <1>4 DEF ReceiveRemove, LockInv
<1>5. CASE (ReceiveRemove /\ checker_handle) \/ \E k \in Keepalives \cup {None} : ReceiveUpdate(k)
  <2>1. /\ mpc = "recv" /\ mpc' \in {"write", "remove"} /\ cpc' = cpc
        /\ lock' = Ask(lock, "member", "write")
    BY <1>5 DEF ReceiveRemove, ReceiveUpdate
  <2>2. lock = Shape(Guards(cpc), 0, Nobody, <<>>)
    BY <2>1 DEF LockInv
  <2>3. Held(lock', Guards(cpc))
    BY <1>1, <2>1, <2>2, Alone
  <2>4. QED BY <2>1, <2>3 DEF LockInv, AskedFor
<1>6. QED BY <1>2, <1>3, <1>4, <1>5 DEF MemberStep

-------------------------------------------------------------------------------
(* The statuses: a is what the checker does with them, b what the cluster does.   *)

\* The checker does not wait,
Has(l, a, b) ==
  \/ a = "idle"  /\ b = "idle"  /\ l = Shape(0, 0, Nobody, <<>>)
  \/ a = "idle"  /\ b = "read"  /\ l = Shape(0, 1, Nobody, <<>>)
  \/ a = "idle"  /\ b = "write" /\ l = Shape(0, 0, "cluster", <<>>)
  \/ a = "read"  /\ b = "idle"  /\ l = Shape(1, 0, Nobody, <<>>)
  \/ a = "read"  /\ b = "read"  /\ l = Shape(1, 1, Nobody, <<>>)
  \/ a = "read"  /\ b = "write" /\ l = Shape(1, 0, Nobody, <<WW>>)
  \/ a = "write" /\ b = "idle"  /\ l = Shape(0, 0, "checker", <<>>)
  \/ a = "write" /\ b = "read"  /\ l = Shape(0, 0, "checker", <<WR>>)
  \/ a = "write" /\ b = "write" /\ l = Shape(0, 0, "checker", <<WW>>)

\* or it does, for the cluster.
Behind(l, a, b) ==
  \/ a = "read"  /\ b = "write" /\ l = Shape(0, 0, "cluster", <<CR>>)
  \/ a = "write" /\ b = "read"  /\ l = Shape(0, 1, Nobody, <<CW>>)
  \/ a = "write" /\ b = "write" /\ l = Shape(0, 0, "cluster", <<CW>>)

LEMMA Settles ==
  /\ \A w \in 0..1 : /\ Settle(Shape(0, w, Nobody, <<CR>>)) = Shape(1, w, Nobody, <<>>)
                     /\ Settle(Shape(w, 0, Nobody, <<WR>>)) = Shape(w, 1, Nobody, <<>>)
                     /\ Settle(Shape(0, w, Nobody, <<>>)) = Shape(0, w, Nobody, <<>>)
                     /\ Settle(Shape(w, 0, Nobody, <<>>)) = Shape(w, 0, Nobody, <<>>)
  /\ \A q : Settle(Shape(0, 0, "cluster", q)) = Shape(0, 0, "cluster", q)
  /\ \A q : Settle(Shape(0, 0, "checker", q)) = Shape(0, 0, "checker", q)
  /\ Settle(Shape(0, 0, Nobody, <<CW>>)) = Shape(0, 0, "checker", <<>>)
  /\ Settle(Shape(0, 0, Nobody, <<WW>>)) = Shape(0, 0, "cluster", <<>>)
  /\ Settle(Shape(0, 1, Nobody, <<CW>>)) = Shape(0, 1, Nobody, <<CW>>)
  /\ Settle(Shape(1, 0, Nobody, <<WW>>)) = Shape(1, 0, Nobody, <<WW>>)
<1>1. ASSUME NEW w \in 0..1
      PROVE  /\ Settle(Shape(0, w, Nobody, <<CR>>)) = Shape(1, w, Nobody, <<>>)
             /\ Settle(Shape(w, 0, Nobody, <<WR>>)) = Shape(w, 1, Nobody, <<>>)
             /\ Settle(Shape(0, w, Nobody, <<>>)) = Shape(0, w, Nobody, <<>>)
             /\ Settle(Shape(w, 0, Nobody, <<>>)) = Shape(w, 0, Nobody, <<>>)
  <2>1. w \in Nat /\ 0 \in Nat /\ <<>> \in Seq(Tasks \X {"read", "write"}) /\ 0 + 1 = 1
    OBVIOUS
  <2>2. Settle(Shape(0, w, Nobody, <<CR>>)) = Shape(0 + 1, w, Nobody, <<>>)
    BY <2>1, SettleRead, Zenon
  <2>3. Settle(Shape(w, 0, Nobody, <<WR>>)) = Shape(w, 0 + 1, Nobody, <<>>)
    BY <2>1, SettleRead, Zenon
  <2>4. /\ Settle(Shape(0, w, Nobody, <<>>)) = Shape(0, w, Nobody, <<>>)
        /\ Settle(Shape(w, 0, Nobody, <<>>)) = Shape(w, 0, Nobody, <<>>)
    BY <2>1, SettleStays, Zenon
  <2>5. QED BY <2>1, <2>2, <2>3, <2>4
<1>2. \A t \in {"cluster", "checker"} : \A q : Settle(Shape(0, 0, t, q)) = Shape(0, 0, t, q)
  BY SettleWriter DEF Tasks
<1>3. \A t \in {"cluster", "checker"} : Settle(Shape(0, 0, Nobody, <<<<t, "write">>>>)) = Shape(0, 0, t, <<>>)
  BY SettleWrite DEF Tasks
<1>4. /\ Settle(Shape(0, 1, Nobody, <<CW>>)) = Shape(0, 1, Nobody, <<CW>>)
      /\ Settle(Shape(1, 0, Nobody, <<WW>>)) = Shape(1, 0, Nobody, <<WW>>)
  BY StaysBehindReaders, RequestTypes
<1>5. QED BY <1>1, <1>2, <1>3, <1>4 DEF CW, WW

\* The checker or the cluster asks, not having asked before.
LEMMA AskedTable ==
  /\ Ask(Shape(0, 0, Nobody, <<>>), "checker", "read") = Shape(1, 0, Nobody, <<>>)
  /\ Ask(Shape(0, 1, Nobody, <<>>), "checker", "read") = Shape(1, 1, Nobody, <<>>)
  /\ Ask(Shape(0, 0, "cluster", <<>>), "checker", "read") = Shape(0, 0, "cluster", <<CR>>)
  /\ Ask(Shape(0, 0, Nobody, <<>>), "checker", "write") = Shape(0, 0, "checker", <<>>)
  /\ Ask(Shape(0, 1, Nobody, <<>>), "checker", "write") = Shape(0, 1, Nobody, <<CW>>)
  /\ Ask(Shape(0, 0, "cluster", <<>>), "checker", "write") = Shape(0, 0, "cluster", <<CW>>)
  /\ Ask(Shape(0, 0, Nobody, <<>>), "cluster", "read") = Shape(0, 1, Nobody, <<>>)
  /\ Ask(Shape(1, 0, Nobody, <<>>), "cluster", "read") = Shape(1, 1, Nobody, <<>>)
  /\ Ask(Shape(0, 0, "checker", <<>>), "cluster", "read") = Shape(0, 0, "checker", <<WR>>)
  /\ Ask(Shape(0, 0, Nobody, <<>>), "cluster", "write") = Shape(0, 0, "cluster", <<>>)
  /\ Ask(Shape(1, 0, Nobody, <<>>), "cluster", "write") = Shape(1, 0, Nobody, <<WW>>)
  /\ Ask(Shape(0, 0, "checker", <<>>), "cluster", "write") = Shape(0, 0, "checker", <<WW>>)
<1>1. Ask(Shape(0, 0, Nobody, <<>>), CR[1], CR[2]) = Shape(1, 0, Nobody, <<>>)
  <2>1. Ask(Shape(0, 0, Nobody, <<>>), CR[1], CR[2]) = Settle(Shape(0, 0, Nobody, <<CR>>))
    BY AskFirst, RequestTypes
  <2>2. QED BY <2>1, Settles
<1>2. Ask(Shape(0, 1, Nobody, <<>>), CR[1], CR[2]) = Shape(1, 1, Nobody, <<>>)
  <2>1. Ask(Shape(0, 1, Nobody, <<>>), CR[1], CR[2]) = Settle(Shape(0, 1, Nobody, <<CR>>))
    BY AskFirst, RequestTypes
  <2>2. QED BY <2>1, Settles
<1>3. Ask(Shape(0, 0, "cluster", <<>>), CR[1], CR[2]) = Shape(0, 0, "cluster", <<CR>>)
  <2>1. Ask(Shape(0, 0, "cluster", <<>>), CR[1], CR[2]) = Settle(Shape(0, 0, "cluster", <<CR>>))
    BY AskFirst, RequestTypes
  <2>2. QED BY <2>1, Settles
<1>4. Ask(Shape(0, 0, Nobody, <<>>), CW[1], CW[2]) = Shape(0, 0, "checker", <<>>)
  <2>1. Ask(Shape(0, 0, Nobody, <<>>), CW[1], CW[2]) = Settle(Shape(0, 0, Nobody, <<CW>>))
    BY AskFirst, RequestTypes
  <2>2. QED BY <2>1, Settles
<1>5. Ask(Shape(0, 1, Nobody, <<>>), CW[1], CW[2]) = Shape(0, 1, Nobody, <<CW>>)
  <2>1. Ask(Shape(0, 1, Nobody, <<>>), CW[1], CW[2]) = Settle(Shape(0, 1, Nobody, <<CW>>))
    BY AskFirst, RequestTypes
  <2>2. QED BY <2>1, Settles
<1>6. Ask(Shape(0, 0, "cluster", <<>>), CW[1], CW[2]) = Shape(0, 0, "cluster", <<CW>>)
  <2>1. Ask(Shape(0, 0, "cluster", <<>>), CW[1], CW[2]) = Settle(Shape(0, 0, "cluster", <<CW>>))
    BY AskFirst, RequestTypes
  <2>2. QED BY <2>1, Settles
<1>7. Ask(Shape(0, 0, Nobody, <<>>), WR[1], WR[2]) = Shape(0, 1, Nobody, <<>>)
  <2>1. Ask(Shape(0, 0, Nobody, <<>>), WR[1], WR[2]) = Settle(Shape(0, 0, Nobody, <<WR>>))
    BY AskFirst, RequestTypes
  <2>2. QED BY <2>1, Settles
<1>8. Ask(Shape(1, 0, Nobody, <<>>), WR[1], WR[2]) = Shape(1, 1, Nobody, <<>>)
  <2>1. Ask(Shape(1, 0, Nobody, <<>>), WR[1], WR[2]) = Settle(Shape(1, 0, Nobody, <<WR>>))
    BY AskFirst, RequestTypes
  <2>2. QED BY <2>1, Settles
<1>9. Ask(Shape(0, 0, "checker", <<>>), WR[1], WR[2]) = Shape(0, 0, "checker", <<WR>>)
  <2>1. Ask(Shape(0, 0, "checker", <<>>), WR[1], WR[2]) = Settle(Shape(0, 0, "checker", <<WR>>))
    BY AskFirst, RequestTypes
  <2>2. QED BY <2>1, Settles
<1>10. Ask(Shape(0, 0, Nobody, <<>>), WW[1], WW[2]) = Shape(0, 0, "cluster", <<>>)
  <2>1. Ask(Shape(0, 0, Nobody, <<>>), WW[1], WW[2]) = Settle(Shape(0, 0, Nobody, <<WW>>))
    BY AskFirst, RequestTypes
  <2>2. QED BY <2>1, Settles
<1>11. Ask(Shape(1, 0, Nobody, <<>>), WW[1], WW[2]) = Shape(1, 0, Nobody, <<WW>>)
  <2>1. Ask(Shape(1, 0, Nobody, <<>>), WW[1], WW[2]) = Settle(Shape(1, 0, Nobody, <<WW>>))
    BY AskFirst, RequestTypes
  <2>2. QED BY <2>1, Settles
<1>12. Ask(Shape(0, 0, "checker", <<>>), WW[1], WW[2]) = Shape(0, 0, "checker", <<WW>>)
  <2>1. Ask(Shape(0, 0, "checker", <<>>), WW[1], WW[2]) = Settle(Shape(0, 0, "checker", <<WW>>))
    BY AskFirst, RequestTypes
  <2>2. QED BY <2>1, Settles
<1>13. QED BY <1>1, <1>2, <1>3, <1>4, <1>5, <1>6, <1>7, <1>8, <1>9, <1>10, <1>11, <1>12, RequestTypes

\* One of them lets go.
LEMMA DroppedTable ==
  /\ DropRead(Shape(1, 0, Nobody, <<>>), "checker") = Shape(0, 0, Nobody, <<>>)
  /\ DropRead(Shape(1, 1, Nobody, <<>>), "checker") = Shape(0, 1, Nobody, <<>>)
  /\ DropRead(Shape(1, 0, Nobody, <<WW>>), "checker") = Shape(0, 0, "cluster", <<>>)
  /\ DropRead(Shape(0, 1, Nobody, <<>>), "cluster") = Shape(0, 0, Nobody, <<>>)
  /\ DropRead(Shape(1, 1, Nobody, <<>>), "cluster") = Shape(1, 0, Nobody, <<>>)
  /\ DropRead(Shape(0, 1, Nobody, <<CW>>), "cluster") = Shape(0, 0, "checker", <<>>)
  /\ DropWrite(Shape(0, 0, "checker", <<>>)) = Shape(0, 0, Nobody, <<>>)
  /\ DropWrite(Shape(0, 0, "checker", <<WR>>)) = Shape(0, 1, Nobody, <<>>)
  /\ DropWrite(Shape(0, 0, "checker", <<WW>>)) = Shape(0, 0, "cluster", <<>>)
  /\ DropWrite(Shape(0, 0, "cluster", <<>>)) = Shape(0, 0, Nobody, <<>>)
  /\ DropWrite(Shape(0, 0, "cluster", <<CR>>)) = Shape(1, 0, Nobody, <<>>)
  /\ DropWrite(Shape(0, 0, "cluster", <<CW>>)) = Shape(0, 0, "checker", <<>>)
<1>1. DropRead(Shape(1, 0, Nobody, <<>>), "checker") = Shape(0, 0, Nobody, <<>>)
  <2>1. DropRead(Shape(1, 0, Nobody, <<>>), "checker") = Settle(Shape(1 - 1, 0, Nobody, <<>>))
    BY DropShape
  <2>2. Settle(Shape(0, 0, Nobody, <<>>)) = Shape(0, 0, Nobody, <<>>)
    BY Settles
  <2>3. QED BY <2>1, <2>2
<1>2. DropRead(Shape(1, 1, Nobody, <<>>), "checker") = Shape(0, 1, Nobody, <<>>)
  <2>1. DropRead(Shape(1, 1, Nobody, <<>>), "checker") = Settle(Shape(1 - 1, 1, Nobody, <<>>))
    BY DropShape
  <2>2. Settle(Shape(0, 1, Nobody, <<>>)) = Shape(0, 1, Nobody, <<>>)
    BY Settles
  <2>3. QED BY <2>1, <2>2
<1>3. DropRead(Shape(1, 0, Nobody, <<WW>>), "checker") = Shape(0, 0, "cluster", <<>>)
  <2>1. DropRead(Shape(1, 0, Nobody, <<WW>>), "checker") = Settle(Shape(1 - 1, 0, Nobody, <<WW>>))
    BY DropShape
  <2>2. Settle(Shape(0, 0, Nobody, <<WW>>)) = Shape(0, 0, "cluster", <<>>)
    BY Settles
  <2>3. QED BY <2>1, <2>2
<1>4. DropRead(Shape(0, 1, Nobody, <<>>), "cluster") = Shape(0, 0, Nobody, <<>>)
  <2>1. DropRead(Shape(0, 1, Nobody, <<>>), "cluster") = Settle(Shape(0, 1 - 1, Nobody, <<>>))
    BY DropShape
  <2>2. Settle(Shape(0, 0, Nobody, <<>>)) = Shape(0, 0, Nobody, <<>>)
    BY Settles
  <2>3. QED BY <2>1, <2>2
<1>5. DropRead(Shape(1, 1, Nobody, <<>>), "cluster") = Shape(1, 0, Nobody, <<>>)
  <2>1. DropRead(Shape(1, 1, Nobody, <<>>), "cluster") = Settle(Shape(1, 1 - 1, Nobody, <<>>))
    BY DropShape
  <2>2. Settle(Shape(1, 0, Nobody, <<>>)) = Shape(1, 0, Nobody, <<>>)
    BY Settles
  <2>3. QED BY <2>1, <2>2
<1>6. DropRead(Shape(0, 1, Nobody, <<CW>>), "cluster") = Shape(0, 0, "checker", <<>>)
  <2>1. DropRead(Shape(0, 1, Nobody, <<CW>>), "cluster") = Settle(Shape(0, 1 - 1, Nobody, <<CW>>))
    BY DropShape
  <2>2. Settle(Shape(0, 0, Nobody, <<CW>>)) = Shape(0, 0, "checker", <<>>)
    BY Settles
  <2>3. QED BY <2>1, <2>2
<1>7. DropWrite(Shape(0, 0, "checker", <<>>)) = Shape(0, 0, Nobody, <<>>)
  <2>1. DropWrite(Shape(0, 0, "checker", <<>>)) = Settle(Shape(0, 0, Nobody, <<>>))
    BY DropShape
  <2>2. QED BY <2>1, Settles
<1>8. DropWrite(Shape(0, 0, "checker", <<WR>>)) = Shape(0, 1, Nobody, <<>>)
  <2>1. DropWrite(Shape(0, 0, "checker", <<WR>>)) = Settle(Shape(0, 0, Nobody, <<WR>>))
    BY DropShape
  <2>2. QED BY <2>1, Settles
<1>9. DropWrite(Shape(0, 0, "checker", <<WW>>)) = Shape(0, 0, "cluster", <<>>)
  <2>1. DropWrite(Shape(0, 0, "checker", <<WW>>)) = Settle(Shape(0, 0, Nobody, <<WW>>))
    BY DropShape
  <2>2. QED BY <2>1, Settles
<1>10. DropWrite(Shape(0, 0, "cluster", <<>>)) = Shape(0, 0, Nobody, <<>>)
  <2>1. DropWrite(Shape(0, 0, "cluster", <<>>)) = Settle(Shape(0, 0, Nobody, <<>>))
    BY DropShape
  <2>2. QED BY <2>1, Settles
<1>11. DropWrite(Shape(0, 0, "cluster", <<CR>>)) = Shape(1, 0, Nobody, <<>>)
  <2>1. DropWrite(Shape(0, 0, "cluster", <<CR>>)) = Settle(Shape(0, 0, Nobody, <<CR>>))
    BY DropShape
  <2>2. QED BY <2>1, Settles
<1>12. DropWrite(Shape(0, 0, "cluster", <<CW>>)) = Shape(0, 0, "checker", <<>>)
  <2>1. DropWrite(Shape(0, 0, "cluster", <<CW>>)) = Settle(Shape(0, 0, Nobody, <<CW>>))
    BY DropShape
  <2>2. QED BY <2>1, Settles
<1>13. QED BY <1>1, <1>2, <1>3, <1>4, <1>5, <1>6, <1>7, <1>8, <1>9, <1>10, <1>11, <1>12

LEMMA StatusesAsked ==
  ASSUME NEW l, NEW mode \in {"read", "write"}, NEW other \in {"idle", "read", "write"}
  PROVE  /\ Has(l, "idle", other) =>
              LET m == Ask(l, "checker", mode) IN Has(m, mode, other) \/ Behind(m, mode, other)
         /\ Has(l, other, "idle") => Has(Ask(l, "cluster", mode), other, mode)
<1>1. ASSUME Has(l, "idle", other)
      PROVE  LET m == Ask(l, "checker", mode) IN Has(m, mode, other) \/ Behind(m, mode, other)
  BY <1>1, AskedTable DEF Has, Behind
<1>2. ASSUME Has(l, other, "idle") PROVE Has(Ask(l, "cluster", mode), other, mode)
  BY <1>2, AskedTable DEF Has
<1>3. QED BY <1>1, <1>2

LEMMA StatusesDropped ==
  ASSUME NEW l, NEW mode \in {"read", "write"}, NEW other \in {"idle", "read", "write"}
  PROVE  /\ Has(l, mode, other) =>
              Has(IF mode = "read" THEN DropRead(l, "checker") ELSE DropWrite(l), "idle", other)
         /\ Has(l, other, mode) \/ Behind(l, other, mode) => Waits(l, "cluster") \/
              Has(IF mode = "read" THEN DropRead(l, "cluster") ELSE DropWrite(l), other, "idle")
<1>1. ASSUME Has(l, mode, other)
      PROVE  Has(IF mode = "read" THEN DropRead(l, "checker") ELSE DropWrite(l), "idle", other)
  BY <1>1, DroppedTable DEF Has
<1>2. \A c, w, x, r : r[1] = "cluster" => Waits(Shape(c, w, x, <<r>>), "cluster")
  BY WaitsFacts
<1>3. ASSUME Has(l, other, mode), ~Waits(l, "cluster")
      PROVE  Has(IF mode = "read" THEN DropRead(l, "cluster") ELSE DropWrite(l), other, "idle")
  BY <1>2, <1>3, DroppedTable, RequestTypes DEF Has
<1>4. ASSUME Behind(l, other, mode)
      PROVE  Has(IF mode = "read" THEN DropRead(l, "cluster") ELSE DropWrite(l), other, "idle")
  BY <1>4, DroppedTable DEF Has, Behind
<1>5. QED BY <1>1, <1>3, <1>4

\* Behind means waiting.
LEMMA BehindWaits ==
  ASSUME NEW l, NEW a, NEW b, Behind(l, a, b)
  PROVE  Waits(l, "checker")
<1>1. \A w, x : Waits(Shape(0, w, x, <<CR>>), "checker") /\ Waits(Shape(0, w, x, <<CW>>), "checker")
  BY WaitsFacts, RequestTypes
<1>2. QED BY <1>1 DEF Behind

\* What the checker does with the statuses, by its place.
Use(place) ==
  IF place \in {"statuses", "address"} THEN "read"
  ELSE IF place \in {"verdict", "key"} THEN "write" ELSE "idle"

StatusesInv ==
  /\ cpc \in Places /\ wpc \in {"idle", "read", "write"}
  /\ \/ Has(statuses, Use(cpc), wpc)
     \/ Behind(statuses, Use(cpc), wpc) /\ cpc \in {"statuses", "verdict"}

LEMMA NextStatuses ==
  ASSUME StatusesInv, HandleInv, [Next]_vars
  PROVE  StatusesInv'
<1> USE DEF member, checked, counts
<1>1. CASE UNCHANGED <<statuses, wpc>> /\ cpc' \in Places /\ (cpc' = cpc \/ (Use(cpc) = "idle" /\ Use(cpc') = "idle"))
  <2>1. cpc' = cpc \/ Has(statuses, Use(cpc), wpc)
    BY <1>1 DEF StatusesInv, Use
  <2>2. QED BY <1>1, <2>1 DEF StatusesInv
<1>2. CASE MemberStep \/ ReceiveRemove \/ \E k \in Keepalives \cup {None} : ReceiveUpdate(k)
  <2>1. UNCHANGED <<statuses, wpc>> /\ (cpc' = cpc \/ (cpc = "off" /\ cpc' = "start"))
    BY <1>2 DEF MemberStep, Written, Joined, ReceiveRemove, ReceiveUpdate, HandleInv, CheckerHasItsHandle
  <2>2. QED BY <1>1, <2>1 DEF StatusesInv, Places, Use
<1>3. CASE Leaves \/ RoundStarts \/ Probed \/ RttSent \/ Wakes \/ (Judged /\ ~Earned)
  <2>1. /\ UNCHANGED <<statuses, wpc>> /\ cpc \in {"top", "probe", "rtt", "availability", "sleep"}
        /\ cpc' \in {"off", "probe", "rtt", "availability", "top", "sleep"}
    BY <1>3 DEF Leaves, RoundStarts, Probed, RttSent, Wakes, Judged, Goes
  <2>2. QED BY <1>1, <2>1 DEF Places, Use
<1>4. CASE StatusAsked \/ (Judged /\ Earned)
  <2>1. PICK mode \in {"read", "write"} :
          /\ statuses' = Ask(statuses, "checker", mode) /\ wpc' = wpc
          /\ Use(cpc) = "idle" /\ cpc' \in {"statuses", "verdict"} /\ Use(cpc') = mode
    <3>1. CASE StatusAsked
      BY <3>1 DEF StatusAsked, Goes, Use
    <3>2. CASE Judged /\ Earned
      BY <3>2 DEF Judged, Goes, Use
    <3>3. QED BY <1>4, <3>1, <3>2
  <2>2. Has(statuses, "idle", wpc) /\ wpc \in {"idle", "read", "write"}
    BY <2>1 DEF StatusesInv, Behind
  <2>3. Has(statuses', mode, wpc) \/ Behind(statuses', mode, wpc)
    BY <2>1, <2>2, StatusesAsked
  <2>4. QED BY <2>1, <2>2, <2>3 DEF StatusesInv, Places
<1>5. CASE AddressAsked \/ KeyAsked
  <2>1. /\ UNCHANGED <<statuses, wpc>> /\ Granted("checker", statuses)
        /\ cpc' \in {"address", "key"} /\ Use(cpc') = Use(cpc)
    BY <1>5 DEF AddressAsked, KeyAsked, Goes, Use
  <2>2. Has(statuses, Use(cpc), wpc)
    BY <2>1, BehindWaits DEF StatusesInv, Granted
  <2>3. QED BY <2>1, <2>2 DEF StatusesInv, Places
<1>6. CASE StatusRead \/ StatusWritten
  <2>1. /\ wpc' = wpc /\ Use(cpc) \in {"read", "write"} /\ cpc \in {"address", "key"}
        /\ cpc' \in {"top", "sleep"} /\ Use(cpc') = "idle"
        /\ statuses' = IF Use(cpc) = "read" THEN DropRead(statuses, "checker") ELSE DropWrite(statuses)
    BY <1>6 DEF StatusRead, StatusWritten, Goes, Use
  <2>2. Has(statuses, Use(cpc), wpc) /\ wpc \in {"idle", "read", "write"}
    BY <2>1 DEF StatusesInv
  <2>3. Has(statuses', "idle", wpc)
    BY <2>1, <2>2, StatusesDropped
  <2>4. QED BY <2>1, <2>2, <2>3 DEF StatusesInv, Places
<1>7. CASE \E mode \in {"read", "write"} : OthersAsk(mode)
  <2>1. PICK mode \in {"read", "write"} :
          wpc = "idle" /\ wpc' = mode /\ statuses' = Ask(statuses, "cluster", mode) /\ cpc' = cpc
    BY <1>7 DEF OthersAsk
  <2>2. Has(statuses, Use(cpc), "idle") /\ Use(cpc) \in {"idle", "read", "write"}
    BY <2>1 DEF StatusesInv, Behind, Use
  <2>3. Has(statuses', Use(cpc), mode)
    BY <2>1, <2>2, StatusesAsked
  <2>4. QED BY <2>1, <2>3 DEF StatusesInv
<1>8. CASE OthersDone
  <2>1. /\ wpc \in {"read", "write"} /\ wpc' = "idle" /\ ~Waits(statuses, "cluster") /\ cpc' = cpc
        /\ statuses' = IF wpc = "read" THEN DropRead(statuses, "cluster") ELSE DropWrite(statuses)
    BY <1>8 DEF OthersDone, Granted, StatusesInv
  <2>2. Use(cpc) \in {"idle", "read", "write"} /\ (Has(statuses, Use(cpc), wpc) \/ Behind(statuses, Use(cpc), wpc))
    BY DEF StatusesInv, Use
  <2>3. Has(statuses', Use(cpc), "idle")
    BY <2>1, <2>2, StatusesDropped
  <2>4. QED BY <2>1, <2>3 DEF StatusesInv
<1>9. CASE UNCHANGED vars
  BY <1>1, <1>9 DEF vars, StatusesInv
<1>10. QED
  BY <1>2, <1>3, <1>4, <1>5, <1>6, <1>7, <1>8, <1>9 DEF Next, CheckerStep

-------------------------------------------------------------------------------
(* Both locks with the rest: TypeOK.                                        *)

Waiting == {"recv", "write", "remove", "join", "joinRemoved", "gone"}

LocksInv == HandleInv /\ EarnedInv /\ LockInv /\ StatusesInv /\ mpc \in Waiting

\* Every shape that was met is a lock of these tasks with two guards and two requests at
\* the most.
LEMMA ShapesAreLocks ==
  ASSUME NEW c \in 0..2, NEW w \in 0..2, NEW writer \in Tasks \cup {Nobody},
         NEW r \in Requests, NEW s \in Requests
  PROVE  /\ Shape(c, w, writer, <<>>) \in LockOf(Tasks, 2)
         /\ Shape(c, w, writer, <<r>>) \in LockOf(Tasks, 2)
         /\ Shape(c, w, writer, <<r, s>>) \in LockOf(Tasks, 2)
<1>1. Readers(c, w) \in [Tasks -> 0..2]
  BY DEF Readers
<1>2. /\ <<>> \in [1..0 -> Requests]
      /\ <<r>> \in [1..1 -> Requests]
      /\ <<r, s>> \in [1..2 -> Requests]
  OBVIOUS
<1>3. ASSUME NEW q, NEW n \in 0..2, q \in [1..n -> Requests]
      PROVE  Shape(c, w, writer, q) \in LockOf(Tasks, 2)
  BY <1>1, <1>3 DEF Shape, LockOf, Requests
<1>4. 0 \in 0..2 /\ 1 \in 0..2 /\ 2 \in 0..2
  OBVIOUS
<1>5. Shape(c, w, writer, <<>>) \in LockOf(Tasks, 2)
  BY <1>2, <1>3, <1>4, Zenon
<1>6. Shape(c, w, writer, <<r>>) \in LockOf(Tasks, 2)
  BY <1>2, <1>3, <1>4, Zenon
<1>7. Shape(c, w, writer, <<r, s>>) \in LockOf(Tasks, 2)
  BY <1>2, <1>3, <1>4, Zenon
<1>8. QED BY <1>5, <1>6, <1>7

LEMMA LocksTyped ==
  ASSUME LocksInv
  PROVE  TypeOK
<1>1. 0 \in 0..2 /\ 1 \in 0..2 /\ 2 \in 0..2 /\ {"member", "checker", "cluster", Nobody} \subseteq Tasks \cup {Nobody}
      /\ CR \in Requests /\ CW \in Requests /\ WR \in Requests /\ WW \in Requests /\ MW \in Requests
  BY RequestTypes DEF Tasks
<1>2. /\ Shape(0, 0, Nobody, <<>>) \in LockOf(Tasks, 2) /\ Shape(1, 0, Nobody, <<>>) \in LockOf(Tasks, 2)
      /\ Shape(2, 0, Nobody, <<>>) \in LockOf(Tasks, 2) /\ Shape(0, 1, Nobody, <<>>) \in LockOf(Tasks, 2)
      /\ Shape(1, 1, Nobody, <<>>) \in LockOf(Tasks, 2) /\ Shape(0, 0, "member", <<>>) \in LockOf(Tasks, 2)
      /\ Shape(0, 0, "checker", <<>>) \in LockOf(Tasks, 2) /\ Shape(0, 0, "cluster", <<>>) \in LockOf(Tasks, 2)
  BY <1>1, ShapesAreLocks
<1>3. /\ Shape(1, 0, Nobody, <<MW>>) \in LockOf(Tasks, 2) /\ Shape(2, 0, Nobody, <<MW>>) \in LockOf(Tasks, 2)
      /\ Shape(0, 0, "member", <<CR>>) \in LockOf(Tasks, 2) /\ Shape(1, 0, Nobody, <<MW, CR>>) \in LockOf(Tasks, 2)
  BY <1>1, ShapesAreLocks
<1>4. /\ Shape(1, 0, Nobody, <<WW>>) \in LockOf(Tasks, 2) /\ Shape(0, 1, Nobody, <<CW>>) \in LockOf(Tasks, 2)
      /\ Shape(0, 0, "checker", <<WR>>) \in LockOf(Tasks, 2) /\ Shape(0, 0, "checker", <<WW>>) \in LockOf(Tasks, 2)
      /\ Shape(0, 0, "cluster", <<CR>>) \in LockOf(Tasks, 2) /\ Shape(0, 0, "cluster", <<CW>>) \in LockOf(Tasks, 2)
  BY <1>1, ShapesAreLocks
<1>5. lock \in LockOf(Tasks, 2)
  <2>1. Guards(cpc) \in 0..2
    BY DEF Guards
  <2>2. QED BY <1>2, <1>3, <2>1 DEF LocksInv, LockInv, AskedFor, Held
<1>6. statuses \in LockOf(Tasks, 2)
  BY <1>2, <1>4 DEF LocksInv, StatusesInv, Has, Behind
<1>7. QED
  BY <1>5, <1>6 DEF LocksInv, HandleInv, EarnedInv, CountTypes, LockInv, StatusesInv, Waiting, Places, Levels, TypeOK

LEMMA InitLocks == Init => LocksInv
<1> SUFFICES ASSUME Init PROVE LocksInv
  OBVIOUS
<1>1. Unlocked(Tasks) = Shape(0, 0, Nobody, <<>>)
  BY DEF Unlocked, Shape, Readers
<1>2. HandleInv
  BY DEF Init, HandleInv, CheckerHasItsHandle
<1>3. cpc \in {"off", "start"} /\ mpc = "recv" /\ wpc = "idle" /\ lock = Shape(0, 0, Nobody, <<>>) /\ statuses = Shape(0, 0, Nobody, <<>>)
  BY <1>1 DEF Init
<1>4. LockInv /\ StatusesInv /\ mpc \in Waiting
  BY <1>3 DEF LockInv, StatusesInv, Waiting, Places, Guards, Has, Use
<1>5. QED BY <1>2, <1>4, InitEarned DEF LocksInv

LEMMA NextLock == HandleInv /\ LockInv /\ [Next]_vars => LockInv'
<1> SUFFICES ASSUME HandleInv, LockInv, [Next]_vars PROVE LockInv'
  OBVIOUS
<1>1. CASE CheckerStep
  BY <1>1, LockOfChecker
<1>2. CASE MemberStep \/ ReceiveRemove \/ \E k \in Keepalives \cup {None} : ReceiveUpdate(k)
  BY <1>2, LockOfMember
<1>3. CASE OthersDone \/ (\E mode \in {"read", "write"} : OthersAsk(mode)) \/ UNCHANGED vars
  BY <1>3 DEF OthersDone, OthersAsk, vars, member, LockInv
<1>4. QED BY <1>1, <1>2, <1>3 DEF Next

LEMMA NextLocks == LocksInv /\ [Next]_vars => LocksInv'
<1> SUFFICES ASSUME LocksInv, [Next]_vars PROVE LocksInv'
  OBVIOUS
<1>1. HandleInv' /\ EarnedInv' /\ LockInv' /\ StatusesInv'
  BY NextHandleInv, NextEarned, NextLock, NextStatuses DEF LocksInv
<1>2. mpc' \in Waiting
  BY DEF LocksInv, Waiting, Next, MemberStep, Written, Joined, ReceiveRemove, ReceiveUpdate, OthersDone,
         OthersAsk, CheckerStep, StatusAsked, AddressAsked, StatusRead, Leaves, RoundStarts, Probed,
         RttSent, Judged, KeyAsked, StatusWritten, Wakes, member, vars
<1>3. QED BY <1>1, <1>2 DEF LocksInv

\* Everything keeps its type, the two locks above all: no task ever has more than two read
\* guards of one lock, a writer excludes all readers, no guard is let go of that is not held,
\* and never more than two requests wait (member.read() inside member.read(), in checker).
THEOREM LocksStayInShape == Spec => []TypeOK
<1>1. QED BY InitLocks, NextLocks, LocksTyped, PTL DEF Spec
===============================================================================
