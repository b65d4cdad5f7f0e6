-------------------------------- MODULE Relay ---------------------------------
(***************************************************************************)
(* One request once a backend connection is open: process_cluster with       *)
(* process_cluster_request (the task "cluster") and process_client_request    *)
(* (the task "client") of workers/connections/http.rs.  Each task owns the    *)
(* socket of its side and shares with the other the two StrictBuffers:       *)
(*                                                                         *)
(*   remote client ==> client ==[up]==> cluster ==> backend                  *)
(*   remote client <== client <=[down]== cluster <== backend                 *)
(*                                                                         *)
(* A task is one future: it is either scheduled or asleep, and it runs from   *)
(* one await to the next.  Bytes are numbered, in each direction, in the order *)
(* the gateway reads them from the socket; in both directions the first        *)
(* HeadLen of them are the head, of which StatusLen are the first line.        *)
(***************************************************************************)
EXTENDS StrictBuffer, Integers

CONSTANTS
  UpSize, DownSize,      \* sizes of the two buffers
  Room,                  \* bytes one read can return: the arrays of http.rs:252
  SockCap,               \* what a socket takes before a write to it blocks
  StatusLen, HeadLen,    \* of the heads, in both directions
  MaxUp, MaxDown         \* bounds: bytes the remote client and the backend send

ASSUME SizesAssumption ==
  /\ {UpSize, DownSize, Room, SockCap, StatusLen} \subseteq Nat \ {0}
  /\ {HeadLen, MaxUp, MaxDown} \subseteq Nat /\ StatusLen <= HeadLen /\ HeadLen <= MaxUp

Tasks == {"client", "cluster"}
Dirs  == {"up", "down"}
Out(t)  == IF t = "client" THEN "up" ELSE "down"     \* the buffer t writes
In(t)   == IF t = "client" THEN "down" ELSE "up"     \* the buffer t reads
Peer(t) == IF t = "client" THEN "cluster" ELSE "client"
MaxSent(t) == IF t = "client" THEN MaxUp ELSE MaxDown
MaxBytes == IF MaxUp >= MaxDown THEN MaxUp ELSE MaxDown
SizeOf(d) == IF d = "up" THEN UpSize ELSE DownSize

VARIABLES
  buf,      \* the two StrictBuffers
  pc,       \* "heads": awaiting the backend's head or the request (http.rs:114)
            \* "write": awaiting write_buffer.write    "select": the relay loop
            \* "socket": awaiting connection.write     "closing": after the loop
            \* "done": the task has returned, failed or panicked
  asleep,   \* the tasks that returned Pending and were not woken since
  todo,     \* the slices t has left to write to its buffer, as <<first, last>>
  carry,    \* the bytes t read from its buffer and is writing to its socket
  answered, \* process_cluster has left its header loop
  tried,    \* bytes of the backend's stream before the current read_headers began
  kept,     \* bytes of the head that read_headers has stored in http_connection
  got,      \* bytes t has read from its socket
  sent,     \* bytes the remote end of t has sent
  closed,   \* the remote ends that have closed
  queued,   \* bytes in the socket of t that its remote end has not taken
  last,     \* number of the last byte t wrote to its socket
  shut      \* the sockets whose sending half the gateway has shut down

vars == <<buf, pc, asleep, todo, carry, answered, tried, kept, got, sent, closed,
          queued, last, shut>>
headers == <<answered, tried, kept>>
remote  == <<sent, closed>>

\* process_client_request starts with the head and what was read behind it still
\* to be written; process_cluster starts in its header loop.
Init ==
  /\ buf = [d \in Dirs |-> IF d = "up" THEN New(UpSize, "client", "cluster")
                          ELSE New(DownSize, "cluster", "client")]
  /\ pc = [t \in Tasks |-> IF t = "client" THEN "write" ELSE "heads"]
  /\ asleep = {}
  /\ \E rest \in 0..(MaxUp - HeadLen) :
       /\ got = [t \in Tasks |-> IF t = "client" THEN HeadLen + rest ELSE 0]
       /\ todo = [t \in Tasks |->
            IF t = "client" THEN <<<<1, StatusLen>>, <<StatusLen + 1, HeadLen>>,
                                   <<HeadLen + 1, HeadLen + rest>>>>
            ELSE <<>>]
  /\ carry = [t \in Tasks |-> <<>>]
  /\ answered = FALSE /\ tried = 0 /\ kept = 0
  /\ sent = got /\ closed = {}
  /\ queued = [t \in Tasks |-> 0] /\ last = [t \in Tasks |-> 0] /\ shut = {}

-------------------------------------------------------------------------------
\* What a task can see when it is polled.
Runs(t, at)   == pc[t] = at /\ t \notin asleep
Available(t)  == sent[t] - got[t]
SocketEof(t)  == t \in closed /\ Available(t) = 0
PipeEnd(t)    == NothingToRead(buf[In(t)]) /\ LastHandle(buf[In(t)], t)
PipePending(t) == NothingToRead(buf[In(t)]) /\ ~LastHandle(buf[In(t)], t)

\* The slot of a buffer is emptied and the task in it is scheduled; a faulty
\* variant schedules nobody.
WokenNobody(d) == UNCHANGED asleep
Woken(d) == asleep' = asleep \ {buf[d].waker}

\* The branches of a select! are polled in random order: before the socket branch
\* is taken the pipe may have been polled, and then t is left in its slot.
MaybePolledPipe(t) ==
  {buf} \cup (IF PipePending(t) THEN {[buf EXCEPT ![In(t)] = Park(@, t)]} ELSE {})

\* The pieces of a head of which the first k bytes are known, and what follows it.
Pieces(k, upto) ==
  <<<<1, StatusLen>>, <<StatusLen + 1, k>>, <<HeadLen + 1, upto>>>>

-------------------------------------------------------------------------------
\* Faulty variants of the definitions around them.

\* What was read behind the head is forgotten.
HeadCompleteOnly(n) ==
  /\ Runs("cluster", "heads") /\ n <= Available("cluster")
  /\ tried = 0 /\ got["cluster"] + n >= HeadLen
  /\ got' = [got EXCEPT !["cluster"] = @ + n]
  /\ todo' = [todo EXCEPT !["cluster"] = Pieces(HeadLen, HeadLen)]
  /\ pc' = [pc EXCEPT !["cluster"] = "write"]
  /\ answered' = TRUE /\ kept' = HeadLen
  /\ buf' \in MaybePolledPipe("cluster")
  /\ UNCHANGED <<asleep, carry, tried, remote, queued, last, shut>>

\* A slice that was cut is written again from its first byte.
PipeWriteAgain(t) ==
  /\ Runs(t, "write") /\ ~Full(buf[Out(t)])
  /\ LET slice == Head(todo[t])
         n == slice[2] - slice[1] + 1
         cut == WriteLen(buf[Out(t)], n) < n
     IN /\ buf' = [buf EXCEPT ![Out(t)] = Write(@, n, [k \in 1..n |-> slice[1] + k - 1])]
        /\ todo' = [todo EXCEPT ![t] = IF cut THEN @ ELSE Tail(@)]
        /\ pc' = [pc EXCEPT ![t] = IF Len(todo[t]) = 1 /\ ~cut THEN "select" ELSE @]
  /\ Woken(Out(t))
  /\ UNCHANGED <<carry, headers, got, remote, queued, last, shut>>

-------------------------------------------------------------------------------
\* The loop of process_cluster, http.rs:114-128.

\* read_headers gets n bytes.  The head is complete: the response goes on.
HeadComplete(n) ==
  /\ Runs("cluster", "heads") /\ n <= Available("cluster")
  /\ tried = 0 /\ got["cluster"] + n >= HeadLen
  /\ got' = [got EXCEPT !["cluster"] = @ + n]
  /\ todo' = [todo EXCEPT !["cluster"] = Pieces(HeadLen, got'["cluster"])]
  /\ pc' = [pc EXCEPT !["cluster"] = "write"]
  /\ answered' = TRUE /\ kept' = HeadLen
  /\ buf' \in MaybePolledPipe("cluster")
  /\ UNCHANGED <<asleep, carry, tried, remote, queued, last, shut>>

\* read_headers gets n bytes and awaits more: complete lines are stored, the rest
\* is in its own array.
HeadGrows(n) ==
  /\ Runs("cluster", "heads") /\ n <= Available("cluster")
  /\ tried > 0 \/ got["cluster"] + n < HeadLen
  /\ got' = [got EXCEPT !["cluster"] = @ + n]
  /\ kept' = IF tried = 0 /\ got'["cluster"] >= StatusLen THEN got'["cluster"] ELSE kept
  /\ buf' \in MaybePolledPipe("cluster")
  /\ UNCHANGED <<pc, asleep, todo, carry, answered, tried, remote, queued, last, shut>>

\* read_headers fails: the connection was closed, or it was restarted in the middle
\* of a head.  The loop ends all the same: with the status line known the response
\* goes on from what was stored, without it protocol.unwrap() panics.
HeadFails ==
  /\ Runs("cluster", "heads")
  /\ \/ SocketEof("cluster") /\ UNCHANGED shut
     \/ got["cluster"] > tried /\ tried > 0 /\ shut' = shut \cup {"cluster"}
  /\ answered' = TRUE
  /\ IF kept >= StatusLen
       THEN /\ pc' = [pc EXCEPT !["cluster"] = "write"]
            /\ todo' = [todo EXCEPT !["cluster"] = Pieces(kept, HeadLen)]
            /\ buf' \in MaybePolledPipe("cluster") /\ UNCHANGED asleep
       ELSE /\ pc' = [pc EXCEPT !["cluster"] = "done"]
            /\ buf' = [d \in Dirs |-> Drop(buf[d], "cluster")]
            /\ UNCHANGED <<todo, asleep>>
  /\ UNCHANGED <<carry, tried, kept, got, remote, queued, last>>

\* The read of the request wins: read_headers is dropped with what it had read.
HeadCancelled ==
  /\ Runs("cluster", "heads")
  /\ tried' = got["cluster"]
  /\ \/ /\ PipeEnd("cluster")                  \* 0 bytes: the loop goes round
        /\ UNCHANGED <<buf, pc, carry, asleep>>
     \/ /\ ~NothingToRead(buf["up"])
        /\ carry' = [carry EXCEPT !["cluster"] =
                       SubSeq(Window(buf["up"]), 1, ReadLen(buf["up"], Room))]
        /\ buf' = [buf EXCEPT !["up"] = Read(@, Room)]
        /\ pc' = [pc EXCEPT !["cluster"] = "socket"]
        /\ Woken("up")
  /\ UNCHANGED <<todo, answered, kept, got, remote, queued, last, shut>>

-------------------------------------------------------------------------------
\* Awaiting write_buffer.write: one slice, of which only what fits is written.
PipeWrite(t) ==
  /\ Runs(t, "write") /\ ~Full(buf[Out(t)])
  /\ LET slice == Head(todo[t])
         n == slice[2] - slice[1] + 1
     IN buf' = [buf EXCEPT ![Out(t)] = Write(@, n, [k \in 1..n |-> slice[1] + k - 1])]
  /\ Woken(Out(t))
  /\ todo' = [todo EXCEPT ![t] = Tail(@)]
  /\ pc' = [pc EXCEPT ![t] = IF Len(todo[t]) = 1 THEN "select" ELSE @]
  /\ UNCHANGED <<carry, headers, got, remote, queued, last, shut>>

PipeFull(t) ==
  /\ Runs(t, "write") /\ Full(buf[Out(t)])
  /\ buf' = [buf EXCEPT ![Out(t)] = Park(@, t)]
  /\ asleep' = asleep \cup {t}
  /\ UNCHANGED <<pc, todo, carry, headers, got, remote, queued, last, shut>>

\* Awaiting connection.write: what the socket takes is written, the rest is lost.
SocketWrite(t) ==
  /\ Runs(t, "socket") /\ queued[t] < SockCap /\ t \notin shut
  /\ LET k == IF Len(carry[t]) <= SockCap - queued[t] THEN Len(carry[t])
              ELSE SockCap - queued[t]
     IN queued' = [queued EXCEPT ![t] = @ + k] /\ last' = [last EXCEPT ![t] = carry[t][k]]
  /\ carry' = [carry EXCEPT ![t] = <<>>]
  /\ pc' = [pc EXCEPT ![t] = IF t = "cluster" /\ ~answered THEN "heads" ELSE "select"]
  /\ UNCHANGED <<buf, asleep, todo, headers, got, remote, shut>>

SocketFull(t) ==
  /\ Runs(t, "socket") /\ queued[t] = SockCap /\ t \notin shut \cup closed
  /\ asleep' = asleep \cup {t}
  /\ UNCHANGED <<buf, pc, todo, carry, headers, got, remote, queued, last, shut>>

\* The write fails: the task returns at once, by the question mark.
SocketFails(t) ==
  /\ Runs(t, "socket") /\ t \in shut \cup closed
  /\ pc' = [pc EXCEPT ![t] = "done"]
  /\ buf' = [d \in Dirs |-> Drop(buf[d], t)]
  /\ UNCHANGED <<asleep, todo, carry, headers, got, remote, queued, last, shut>>

-------------------------------------------------------------------------------
\* The loop of process_client_request and of process_cluster_request.
FromSocket(t, n) ==
  /\ Runs(t, "select") /\ n <= Available(t)
  /\ got' = [got EXCEPT ![t] = @ + n]
  /\ todo' = [todo EXCEPT ![t] = <<<<got[t] + 1, got[t] + n>>>>]
  /\ pc' = [pc EXCEPT ![t] = "write"]
  /\ buf' \in MaybePolledPipe(t)
  /\ UNCHANGED <<asleep, carry, headers, remote, queued, last, shut>>

\* The remote end has closed.  Only the client's task shuts its buffer down.
SocketEnds(t) ==
  /\ Runs(t, "select") /\ SocketEof(t)
  /\ \E b \in MaybePolledPipe(t) :
       IF t = "client" THEN buf' = [b EXCEPT !["up"] = Shutdown(@)] /\ Woken("up")
       ELSE buf' = b /\ UNCHANGED asleep
  /\ pc' = [pc EXCEPT ![t] = "closing"]
  /\ shut' = shut \cup {t}
  /\ UNCHANGED <<todo, carry, headers, got, remote, queued, last>>

FromPipe(t) ==
  /\ Runs(t, "select") /\ ~NothingToRead(buf[In(t)])
  /\ carry' = [carry EXCEPT ![t] =
                 SubSeq(Window(buf[In(t)]), 1, ReadLen(buf[In(t)], Room))]
  /\ buf' = [buf EXCEPT ![In(t)] = Read(@, Room)]
  /\ Woken(In(t))
  /\ pc' = [pc EXCEPT ![t] = "socket"]
  /\ UNCHANGED <<todo, headers, got, remote, queued, last, shut>>

PipeEnds(t) ==
  /\ Runs(t, "select") /\ PipeEnd(t)
  /\ pc' = [pc EXCEPT ![t] = "closing"]
  /\ shut' = shut \cup {t}
  /\ UNCHANGED <<buf, asleep, todo, carry, headers, got, remote, queued, last>>

\* Neither branch is ready, in this loop or in the header loop.
Sleep(t) ==
  /\ Runs(t, "select") \/ Runs(t, "heads")
  /\ Available(t) = 0 /\ t \notin closed /\ PipePending(t)
  /\ buf' = [buf EXCEPT ![In(t)] = Park(@, t)]
  /\ asleep' = asleep \cup {t}
  /\ UNCHANGED <<pc, todo, carry, headers, got, remote, queued, last, shut>>

\* Metrics sent, the task returns: its two handles are dropped, nobody is woken.
Finish(t) ==
  /\ Runs(t, "closing")
  /\ pc' = [pc EXCEPT ![t] = "done"]
  /\ buf' = [d \in Dirs |-> Drop(buf[d], t)]
  /\ UNCHANGED <<asleep, todo, carry, headers, got, remote, queued, last, shut>>

TaskStep(t) ==
  \/ PipeWrite(t) \/ PipeFull(t) \/ SocketWrite(t) \/ SocketFull(t) \/ SocketFails(t)
  \/ \E n \in 1..Room : FromSocket(t, n)
  \/ SocketEnds(t) \/ FromPipe(t) \/ PipeEnds(t) \/ Sleep(t) \/ Finish(t)
HeadStep ==
  \/ \E n \in 1..Room : HeadComplete(n) \/ HeadGrows(n)
  \/ HeadFails \/ HeadCancelled

-------------------------------------------------------------------------------
\* The remote ends.  A task that awaits its socket is woken by it; one that awaits
\* something else may be, by a waker the socket kept from an earlier poll.
SocketWakes(t, awaiting) ==
  \/ asleep' = asleep \ {t}
  \/ pc[t] \notin awaiting /\ UNCHANGED asleep

RemoteSends(t) ==
  /\ sent[t] < MaxSent(t) /\ t \notin closed
  /\ sent' = [sent EXCEPT ![t] = @ + 1]
  /\ SocketWakes(t, {"select", "heads"})
  /\ UNCHANGED <<buf, pc, todo, carry, headers, got, closed, queued, last, shut>>

RemoteReads(t) ==
  /\ queued[t] > 0 /\ t \notin closed
  /\ queued' = [queued EXCEPT ![t] = @ - 1]
  /\ SocketWakes(t, {"socket"})
  /\ UNCHANGED <<buf, pc, todo, carry, headers, got, remote, last, shut>>

RemoteCloses(t) ==
  /\ t \notin closed
  /\ closed' = closed \cup {t}
  /\ SocketWakes(t, {"select", "heads", "socket"})
  /\ UNCHANGED <<buf, pc, todo, carry, headers, got, sent, queued, last, shut>>

RemoteStep(t) == RemoteSends(t) \/ RemoteReads(t) \/ RemoteCloses(t)

Next == HeadStep \/ \E t \in Tasks : TaskStep(t) \/ RemoteStep(t)

Spec == Init /\ [][Next]_vars

\* The executor polls a task that is scheduled.  The remote ends take what is sent
\* to them and close in the end: no timeout of the gateway would end a request.
Fairness ==
  /\ WF_vars(HeadStep)
  /\ \A t \in Tasks : WF_vars(TaskStep(t)) /\ WF_vars(RemoteReads(t)) /\ WF_vars(RemoteCloses(t))

FairSpec == Spec /\ Fairness

-------------------------------------------------------------------------------
TypeOK ==
  /\ buf["up"] \in Buffers(UpSize, 0..MaxBytes, Tasks)
  /\ buf["down"] \in Buffers(DownSize, 0..MaxBytes, Tasks)
  /\ pc \in [Tasks -> {"heads", "write", "select", "socket", "closing", "done"}]
  /\ asleep \subseteq Tasks
  /\ \A t \in Tasks : /\ todo[t] \in Seq((1..(MaxBytes + 1)) \X (0..MaxBytes))
                      /\ Len(todo[t]) <= 3
                      /\ carry[t] \in Seq(1..MaxBytes)
  /\ answered \in BOOLEAN /\ tried \in 0..MaxBytes /\ kept \in 0..HeadLen
  /\ \A n \in {got, sent, last} : n \in [Tasks -> 0..MaxBytes]
  /\ closed \subseteq Tasks /\ shut \subseteq Tasks
  /\ queued \in [Tasks -> 0..SockCap]

\* Everything of one direction that is inside the gateway, oldest byte first: what
\* its reader took out of the buffer, the buffer, what its writer still has to write.
\* These are never more than the three slices of a head and what was read behind it.
Slice(t, i) ==
  IF i \in 1..Len(todo[t])
  THEN [k \in 1..(todo[t][i][2] - todo[t][i][1] + 1) |-> todo[t][i][1] + k - 1]
  ELSE <<>>
Slices(t) == Slice(t, 1) \o Slice(t, 2) \o Slice(t, 3)
Inside(t) == carry[Peer(t)] \o Window(buf[Out(t)]) \o Slices(t)

\* No byte overtakes another and none is repeated on its way from one socket through
\* two tasks and a buffer to the other, whatever is cut, cancelled or retried.
InOrder ==
  \A t \in Tasks :
    LET s == Inside(t) IN
    /\ \A i \in 1..Len(s) : last[Peer(t)] < s[i] /\ s[i] <= got[t]
    /\ \A i \in 1..(Len(s) - 1) : s[i] < s[i + 1]

\* Writes are never completed (write, not write_all), and yet nothing is lost of a
\* message that is no longer than the buffer and the socket it goes through, as
\* long as read_headers was not cancelled in the middle of a head.
ShortMessagesArriveWhole ==
  \A t \in Tasks :
    LET short == got[t] <= SizeOf(Out(t)) /\ got[t] <= SockCap
        reading == t = "cluster" /\ ~answered
    IN short /\ (t = "cluster" => tried = 0)
         => Len(Inside(t)) = (IF reading THEN 0 ELSE
                              IF t = "cluster" /\ kept < HeadLen THEN kept ELSE got[t])
                             - last[Peer(t)]

\* A task that is asleep has nothing to do and somebody who will wake it: its
\* socket, or the slot of the buffer it waits for, which the other task's
\* registrations and the stale ones of its own never take from it.
SleepersAreRegistered ==
  \A t \in asleep :
    /\ pc[t] \in {"select", "heads"} =>
         /\ Available(t) = 0 /\ t \notin closed
         /\ NothingToRead(buf[In(t)])
         /\ buf[In(t)].waker = t
    /\ pc[t] = "write" => Full(buf[Out(t)]) /\ buf[Out(t)].waker = t
    /\ pc[t] = "socket" => queued[t] = SockCap

\* Both directions of a request, in every state: typed, in order, and with nobody asleep
\* whom nothing can wake.
RelayInv == TypeOK /\ InOrder /\ SleepersAreRegistered

\* The two tasks of a request are stuck for good exactly in these shapes: each that
\* is left waits for room in a full buffer, and whoever could make room is gone
\* or waits in the same way.
Blocked(t) == t \in asleep /\ pc[t] = "write" /\ Full(buf[Out(t)])
Stuck ==
  /\ \E t \in Tasks : Blocked(t)
  /\ \A t \in Tasks : Blocked(t) => pc[Peer(t)] = "done" \/ Blocked(Peer(t))

\* Once the remote ends have closed, a request ends or is stuck in one of them.
EndsOrIsStuck ==
  <>[](\A t \in Tasks : pc[t] = "done") \/ <>[]Stuck

===============================================================================
