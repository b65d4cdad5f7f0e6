------------------------------ MODULE FairRwLock ------------------------------
(***************************************************************************)
(* tokio::sync::RwLock as the gateway uses it: shared or exclusive guards,   *)
(* granted in the order in which they were asked for.  A reader that asks     *)
(* while somebody queues waits behind him, also when it holds a guard already. *)
(*                                                                         *)
(*   readers   how many read guards each task holds                         *)
(*   writer    the task with the write guard, or Nobody                     *)
(*   queue     the requests not yet granted, oldest first                   *)
(***************************************************************************)
EXTENDS Naturals, Sequences, FiniteSetsExt

CONSTANT Nobody

Unlocked(tasks) == [readers |-> [t \in tasks |-> 0], writer |-> Nobody, queue |-> <<>>]

LockOf(tasks, most) ==
  [readers : [tasks -> 0..most], writer : tasks \cup {Nobody},
   queue : UNION {[1..n -> tasks \X {"read", "write"}] : n \in 0..most}]

Waits(l, t) == \E i \in DOMAIN l.queue : l.queue[i][1] = t

\* The reads at the front of the queue, and whether a write is there that can go.
FrontReads(l) == Max({n \in 0..Len(l.queue) : \A i \in 1..n : l.queue[i][2] = "read"})
WriteMayGo(l) ==
  /\ l.queue # <<>> /\ Head(l.queue)[2] = "write"
  /\ \A t \in DOMAIN l.readers : l.readers[t] = 0

\* Whatever can be granted is granted, in order.
Settle(l) ==
  CASE l.writer # Nobody -> l
    [] l.writer = Nobody /\ WriteMayGo(l) ->
         [l EXCEPT !.writer = Head(l.queue)[1], !.queue = Tail(@)]
    [] OTHER ->
         LET n == FrontReads(l) IN
         [l EXCEPT
           !.readers = [t \in DOMAIN @ |->
                          @[t] + Cardinality({i \in 1..n : l.queue[i][1] = t})],
           !.queue = SubSeq(@, n + 1, Len(@))]

Ask(l, t, mode) == Settle([l EXCEPT !.queue = Append(@, <<t, mode>>)])

\* Faulty variants: a guard that is let go of is not passed on.
DropReadQuietly(l, t) == [l EXCEPT !.readers[t] = @ - 1]
DropWriteQuietly(l)   == [l EXCEPT !.writer = Nobody]

DropRead(l, t) == Settle([l EXCEPT !.readers[t] = @ - 1])
DropWrite(l)   == Settle([l EXCEPT !.writer = Nobody])

===============================================================================
