----------------------------- MODULE StrictBuffer -----------------------------
(***************************************************************************)
(* The struct StrictBuffer of configs/buffer.rs as a record, and its       *)
(* methods as operators on that record.  A StrictBuffer is the only path a  *)
(* byte takes between the two tasks that serve a request: one task owns the *)
(* write handle, the other the read handle, and both lock the same struct.  *)
(*                                                                         *)
(*   size          buffer.len(), fixed when the buffer is made              *)
(*   data          the bytes, indexed from 0 as in the code                 *)
(*   is_shutdown   set by poll_shutdown, never cleared                      *)
(*   read_cursor, write_cursor                                              *)
(*                 the unread bytes are data[read_cursor .. write_cursor-1] *)
(*   waker         ONE slot for both sides, NoTask when it holds None       *)
(*   handles       who still holds an Arc; strong_count is its cardinality  *)
(*                                                                         *)
(* Every method holds the mutex from its first line to its return, so each  *)
(* operator is one atomic step of the modules that use it.                  *)
(***************************************************************************)
EXTENDS Naturals, Sequences

CONSTANT NoTask      \* the empty waker slot: no task has this name

LOCAL MinOf(a, b) == IF a <= b THEN a ELSE b

\* The type of a buffer of a given size, holding given bytes, between given tasks.
Buffers(size, bytes, tasks) ==
  [size : {size}, data : [0..(size - 1) -> bytes], is_shutdown : BOOLEAN,
   read_cursor : 0..size, write_cursor : 0..size,
   waker : tasks \cup {NoTask}, handles : SUBSET tasks]

\* StrictBuffer::new: zeroed, empty, nobody registered, a handle on each side.
New(size, writer, reader) ==
  [size |-> size, data |-> [i \in 0..(size - 1) |-> 0], is_shutdown |-> FALSE,
   read_cursor |-> 0, write_cursor |-> 0, waker |-> NoTask,
   handles |-> {writer, reader}]

\* The unread bytes, oldest first: &buffer[read_cursor..write_cursor].
Unread(b) == b.write_cursor - b.read_cursor
Window(b) == [i \in 1..Unread(b) |-> b.data[b.read_cursor + i - 1]]

\* The branches of poll_write and of poll_read.
Full(b)          == b.write_cursor >= b.size
NothingToRead(b) == b.is_shutdown \/ b.read_cursor >= b.write_cursor
LastHandle(b, task) == b.handles = {task}

\* park: the slot is overwritten, whoever was in it.
Park(b, task) == [b EXCEPT !.waker = task]

\* wake: the slot is taken; the caller schedules the task that was in it.
Wake(b) == [b EXCEPT !.waker = NoTask]

\* How much of a chunk of n bytes one write takes, and one read with room for n.
WriteLen(b, n) == MinOf(n, b.size - b.write_cursor)
ReadLen(b, n)  == MinOf(n, Unread(b))

\* poll_write, the branch that returns Ready(WriteLen(b, n)): the head of the
\* chunk (chunk[1..n]) is copied at the write cursor, the rest is left with the
\* caller, and the slot is woken.
Write(b, n, chunk) ==
  LET len == WriteLen(b, n) IN
  Wake([b EXCEPT
    !.data = [i \in 0..(b.size - 1) |->
                IF i >= b.write_cursor /\ i < b.write_cursor + len
                THEN chunk[i - b.write_cursor + 1]
                ELSE b.data[i]],
    !.write_cursor = @ + len])

\* poll_read, the branch that returns data: the cursors are rewound to 0 once
\* everything has been read, and the slot is woken on every read.
Read(b, n) ==
  LET len == ReadLen(b, n)
      drained == b.read_cursor + len >= b.write_cursor IN
  Wake([b EXCEPT
    !.read_cursor  = IF drained THEN 0 ELSE @ + len,
    !.write_cursor = IF drained THEN 0 ELSE @])

\* poll_shutdown: wakes on the first call only; the unread bytes stay behind.
Shutdown(b) ==
  [b EXCEPT !.waker = IF b.is_shutdown THEN @ ELSE NoTask, !.is_shutdown = TRUE]

\* A handle goes out of scope.  There is no Drop implementation: only the Arc
\* count changes, nobody is woken.
Drop(b, task) == [b EXCEPT !.handles = @ \ {task}]

===============================================================================
