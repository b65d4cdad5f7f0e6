------------------------------ MODULE BufferPipe ------------------------------
(***************************************************************************)
(* One StrictBuffer shared by a writer task and a reader task, as the two   *)
(* halves handed out by StrictBuffer::new are used: the writer awaits one    *)
(* write at a time, the reader polls its half inside a select! and may be    *)
(* scheduled by something else while it is registered in the waker slot.     *)
(*                                                                         *)
(* Bytes are numbered in the order the buffer accepts them, so that the      *)
(* position of a byte says whether it is the one that should come next.      *)
(***************************************************************************)
EXTENDS StrictBuffer

CONSTANTS
  Size,       \* size of the buffer
  MaxChunk,   \* largest slice offered to one write or to one read
  MaxBytes    \* bound: how many bytes the writer offers in a behaviour

\* http.rs:147-149 replaces a buffer size of 0, so no buffer is empty.
ASSUME SizeAssumption ==
  /\ Size \in Nat \ {0}
  /\ MaxChunk \in Nat \ {0}
  /\ MaxBytes \in Nat

Tasks == {"writer", "reader"}

ASSUME NoTaskAssumption == NoTask \notin Tasks

VARIABLES
  buf,        \* the StrictBuffer behind the mutex
  wstate,     \* "idle": no write in progress; "retry": a write is about to be
              \* polled again; "wait": a write returned Pending
  offer,      \* the length of the slice the write in progress was called with
  rstate,     \* "run": the reader's task is scheduled; "wait": it is parked
  accepted,   \* number of the last byte written into the buffer
  delivered,  \* number of the last byte copied out of the buffer
  eof         \* the reader was returned 0 bytes

vars == <<buf, wstate, offer, rstate, accepted, delivered, eof>>

Init ==
  /\ buf = New(Size, "writer", "reader")
  /\ wstate = "idle" /\ offer = 0 /\ rstate = "run"
  /\ accepted = 0 /\ delivered = 0 /\ eof = FALSE

\* Scheduling the task taken out of the slot, seen from either side.
ReaderAfterWake == IF buf.waker = "reader" THEN "run" ELSE rstate
WriterAfterWake == IF buf.waker = "writer" /\ wstate = "wait" THEN "retry" ELSE wstate

\* The next n bytes the writer has to send.
Offered(n) == [k \in 1..n |-> accepted + k]

WriterHolds == "writer" \in buf.handles
ReaderHolds == "reader" \in buf.handles

-------------------------------------------------------------------------------
\* Faulty variants of the operations below, one plausible slip each.

\* poll_write that never blocks: a full buffer is rewound and overwritten.
WriteReadyRewinds(n) ==
  /\ WriterHolds /\ ~buf.is_shutdown
  /\ wstate = "idle" \/ (wstate = "retry" /\ n = offer)
  /\ accepted + n <= MaxBytes
  /\ LET b == IF Full(buf) THEN [buf EXCEPT !.write_cursor = buf.read_cursor] ELSE buf IN
       /\ buf' = Write(b, n, Offered(n))
       /\ accepted' = accepted + WriteLen(b, n)
  /\ rstate' = ReaderAfterWake
  /\ wstate' = "idle" /\ offer' = n
  /\ UNCHANGED <<delivered, eof>>

\* poll_read that wakes the writer only when the buffer was not drained.
ReadReadySilent(n) ==
  /\ ReaderHolds /\ rstate = "run" /\ ~eof
  /\ ~NothingToRead(buf)
  /\ delivered' = buf.data[buf.read_cursor + ReadLen(buf, n) - 1]
  /\ LET drained == ReadLen(buf, n) = Unread(buf) IN
       /\ buf' = [Read(buf, n) EXCEPT !.waker = IF drained THEN buf.waker ELSE @]
       /\ wstate' = IF drained THEN wstate ELSE WriterAfterWake
  /\ UNCHANGED <<offer, rstate, accepted, eof>>

\* poll_read that returns Pending without leaving its waker.
ReadParkForgets ==
  /\ ReaderHolds /\ rstate = "run" /\ ~eof
  /\ NothingToRead(buf) /\ ~LastHandle(buf, "reader")
  /\ rstate' = "wait"
  /\ UNCHANGED <<buf, wstate, offer, accepted, delivered, eof>>

-------------------------------------------------------------------------------
\* StrictBufferWriter::poll_write, one action per return.

\* After a shutdown the write is answered Ready(0) and nothing is stored.
WriteIgnored(n) ==
  /\ WriterHolds /\ buf.is_shutdown
  /\ wstate = "idle" \/ (wstate = "retry" /\ n = offer)
  /\ wstate' = "idle" /\ offer' = n
  /\ UNCHANGED <<buf, rstate, accepted, delivered, eof>>

\* There is room: what fits is copied and the slot is woken.
WriteReady(n) ==
  /\ WriterHolds /\ ~buf.is_shutdown /\ ~Full(buf)
  /\ wstate = "idle" \/ (wstate = "retry" /\ n = offer)
  /\ accepted + n <= MaxBytes
  /\ buf' = Write(buf, n, Offered(n))
  /\ accepted' = accepted + WriteLen(buf, n)
  /\ rstate' = ReaderAfterWake
  /\ wstate' = "idle" /\ offer' = n
  /\ UNCHANGED <<delivered, eof>>

\* The write cursor is at the end: Pending, even for an empty slice.
WritePark(n) ==
  /\ WriterHolds /\ ~buf.is_shutdown /\ Full(buf)
  /\ wstate = "idle" \/ (wstate = "retry" /\ n = offer)
  /\ accepted + n <= MaxBytes
  /\ buf' = Park(buf, "writer")
  /\ wstate' = "wait" /\ offer' = n
  /\ UNCHANGED <<rstate, accepted, delivered, eof>>

\* StrictBufferWriter::poll_shutdown, between two writes.
WriterShutdown ==
  /\ WriterHolds /\ wstate = "idle"
  /\ buf' = Shutdown(buf)
  /\ rstate' = IF buf.is_shutdown THEN rstate ELSE ReaderAfterWake
  /\ UNCHANGED <<wstate, offer, accepted, delivered, eof>>

\* The writer's task returns.
DropWriter ==
  /\ WriterHolds /\ wstate = "idle"
  /\ buf' = Drop(buf, "writer")
  /\ UNCHANGED <<wstate, offer, rstate, accepted, delivered, eof>>

\* StrictBufferReader::poll_read, one action per return.

\* Nothing to read and the other handle is gone: Ready with 0 bytes.
ReadEof ==
  /\ ReaderHolds /\ rstate = "run" /\ ~eof
  /\ NothingToRead(buf) /\ LastHandle(buf, "reader")
  /\ eof' = TRUE
  /\ UNCHANGED <<buf, wstate, offer, rstate, accepted, delivered>>

\* Nothing to read yet: Pending.
ReadPark ==
  /\ ReaderHolds /\ rstate = "run" /\ ~eof
  /\ NothingToRead(buf) /\ ~LastHandle(buf, "reader")
  /\ buf' = Park(buf, "reader")
  /\ rstate' = "wait"
  /\ UNCHANGED <<wstate, offer, accepted, delivered, eof>>

\* Up to n unread bytes are copied out.
ReadReady(n) ==
  /\ ReaderHolds /\ rstate = "run" /\ ~eof
  /\ ~NothingToRead(buf)
  /\ delivered' = buf.data[buf.read_cursor + ReadLen(buf, n) - 1]
  /\ buf' = Read(buf, n)
  /\ wstate' = WriterAfterWake
  /\ UNCHANGED <<offer, rstate, accepted, eof>>

\* The reader's task returns, for a reason of its own or after the end.
DropReader ==
  /\ ReaderHolds /\ rstate = "run"
  /\ buf' = Drop(buf, "reader")
  /\ UNCHANGED <<wstate, offer, rstate, accepted, delivered, eof>>

\* The other branch of a select!, or a registration left by an earlier poll,
\* schedules a task that is parked here; its slot is not touched.
Nudge ==
  /\ \/ ReaderHolds /\ rstate = "wait" /\ rstate' = "run" /\ UNCHANGED wstate
     \/ WriterHolds /\ wstate = "wait" /\ wstate' = "retry" /\ UNCHANGED rstate
  /\ UNCHANGED <<buf, offer, accepted, delivered, eof>>

WriteStep == \E n \in 0..MaxChunk : WriteIgnored(n) \/ WriteReady(n) \/ WritePark(n)
ReadStep  == ReadEof \/ ReadPark \/ \E n \in 1..MaxChunk : ReadReady(n)

Next ==
  WriteStep \/ WriterShutdown \/ DropWriter \/ ReadStep \/ DropReader \/ Nudge

Spec == Init /\ [][Next]_vars

\* The executor polls a scheduled task.  A write that was woken is polled
\* again, and a reader that was woken polls its half; nothing obliges the
\* writer to write, to shut down or to leave, nor anyone to be nudged.
Fairness ==
  /\ WF_vars(ReadStep)
  /\ WF_vars(wstate = "retry" /\ WriteStep)

FairSpec == Spec /\ Fairness

-------------------------------------------------------------------------------
TypeOK ==
  /\ buf \in Buffers(Size, 0..MaxBytes, Tasks)
  /\ wstate \in {"idle", "retry", "wait"}
  /\ offer \in 0..MaxChunk
  /\ rstate \in {"run", "wait"}
  /\ accepted \in 0..MaxBytes /\ delivered \in 0..MaxBytes
  /\ eof \in BOOLEAN

\* The unread window holds exactly the bytes accepted and not yet copied out,
\* in the order they were accepted, wherever the cursors are and whatever sizes
\* the chunks have (the cursor arithmetic of poll_write and poll_read).
WindowIsTheBacklog ==
  /\ accepted = delivered + Unread(buf)
  /\ \A i \in buf.read_cursor..(buf.write_cursor - 1) :
       buf.data[i] = delivered + 1 + (i - buf.read_cursor)

\* Once drained the buffer is always rewound, so a full buffer has something to
\* read: a full writer and an empty reader never wait for each other (the test
\* of the cursors at the end of poll_read).
EmptyIsRewound ==
  \/ buf.read_cursor < buf.write_cursor
  \/ buf.read_cursor = 0 /\ buf.write_cursor = 0

\* The two sides share one waker slot, and neither ever loses its registration
\* to the other: whoever is parked is the one in the slot.
NoLostWakeup ==
  /\ rstate = "wait" => buf.waker = "reader"
  /\ wstate = "wait" => buf.waker = "writer"

\* Nobody stays parked once what it waits for has happened: a parked writer
\* still has no room, a parked reader still has nothing it may read.
ParkedForAReason ==
  /\ wstate = "wait" => Full(buf) /\ ~buf.is_shutdown
  /\ rstate = "wait" => NothingToRead(buf)

\* The end of the stream is reported only when the writer is gone, and with
\* bytes left unread only when the writer had called shutdown.
EndIsLast ==
  eof => /\ ~WriterHolds
         /\ buf.is_shutdown \/ delivered = accepted

\* All of it together is what poll_write and poll_read rely on in each other, and is
\* inductive: the cursors, the slot and the parked tasks of every state fit together.
IInv ==
  /\ TypeOK
  /\ WindowIsTheBacklog /\ EmptyIsRewound
  /\ NoLostWakeup /\ ParkedForAReason
  /\ EndIsLast

\* While both tasks keep polling, bytes that were accepted do not stay in the
\* buffer: they are read, or the writer shuts down, or the reader leaves.
DataIsRead ==
  (Unread(buf) > 0) ~> (Unread(buf) = 0 \/ buf.is_shutdown \/ ~ReaderHolds)

\* A write that found the buffer full completes, unless the reader leaves.
WriteCompletes == (wstate = "wait") ~> (wstate = "idle" \/ ~ReaderHolds)

\* Neither side is left behind by the other: what poll_write stores poll_read finds, and
\* the room that poll_read makes poll_write uses, with one slot to wake each other by.
WaitersGoOn == DataIsRead /\ WriteCompletes

\* The StrictBuffer implements the bounded byte pipe.
Pipe == INSTANCE BytePipe WITH
  Capacity <- Size, inFlight <- Window(buf), sending <- WriterHolds,
  aborted <- buf.is_shutdown, ended <- eof

ImplementsPipe == Pipe!Spec

===============================================================================
