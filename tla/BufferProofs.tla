------------------------------ MODULE BufferProofs ------------------------------
(***************************************************************************)
(* Proofs about the buffers of requests and about the manager that grants     *)
(* them: BufferPipe for every buffer size, chunk size and number of bytes,     *)
(* BufferManager for any names, sizes and limits, and any set of names for     *)
(* which buffers are given back.                                             *)
(***************************************************************************)
EXTENDS BufferPipe, BufferManager, SequenceTheorems, TLAPS

-------------------------------------------------------------------------------
\* Lemmas about the methods of StrictBuffer.

\* A buffer seen through its fields.
LEMMA FieldsOf ==
  ASSUME NEW size, NEW bytes, NEW tasks, NEW b \in Buffers(size, bytes, tasks)
  PROVE  /\ b.size = size
         /\ b.data \in [0..(size - 1) -> bytes]
         /\ b.is_shutdown \in BOOLEAN
         /\ b.read_cursor \in 0..size
         /\ b.write_cursor \in 0..size
         /\ b.waker \in tasks \cup {NoTask}
         /\ b.handles \in SUBSET tasks
BY DEF Buffers

\* Parking changes nothing but the slot.
LEMMA ParkSpec ==
  ASSUME NEW size, NEW bytes, NEW tasks, NEW b \in Buffers(size, bytes, tasks),
         NEW task \in tasks
  PROVE  /\ Park(b, task) \in Buffers(size, bytes, tasks)
         /\ Park(b, task).waker = task
         /\ Park(b, task).data = b.data
         /\ Park(b, task).is_shutdown = b.is_shutdown
         /\ Park(b, task).read_cursor = b.read_cursor
         /\ Park(b, task).write_cursor = b.write_cursor
         /\ Park(b, task).handles = b.handles
BY DEF Buffers, Park

\* Dropping a handle changes nothing but the handles: nobody is woken.
LEMMA DropSpec ==
  ASSUME NEW size, NEW bytes, NEW tasks, NEW b \in Buffers(size, bytes, tasks),
         NEW task \in tasks
  PROVE  /\ Drop(b, task) \in Buffers(size, bytes, tasks)
         /\ Drop(b, task).waker = b.waker
         /\ Drop(b, task).data = b.data
         /\ Drop(b, task).is_shutdown = b.is_shutdown
         /\ Drop(b, task).read_cursor = b.read_cursor
         /\ Drop(b, task).write_cursor = b.write_cursor
         /\ Drop(b, task).handles = b.handles \ {task}
BY DEF Buffers, Drop

\* A shutdown empties the slot, the first time, and leaves the cursors alone.
LEMMA ShutdownSpec ==
  ASSUME NEW size, NEW bytes, NEW tasks, NEW b \in Buffers(size, bytes, tasks)
  PROVE  /\ Shutdown(b) \in Buffers(size, bytes, tasks)
         /\ Shutdown(b).waker = IF b.is_shutdown THEN b.waker ELSE NoTask
         /\ Shutdown(b).data = b.data
         /\ Shutdown(b).is_shutdown = TRUE
         /\ Shutdown(b).read_cursor = b.read_cursor
         /\ Shutdown(b).write_cursor = b.write_cursor
         /\ Shutdown(b).handles = b.handles
BY DEF Buffers, Shutdown

\* A write of n bytes takes between 0 and n of them, never passes the end of the
\* buffer, copies them behind the unread ones and empties the slot.
LEMMA WriteSpec ==
  ASSUME NEW size \in Nat, NEW bytes, NEW tasks, NEW b \in Buffers(size, bytes, tasks),
         NEW n \in Nat, NEW chunk \in [1..n -> bytes]
  PROVE  /\ WriteLen(b, n) \in 0..n
         /\ Write(b, n, chunk) \in Buffers(size, bytes, tasks)
         /\ Write(b, n, chunk).waker = NoTask
         /\ Write(b, n, chunk).is_shutdown = b.is_shutdown
         /\ Write(b, n, chunk).read_cursor = b.read_cursor
         /\ Write(b, n, chunk).write_cursor = b.write_cursor + WriteLen(b, n)
         /\ Write(b, n, chunk).handles = b.handles
         /\ \A i \in 0..(b.write_cursor - 1) : Write(b, n, chunk).data[i] = b.data[i]
         /\ \A k \in 1..WriteLen(b, n) :
              Write(b, n, chunk).data[b.write_cursor + k - 1] = chunk[k]
<1>. DEFINE len == WriteLen(b, n)
            d   == [i \in 0..(b.size - 1) |->
                      IF i >= b.write_cursor /\ i < b.write_cursor + len
                      THEN chunk[i - b.write_cursor + 1]
                      ELSE b.data[i]]
<1>1. b.size = size /\ b.write_cursor \in 0..size /\ b.data \in [0..(size - 1) -> bytes]
  BY FieldsOf
<1>2. len \in 0..n /\ b.write_cursor + len \in 0..size
  BY <1>1 DEF WriteLen
<1>3. d \in [0..(size - 1) -> bytes]
  <2>1. ASSUME NEW i \in 0..(size - 1), i >= b.write_cursor, i < b.write_cursor + len
        PROVE  chunk[i - b.write_cursor + 1] \in bytes
    <3>1. i - b.write_cursor + 1 \in 1..n
      BY <2>1, <1>1, <1>2
    <3>. QED  BY <3>1
  <2>2. \A i \in 0..(size - 1) : b.data[i] \in bytes
    BY <1>1
  <2>. HIDE DEF len
  <2>3. \A i \in 0..(size - 1) :
          (IF i >= b.write_cursor /\ i < b.write_cursor + len
           THEN chunk[i - b.write_cursor + 1] ELSE b.data[i]) \in bytes
    BY <2>1, <2>2
  <2>. QED  BY <2>3, <1>1
<1>4. Write(b, n, chunk) =
        [b EXCEPT !.data = d, !.write_cursor = b.write_cursor + len, !.waker = NoTask]
  BY DEF Write, Wake, Buffers
<1>. HIDE DEF d, len
<1>5. /\ Write(b, n, chunk) \in Buffers(size, bytes, tasks)
      /\ Write(b, n, chunk).waker = NoTask
      /\ Write(b, n, chunk).data = d
      /\ Write(b, n, chunk).is_shutdown = b.is_shutdown
      /\ Write(b, n, chunk).read_cursor = b.read_cursor
      /\ Write(b, n, chunk).write_cursor = b.write_cursor + len
      /\ Write(b, n, chunk).handles = b.handles
  BY <1>2, <1>3, <1>4 DEF Buffers
<1>6. \A i \in 0..(b.write_cursor - 1) : d[i] = b.data[i]
  BY <1>1, <1>2 DEF d
<1>7. ASSUME NEW k \in 1..len PROVE d[b.write_cursor + k - 1] = chunk[k]
  <2>1. len \in Nat /\ b.write_cursor \in Nat /\ b.write_cursor + len <= b.size
        /\ b.size \in Nat
    BY <1>1, <1>2
  <2>2. (b.write_cursor + k - 1) - b.write_cursor + 1 = k
    BY <2>1
  <2>3. /\ b.write_cursor + k - 1 \in 0..(b.size - 1)
        /\ b.write_cursor + k - 1 >= b.write_cursor
        /\ b.write_cursor + k - 1 < b.write_cursor + len
    BY <2>1
  <2>. QED  BY <2>2, <2>3 DEF d
<1>. QED  BY <1>2, <1>5, <1>6, <1>7 DEF len

\* A read with room for n >= 1 bytes takes at least one, never passes the write
\* cursor, rewinds both cursors exactly when nothing is left, and empties the slot.
LEMMA ReadSpec ==
  ASSUME NEW size \in Nat, NEW bytes, NEW tasks, NEW b \in Buffers(size, bytes, tasks),
         ~NothingToRead(b), NEW n \in Nat \ {0}
  PROVE  /\ ReadLen(b, n) \in 1..n
         /\ b.read_cursor + ReadLen(b, n) \in 0..b.write_cursor
         /\ Read(b, n) \in Buffers(size, bytes, tasks)
         /\ Read(b, n).waker = NoTask
         /\ Read(b, n).data = b.data
         /\ Read(b, n).is_shutdown = b.is_shutdown
         /\ b.read_cursor + ReadLen(b, n) = b.write_cursor =>
              Read(b, n).read_cursor = 0 /\ Read(b, n).write_cursor = 0
         /\ b.read_cursor + ReadLen(b, n) # b.write_cursor =>
              /\ Read(b, n).read_cursor = b.read_cursor + ReadLen(b, n)
              /\ Read(b, n).write_cursor = b.write_cursor
         /\ Read(b, n).handles = b.handles
<1>. DEFINE len == ReadLen(b, n)
            drained == b.read_cursor + len >= b.write_cursor
            rc  == IF drained THEN 0 ELSE b.read_cursor + len
            wc  == IF drained THEN 0 ELSE b.write_cursor
<1>1. b.size = size /\ b.write_cursor \in 0..size /\ b.read_cursor \in 0..size
  BY FieldsOf
<1>2. len \in 1..n /\ b.read_cursor + len \in 0..b.write_cursor
  BY <1>1 DEF ReadLen, NothingToRead, Unread
<1>3. rc \in 0..size /\ wc \in 0..size
  BY <1>1, <1>2
<1>4. Read(b, n) =
        [b EXCEPT !.read_cursor = rc, !.write_cursor = wc, !.waker = NoTask]
  BY DEF Read, Wake, Buffers
<1>. HIDE DEF rc, wc, len
<1>5. /\ Read(b, n) \in Buffers(size, bytes, tasks)
      /\ Read(b, n).waker = NoTask
      /\ Read(b, n).data = b.data
      /\ Read(b, n).is_shutdown = b.is_shutdown
      /\ Read(b, n).read_cursor = rc
      /\ Read(b, n).write_cursor = wc
      /\ Read(b, n).handles = b.handles
  BY <1>3, <1>4 DEF Buffers
<1>. QED  BY <1>1, <1>2, <1>5 DEF rc, wc, len

-------------------------------------------------------------------------------
\* The initial state satisfies the invariant.
LEMMA InitIInv == Init => IInv
<1>. SUFFICES ASSUME Init PROVE IInv
  OBVIOUS
<1>1. /\ buf \in Buffers(Size, 0..MaxBytes, Tasks)
      /\ buf.read_cursor = 0
      /\ buf.write_cursor = 0
  BY SizeAssumption DEF Init, New, Buffers, Tasks
<1>2. TypeOK
  <2>1. 0 \in 0..MaxBytes /\ 0 \in 0..MaxChunk
    BY SizeAssumption
  <2>. QED  BY <1>1, <2>1 DEF Init, TypeOK
<1>3. WindowIsTheBacklog /\ EmptyIsRewound
  BY <1>1 DEF Init, WindowIsTheBacklog, EmptyIsRewound, Unread
<1>4. NoLostWakeup /\ ParkedForAReason /\ EndIsLast
  BY DEF Init, NoLostWakeup, ParkedForAReason, EndIsLast
<1>. QED  BY <1>2, <1>3, <1>4 DEF IInv

\* Every step preserves the invariant.  One step per action; the lemmas on the
\* methods say what became of each field of the buffer.
LEMMA NextIInv == IInv /\ [Next]_vars => IInv'
<1>. SUFFICES ASSUME IInv, [Next]_vars PROVE IInv'
  OBVIOUS
<1>. USE SizeAssumption, NoTaskAssumption
<1>a. /\ TypeOK /\ WindowIsTheBacklog /\ EmptyIsRewound
      /\ NoLostWakeup /\ ParkedForAReason /\ EndIsLast
  BY DEF IInv
<1>t. buf \in Buffers(Size, 0..MaxBytes, Tasks) /\ Size \in Nat
  BY <1>a DEF TypeOK
<1>b. /\ buf \in Buffers(Size, 0..MaxBytes, Tasks)
      /\ buf.size = Size
      /\ buf.data \in [0..(Size - 1) -> 0..MaxBytes]
      /\ buf.is_shutdown \in BOOLEAN
      /\ buf.read_cursor \in 0..Size
      /\ buf.write_cursor \in 0..Size
      /\ buf.waker \in {"writer", "reader", NoTask}
      /\ buf.handles \in SUBSET Tasks
  BY <1>a, FieldsOf DEF TypeOK, Tasks
<1>c. /\ wstate \in {"idle", "retry", "wait"} /\ rstate \in {"run", "wait"}
      /\ offer \in 0..MaxChunk /\ eof \in BOOLEAN
      /\ accepted \in 0..MaxBytes /\ delivered \in 0..MaxBytes
  BY <1>a DEF TypeOK
<1>1. ASSUME NEW n \in 0..MaxChunk, WriteIgnored(n) PROVE IInv'
  BY <1>1, <1>a DEF WriteIgnored, IInv, TypeOK, WindowIsTheBacklog, EmptyIsRewound,
                    NoLostWakeup, ParkedForAReason, EndIsLast, WriterHolds
<1>2. ASSUME NEW n \in 0..MaxChunk, WriteReady(n) PROVE IInv'
  <2>. DEFINE len == WriteLen(buf, n)
  <2>1. Offered(n) \in [1..n -> 0..MaxBytes] /\ n \in Nat
    BY <1>2, <1>c DEF WriteReady, Offered
  <2>2. /\ len \in 0..n
        /\ buf' \in Buffers(Size, 0..MaxBytes, Tasks)
        /\ buf'.waker = NoTask
        /\ buf'.is_shutdown = buf.is_shutdown
        /\ buf'.read_cursor = buf.read_cursor
        /\ buf'.write_cursor = buf.write_cursor + len
        /\ buf'.handles = buf.handles
        /\ \A i \in 0..(buf.write_cursor - 1) : buf'.data[i] = buf.data[i]
        /\ \A k \in 1..len : buf'.data[buf.write_cursor + k - 1] = Offered(n)[k]
    <3>1. buf' = Write(buf, n, Offered(n))
      BY <1>2 DEF WriteReady
    <3>2. /\ WriteLen(buf, n) \in 0..n
          /\ Write(buf, n, Offered(n)) \in Buffers(Size, 0..MaxBytes, Tasks)
          /\ Write(buf, n, Offered(n)).waker = NoTask
          /\ Write(buf, n, Offered(n)).is_shutdown = buf.is_shutdown
          /\ Write(buf, n, Offered(n)).read_cursor = buf.read_cursor
          /\ Write(buf, n, Offered(n)).write_cursor = buf.write_cursor + WriteLen(buf, n)
          /\ Write(buf, n, Offered(n)).handles = buf.handles
          /\ \A i \in 0..(buf.write_cursor - 1) :
               Write(buf, n, Offered(n)).data[i] = buf.data[i]
          /\ \A k \in 1..WriteLen(buf, n) :
               Write(buf, n, Offered(n)).data[buf.write_cursor + k - 1] = Offered(n)[k]
      BY <1>t, <2>1, WriteSpec
    <3>. QED  BY <3>1, <3>2
  <2>3. buf'.write_cursor \in 0..Size /\ buf'.size = Size
    BY <2>2, FieldsOf
  <2>. HIDE DEF len
  <2>i. /\ len \in Nat /\ n \in Nat /\ accepted \in Nat /\ delivered \in Nat
        /\ buf.read_cursor \in Nat /\ buf.write_cursor \in Nat
        /\ buf'.read_cursor = buf.read_cursor
        /\ buf'.write_cursor = buf.write_cursor + len
        /\ len <= n /\ buf.write_cursor + len <= Size
        /\ accepted = delivered + (buf.write_cursor - buf.read_cursor)
    <3>1. len \in Nat /\ len <= n
      BY <2>1, <2>2
    <3>. QED
      BY <3>1, <2>1, <2>2, <2>3, <1>b, <1>c, <1>a DEF WindowIsTheBacklog, Unread
  <2>4. accepted' = accepted + len /\ accepted' \in 0..MaxBytes
    BY <1>2, <1>c, <2>2 DEF WriteReady, len
  <2>5. TypeOK'
    BY <1>2, <1>b, <1>c, <2>2, <2>4 DEF TypeOK, WriteReady, ReaderAfterWake
  <2>6. WindowIsTheBacklog'
    <3>1. accepted' = delivered' + Unread(buf)'
      BY <1>2, <2>i, <2>4 DEF WriteReady, Unread
    <3>2. ASSUME NEW i \in buf'.read_cursor..(buf'.write_cursor - 1)
          PROVE  buf'.data[i] = delivered' + 1 + (i - buf'.read_cursor)
      <4>1. i \in 0..(Size - 1) /\ i >= buf.read_cursor /\ i < buf.write_cursor + len
        BY <2>i
      <4>2. CASE i < buf.write_cursor
        <5>0. i \in 0..(buf.write_cursor - 1)
          BY <4>1, <4>2, <2>i
        <5>1. buf'.data[i] = buf.data[i]
          BY <5>0, <2>2
        <5>2. i \in buf.read_cursor..(buf.write_cursor - 1)
          BY <4>1, <4>2, <2>i
        <5>3. buf.data[i] = delivered + 1 + (i - buf.read_cursor)
          BY <5>2, <1>a DEF WindowIsTheBacklog
        <5>. QED  BY <5>1, <5>3, <2>i, <1>2 DEF WriteReady
      <4>3. CASE i >= buf.write_cursor
        <5>. DEFINE k == i - buf.write_cursor + 1
        <5>1. k \in 1..len /\ k \in 1..n /\ i = buf.write_cursor + k - 1
          BY <4>1, <4>3, <2>i
        <5>. HIDE DEF k
        <5>2. buf'.data[i] = Offered(n)[k]
          BY <5>1, <2>2
        <5>3. Offered(n)[k] = accepted + k
          BY <5>1 DEF Offered
        <5>4. buf'.data[i] = accepted + k /\ k = i - buf.write_cursor + 1
          BY <5>2, <5>3 DEF k
        <5>5. delivered' = delivered
          BY <1>2 DEF WriteReady
        <5>6. i \in Nat
          BY <4>1
        <5>7. accepted + k = delivered + 1 + (i - buf.read_cursor)
          BY <5>4, <5>6, <2>i
        <5>. QED  BY <5>4, <5>5, <5>7, <2>i
      <4>. QED  BY <4>1, <4>2, <4>3, <2>i
    <3>. QED  BY <3>1, <3>2 DEF WindowIsTheBacklog
  <2>7. EmptyIsRewound'
    BY <1>2, <1>a, <1>b, <2>2 DEF WriteReady, EmptyIsRewound
  <2>8. NoLostWakeup' /\ ParkedForAReason'
    BY <1>2, <1>a, <1>c, <2>2
       DEF WriteReady, NoLostWakeup, ParkedForAReason, ReaderAfterWake
  <2>9. EndIsLast'
    BY <1>2, <1>a, <2>2 DEF WriteReady, EndIsLast, WriterHolds
  <2>. QED  BY <2>5, <2>6, <2>7, <2>8, <2>9 DEF IInv
<1>3. ASSUME NEW n \in 0..MaxChunk, WritePark(n) PROVE IInv'
  <2>1. /\ buf' \in Buffers(Size, 0..MaxBytes, Tasks)
        /\ buf'.waker = "writer"
        /\ buf'.data = buf.data
        /\ buf'.is_shutdown = buf.is_shutdown
        /\ buf'.read_cursor = buf.read_cursor
        /\ buf'.write_cursor = buf.write_cursor
        /\ buf'.handles = buf.handles
        /\ buf'.size = Size
    BY <1>3, <1>b, ParkSpec, FieldsOf DEF WritePark, Tasks
  <2>2. TypeOK'
    BY <1>3, <1>c, <2>1 DEF WritePark, TypeOK
  <2>3. WindowIsTheBacklog' /\ EmptyIsRewound'
    BY <1>3, <1>a, <2>1 DEF WritePark, WindowIsTheBacklog, EmptyIsRewound, Unread
  <2>4. rstate = "run"
    BY <1>3, <1>a, <1>b, <1>c
       DEF WritePark, EmptyIsRewound, ParkedForAReason, NothingToRead, Full
  <2>5. NoLostWakeup' /\ ParkedForAReason'
    BY <1>3, <1>b, <2>1, <2>4
       DEF WritePark, NoLostWakeup, ParkedForAReason, Full
  <2>6. EndIsLast'
    BY <1>3, <1>a, <2>1 DEF WritePark, EndIsLast, WriterHolds
  <2>. QED  BY <2>2, <2>3, <2>5, <2>6 DEF IInv
<1>4. ASSUME WriterShutdown PROVE IInv'
  <2>1. /\ buf' \in Buffers(Size, 0..MaxBytes, Tasks)
        /\ buf'.waker = IF buf.is_shutdown THEN buf.waker ELSE NoTask
        /\ buf'.data = buf.data
        /\ buf'.is_shutdown = TRUE
        /\ buf'.read_cursor = buf.read_cursor
        /\ buf'.write_cursor = buf.write_cursor
        /\ buf'.handles = buf.handles
    <3>1. buf' = Shutdown(buf)
      BY <1>4 DEF WriterShutdown
    <3>2. /\ Shutdown(buf) \in Buffers(Size, 0..MaxBytes, Tasks)
          /\ Shutdown(buf).waker = IF buf.is_shutdown THEN buf.waker ELSE NoTask
          /\ Shutdown(buf).data = buf.data
          /\ Shutdown(buf).is_shutdown = TRUE
          /\ Shutdown(buf).read_cursor = buf.read_cursor
          /\ Shutdown(buf).write_cursor = buf.write_cursor
          /\ Shutdown(buf).handles = buf.handles
      BY <1>t, ShutdownSpec, Zenon
    <3>. QED  BY <3>1, <3>2
  <2>2. TypeOK'
    BY <1>4, <1>c, <2>1 DEF WriterShutdown, TypeOK, ReaderAfterWake
  <2>3. WindowIsTheBacklog' /\ EmptyIsRewound'
    BY <1>4, <1>a, <2>1 DEF WriterShutdown, WindowIsTheBacklog, EmptyIsRewound, Unread
  <2>4. NoLostWakeup' /\ ParkedForAReason'
    BY <1>4, <1>a, <1>b, <1>c, <2>1
       DEF WriterShutdown, NoLostWakeup, ParkedForAReason, NothingToRead, ReaderAfterWake
  <2>5. EndIsLast'
    BY <1>4, <1>a, <2>1 DEF WriterShutdown, EndIsLast, WriterHolds
  <2>. QED  BY <2>2, <2>3, <2>4, <2>5 DEF IInv
<1>5. ASSUME DropWriter PROVE IInv'
  <2>1. /\ buf' \in Buffers(Size, 0..MaxBytes, Tasks)
        /\ buf'.waker = buf.waker
        /\ buf'.data = buf.data
        /\ buf'.is_shutdown = buf.is_shutdown
        /\ buf'.read_cursor = buf.read_cursor
        /\ buf'.write_cursor = buf.write_cursor
        /\ buf'.handles = buf.handles \ {"writer"}
    BY <1>5, <1>b, DropSpec DEF DropWriter, Tasks
  <2>2. TypeOK'
    BY <1>5, <1>c, <2>1 DEF DropWriter, TypeOK
  <2>3. WindowIsTheBacklog' /\ EmptyIsRewound'
    BY <1>5, <1>a, <2>1 DEF DropWriter, WindowIsTheBacklog, EmptyIsRewound, Unread
  <2>4. NoLostWakeup' /\ ParkedForAReason'
    BY <1>5, <1>a, <2>1 DEF DropWriter, NoLostWakeup, ParkedForAReason, NothingToRead
  <2>5. EndIsLast'
    BY <1>5, <1>a, <2>1 DEF DropWriter, EndIsLast, WriterHolds
  <2>. QED  BY <2>2, <2>3, <2>4, <2>5 DEF IInv
<1>6. ASSUME ReadEof PROVE IInv'
  <2>1. UNCHANGED <<buf, wstate, offer, rstate, accepted, delivered>> /\ eof' = TRUE
    BY <1>6 DEF ReadEof
  <2>2. ~WriterHolds'
    BY <1>6, <2>1 DEF ReadEof, LastHandle, WriterHolds
  <2>3. buf.is_shutdown \/ delivered = accepted
    BY <1>6, <1>a, <1>b, <1>c
       DEF ReadEof, NothingToRead, WindowIsTheBacklog, EmptyIsRewound, Unread
  <2>4. EndIsLast'
    BY <2>1, <2>2, <2>3 DEF EndIsLast
  <2>. QED
    BY <2>1, <2>4, <1>a
       DEF IInv, TypeOK, WindowIsTheBacklog, EmptyIsRewound, NoLostWakeup, ParkedForAReason
<1>7. ASSUME ReadPark PROVE IInv'
  <2>1. /\ buf' \in Buffers(Size, 0..MaxBytes, Tasks)
        /\ buf'.waker = "reader"
        /\ buf'.data = buf.data
        /\ buf'.is_shutdown = buf.is_shutdown
        /\ buf'.read_cursor = buf.read_cursor
        /\ buf'.write_cursor = buf.write_cursor
        /\ buf'.handles = buf.handles
        /\ buf'.size = Size
    BY <1>7, <1>b, ParkSpec, FieldsOf DEF ReadPark, Tasks
  <2>2. TypeOK'
    BY <1>7, <1>c, <2>1 DEF ReadPark, TypeOK
  <2>3. WindowIsTheBacklog' /\ EmptyIsRewound'
    BY <1>7, <1>a, <2>1 DEF ReadPark, WindowIsTheBacklog, EmptyIsRewound, Unread
  <2>4. wstate # "wait"
    BY <1>7, <1>a, <1>b
       DEF ReadPark, EmptyIsRewound, ParkedForAReason, NothingToRead, Full
  <2>5. NoLostWakeup' /\ ParkedForAReason'
    BY <1>7, <2>1, <2>4
       DEF ReadPark, NoLostWakeup, ParkedForAReason, NothingToRead
  <2>6. EndIsLast'
    BY <1>7, <1>a, <2>1 DEF ReadPark, EndIsLast, WriterHolds
  <2>. QED  BY <2>2, <2>3, <2>5, <2>6 DEF IInv
<1>8. ASSUME NEW n \in 1..MaxChunk, ReadReady(n) PROVE IInv'
  <2>. DEFINE len == ReadLen(buf, n)
              drained == buf.read_cursor + len = buf.write_cursor
  <2>0. n \in Nat \ {0} /\ ~NothingToRead(buf) /\ buf' = Read(buf, n)
    BY <1>8 DEF ReadReady
  <2>1. /\ len \in 1..n /\ buf.read_cursor + len \in 0..buf.write_cursor
        /\ buf' \in Buffers(Size, 0..MaxBytes, Tasks)
        /\ buf'.waker = NoTask
        /\ buf'.data = buf.data
        /\ buf'.is_shutdown = buf.is_shutdown
        /\ drained => buf'.read_cursor = 0 /\ buf'.write_cursor = 0
        /\ ~drained => /\ buf'.read_cursor = buf.read_cursor + len
                       /\ buf'.write_cursor = buf.write_cursor
        /\ buf'.handles = buf.handles
    <3>1. /\ ReadLen(buf, n) \in 1..n
          /\ buf.read_cursor + ReadLen(buf, n) \in 0..buf.write_cursor
          /\ Read(buf, n) \in Buffers(Size, 0..MaxBytes, Tasks)
          /\ Read(buf, n).waker = NoTask
          /\ Read(buf, n).data = buf.data
          /\ Read(buf, n).is_shutdown = buf.is_shutdown
          /\ drained => Read(buf, n).read_cursor = 0 /\ Read(buf, n).write_cursor = 0
          /\ ~drained => /\ Read(buf, n).read_cursor = buf.read_cursor + len
                         /\ Read(buf, n).write_cursor = buf.write_cursor
          /\ Read(buf, n).handles = buf.handles
      BY <1>t, <2>0, ReadSpec
    <3>. QED  BY <2>0, <3>1
  <2>. HIDE DEF len
  <2>i. /\ len \in Nat /\ len >= 1 /\ accepted \in Nat /\ delivered \in Nat
        /\ buf.read_cursor \in Nat /\ buf.write_cursor \in Nat
        /\ buf.read_cursor + len <= buf.write_cursor
        /\ accepted = delivered + (buf.write_cursor - buf.read_cursor)
    <3>1. len \in Nat /\ len >= 1
      BY <2>0, <2>1
    <3>. QED  BY <3>1, <2>1, <1>a, <1>b, <1>c DEF WindowIsTheBacklog, Unread
  <2>2. delivered' = delivered + len
    <3>1. delivered' = buf.data[buf.read_cursor + len - 1]
      BY <1>8 DEF ReadReady, len
    <3>2. buf.read_cursor + len - 1 \in buf.read_cursor..(buf.write_cursor - 1)
      BY <2>i
    <3>3. buf.data[buf.read_cursor + len - 1] =
            delivered + 1 + ((buf.read_cursor + len - 1) - buf.read_cursor)
      BY <3>2, <1>a DEF WindowIsTheBacklog
    <3>. QED  BY <3>1, <3>3, <2>i
  <2>4. delivered' \in 0..MaxBytes
    BY <2>2, <2>i, <1>c
  <2>5. TypeOK'
    BY <1>8, <1>c, <2>1, <2>4 DEF ReadReady, TypeOK, WriterAfterWake
  <2>6. WindowIsTheBacklog'
    <3>1. accepted' = accepted
      BY <1>8 DEF ReadReady
    <3>2. CASE drained
      <4>1. accepted' = delivered' + Unread(buf)'
        BY <3>1, <3>2, <2>1, <2>2, <2>i DEF Unread
      <4>2. buf'.read_cursor..(buf'.write_cursor - 1) = {}
        BY <3>2, <2>1
      <4>. QED  BY <4>1, <4>2 DEF WindowIsTheBacklog
    <3>3. CASE ~drained
      <4>1. accepted' = delivered' + Unread(buf)'
        BY <3>1, <3>3, <2>1, <2>2, <2>i DEF Unread
      <4>2. ASSUME NEW i \in buf'.read_cursor..(buf'.write_cursor - 1)
            PROVE  buf'.data[i] = delivered' + 1 + (i - buf'.read_cursor)
        <5>1. /\ buf'.read_cursor = buf.read_cursor + len
              /\ buf'.write_cursor = buf.write_cursor
          BY <3>3, <2>1
        <5>2. i \in buf.read_cursor..(buf.write_cursor - 1)
          BY <5>1, <2>i
        <5>3. buf.data[i] = delivered + 1 + (i - buf.read_cursor)
          BY <5>2, <1>a DEF WindowIsTheBacklog
        <5>4. buf'.data[i] = delivered + 1 + (i - buf.read_cursor)
          BY <5>3, <2>1
        <5>. QED  BY <5>1, <5>2, <5>4, <2>2, <2>i
      <4>. QED  BY <4>1, <4>2 DEF WindowIsTheBacklog
    <3>. QED  BY <3>2, <3>3
  <2>7. EmptyIsRewound'
    BY <2>1, <2>i DEF EmptyIsRewound
  <2>8. NoLostWakeup' /\ ParkedForAReason'
    BY <1>8, <1>a, <1>c, <2>1
       DEF ReadReady, NoLostWakeup, ParkedForAReason, WriterAfterWake
  <2>9. EndIsLast'
    BY <1>8, <1>a, <2>1 DEF ReadReady, EndIsLast, WriterHolds
  <2>. QED  BY <2>5, <2>6, <2>7, <2>8, <2>9 DEF IInv
<1>9. ASSUME DropReader PROVE IInv'
  <2>1. /\ buf' \in Buffers(Size, 0..MaxBytes, Tasks)
        /\ buf'.waker = buf.waker
        /\ buf'.data = buf.data
        /\ buf'.is_shutdown = buf.is_shutdown
        /\ buf'.read_cursor = buf.read_cursor
        /\ buf'.write_cursor = buf.write_cursor
        /\ buf'.handles = buf.handles \ {"reader"}
        /\ buf'.size = Size
    BY <1>9, <1>b, DropSpec, FieldsOf DEF DropReader, Tasks
  <2>2. TypeOK'
    BY <1>9, <1>c, <2>1 DEF DropReader, TypeOK
  <2>3. WindowIsTheBacklog' /\ EmptyIsRewound'
    BY <1>9, <1>a, <2>1 DEF DropReader, WindowIsTheBacklog, EmptyIsRewound, Unread
  <2>4. NoLostWakeup' /\ ParkedForAReason'
    BY <1>9, <1>a, <1>b, <2>1 DEF DropReader, NoLostWakeup, ParkedForAReason, NothingToRead, Full
  <2>5. EndIsLast'
    BY <1>9, <1>a, <2>1 DEF DropReader, EndIsLast, WriterHolds
  <2>. QED  BY <2>2, <2>3, <2>4, <2>5 DEF IInv
<1>10. ASSUME Nudge PROVE IInv'
  BY <1>10, <1>a DEF Nudge, IInv, TypeOK, WindowIsTheBacklog, EmptyIsRewound,
                     NoLostWakeup, ParkedForAReason, EndIsLast, WriterHolds
<1>11. CASE UNCHANGED vars
  BY <1>11, <1>a DEF vars, IInv, TypeOK, WindowIsTheBacklog, EmptyIsRewound,
                     NoLostWakeup, ParkedForAReason, EndIsLast, WriterHolds
<1>. QED
  BY <1>1, <1>2, <1>3, <1>4, <1>5, <1>6, <1>7, <1>8, <1>9, <1>10, <1>11
     DEF Next, WriteStep, ReadStep

-------------------------------------------------------------------------------
\* Every reachable state of every instance satisfies the inductive invariant:
\* whatever the size of the buffer and the chunks the two tasks pass to it.
THEOREM Invariance == Spec => []IInv
<1>. QED  BY InitIInv, NextIInv, PTL DEF Spec

\* The variables of the model keep their types; in particular no cursor of a
\* StrictBuffer ever passes the end of the buffer.
THEOREM Typing == Spec => []TypeOK
<1>1. IInv => TypeOK
  BY DEF IInv
<1>. QED  BY <1>1, Invariance, PTL

\* The cursor arithmetic of poll_write and poll_read never loses, repeats or
\* reorders a byte that was accepted.
THEOREM Backlog == Spec => []WindowIsTheBacklog
<1>1. IInv => WindowIsTheBacklog
  BY DEF IInv
<1>. QED  BY <1>1, Invariance, PTL

\* One waker slot is enough for the two sides: nobody is parked without being in
\* the slot, because a full buffer and an empty one are never the same buffer.
THEOREM OneSlotIsEnough == Spec => [](NoLostWakeup /\ ParkedForAReason)
<1>1. IInv => NoLostWakeup /\ ParkedForAReason
  BY DEF IInv
<1>. QED  BY <1>1, Invariance, PTL

\* Nothing is left between the cursors of a drained buffer but the start of the array:
\* the rewind at the end of poll_read is never skipped.
THEOREM DrainedIsRewound == Spec => []EmptyIsRewound
<1>1. IInv => EmptyIsRewound
  BY DEF IInv
<1>. QED  BY <1>1, Invariance, PTL

\* A task stays parked only while the buffer gives it nothing to do: the writer while
\* it is full, the reader while there is nothing to read.
THEOREM NobodyIsParkedForNothing == Spec => []ParkedForAReason
<1>1. IInv => ParkedForAReason
  BY DEF IInv
<1>. QED  BY <1>1, Invariance, PTL

\* Zero bytes are returned to the reader only after the writer is gone, and
\* before the last accepted byte only if the writer called shutdown.
THEOREM EndOfStream == Spec => []EndIsLast
<1>1. IInv => EndIsLast
  BY DEF IInv
<1>. QED  BY <1>1, Invariance, PTL

-------------------------------------------------------------------------------
\* The unread bytes as a sequence, by their places in the array.
LEMMA WindowSpec ==
  ASSUME NEW size \in Nat, NEW bytes, NEW tasks, NEW b \in Buffers(size, bytes, tasks),
         b.read_cursor <= b.write_cursor
  PROVE  /\ Unread(b) \in 0..size
         /\ Window(b) \in Seq(bytes)
         /\ Len(Window(b)) = Unread(b)
         /\ \A i \in 1..Unread(b) : Window(b)[i] = b.data[b.read_cursor + i - 1]
<1>1. /\ b.data \in [0..(size - 1) -> bytes]
      /\ b.read_cursor \in 0..size /\ b.write_cursor \in 0..size
  BY FieldsOf
<1>2. Unread(b) \in 0..size
  BY <1>1 DEF Unread
<1>3. \A i \in 1..Unread(b) : b.data[b.read_cursor + i - 1] \in bytes
  <2>1. \A i \in 1..Unread(b) : b.read_cursor + i - 1 \in 0..(size - 1)
    BY <1>1 DEF Unread
  <2>. QED  BY <1>1, <2>1
<1>. QED  BY <1>2, <1>3 DEF Window

\* The content of the pipe depends on the cursors and on what is between them.
LEMMA WindowUnchanged ==
  ASSUME buf'.data = buf.data, buf'.read_cursor = buf.read_cursor,
         buf'.write_cursor = buf.write_cursor
  PROVE  Window(buf)' = Window(buf)
BY DEF Window, Unread

\* Two sequences that agree as far as the first goes.
LEMMA SamePrefix ==
  ASSUME NEW S, NEW s \in Seq(S), NEW t \in Seq(S), Len(s) <= Len(t),
         \A i \in 1..Len(s) : s[i] = t[i]
  PROVE  SubSeq(s, 1, Len(s)) = SubSeq(t, 1, Len(s))
<1>. DEFINE u == SubSeq(s, 1, Len(s))
            v == SubSeq(t, 1, Len(s))
<1>0. Len(s) \in Nat /\ Len(t) \in Nat
  BY LenProperties
<1>1. u \in Seq(S) /\ Len(u) = Len(s) /\ \A i \in 1..Len(s) : u[i] = s[i]
  BY <1>0, SubSeqProperties
<1>2. v \in Seq(S) /\ Len(v) = Len(s) /\ \A i \in 1..Len(s) : v[i] = t[i]
  BY <1>0, SubSeqProperties
<1>. HIDE DEF u, v
<1>3. u = v
  BY <1>1, <1>2, SeqEqual
<1>. QED  BY <1>3 DEF u, v

\* A write puts its bytes behind those that are there.
LEMMA WriteAppends ==
  ASSUME IInv, NEW n \in 0..MaxChunk, WriteReady(n)
  PROVE  Window(buf)' \in Seq(0..MaxBytes) /\ Len(Window(buf)') <= Size
         /\ Pipe!IsPrefix(Window(buf), Window(buf)')
<1>. DEFINE old == Window(buf)
            new == Window(buf)'
<1>. USE SizeAssumption
<1>1. buf \in Buffers(Size, 0..MaxBytes, Tasks) /\ buf' \in Buffers(Size, 0..MaxBytes, Tasks)
  <2>1. IInv'
    BY NextIInv DEF Next, WriteStep
  <2>. QED  BY <2>1 DEF IInv, TypeOK
<1>2. /\ buf'.read_cursor = buf.read_cursor
      /\ buf'.write_cursor = buf.write_cursor + WriteLen(buf, n)
      /\ WriteLen(buf, n) \in 0..n
      /\ \A i \in 0..(buf.write_cursor - 1) : buf'.data[i] = buf.data[i]
  <2>1. Offered(n) \in [1..n -> 0..MaxBytes]
    BY DEF Offered, WriteReady, IInv, TypeOK
  <2>. QED  BY <1>1, <2>1, WriteSpec DEF WriteReady
<1>3. /\ buf.read_cursor \in Nat /\ buf.write_cursor \in Nat
      /\ buf.read_cursor <= buf.write_cursor /\ buf'.read_cursor <= buf'.write_cursor
  BY <1>1, <1>2, FieldsOf DEF IInv, EmptyIsRewound
<1>4. /\ old \in Seq(0..MaxBytes) /\ Len(old) = Unread(buf) /\ Unread(buf) \in Nat
      /\ \A i \in 1..Unread(buf) : old[i] = buf.data[buf.read_cursor + i - 1]
  BY <1>1, <1>3, WindowSpec
<1>5. /\ new \in Seq(0..MaxBytes) /\ Len(new) = Unread(buf') /\ Unread(buf') \in 0..Size
      /\ \A i \in 1..Unread(buf') : new[i] = buf'.data[buf'.read_cursor + i - 1]
  <2>1. Window(buf') = new
    BY DEF Window, Unread
  <2>. QED  BY <1>1, <1>3, <2>1, WindowSpec
<1>6. Unread(buf) <= Unread(buf')
  BY <1>2, <1>3 DEF Unread
<1>7. \A i \in 1..Len(old) : old[i] = new[i]
  <2>1. \A i \in 1..Unread(buf) : buf.read_cursor + i - 1 \in 0..(buf.write_cursor - 1)
    BY <1>3 DEF Unread
  <2>2. \A i \in 1..Unread(buf) : new[i] = buf'.data[buf.read_cursor + i - 1]
    BY <1>2, <1>4, <1>5, <1>6
  <2>. HIDE DEF old, new
  <2>3. \A i \in 1..Unread(buf) : new[i] = buf.data[buf.read_cursor + i - 1]
    BY <1>2, <2>1, <2>2
  <2>. QED  BY <1>4, <2>3
<1>. HIDE DEF old, new
<1>8. SubSeq(old, 1, Len(old)) = SubSeq(new, 1, Len(old))
  <2>1. Len(old) <= Len(new)
    BY <1>4, <1>5, <1>6
  <2>. QED  BY <1>4, <1>5, <1>7, <2>1, SamePrefix
<1>. QED  BY <1>4, <1>5, <1>6, <1>8 DEF Pipe!IsPrefix, old, new

\* A read takes the oldest bytes, at least one of them.
LEMMA ReadTakes ==
  ASSUME IInv, NEW n \in 1..MaxChunk, ReadReady(n)
  PROVE  \E k \in 1..Len(Window(buf)) :
           Window(buf)' = SubSeq(Window(buf), k + 1, Len(Window(buf)))
<1>. DEFINE old == Window(buf)
            new == Window(buf)'
            len == ReadLen(buf, n)
<1>. USE SizeAssumption
<1>1. buf \in Buffers(Size, 0..MaxBytes, Tasks) /\ buf' \in Buffers(Size, 0..MaxBytes, Tasks)
  <2>1. IInv'
    BY NextIInv DEF Next, ReadStep
  <2>. QED  BY <2>1 DEF IInv, TypeOK
<1>2. /\ len \in 1..n
      /\ buf.read_cursor + len \in 0..buf.write_cursor
      /\ buf'.data = buf.data
      /\ buf.read_cursor + len = buf.write_cursor =>
           buf'.read_cursor = 0 /\ buf'.write_cursor = 0
      /\ buf.read_cursor + len # buf.write_cursor =>
           buf'.read_cursor = buf.read_cursor + len /\ buf'.write_cursor = buf.write_cursor
  BY <1>1, ReadSpec DEF ReadReady
<1>. HIDE DEF len
<1>3. buf.read_cursor \in Nat /\ buf.write_cursor \in Nat
  BY <1>1, FieldsOf
<1>4. /\ old \in Seq(0..MaxBytes) /\ Len(old) = Unread(buf) /\ Unread(buf) \in Nat
      /\ \A i \in 1..Unread(buf) : old[i] = buf.data[buf.read_cursor + i - 1]
  BY <1>1, <1>2, <1>3, WindowSpec
<1>5. /\ new \in Seq(0..MaxBytes) /\ Len(new) = Unread(buf') /\ Unread(buf') \in 0..Size
      /\ \A i \in 1..Unread(buf') : new[i] = buf'.data[buf'.read_cursor + i - 1]
  <2>1. Window(buf') = new
    BY DEF Window, Unread
  <2>2. buf'.read_cursor <= buf'.write_cursor
    BY <1>2, <1>3
  <2>. QED  BY <1>1, <2>1, <2>2, WindowSpec
<1>6. Unread(buf') = Unread(buf) - len
  BY <1>2, <1>3 DEF Unread
<1>7. \A i \in 1..Len(new) : new[i] = old[len + i]
  <2>1. ASSUME NEW i \in 1..Unread(buf') PROVE new[i] = old[len + i]
    <3>1. buf.read_cursor + len # buf.write_cursor /\ len + i \in 1..Unread(buf)
      BY <1>2, <1>3, <1>6 DEF Unread
    <3>2. new[i] = buf.data[buf.read_cursor + len + i - 1]
      BY <1>2, <1>5, <3>1
    <3>3. old[len + i] = buf.data[buf.read_cursor + (len + i) - 1]
      BY <1>4, <3>1
    <3>4. buf.read_cursor + (len + i) - 1 = buf.read_cursor + len + i - 1
      BY <1>2, <1>3
    <3>. QED  BY <3>2, <3>3, <3>4
  <2>. QED  BY <1>5, <2>1
<1>. HIDE DEF old, new
<1>8. len \in 1..Len(old)
  BY <1>2, <1>3, <1>4 DEF Unread
<1>9. new = SubSeq(old, len + 1, Len(old))
  BY <1>4, <1>5, <1>6, <1>7, <1>8
<1>. QED  BY <1>8, <1>9 DEF old, new

\* The initial buffer is the empty pipe.
LEMMA InitRefines == Init => Pipe!Init
BY SizeAssumption DEF Init, Pipe!Init, New, Window, Unread, WriterHolds

\* Every step of the two tasks is one step of the pipe or none: a write sends, a read
\* receives, poll_shutdown aborts, the writer's return leaves, a read of 0 bytes ends.
LEMMA NextRefines == IInv /\ [Next]_vars => [Pipe!Next]_(Pipe!vars)
<1>. SUFFICES ASSUME IInv, [Next]_vars PROVE [Pipe!Next]_(Pipe!vars)
  OBVIOUS
<1>. USE SizeAssumption
<1>t. /\ buf \in Buffers(Size, 0..MaxBytes, Tasks)
      /\ "writer" \in Tasks /\ "reader" \in Tasks
  BY DEF IInv, TypeOK, Tasks
<1>1. ASSUME NEW n \in 0..MaxChunk, WriteIgnored(n) PROVE UNCHANGED Pipe!vars
  BY <1>1 DEF WriteIgnored, Pipe!vars, Window, Unread, WriterHolds
<1>2. ASSUME NEW n \in 0..MaxChunk, WriteReady(n) PROVE Pipe!Send
  <2>1. buf'.is_shutdown = buf.is_shutdown /\ buf'.handles = buf.handles
    <3>1. Offered(n) \in [1..n -> 0..MaxBytes]
      BY <1>2 DEF Offered, WriteReady, IInv, TypeOK
    <3>. QED  BY <1>2, <1>t, <3>1, WriteSpec DEF WriteReady
  <2>2. Pipe!IsPrefix(Window(buf), Window(buf)') /\ Len(Window(buf)') <= Size
    BY <1>2, WriteAppends
  <2>. QED  BY <1>2, <2>1, <2>2 DEF WriteReady, Pipe!Send, WriterHolds
<1>3. ASSUME NEW n \in 0..MaxChunk, WritePark(n) PROVE UNCHANGED Pipe!vars
  <2>1. /\ buf'.data = buf.data /\ buf'.is_shutdown = buf.is_shutdown
        /\ buf'.read_cursor = buf.read_cursor /\ buf'.write_cursor = buf.write_cursor
        /\ buf'.handles = buf.handles
    BY <1>3, <1>t, ParkSpec DEF WritePark
  <2>. QED  BY <1>3, <2>1, WindowUnchanged DEF WritePark, Pipe!vars, WriterHolds
<1>4. ASSUME WriterShutdown PROVE Pipe!Abort
  <2>1. /\ buf'.data = buf.data /\ buf'.is_shutdown = TRUE
        /\ buf'.read_cursor = buf.read_cursor /\ buf'.write_cursor = buf.write_cursor
        /\ buf'.handles = buf.handles
    <3>1. buf' = Shutdown(buf)
      BY <1>4 DEF WriterShutdown
    <3>2. /\ Shutdown(buf).data = buf.data /\ Shutdown(buf).is_shutdown = TRUE
          /\ Shutdown(buf).read_cursor = buf.read_cursor
          /\ Shutdown(buf).write_cursor = buf.write_cursor
          /\ Shutdown(buf).handles = buf.handles
      BY <1>t DEF Shutdown, Buffers
    <3>. QED  BY <3>1, <3>2
  <2>. QED  BY <1>4, <2>1, WindowUnchanged DEF WriterShutdown, Pipe!Abort, WriterHolds
<1>5. ASSUME DropWriter PROVE Pipe!Leave
  <2>1. /\ buf'.data = buf.data /\ buf'.is_shutdown = buf.is_shutdown
        /\ buf'.read_cursor = buf.read_cursor /\ buf'.write_cursor = buf.write_cursor
        /\ buf'.handles = buf.handles \ {"writer"}
    BY <1>5, <1>t, DropSpec DEF DropWriter
  <2>. QED  BY <1>5, <2>1, WindowUnchanged DEF DropWriter, Pipe!Leave, WriterHolds
<1>6. ASSUME ReadEof PROVE Pipe!End
  <2>1. ~WriterHolds
    BY <1>6 DEF ReadEof, LastHandle, WriterHolds
  <2>2. Window(buf) = << >> \/ buf.is_shutdown
    <3>1. ASSUME ~buf.is_shutdown PROVE Unread(buf) = 0
      BY <1>6, <3>1, <1>t, FieldsOf DEF ReadEof, NothingToRead, Unread, IInv, EmptyIsRewound
    <3>. QED  BY <3>1 DEF Window
  <2>. QED  BY <1>6, <2>1, <2>2 DEF ReadEof, Pipe!End, WriterHolds, Window, Unread
<1>7. ASSUME ReadPark PROVE UNCHANGED Pipe!vars
  <2>1. /\ buf'.data = buf.data /\ buf'.is_shutdown = buf.is_shutdown
        /\ buf'.read_cursor = buf.read_cursor /\ buf'.write_cursor = buf.write_cursor
        /\ buf'.handles = buf.handles
    BY <1>7, <1>t, ParkSpec DEF ReadPark
  <2>. QED  BY <1>7, <2>1, WindowUnchanged DEF ReadPark, Pipe!vars, WriterHolds
<1>8. ASSUME NEW n \in 1..MaxChunk, ReadReady(n) PROVE Pipe!Receive
  <2>1. buf'.is_shutdown = buf.is_shutdown /\ buf'.handles = buf.handles
    BY <1>8, <1>t, ReadSpec DEF ReadReady
  <2>2. ~buf.is_shutdown /\ ~eof /\ eof' = eof
    BY <1>8 DEF ReadReady, NothingToRead
  <2>. QED  BY <1>8, <2>1, <2>2, ReadTakes DEF Pipe!Receive, WriterHolds
<1>9. ASSUME DropReader PROVE UNCHANGED Pipe!vars
  <2>1. /\ buf'.data = buf.data /\ buf'.is_shutdown = buf.is_shutdown
        /\ buf'.read_cursor = buf.read_cursor /\ buf'.write_cursor = buf.write_cursor
        /\ buf'.handles = buf.handles \ {"reader"}
    BY <1>9, <1>t, DropSpec DEF DropReader
  <2>. QED  BY <1>9, <2>1, WindowUnchanged DEF DropReader, Pipe!vars, WriterHolds
<1>10. ASSUME Nudge \/ UNCHANGED vars PROVE UNCHANGED Pipe!vars
  BY <1>10 DEF Nudge, vars, Pipe!vars, Window, Unread, WriterHolds
<1>. QED
  BY <1>1, <1>2, <1>3, <1>4, <1>5, <1>6, <1>7, <1>8, <1>9, <1>10
     DEF Next, WriteStep, ReadStep, Pipe!Next

\* A StrictBuffer between two tasks is a bounded byte pipe, for every size, chunk and
\* interleaving.
THEOREM BufferIsAPipe == Spec => ImplementsPipe
<1>1. Pipe!Spec <=> Pipe!Init /\ [][Pipe!Next]_(Pipe!vars)
  BY DEF Pipe!Spec
<1>. QED  BY <1>1, InitRefines, NextRefines, Invariance, PTL DEF Spec, ImplementsPipe

-------------------------------------------------------------------------------
\* BufferManager.

LEMMA InitBooks == ManagerInit => BooksInv
BY DEF ManagerInit, BooksInv, ManagerTypeOK, NeverOverCounts, ExactUnlessUnlimited,
       EntryWithinLimit, NoEntry

\* Saturating at 0 keeps an entry below what is held.
LEMMA ReleasedSpec ==
  ASSUME NEW entry \in Nat \cup {NoEntry}, NEW held \in Nat, NEW size \in Nat \ {0},
         entry <= held, size <= held
  PROVE  /\ Released(entry, size) \in Nat
         /\ Released(entry, size) <= held - size
         /\ Released(entry, size) <= entry \/ (entry = NoEntry /\ Released(entry, size) = 0)
         /\ entry = held => Released(entry, size) = held - size
BY DEF Released, NoEntry

LEMMA NextBooks == BooksInv /\ [ManagerNext]_managerVars => BooksInv'
<1>. SUFFICES ASSUME BooksInv, [ManagerNext]_managerVars PROVE BooksInv'
  OBVIOUS
<1>. USE SizesAssumption, LimitsAssumption, NamesAssumption
<1>1. ASSUME NEW l \in Listeners, NEW limit \in Limits, ConfigUpdate(l, limit)
      PROVE  BooksInv'
  BY <1>1 DEF ConfigUpdate, BooksInv, ManagerTypeOK, NeverOverCounts, ExactUnlessUnlimited,
              EntryWithinLimit, NoEntry
<1>2. ASSUME NEW l \in Listeners, NEW size \in Sizes, RequestListener(l, size)
      PROVE  BooksInv'
  <2>1. CASE GrantFirst(l, size)
    BY <2>1 DEF GrantFirst, BooksInv, ManagerTypeOK, NeverOverCounts, ExactUnlessUnlimited,
                EntryWithinLimit, NoEntry
  <2>2. CASE GrantCounted(l, size)
    BY <2>2 DEF GrantCounted, BooksInv, ManagerTypeOK, NeverOverCounts, ExactUnlessUnlimited,
                EntryWithinLimit, NoEntry
  <2>3. CASE GrantUncounted(l, size)
    BY <2>3 DEF GrantUncounted, BooksInv, ManagerTypeOK, NeverOverCounts, ExactUnlessUnlimited,
                EntryWithinLimit, NoEntry
  <2>4. CASE RefuseListener(l, size)
    BY <2>4 DEF RefuseListener, managerVars, BooksInv, ManagerTypeOK, NeverOverCounts,
                ExactUnlessUnlimited, EntryWithinLimit
  <2>. QED  BY <1>2, <2>1, <2>2, <2>3, <2>4 DEF RequestListener
<1>3. ASSUME NEW c \in Clusters, NEW size \in Sizes, RequestCluster(c, size)
      PROVE  BooksInv'
  BY <1>3 DEF RequestCluster, BooksInv, ManagerTypeOK, NeverOverCounts, ExactUnlessUnlimited,
              EntryWithinLimit, NoEntry
<1>4. ASSUME NEW l \in Listeners, NEW size \in Sizes, ReleaseListener(l, size)
      PROVE  BooksInv'
  <2>. DEFINE r == Released(allocated_listeners[l], size)
  <2>1. /\ r \in Nat /\ r <= live[l] - size
        /\ r <= allocated_listeners[l] \/ (allocated_listeners[l] = NoEntry /\ r = 0)
        /\ allocated_listeners[l] = live[l] => r = live[l] - size
    BY <1>4, ReleasedSpec DEF ReleaseListener, BooksInv, ManagerTypeOK, NeverOverCounts
  <2>2. allocated_listeners' = [allocated_listeners EXCEPT ![l] = r]
    BY <1>4 DEF ReleaseListener
  <2>. HIDE DEF r
  <2>. QED
    BY <1>4, <2>1, <2>2
       DEF ReleaseListener, BooksInv, ManagerTypeOK, NeverOverCounts, ExactUnlessUnlimited,
           EntryWithinLimit, NoEntry
<1>5. ASSUME NEW c \in Clusters, NEW size \in Sizes, ReleaseCluster(c, size)
      PROVE  BooksInv'
  <2>. DEFINE r == Released(allocated_clusters[c], size)
  <2>1. r \in Nat /\ r <= live[c] - size
    BY <1>5, ReleasedSpec DEF ReleaseCluster, BooksInv, ManagerTypeOK, NeverOverCounts
  <2>2. allocated_clusters' = [allocated_clusters EXCEPT ![c] = r]
    BY <1>5 DEF ReleaseCluster
  <2>. HIDE DEF r
  <2>. QED
    BY <1>5, <2>1, <2>2
       DEF ReleaseCluster, BooksInv, ManagerTypeOK, NeverOverCounts, ExactUnlessUnlimited,
           EntryWithinLimit, NoEntry
<1>6. CASE UNCHANGED managerVars
  BY <1>6 DEF managerVars, BooksInv, ManagerTypeOK, NeverOverCounts, ExactUnlessUnlimited,
              EntryWithinLimit
<1>. QED
  BY <1>1, <1>2, <1>3, <1>4, <1>5, <1>6 DEF ManagerNext, Configure, Request, Release

-------------------------------------------------------------------------------
\* The inductive invariant holds in every reachable state.
THEOREM Books == ManagerSpec => []BooksInv
<1>. QED  BY InitBooks, NextBooks, PTL DEF ManagerSpec

\* The messages of any clients leave the two maps of the manager what they are: amounts
\* that never go below zero.
THEOREM ManagerTyping == ManagerSpec => []ManagerTypeOK
<1>1. BooksInv => ManagerTypeOK
  BY DEF BooksInv
<1>. QED  BY <1>1, Books, PTL

\* As long as a listener has never been granted a buffer without a limit, its entry is
\* exactly what is held through it.
THEOREM BooksAreExact == ManagerSpec => []ExactUnlessUnlimited
<1>1. BooksInv => ExactUnlessUnlimited
  BY DEF BooksInv
<1>. QED  BY <1>1, Books, PTL

\* No request is ever refused for memory that nobody holds.
THEOREM BooksNeverOverCount == ManagerSpec => []NeverOverCounts
<1>1. BooksInv => NeverOverCounts
  BY DEF BooksInv
<1>. QED  BY <1>1, Books, PTL

\* The memory held through a listener is bounded by its limit, the first request
\* and the requests granted without a limit excepted.
THEOREM MemoryIsBounded == ManagerSpec => []MemoryWithinLimit
<1>1. ASSUME BooksInv, NEW l \in Listeners \ uncounted
      PROVE  live[l] < highest[l] \/ live[l] <= first[l]
  <2>1. CASE allocated_listeners[l] = NoEntry
    <3>1. live[l] = 0 /\ first[l] \in Nat
      BY <1>1, <2>1 DEF BooksInv, ManagerTypeOK, ExactUnlessUnlimited
    <3>. QED  BY <3>1
  <2>2. CASE allocated_listeners[l] # NoEntry
    <3>1. allocated_listeners[l] = live[l]
      BY <1>1, <2>2 DEF BooksInv, ExactUnlessUnlimited
    <3>. QED  BY <1>1, <3>1 DEF BooksInv, EntryWithinLimit
  <2>. QED  BY <2>1, <2>2
<1>2. BooksInv => MemoryWithinLimit
  BY <1>1 DEF MemoryWithinLimit
<1>. QED  BY <1>2, Books, PTL

\* While nobody releases what a listener holds, its refusals are final, whatever the
\* clients of the other listeners and of the clusters do.
THEOREM RefusalsAreFinal == ManagerSpec => RefusalIsFinal
<1>1. ASSUME BooksInv, [ManagerNext]_managerVars,
             NEW l \in Listeners \ Releasing, NEW size \in Sizes,
             Refuses(l, size), listeners'[l] <= listeners[l], listeners'[l] # 0
      PROVE  Refuses(l, size)'
  <2>1. allocated_listeners'[l] >= allocated_listeners[l] /\ allocated_listeners'[l] # NoEntry
    BY <1>1, SizesAssumption, LimitsAssumption
       DEF ManagerNext, Configure, Request, Release, ConfigUpdate, RequestListener, GrantFirst,
           GrantCounted, GrantUncounted, RefuseListener, RequestCluster, ReleaseListener,
           ReleaseCluster, Refuses, managerVars, BooksInv, ManagerTypeOK, NoEntry
  <2>2. listeners'[l] \in Nat /\ allocated_listeners'[l] \in Nat /\ size \in Nat
        /\ listeners[l] \in Nat /\ allocated_listeners[l] \in Nat
    BY <1>1, <2>1, NextBooks, SizesAssumption DEF BooksInv, ManagerTypeOK, Refuses
  <2>. QED  BY <1>1, <2>1, <2>2 DEF Refuses
<1>2. BooksInv /\ [ManagerNext]_managerVars =>
        [\A l \in Listeners \ Releasing, size \in Sizes :
           /\ Refuses(l, size)
           /\ listeners'[l] <= listeners[l] /\ listeners'[l] # 0
           => Refuses(l, size)']_managerVars
  BY <1>1
<1>. QED  BY <1>2, Books, PTL DEF ManagerSpec, RefusalIsFinal

===============================================================================
