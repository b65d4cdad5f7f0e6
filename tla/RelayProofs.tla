------------------------------ MODULE RelayProofs ------------------------------
(***************************************************************************)
(* Proofs about Relay, for every size of the buffers, the sockets, the heads  *)
(* and the messages.                                                         *)
(***************************************************************************)
EXTENDS Relay, SequenceTheorems, TLAPS

-------------------------------------------------------------------------------
\* The methods of StrictBuffer, by what they do to the fields and the window.

\* The same bytes, in the same place, and the same end.
Like(b, c) ==
  /\ c.size = b.size /\ c.data = b.data /\ c.is_shutdown = b.is_shutdown
  /\ c.read_cursor = b.read_cursor /\ c.write_cursor = b.write_cursor

LEMMA FieldsOf ==
  ASSUME NEW size, NEW bytes, NEW tasks, NEW b \in Buffers(size, bytes, tasks)
  PROVE  /\ b.size = size /\ b.data \in [0..(size - 1) -> bytes] /\ b.is_shutdown \in BOOLEAN
         /\ b.read_cursor \in 0..size /\ b.write_cursor \in 0..size
         /\ b.waker \in tasks \cup {NoTask} /\ b.handles \in SUBSET tasks
BY DEF Buffers

\* Registering and dropping a handle leave the bytes alone.
LEMMA ParkAndDrop ==
  ASSUME NEW size, NEW bytes, NEW tasks, NEW b \in Buffers(size, bytes, tasks), NEW t \in tasks
  PROVE  /\ Park(b, t) \in Buffers(size, bytes, tasks) /\ Like(b, Park(b, t)) /\ Park(b, t).waker = t
         /\ Drop(b, t) \in Buffers(size, bytes, tasks) /\ Like(b, Drop(b, t)) /\ Drop(b, t).waker = b.waker
BY DEF Buffers, Park, Drop, Like

\* A write appends the head of the chunk to the window.
LEMMA WriteAppends ==
  ASSUME NEW size \in Nat, NEW bytes, NEW tasks, NEW b \in Buffers(size, bytes, tasks),
         b.read_cursor <= b.write_cursor,
         NEW n \in Nat, NEW chunk \in [1..n -> bytes]
  PROVE  /\ WriteLen(b, n) \in 0..n /\ (b.write_cursor + n <= size => WriteLen(b, n) = n)
         /\ Write(b, n, chunk) \in Buffers(size, bytes, tasks)
         /\ Write(b, n, chunk).is_shutdown = b.is_shutdown
         /\ Write(b, n, chunk).read_cursor = b.read_cursor
         /\ Write(b, n, chunk).write_cursor = b.write_cursor + WriteLen(b, n)
         /\ Unread(b) \in Nat /\ Unread(Write(b, n, chunk)) = Unread(b) + WriteLen(b, n)
         /\ \A i \in 1..Unread(b) : Window(Write(b, n, chunk))[i] = Window(b)[i]
         /\ \A k \in 1..WriteLen(b, n) : Window(Write(b, n, chunk))[Unread(b) + k] = chunk[k]
<1>. DEFINE len == WriteLen(b, n)
            d   == [i \in 0..(b.size - 1) |->
                      IF i >= b.write_cursor /\ i < b.write_cursor + len
                      THEN chunk[i - b.write_cursor + 1]
                      ELSE b.data[i]]
            w   == Write(b, n, chunk)
<1>1. /\ b.size = size /\ b.write_cursor \in 0..size /\ b.read_cursor \in 0..size
      /\ b.data \in [0..(size - 1) -> bytes]
  BY FieldsOf
<1>2. /\ len \in 0..n /\ b.write_cursor + len \in 0..size
      /\ b.write_cursor + n <= size => len = n
  BY <1>1 DEF WriteLen
<1>3. d \in [0..(size - 1) -> bytes]
  <2>1. ASSUME NEW i \in 0..(size - 1), i >= b.write_cursor, i < b.write_cursor + len
        PROVE  chunk[i - b.write_cursor + 1] \in bytes
    <3>1. i - b.write_cursor + 1 \in 1..n
      BY <2>1, <1>1, <1>2
    <3>2. QED BY <3>1
  <2>2. \A i \in 0..(size - 1) : b.data[i] \in bytes
    BY <1>1
  <2>. HIDE DEF len
  <2>3. \A i \in 0..(size - 1) :
          (IF i >= b.write_cursor /\ i < b.write_cursor + len
           THEN chunk[i - b.write_cursor + 1] ELSE b.data[i]) \in bytes
    BY <2>1, <2>2
  <2>4. QED BY <2>3, <1>1
<1>4. w = [b EXCEPT !.data = d, !.write_cursor = b.write_cursor + len, !.waker = NoTask]
  BY DEF Write, Wake, Buffers
<1>. HIDE DEF d, len, w
<1>5. /\ w \in Buffers(size, bytes, tasks) /\ w.data = d /\ w.is_shutdown = b.is_shutdown
      /\ w.read_cursor = b.read_cursor /\ w.write_cursor = b.write_cursor + len
  BY <1>2, <1>3, <1>4 DEF Buffers
<1>6. Unread(b) \in Nat /\ Unread(w) = Unread(b) + len
  <2>1. /\ Unread(b) = b.write_cursor - b.read_cursor
        /\ Unread(w) = (b.write_cursor + len) - b.read_cursor
    BY <1>5 DEF Unread
  <2>2. b.write_cursor \in Nat /\ b.read_cursor \in Nat /\ len \in Nat
    BY <1>1, <1>2
  <2>3. QED BY <2>1, <2>2
<1>7. ASSUME NEW i \in 1..Unread(b) PROVE Window(w)[i] = Window(b)[i]
  <2>1. /\ b.read_cursor + i - 1 \in 0..(b.size - 1) /\ b.read_cursor + i - 1 < b.write_cursor
        /\ i \in 1..Unread(w)
    BY <1>1, <1>2, <1>6 DEF Unread
  <2>2. d[b.read_cursor + i - 1] = b.data[b.read_cursor + i - 1]
    BY <2>1, <1>1 DEF d
  <2>3. QED BY <1>5, <2>1, <2>2 DEF Window
<1>8. ASSUME NEW k \in 1..len PROVE Window(w)[Unread(b) + k] = chunk[k]
  <2>1. /\ Unread(b) + k \in 1..Unread(w)
        /\ b.read_cursor + (Unread(b) + k) - 1 = b.write_cursor + k - 1
        /\ b.write_cursor + k - 1 \in 0..(b.size - 1)
        /\ b.write_cursor + k - 1 >= b.write_cursor /\ b.write_cursor + k - 1 < b.write_cursor + len
        /\ (b.write_cursor + k - 1) - b.write_cursor + 1 = k
    <3>1. Unread(b) = b.write_cursor - b.read_cursor
      BY DEF Unread
    <3>2. /\ b.write_cursor \in Nat /\ b.read_cursor \in Nat /\ len \in Nat /\ b.size \in Nat
          /\ b.write_cursor + len <= b.size
      BY <1>1, <1>2
    <3>3. k \in Nat /\ k >= 1 /\ k <= len
      BY <3>2
    <3>4. Unread(b) + k \in 1..Unread(w)
      BY <1>6, <3>2, <3>3
    <3>5. /\ b.read_cursor + (Unread(b) + k) - 1 = b.write_cursor + k - 1
          /\ b.write_cursor + k - 1 \in 0..(b.size - 1)
      BY <3>1, <3>2, <3>3
    <3>6. /\ b.write_cursor + k - 1 >= b.write_cursor /\ b.write_cursor + k - 1 < b.write_cursor + len
          /\ (b.write_cursor + k - 1) - b.write_cursor + 1 = k
      BY <3>2, <3>3
    <3>7. QED BY <3>4, <3>5, <3>6
  <2>2. d[b.write_cursor + k - 1] = chunk[k]
    BY <2>1 DEF d
  <2>3. QED BY <1>5, <2>1, <2>2 DEF Window
<1>9. QED BY <1>2, <1>5, <1>6, <1>7, <1>8 DEF len, w

\* A read with room for n >= 1 bytes takes the head of the window, and rewinds the
\* cursors when nothing is left.
LEMMA ReadTakes ==
  ASSUME NEW size \in Nat, NEW bytes, NEW tasks, NEW b \in Buffers(size, bytes, tasks),
         ~NothingToRead(b), NEW n \in Nat \ {0}
  PROVE  /\ ReadLen(b, n) \in 1..Unread(b) /\ Unread(b) \in Nat
         /\ Read(b, n) \in Buffers(size, bytes, tasks)
         /\ Read(b, n).is_shutdown = b.is_shutdown
         /\ Read(b, n).read_cursor <= b.read_cursor + ReadLen(b, n)
         /\ Read(b, n).read_cursor <= Read(b, n).write_cursor
         /\ Read(b, n).read_cursor = Read(b, n).write_cursor => Read(b, n).write_cursor = 0
         /\ Unread(Read(b, n)) = Unread(b) - ReadLen(b, n)
         /\ \A i \in 1..Unread(Read(b, n)) : Window(Read(b, n))[i] = Window(b)[ReadLen(b, n) + i]
<1>. DEFINE len == ReadLen(b, n)
            drained == b.read_cursor + len >= b.write_cursor
            rc  == IF drained THEN 0 ELSE b.read_cursor + len
            wc  == IF drained THEN 0 ELSE b.write_cursor
            r   == Read(b, n)
<1>1. b.size = size /\ b.write_cursor \in 0..size /\ b.read_cursor \in 0..size
  BY FieldsOf
<1>2. /\ len \in 1..Unread(b) /\ b.read_cursor + len \in 0..b.write_cursor
      /\ Unread(b) = b.write_cursor - b.read_cursor /\ Unread(b) \in Nat
  BY <1>1 DEF ReadLen, NothingToRead, Unread
<1>3. rc \in 0..size /\ wc \in 0..size
  BY <1>1, <1>2
<1>4. r = [b EXCEPT !.read_cursor = rc, !.write_cursor = wc, !.waker = NoTask]
  BY DEF Read, Wake, Buffers
<1>. HIDE DEF rc, wc, len, r
<1>5. /\ r \in Buffers(size, bytes, tasks) /\ r.data = b.data /\ r.is_shutdown = b.is_shutdown
      /\ r.read_cursor = rc /\ r.write_cursor = wc
  BY <1>3, <1>4 DEF Buffers
<1>6. \/ /\ b.read_cursor + len = b.write_cursor /\ rc = 0 /\ wc = 0
      \/ /\ b.read_cursor + len < b.write_cursor
         /\ rc = b.read_cursor + len /\ wc = b.write_cursor
  BY <1>1, <1>2 DEF rc, wc
<1>7. Unread(r) = Unread(b) - len /\ rc <= b.read_cursor + len /\ rc <= wc /\ (rc = wc => wc = 0)
  BY <1>1, <1>2, <1>5, <1>6 DEF Unread
<1>8. ASSUME NEW i \in 1..Unread(r) PROVE Window(r)[i] = Window(b)[len + i]
  <2>1. /\ rc = b.read_cursor + len /\ len + i \in 1..Unread(b)
        /\ rc + i - 1 = b.read_cursor + (len + i) - 1
    BY <1>1, <1>2, <1>6, <1>7
  <2>2. QED BY <1>5, <2>1 DEF Window
<1>9. QED BY <1>2, <1>5, <1>7, <1>8 DEF len, r

-------------------------------------------------------------------------------
\* Numbers that grow, above lo and up to hi, with room below, between and above them
\* for as many as there are places.
Ascends(s, lo, hi) ==
  /\ s \in Seq(Nat) /\ lo \in Nat /\ hi \in Nat /\ lo + Len(s) <= hi
  /\ \A i \in 1..Len(s) : lo + i <= s[i] /\ s[i] + (Len(s) - i) <= hi
  /\ \A i, j \in 1..Len(s) : i < j => s[i] + (j - i) <= s[j]

LEMMA NothingAscends ==
  ASSUME NEW lo \in Nat, NEW hi \in Nat, lo <= hi
  PROVE  Ascends(<<>>, lo, hi)
<1>1. <<>> \in Seq(Nat) /\ Len(<<>>) = 0
  OBVIOUS
<1>2. QED BY <1>1 DEF Ascends

\* A slice, from its first number to its last.
LEMMA SliceAscends ==
  ASSUME NEW first \in Nat \ {0}, NEW upto \in Nat, first <= upto + 1
  PROVE  /\ Ascends([k \in 1..(upto - first + 1) |-> first + k - 1], first - 1, upto)
         /\ Len([k \in 1..(upto - first + 1) |-> first + k - 1]) = upto - first + 1
<1>. DEFINE n == upto - first + 1
            s == [k \in 1..n |-> first + k - 1]
<1>1. n \in Nat
  OBVIOUS
<1>2. s \in [1..n -> Nat]
  BY <1>1
<1>3. s \in Seq(Nat) /\ Len(s) = n /\ \A k \in 1..n : s[k] = first + k - 1
  BY <1>1, <1>2
<1>. HIDE DEF s
<1>4. first - 1 + n <= upto /\ first - 1 \in Nat
  OBVIOUS
<1>5. \A i \in 1..n : first - 1 + i <= s[i] /\ s[i] + (n - i) <= upto
  BY <1>3
<1>6. \A i, j \in 1..n : i < j => s[i] + (j - i) <= s[j]
  BY <1>3
<1>7. Ascends(s, first - 1, upto)
  BY <1>3, <1>4, <1>5, <1>6 DEF Ascends
<1>8. QED BY <1>3, <1>7 DEF s

LEMMA AscendsFurther ==
  ASSUME NEW s, NEW lo, NEW hi, Ascends(s, lo, hi), NEW higher \in Nat, hi <= higher
  PROVE  Ascends(s, lo, higher)
<1>1. /\ s \in Seq(Nat) /\ lo \in Nat /\ hi \in Nat /\ lo + Len(s) <= hi /\ Len(s) \in Nat
      /\ \A i \in 1..Len(s) : s[i] \in Nat /\ s[i] + (Len(s) - i) <= hi
  BY DEF Ascends
<1>2. lo + Len(s) <= higher
  BY <1>1
<1>3. \A i \in 1..Len(s) : s[i] + (Len(s) - i) <= higher
  BY <1>1
<1>4. QED BY <1>2, <1>3 DEF Ascends

LEMMA Places ==
  ASSUME NEW s, NEW lo, NEW hi, Ascends(s, lo, hi), NEW i \in 1..Len(s)
  PROVE  /\ i \in Nat /\ i >= 1 /\ i <= Len(s) /\ Len(s) \in Nat /\ s[i] \in Nat /\ lo \in Nat /\ hi \in Nat
         /\ lo + i <= s[i] /\ s[i] + (Len(s) - i) <= hi
<1>1. s \in Seq(Nat) /\ Len(s) \in Nat /\ lo \in Nat /\ hi \in Nat
  BY DEF Ascends
<1>2. i \in Nat /\ i >= 1 /\ i <= Len(s) /\ s[i] \in Nat
  BY <1>1
<1>3. QED BY <1>1, <1>2 DEF Ascends

\* Two sequences of which the second starts above the first, one behind the other.
LEMMA AscendBehind ==
  ASSUME NEW s, NEW r, NEW u, NEW a, NEW b, NEW c, Ascends(s, a, b), Ascends(r, b, c),
         u \in Seq(Nat), Len(u) = Len(s) + Len(r),
         \A i \in 1..Len(s) : u[i] = s[i],
         \A i \in 1..Len(r) : u[Len(s) + i] = r[i]
  PROVE  Ascends(u, a, c)
<1>. DEFINE m == Len(s)
            n == Len(r)
<1>1. /\ m \in Nat /\ n \in Nat /\ a \in Nat /\ b \in Nat /\ c \in Nat /\ a + m <= b /\ b + n <= c
      /\ Len(u) = m + n
  BY DEF Ascends
<1>2. \A i \in 1..m : u[i] \in Nat /\ a + i <= u[i] /\ u[i] + (m - i) <= b
  BY Places
<1>3. \A i \in 1..m, j \in 1..m : i < j => u[i] + (j - i) <= u[j]
  BY DEF Ascends
<1>4. \A i \in (m + 1)..(m + n) : u[i] \in Nat /\ b + (i - m) <= u[i] /\ u[i] + (n - (i - m)) <= c
  <2>1. ASSUME NEW i \in (m + 1)..(m + n)
        PROVE  u[i] \in Nat /\ b + (i - m) <= u[i] /\ u[i] + (n - (i - m)) <= c
    <3>1. i - m \in 1..n /\ m + (i - m) = i
      BY <1>1
    <3>2. u[i] = r[i - m]
      BY <3>1
    <3>3. r[i - m] \in Nat /\ b + (i - m) <= r[i - m] /\ r[i - m] + (n - (i - m)) <= c
      BY <3>1, Places
    <3>4. QED BY <3>2, <3>3
  <2>2. QED BY <2>1
<1>5. \A i \in (m + 1)..(m + n), j \in (m + 1)..(m + n) : i < j => u[i] + (j - i) <= u[j]
  <2>1. ASSUME NEW i \in (m + 1)..(m + n), NEW j \in (m + 1)..(m + n), i < j
        PROVE  u[i] + (j - i) <= u[j]
    <3>1. /\ i - m \in 1..n /\ m + (i - m) = i /\ j - m \in 1..n /\ m + (j - m) = j
          /\ i - m < j - m /\ (j - m) - (i - m) = j - i
      BY <1>1, <2>1
    <3>2. u[i] = r[i - m] /\ u[j] = r[j - m]
      BY <3>1
    <3>3. r[i - m] + ((j - m) - (i - m)) <= r[j - m]
      BY <3>1 DEF Ascends
    <3>4. QED BY <3>1, <3>2, <3>3
  <2>2. QED BY <2>1
<1>. HIDE DEF m, n
<1>6. \A i \in 1..(m + n) : i \in 1..m \/ i \in (m + 1)..(m + n)
  BY <1>1
<1>7. ASSUME NEW i \in 1..(m + n) PROVE a + i <= u[i] /\ u[i] + ((m + n) - i) <= c
  <2>1. CASE i \in 1..m
    <3>1. i \in Nat /\ u[i] \in Nat /\ a + i <= u[i] /\ u[i] + (m - i) <= b
      BY <1>1, <1>2, <2>1
    <3>2. QED BY <1>1, <3>1
  <2>2. CASE i \in (m + 1)..(m + n)
    <3>1. i \in Nat /\ u[i] \in Nat /\ b + (i - m) <= u[i] /\ u[i] + (n - (i - m)) <= c
      BY <1>1, <1>4, <2>2
    <3>2. QED BY <1>1, <3>1
  <2>3. QED BY <1>6, <2>1, <2>2
<1>8. ASSUME NEW i \in 1..(m + n), NEW j \in 1..(m + n), i < j PROVE u[i] + (j - i) <= u[j]
  <2>1. CASE i \in 1..m /\ j \in 1..m
    BY <1>3, <1>8, <2>1
  <2>2. CASE i \in 1..m /\ j \in (m + 1)..(m + n)
    <3>1. u[i] \in Nat /\ u[i] + (m - i) <= b /\ u[j] \in Nat /\ b + (j - m) <= u[j]
      BY <1>2, <1>4, <2>2
    <3>2. i \in Nat /\ j \in Nat /\ m \in Nat /\ b \in Nat
      BY <1>1
    <3>3. QED BY <3>1, <3>2
  <2>3. CASE i \in (m + 1)..(m + n) /\ j \in (m + 1)..(m + n)
    BY <1>5, <1>8, <2>3
  <2>4. ~(i \in (m + 1)..(m + n) /\ j \in 1..m)
    BY <1>1, <1>8
  <2>5. QED BY <1>6, <2>1, <2>2, <2>3, <2>4
<1>9. a + (m + n) <= c
  BY <1>1
<1>10. QED BY <1>1, <1>7, <1>8, <1>9 DEF Ascends

LEMMA ConcatAscends ==
  ASSUME NEW s, NEW r, NEW a, NEW b, NEW c, Ascends(s, a, b), Ascends(r, b, c)
  PROVE  Ascends(s \o r, a, c) /\ Len(s \o r) = Len(s) + Len(r)
<1>1. s \in Seq(Nat) /\ r \in Seq(Nat)
  BY DEF Ascends
<1>2. /\ s \o r \in Seq(Nat) /\ Len(s \o r) = Len(s) + Len(r)
      /\ \A i \in 1..Len(s) : (s \o r)[i] = s[i]
      /\ \A i \in 1..Len(r) : (s \o r)[Len(s) + i] = r[i]
  BY <1>1
<1>3. QED BY <1>2, AscendBehind

\* The first n of them end at one of them, and the others start there.
LEMMA AscendApart ==
  ASSUME NEW s, NEW a, NEW c, Ascends(s, a, c), NEW n \in 1..Len(s),
         NEW r, r \in Seq(Nat), Len(r) = n, \A i \in 1..n : r[i] = s[i],
         NEW u, u \in Seq(Nat), Len(u) = Len(s) - n, \A i \in 1..Len(u) : u[i] = s[n + i]
  PROVE  /\ Ascends(r, a, s[n]) /\ Ascends(u, s[n], c)
         /\ s[n] \in Nat /\ a + n <= s[n]
<1>1. /\ s \in Seq(Nat) /\ Len(s) \in Nat /\ a \in Nat /\ c \in Nat /\ s[n] \in Nat
      /\ a + n <= s[n] /\ s[n] + (Len(s) - n) <= c
  BY DEF Ascends
<1>2. Ascends(r, a, s[n])
  <2>1. ASSUME NEW i \in 1..n PROVE a + i <= r[i] /\ r[i] + (n - i) <= s[n]
    <3>1. i \in 1..Len(s) /\ s[i] \in Nat /\ a + i <= s[i] /\ r[i] = s[i]
      BY <1>1 DEF Ascends
    <3>2. i < n => s[i] + (n - i) <= s[n]
      BY <3>1 DEF Ascends
    <3>3. QED BY <3>1, <3>2
  <2>2. ASSUME NEW i \in 1..n, NEW j \in 1..n, i < j PROVE r[i] + (j - i) <= r[j]
    <3>1. i \in 1..Len(s) /\ j \in 1..Len(s) /\ r[i] = s[i] /\ r[j] = s[j]
      BY <1>1
    <3>2. QED BY <2>2, <3>1 DEF Ascends
  <2>3. QED BY <1>1, <2>1, <2>2 DEF Ascends
<1>3. Ascends(u, s[n], c)
  <2>1. ASSUME NEW i \in 1..Len(u) PROVE s[n] + i <= u[i] /\ u[i] + (Len(u) - i) <= c
    <3>1. /\ i \in Nat /\ n + i \in 1..Len(s) /\ n < n + i /\ (n + i) - n = i
          /\ Len(s) - (n + i) = Len(u) - i
      BY <1>1
    <3>2. u[i] = s[n + i] /\ s[n] + ((n + i) - n) <= s[n + i] /\ s[n + i] + (Len(s) - (n + i)) <= c
      BY <3>1 DEF Ascends
    <3>3. QED BY <3>1, <3>2
  <2>2. ASSUME NEW i \in 1..Len(u), NEW j \in 1..Len(u), i < j PROVE u[i] + (j - i) <= u[j]
    <3>1. /\ n + i \in 1..Len(s) /\ n + j \in 1..Len(s) /\ n + i < n + j
          /\ (n + j) - (n + i) = j - i
      BY <1>1, <2>2
    <3>2. u[i] = s[n + i] /\ u[j] = s[n + j] /\ s[n + i] + ((n + j) - (n + i)) <= s[n + j]
      BY <3>1 DEF Ascends
    <3>3. QED BY <3>1, <3>2
  <2>3. s[n] + Len(u) <= c
    BY <1>1
  <2>4. QED BY <1>1, <2>1, <2>2, <2>3 DEF Ascends
<1>4. QED BY <1>1, <1>2, <1>3

-------------------------------------------------------------------------------
\* One direction: what its reader took, the buffer and the three slices that its
\* writer still has to write, from the last byte that went out up to a byte hi.
\* The buffer has been read no further than its reader got.
Chain(c, l, b, s1, s2, s3, hi) ==
  \E m1, m2, m3, m4 \in Nat :
    /\ Ascends(c, l, m1) /\ b.read_cursor <= m1 /\ Ascends(Window(b), m1, m2)
    /\ Ascends(s1, m2, m3) /\ Ascends(s2, m3, m4) /\ Ascends(s3, m4, hi)

\* Nothing is missing between these two bytes.
Whole(c, l, b, s1, s2, s3, hi) ==
  l + Len(c) + Unread(b) + Len(s1) + Len(s2) + Len(s3) = hi

LEMMA WindowIsASequence ==
  ASSUME NEW size \in Nat, NEW max \in Nat, NEW tasks, NEW b \in Buffers(size, 0..max, tasks),
         b.read_cursor <= b.write_cursor
  PROVE  /\ Window(b) \in Seq(Nat) /\ Len(Window(b)) = Unread(b) /\ Unread(b) \in Nat
         /\ b.write_cursor = b.read_cursor + Unread(b)
         /\ b.write_cursor \in Nat /\ b.read_cursor \in Nat
<1>1. /\ b.size = size /\ b.write_cursor \in 0..size /\ b.read_cursor \in 0..size
      /\ b.data \in [0..(size - 1) -> 0..max]
  BY FieldsOf
<1>2. Unread(b) \in Nat /\ b.write_cursor = b.read_cursor + Unread(b) /\ Unread(b) = b.write_cursor - b.read_cursor
  BY <1>1 DEF Unread
<1>3. ASSUME NEW i \in 1..Unread(b) PROVE b.data[b.read_cursor + i - 1] \in Nat
  <2>1. b.read_cursor + i - 1 \in 0..(size - 1)
    BY <1>1, <1>2
  <2>2. b.data[b.read_cursor + i - 1] \in 0..max
    BY <1>1, <2>1
  <2>3. QED BY <2>2
<1>4. Window(b) \in [1..Unread(b) -> Nat]
  BY <1>3 DEF Window
<1>5. Window(b) \in Seq(Nat) /\ Len(Window(b)) = Unread(b)
  BY <1>2, <1>4
<1>6. QED BY <1>1, <1>2, <1>5

\* The lengths fit between the marks.
LEMMA ChainFits ==
  ASSUME NEW c, NEW l, NEW b, NEW s1, NEW s2, NEW s3, NEW hi, Chain(c, l, b, s1, s2, s3, hi),
         Len(Window(b)) = Unread(b), Unread(b) \in Nat
  PROVE  /\ l \in Nat /\ hi \in Nat /\ Len(c) \in Nat /\ Len(s1) \in Nat /\ Len(s2) \in Nat /\ Len(s3) \in Nat
         /\ l + Len(c) + Unread(b) + Len(s1) + Len(s2) + Len(s3) <= hi
         /\ b.read_cursor \in Nat => b.read_cursor + Unread(b) + Len(s1) <= hi
<1>1. PICK m1, m2, m3, m4 \in Nat :
        /\ Ascends(c, l, m1) /\ b.read_cursor <= m1 /\ Ascends(Window(b), m1, m2)
        /\ Ascends(s1, m2, m3) /\ Ascends(s2, m3, m4) /\ Ascends(s3, m4, hi)
  BY DEF Chain
<1>2. /\ l \in Nat /\ hi \in Nat /\ Len(c) \in Nat /\ l + Len(c) <= m1 /\ m1 + Unread(b) <= m2
  BY <1>1 DEF Ascends
<1>3. /\ Len(s1) \in Nat /\ Len(s2) \in Nat /\ Len(s3) \in Nat
      /\ m2 + Len(s1) <= m3 /\ m3 + Len(s2) <= m4 /\ m4 + Len(s3) <= hi
  BY <1>1 DEF Ascends
<1>4. b.read_cursor <= m1
  BY <1>1
<1>5. l + Len(c) + Unread(b) + Len(s1) + Len(s2) + Len(s3) <= hi
  BY <1>2, <1>3
<1>6. hi \in Nat
  BY <1>1 DEF Ascends
<1>7. ASSUME b.read_cursor \in Nat PROVE b.read_cursor + Unread(b) + Len(s1) <= hi
  <2>1. m1 + Unread(b) + Len(s1) <= hi
    BY <1>2, <1>3
  <2>2. \A x \in Nat : x <= m1 => x + Unread(b) + Len(s1) <= hi
    BY <1>3, <1>6, <2>1
  <2>3. QED BY <1>4, <1>7, <2>2
<1>8. QED BY <1>2, <1>3, <1>5, <1>6, <1>7

\* Another buffer with the same bytes in the same place.
LEMMA ChainLike ==
  ASSUME NEW c, NEW l, NEW b, NEW s1, NEW s2, NEW s3, NEW hi, NEW b2, Like(b, b2)
  PROVE  /\ Chain(c, l, b, s1, s2, s3, hi) => Chain(c, l, b2, s1, s2, s3, hi)
         /\ Whole(c, l, b, s1, s2, s3, hi) => Whole(c, l, b2, s1, s2, s3, hi)
<1>1. Unread(b2) = Unread(b) /\ Window(b2) = Window(b) /\ b2.read_cursor = b.read_cursor
  BY DEF Like, Unread, Window
<1>2. QED BY <1>1 DEF Chain, Whole

\* The first slice is written: what fits of it is behind the window, the rest is gone.
\* It fits if all that was read does.
LEMMA ChainWritten ==
  ASSUME NEW size \in Nat, NEW max \in Nat, NEW tasks, NEW b \in Buffers(size, 0..max, tasks),
         b.read_cursor <= b.write_cursor, NEW n \in Nat, NEW chunk \in [1..n -> 0..max],
         NEW c, NEW l, NEW s2, NEW s3, NEW hi, Chain(c, l, b, chunk, s2, s3, hi)
  PROVE  /\ Chain(c, l, Write(b, n, chunk), s2, s3, <<>>, hi)
         /\ hi <= size /\ Whole(c, l, b, chunk, s2, s3, hi) =>
              Whole(c, l, Write(b, n, chunk), s2, s3, <<>>, hi)
<1>. DEFINE w == Write(b, n, chunk)
            k == WriteLen(b, n)
<1>1. /\ k \in 0..n /\ (b.write_cursor + n <= size => k = n)
      /\ w \in Buffers(size, 0..max, tasks) /\ w.read_cursor = b.read_cursor
      /\ w.write_cursor = b.write_cursor + k
      /\ Unread(b) \in Nat /\ Unread(w) = Unread(b) + k
      /\ \A i \in 1..Unread(b) : Window(w)[i] = Window(b)[i]
      /\ \A i \in 1..k : Window(w)[Unread(b) + i] = chunk[i]
  BY WriteAppends
<1>2. /\ Window(b) \in Seq(Nat) /\ Len(Window(b)) = Unread(b)
      /\ b.write_cursor = b.read_cursor + Unread(b) /\ b.write_cursor \in Nat /\ b.read_cursor \in Nat
  BY WindowIsASequence
<1>3. w.read_cursor <= w.write_cursor
  BY <1>1, <1>2
<1>4. Window(w) \in Seq(Nat) /\ Len(Window(w)) = Unread(w)
  BY <1>1, <1>3, WindowIsASequence
<1>5. Len(chunk) = n /\ chunk \in Seq(Nat)
  OBVIOUS
<1>. HIDE DEF w, k
<1>6. Chain(c, l, w, s2, s3, <<>>, hi)
  <2>1. PICK m1, m2, m3, m4 \in Nat :
          /\ Ascends(c, l, m1) /\ b.read_cursor <= m1 /\ Ascends(Window(b), m1, m2)
          /\ Ascends(chunk, m2, m3) /\ Ascends(s2, m3, m4) /\ Ascends(s3, m4, hi)
    BY DEF Chain
  <2>2. Ascends(Window(w), m1, m3)
    <3>1. CASE k = 0
      <4>1. /\ \A i \in 1..Len(<<>>) : Window(w)[Len(Window(b)) + i] = (<<>>)[i]
            /\ Len(Window(w)) = Len(Window(b)) + Len(<<>>)
        BY <1>1, <1>2, <1>4, <3>1
      <4>2. m2 <= m3
        BY <2>1 DEF Ascends
      <4>3. Ascends(<<>>, m2, m3)
        BY <4>2, NothingAscends
      <4>4. \A i \in 1..Len(Window(b)) : Window(w)[i] = Window(b)[i]
        BY <1>1, <1>2
      <4>5. QED BY <1>4, <2>1, <4>1, <4>3, <4>4, AscendBehind
    <3>2. CASE k # 0
      <4> DEFINE cut  == [i \in 1..k |-> chunk[i]]
                 rest == [i \in 1..(n - k) |-> chunk[k + i]]
      <4>1. k \in 1..Len(chunk) /\ k \in Nat /\ n - k \in Nat
        BY <1>1, <1>5, <3>2
      <4>2. /\ cut \in [1..k -> Nat] /\ rest \in [1..(n - k) -> Nat]
        BY <4>1, <1>5
      <4>3. /\ cut \in Seq(Nat) /\ Len(cut) = k /\ rest \in Seq(Nat) /\ Len(rest) = n - k
            /\ (\A i \in 1..k : cut[i] = chunk[i]) /\ \A i \in 1..Len(rest) : rest[i] = chunk[k + i]
        BY <4>1, <4>2
      <4>. HIDE DEF cut, rest
      <4>4. Len(rest) = Len(chunk) - k
        BY <1>5, <4>3
      <4>5. /\ Ascends(cut, m2, chunk[k]) /\ Ascends(rest, chunk[k], m3) /\ chunk[k] \in Nat
        BY <2>1, <4>1, <4>3, <4>4, AscendApart
      <4>6. chunk[k] <= m3
        BY <4>5 DEF Ascends
      <4>7. Ascends(cut, m2, m3)
        BY <4>5, <4>6, AscendsFurther
      <4>8. \A i \in 1..Len(Window(b)) : Window(w)[i] = Window(b)[i]
        BY <1>1, <1>2
      <4>9. \A i \in 1..Len(cut) : Window(w)[Len(Window(b)) + i] = cut[i]
        BY <1>1, <1>2, <4>3
      <4>10. Len(Window(w)) = Len(Window(b)) + Len(cut)
        BY <1>1, <1>2, <1>4, <4>3
      <4>11. QED BY <1>4, <2>1, <4>7, <4>8, <4>9, <4>10, AscendBehind
    <3>3. QED BY <3>1, <3>2
  <2>3. hi \in Nat /\ Ascends(<<>>, hi, hi)
    <3>1. hi \in Nat
      BY <2>1 DEF Ascends
    <3>2. QED BY <3>1, NothingAscends
  <2>4. w.read_cursor <= m1
    BY <1>1, <2>1
  <2>5. QED BY <2>1, <2>2, <2>3, <2>4 DEF Chain
<1>7. ASSUME hi <= size, Whole(c, l, b, chunk, s2, s3, hi) PROVE Whole(c, l, w, s2, s3, <<>>, hi)
  <2>1. /\ l \in Nat /\ hi \in Nat /\ Len(c) \in Nat /\ Len(chunk) \in Nat /\ Len(s2) \in Nat /\ Len(s3) \in Nat
        /\ b.read_cursor + Unread(b) + Len(chunk) <= hi
    BY <1>1, <1>2, ChainFits
  <2>2. k = n
    <3>1. b.write_cursor + n <= hi
      BY <1>2, <1>5, <2>1
    <3>2. b.write_cursor + n <= size
      BY <1>2, <1>7, <2>1, <3>1
    <3>3. QED BY <1>1, <3>2
  <2>3. Unread(w) = Unread(b) + n /\ Len(chunk) = n /\ Len(<<>>) = 0
    BY <1>1, <1>5, <2>2
  <2>4. l + Len(c) + Unread(b) + Len(chunk) + Len(s2) + Len(s3) = hi
    BY <1>7 DEF Whole
  <2>5. l + Len(c) + (Unread(b) + n) + Len(s2) + Len(s3) + 0 = hi
    BY <1>1, <2>1, <2>3, <2>4
  <2>6. QED BY <2>3, <2>5 DEF Whole
<1>8. QED BY <1>6, <1>7 DEF w

\* The reader, who had nothing, takes the head of the window.
LEMMA ChainRead ==
  ASSUME NEW size \in Nat, NEW max \in Nat, NEW tasks, NEW b \in Buffers(size, 0..max, tasks),
         b.read_cursor <= b.write_cursor, ~NothingToRead(b), NEW n \in Nat \ {0},
         NEW l, NEW s1, NEW s2, NEW s3, NEW hi, Chain(<<>>, l, b, s1, s2, s3, hi)
  PROVE  LET c == SubSeq(Window(b), 1, ReadLen(b, n)) IN
         /\ Len(c) \in Nat \ {0}
         /\ Chain(c, l, Read(b, n), s1, s2, s3, hi)
         /\ Whole(<<>>, l, b, s1, s2, s3, hi) => Whole(c, l, Read(b, n), s1, s2, s3, hi)
<1>. DEFINE r == Read(b, n)
            k == ReadLen(b, n)
            c == SubSeq(Window(b), 1, k)
<1>1. /\ k \in 1..Unread(b) /\ r \in Buffers(size, 0..max, tasks)
      /\ r.read_cursor <= b.read_cursor + k /\ r.read_cursor <= r.write_cursor
      /\ Unread(r) = Unread(b) - k
      /\ \A i \in 1..Unread(r) : Window(r)[i] = Window(b)[k + i]
  BY ReadTakes
<1>2. /\ Window(b) \in Seq(Nat) /\ Len(Window(b)) = Unread(b) /\ Unread(b) \in Nat /\ b.read_cursor \in Nat
  BY WindowIsASequence
<1>3. /\ Window(r) \in Seq(Nat) /\ Len(Window(r)) = Unread(r) /\ Unread(r) \in Nat /\ r.read_cursor \in Nat
  BY <1>1, WindowIsASequence
<1>4. k \in Nat /\ k >= 1 /\ k <= Unread(b) /\ k \in 1..Len(Window(b))
  BY <1>1, <1>2
<1>5. c \in Seq(Nat) /\ Len(c) = k /\ \A i \in 1..k : c[i] = Window(b)[i]
  BY <1>2, <1>4, SubSeqProperties
<1>. HIDE DEF c, r, k
<1>6. Chain(c, l, r, s1, s2, s3, hi)
  <2>1. PICK m1, m2, m3, m4 \in Nat :
          /\ Ascends(<<>>, l, m1) /\ b.read_cursor <= m1 /\ Ascends(Window(b), m1, m2)
          /\ Ascends(s1, m2, m3) /\ Ascends(s2, m3, m4) /\ Ascends(s3, m4, hi)
    BY DEF Chain
  <2> DEFINE m == Window(b)[k]
  <2>2. Len(Window(r)) = Len(Window(b)) - k /\ \A i \in 1..Len(Window(r)) : Window(r)[i] = Window(b)[k + i]
    BY <1>1, <1>2, <1>3
  <2>3. Ascends(c, m1, m) /\ Ascends(Window(r), m, m2) /\ m \in Nat /\ m1 + k <= m
    BY <1>3, <1>4, <1>5, <2>1, <2>2, AscendApart
  <2>. HIDE DEF m
  <2>4. Ascends(c, l, m)
    <3>1. Len(<<>> \o c) = Len(<<>>) + Len(c) /\ <<>> \o c = c
      BY <1>5
    <3>2. QED BY <2>1, <2>3, <3>1, ConcatAscends
  <2>5. r.read_cursor <= m
    <3>1. b.read_cursor + k <= m1 + k
      BY <1>2, <1>4, <2>1
    <3>2. QED BY <1>1, <1>2, <1>3, <1>4, <2>3, <3>1
  <2>6. QED BY <2>1, <2>3, <2>4, <2>5 DEF Chain
<1>7. ASSUME Whole(<<>>, l, b, s1, s2, s3, hi) PROVE Whole(c, l, r, s1, s2, s3, hi)
  <2>1. l \in Nat /\ Len(s1) \in Nat /\ Len(s2) \in Nat /\ Len(s3) \in Nat
    BY <1>2, ChainFits
  <2>2. l + Len(<<>>) + Unread(b) + Len(s1) + Len(s2) + Len(s3) = hi /\ Len(<<>>) = 0
    BY <1>7 DEF Whole
  <2>3. l + k + (Unread(b) - k) + Len(s1) + Len(s2) + Len(s3) = hi
    BY <1>2, <1>4, <2>1, <2>2
  <2>4. QED BY <1>1, <1>5, <2>3 DEF Whole, r, k
<1>8. QED BY <1>4, <1>5, <1>6, <1>7 DEF c, r, k

\* The reader writes the first k of its bytes to its socket and forgets the others.
LEMMA ChainSent ==
  ASSUME NEW c, NEW l, NEW b, NEW s1, NEW s2, NEW s3, NEW hi, Chain(c, l, b, s1, s2, s3, hi),
         Len(Window(b)) = Unread(b), Unread(b) \in Nat, NEW k \in 1..Len(c)
  PROVE  /\ c[k] \in Nat /\ l + k <= c[k]
         /\ Chain(<<>>, c[k], b, s1, s2, s3, hi)
         /\ k = Len(c) /\ Whole(c, l, b, s1, s2, s3, hi) => Whole(<<>>, c[k], b, s1, s2, s3, hi)
<1>1. PICK m1, m2, m3, m4 \in Nat :
        /\ Ascends(c, l, m1) /\ b.read_cursor <= m1 /\ Ascends(Window(b), m1, m2)
        /\ Ascends(s1, m2, m3) /\ Ascends(s2, m3, m4) /\ Ascends(s3, m4, hi)
  BY DEF Chain
<1>2. /\ k \in Nat /\ k <= Len(c) /\ Len(c) \in Nat /\ c[k] \in Nat /\ l \in Nat
      /\ l + k <= c[k] /\ c[k] + (Len(c) - k) <= m1
  BY <1>1, Places
<1>3. c[k] <= m1
  BY <1>2
<1>4. Ascends(<<>>, c[k], m1)
  BY <1>2, <1>3, NothingAscends
<1>5. Chain(<<>>, c[k], b, s1, s2, s3, hi)
  BY <1>1, <1>4 DEF Chain
<1>6. ASSUME k = Len(c), Whole(c, l, b, s1, s2, s3, hi) PROVE Whole(<<>>, c[k], b, s1, s2, s3, hi)
  <2>1. /\ c[k] + Len(<<>>) + Unread(b) + Len(s1) + Len(s2) + Len(s3) <= hi /\ Len(<<>>) = 0 /\ hi \in Nat
        /\ Len(s1) \in Nat /\ Len(s2) \in Nat /\ Len(s3) \in Nat
    BY <1>5, ChainFits
  <2>2. l + Len(c) + Unread(b) + Len(s1) + Len(s2) + Len(s3) = hi
    BY <1>6 DEF Whole
  <2>3. c[k] + 0 + Unread(b) + Len(s1) + Len(s2) + Len(s3) = hi
    <3>1. /\ c[k] \in Nat /\ l \in Nat /\ Len(c) \in Nat /\ Unread(b) \in Nat /\ hi \in Nat
          /\ Len(s1) \in Nat /\ Len(s2) \in Nat /\ Len(s3) \in Nat
      BY <1>2, <2>1
    <3>2. l + Len(c) <= c[k]
      BY <1>2, <1>6
    <3>3. c[k] + 0 + Unread(b) + Len(s1) + Len(s2) + Len(s3) <= hi
      BY <2>1
    <3>4. PICK x \in Nat, n \in Nat, a \in Nat, d \in Nat, e \in Nat, f \in Nat :
            x = c[k] /\ n = Len(c) /\ a = Unread(b) /\ d = Len(s1) /\ e = Len(s2) /\ f = Len(s3)
      BY <3>1
    <3>5. l + n <= x /\ l + n + a + d + e + f = hi /\ x + 0 + a + d + e + f <= hi
      BY <2>2, <3>2, <3>3, <3>4
    <3>6. x + 0 + a + d + e + f = hi
      BY <3>1, <3>5
    <3>7. QED BY <3>4, <3>6
  <2>4. QED BY <2>1, <2>3 DEF Whole
<1>7. QED BY <1>2, <1>5, <1>6

\* The writer, who had nothing left, read up to a later byte.
LEMMA ChainLonger ==
  ASSUME NEW c, NEW l, NEW b, NEW hi, Chain(c, l, b, <<>>, <<>>, <<>>, hi),
         Len(Window(b)) = Unread(b), Unread(b) \in Nat,
         NEW s, NEW longer, Ascends(s, hi, longer)
  PROVE  /\ Chain(c, l, b, s, <<>>, <<>>, longer)
         /\ Whole(c, l, b, <<>>, <<>>, <<>>, hi) /\ Len(s) = longer - hi =>
              Whole(c, l, b, s, <<>>, <<>>, longer)
<1>1. PICK m1, m2, m3, m4 \in Nat :
        /\ Ascends(c, l, m1) /\ b.read_cursor <= m1 /\ Ascends(Window(b), m1, m2)
        /\ Ascends(<<>>, m2, m3) /\ Ascends(<<>>, m3, m4) /\ Ascends(<<>>, m4, hi)
  BY DEF Chain
<1>2. m2 <= m3 /\ m3 <= m4 /\ m4 <= hi /\ hi \in Nat /\ longer \in Nat
  BY <1>1 DEF Ascends
<1>3. Ascends(Window(b), m1, hi)
  <2>1. m2 <= hi
    BY <1>2
  <2>2. QED BY <1>1, <1>2, <2>1, AscendsFurther
<1>4. Ascends(<<>>, longer, longer)
  BY <1>2, NothingAscends
<1>5. Chain(c, l, b, s, <<>>, <<>>, longer)
  BY <1>1, <1>2, <1>3, <1>4 DEF Chain
<1>6. ASSUME Whole(c, l, b, <<>>, <<>>, <<>>, hi), Len(s) = longer - hi
      PROVE  Whole(c, l, b, s, <<>>, <<>>, longer)
  <2>1. l \in Nat /\ Len(c) \in Nat /\ Len(s) \in Nat
    BY <1>5, ChainFits
  <2>2. l + Len(c) + Unread(b) + Len(<<>>) + Len(<<>>) + Len(<<>>) = hi /\ Len(<<>>) = 0
    BY <1>6 DEF Whole
  <2>3. l + Len(c) + Unread(b) + Len(s) + 0 + 0 = longer
    BY <1>2, <1>6, <2>1, <2>2
  <2>4. QED BY <2>2, <2>3 DEF Whole
<1>7. QED BY <1>5, <1>6

\* Where nothing was sent there is nothing, and the slices of a head can begin.
LEMMA ChainBegins ==
  ASSUME NEW c, NEW l, NEW b, NEW s1, NEW s2, NEW s3, Chain(c, l, b, s1, s2, s3, 0),
         Len(Window(b)) = Unread(b), Unread(b) \in Nat
  PROVE  /\ l = 0 /\ c = <<>> /\ Len(s1) = 0 /\ Len(s2) = 0 /\ Len(s3) = 0
         /\ \A r1, r2, r3, h1, h2, hi :
              Ascends(r1, 0, h1) /\ Ascends(r2, h1, h2) /\ Ascends(r3, h2, hi) =>
                /\ Chain(c, l, b, r1, r2, r3, hi)
                /\ Len(r1) = h1 /\ Len(r2) = h2 - h1 /\ Len(r3) = hi - h2 => Whole(c, l, b, r1, r2, r3, hi)
<1>1. PICK m1, m2, m3, m4 \in Nat :
        /\ Ascends(c, l, m1) /\ b.read_cursor <= m1 /\ Ascends(Window(b), m1, m2)
        /\ Ascends(s1, m2, m3) /\ Ascends(s2, m3, m4) /\ Ascends(s3, m4, 0)
  BY DEF Chain
<1>2. /\ l \in Nat /\ Len(c) \in Nat /\ Len(s1) \in Nat /\ Len(s2) \in Nat /\ Len(s3) \in Nat
      /\ l + Len(c) + Unread(b) + Len(s1) + Len(s2) + Len(s3) <= 0
  BY ChainFits
<1>3. l = 0 /\ Len(c) = 0 /\ Unread(b) = 0 /\ Len(s1) = 0 /\ Len(s2) = 0 /\ Len(s3) = 0
  BY <1>2
<1>4. m1 + Unread(b) <= m2 /\ m2 + Len(s1) <= m3 /\ m3 + Len(s2) <= m4 /\ m4 + Len(s3) <= 0
  BY <1>1 DEF Ascends
<1>5. m1 = 0 /\ m2 = 0
  BY <1>3, <1>4
<1>6. c = <<>>
  <2>1. c \in Seq(Nat)
    BY <1>1 DEF Ascends
  <2>2. QED BY <1>3, <2>1
<1>7. ASSUME NEW r1, NEW r2, NEW r3, NEW h1, NEW h2, NEW hi,
             Ascends(r1, 0, h1), Ascends(r2, h1, h2), Ascends(r3, h2, hi)
      PROVE  /\ Chain(c, l, b, r1, r2, r3, hi)
             /\ Len(r1) = h1 /\ Len(r2) = h2 - h1 /\ Len(r3) = hi - h2 => Whole(c, l, b, r1, r2, r3, hi)
  <2>1. h1 \in Nat /\ h2 \in Nat /\ hi \in Nat
    BY <1>7 DEF Ascends
  <2>2. Chain(c, l, b, r1, r2, r3, hi)
    BY <1>1, <1>5, <1>7, <2>1 DEF Chain
  <2>3. ASSUME Len(r1) = h1, Len(r2) = h2 - h1, Len(r3) = hi - h2 PROVE Whole(c, l, b, r1, r2, r3, hi)
    <3>1. 0 + 0 + 0 + h1 + (h2 - h1) + (hi - h2) = hi
      BY <2>1
    <3>2. QED BY <1>3, <2>3, <3>1 DEF Whole
  <2>4. QED BY <2>2, <2>3
<1>8. QED BY <1>3, <1>6, <1>7

\* What a chain says of the bytes one behind the other.
LEMMA ChainInARow ==
  ASSUME NEW c, NEW l, NEW b, NEW s1, NEW s2, NEW s3, NEW hi, Chain(c, l, b, s1, s2, s3, hi)
  PROVE  /\ Ascends(c \o Window(b) \o (s1 \o s2 \o s3), l, hi)
         /\ Len(c \o Window(b) \o (s1 \o s2 \o s3)) =
              (Len(c) + Len(Window(b))) + ((Len(s1) + Len(s2)) + Len(s3))
<1>1. PICK m1, m2, m3, m4 \in Nat :
        /\ Ascends(c, l, m1) /\ b.read_cursor <= m1 /\ Ascends(Window(b), m1, m2)
        /\ Ascends(s1, m2, m3) /\ Ascends(s2, m3, m4) /\ Ascends(s3, m4, hi)
  BY DEF Chain
<1>2. Ascends(c \o Window(b), l, m2) /\ Len(c \o Window(b)) = Len(c) + Len(Window(b))
  BY <1>1, ConcatAscends
<1>3. Ascends(s1 \o s2, m2, m4) /\ Len(s1 \o s2) = Len(s1) + Len(s2)
  BY <1>1, ConcatAscends
<1>4. Ascends(s1 \o s2 \o s3, m2, hi) /\ Len(s1 \o s2 \o s3) = Len(s1 \o s2) + Len(s3)
  BY <1>1, <1>3, ConcatAscends
<1>5. /\ Ascends((c \o Window(b)) \o (s1 \o s2 \o s3), l, hi)
      /\ Len((c \o Window(b)) \o (s1 \o s2 \o s3)) = Len(c \o Window(b)) + Len(s1 \o s2 \o s3)
  BY <1>2, <1>4, ConcatAscends
<1>6. QED BY <1>2, <1>3, <1>4, <1>5

-------------------------------------------------------------------------------
\* The inductive invariant.

Domains ==
  /\ DOMAIN buf = Dirs /\ DOMAIN todo = Tasks /\ carry \in [Tasks -> Seq(Nat)]
  /\ pc \in [Tasks -> {"heads", "write", "select", "socket", "closing", "done"}]
  /\ got \in [Tasks -> Nat] /\ sent \in [Tasks -> Nat] /\ last \in [Tasks -> Nat]
  /\ queued \in [Tasks -> 0..SockCap]
  /\ asleep \subseteq Tasks /\ closed \subseteq Tasks /\ shut \subseteq Tasks

\* The head of the response is read, by the first loop of the task "cluster" only; if
\* that loop ended too early and undisturbed, then the backend had closed.
HeadInv ==
  /\ answered \in BOOLEAN /\ tried \in Nat /\ tried <= got["cluster"]
  /\ kept \in 0..HeadLen /\ (kept = 0 \/ kept >= StatusLen) /\ kept <= got["cluster"]
  /\ pc["client"] # "heads" /\ (pc["cluster"] = "heads" => ~answered)
  /\ ~answered => pc["cluster"] \in {"heads", "socket", "done"} /\ kept < HeadLen
  /\ answered /\ kept < HeadLen /\ tried = 0 => pc["cluster"] = "done" \/ SocketEof("cluster")

\* A task and the buffer it writes.
Own(t) ==
  /\ buf[Out(t)] \in Buffers(SizeOf(Out(t)), 0..MaxBytes, Tasks)
  /\ buf[Out(t)].read_cursor <= buf[Out(t)].write_cursor
  /\ buf[Out(t)].read_cursor = buf[Out(t)].write_cursor => buf[Out(t)].write_cursor = 0
  /\ buf[Out(t)].is_shutdown => t = "client" /\ pc[t] \in {"closing", "done"}
  /\ todo[t] \in Seq((1..(MaxBytes + 1)) \X (0..MaxBytes)) /\ Len(todo[t]) <= 3
  /\ \A i \in 1..Len(todo[t]) : todo[t][i][1] <= todo[t][i][2] + 1
  /\ got[t] <= sent[t] /\ sent[t] <= MaxSent(t) /\ queued[t] <= last[t]
  /\ pc[t] = "write" <=> todo[t] # <<>>
  /\ pc[t] \notin {"socket", "done"} => carry[t] = <<>>
  /\ pc[t] = "socket" => carry[t] # <<>>

\* The last byte that t has accepted to bring to the other side.
Base(t) ==
  IF t = "cluster" /\ ~answered THEN 0
  ELSE IF t = "cluster" /\ kept < HeadLen /\ tried = 0 THEN kept ELSE got[t]

\* What is not cut on its way from t.
Short(t) ==
  got[t] <= SizeOf(Out(t)) /\ got[t] <= SockCap /\ (t = "cluster" => tried = 0)

\* What t brings is on its way in one chain, from which nothing short is missing.
Flow(t) ==
  /\ Chain(carry[Peer(t)], last[Peer(t)], buf[Out(t)], Slice(t, 1), Slice(t, 2), Slice(t, 3), Base(t))
  /\ Short(t) =>
       Whole(carry[Peer(t)], last[Peer(t)], buf[Out(t)], Slice(t, 1), Slice(t, 2), Slice(t, 3), Base(t))

\* SleepersAreRegistered, of one task.
Sleeper(t) ==
  t \in asleep =>
    /\ pc[t] \in {"select", "heads"} =>
         /\ Available(t) = 0 /\ t \notin closed
         /\ NothingToRead(buf[In(t)])
         /\ buf[In(t)].waker = t
    /\ pc[t] = "write" => Full(buf[Out(t)]) /\ buf[Out(t)].waker = t
    /\ pc[t] = "socket" => queued[t] = SockCap

IInv == Domains /\ HeadInv /\ \A t \in Tasks : Own(t) /\ Flow(t) /\ Sleeper(t)

LEMMA Constants ==
  /\ UpSize \in Nat \ {0} /\ DownSize \in Nat \ {0} /\ Room \in Nat \ {0} /\ SockCap \in Nat \ {0}
  /\ StatusLen \in Nat \ {0} /\ HeadLen \in Nat \ {0} /\ StatusLen <= HeadLen /\ HeadLen <= MaxUp
  /\ MaxUp \in Nat /\ MaxDown \in Nat /\ MaxBytes \in Nat /\ HeadLen <= MaxBytes
  /\ MaxUp <= MaxBytes /\ MaxDown <= MaxBytes
BY SizesAssumption DEF MaxBytes

LEMMA TwoTasks ==
  ASSUME NEW t \in Tasks
  PROVE  /\ Peer(t) \in Tasks /\ Peer(t) # t /\ Peer(Peer(t)) = t /\ Tasks = {t, Peer(t)}
         /\ In(t) = Out(Peer(t)) /\ In(Peer(t)) = Out(t) /\ Out(t) # Out(Peer(t))
         /\ Out(t) \in Dirs /\ Out(Peer(t)) \in Dirs
         /\ MaxSent(t) \in Nat /\ MaxSent(t) <= MaxBytes /\ SizeOf(Out(t)) \in Nat \ {0}
         /\ t = "client" <=> Peer(t) = "cluster"
         /\ t = "cluster" <=> Peer(t) = "client"
BY Constants DEF Tasks, Peer, In, Out, Dirs, MaxSent, SizeOf

\* What the invariant says of a task, in numbers.
LEMMA Numbers ==
  ASSUME IInv, NEW t \in Tasks
  PROVE  /\ got[t] \in Nat /\ sent[t] \in Nat /\ got[t] <= sent[t] /\ sent[t] <= MaxBytes
         /\ last[t] \in Nat /\ queued[t] \in Nat /\ queued[t] <= SockCap /\ queued[t] <= last[t]
         /\ carry[t] \in Seq(Nat) /\ Len(carry[t]) \in Nat
         /\ Base(t) \in Nat /\ Base(t) <= got[t]
         /\ Len(Window(buf[Out(t)])) = Unread(buf[Out(t)]) /\ Unread(buf[Out(t)]) \in Nat
<1>1. /\ got[t] \in Nat /\ sent[t] \in Nat /\ last[t] \in Nat /\ queued[t] \in 0..SockCap /\ SockCap \in Nat
      /\ carry[t] \in Seq(Nat) /\ Len(carry[t]) \in Nat
  BY Constants DEF IInv, Domains
<1>2. Own(t)
  BY DEF IInv
<1>3. sent[t] <= MaxBytes
  BY <1>1, <1>2, TwoTasks, Constants DEF Own
<1>4. Base(t) \in Nat /\ Base(t) <= got[t]
  BY <1>1, Constants DEF IInv, HeadInv, Base
<1>5. Len(Window(buf[Out(t)])) = Unread(buf[Out(t)]) /\ Unread(buf[Out(t)]) \in Nat
  <2>1. SizeOf(Out(t)) \in Nat /\ MaxBytes \in Nat
    BY TwoTasks, Constants
  <2>2. QED BY <1>2, <2>1, WindowIsASequence DEF Own
<1>6. QED BY <1>1, <1>2, <1>3, <1>4, <1>5 DEF Own

\* A buffer that its writer has not shut down is not full and empty at once.
LEMMA FullIsNotEmpty ==
  ASSUME NEW t \in Tasks, Own(t), ~buf[Out(t)].is_shutdown
  PROVE  ~(Full(buf[Out(t)]) /\ NothingToRead(buf[Out(t)]))
<1>1. /\ buf[Out(t)].size = SizeOf(Out(t)) /\ SizeOf(Out(t)) \in Nat \ {0}
      /\ buf[Out(t)].read_cursor \in Nat /\ buf[Out(t)].write_cursor \in Nat
  BY TwoTasks, FieldsOf DEF Own
<1>2. QED BY <1>1 DEF Own, Full, NothingToRead

\* The methods on the buffer of a task.
LEMMA WriteOfATask ==
  ASSUME NEW t \in Tasks, Own(t), NEW n \in Nat, NEW chunk \in [1..n -> 0..MaxBytes]
  PROVE  LET b == buf[Out(t)] IN
         /\ Write(b, n, chunk) \in Buffers(SizeOf(Out(t)), 0..MaxBytes, Tasks)
         /\ Write(b, n, chunk).is_shutdown = b.is_shutdown
         /\ Write(b, n, chunk).read_cursor = b.read_cursor
         /\ Write(b, n, chunk).write_cursor = b.write_cursor + WriteLen(b, n)
         /\ WriteLen(b, n) \in 0..n
<1>. DEFINE Effect(size, bytes, tasks, b, m, c) ==
              /\ Write(b, m, c) \in Buffers(size, bytes, tasks)
              /\ Write(b, m, c).is_shutdown = b.is_shutdown
              /\ Write(b, m, c).read_cursor = b.read_cursor
              /\ Write(b, m, c).write_cursor = b.write_cursor + WriteLen(b, m)
              /\ WriteLen(b, m) \in 0..m
<1>1. ASSUME NEW size \in Nat, NEW bytes, NEW tasks, NEW b \in Buffers(size, bytes, tasks),
             b.read_cursor <= b.write_cursor, NEW m \in Nat, NEW c \in [1..m -> bytes]
      PROVE  Effect(size, bytes, tasks, b, m, c)
  BY <1>1, WriteAppends
<1>. HIDE DEF Effect
<1>2. Effect(SizeOf(Out(t)), 0..MaxBytes, Tasks, buf[Out(t)], n, chunk)
  BY <1>1, TwoTasks DEF Own
<1>3. QED BY <1>2 DEF Effect

LEMMA ReadOfATask ==
  ASSUME NEW t \in Tasks, Own(t), ~NothingToRead(buf[Out(t)])
  PROVE  LET b == buf[Out(t)] IN
         /\ Read(b, Room) \in Buffers(SizeOf(Out(t)), 0..MaxBytes, Tasks)
         /\ Read(b, Room).is_shutdown = b.is_shutdown
         /\ Read(b, Room).read_cursor <= Read(b, Room).write_cursor
         /\ Read(b, Room).read_cursor = Read(b, Room).write_cursor => Read(b, Room).write_cursor = 0
<1>. DEFINE Effect(size, bytes, tasks, b, n) ==
              /\ Read(b, n) \in Buffers(size, bytes, tasks)
              /\ Read(b, n).is_shutdown = b.is_shutdown
              /\ Read(b, n).read_cursor <= Read(b, n).write_cursor
              /\ Read(b, n).read_cursor = Read(b, n).write_cursor => Read(b, n).write_cursor = 0
<1>1. ASSUME NEW size \in Nat, NEW bytes, NEW tasks, NEW b \in Buffers(size, bytes, tasks),
             ~NothingToRead(b), NEW n \in Nat \ {0}
      PROVE  Effect(size, bytes, tasks, b, n)
  BY <1>1, ReadTakes
<1>. HIDE DEF Effect
<1>2. Effect(SizeOf(Out(t)), 0..MaxBytes, Tasks, buf[Out(t)], Room)
  BY <1>1, TwoTasks, Constants DEF Own
<1>3. QED BY <1>2 DEF Effect

LEMMA OthersOfATask ==
  ASSUME NEW t \in Tasks, Own(t), NEW u \in Tasks
  PROVE  LET b == buf[Out(t)] IN
         /\ Park(b, u) \in Buffers(SizeOf(Out(t)), 0..MaxBytes, Tasks)
         /\ Like(b, Park(b, u)) /\ Park(b, u).waker = u
         /\ Drop(b, u) \in Buffers(SizeOf(Out(t)), 0..MaxBytes, Tasks)
         /\ Like(b, Drop(b, u)) /\ Drop(b, u).waker = b.waker
         /\ Shutdown(b) \in Buffers(SizeOf(Out(t)), 0..MaxBytes, Tasks)
         /\ Shutdown(b).is_shutdown = TRUE /\ Shutdown(b).data = b.data
         /\ Shutdown(b).read_cursor = b.read_cursor /\ Shutdown(b).write_cursor = b.write_cursor
<1>. DEFINE Effect(size, bytes, tasks, b, v) ==
              /\ Park(b, v) \in Buffers(size, bytes, tasks)
              /\ Like(b, Park(b, v)) /\ Park(b, v).waker = v
              /\ Drop(b, v) \in Buffers(size, bytes, tasks)
              /\ Like(b, Drop(b, v)) /\ Drop(b, v).waker = b.waker
              /\ Shutdown(b) \in Buffers(size, bytes, tasks)
              /\ Shutdown(b).is_shutdown = TRUE /\ Shutdown(b).data = b.data
              /\ Shutdown(b).read_cursor = b.read_cursor /\ Shutdown(b).write_cursor = b.write_cursor
<1>1. ASSUME NEW size, NEW bytes, NEW tasks, NEW b \in Buffers(size, bytes, tasks), NEW v \in tasks
      PROVE  Effect(size, bytes, tasks, b, v)
  <2>1. /\ Park(b, v) \in Buffers(size, bytes, tasks) /\ Like(b, Park(b, v)) /\ Park(b, v).waker = v
        /\ Drop(b, v) \in Buffers(size, bytes, tasks) /\ Like(b, Drop(b, v)) /\ Drop(b, v).waker = b.waker
    BY <1>1, ParkAndDrop
  <2>2. /\ Shutdown(b) \in Buffers(size, bytes, tasks)
        /\ Shutdown(b).is_shutdown = TRUE /\ Shutdown(b).data = b.data
        /\ Shutdown(b).read_cursor = b.read_cursor /\ Shutdown(b).write_cursor = b.write_cursor
    BY DEF Buffers, Shutdown
  <2>3. QED BY <2>1, <2>2
<1>. HIDE DEF Effect
<1>2. Effect(SizeOf(Out(t)), 0..MaxBytes, Tasks, buf[Out(t)], u)
  BY <1>1 DEF Own
<1>3. QED BY <1>2 DEF Effect

\* A task that did nothing, with the bytes of its buffer where they were.
LEMMA OwnKept ==
  ASSUME NEW t \in Tasks, Own(t), pc'[t] = pc[t], todo'[t] = todo[t], carry'[t] = carry[t],
         got'[t] = got[t], sent'[t] = sent[t], queued'[t] = queued[t], last'[t] = last[t],
         Like(buf[Out(t)], buf'[Out(t)]),
         buf'[Out(t)] \in Buffers(SizeOf(Out(t)), 0..MaxBytes, Tasks)
  PROVE  Own(t)'
BY DEF Own, Like

LEMMA FlowKept ==
  ASSUME NEW t \in Tasks, Flow(t), todo'[t] = todo[t], carry'[Peer(t)] = carry[Peer(t)],
         last'[Peer(t)] = last[Peer(t)], Like(buf[Out(t)], buf'[Out(t)]),
         Base(t)' = Base(t), Short(t)' => Short(t)
  PROVE  Flow(t)'
<1>1. Slice(t, 1)' = Slice(t, 1) /\ Slice(t, 2)' = Slice(t, 2) /\ Slice(t, 3)' = Slice(t, 3)
  BY DEF Slice
<1>2. Chain(carry[Peer(t)], last[Peer(t)], buf'[Out(t)], Slice(t, 1), Slice(t, 2), Slice(t, 3), Base(t))
  BY ChainLike DEF Flow
<1>3. Short(t)' => Whole(carry[Peer(t)], last[Peer(t)], buf'[Out(t)], Slice(t, 1), Slice(t, 2), Slice(t, 3), Base(t))
  BY ChainLike DEF Flow
<1>4. QED BY <1>1, <1>2, <1>3 DEF Flow

\* A task that did nothing, and is asleep if it was and its buffers let it.
LEMMA SleeperKept ==
  ASSUME NEW t \in Tasks, Sleeper(t), t \in asleep' => t \in asleep,
         pc'[t] = pc[t], got'[t] = got[t],
         t \in asleep' /\ pc[t] \in {"select", "heads"} =>
           /\ sent'[t] = sent[t] /\ (t \in closed' => t \in closed)
           /\ Like(buf[In(t)], buf'[In(t)]) /\ buf'[In(t)].waker = buf[In(t)].waker,
         t \in asleep' /\ pc[t] = "write" =>
           Like(buf[Out(t)], buf'[Out(t)]) /\ buf'[Out(t)].waker = buf[Out(t)].waker,
         t \in asleep' /\ pc[t] = "socket" => queued'[t] = queued[t]
  PROVE  Sleeper(t)'
<1>. SUFFICES ASSUME t \in asleep' PROVE Sleeper(t)'
  BY DEF Sleeper
<1>1. pc[t] \in {"select", "heads"} =>
        /\ Available(t)' = 0 /\ t \notin closed' /\ NothingToRead(buf'[In(t)]) /\ buf'[In(t)].waker = t
  BY DEF Sleeper, Available, NothingToRead, Like
<1>2. pc[t] = "write" => Full(buf'[Out(t)]) /\ buf'[Out(t)].waker = t
  BY DEF Sleeper, Full, Like
<1>3. pc[t] = "socket" => queued'[t] = SockCap
  BY DEF Sleeper
<1>4. QED BY <1>1, <1>2, <1>3 DEF Sleeper

LEMMA LikeItself == \A b : Like(b, b)
BY DEF Like

\* All that has to be shown of a step of a task.
LEMMA BothTasks ==
  ASSUME NEW t \in Tasks, Domains', HeadInv', Own(t)', Own(Peer(t))', Flow(t)', Flow(Peer(t))',
         Sleeper(t)', Sleeper(Peer(t))'
  PROVE  IInv'
<1>1. Tasks = {t, Peer(t)}
  BY TwoTasks
<1>2. QED BY <1>1 DEF IInv

-------------------------------------------------------------------------------
\* The steps.

\* The slices of what is left when the first one is written.
LEMMA SlicesShift ==
  ASSUME NEW t \in Tasks, Own(t), todo[t] # <<>>, todo'[t] = Tail(todo[t])
  PROVE  /\ Slice(t, 1)' = Slice(t, 2) /\ Slice(t, 2)' = Slice(t, 3) /\ Slice(t, 3)' = <<>>
         /\ todo'[t] \in Seq((1..(MaxBytes + 1)) \X (0..MaxBytes)) /\ Len(todo'[t]) <= 3
         /\ \A i \in 1..Len(todo'[t]) : todo'[t][i][1] <= todo'[t][i][2] + 1
         /\ todo'[t] = <<>> <=> Len(todo[t]) = 1
<1>1. /\ todo[t] \in Seq((1..(MaxBytes + 1)) \X (0..MaxBytes)) /\ Len(todo[t]) <= 3
      /\ Len(todo[t]) \in Nat
  BY DEF Own
<1>2. /\ todo'[t] \in Seq((1..(MaxBytes + 1)) \X (0..MaxBytes)) /\ Len(todo'[t]) = Len(todo[t]) - 1
      /\ \A i \in 1..(Len(todo[t]) - 1) : todo'[t][i] = todo[t][i + 1]
      /\ Len(todo[t]) >= 1
  BY <1>1
<1>3. todo'[t] = <<>> <=> Len(todo[t]) = 1
  <2>1. todo'[t] = <<>> <=> Len(todo'[t]) = 0
    BY <1>2, EmptySeq
  <2>2. QED BY <1>1, <1>2, <2>1
<1>4. \A i \in 1..Len(todo'[t]) : i + 1 \in 1..Len(todo[t]) /\ todo'[t][i] = todo[t][i + 1]
  BY <1>1, <1>2
<1>5. \A i \in 1..Len(todo'[t]) : todo'[t][i][1] <= todo'[t][i][2] + 1
  BY <1>4 DEF Own
<1>6. /\ 1 \in 1..Len(todo'[t]) <=> 2 \in 1..Len(todo[t])
      /\ 2 \in 1..Len(todo'[t]) <=> 3 \in 1..Len(todo[t])
      /\ 3 \notin 1..Len(todo'[t])
  BY <1>1, <1>2
<1>7. /\ 1 \in 1..Len(todo'[t]) => todo'[t][1] = todo[t][2]
      /\ 2 \in 1..Len(todo'[t]) => todo'[t][2] = todo[t][3]
  BY <1>4
<1>8. Slice(t, 1)' = Slice(t, 2) /\ Slice(t, 2)' = Slice(t, 3) /\ Slice(t, 3)' = <<>>
  BY <1>6, <1>7 DEF Slice
<1>9. QED BY <1>1, <1>2, <1>3, <1>5, <1>8

\* The slice at the head, as the bytes it stands for.
LEMMA FirstSlice ==
  ASSUME NEW t \in Tasks, Own(t), todo[t] # <<>>
  PROVE  LET n == Head(todo[t])[2] - Head(todo[t])[1] + 1 IN
         /\ n \in Nat
         /\ Slice(t, 1) = [k \in 1..n |-> Head(todo[t])[1] + k - 1]
         /\ Slice(t, 1) \in [1..n -> 0..MaxBytes]
<1>. DEFINE first == todo[t][1][1]
            upto  == todo[t][1][2]
            n == upto - first + 1
<1>1. 1 \in 1..Len(todo[t]) /\ Head(todo[t]) = todo[t][1] /\ todo[t][1] \in (1..(MaxBytes + 1)) \X (0..MaxBytes)
  BY DEF Own
<1>2. first \in 1..(MaxBytes + 1) /\ upto \in 0..MaxBytes /\ MaxBytes \in Nat /\ first <= upto + 1
  BY <1>1, Constants DEF Own
<1>. HIDE DEF first, upto
<1>3. n \in Nat
  BY <1>2
<1>4. \A k \in 1..n : first + k - 1 \in 0..MaxBytes
  BY <1>2
<1>5. Slice(t, 1) = [k \in 1..n |-> first + k - 1]
  BY <1>1 DEF Slice, first, upto
<1>6. QED BY <1>1, <1>3, <1>4, <1>5 DEF first, upto

LEMMA PipeWriteIInv ==
  ASSUME IInv, NEW t \in Tasks, PipeWrite(t)
  PROVE  IInv'
<1>. DEFINE p == Peer(t)
            b == buf[Out(t)]
            n == Head(todo[t])[2] - Head(todo[t])[1] + 1
            chunk == Slice(t, 1)
<1>1. /\ Domains /\ HeadInv /\ Own(t) /\ Own(p) /\ Flow(t) /\ Flow(p) /\ Sleeper(t) /\ Sleeper(p)
  BY TwoTasks DEF IInv
<1>2. /\ p \in Tasks /\ p # t /\ Peer(p) = t /\ Tasks = {t, p} /\ In(p) = Out(t) /\ Out(t) # Out(p)
      /\ Out(t) \in Dirs /\ Out(p) \in Dirs /\ SizeOf(Out(t)) \in Nat /\ MaxBytes \in Nat
  BY TwoTasks, Constants
<1>3. pc[t] = "write" /\ t \notin asleep /\ todo[t] # <<>>
  BY <1>1 DEF PipeWrite, Runs, Own
<1>4. n \in Nat /\ chunk = [k \in 1..n |-> Head(todo[t])[1] + k - 1] /\ chunk \in [1..n -> 0..MaxBytes]
  BY <1>1, <1>3, FirstSlice
<1>5. /\ buf' = [buf EXCEPT ![Out(t)] = Write(@, n, chunk)]
      /\ asleep' = asleep \ {b.waker}
      /\ todo' = [todo EXCEPT ![t] = Tail(@)]
      /\ pc' = [pc EXCEPT ![t] = IF Len(todo[t]) = 1 THEN "select" ELSE @]
      /\ UNCHANGED <<carry, answered, tried, kept, got, sent, closed, queued, last, shut>>
  BY <1>4 DEF PipeWrite, Woken, headers, remote
<1>. HIDE DEF n, chunk
<1>6. /\ buf'[Out(t)] = Write(b, n, chunk) /\ buf'[Out(p)] = buf[Out(p)] /\ DOMAIN buf' = Dirs
      /\ todo'[t] = Tail(todo[t]) /\ todo'[p] = todo[p] /\ DOMAIN todo' = Tasks
      /\ pc'[t] = (IF Len(todo[t]) = 1 THEN "select" ELSE "write") /\ pc'[p] = pc[p]
      /\ pc' \in [Tasks -> {"heads", "write", "select", "socket", "closing", "done"}]
  BY <1>1, <1>2, <1>3, <1>5 DEF Domains
<1>7. /\ b \in Buffers(SizeOf(Out(t)), 0..MaxBytes, Tasks) /\ b.read_cursor <= b.write_cursor
  BY <1>1 DEF Own
<1>8. Domains'
  BY <1>1, <1>5, <1>6 DEF Domains
<1>9. HeadInv'
  BY <1>1, <1>2, <1>3, <1>5, <1>6 DEF HeadInv, SocketEof, Available, Tasks
<1>10. Own(t)'
  <2>1. /\ Write(b, n, chunk) \in Buffers(SizeOf(Out(t)), 0..MaxBytes, Tasks)
        /\ Write(b, n, chunk).is_shutdown = b.is_shutdown
        /\ Write(b, n, chunk).read_cursor = b.read_cursor
        /\ Write(b, n, chunk).write_cursor = b.write_cursor + WriteLen(b, n)
        /\ WriteLen(b, n) \in 0..n
    BY <1>1, <1>4, WriteOfATask
  <2>2. b.write_cursor \in Nat /\ b.read_cursor \in Nat
    BY <1>2, <1>7, FieldsOf
  <2>3. ~b.is_shutdown /\ (b.read_cursor = b.write_cursor => b.write_cursor = 0)
    BY <1>1, <1>3 DEF Own
  <2>4. /\ buf'[Out(t)].read_cursor <= buf'[Out(t)].write_cursor
        /\ buf'[Out(t)].read_cursor = buf'[Out(t)].write_cursor => buf'[Out(t)].write_cursor = 0
    BY <1>4, <1>6, <1>7, <2>1, <2>2, <2>3
  <2>5. /\ todo'[t] \in Seq((1..(MaxBytes + 1)) \X (0..MaxBytes)) /\ Len(todo'[t]) <= 3
        /\ \A i \in 1..Len(todo'[t]) : todo'[t][i][1] <= todo'[t][i][2] + 1
        /\ todo'[t] = <<>> <=> Len(todo[t]) = 1
    BY <1>1, <1>3, <1>6, SlicesShift
  <2>6. carry[t] = <<>> /\ got'[t] = got[t] /\ sent'[t] = sent[t] /\ queued'[t] = queued[t] /\ last'[t] = last[t] /\ carry'[t] = carry[t]
    BY <1>1, <1>3, <1>5 DEF Own
  <2>7. got[t] <= sent[t] /\ sent[t] <= MaxSent(t) /\ queued[t] <= last[t]
    BY <1>1 DEF Own
  <2>8. QED BY <1>6, <2>1, <2>3, <2>4, <2>5, <2>6, <2>7 DEF Own
<1>11. Own(p)'
  <2>1. buf'[Out(p)] \in Buffers(SizeOf(Out(p)), 0..MaxBytes, Tasks)
    BY <1>1, <1>6 DEF Own
  <2>2. QED BY <1>1, <1>2, <1>5, <1>6, <2>1, OwnKept, LikeItself
<1>12. Base(t)' = Base(t) /\ Base(p)' = Base(p) /\ (Short(t)' <=> Short(t)) /\ (Short(p)' <=> Short(p))
  BY <1>5 DEF Base, Short
<1>13. Flow(t)'
  <2>1. /\ Chain(carry[p], last[p], b, chunk, Slice(t, 2), Slice(t, 3), Base(t))
        /\ Short(t) => Whole(carry[p], last[p], b, chunk, Slice(t, 2), Slice(t, 3), Base(t))
    BY <1>1 DEF Flow, chunk
  <2>2. /\ Chain(carry[p], last[p], Write(b, n, chunk), Slice(t, 2), Slice(t, 3), <<>>, Base(t))
        /\ Base(t) <= SizeOf(Out(t)) /\ Whole(carry[p], last[p], b, chunk, Slice(t, 2), Slice(t, 3), Base(t)) =>
             Whole(carry[p], last[p], Write(b, n, chunk), Slice(t, 2), Slice(t, 3), <<>>, Base(t))
    BY <1>2, <1>4, <1>7, <2>1, ChainWritten
  <2>3. Slice(t, 1)' = Slice(t, 2) /\ Slice(t, 2)' = Slice(t, 3) /\ Slice(t, 3)' = <<>>
    BY <1>1, <1>3, <1>6, SlicesShift
  <2>4. Short(t) => Base(t) <= SizeOf(Out(t))
    BY <1>2, Numbers DEF Short
  <2>5. QED BY <1>5, <1>6, <1>12, <2>1, <2>2, <2>3, <2>4 DEF Flow
<1>14. Flow(p)'
  BY <1>1, <1>2, <1>5, <1>6, <1>12, FlowKept, LikeItself
<1>15. Sleeper(t)'
  BY <1>3, <1>5 DEF Sleeper
<1>16. Sleeper(p)'
  <2>1. p \in asleep' /\ pc[p] \in {"select", "heads"} => FALSE
    BY <1>1, <1>2, <1>5 DEF Sleeper
  <2>2. QED BY <1>1, <1>2, <1>5, <1>6, <2>1, SleeperKept, LikeItself
<1>17. QED BY <1>8, <1>9, <1>10, <1>11, <1>13, <1>14, <1>15, <1>16, BothTasks

\* What a step of t can rely on.
LEMMA Before ==
  ASSUME IInv, NEW t \in Tasks
  PROVE  /\ Domains /\ HeadInv /\ Own(t) /\ Own(Peer(t)) /\ Flow(t) /\ Flow(Peer(t))
         /\ Sleeper(t) /\ Sleeper(Peer(t))
         /\ Peer(t) \in Tasks /\ Peer(t) # t /\ Peer(Peer(t)) = t /\ Tasks = {t, Peer(t)}
         /\ In(t) = Out(Peer(t)) /\ In(Peer(t)) = Out(t) /\ Out(t) # Out(Peer(t))
         /\ Out(t) \in Dirs /\ Out(Peer(t)) \in Dirs /\ Dirs = {Out(t), Out(Peer(t))}
<1>1. Dirs = {Out(t), Out(Peer(t))}
  BY DEF Dirs, Out, Peer, Tasks
<1>2. QED BY <1>1, TwoTasks DEF IInv

LEMMA PipeFullIInv ==
  ASSUME IInv, NEW t \in Tasks, PipeFull(t)
  PROVE  IInv'
<1>. DEFINE p == Peer(t)
            b == buf[Out(t)]
<1>1. /\ Domains /\ HeadInv /\ Own(t) /\ Own(p) /\ Flow(t) /\ Flow(p) /\ Sleeper(t) /\ Sleeper(p)
      /\ p \in Tasks /\ p # t /\ Peer(p) = t /\ In(t) = Out(p) /\ In(p) = Out(t) /\ Out(t) # Out(p)
      /\ Out(t) \in Dirs /\ Out(p) \in Dirs
  BY Before
<1>2. /\ pc[t] = "write" /\ Full(b) /\ buf' = [buf EXCEPT ![Out(t)] = Park(b, t)] /\ asleep' = asleep \cup {t}
      /\ UNCHANGED <<pc, todo, carry, answered, tried, kept, got, sent, closed, queued, last, shut>>
  BY DEF PipeFull, Runs, headers, remote
<1>3. buf'[Out(t)] = Park(b, t) /\ buf'[Out(p)] = buf[Out(p)] /\ DOMAIN buf' = Dirs
  BY <1>1, <1>2 DEF Domains
<1>4. /\ Park(b, t) \in Buffers(SizeOf(Out(t)), 0..MaxBytes, Tasks) /\ Like(b, Park(b, t)) /\ Park(b, t).waker = t
  BY <1>1, OthersOfATask
<1>5. buf[Out(p)] \in Buffers(SizeOf(Out(p)), 0..MaxBytes, Tasks)
  BY <1>1 DEF Own
<1>6. Domains' /\ HeadInv'
  BY <1>1, <1>2, <1>3 DEF Domains, HeadInv, SocketEof, Available
<1>7. Own(t)' /\ Own(p)'
  <2>1. Own(t)'
    BY <1>1, <1>2, <1>3, <1>4, OwnKept
  <2>2. Own(p)'
    BY <1>1, <1>2, <1>3, <1>5, OwnKept, LikeItself
  <2>3. QED BY <2>1, <2>2
<1>8. Flow(t)' /\ Flow(p)'
  <2>1. Base(t)' = Base(t) /\ Base(p)' = Base(p) /\ (Short(t)' <=> Short(t)) /\ (Short(p)' <=> Short(p))
    BY <1>2 DEF Base, Short
  <2>2. Flow(t)'
    BY <1>1, <1>2, <1>3, <1>4, <2>1, FlowKept
  <2>3. Flow(p)'
    BY <1>1, <1>2, <1>3, <2>1, FlowKept, LikeItself
  <2>4. QED BY <2>2, <2>3
<1>9. Sleeper(t)'
  <2>1. Full(buf'[Out(t)]) /\ buf'[Out(t)].waker = t
    BY <1>2, <1>3, <1>4 DEF Full, Like
  <2>2. QED BY <1>2, <2>1 DEF Sleeper
<1>10. Sleeper(p)'
  <2>1. ~b.is_shutdown
    BY <1>1, <1>2 DEF Own
  <2>2. ~(p \in asleep /\ pc[p] \in {"select", "heads"})
    BY <1>1, <1>2, <2>1, FullIsNotEmpty DEF Sleeper
  <2>3. QED BY <1>1, <1>2, <1>3, <2>2, SleeperKept, LikeItself
<1>11. QED BY <1>6, <1>7, <1>8, <1>9, <1>10, BothTasks

LEMMA SocketFullIInv ==
  ASSUME IInv, NEW t \in Tasks, SocketFull(t)
  PROVE  IInv'
<1>1. /\ pc[t] = "socket" /\ queued[t] = SockCap /\ asleep' = asleep \cup {t}
      /\ UNCHANGED <<buf, pc, todo, carry, answered, tried, kept, got, sent, closed, queued, last, shut>>
  BY DEF SocketFull, Runs, headers, remote
<1>2. Domains' /\ HeadInv'
  BY <1>1 DEF IInv, Domains, HeadInv, SocketEof, Available
<1>3. ASSUME NEW u \in Tasks PROVE Own(u)' /\ Flow(u)'
  <2>1. Own(u) /\ Flow(u)
    BY DEF IInv
  <2>2. QED BY <1>1, <2>1 DEF Own, Flow, Base, Short, Slice, SocketEof, Available
<1>4. ASSUME NEW u \in Tasks PROVE Sleeper(u)'
  <2>1. Sleeper(u)
    BY DEF IInv
  <2>2. CASE u = t
    BY <1>1, <2>2 DEF Sleeper
  <2>3. CASE u # t
    BY <1>1, <2>1, <2>3 DEF Sleeper, Available
  <2>4. QED BY <2>2, <2>3
<1>5. QED BY <1>2, <1>3, <1>4 DEF IInv

\* A task returns, from its socket or behind its loop, and lets go of its handles.
LEMMA ReturnIInv ==
  ASSUME IInv, NEW t \in Tasks, SocketFails(t) \/ Finish(t)
  PROVE  IInv'
<1>. DEFINE p == Peer(t)
<1>1. /\ Domains /\ HeadInv /\ Own(t) /\ Own(p) /\ Flow(t) /\ Flow(p) /\ Sleeper(t) /\ Sleeper(p)
      /\ p \in Tasks /\ p # t /\ Peer(p) = t /\ In(t) = Out(p) /\ In(p) = Out(t) /\ Out(t) # Out(p)
      /\ Out(t) \in Dirs /\ Out(p) \in Dirs /\ Tasks = {t, p}
  BY Before
<1>2. /\ pc[t] \in {"socket", "closing"} /\ t \notin asleep
      /\ pc' = [pc EXCEPT ![t] = "done"] /\ buf' = [d \in Dirs |-> Drop(buf[d], t)]
      /\ UNCHANGED <<asleep, todo, carry, answered, tried, kept, got, sent, closed, queued, last, shut>>
  BY DEF SocketFails, Finish, Runs, headers, remote
<1>3. /\ pc'[t] = "done" /\ pc'[p] = pc[p]
      /\ pc' \in [Tasks -> {"heads", "write", "select", "socket", "closing", "done"}]
  BY <1>1, <1>2 DEF Domains
<1>4. /\ buf'[Out(t)] = Drop(buf[Out(t)], t) /\ buf'[Out(p)] = Drop(buf[Out(p)], t) /\ DOMAIN buf' = Dirs
  BY <1>1, <1>2
<1>5. /\ buf'[Out(t)] \in Buffers(SizeOf(Out(t)), 0..MaxBytes, Tasks)
      /\ buf'[Out(p)] \in Buffers(SizeOf(Out(p)), 0..MaxBytes, Tasks)
      /\ Like(buf[Out(t)], buf'[Out(t)]) /\ Like(buf[Out(p)], buf'[Out(p)])
      /\ buf'[Out(t)].waker = buf[Out(t)].waker /\ buf'[Out(p)].waker = buf[Out(p)].waker
  <2>1. /\ buf'[Out(t)] \in Buffers(SizeOf(Out(t)), 0..MaxBytes, Tasks)
        /\ Like(buf[Out(t)], buf'[Out(t)]) /\ buf'[Out(t)].waker = buf[Out(t)].waker
    BY <1>1, <1>4, OthersOfATask
  <2>2. /\ buf'[Out(p)] \in Buffers(SizeOf(Out(p)), 0..MaxBytes, Tasks)
        /\ Like(buf[Out(p)], buf'[Out(p)]) /\ buf'[Out(p)].waker = buf[Out(p)].waker
    BY <1>1, <1>4, OthersOfATask
  <2>3. QED BY <2>1, <2>2
<1>6. Domains'
  BY <1>1, <1>2, <1>3, <1>4 DEF Domains
<1>7. HeadInv'
  BY <1>1, <1>2, <1>3 DEF HeadInv, SocketEof, Available, Tasks
<1>8. Own(t)'
  BY <1>1, <1>2, <1>3, <1>5 DEF Own, Like
<1>9. Own(p)'
  BY <1>1, <1>2, <1>3, <1>5, OwnKept
<1>10. Base(t)' = Base(t) /\ Base(p)' = Base(p) /\ (Short(t)' <=> Short(t)) /\ (Short(p)' <=> Short(p))
  BY <1>2 DEF Base, Short
<1>11. Flow(t)'
  BY <1>1, <1>2, <1>5, <1>10, FlowKept
<1>12. Flow(p)'
  BY <1>1, <1>2, <1>5, <1>10, FlowKept
<1>13. Sleeper(t)'
  BY <1>2 DEF Sleeper
<1>14. Sleeper(p)'
  BY <1>1, <1>2, <1>3, <1>5, SleeperKept
<1>15. QED BY <1>6, <1>7, <1>8, <1>9, <1>11, <1>12, <1>13, <1>14, BothTasks

LEMMA RemoteStepIInv ==
  ASSUME IInv, NEW t \in Tasks, RemoteStep(t)
  PROVE  IInv'
<1>1. /\ UNCHANGED <<buf, pc, todo, carry, answered, tried, kept, got, last, shut>>
      /\ \/ asleep' = asleep \ {t}
         \/ /\ UNCHANGED asleep
            /\ pc[t] \in {"select", "heads"} => UNCHANGED <<sent, closed>>
            /\ pc[t] = "socket" => UNCHANGED queued
      /\ \/ /\ sent[t] < MaxSent(t) /\ t \notin closed /\ sent' = [sent EXCEPT ![t] = @ + 1]
            /\ UNCHANGED <<closed, queued>>
         \/ queued[t] > 0 /\ queued' = [queued EXCEPT ![t] = @ - 1] /\ UNCHANGED <<sent, closed>>
         \/ closed' = closed \cup {t} /\ UNCHANGED <<sent, queued>>
  BY DEF RemoteStep, RemoteSends, RemoteReads, RemoteCloses, SocketWakes, headers, remote
<1>2. \A u \in Tasks : /\ got[u] \in Nat /\ sent[u] \in Nat /\ last[u] \in Nat /\ queued[u] \in 0..SockCap
                       /\ got[u] <= sent[u] /\ MaxSent(u) \in Nat /\ SockCap \in Nat
                       /\ sent[u] <= MaxSent(u) /\ queued[u] <= last[u]
  BY TwoTasks, Constants DEF IInv, Domains, Own
<1>3. \A u \in Tasks : /\ sent'[u] \in Nat /\ got[u] <= sent'[u] /\ sent'[u] <= MaxSent(u)
                       /\ queued'[u] \in 0..SockCap /\ queued'[u] <= last[u]
                       /\ u # t => /\ sent'[u] = sent[u] /\ queued'[u] = queued[u]
                                   /\ u \in closed' <=> u \in closed
                       /\ u \in closed => u \in closed' /\ sent'[u] = sent[u]
  <2>1. CASE /\ sent[t] < MaxSent(t) /\ t \notin closed /\ sent' = [sent EXCEPT ![t] = @ + 1]
             /\ UNCHANGED <<closed, queued>>
    BY <1>2, <2>1 DEF IInv, Domains
  <2>2. CASE queued[t] > 0 /\ queued' = [queued EXCEPT ![t] = @ - 1] /\ UNCHANGED <<sent, closed>>
    BY <1>2, <2>2 DEF IInv, Domains
  <2>3. CASE closed' = closed \cup {t} /\ UNCHANGED <<sent, queued>>
    BY <1>2, <2>3
  <2>4. QED BY <1>1, <2>1, <2>2, <2>3
<1>4. Domains'
  <2>1. sent' = [u \in Tasks |-> sent'[u]] /\ queued' = [u \in Tasks |-> queued'[u]]
    BY <1>1 DEF IInv, Domains
  <2>2. sent' \in [Tasks -> Nat] /\ queued' \in [Tasks -> 0..SockCap]
    BY <1>3, <2>1
  <2>3. closed' \subseteq Tasks /\ asleep' \subseteq Tasks
    BY <1>1 DEF IInv, Domains
  <2>4. QED BY <1>1, <2>2, <2>3 DEF IInv, Domains
<1>5. HeadInv'
  <2>1. SocketEof("cluster") => SocketEof("cluster")'
    BY <1>1, <1>3 DEF SocketEof, Available, Tasks
  <2>2. QED BY <1>1, <2>1 DEF IInv, HeadInv
<1>6. ASSUME NEW u \in Tasks PROVE Own(u)' /\ Flow(u)'
  <2>1. Own(u) /\ Flow(u)
    BY DEF IInv
  <2>2. Own(u)'
    BY <1>1, <1>3, <2>1 DEF Own
  <2>3. Flow(u)'
    BY <1>1, <2>1 DEF Flow, Base, Short, Slice
  <2>4. QED BY <2>2, <2>3
<1>7. ASSUME NEW u \in Tasks PROVE Sleeper(u)'
  <2>1. Sleeper(u)
    BY DEF IInv
  <2>2. /\ u \in asleep' => u \in asleep
        /\ u \in asleep' /\ pc[u] \in {"select", "heads"} => sent'[u] = sent[u] /\ (u \in closed' => u \in closed)
        /\ u \in asleep' /\ pc[u] = "socket" => queued'[u] = queued[u]
    BY <1>1, <1>3
  <2>3. QED BY <1>1, <2>1, <2>2, SleeperKept, LikeItself
<1>8. QED BY <1>4, <1>5, <1>6, <1>7 DEF IInv

LEMMA SocketWriteIInv ==
  ASSUME IInv, NEW t \in Tasks, SocketWrite(t)
  PROVE  IInv'
<1>. DEFINE p == Peer(t)
            c == carry[t]
            k == IF Len(c) <= SockCap - queued[t] THEN Len(c) ELSE SockCap - queued[t]
            at == IF t = "cluster" /\ ~answered THEN "heads" ELSE "select"
<1>1. /\ Domains /\ HeadInv /\ Own(t) /\ Own(p) /\ Flow(t) /\ Flow(p) /\ Sleeper(t) /\ Sleeper(p)
      /\ p \in Tasks /\ p # t /\ Peer(p) = t /\ In(t) = Out(p) /\ In(p) = Out(t) /\ Out(t) # Out(p)
      /\ Out(t) \in Dirs /\ Out(p) \in Dirs /\ Tasks = {t, p}
  BY Before
<1>2. /\ pc[t] = "socket" /\ t \notin asleep /\ queued[t] < SockCap
      /\ queued' = [queued EXCEPT ![t] = @ + k] /\ last' = [last EXCEPT ![t] = c[k]]
      /\ carry' = [carry EXCEPT ![t] = <<>>] /\ pc' = [pc EXCEPT ![t] = at]
      /\ UNCHANGED <<buf, asleep, todo, answered, tried, kept, got, sent, closed, shut>>
  BY DEF SocketWrite, Runs, headers, remote
<1>3. /\ c \in Seq(Nat) /\ c # <<>> /\ Len(c) \in Nat /\ last[t] \in Nat /\ queued[t] \in Nat /\ queued[t] <= last[t]
      /\ SockCap \in Nat
  BY <1>1, <1>2, Numbers, Constants DEF Own
<1>4. Len(c) >= 1
  BY <1>3, EmptySeq
<1>5. k \in 1..Len(c) /\ queued[t] + k <= SockCap /\ k \in Nat
  BY <1>2, <1>3, <1>4
<1>. HIDE DEF k, at
<1>6. /\ Chain(c, last[t], buf[Out(p)], Slice(p, 1), Slice(p, 2), Slice(p, 3), Base(p))
      /\ Len(Window(buf[Out(p)])) = Unread(buf[Out(p)]) /\ Unread(buf[Out(p)]) \in Nat
  BY <1>1, Numbers DEF Flow
<1>7. /\ c[k] \in Nat /\ last[t] + k <= c[k]
      /\ Chain(<<>>, c[k], buf[Out(p)], Slice(p, 1), Slice(p, 2), Slice(p, 3), Base(p))
      /\ k = Len(c) /\ Whole(c, last[t], buf[Out(p)], Slice(p, 1), Slice(p, 2), Slice(p, 3), Base(p)) =>
           Whole(<<>>, c[k], buf[Out(p)], Slice(p, 1), Slice(p, 2), Slice(p, 3), Base(p))
  BY <1>5, <1>6, ChainSent
<1>8. /\ queued'[t] = queued[t] + k /\ queued'[p] = queued[p] /\ last'[t] = c[k] /\ last'[p] = last[p]
      /\ carry'[t] = <<>> /\ carry'[p] = carry[p] /\ pc'[t] = at /\ pc'[p] = pc[p] /\ at \in {"heads", "select"}
  BY <1>1, <1>2 DEF Domains, at
<1>9. Domains'
  <2>1. queued[t] + k \in 0..SockCap /\ c[k] \in Nat /\ <<>> \in Seq(Nat) /\ at \in {"heads", "select"}
    BY <1>3, <1>5, <1>7, <1>8
  <2>2. QED BY <1>1, <1>2, <2>1 DEF Domains
<1>10. HeadInv'
  BY <1>1, <1>2, <1>8 DEF HeadInv, SocketEof, Available, Tasks, at
<1>11. Own(t)'
  <2>1. queued'[t] <= last'[t]
    BY <1>3, <1>5, <1>7, <1>8
  <2>2. QED BY <1>1, <1>2, <1>8, <2>1 DEF Own
<1>12. Own(p)'
  BY <1>1, <1>2, <1>8, OwnKept, LikeItself DEF Own
<1>13. Base(t)' = Base(t) /\ Base(p)' = Base(p) /\ (Short(t)' <=> Short(t)) /\ (Short(p)' <=> Short(p))
  BY <1>2 DEF Base, Short
<1>14. Flow(t)'
  BY <1>1, <1>2, <1>8, <1>13, FlowKept, LikeItself
<1>15. Flow(p)'
  <2>1. Slice(p, 1)' = Slice(p, 1) /\ Slice(p, 2)' = Slice(p, 2) /\ Slice(p, 3)' = Slice(p, 3)
    BY <1>2 DEF Slice
  <2>2. Short(p) => k = Len(c)
    <3>1. /\ last[t] + Len(c) + Unread(buf[Out(p)]) + Len(Slice(p, 1)) + Len(Slice(p, 2)) + Len(Slice(p, 3)) <= Base(p)
          /\ Len(Slice(p, 1)) \in Nat /\ Len(Slice(p, 2)) \in Nat /\ Len(Slice(p, 3)) \in Nat
      BY <1>6, ChainFits
    <3>2. Base(p) \in Nat /\ got[p] \in Nat /\ Base(p) <= got[p]
      BY <1>1, Numbers
    <3>3. last[t] + Len(c) <= Base(p)
      <4>1. PICK l \in Nat, n \in Nat, u \in Nat, a \in Nat, d \in Nat, e \in Nat :
              /\ l = last[t] /\ n = Len(c) /\ u = Unread(buf[Out(p)])
              /\ a = Len(Slice(p, 1)) /\ d = Len(Slice(p, 2)) /\ e = Len(Slice(p, 3))
        BY <1>3, <1>6, <3>1
      <4>2. l + n + u + a + d + e <= Base(p)
        BY <3>1, <4>1
      <4>3. l + n <= Base(p)
        BY <3>2, <4>2
      <4>4. QED BY <4>1, <4>3
    <3>4. got[p] <= SockCap => Len(c) <= SockCap - queued[t]
      BY <1>3, <3>2, <3>3
    <3>5. QED BY <3>4 DEF Short, k
  <2>3. Short(p) => Whole(c, last[t], buf[Out(p)], Slice(p, 1), Slice(p, 2), Slice(p, 3), Base(p))
    BY <1>1 DEF Flow
  <2>4. QED BY <1>1, <1>2, <1>7, <1>8, <1>13, <2>1, <2>2, <2>3 DEF Flow
<1>16. Sleeper(t)'
  BY <1>2 DEF Sleeper
<1>17. Sleeper(p)'
  BY <1>1, <1>2, <1>8, SleeperKept, LikeItself
<1>18. QED BY <1>9, <1>10, <1>11, <1>12, <1>14, <1>15, <1>16, <1>17, BothTasks

\* A task takes what is in its buffer: in its loop, or in the header loop, where that
\* ends the current read of the head.
Takes(t) ==
  /\ ~NothingToRead(buf[In(t)]) /\ t \notin asleep /\ pc[t] \in {"select", "heads"}
  /\ carry' = [carry EXCEPT ![t] = SubSeq(Window(buf[In(t)]), 1, ReadLen(buf[In(t)], Room))]
  /\ buf' = [buf EXCEPT ![In(t)] = Read(@, Room)]
  /\ Woken(In(t)) /\ pc' = [pc EXCEPT ![t] = "socket"]
  /\ \/ tried' = tried
     \/ ~answered /\ tried' = got["cluster"]
  /\ UNCHANGED <<todo, answered, kept, got, sent, closed, queued, last, shut>>

LEMMA TakesIInv ==
  ASSUME IInv, NEW t \in Tasks, Takes(t)
  PROVE  IInv'
<1>. DEFINE p == Peer(t)
            b == buf[Out(p)]
            c == SubSeq(Window(b), 1, ReadLen(b, Room))
<1>1. /\ Domains /\ HeadInv /\ Own(t) /\ Own(p) /\ Flow(t) /\ Flow(p) /\ Sleeper(t) /\ Sleeper(p)
      /\ p \in Tasks /\ p # t /\ Peer(p) = t /\ In(t) = Out(p) /\ In(p) = Out(t) /\ Out(t) # Out(p)
      /\ Out(t) \in Dirs /\ Out(p) \in Dirs /\ Tasks = {t, p}
  BY Before
<1>2. /\ buf'[Out(p)] = Read(b, Room) /\ buf'[Out(t)] = buf[Out(t)] /\ DOMAIN buf' = Dirs
      /\ carry'[t] = c /\ carry'[p] = carry[p] /\ pc'[t] = "socket" /\ pc'[p] = pc[p]
      /\ asleep' = asleep \ {b.waker} /\ ~NothingToRead(b)
  BY <1>1 DEF Domains, Woken, Takes
<1>3. /\ pc[t] \in {"select", "heads"} /\ t \notin asleep
      /\ \/ tried' = tried
         \/ ~answered /\ tried' = got["cluster"]
      /\ UNCHANGED <<todo, answered, kept, got, sent, closed, queued, last, shut>>
      /\ pc' = [pc EXCEPT ![t] = "socket"] /\ carry' = [carry EXCEPT ![t] = c]
  BY <1>1 DEF Takes
<1>4. /\ carry[t] = <<>> /\ todo[t] = <<>>
  BY <1>1, <1>3 DEF Own
<1>5. /\ b \in Buffers(SizeOf(Out(p)), 0..MaxBytes, Tasks) /\ b.read_cursor <= b.write_cursor
      /\ SizeOf(Out(p)) \in Nat /\ MaxBytes \in Nat /\ Room \in Nat \ {0}
  BY <1>1, TwoTasks, Constants DEF Own
<1>6. /\ Chain(<<>>, last[t], b, Slice(p, 1), Slice(p, 2), Slice(p, 3), Base(p))
      /\ Short(p) => Whole(<<>>, last[t], b, Slice(p, 1), Slice(p, 2), Slice(p, 3), Base(p))
  BY <1>1, <1>4 DEF Flow
<1>7. /\ Len(c) \in Nat \ {0}
      /\ Chain(c, last[t], Read(b, Room), Slice(p, 1), Slice(p, 2), Slice(p, 3), Base(p))
      /\ Whole(<<>>, last[t], b, Slice(p, 1), Slice(p, 2), Slice(p, 3), Base(p)) =>
           Whole(c, last[t], Read(b, Room), Slice(p, 1), Slice(p, 2), Slice(p, 3), Base(p))
  BY <1>2, <1>5, <1>6, ChainRead
<1>8. c \in Seq(Nat) /\ c # <<>>
  <2>1. c \in Seq(Nat)
    BY <1>7 DEF Chain, Ascends
  <2>2. QED BY <1>7, <2>1, EmptySeq
<1>. HIDE DEF c
<1>9. Domains'
  <2>1. carry' \in [Tasks -> Seq(Nat)]
    BY <1>1, <1>3, <1>8 DEF Domains
  <2>2. pc' \in [Tasks -> {"heads", "write", "select", "socket", "closing", "done"}]
    BY <1>1, <1>3 DEF Domains
  <2>3. QED BY <1>1, <1>2, <1>3, <2>1, <2>2 DEF Domains
<1>10. tried' \in Nat /\ tried' <= got["cluster"] /\ (tried' = 0 => tried = 0) /\ (answered => tried' = tried)
  <2>1. got["cluster"] \in Nat /\ tried \in Nat /\ tried <= got["cluster"] /\ answered \in BOOLEAN
    BY <1>1 DEF Domains, HeadInv, Tasks
  <2>2. QED BY <1>3, <2>1
<1>11. HeadInv'
  <2>1. /\ pc["cluster"] \in {"heads", "select"} \/ pc'["cluster"] = pc["cluster"]
        /\ pc'["cluster"] = pc["cluster"] \/ pc'["cluster"] = "socket"
        /\ pc'["client"] = pc["client"] \/ pc'["client"] = "socket"
    BY <1>1, <1>2, <1>3 DEF Tasks
  <2>2. QED BY <1>1, <1>3, <1>10, <2>1 DEF HeadInv, SocketEof, Available
<1>12. Own(t)'
  BY <1>1, <1>2, <1>3, <1>4, <1>8 DEF Own
<1>13. Own(p)'
  <2>1. /\ Read(b, Room) \in Buffers(SizeOf(Out(p)), 0..MaxBytes, Tasks)
        /\ Read(b, Room).is_shutdown = b.is_shutdown
        /\ Read(b, Room).read_cursor <= Read(b, Room).write_cursor
        /\ Read(b, Room).read_cursor = Read(b, Room).write_cursor => Read(b, Room).write_cursor = 0
    BY <1>1, <1>2, ReadOfATask
  <2>2. QED BY <1>1, <1>2, <1>3, <2>1 DEF Own
<1>14. /\ Base(t)' = Base(t) /\ Base(p)' = Base(p) /\ (Short(t)' => Short(t)) /\ (Short(p)' => Short(p))
  BY <1>3, <1>10 DEF Base, Short
<1>15. Flow(t)'
  BY <1>1, <1>2, <1>3, <1>14, FlowKept, LikeItself
<1>16. Flow(p)'
  <2>1. Slice(p, 1)' = Slice(p, 1) /\ Slice(p, 2)' = Slice(p, 2) /\ Slice(p, 3)' = Slice(p, 3)
    BY <1>3 DEF Slice
  <2>2. QED BY <1>1, <1>2, <1>6, <1>7, <1>14, <1>3, <2>1 DEF Flow
<1>17. Sleeper(t)'
  BY <1>2, <1>3 DEF Sleeper
<1>18. Sleeper(p)'
  <2>1. ~(p \in asleep' /\ pc[p] = "write")
    BY <1>1, <1>2 DEF Sleeper
  <2>2. p \in asleep' => p \in asleep
    BY <1>2
  <2>3. QED BY <1>1, <1>2, <1>3, <2>1, <2>2, SleeperKept, LikeItself
<1>19. QED BY <1>9, <1>11, <1>12, <1>13, <1>15, <1>16, <1>17, <1>18, BothTasks

LEMMA FromPipeIInv ==
  ASSUME IInv, NEW t \in Tasks, FromPipe(t)
  PROVE  IInv'
<1>1. Takes(t)
  BY DEF Takes, FromPipe, Runs, headers, remote
<1>2. QED BY <1>1, TakesIInv

LEMMA HeadCancelledIInv ==
  ASSUME IInv, HeadCancelled
  PROVE  IInv'
<1>1. "cluster" \in Tasks /\ In("cluster") = "up" /\ ~answered
  BY DEF Tasks, In, HeadCancelled, Runs, IInv, HeadInv
<1>2. CASE UNCHANGED <<buf, pc, carry, asleep>>
  <2>1. /\ tried' = got["cluster"]
        /\ UNCHANGED <<buf, pc, carry, asleep, todo, answered, kept, got, sent, closed, queued, last, shut>>
    BY <1>2 DEF HeadCancelled, remote
  <2>2. got["cluster"] \in Nat /\ tried \in Nat /\ tried <= got["cluster"]
    BY <1>1 DEF IInv, Domains, HeadInv
  <2>3. Domains' /\ HeadInv'
    BY <1>1, <2>1, <2>2 DEF IInv, Domains, HeadInv
  <2>4. ASSUME NEW u \in Tasks PROVE Own(u)' /\ Flow(u)' /\ Sleeper(u)'
    <3>1. Own(u) /\ Flow(u) /\ Sleeper(u)
      BY DEF IInv
    <3>2. Own(u)' /\ Sleeper(u)'
      BY <2>1, <3>1 DEF Own, Sleeper, Available
    <3>3. Base(u)' = Base(u) /\ (Short(u)' => Short(u))
      BY <1>1, <2>1, <2>2 DEF Base, Short
    <3>4. Flow(u)'
      BY <2>1, <3>1, <3>3, FlowKept, LikeItself
    <3>5. QED BY <3>2, <3>4
  <2>5. QED BY <2>3, <2>4 DEF IInv
<1>3. CASE ~UNCHANGED <<buf, pc, carry, asleep>>
  <2>1. Takes("cluster")
    BY <1>1, <1>3 DEF Takes, HeadCancelled, Runs, remote
  <2>2. QED BY <1>1, <2>1, TakesIInv
<1>4. QED BY <1>2, <1>3

\* The pipe that may have been polled: at most the slot is another, and nobody else was in it.
LEMMA Parked ==
  ASSUME IInv, NEW t \in Tasks, PipePending(t)
  PROVE  LET b == [buf EXCEPT ![In(t)] = Park(@, t)] IN
         /\ DOMAIN b = Dirs /\ b[Out(t)] = buf[Out(t)]
         /\ b[In(t)] \in Buffers(SizeOf(In(t)), 0..MaxBytes, Tasks) /\ Like(buf[In(t)], b[In(t)])
         /\ b[In(t)].waker = t
         /\ ~(Peer(t) \in asleep /\ pc[Peer(t)] = "write")
<1>. DEFINE p == Peer(t)
<1>1. /\ Domains /\ Own(p) /\ Sleeper(p) /\ p \in Tasks /\ p # t
      /\ In(t) = Out(p) /\ Out(t) # Out(p) /\ Out(t) \in Dirs /\ Out(p) \in Dirs
  BY Before
<1>2. /\ [buf EXCEPT ![In(t)] = Park(@, t)][In(t)] = Park(buf[Out(p)], t)
      /\ [buf EXCEPT ![In(t)] = Park(@, t)][Out(t)] = buf[Out(t)]
      /\ DOMAIN [buf EXCEPT ![In(t)] = Park(@, t)] = Dirs
  BY <1>1 DEF Domains
<1>3. /\ Park(buf[Out(p)], t) \in Buffers(SizeOf(Out(p)), 0..MaxBytes, Tasks)
      /\ Like(buf[Out(p)], Park(buf[Out(p)], t)) /\ Park(buf[Out(p)], t).waker = t
  BY <1>1, OthersOfATask
<1>4. ~(p \in asleep /\ pc[p] = "write")
  <2>1. SUFFICES ASSUME p \in asleep, pc[p] = "write" PROVE FALSE
    OBVIOUS
  <2>2. Full(buf[Out(p)]) /\ NothingToRead(buf[Out(p)]) /\ ~buf[Out(p)].is_shutdown
    BY <1>1, <2>1 DEF PipePending, Sleeper, Own
  <2>3. QED BY <1>1, <2>2, FullIsNotEmpty
<1>5. QED BY <1>1, <1>2, <1>3, <1>4

LEMMA Polled ==
  ASSUME IInv, NEW t \in Tasks, NEW b \in MaybePolledPipe(t)
  PROVE  /\ DOMAIN b = Dirs /\ b[Out(t)] = buf[Out(t)]
         /\ b[In(t)] \in Buffers(SizeOf(In(t)), 0..MaxBytes, Tasks) /\ Like(buf[In(t)], b[In(t)])
         /\ Peer(t) \in asleep /\ pc[Peer(t)] = "write" => b[In(t)].waker = buf[In(t)].waker
<1>1. CASE b = buf
  <2>1. Domains /\ Own(Peer(t)) /\ In(t) = Out(Peer(t))
    BY Before
  <2>2. QED BY <1>1, <2>1, LikeItself DEF Domains, Own
<1>2. CASE PipePending(t) /\ b = [buf EXCEPT ![In(t)] = Park(@, t)]
  BY <1>2, Parked
<1>3. QED BY <1>1, <1>2 DEF MaybePolledPipe

\* Who is on the other side of a poll sees nothing of it.
LEMMA PeerOfAPoll ==
  ASSUME IInv, NEW t \in Tasks, buf' \in MaybePolledPipe(t), UNCHANGED asleep,
         LET p == Peer(t) IN
           /\ pc'[p] = pc[p] /\ todo'[p] = todo[p] /\ carry'[p] = carry[p] /\ carry'[t] = carry[t]
           /\ got'[p] = got[p] /\ sent'[p] = sent[p] /\ queued'[p] = queued[p]
           /\ last'[p] = last[p] /\ last'[t] = last[t] /\ (p \in closed' => p \in closed)
           /\ Base(p)' = Base(p) /\ (Short(p)' => Short(p))
  PROVE  /\ DOMAIN buf' = Dirs /\ buf'[Out(t)] = buf[Out(t)]
         /\ Own(Peer(t))' /\ Flow(Peer(t))' /\ Sleeper(Peer(t))'
<1>. DEFINE p == Peer(t)
<1>1. /\ Own(p) /\ Flow(p) /\ Sleeper(p) /\ p \in Tasks /\ Peer(p) = t /\ In(t) = Out(p) /\ In(p) = Out(t)
  BY Before
<1>2. /\ DOMAIN buf' = Dirs /\ buf'[Out(t)] = buf[Out(t)]
      /\ buf'[In(t)] \in Buffers(SizeOf(In(t)), 0..MaxBytes, Tasks) /\ Like(buf[In(t)], buf'[In(t)])
      /\ p \in asleep /\ pc[p] = "write" => buf'[In(t)].waker = buf[In(t)].waker
  BY Polled
<1>3. Own(p)'
  BY <1>1, <1>2, OwnKept
<1>4. Flow(p)'
  BY <1>1, <1>2, FlowKept
<1>5. Sleeper(p)'
  BY <1>1, <1>2, SleeperKept, LikeItself
<1>6. QED BY <1>2, <1>3, <1>4, <1>5

LEMMA NoSlices ==
  ASSUME NEW t \in Tasks, todo[t] = <<>>
  PROVE  Slice(t, 1) = <<>> /\ Slice(t, 2) = <<>> /\ Slice(t, 3) = <<>>
<1>1. Len(todo[t]) = 0
  OBVIOUS
<1>2. 1 \notin 1..Len(todo[t]) /\ 2 \notin 1..Len(todo[t]) /\ 3 \notin 1..Len(todo[t])
  BY <1>1
<1>3. QED BY <1>2 DEF Slice

\* A single slice.
LEMMA OneSlice ==
  ASSUME NEW t \in Tasks, NEW first \in 1..(MaxBytes + 1), NEW upto \in 0..MaxBytes, first <= upto + 1,
         todo'[t] = <<<<first, upto>>>>
  PROVE  /\ Slice(t, 1)' = [k \in 1..(upto - first + 1) |-> first + k - 1]
         /\ Slice(t, 2)' = <<>> /\ Slice(t, 3)' = <<>>
         /\ todo'[t] \in Seq((1..(MaxBytes + 1)) \X (0..MaxBytes)) /\ Len(todo'[t]) = 1 /\ todo'[t] # <<>>
         /\ \A i \in 1..Len(todo'[t]) : todo'[t][i][1] <= todo'[t][i][2] + 1
<1>1. /\ <<first, upto>> \in (1..(MaxBytes + 1)) \X (0..MaxBytes)
      /\ <<first, upto>>[1] = first /\ <<first, upto>>[2] = upto
  OBVIOUS
<1>2. Len(todo'[t]) = 1 /\ todo'[t][1] = <<first, upto>> /\ todo'[t] # <<>>
  OBVIOUS
<1>3. todo'[t] \in Seq((1..(MaxBytes + 1)) \X (0..MaxBytes))
  BY <1>1
<1>4. 1 \in 1..Len(todo'[t]) /\ 2 \notin 1..Len(todo'[t]) /\ 3 \notin 1..Len(todo'[t])
  BY <1>2
<1>5. \A i \in 1..Len(todo'[t]) : i = 1
  BY <1>2
<1>6. QED BY <1>1, <1>2, <1>3, <1>4, <1>5 DEF Slice

LEMMA FromSocketIInv ==
  ASSUME IInv, NEW t \in Tasks, NEW n \in 1..Room, FromSocket(t, n)
  PROVE  IInv'
<1>. DEFINE p == Peer(t)
            s == [k \in 1..n |-> got[t] + k]
<1>1. /\ Domains /\ HeadInv /\ Own(t) /\ Own(p) /\ Flow(t) /\ Flow(p) /\ Sleeper(t) /\ Sleeper(p)
      /\ p \in Tasks /\ p # t /\ Peer(p) = t /\ In(t) = Out(p) /\ In(p) = Out(t) /\ Out(t) # Out(p)
      /\ Out(t) \in Dirs /\ Out(p) \in Dirs /\ Tasks = {t, p}
  BY Before
<1>2. /\ pc[t] = "select" /\ t \notin asleep /\ n <= sent[t] - got[t]
      /\ got' = [got EXCEPT ![t] = @ + n] /\ todo' = [todo EXCEPT ![t] = <<<<got[t] + 1, got[t] + n>>>>]
      /\ pc' = [pc EXCEPT ![t] = "write"] /\ buf' \in MaybePolledPipe(t)
      /\ UNCHANGED <<asleep, carry, answered, tried, kept, sent, closed, queued, last, shut>>
  BY DEF FromSocket, Runs, Available, headers, remote
<1>3. /\ got'[t] = got[t] + n /\ got'[p] = got[p] /\ todo'[t] = <<<<got[t] + 1, got[t] + n>>>> /\ todo'[p] = todo[p]
      /\ pc'[t] = "write" /\ pc'[p] = pc[p] /\ DOMAIN todo' = Tasks
  BY <1>1, <1>2 DEF Domains
<1>4. /\ got[t] \in Nat /\ sent[t] \in Nat /\ sent[t] <= MaxBytes /\ MaxBytes \in Nat /\ n \in Nat /\ n >= 1
      /\ Room \in Nat
  BY <1>1, Numbers, Constants
<1>5. got[t] + n <= sent[t] /\ got[t] + n \in 0..MaxBytes /\ got[t] + 1 \in 1..(MaxBytes + 1)
  BY <1>2, <1>4
<1>6. /\ todo[t] = <<>> /\ carry[t] = <<>>
      /\ Slice(t, 1) = <<>> /\ Slice(t, 2) = <<>> /\ Slice(t, 3) = <<>>
  BY <1>1, <1>2, NoSlices DEF Own
<1>7. /\ Slice(t, 1)' = s /\ Slice(t, 2)' = <<>> /\ Slice(t, 3)' = <<>>
      /\ todo'[t] \in Seq((1..(MaxBytes + 1)) \X (0..MaxBytes)) /\ Len(todo'[t]) <= 3 /\ todo'[t] # <<>>
      /\ \A i \in 1..Len(todo'[t]) : todo'[t][i][1] <= todo'[t][i][2] + 1
      /\ Ascends(s, got[t], got[t] + n) /\ Len(s) = n
  <2> DEFINE first == got[t] + 1
             upto  == got[t] + n
  <2>1. /\ first \in 1..(MaxBytes + 1) /\ upto \in 0..MaxBytes /\ first <= upto + 1
        /\ first \in Nat \ {0} /\ upto \in Nat /\ upto - first + 1 = n /\ first - 1 = got[t]
    BY <1>4, <1>5
  <2>2. \A k \in 1..n : first + k - 1 = got[t] + k
    BY <1>4
  <2>3. [k \in 1..(upto - first + 1) |-> first + k - 1] = s
    BY <2>1, <2>2
  <2>4. todo'[t] = <<<<first, upto>>>>
    BY <1>3
  <2>. HIDE DEF first, upto, s
  <2>5. /\ Slice(t, 1)' = s /\ Slice(t, 2)' = <<>> /\ Slice(t, 3)' = <<>>
        /\ todo'[t] \in Seq((1..(MaxBytes + 1)) \X (0..MaxBytes)) /\ Len(todo'[t]) = 1 /\ todo'[t] # <<>>
        /\ \A i \in 1..Len(todo'[t]) : todo'[t][i][1] <= todo'[t][i][2] + 1
    BY <2>1, <2>3, <2>4, OneSlice
  <2>6. Ascends(s, first - 1, upto) /\ Len(s) = n
    BY <2>1, <2>3, SliceAscends
  <2>7. QED BY <2>1, <2>5, <2>6 DEF upto
<1>. HIDE DEF s
<1>8. /\ t = "cluster" => answered /\ (kept < HeadLen => tried # 0)
      /\ pc["cluster"] # "heads" \/ p = "cluster"
  <2>1. t = "cluster" => answered
    BY <1>1, <1>2 DEF HeadInv
  <2>2. ~SocketEof(t)
    BY <1>2, <1>4 DEF SocketEof, Available
  <2>3. QED BY <1>1, <1>2, <2>1, <2>2 DEF HeadInv, Tasks
<1>9. Base(t) = got[t] /\ Base(t)' = got[t] + n /\ Base(p)' = Base(p) /\ (Short(t)' => Short(t)) /\ (Short(p)' => Short(p))
  <2>1. Base(t) = got[t] /\ Base(t)' = got[t] + n
    BY <1>2, <1>3, <1>8 DEF Base
  <2>2. Base(p)' = Base(p) /\ (Short(p)' => Short(p))
    BY <1>2, <1>3 DEF Base, Short
  <2>3. Short(t)' => Short(t)
    BY <1>1, <1>2, <1>3, <1>4, TwoTasks, Constants DEF Short
  <2>4. QED BY <2>1, <2>2, <2>3
<1>10. /\ DOMAIN buf' = Dirs /\ buf'[Out(t)] = buf[Out(t)] /\ Own(p)' /\ Flow(p)' /\ Sleeper(p)'
  BY <1>1, <1>2, <1>3, <1>9, PeerOfAPoll
<1>11. Domains'
  <2>1. got[t] + n \in Nat
    BY <1>4
  <2>2. QED BY <1>1, <1>2, <1>3, <1>10, <2>1 DEF Domains
<1>12. HeadInv'
  <2>1. got["cluster"] <= got'["cluster"] /\ got["cluster"] \in Nat /\ got'["cluster"] \in Nat
    BY <1>1, <1>3, <1>4 DEF Tasks, Domains
  <2>2. tried' \in Nat /\ tried' <= got'["cluster"] /\ kept' <= got'["cluster"]
    BY <1>1, <1>2, <2>1, Constants DEF HeadInv
  <2>3. /\ pc'["client"] # "heads" /\ (pc'["cluster"] = "heads" => ~answered)
        /\ ~answered => pc'["cluster"] \in {"heads", "socket", "done"} /\ kept < HeadLen
    BY <1>1, <1>2, <1>3, <1>8 DEF HeadInv, Tasks
  <2>4. answered /\ kept < HeadLen /\ tried = 0 => pc'["cluster"] = "done" \/ SocketEof("cluster")'
    BY <1>1, <1>2, <1>3, <1>8 DEF HeadInv, SocketEof, Available, Tasks
  <2>5. QED BY <1>1, <1>2, <2>2, <2>3, <2>4 DEF HeadInv
<1>13. Own(t)'
  BY <1>1, <1>2, <1>3, <1>5, <1>6, <1>7, <1>10 DEF Own
<1>14. Flow(t)'
  <2>1. /\ Chain(carry[p], last[p], buf[Out(t)], <<>>, <<>>, <<>>, got[t])
        /\ Short(t) => Whole(carry[p], last[p], buf[Out(t)], <<>>, <<>>, <<>>, got[t])
        /\ Len(Window(buf[Out(t)])) = Unread(buf[Out(t)]) /\ Unread(buf[Out(t)]) \in Nat
    BY <1>1, <1>6, <1>9, Numbers DEF Flow
  <2>2. Len(s) = (got[t] + n) - got[t]
    BY <1>4, <1>7
  <2>3. /\ Chain(carry[p], last[p], buf[Out(t)], s, <<>>, <<>>, got[t] + n)
        /\ Whole(carry[p], last[p], buf[Out(t)], <<>>, <<>>, <<>>, got[t]) =>
             Whole(carry[p], last[p], buf[Out(t)], s, <<>>, <<>>, got[t] + n)
    BY <1>7, <2>1, <2>2, ChainLonger
  <2>4. QED BY <1>2, <1>7, <1>9, <1>10, <2>1, <2>3 DEF Flow
<1>15. Sleeper(t)'
  BY <1>2 DEF Sleeper
<1>16. QED BY <1>10, <1>11, <1>12, <1>13, <1>14, <1>15, BothTasks

LEMMA SocketEndsIInv ==
  ASSUME IInv, NEW t \in Tasks, SocketEnds(t)
  PROVE  IInv'
<1>. DEFINE p == Peer(t)
<1>1. /\ Domains /\ HeadInv /\ Own(t) /\ Own(p) /\ Flow(t) /\ Flow(p) /\ Sleeper(t) /\ Sleeper(p)
      /\ p \in Tasks /\ p # t /\ Peer(p) = t /\ In(t) = Out(p) /\ In(p) = Out(t) /\ Out(t) # Out(p)
      /\ Out(t) \in Dirs /\ Out(p) \in Dirs /\ Tasks = {t, p}
  BY Before
<1>2. PICK b \in MaybePolledPipe(t) :
        IF t = "client" THEN buf' = [b EXCEPT !["up"] = Shutdown(@)] /\ Woken("up")
        ELSE buf' = b /\ UNCHANGED asleep
  BY DEF SocketEnds
<1>3. /\ pc[t] = "select" /\ t \notin asleep /\ pc' = [pc EXCEPT ![t] = "closing"] /\ shut' = shut \cup {t}
      /\ UNCHANGED <<todo, carry, answered, tried, kept, got, sent, closed, queued, last>>
  BY DEF SocketEnds, Runs, headers, remote
<1>4. /\ DOMAIN b = Dirs /\ b[Out(t)] = buf[Out(t)]
      /\ b[Out(p)] \in Buffers(SizeOf(Out(p)), 0..MaxBytes, Tasks) /\ Like(buf[Out(p)], b[Out(p)])
      /\ p \in asleep /\ pc[p] = "write" => b[Out(p)].waker = buf[Out(p)].waker
  BY <1>1, Polled
<1>5. CASE t = "client"
  <2>1. Out(t) = "up"
    BY <1>5 DEF Out
  <2>2. /\ DOMAIN buf' = Dirs /\ buf'[Out(t)] = Shutdown(buf[Out(t)]) /\ buf'[Out(p)] = b[Out(p)]
        /\ asleep' = asleep \ {buf[Out(t)].waker}
    BY <1>1, <1>2, <1>4, <1>5, <2>1 DEF Woken
  <2>3. /\ buf'[Out(t)] \in Buffers(SizeOf(Out(t)), 0..MaxBytes, Tasks)
        /\ buf'[Out(t)].data = buf[Out(t)].data /\ buf'[Out(t)].is_shutdown = TRUE
        /\ buf'[Out(t)].read_cursor = buf[Out(t)].read_cursor /\ buf'[Out(t)].write_cursor = buf[Out(t)].write_cursor
    BY <1>1, <2>2, OthersOfATask
  <2>4. pc'[t] = "closing" /\ pc'[p] = pc[p]
    BY <1>1, <1>3 DEF Domains
  <2>5. Domains' /\ HeadInv'
    <3>1. pc' \in [Tasks -> {"heads", "write", "select", "socket", "closing", "done"}]
      BY <1>1, <1>3 DEF Domains
    <3>2. Domains'
      BY <1>1, <1>3, <2>2, <3>1 DEF Domains
    <3>3. HeadInv'
      BY <1>1, <1>3, <1>5, <2>4 DEF HeadInv, SocketEof, Available, Tasks
    <3>4. QED BY <3>2, <3>3
  <2>6. Own(t)'
    BY <1>1, <1>3, <1>5, <2>3, <2>4 DEF Own
  <2>7. Own(p)'
    BY <1>1, <1>3, <1>4, <2>2, <2>4, OwnKept
  <2>8. Base(t)' = Base(t) /\ Base(p)' = Base(p) /\ (Short(t)' <=> Short(t)) /\ (Short(p)' <=> Short(p))
    BY <1>3 DEF Base, Short
  <2>9. Flow(t)'
    <3>1. Unread(buf'[Out(t)]) = Unread(buf[Out(t)]) /\ Window(buf'[Out(t)]) = Window(buf[Out(t)])
      BY <2>3 DEF Unread, Window
    <3>2. Slice(t, 1)' = Slice(t, 1) /\ Slice(t, 2)' = Slice(t, 2) /\ Slice(t, 3)' = Slice(t, 3)
      BY <1>3 DEF Slice
    <3>3. QED BY <1>1, <1>3, <2>3, <2>8, <3>1, <3>2 DEF Flow, Chain, Whole
  <2>10. Flow(p)'
    BY <1>1, <1>3, <1>4, <2>2, <2>8, FlowKept
  <2>11. Sleeper(t)'
    BY <1>3, <2>2 DEF Sleeper
  <2>12. Sleeper(p)'
    <3>1. ~(p \in asleep' /\ pc[p] \in {"select", "heads"})
      BY <1>1, <2>2 DEF Sleeper
    <3>2. p \in asleep' => p \in asleep
      BY <2>2
    <3>3. QED BY <1>1, <1>3, <1>4, <2>2, <2>4, <3>1, <3>2, SleeperKept
  <2>13. QED BY <2>5, <2>6, <2>7, <2>9, <2>10, <2>11, <2>12, BothTasks
<1>6. CASE t # "client"
  <2>1. buf' \in MaybePolledPipe(t) /\ UNCHANGED asleep
    BY <1>2, <1>6
  <2>2. pc'[t] = "closing" /\ pc'[p] = pc[p]
    BY <1>1, <1>3 DEF Domains
  <2>3. Base(t)' = Base(t) /\ Base(p)' = Base(p) /\ (Short(t)' <=> Short(t)) /\ (Short(p)' <=> Short(p))
    BY <1>3 DEF Base, Short
  <2>4. /\ DOMAIN buf' = Dirs /\ buf'[Out(t)] = buf[Out(t)] /\ Own(p)' /\ Flow(p)' /\ Sleeper(p)'
    BY <1>1, <1>3, <2>1, <2>2, <2>3, PeerOfAPoll
  <2>5. Domains' /\ HeadInv'
    <3>1. pc' \in [Tasks -> {"heads", "write", "select", "socket", "closing", "done"}]
      BY <1>1, <1>3 DEF Domains
    <3>2. Domains'
      BY <1>1, <1>3, <2>1, <2>4, <3>1 DEF Domains
    <3>3. HeadInv'
      <4>1. answered /\ ~(kept < HeadLen /\ tried = 0 /\ ~SocketEof("cluster"))
        BY <1>1, <1>3, <1>6 DEF HeadInv, Tasks
      <4>2. QED BY <1>1, <1>3, <1>6, <2>2, <4>1 DEF HeadInv, SocketEof, Available, Tasks
    <3>4. QED BY <3>2, <3>3
  <2>6. Own(t)'
    BY <1>1, <1>3, <2>2, <2>4 DEF Own
  <2>7. Flow(t)'
    BY <1>1, <1>3, <2>3, <2>4, FlowKept, LikeItself
  <2>8. Sleeper(t)'
    BY <1>3, <2>1 DEF Sleeper
  <2>9. QED BY <2>4, <2>5, <2>6, <2>7, <2>8, BothTasks
<1>7. QED BY <1>5, <1>6

LEMMA PipeEndsIInv ==
  ASSUME IInv, NEW t \in Tasks, PipeEnds(t)
  PROVE  IInv'
<1>. DEFINE p == Peer(t)
<1>1. /\ Domains /\ HeadInv /\ Own(t) /\ Own(p) /\ Flow(t) /\ Flow(p) /\ Sleeper(t) /\ Sleeper(p)
      /\ p \in Tasks /\ p # t /\ Peer(p) = t /\ Out(t) \in Dirs /\ Out(p) \in Dirs /\ Tasks = {t, p}
  BY Before
<1>2. /\ pc[t] = "select" /\ t \notin asleep /\ pc' = [pc EXCEPT ![t] = "closing"] /\ shut' = shut \cup {t}
      /\ UNCHANGED <<buf, asleep, todo, carry, answered, tried, kept, got, sent, closed, queued, last>>
  BY DEF PipeEnds, Runs, headers, remote
<1>3. /\ pc'[t] = "closing" /\ pc'[p] = pc[p]
      /\ pc' \in [Tasks -> {"heads", "write", "select", "socket", "closing", "done"}]
  BY <1>1, <1>2 DEF Domains
<1>4. Domains'
  BY <1>1, <1>2, <1>3 DEF Domains
<1>5. HeadInv'
  <2>1. pc'["cluster"] = pc["cluster"] \/ (pc["cluster"] = "select" /\ pc'["cluster"] = "closing")
    BY <1>1, <1>2, <1>3 DEF Tasks
  <2>2. pc'["client"] = pc["client"] \/ pc'["client"] = "closing"
    BY <1>1, <1>3 DEF Tasks
  <2>3. QED BY <1>1, <1>2, <2>1, <2>2 DEF HeadInv, SocketEof, Available
<1>6. Own(t)' /\ Own(p)'
  BY <1>1, <1>2, <1>3 DEF Own
<1>7. Flow(t)' /\ Flow(p)'
  BY <1>1, <1>2 DEF Flow, Base, Short, Slice
<1>8. Sleeper(t)' /\ Sleeper(p)'
  BY <1>1, <1>2, <1>3 DEF Sleeper, Available
<1>9. QED BY <1>4, <1>5, <1>6, <1>7, <1>8, BothTasks

LEMMA SleepIInv ==
  ASSUME IInv, NEW t \in Tasks, Sleep(t)
  PROVE  IInv'
<1>. DEFINE p == Peer(t)
<1>1. /\ Domains /\ HeadInv /\ Own(t) /\ Own(p) /\ Flow(t) /\ Flow(p) /\ Sleeper(t) /\ Sleeper(p)
      /\ p \in Tasks /\ p # t /\ Peer(p) = t /\ In(t) = Out(p) /\ In(p) = Out(t) /\ Out(t) # Out(p)
      /\ Out(t) \in Dirs /\ Out(p) \in Dirs /\ Tasks = {t, p}
  BY Before
<1>2. /\ pc[t] \in {"select", "heads"} /\ Available(t) = 0 /\ t \notin closed /\ PipePending(t)
      /\ buf' = [buf EXCEPT ![In(t)] = Park(@, t)] /\ asleep' = asleep \cup {t}
      /\ UNCHANGED <<pc, todo, carry, answered, tried, kept, got, sent, closed, queued, last, shut>>
  BY DEF Sleep, Runs, headers, remote
<1>3. /\ DOMAIN buf' = Dirs /\ buf'[Out(t)] = buf[Out(t)]
      /\ buf'[Out(p)] \in Buffers(SizeOf(Out(p)), 0..MaxBytes, Tasks) /\ Like(buf[Out(p)], buf'[Out(p)])
      /\ buf'[Out(p)].waker = t /\ ~(p \in asleep /\ pc[p] = "write")
  BY <1>1, <1>2, Parked
<1>4. Domains' /\ HeadInv'
  BY <1>1, <1>2, <1>3 DEF Domains, HeadInv, SocketEof, Available
<1>5. Own(t)'
  BY <1>1, <1>2, <1>3, OwnKept, LikeItself DEF Own
<1>6. Own(p)'
  BY <1>1, <1>2, <1>3, OwnKept
<1>7. Base(t)' = Base(t) /\ Base(p)' = Base(p) /\ (Short(t)' <=> Short(t)) /\ (Short(p)' <=> Short(p))
  BY <1>2 DEF Base, Short
<1>8. Flow(t)'
  BY <1>1, <1>2, <1>3, <1>7, FlowKept, LikeItself
<1>9. Flow(p)'
  BY <1>1, <1>2, <1>3, <1>7, FlowKept
<1>10. Sleeper(t)'
  <2>1. NothingToRead(buf'[In(t)]) /\ buf'[In(t)].waker = t
    BY <1>1, <1>2, <1>3 DEF PipePending, NothingToRead, Like
  <2>2. QED BY <1>2, <2>1 DEF Sleeper, Available
<1>11. Sleeper(p)'
  <2>1. p \in asleep' => p \in asleep
    BY <1>1, <1>2
  <2>2. QED BY <1>1, <1>2, <1>3, <2>1, SleeperKept, LikeItself
<1>12. QED BY <1>4, <1>5, <1>6, <1>8, <1>9, <1>10, <1>11, BothTasks

LEMMA HeadGrowsIInv ==
  ASSUME IInv, NEW n \in 1..Room, HeadGrows(n)
  PROVE  IInv'
<1>. DEFINE t == "cluster"
            p == "client"
<1>1. /\ Domains /\ HeadInv /\ Own(t) /\ Own(p) /\ Flow(t) /\ Flow(p) /\ Sleeper(t) /\ Sleeper(p)
      /\ t \in Tasks /\ p \in Tasks /\ p = Peer(t) /\ t = Peer(p) /\ Tasks = {t, p}
  BY Before DEF Tasks, Peer
<1>2. /\ pc[t] = "heads" /\ t \notin asleep /\ n <= sent[t] - got[t]
      /\ tried > 0 \/ got[t] + n < HeadLen
      /\ got' = [got EXCEPT ![t] = @ + n]
      /\ kept' = IF tried = 0 /\ got'[t] >= StatusLen THEN got'[t] ELSE kept
      /\ buf' \in MaybePolledPipe(t)
      /\ UNCHANGED <<pc, asleep, todo, carry, answered, tried, sent, closed, queued, last, shut>>
  BY DEF HeadGrows, Runs, Available, remote
<1>3. /\ got'[t] = got[t] + n /\ got'[p] = got[p] /\ got[t] \in Nat /\ sent[t] \in Nat /\ n \in Nat /\ n >= 1
      /\ tried \in Nat /\ kept \in Nat /\ ~answered
  <2>1. Room \in Nat /\ HeadLen \in Nat
    BY Constants
  <2>2. QED BY <1>1, <1>2, <2>1 DEF Domains, HeadInv
<1>4. Base(t)' = Base(t) /\ Base(p)' = Base(p) /\ (Short(t)' => Short(t)) /\ (Short(p)' => Short(p))
  BY <1>1, <1>2, <1>3, TwoTasks, Constants DEF Base, Short
<1>5. /\ DOMAIN buf' = Dirs /\ buf'[Out(t)] = buf[Out(t)] /\ Own(p)' /\ Flow(p)' /\ Sleeper(p)'
  BY <1>1, <1>2, <1>3, <1>4, PeerOfAPoll
<1>6. Domains'
  <2>1. got[t] + n \in Nat
    BY <1>3
  <2>2. QED BY <1>1, <1>2, <1>5, <2>1 DEF Domains
<1>7. HeadInv'
  <2>1. StatusLen \in Nat /\ HeadLen \in Nat
    BY Constants
  <2>2. tried' \in Nat /\ tried' <= got'["cluster"]
    BY <1>1, <1>2, <1>3 DEF HeadInv
  <2>3. kept' \in 0..HeadLen /\ (kept' = 0 \/ kept' >= StatusLen) /\ kept' <= got'["cluster"] /\ kept' < HeadLen
    BY <1>1, <1>2, <1>3, <2>1 DEF HeadInv
  <2>4. QED BY <1>1, <1>2, <1>3, <2>2, <2>3 DEF HeadInv
<1>8. Own(t)'
  <2>1. got'[t] <= sent'[t]
    BY <1>2, <1>3
  <2>2. QED BY <1>1, <1>2, <1>5, <2>1 DEF Own
<1>9. Flow(t)'
  BY <1>1, <1>2, <1>4, <1>5, FlowKept, LikeItself
<1>10. Sleeper(t)'
  BY <1>2 DEF Sleeper
<1>11. QED BY <1>1, <1>5, <1>6, <1>7, <1>8, <1>9, <1>10, BothTasks

\* The bytes of a slice of a list of slices.
SliceOf(td, i) ==
  IF i \in 1..Len(td) THEN [k \in 1..(td[i][2] - td[i][1] + 1) |-> td[i][1] + k - 1] ELSE <<>>

\* The pieces of a head and of what was read behind it follow one another.
PiecesFit(td, k, upto) ==
  /\ td \in Seq((1..(MaxBytes + 1)) \X (0..MaxBytes)) /\ Len(td) = 3 /\ td # <<>>
  /\ \A i \in 1..Len(td) : td[i][1] <= td[i][2] + 1
  /\ Ascends(SliceOf(td, 1), 0, StatusLen) /\ Len(SliceOf(td, 1)) = StatusLen
  /\ Ascends(SliceOf(td, 2), StatusLen, k) /\ Len(SliceOf(td, 2)) = k - StatusLen
  /\ Ascends(SliceOf(td, 3), HeadLen, upto) /\ Len(SliceOf(td, 3)) = upto - HeadLen

LEMMA PiecesAscend ==
  ASSUME NEW k \in Nat, StatusLen <= k, k <= HeadLen, NEW upto \in Nat, HeadLen <= upto, upto <= MaxBytes
  PROVE  PiecesFit(Pieces(k, upto), k, upto)
<1>. DEFINE td == Pieces(k, upto)
            P == (1..(MaxBytes + 1)) \X (0..MaxBytes)
            p1 == <<1, StatusLen>>
            p2 == <<StatusLen + 1, k>>
            p3 == <<HeadLen + 1, upto>>
<1>1. /\ StatusLen \in Nat /\ StatusLen >= 1 /\ HeadLen \in Nat /\ StatusLen <= HeadLen /\ MaxBytes \in Nat
  BY Constants
<1>2. p1 \in P /\ p2 \in P /\ p3 \in P
  BY <1>1
<1>3. td = <<p1, p2, p3>>
  BY DEF Pieces
<1>4. p1[1] = 1 /\ p1[2] = StatusLen /\ p2[1] = StatusLen + 1 /\ p2[2] = k /\ p3[1] = HeadLen + 1 /\ p3[2] = upto
  OBVIOUS
<1>. HIDE DEF P, p1, p2, p3, td
<1>5. td \in Seq(P) /\ Len(td) = 3 /\ td # <<>> /\ td[1] = p1 /\ td[2] = p2 /\ td[3] = p3
  BY <1>2, <1>3
<1>6. \A i \in 1..Len(td) : td[i][1] <= td[i][2] + 1
  <2>1. \A i \in 1..Len(td) : i = 1 \/ i = 2 \/ i = 3
    BY <1>5
  <2>2. p1[1] <= p1[2] + 1 /\ p2[1] <= p2[2] + 1 /\ p3[1] <= p3[2] + 1
    BY <1>1, <1>4
  <2>3. QED BY <1>5, <2>1, <2>2
<1>7. 1 \in 1..Len(td) /\ 2 \in 1..Len(td) /\ 3 \in 1..Len(td)
  BY <1>5
<1>8. Ascends(SliceOf(td, 1), 0, StatusLen) /\ Len(SliceOf(td, 1)) = StatusLen
  <2>1. SliceOf(td, 1) = [j \in 1..(StatusLen - 1 + 1) |-> 1 + j - 1]
    BY <1>4, <1>5, <1>7 DEF SliceOf
  <2>2. 1 - 1 = 0 /\ StatusLen - 1 + 1 = StatusLen /\ 1 \in Nat \ {0} /\ 1 <= StatusLen + 1
    BY <1>1
  <2>3. /\ Ascends([j \in 1..(StatusLen - 1 + 1) |-> 1 + j - 1], 1 - 1, StatusLen)
        /\ Len([j \in 1..(StatusLen - 1 + 1) |-> 1 + j - 1]) = StatusLen - 1 + 1
    BY <1>1, <2>2, SliceAscends
  <2>4. QED BY <2>1, <2>2, <2>3
<1>9. Ascends(SliceOf(td, 2), StatusLen, k) /\ Len(SliceOf(td, 2)) = k - StatusLen
  <2>1. SliceOf(td, 2) = [j \in 1..(k - (StatusLen + 1) + 1) |-> (StatusLen + 1) + j - 1]
    BY <1>4, <1>5, <1>7 DEF SliceOf
  <2>2. /\ (StatusLen + 1) - 1 = StatusLen /\ k - (StatusLen + 1) + 1 = k - StatusLen
        /\ StatusLen + 1 \in Nat \ {0} /\ StatusLen + 1 <= k + 1
    BY <1>1
  <2>3. /\ Ascends([j \in 1..(k - (StatusLen + 1) + 1) |-> (StatusLen + 1) + j - 1], (StatusLen + 1) - 1, k)
        /\ Len([j \in 1..(k - (StatusLen + 1) + 1) |-> (StatusLen + 1) + j - 1]) = k - (StatusLen + 1) + 1
    BY <2>2, SliceAscends
  <2>4. QED BY <2>1, <2>2, <2>3
<1>10. Ascends(SliceOf(td, 3), HeadLen, upto) /\ Len(SliceOf(td, 3)) = upto - HeadLen
  <2>1. SliceOf(td, 3) = [j \in 1..(upto - (HeadLen + 1) + 1) |-> (HeadLen + 1) + j - 1]
    BY <1>4, <1>5, <1>7 DEF SliceOf
  <2>2. /\ (HeadLen + 1) - 1 = HeadLen /\ upto - (HeadLen + 1) + 1 = upto - HeadLen
        /\ HeadLen + 1 \in Nat \ {0} /\ HeadLen + 1 <= upto + 1
    BY <1>1
  <2>3. /\ Ascends([j \in 1..(upto - (HeadLen + 1) + 1) |-> (HeadLen + 1) + j - 1], (HeadLen + 1) - 1, upto)
        /\ Len([j \in 1..(upto - (HeadLen + 1) + 1) |-> (HeadLen + 1) + j - 1]) = upto - (HeadLen + 1) + 1
    BY <2>2, SliceAscends
  <2>4. QED BY <2>1, <2>2, <2>3
<1>11. QED BY <1>5, <1>6, <1>8, <1>9, <1>10 DEF P, PiecesFit, td

\* The way back is empty as long as the header loop runs.
LEMMA NothingSentBack ==
  ASSUME IInv, ~answered
  PROVE  /\ Chain(carry["client"], last["client"], buf["down"], <<>>, <<>>, <<>>, 0)
         /\ \A r1, r2, r3, h1, h2, hi :
              Ascends(r1, 0, h1) /\ Ascends(r2, h1, h2) /\ Ascends(r3, h2, hi) =>
                /\ Chain(carry["client"], last["client"], buf["down"], r1, r2, r3, hi)
                /\ Len(r1) = h1 /\ Len(r2) = h2 - h1 /\ Len(r3) = hi - h2 =>
                     Whole(carry["client"], last["client"], buf["down"], r1, r2, r3, hi)
<1>1. "cluster" \in Tasks /\ Peer("cluster") = "client" /\ Out("cluster") = "down"
  BY DEF Tasks, Peer, Out
<1>2. /\ Chain(carry["client"], last["client"], buf["down"], Slice("cluster", 1), Slice("cluster", 2), Slice("cluster", 3), 0)
      /\ Len(Window(buf["down"])) = Unread(buf["down"]) /\ Unread(buf["down"]) \in Nat
  <2>1. Flow("cluster")
    BY <1>1 DEF IInv
  <2>2. Base("cluster") = 0
    BY DEF Base
  <2>3. QED BY <1>1, <2>1, <2>2, Numbers DEF Flow
<1>3. \A r1, r2, r3, h1, h2, hi :
        Ascends(r1, 0, h1) /\ Ascends(r2, h1, h2) /\ Ascends(r3, h2, hi) =>
          /\ Chain(carry["client"], last["client"], buf["down"], r1, r2, r3, hi)
          /\ Len(r1) = h1 /\ Len(r2) = h2 - h1 /\ Len(r3) = hi - h2 =>
               Whole(carry["client"], last["client"], buf["down"], r1, r2, r3, hi)
  BY <1>2, ChainBegins
<1>4. Ascends(<<>>, 0, 0)
  BY NothingAscends
<1>5. QED BY <1>3, <1>4

LEMMA HeadCompleteIInv ==
  ASSUME IInv, NEW n \in 1..Room, HeadComplete(n)
  PROVE  IInv'
<1>. DEFINE t == "cluster"
            p == "client"
            upto == got[t] + n
            td == Pieces(HeadLen, upto)
<1>1. /\ Domains /\ HeadInv /\ Own(t) /\ Own(p) /\ Flow(t) /\ Flow(p) /\ Sleeper(t) /\ Sleeper(p)
      /\ t \in Tasks /\ p \in Tasks /\ p = Peer(t) /\ t = Peer(p) /\ Tasks = {t, p}
      /\ Out(t) = "down" /\ t # p
  BY Before DEF Tasks, Peer, Out
<1>2. /\ pc[t] = "heads" /\ t \notin asleep /\ n <= sent[t] - got[t]
      /\ tried = 0 /\ got[t] + n >= HeadLen
      /\ got' = [got EXCEPT ![t] = @ + n]
      /\ todo' = [todo EXCEPT ![t] = Pieces(HeadLen, got'[t])]
      /\ pc' = [pc EXCEPT ![t] = "write"] /\ answered' = TRUE /\ kept' = HeadLen
      /\ buf' \in MaybePolledPipe(t)
      /\ UNCHANGED <<asleep, carry, tried, sent, closed, queued, last, shut>>
  BY DEF HeadComplete, Runs, Available, remote
<1>3. /\ got'[t] = upto /\ got' = [got EXCEPT ![t] = upto] /\ got'[p] = got[p] /\ todo'[t] = td /\ todo'[p] = todo[p]
      /\ pc'[t] = "write" /\ pc'[p] = pc[p] /\ DOMAIN todo' = Tasks
  BY <1>1, <1>2 DEF Domains
<1>4. /\ got[t] \in Nat /\ sent[t] \in Nat /\ sent[t] <= MaxBytes /\ n \in Nat /\ n >= 1
      /\ MaxBytes \in Nat /\ HeadLen \in Nat /\ StatusLen \in Nat /\ StatusLen >= 1 /\ StatusLen <= HeadLen
      /\ Room \in Nat /\ ~answered
  <2>1. /\ MaxBytes \in Nat /\ HeadLen \in Nat /\ StatusLen \in Nat /\ StatusLen >= 1 /\ StatusLen <= HeadLen
        /\ Room \in Nat
    BY Constants
  <2>2. QED BY <1>1, <1>2, <2>1, Numbers DEF HeadInv
<1>5. upto \in Nat /\ upto <= sent[t] /\ upto <= MaxBytes /\ HeadLen <= upto /\ got[t] <= upto
  BY <1>2, <1>4
<1>6. /\ td \in Seq((1..(MaxBytes + 1)) \X (0..MaxBytes)) /\ Len(td) = 3 /\ td # <<>>
      /\ \A i \in 1..Len(td) : td[i][1] <= td[i][2] + 1
      /\ Ascends(SliceOf(td, 1), 0, StatusLen) /\ Len(SliceOf(td, 1)) = StatusLen
      /\ Ascends(SliceOf(td, 2), StatusLen, HeadLen) /\ Len(SliceOf(td, 2)) = HeadLen - StatusLen
      /\ Ascends(SliceOf(td, 3), HeadLen, upto) /\ Len(SliceOf(td, 3)) = upto - HeadLen
  <2>1. PiecesFit(td, HeadLen, upto)
    BY <1>4, <1>5, PiecesAscend
  <2>2. QED BY <2>1 DEF PiecesFit
<1>. HIDE DEF td, upto
<1>7. Slice(t, 1)' = SliceOf(td, 1) /\ Slice(t, 2)' = SliceOf(td, 2) /\ Slice(t, 3)' = SliceOf(td, 3)
  BY <1>3 DEF Slice, SliceOf
<1>8. Base(t)' = upto /\ Base(p)' = Base(p) /\ (Short(p)' => Short(p))
  BY <1>1, <1>2, <1>3, <1>4 DEF Base, Short
<1>9. /\ DOMAIN buf' = Dirs /\ buf'[Out(t)] = buf[Out(t)] /\ Own(p)' /\ Flow(p)' /\ Sleeper(p)'
  BY <1>1, <1>2, <1>3, <1>8, PeerOfAPoll
<1>10. Domains'
  BY <1>1, <1>2, <1>3, <1>5, <1>9 DEF Domains
<1>11. HeadInv'
  BY <1>1, <1>2, <1>3, <1>4, <1>5 DEF HeadInv
<1>12. Own(t)'
  <2>1. carry[t] = <<>> /\ ~buf[Out(t)].is_shutdown
    BY <1>1, <1>2 DEF Own
  <2>2. /\ todo'[t] \in Seq((1..(MaxBytes + 1)) \X (0..MaxBytes)) /\ Len(todo'[t]) <= 3 /\ todo'[t] # <<>>
        /\ \A i \in 1..Len(todo'[t]) : todo'[t][i][1] <= todo'[t][i][2] + 1
    BY <1>3, <1>6
  <2>3. got'[t] <= sent'[t] /\ sent'[t] = sent[t] /\ queued'[t] = queued[t] /\ last'[t] = last[t] /\ carry'[t] = <<>>
    BY <1>2, <1>3, <1>5, <2>1
  <2>4. QED BY <1>1, <1>3, <1>9, <2>1, <2>2, <2>3 DEF Own
<1>13. Flow(t)'
  <2>1. /\ Chain(carry[p], last[p], buf["down"], SliceOf(td, 1), SliceOf(td, 2), SliceOf(td, 3), upto)
        /\ Whole(carry[p], last[p], buf["down"], SliceOf(td, 1), SliceOf(td, 2), SliceOf(td, 3), upto)
    BY <1>4, <1>6, NothingSentBack
  <2>2. QED BY <1>1, <1>2, <1>7, <1>8, <1>9, <2>1 DEF Flow
<1>14. Sleeper(t)'
  BY <1>2 DEF Sleeper
<1>15. QED BY <1>1, <1>9, <1>10, <1>11, <1>12, <1>13, <1>14, BothTasks

LEMMA HeadFailsIInv ==
  ASSUME IInv, HeadFails
  PROVE  IInv'
<1>. DEFINE t == "cluster"
            p == "client"
            td == Pieces(kept, HeadLen)
            base == IF tried = 0 THEN kept ELSE got[t]
<1>1. /\ Domains /\ HeadInv /\ Own(t) /\ Own(p) /\ Flow(t) /\ Flow(p) /\ Sleeper(t) /\ Sleeper(p)
      /\ t \in Tasks /\ p \in Tasks /\ p = Peer(t) /\ t = Peer(p) /\ Tasks = {t, p}
      /\ Out(t) = "down" /\ Out(p) = "up" /\ In(p) = Out(t) /\ In(t) = Out(p) /\ t # p /\ Dirs = {"up", "down"}
  BY Before DEF Tasks, Peer, Out, Dirs
<1>2. /\ pc[t] = "heads" /\ t \notin asleep /\ answered' = TRUE
      /\ SocketEof(t) \/ tried > 0
      /\ UNCHANGED <<asleep, carry, tried, kept, got, sent, closed, queued, last>>
      /\ shut' = shut \/ shut' = shut \cup {t}
  BY DEF HeadFails, Runs, remote
<1>3. /\ got[t] \in Nat /\ tried \in Nat /\ kept \in Nat /\ kept < HeadLen /\ kept <= got[t] /\ ~answered
      /\ kept = 0 \/ kept >= StatusLen
      /\ MaxBytes \in Nat /\ HeadLen \in Nat /\ StatusLen \in Nat /\ StatusLen >= 1 /\ HeadLen <= MaxBytes
      /\ carry[t] = <<>> /\ todo[t] = <<>>
  <2>1. /\ MaxBytes \in Nat /\ HeadLen \in Nat /\ StatusLen \in Nat /\ StatusLen >= 1 /\ HeadLen <= MaxBytes
    BY Constants
  <2>2. QED BY <1>1, <1>2, <2>1 DEF HeadInv, Domains, Own
<1>4. /\ Base(t)' = base /\ base \in Nat /\ kept <= base
      /\ Base(p)' = Base(p) /\ (Short(p)' <=> Short(p)) /\ (Short(t)' => tried = 0)
  BY <1>1, <1>2, <1>3 DEF Base, Short
<1>5. shut' \subseteq Tasks
  BY <1>1, <1>2 DEF Domains
<1>6. CASE kept >= StatusLen
  <2>1. /\ pc' = [pc EXCEPT ![t] = "write"] /\ todo' = [todo EXCEPT ![t] = td] /\ buf' \in MaybePolledPipe(t)
    BY <1>6 DEF HeadFails
  <2>2. /\ pc'[t] = "write" /\ pc'[p] = pc[p] /\ todo'[t] = td /\ todo'[p] = todo[p] /\ DOMAIN todo' = Tasks
    BY <1>1, <2>1 DEF Domains
  <2>3. /\ td \in Seq((1..(MaxBytes + 1)) \X (0..MaxBytes)) /\ Len(td) = 3 /\ td # <<>>
        /\ \A i \in 1..Len(td) : td[i][1] <= td[i][2] + 1
        /\ Ascends(SliceOf(td, 1), 0, StatusLen) /\ Len(SliceOf(td, 1)) = StatusLen
        /\ Ascends(SliceOf(td, 2), StatusLen, kept) /\ Len(SliceOf(td, 2)) = kept - StatusLen
        /\ Ascends(SliceOf(td, 3), HeadLen, HeadLen) /\ Len(SliceOf(td, 3)) = HeadLen - HeadLen
    <3>1. kept <= HeadLen /\ StatusLen <= kept /\ HeadLen <= HeadLen
      BY <1>3, <1>6
    <3>2. PiecesFit(td, kept, HeadLen)
      BY <1>3, <3>1, PiecesAscend
    <3>3. QED BY <3>2 DEF PiecesFit
  <2>. HIDE DEF td
  <2>4. SliceOf(td, 3) = <<>> /\ Ascends(SliceOf(td, 3), kept, base)
    <3>1. SliceOf(td, 3) \in Seq(Nat) /\ Len(SliceOf(td, 3)) = 0
      BY <1>3, <2>3 DEF Ascends
    <3>2. SliceOf(td, 3) = <<>>
      BY <3>1, EmptySeq
    <3>3. QED BY <1>3, <1>4, <3>2, NothingAscends
  <2>5. Slice(t, 1)' = SliceOf(td, 1) /\ Slice(t, 2)' = SliceOf(td, 2) /\ Slice(t, 3)' = SliceOf(td, 3)
    BY <2>2 DEF Slice, SliceOf
  <2>6. /\ DOMAIN buf' = Dirs /\ buf'[Out(t)] = buf[Out(t)] /\ Own(p)' /\ Flow(p)' /\ Sleeper(p)'
    BY <1>1, <1>2, <1>4, <2>1, <2>2, PeerOfAPoll
  <2>7. Domains'
    BY <1>1, <1>2, <1>5, <2>1, <2>2, <2>6 DEF Domains
  <2>8. HeadInv'
    BY <1>1, <1>2, <1>3, <2>2 DEF HeadInv, SocketEof, Available
  <2>9. Own(t)'
    <3>1. ~buf[Out(t)].is_shutdown
      BY <1>1, <1>2 DEF Own
    <3>2. QED BY <1>1, <1>2, <1>3, <2>2, <2>3, <2>6, <3>1 DEF Own
  <2>10. Flow(t)'
    <3>1. Len(SliceOf(td, 3)) = 0
      BY <2>4
    <3>2. /\ Chain(carry[p], last[p], buf["down"], SliceOf(td, 1), SliceOf(td, 2), SliceOf(td, 3), base)
          /\ tried = 0 => Whole(carry[p], last[p], buf["down"], SliceOf(td, 1), SliceOf(td, 2), SliceOf(td, 3), base)
      <4>1. tried = 0 => Len(SliceOf(td, 3)) = base - kept
        BY <1>3, <3>1
      <4>2. QED BY <1>3, <2>3, <2>4, <4>1, NothingSentBack
    <3>3. QED BY <1>1, <1>2, <1>4, <2>5, <2>6, <3>2 DEF Flow
  <2>11. Sleeper(t)'
    BY <1>2 DEF Sleeper
  <2>12. QED BY <1>1, <2>6, <2>7, <2>8, <2>9, <2>10, <2>11, BothTasks
<1>7. CASE ~(kept >= StatusLen)
  <2>1. /\ pc' = [pc EXCEPT ![t] = "done"] /\ buf' = [d \in Dirs |-> Drop(buf[d], t)] /\ UNCHANGED todo /\ kept = 0
    BY <1>3, <1>7 DEF HeadFails
  <2>2. /\ pc'[t] = "done" /\ pc'[p] = pc[p] /\ DOMAIN buf' = Dirs
        /\ buf'[Out(t)] = Drop(buf[Out(t)], t) /\ buf'[Out(p)] = Drop(buf[Out(p)], t)
    BY <1>1, <2>1 DEF Domains
  <2>3. /\ buf'[Out(t)] \in Buffers(SizeOf(Out(t)), 0..MaxBytes, Tasks)
        /\ Like(buf[Out(t)], buf'[Out(t)]) /\ buf'[Out(t)].waker = buf[Out(t)].waker
    BY <1>1, <2>2, OthersOfATask
  <2>4. /\ buf'[Out(p)] \in Buffers(SizeOf(Out(p)), 0..MaxBytes, Tasks)
        /\ Like(buf[Out(p)], buf'[Out(p)]) /\ buf'[Out(p)].waker = buf[Out(p)].waker
    BY <1>1, <2>2, OthersOfATask
  <2>5. Domains'
    BY <1>1, <1>2, <1>5, <2>1, <2>2 DEF Domains
  <2>6. HeadInv'
    BY <1>1, <1>2, <1>3, <2>2 DEF HeadInv
  <2>7. Own(t)'
    BY <1>1, <1>2, <1>3, <2>1, <2>2, <2>3 DEF Own, Like
  <2>8. Own(p)'
    BY <1>1, <1>2, <2>1, <2>2, <2>4, OwnKept
  <2>9. Flow(t)'
    <3>1. Slice(t, 1)' = <<>> /\ Slice(t, 2)' = <<>> /\ Slice(t, 3)' = <<>>
      <4>1. Slice(t, 1) = <<>> /\ Slice(t, 2) = <<>> /\ Slice(t, 3) = <<>>
        BY <1>1, <1>3, NoSlices
      <4>2. QED BY <2>1, <4>1 DEF Slice
    <3>2. Ascends(<<>>, 0, 0) /\ Ascends(<<>>, 0, base)
      BY <1>4, NothingAscends
    <3>3. Len(<<>>) = 0 /\ Len(<<>>) = 0 - 0 /\ (tried = 0 => Len(<<>>) = base - 0)
      BY <2>1
    <3>4. /\ Chain(carry[p], last[p], buf["down"], <<>>, <<>>, <<>>, base)
          /\ tried = 0 => Whole(carry[p], last[p], buf["down"], <<>>, <<>>, <<>>, base)
      BY <1>3, <3>2, <3>3, NothingSentBack
    <3>5. /\ Chain(carry[p], last[p], buf'["down"], <<>>, <<>>, <<>>, base)
          /\ tried = 0 => Whole(carry[p], last[p], buf'["down"], <<>>, <<>>, <<>>, base)
      BY <1>1, <2>3, <3>4, ChainLike
    <3>6. QED BY <1>1, <1>2, <1>4, <3>1, <3>5 DEF Flow
  <2>10. Flow(p)'
    BY <1>1, <1>2, <1>4, <2>1, <2>4, FlowKept
  <2>11. Sleeper(t)'
    BY <1>2 DEF Sleeper
  <2>12. Sleeper(p)'
    BY <1>1, <1>2, <2>2, <2>3, <2>4, SleeperKept
  <2>13. QED BY <1>1, <2>5, <2>6, <2>7, <2>8, <2>9, <2>10, <2>11, <2>12, BothTasks
<1>8. QED BY <1>6, <1>7

-------------------------------------------------------------------------------
\* The first state, and all the steps.

Empty(b, size, max, tasks) ==
  /\ b \in Buffers(size, 0..max, tasks) /\ b.read_cursor = 0 /\ b.write_cursor = 0 /\ ~b.is_shutdown
  /\ Unread(b) = 0 /\ Window(b) = <<>>

LEMMA NewIsEmpty ==
  ASSUME NEW size \in Nat, NEW max \in Nat, NEW tasks, NEW w \in tasks, NEW r \in tasks
  PROVE  Empty(New(size, w, r), size, max, tasks)
<1>. DEFINE b == New(size, w, r)
<1>1. 0 \in 0..size /\ [i \in 0..(size - 1) |-> 0] \in [0..(size - 1) -> 0..max]
  OBVIOUS
<1>2. b \in Buffers(size, 0..max, tasks) /\ b.read_cursor = 0 /\ b.write_cursor = 0 /\ ~b.is_shutdown
  BY <1>1 DEF New, Buffers
<1>. HIDE DEF b
<1>3. Unread(b) = 0
  BY <1>2 DEF Unread
<1>4. Window(b) = <<>>
  BY <1>3 DEF Window
<1>5. QED BY <1>2, <1>3, <1>4 DEF b, Empty

LEMMA InitIInv ==
  ASSUME Init
  PROVE  IInv
<1>. DEFINE t == "cluster"
            p == "client"
<1>1. PICK rest \in 0..(MaxUp - HeadLen) :
        /\ got = [u \in Tasks |-> IF u = "client" THEN HeadLen + rest ELSE 0]
        /\ todo = [u \in Tasks |->
             IF u = "client" THEN <<<<1, StatusLen>>, <<StatusLen + 1, HeadLen>>,
                                    <<HeadLen + 1, HeadLen + rest>>>>
             ELSE <<>>]
  BY DEF Init
<1>2. /\ t \in Tasks /\ p \in Tasks /\ t = Peer(p) /\ p = Peer(t) /\ Tasks = {t, p}
      /\ Out(t) = "down" /\ Out(p) = "up" /\ Dirs = {"up", "down"}
      /\ SizeOf("up") = UpSize /\ SizeOf("down") = DownSize /\ MaxSent(t) = MaxDown /\ MaxSent(p) = MaxUp
  BY DEF Tasks, Peer, Out, Dirs, SizeOf, MaxSent
<1>3. /\ UpSize \in Nat /\ DownSize \in Nat /\ SockCap \in Nat /\ StatusLen \in Nat /\ StatusLen >= 1
      /\ HeadLen \in Nat /\ HeadLen >= 1 /\ StatusLen <= HeadLen /\ HeadLen <= MaxUp
      /\ MaxUp \in Nat /\ MaxDown \in Nat /\ MaxBytes \in Nat /\ MaxUp <= MaxBytes
  BY Constants
<1>. DEFINE upto == HeadLen + rest
            td == Pieces(HeadLen, upto)
<1>4. upto \in Nat /\ HeadLen <= upto /\ upto <= MaxUp /\ upto <= MaxBytes
  BY <1>3
<1>5. PiecesFit(td, HeadLen, upto)
  BY <1>3, <1>4, PiecesAscend
<1>6. got[p] = upto /\ got[t] = 0 /\ todo[p] = td /\ todo[t] = <<>> /\ DOMAIN todo = Tasks
  BY <1>1, <1>2 DEF Pieces
<1>7. got \in [Tasks -> Nat]
  BY <1>1, <1>3, <1>4
<1>. HIDE DEF upto, td
<1>8. /\ buf["up"] = New(UpSize, p, t) /\ buf["down"] = New(DownSize, t, p) /\ DOMAIN buf = Dirs
      /\ pc = [u \in Tasks |-> IF u = "client" THEN "write" ELSE "heads"]
      /\ pc[p] = "write" /\ pc[t] = "heads" /\ asleep = {}
      /\ carry = [u \in Tasks |-> <<>>] /\ ~answered /\ answered \in BOOLEAN /\ tried = 0 /\ kept = 0
      /\ sent = got /\ closed = {} /\ queued = [u \in Tasks |-> 0] /\ last = [u \in Tasks |-> 0] /\ shut = {}
  BY <1>2 DEF Init
<1>9. /\ buf["up"] \in Buffers(UpSize, 0..MaxBytes, Tasks) /\ buf["down"] \in Buffers(DownSize, 0..MaxBytes, Tasks)
      /\ \A d \in Dirs : /\ buf[d].read_cursor = 0 /\ buf[d].write_cursor = 0 /\ ~buf[d].is_shutdown
                         /\ Unread(buf[d]) = 0 /\ Window(buf[d]) = <<>>
  <2>1. Empty(buf["up"], UpSize, MaxBytes, Tasks)
    BY <1>2, <1>3, <1>8, NewIsEmpty
  <2>2. Empty(buf["down"], DownSize, MaxBytes, Tasks)
    BY <1>2, <1>3, <1>8, NewIsEmpty
  <2>3. QED BY <1>2, <2>1, <2>2 DEF Empty
<1>10. Domains
  <2>1. <<>> \in Seq(Nat) /\ 0 \in 0..SockCap /\ 0 \in Nat
    BY <1>3
  <2>2. QED BY <1>2, <1>6, <1>7, <1>8, <2>1 DEF Domains
<1>11. HeadInv
  BY <1>3, <1>6, <1>8 DEF HeadInv
<1>12. Own(p)
  <2>1. /\ todo[p] \in Seq((1..(MaxBytes + 1)) \X (0..MaxBytes)) /\ Len(todo[p]) <= 3 /\ todo[p] # <<>>
        /\ \A i \in 1..Len(todo[p]) : todo[p][i][1] <= todo[p][i][2] + 1
    <3>1. /\ td \in Seq((1..(MaxBytes + 1)) \X (0..MaxBytes)) /\ Len(td) = 3 /\ td # <<>>
          /\ \A i \in 1..Len(td) : td[i][1] <= td[i][2] + 1
      BY <1>5 DEF PiecesFit
    <3>2. Len(td) <= 3
      BY <3>1
    <3>3. QED BY <1>6, <3>1, <3>2
  <2>2. got[p] <= sent[p] /\ sent[p] <= MaxSent(p) /\ queued[p] <= last[p] /\ carry[p] = <<>>
    BY <1>2, <1>4, <1>6, <1>8
  <2>3. QED BY <1>2, <1>8, <1>9, <2>1, <2>2 DEF Own
<1>13. Own(t)
  <2>1. /\ todo[t] \in Seq((1..(MaxBytes + 1)) \X (0..MaxBytes)) /\ Len(todo[t]) = 0
    BY <1>6
  <2>2. \A i \in 1..Len(todo[t]) : todo[t][i][1] <= todo[t][i][2] + 1
    BY <2>1
  <2>3. got[t] <= sent[t] /\ sent[t] <= MaxSent(t) /\ queued[t] <= last[t] /\ carry[t] = <<>>
    BY <1>2, <1>3, <1>6, <1>8
  <2>4. QED BY <1>2, <1>6, <1>8, <1>9, <2>1, <2>2, <2>3 DEF Own
<1>14. Ascends(<<>>, 0, 0) /\ Len(<<>>) = 0
  BY NothingAscends
<1>15. Flow(p)
  <2>1. /\ Slice(p, 1) = SliceOf(td, 1) /\ Slice(p, 2) = SliceOf(td, 2) /\ Slice(p, 3) = SliceOf(td, 3)
        /\ Base(p) = upto
    BY <1>6 DEF Slice, SliceOf, Base
  <2>2. /\ Ascends(Slice(p, 1), 0, StatusLen) /\ Len(Slice(p, 1)) = StatusLen
        /\ Ascends(Slice(p, 2), StatusLen, HeadLen) /\ Len(Slice(p, 2)) = HeadLen - StatusLen
        /\ Ascends(Slice(p, 3), HeadLen, upto) /\ Len(Slice(p, 3)) = upto - HeadLen
    BY <1>5, <2>1 DEF PiecesFit
  <2>3. /\ carry[Peer(p)] = <<>> /\ last[Peer(p)] = 0 /\ buf[Out(p)].read_cursor = 0 /\ Window(buf[Out(p)]) = <<>>
        /\ Unread(buf[Out(p)]) = 0
    BY <1>2, <1>8, <1>9
  <2>4. Chain(<<>>, 0, buf[Out(p)], Slice(p, 1), Slice(p, 2), Slice(p, 3), upto)
    BY <1>3, <1>14, <2>2, <2>3 DEF Chain
  <2>5. 0 + 0 + 0 + StatusLen + (HeadLen - StatusLen) + (upto - HeadLen) = upto
    BY <1>3, <1>4
  <2>6. Whole(<<>>, 0, buf[Out(p)], Slice(p, 1), Slice(p, 2), Slice(p, 3), upto)
    BY <1>14, <2>2, <2>3, <2>5 DEF Whole
  <2>7. QED BY <2>1, <2>3, <2>4, <2>6 DEF Flow
<1>16. Flow(t)
  <2>1. Slice(t, 1) = <<>> /\ Slice(t, 2) = <<>> /\ Slice(t, 3) = <<>> /\ Base(t) = 0
    BY <1>2, <1>6, <1>8, NoSlices DEF Base
  <2>2. /\ carry[Peer(t)] = <<>> /\ last[Peer(t)] = 0 /\ buf[Out(t)].read_cursor = 0 /\ Window(buf[Out(t)]) = <<>>
        /\ Unread(buf[Out(t)]) = 0
    BY <1>2, <1>8, <1>9
  <2>3. Chain(<<>>, 0, buf[Out(t)], <<>>, <<>>, <<>>, 0)
    BY <1>14, <2>2 DEF Chain
  <2>4. 0 + 0 + 0 + 0 + 0 + 0 = 0
    OBVIOUS
  <2>5. Whole(<<>>, 0, buf[Out(t)], <<>>, <<>>, <<>>, 0)
    BY <1>14, <2>2, <2>4 DEF Whole
  <2>6. QED BY <2>1, <2>2, <2>3, <2>5 DEF Flow
<1>17. Sleeper(t) /\ Sleeper(p)
  BY <1>8 DEF Sleeper
<1>18. QED BY <1>2, <1>10, <1>11, <1>12, <1>13, <1>15, <1>16, <1>17 DEF IInv

LEMMA NextIInv ==
  ASSUME IInv, [Next]_vars
  PROVE  IInv'
<1>1. CASE HeadStep
  <2>1. CASE \E n \in 1..Room : HeadComplete(n)
    BY <2>1, HeadCompleteIInv
  <2>2. CASE \E n \in 1..Room : HeadGrows(n)
    BY <2>2, HeadGrowsIInv
  <2>3. CASE HeadFails
    BY <2>3, HeadFailsIInv
  <2>4. CASE HeadCancelled
    BY <2>4, HeadCancelledIInv
  <2>5. QED BY <1>1, <2>1, <2>2, <2>3, <2>4 DEF HeadStep
<1>2. ASSUME NEW t \in Tasks, TaskStep(t) PROVE IInv'
  <2>1. CASE PipeWrite(t)
    BY <2>1, PipeWriteIInv
  <2>2. CASE PipeFull(t)
    BY <2>2, PipeFullIInv
  <2>3. CASE SocketWrite(t)
    BY <2>3, SocketWriteIInv
  <2>4. CASE SocketFull(t)
    BY <2>4, SocketFullIInv
  <2>5. CASE SocketFails(t) \/ Finish(t)
    BY <2>5, ReturnIInv
  <2>6. CASE \E n \in 1..Room : FromSocket(t, n)
    BY <2>6, FromSocketIInv
  <2>7. CASE SocketEnds(t)
    BY <2>7, SocketEndsIInv
  <2>8. CASE FromPipe(t)
    BY <2>8, FromPipeIInv
  <2>9. CASE PipeEnds(t)
    BY <2>9, PipeEndsIInv
  <2>10. CASE Sleep(t)
    BY <2>10, SleepIInv
  <2>11. QED BY <1>2, <2>1, <2>2, <2>3, <2>4, <2>5, <2>6, <2>7, <2>8, <2>9, <2>10 DEF TaskStep
<1>3. ASSUME NEW t \in Tasks, RemoteStep(t) PROVE IInv'
  BY <1>3, RemoteStepIInv
<1>4. CASE UNCHANGED vars
  <2>1. UNCHANGED <<buf, pc, asleep, todo, carry, answered, tried, kept, got, sent, closed, queued, last, shut>>
    BY <1>4 DEF vars
  <2>2. Domains' /\ HeadInv'
    BY <2>1 DEF IInv, Domains, HeadInv, SocketEof, Available
  <2>3. ASSUME NEW t \in Tasks PROVE Own(t)' /\ Flow(t)' /\ Sleeper(t)'
    <3>1. Own(t) /\ Flow(t) /\ Sleeper(t)
      BY DEF IInv
    <3>2. Own(t)' /\ Sleeper(t)'
      BY <2>1, <3>1 DEF Own, Sleeper, Available
    <3>3. Flow(t)'
      BY <2>1, <3>1 DEF Flow, Base, Short, Slice
    <3>4. QED BY <3>2, <3>3
  <2>4. QED BY <2>2, <2>3 DEF IInv
<1>5. QED BY <1>1, <1>2, <1>3, <1>4 DEF Next

\* The inductive invariant holds in every state of a request, for every size of the
\* buffers, the sockets, the reads and the heads: process_cluster and
\* process_client_request keep to their own ends of the two StrictBuffers.
THEOREM RelayIInv == Spec => []IInv
<1>1. Init => IInv
  BY InitIInv
<1>2. IInv /\ [Next]_vars => IInv'
  BY NextIInv
<1>3. QED BY <1>1, <1>2, PTL DEF Spec

-------------------------------------------------------------------------------
\* What follows from it.

LEMMA CarriedBytes ==
  ASSUME NEW c, NEW l, NEW b, NEW s1, NEW s2, NEW s3, NEW hi, Chain(c, l, b, s1, s2, s3, hi),
         Len(Window(b)) = Unread(b), Unread(b) \in Nat, NEW max \in Nat, hi <= max
  PROVE  l \in 0..max /\ c \in Seq(1..max)
<1>1. PICK m1, m2, m3, m4 \in Nat :
        /\ Ascends(c, l, m1) /\ b.read_cursor <= m1 /\ Ascends(Window(b), m1, m2)
        /\ Ascends(s1, m2, m3) /\ Ascends(s2, m3, m4) /\ Ascends(s3, m4, hi)
  BY DEF Chain
<1>2. /\ l \in Nat /\ l <= m1 /\ m1 <= m2 /\ m2 <= m3 /\ m3 <= m4 /\ m4 <= hi /\ hi \in Nat
      /\ c \in Seq(Nat)
  <2>1. /\ c \in Seq(Nat) /\ Len(c) \in Nat /\ l \in Nat /\ l + Len(c) <= m1
        /\ m1 + Len(Window(b)) <= m2 /\ Len(Window(b)) \in Nat
    BY <1>1 DEF Ascends
  <2>2. /\ Len(s1) \in Nat /\ Len(s2) \in Nat /\ Len(s3) \in Nat /\ hi \in Nat
        /\ m2 + Len(s1) <= m3 /\ m3 + Len(s2) <= m4 /\ m4 + Len(s3) <= hi
    BY <1>1 DEF Ascends
  <2>3. QED BY <2>1, <2>2
<1>3. ASSUME NEW i \in 1..Len(c) PROVE c[i] \in 1..max
  <2>1. /\ i \in Nat /\ i >= 1 /\ i <= Len(c) /\ Len(c) \in Nat /\ c[i] \in Nat
        /\ l + i <= c[i] /\ c[i] + (Len(c) - i) <= m1
    BY <1>1, Places
  <2>2. 1 <= c[i] /\ c[i] <= m1
    BY <1>2, <2>1
  <2>3. QED BY <1>2, <2>1, <2>2
<1>4. c \in Seq(1..max)
  <2>1. Len(c) \in Nat /\ c = [i \in 1..Len(c) |-> c[i]]
    BY <1>2
  <2>2. c \in [1..Len(c) -> 1..max]
    BY <1>3, <2>1
  <2>3. QED BY <2>1, <2>2
<1>5. QED BY <1>2, <1>4

LEMMA IInvTypeOK ==
  ASSUME IInv
  PROVE  TypeOK
<1>1. ASSUME NEW t \in Tasks
      PROVE  /\ last[Peer(t)] \in 0..MaxBytes /\ carry[Peer(t)] \in Seq(1..MaxBytes)
             /\ got[t] \in 0..MaxBytes /\ sent[t] \in 0..MaxBytes
  <2>1. /\ Base(t) \in Nat /\ Base(t) <= got[t] /\ got[t] \in Nat /\ sent[t] \in Nat /\ got[t] <= sent[t]
        /\ sent[t] <= MaxBytes /\ MaxBytes \in Nat
        /\ Len(Window(buf[Out(t)])) = Unread(buf[Out(t)]) /\ Unread(buf[Out(t)]) \in Nat
    BY Numbers, Constants
  <2>2. Base(t) <= MaxBytes /\ got[t] \in 0..MaxBytes /\ sent[t] \in 0..MaxBytes
    BY <2>1
  <2>3. Chain(carry[Peer(t)], last[Peer(t)], buf[Out(t)], Slice(t, 1), Slice(t, 2), Slice(t, 3), Base(t))
    BY DEF IInv, Flow
  <2>4. last[Peer(t)] \in 0..MaxBytes /\ carry[Peer(t)] \in Seq(1..MaxBytes)
    BY <2>1, <2>2, <2>3, CarriedBytes
  <2>5. QED BY <2>2, <2>4
<1>2. ASSUME NEW t \in Tasks PROVE last[t] \in 0..MaxBytes /\ carry[t] \in Seq(1..MaxBytes)
  <2>1. Peer(t) \in Tasks /\ Peer(Peer(t)) = t
    BY TwoTasks
  <2>2. QED BY <1>1, <2>1
<1>3. /\ buf["up"] \in Buffers(UpSize, 0..MaxBytes, Tasks)
      /\ buf["down"] \in Buffers(DownSize, 0..MaxBytes, Tasks)
  <2>1. /\ "client" \in Tasks /\ "cluster" \in Tasks /\ Out("client") = "up" /\ Out("cluster") = "down"
        /\ SizeOf("up") = UpSize /\ SizeOf("down") = DownSize
    BY DEF Tasks, Out, SizeOf
  <2>2. Own("client") /\ Own("cluster")
    BY <2>1 DEF IInv
  <2>3. QED BY <2>1, <2>2 DEF Own
<1>4. ASSUME NEW t \in Tasks
      PROVE  todo[t] \in Seq((1..(MaxBytes + 1)) \X (0..MaxBytes)) /\ Len(todo[t]) <= 3
  BY DEF IInv, Own
<1>5. answered \in BOOLEAN /\ tried \in 0..MaxBytes /\ kept \in 0..HeadLen
  <2>1. "cluster" \in Tasks
    BY DEF Tasks
  <2>2. tried \in Nat /\ tried <= got["cluster"] /\ got["cluster"] \in 0..MaxBytes /\ MaxBytes \in Nat
    BY <1>1, <2>1, Constants DEF IInv, HeadInv
  <2>3. tried \in 0..MaxBytes
    BY <2>2
  <2>4. QED BY <2>3 DEF IInv, HeadInv
<1>6. got \in [Tasks -> 0..MaxBytes] /\ sent \in [Tasks -> 0..MaxBytes] /\ last \in [Tasks -> 0..MaxBytes]
  BY <1>1, <1>2 DEF IInv, Domains
<1>7. /\ pc \in [Tasks -> {"heads", "write", "select", "socket", "closing", "done"}]
      /\ asleep \subseteq Tasks /\ closed \subseteq Tasks /\ shut \subseteq Tasks
      /\ queued \in [Tasks -> 0..SockCap]
  BY DEF IInv, Domains
<1>8. QED BY <1>2, <1>3, <1>4, <1>5, <1>6, <1>7 DEF TypeOK

\* All that is inside the gateway in one direction.
LEMMA InsideAscends ==
  ASSUME IInv, NEW t \in Tasks
  PROVE  /\ Ascends(Inside(t), last[Peer(t)], Base(t))
         /\ Short(t) => last[Peer(t)] + Len(Inside(t)) = Base(t)
<1>. DEFINE c == carry[Peer(t)]
            l == last[Peer(t)]
            b == buf[Out(t)]
            s1 == Slice(t, 1)
            s2 == Slice(t, 2)
            s3 == Slice(t, 3)
<1>1. /\ Chain(c, l, b, s1, s2, s3, Base(t))
      /\ Short(t) => Whole(c, l, b, s1, s2, s3, Base(t))
      /\ Len(Window(b)) = Unread(b) /\ Unread(b) \in Nat
  BY Numbers DEF IInv, Flow
<1>2. Inside(t) = c \o Window(b) \o (s1 \o s2 \o s3)
  BY DEF Inside, Slices
<1>. HIDE DEF c, l, b, s1, s2, s3
<1>3. /\ Ascends(Inside(t), l, Base(t))
      /\ Len(Inside(t)) = (Len(c) + Len(Window(b))) + ((Len(s1) + Len(s2)) + Len(s3))
  <2>1. Chain(c, l, b, s1, s2, s3, Base(t))
    BY <1>1
  <2>2. /\ Ascends(c \o Window(b) \o (s1 \o s2 \o s3), l, Base(t))
        /\ Len(c \o Window(b) \o (s1 \o s2 \o s3)) =
             (Len(c) + Len(Window(b))) + ((Len(s1) + Len(s2)) + Len(s3))
    BY <2>1, ChainInARow
  <2>3. QED BY <1>2, <2>2
<1>4. /\ l \in Nat /\ Len(c) \in Nat /\ Len(s1) \in Nat /\ Len(s2) \in Nat /\ Len(s3) \in Nat
  BY <1>1, ChainFits
<1>5. ASSUME Short(t) PROVE l + Len(Inside(t)) = Base(t)
  <2>1. l + Len(c) + Unread(b) + Len(s1) + Len(s2) + Len(s3) = Base(t)
    BY <1>1, <1>5 DEF Whole
  <2>2. QED BY <1>1, <1>3, <1>4, <2>1
<1>6. QED BY <1>3, <1>5 DEF l

LEMMA IInvInOrder ==
  ASSUME IInv
  PROVE  InOrder
<1>1. ASSUME NEW t \in Tasks, NEW s, s = Inside(t)
      PROVE  /\ \A i \in 1..Len(s) : last[Peer(t)] < s[i] /\ s[i] <= got[t]
             /\ \A i \in 1..(Len(s) - 1) : s[i] < s[i + 1]
  <2>1. Ascends(s, last[Peer(t)], Base(t)) /\ Base(t) \in Nat /\ Base(t) <= got[t] /\ got[t] \in Nat
    BY <1>1, InsideAscends, Numbers
  <2>2. s \in Seq(Nat) /\ Len(s) \in Nat
    BY <2>1 DEF Ascends
  <2>3. ASSUME NEW i \in 1..Len(s) PROVE last[Peer(t)] < s[i] /\ s[i] <= got[t]
    <3>1. /\ i \in Nat /\ i >= 1 /\ i <= Len(s) /\ s[i] \in Nat /\ last[Peer(t)] \in Nat
          /\ last[Peer(t)] + i <= s[i] /\ s[i] + (Len(s) - i) <= Base(t)
      BY <2>1, Places
    <3>2. QED BY <2>1, <2>2, <3>1
  <2>4. ASSUME NEW i \in 1..(Len(s) - 1) PROVE s[i] < s[i + 1]
    <3>1. i \in 1..Len(s) /\ i + 1 \in 1..Len(s) /\ i < i + 1 /\ (i + 1) - i = 1
      BY <2>2
    <3>2. s[i] + ((i + 1) - i) <= s[i + 1]
      BY <2>1, <3>1 DEF Ascends
    <3>3. s[i] \in Nat /\ s[i + 1] \in Nat
      BY <2>2, <3>1
    <3>4. QED BY <3>1, <3>2, <3>3
  <2>5. QED BY <2>3, <2>4
<1>2. QED BY <1>1 DEF InOrder

\* In every state of a request its variables are typed, no byte overtakes another or is
\* repeated on its way between the sockets through process_client_request,
\* process_cluster_request and the StrictBuffers, and a task that sleeps is where
\* somebody will wake it: in the slot of the buffer it waits for, or at its socket.
THEOREM RelayInvHolds == Spec => []RelayInv
<1>1. IInv => RelayInv
  <2>1. SUFFICES ASSUME IInv PROVE RelayInv
    OBVIOUS
  <2>2. SleepersAreRegistered
    <3>1. ASSUME NEW t \in asleep
          PROVE  /\ pc[t] \in {"select", "heads"} =>
                      /\ Available(t) = 0 /\ t \notin closed
                      /\ NothingToRead(buf[In(t)])
                      /\ buf[In(t)].waker = t
                 /\ pc[t] = "write" => Full(buf[Out(t)]) /\ buf[Out(t)].waker = t
                 /\ pc[t] = "socket" => queued[t] = SockCap
      <4>1. t \in Tasks
        BY <2>1 DEF IInv, Domains
      <4>2. Sleeper(t)
        BY <2>1, <4>1 DEF IInv
      <4>3. QED BY <4>2 DEF Sleeper
    <3>2. QED BY <3>1 DEF SleepersAreRegistered
  <2>3. QED BY <2>1, <2>2, IInvTypeOK, IInvInOrder DEF RelayInv
<1>2. QED BY <1>1, RelayIInv, PTL

\* connection.write and write_buffer.write are never completed (write, not write_all),
\* and yet nothing is lost of what fits the buffer and the socket it goes through, as
\* long as no read of the response's head was cancelled.
THEOREM ShortMessages == Spec => []ShortMessagesArriveWhole
<1>1. ASSUME IInv, NEW t \in Tasks
      PROVE  LET short == got[t] <= SizeOf(Out(t)) /\ got[t] <= SockCap
                 reading == t = "cluster" /\ ~answered
             IN short /\ (t = "cluster" => tried = 0)
                  => Len(Inside(t)) = (IF reading THEN 0 ELSE
                                       IF t = "cluster" /\ kept < HeadLen THEN kept ELSE got[t])
                                      - last[Peer(t)]
  <2>1. SUFFICES ASSUME got[t] <= SizeOf(Out(t)), got[t] <= SockCap, t = "cluster" => tried = 0
                 PROVE  Len(Inside(t)) = (IF t = "cluster" /\ ~answered THEN 0 ELSE
                                          IF t = "cluster" /\ kept < HeadLen THEN kept ELSE got[t])
                                         - last[Peer(t)]
    OBVIOUS
  <2>2. Base(t) = (IF t = "cluster" /\ ~answered THEN 0 ELSE
                   IF t = "cluster" /\ kept < HeadLen THEN kept ELSE got[t])
    BY <2>1 DEF Base
  <2>3. last[Peer(t)] + Len(Inside(t)) = Base(t)
    BY <1>1, <2>1, InsideAscends DEF Short
  <2>4. last[Peer(t)] \in Nat /\ Len(Inside(t)) \in Nat /\ Base(t) \in Nat
    BY <1>1, InsideAscends DEF Ascends
  <2>5. Len(Inside(t)) = Base(t) - last[Peer(t)]
    BY <2>3, <2>4
  <2>6. QED BY <2>2, <2>5
<1>2. IInv => ShortMessagesArriveWhole
  BY <1>1 DEF ShortMessagesArriveWhole
<1>3. QED BY <1>2, RelayIInv, PTL

===============================================================================
