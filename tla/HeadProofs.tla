-------------------------------- MODULE HeadProofs --------------------------------
(***************************************************************************)
(* Proofs about the head of a request: how it is read, for every stream and    *)
(* size of the array (HeaderReader), and what becomes of it, for every document *)
(* and request (Routing).                                                    *)
(***************************************************************************)
EXTENDS HeaderReader, Routing, TLAPS, SequenceTheorems, FiniteSetTheorems, WellFoundedInduction

\* Numbers: an induction is the least element of a set.
\* Every set of numbers has a least one.
LEMMA LeastNumber ==
  ASSUME NEW S, S \subseteq Nat, S # {}
  PROVE  \E x \in S : \A y \in S : x <= y
<1>1. \E x \in S : \A y \in S : ~ (<<y, x>> \in OpToRel(<, Nat))
  BY NatLessThanWellFounded, WFMin, Zenon
<1>2. ASSUME NEW x \in S, NEW y \in S, ~ (<<y, x>> \in OpToRel(<, Nat)) PROVE x <= y
  <2>1. <<y, x>> \in Nat \X Nat
    OBVIOUS
  <2>2. ~ (y < x)
    BY <1>2, <2>1 DEF OpToRel
  <2>3. QED BY <2>2
<1>3. QED BY <1>1, <1>2

LEMMA MinIsLeast ==
  ASSUME NEW S, S \subseteq Nat, S # {}
  PROVE  Min(S) \in S /\ \A y \in S : Min(S) <= y
<1>1. \E x \in S : \A y \in S : x <= y
  BY LeastNumber
<1>2. QED BY <1>1 DEF Min

\* The least number of a set is the one below which there is no other.
LEMMA MinIs ==
  ASSUME NEW S, S \subseteq Nat, NEW x \in S, \A y \in S : ~ (y < x)
  PROVE  Min(S) = x
<1>1. Min(S) \in S /\ \A y \in S : Min(S) <= y
  BY MinIsLeast
<1>2. Min(S) \in Nat /\ x \in Nat /\ Min(S) <= x /\ ~ (Min(S) < x)
  BY <1>1
<1>3. QED BY <1>2


\* Induction over an interval, for the set of the numbers that have the property.
LEMMA Induction ==
  ASSUME NEW n \in Nat, NEW T, 0 \in T, \A k \in 0..(n - 1) : k \in T => k + 1 \in T
  PROVE  \A k \in 0..n : k \in T
<1> DEFINE Missing == {k \in 0..n : k \notin T}
<1> SUFFICES ASSUME Missing # {} PROVE FALSE
  OBVIOUS
<1>1. Missing \subseteq Nat
  OBVIOUS
<1>2. PICK m \in Missing : \A y \in Missing : m <= y
  BY <1>1, LeastNumber
<1>3. m # 0 /\ m \in 0..n
  BY <1>2
<1>4. m - 1 \in 0..(n - 1) /\ m - 1 \in 0..n /\ ~ (m <= m - 1)
  BY <1>3
<1>5. m - 1 \in T
  BY <1>2, <1>4
<1>6. (m - 1) + 1 \in T /\ (m - 1) + 1 = m
  BY <1>4, <1>5, <1>3
<1>7. QED BY <1>2, <1>6

\* And downwards, from the end of a sequence.
LEMMA DownwardInduction ==
  ASSUME NEW n \in Nat, NEW T, n + 1 \in T,
         \A i \in 1..n : (\A j \in (i + 1)..(n + 1) : j \in T) => i \in T
  PROVE  \A i \in 1..(n + 1) : i \in T
<1> DEFINE U == {k \in 0..n : \A j \in ((n + 1) - k)..(n + 1) : j \in T}
<1>1. 0 \in U
  OBVIOUS
<1>2. ASSUME NEW k \in 0..(n - 1), k \in U PROVE k + 1 \in U
  <2>1. n - k \in 1..n /\ (n + 1) - (k + 1) = n - k /\ (n + 1) - k = (n - k) + 1
    OBVIOUS
  <2>2. \A j \in ((n - k) + 1)..(n + 1) : j \in T
    BY <1>2, <2>1
  <2>3. n - k \in T
    BY <2>1, <2>2
  <2>4. \A j \in (n - k)..(n + 1) : j \in T
    <3> TAKE j \in (n - k)..(n + 1)
    <3>1. j = n - k \/ j \in ((n - k) + 1)..(n + 1)
      BY <2>1
    <3>2. QED BY <2>2, <2>3, <3>1
  <2>5. QED BY <2>1, <2>4
<1> HIDE DEF U
<1>3. \A k \in 0..n : k \in U
  BY <1>1, <1>2, Induction
<1>4. n \in U
  BY <1>3
<1>5. QED BY <1>4 DEF U

\* A function that is defined by what it was before is there, and all its values are
\* in a set that its steps do not leave.
Stays(S, g, n) == \A x \in S : \A i \in 1..n : g[<<x, i>>] \in S
Folds(f, S, g, base, n) == f \in [0..n -> S] /\ f[0] = base /\ \A i \in 1..n : f[i] = g[<<f[i - 1], i>>]
LEMMA FoldExists ==
  ASSUME NEW S, NEW g, NEW base \in S, NEW n \in Nat, Stays(S, g, n)
  PROVE  \E f : Folds(f, S, g, base, n)
<1>0. \A x \in S : \A i \in 1..n : g[<<x, i>>] \in S
  BY DEF Stays
<1> DEFINE Ok(k) == \E f : f \in [0..k -> S] /\ f[0] = base /\ \A i \in 1..k : f[i] = g[<<f[i - 1], i>>]
           T == {k \in Nat : Ok(k)}
<1>1. Ok(0)
  <2> WITNESS [i \in 0..0 |-> base]
  <2> QED OBVIOUS
<1>2. ASSUME NEW k \in 0..(n - 1), Ok(k) PROVE Ok(k + 1)
  <2>1. PICK f : f \in [0..k -> S] /\ f[0] = base /\ \A i \in 1..k : f[i] = g[<<f[i - 1], i>>]
    BY <1>2
  <2> DEFINE h == [i \in 0..(k + 1) |-> IF i <= k THEN f[i] ELSE g[<<f[k], k + 1>>]]
  <2>2. h \in [0..(k+1) -> S] /\ h[0] = base
    <3>1. g[<<f[k], k + 1>>] \in S
      <4>1. f[k] \in S /\ k + 1 \in 1..n
        BY <2>1, <1>2
      <4>2. QED BY <4>1, <1>0
    <3>2. \A i \in 0..(k + 1) : i <= k => i \in 0..k
      BY <1>2
    <3>3. QED BY <2>1, <3>1, <3>2, <1>2
  <2>3. ASSUME NEW i \in 1..(k + 1) PROVE h[i] = g[<<h[i - 1], i>>]
    <3>1. CASE i <= k
      <4>1. i \in 1..k /\ i - 1 \in 0..k
        BY <3>1, <1>2
      <4>2. h[i] = f[i] /\ h[i - 1] = f[i - 1]
        BY <4>1, <1>2
      <4>3. QED BY <2>1, <4>1, <4>2
    <3>2. CASE i = k + 1
      <4>1. ~ (k + 1 <= k) /\ i - 1 = k /\ k \in 0..(k + 1) /\ k + 1 \in 0..(k + 1)
        BY <3>2, <1>2
      <4>2. h[i] = g[<<f[k], k + 1>>] /\ h[i - 1] = f[k]
        BY <4>1, <3>2, <1>2
      <4>3. QED BY <4>2, <3>2
    <3>3. QED BY <3>1, <3>2, <1>2
  <2>4. \A i \in 1..(k + 1) : h[i] = g[<<h[i - 1], i>>]
    BY <2>3
  <2> QED BY <2>2, <2>4
<1> HIDE DEF Ok
<1>3. Ok(n)
  <2>1. 0 \in T
    BY <1>1
  <2>2. \A k \in 0..(n - 1) : k \in T => k + 1 \in T
    BY <1>2
  <2> HIDE DEF T
  <2>3. \A k \in 0..n : k \in T
    BY <2>1, <2>2, Induction
  <2>4. n \in T
    BY <2>3
  <2>5. QED BY <2>4 DEF T
<1>4. QED BY <1>3 DEF Ok, Folds

\* A sequence is over every set its elements are in; a prefix keeps the elements.
LEMMA Retyped ==
  ASSUME NEW A, NEW B, NEW s \in Seq(A), \A i \in 1..Len(s) : s[i] \in B
  PROVE  s \in Seq(B)
<1>1. Len(s) \in Nat /\ s = [i \in 1..Len(s) |-> s[i]]
  OBVIOUS
<1>2. [i \in 1..Len(s) |-> s[i]] \in Seq(B)
  BY <1>1
<1>3. QED BY <1>1, <1>2, Zenon

LEMMA Cut ==
  ASSUME NEW A, NEW s \in Seq(A), NEW n \in 0..Len(s)
  PROVE  SubSeq(s, 1, n) \in Seq(A) /\ Len(SubSeq(s, 1, n)) = n /\ \A i \in 1..n : SubSeq(s, 1, n)[i] = s[i]
<1>1. Len(s) \in Nat /\ n \in Int /\ \A i \in 1..n : s[i] \in A
  OBVIOUS
<1>2. QED BY <1>1, SubSeqProperties

LEMMA AnyCut ==
  ASSUME NEW A, NEW s \in Seq(A), NEW m \in Nat \ {0}, NEW n \in 0..Len(s)
  PROVE  /\ SubSeq(s, m, n) \in Seq(A) /\ Len(SubSeq(s, m, n)) = IF m <= n THEN n - m + 1 ELSE 0
         /\ \A i \in 1..(n - m + 1) : SubSeq(s, m, n)[i] = s[m + i - 1]
<1>1. Len(s) \in Nat /\ m \in Int /\ n \in Int /\ \A i \in m..n : s[i] \in A
  OBVIOUS
<1>2. QED BY <1>1, SubSeqProperties

-------------------------------------------------------------------------------
\* HeaderReader: types, and the array.
\* The window lies inside the array and inside what was read.
WindowInv ==
  /\ pos \in Nat /\ read_buf \in Nat /\ consumed \in Nat
  /\ pos <= read_buf /\ read_buf <= BufferSize /\ read_buf <= consumed
  /\ DOMAIN read_buffer = 1..BufferSize
  /\ WindowIsTheStream

\* A byte that is looked at leaves the window.
LEMMA Advance ==
  ASSUME WindowInv, pos < read_buf, pos' = pos + 1,
         UNCHANGED <<stream, read_buffer, read_buf, consumed>>
  PROVE  WindowInv'
BY DEF WindowInv, WindowIsTheStream

\* A read replaces the front of the array, and the window is this front.
LEMMA ReadWindow ==
  ASSUME WindowInv, NEW n \in 1..BufferSize, Read(n)
  PROVE  WindowInv'
<1> USE BufferAssumption
<1>1. /\ pos' = 0 /\ read_buf' = n /\ consumed' = consumed + n /\ stream' = stream
      /\ read_buffer' = [i \in 1..BufferSize |-> IF i <= n THEN stream[consumed + i] ELSE read_buffer[i]]
  BY DEF Read, source
<1>2. \A i \in 1..n : read_buffer'[i] = stream[consumed + i]
  BY <1>1
<1>3. \A i \in (pos' + 1)..read_buf' : read_buffer'[i] = stream'[consumed' - read_buf' + i]
  <2> TAKE i \in (pos' + 1)..read_buf'
  <2>1. i \in 1..n
    BY <1>1
  <2>2. consumed' - read_buf' + i = consumed + i
    BY <1>1, <2>1 DEF WindowInv
  <2>3. QED BY <1>1, <1>2, <2>1, <2>2
<1>4. DOMAIN read_buffer' = 1..BufferSize
  BY <1>1
<1>5. pos' \in Nat /\ read_buf' \in Nat /\ consumed' \in Nat
      /\ pos' <= read_buf' /\ read_buf' <= BufferSize /\ read_buf' <= consumed'
  BY <1>1 DEF WindowInv
<1>6. QED BY <1>3, <1>4, <1>5 DEF WindowInv, WindowIsTheStream

LEMMA NextWindow == WindowInv /\ [ReaderNext]_reader_vars => WindowInv'
<1> SUFFICES ASSUME WindowInv, [ReaderNext]_reader_vars PROVE WindowInv'
  OBVIOUS
<1>1. CASE LineEnds
  BY <1>1, Advance DEF LineEnds, source
<1>2. CASE Byte
  BY <1>2, Advance DEF Byte, source
<1>3. CASE Closed
  BY <1>3 DEF Closed, source, window, WindowInv, WindowIsTheStream
<1>4. CASE \E n \in 1..BufferSize : Read(n)
  BY <1>4, ReadWindow
<1>5. CASE UNCHANGED reader_vars
  BY <1>5 DEF reader_vars, source, window, WindowInv, WindowIsTheStream
<1>6. QED BY <1>1, <1>2, <1>3, <1>4, <1>5 DEF ReaderNext

LEMMA InitWindow == ReaderInit => WindowInv
BY BufferAssumption DEF ReaderInit, WindowInv, WindowIsTheStream

\* Whatever a peer sends and however its reads cut it, what read_line has not looked at
\* is what was read last: bytes that an earlier read left in the array are never parsed.
THEOREM NothingStaleIsParsed == ReaderSpec => []WindowIsTheStream
<1>1. WindowInv => WindowIsTheStream
  BY DEF WindowInv
<1>2. QED BY InitWindow, NextWindow, <1>1, PTL DEF ReaderSpec

-------------------------------------------------------------------------------
\* The rest of the type invariant: the window is inside what the peer sent, and so
\* the_rest holds nothing but bytes of its.
TypeInv ==
  /\ ReaderTypeOK
  /\ WindowInv

Texts == Seq(Bytes \cup {Nul})

LEMMA DecodedType ==
  ASSUME NEW text \in Texts, NEW p \in BOOLEAN, NEW byte \in Bytes \cup {Nul}
  PROVE  /\ Decoded([text |-> text, pending |-> p], byte).text \in Texts
         /\ Decoded([text |-> text, pending |-> p], byte).pending \in BOOLEAN
<1>1. Append(text, Nul) \in Texts /\ Append(text, byte) \in Texts
  BY DEF Texts
<1>2. CASE byte = "hi"
  BY <1>1, <1>2 DEF Decoded
<1>3. CASE byte = "lo"
  BY <1>1, <1>3 DEF Decoded
<1>4. CASE byte \notin {"hi", "lo"}
  BY <1>1, <1>4 DEF Decoded
<1>5. QED BY <1>2, <1>3, <1>4

LEMMA FirstLineType ==
  ASSUME NEW text, NEW isRequest
  PROVE  FirstLine(text, isRequest) \in {"reading", "invalid", "panicked"}
BY Zenon DEF FirstLine

\* Behind the position there are bytes of the stream only.
LEMMA RestType ==
  ASSUME TypeInv, pos < read_buf
  PROVE  SubSeq(read_buffer, pos + 2, read_buf) \in Seq(Bytes)
<1> DEFINE rest == SubSeq(read_buffer, pos + 2, read_buf)
<1>1. read_buffer \in Seq(Bytes \cup {Nul}) /\ Len(read_buffer) = BufferSize
  BY BufferAssumption DEF TypeInv, ReaderTypeOK
<1>2. pos + 2 \in 1..(Len(read_buffer) + 1) /\ read_buf \in (pos + 1)..Len(read_buffer)
  BY <1>1, BufferAssumption DEF TypeInv, WindowInv
<1>3. /\ rest \in Seq(Bytes \cup {Nul})
      /\ Len(rest) = IF pos + 2 <= read_buf THEN read_buf - (pos + 2) + 1 ELSE 0
      /\ \A i \in 1..(read_buf - (pos + 2) + 1) : rest[i] = read_buffer[pos + 2 + i - 1]
  <2>1. \A i \in (pos + 2)..read_buf : read_buffer[i] \in Bytes \cup {Nul}
    <3> TAKE i \in (pos + 2)..read_buf
    <3>1. i \in 1..Len(read_buffer)
      BY <1>1, <1>2
    <3>2. QED BY <1>1, <3>1, ElementOfSeq
  <2>2. pos + 2 \in Int /\ read_buf \in Int
    BY <1>2
  <2>3. QED BY <2>1, <2>2, SubSeqProperties, SMT
<1>4. \A i \in 1..Len(rest) : rest[i] \in Bytes
  <2> TAKE i \in 1..Len(rest)
  <2>1. /\ pos + 1 + i \in (pos + 1)..read_buf
        /\ i \in 1..(read_buf - (pos + 2) + 1) /\ pos + 2 + i - 1 = pos + 1 + i
    BY <1>3 DEF TypeInv, WindowInv
  <2>2. rest[i] = stream[consumed - read_buf + (pos + 1 + i)]
    BY <1>3, <2>1 DEF TypeInv, WindowInv, WindowIsTheStream
  <2>3. consumed - read_buf + (pos + 1 + i) \in 1..Len(stream)
    BY <2>1 DEF TypeInv, ReaderTypeOK, WindowInv
  <2>4. QED BY <2>2, <2>3, ElementOfSeq DEF TypeInv, ReaderTypeOK
<1>5. rest \in [1..Len(rest) -> Bytes] /\ Len(rest) \in Nat
  BY <1>3, <1>4, LenProperties
<1>6. QED BY <1>5, SeqDef

\* A line that ends: what it makes of its text is of the right type whatever the text.
LEMMA LineEndsType ==
  ASSUME TypeInv, LineEnds
  PROVE  ReaderTypeOK'
<1>1. received' \in Nat
  <2>1. Len(new_string) \in Nat
    BY DEF TypeInv, ReaderTypeOK
  <2>2. received' = received + Len(new_string) + read_buf - (pos + 1) /\ pos < read_buf
    BY DEF LineEnds, Counted
  <2>3. QED BY <2>1, <2>2 DEF TypeInv, ReaderTypeOK, WindowInv
<1>2. line' \in {"first", "header"} /\ the_rest' \in Seq(Bytes)
      /\ result' \in {"reading", "done", "invalid", "panicked", "closed"}
  <2>1. CASE FirstLineEnds
    BY <2>1, FirstLineType DEF FirstLineEnds, TypeInv, ReaderTypeOK
  <2>2. CASE HeaderLineEnds
    BY <2>2, RestType DEF HeaderLineEnds, LineEnds, TypeInv, ReaderTypeOK
  <2>3. QED BY <2>1, <2>2 DEF LineEnds
<1>3. pos' \in 0..read_buf' /\ read_buf' \in 0..BufferSize
  BY DEF LineEnds, TypeInv, ReaderTypeOK, WindowInv
<1>4. new_string' \in Seq(Bytes \cup {Nul}) /\ pending' \in BOOLEAN
  <2>1. <<>> \in Seq(Bytes \cup {Nul})
    BY EmptySeq
  <2>2. QED BY <2>1 DEF LineEnds
<1>5. QED BY <1>1, <1>2, <1>3, <1>4 DEF LineEnds, source, TypeInv, ReaderTypeOK

LEMMA ByteType ==
  ASSUME TypeInv, Byte
  PROVE  ReaderTypeOK'
<1>1. read_buffer[pos + 1] \in Bytes \cup {Nul}
  BY BufferAssumption DEF Byte, TypeInv, ReaderTypeOK, WindowInv
<1>2. new_string' \in Seq(Bytes \cup {Nul}) /\ pending' \in BOOLEAN
  BY <1>1, DecodedType DEF Byte, TypeInv, ReaderTypeOK, Texts
<1>3. pos' \in 0..read_buf'
  BY DEF Byte, TypeInv, ReaderTypeOK, WindowInv
<1>4. QED BY <1>2, <1>3 DEF Byte, source, parsed, TypeInv, ReaderTypeOK

LEMMA ReadType ==
  ASSUME TypeInv, NEW n \in 1..BufferSize, Read(n)
  PROVE  ReaderTypeOK'
<1> USE BufferAssumption
<1>1. Len(stream) \in Nat
  BY DEF TypeInv, ReaderTypeOK
<1>2. consumed' \in 0..Len(stream') /\ read_buf' \in 0..BufferSize /\ pos' \in 0..read_buf'
  BY <1>1 DEF Read, source, TypeInv, ReaderTypeOK, WindowInv
<1>3. \A i \in 1..n : stream[consumed + i] \in Bytes
  <2> TAKE i \in 1..n
  <2>1. consumed + i \in 1..Len(stream)
    BY <1>1 DEF Read, TypeInv, WindowInv
  <2>2. QED BY <2>1, ElementOfSeq DEF TypeInv, ReaderTypeOK
<1>4. read_buffer' \in [1..BufferSize -> Bytes \cup {Nul}]
  BY <1>3 DEF Read, TypeInv, ReaderTypeOK
<1>5. QED BY <1>2, <1>4 DEF Read, source, parsed, TypeInv, ReaderTypeOK

LEMMA NextType == TypeInv /\ [ReaderNext]_reader_vars => TypeInv'
<1> SUFFICES ASSUME TypeInv, [ReaderNext]_reader_vars PROVE ReaderTypeOK'
  BY NextWindow DEF TypeInv
<1>1. CASE Closed
  BY <1>1 DEF Closed, source, window, TypeInv, ReaderTypeOK
<1>2. CASE UNCHANGED reader_vars
  BY <1>2 DEF reader_vars, source, window, parsed, TypeInv, ReaderTypeOK
<1>3. QED BY <1>1, <1>2, LineEndsType, ByteType, ReadType DEF ReaderNext

LEMMA InitType == ReaderInit => TypeInv
<1>1. ReaderInit => ReaderTypeOK
  <2>1. <<>> \in Seq(Bytes) /\ <<>> \in Seq(Bytes \cup {Nul})
    BY EmptySeq
  <2> SUFFICES ASSUME ReaderInit PROVE ReaderTypeOK
    OBVIOUS
  <2>2. stream \in Seq(Bytes)
    BY StreamsAssumption DEF ReaderInit
  <2>3. consumed \in 0..Len(stream) /\ pos \in 0..read_buf /\ read_buf \in 0..BufferSize
    BY <2>2, BufferAssumption, LenProperties DEF ReaderInit
  <2>4. new_string \in Seq(Bytes \cup {Nul}) /\ the_rest \in Seq(Bytes)
    BY <2>1 DEF ReaderInit
  <2>5. read_buffer \in [1..BufferSize -> Bytes \cup {Nul}]
    BY DEF ReaderInit
  <2>6. QED BY <2>2, <2>3, <2>4, <2>5 DEF ReaderInit, ReaderTypeOK
<1>2. QED BY <1>1, InitWindow DEF TypeInv

\* For every set of streams and size of the array the reader keeps its types: no index
\* leaves the array, received does not wrap below zero, and what is kept for the next
\* reader is made of bytes that the peer sent.
THEOREM Typing == ReaderSpec => []ReaderTypeOK
<1>1. TypeInv => ReaderTypeOK
  BY DEF TypeInv
<1>2. QED BY InitType, NextType, <1>1, PTL DEF ReaderSpec

\* The array never shows what is stale, and everything else of read_headers has its type:
\* for every stream, every size of the array and every way the reads cut it.
THEOREM ReaderIsSound == ReaderSpec => []ReaderInv
<1>1. WindowInv /\ TypeInv => ReaderInv
  BY DEF WindowInv, TypeInv, ReaderInv
<1>2. QED BY InitWindow, NextWindow, InitType, NextType, <1>1, PTL DEF ReaderSpec

-------------------------------------------------------------------------------
\* HeaderReader: the head that is read is the head that was sent.
\* What a line can have become.
States == [text : Texts, pending : BOOLEAN]

LEMMA DecodedIs ==
  ASSUME NEW x \in States, NEW byte \in Bytes
  PROVE  Decoded(x, byte) \in States
<1>1. x.text \in Texts /\ x.pending \in BOOLEAN
  BY DEF States
<1>2. Append(x.text, Nul) \in Texts /\ Append(x.text, byte) \in Texts
  BY <1>1 DEF Texts
<1>3. CASE byte = "hi"
  BY <1>1, <1>2, <1>3 DEF Decoded, States
<1>4. CASE byte = "lo"
  BY <1>1, <1>2, <1>4 DEF Decoded, States
<1>5. CASE byte \notin {"hi", "lo"}
  BY <1>1, <1>2, <1>5 DEF Decoded, States
<1>6. QED BY <1>3, <1>4, <1>5

\* Lines.
LEMMA LinesAre ==
  ASSUME NEW s \in Seq(Bytes)
  PROVE  /\ Lines(s) \in [0..Len(s) -> States]
         /\ Lines(s)[0] = Empty
         /\ \A i \in 1..Len(s) : Lines(s)[i] = IF s[i] = "lf" THEN Empty ELSE Decoded(Lines(s)[i - 1], s[i])
<1> DEFINE n == Len(s)
           g == [p \in States \X (1..n) |-> IF s[p[2]] = "lf" THEN Empty ELSE Decoded(p[1], s[p[2]])]
<1>1. Empty \in States /\ n \in Nat
  <2>1. <<>> \in Texts
    BY DEF Texts
  <2>2. QED BY <2>1 DEF Empty, States
<1>2. \A x \in States : \A i \in 1..n :
        /\ g[<<x, i>>] = IF s[i] = "lf" THEN Empty ELSE Decoded(x, s[i])
        /\ g[<<x, i>>] \in States
  <2> TAKE x \in States
  <2> TAKE i \in 1..n
  <2>1. s[i] \in Bytes
    OBVIOUS
  <2>2. Decoded(x, s[i]) \in States
    BY <2>1, DecodedIs
  <2>3. QED BY <1>1, <2>2
<1> HIDE DEF g, n
<1>3. \E f : Folds(f, States, g, Empty, n)
  <2>1. Stays(States, g, n)
    BY <1>2 DEF Stays
  <2>2. QED BY <1>1, <2>1, FoldExists, Zenon
<1>4. PICK f : f \in [0..n -> States] /\ f[0] = Empty /\ \A i \in 1..n : f[i] = g[<<f[i - 1], i>>]
  BY <1>3, Zenon DEF Folds
<1>5. ASSUME NEW i \in 1..n PROVE f[i] = IF s[i] = "lf" THEN Empty ELSE Decoded(f[i - 1], s[i])
  <2>1. i - 1 \in 0..n
    BY <1>1
  <2>2. f[i - 1] \in States /\ f[i] = g[<<f[i - 1], i>>]
    BY <1>4, <2>1
  <2>3. QED BY <1>2, <2>2
<1>6. f = [i \in 0..n |-> IF i = 0 THEN Empty ELSE IF s[i] = "lf" THEN Empty ELSE Decoded(f[i - 1], s[i])]
  <2>1. ASSUME NEW i \in 0..n
        PROVE  f[i] = IF i = 0 THEN Empty ELSE IF s[i] = "lf" THEN Empty ELSE Decoded(f[i - 1], s[i])
    <3>1. i # 0 => i \in 1..n
      BY <1>1
    <3>2. QED BY <1>4, <1>5, <3>1
  <2>2. QED BY <1>4, <2>1
<1> DEFINE upto[i \in 0..n] == IF i = 0 THEN Empty ELSE IF s[i] = "lf" THEN Empty ELSE Decoded(upto[i - 1], s[i])
<1>7. upto = [i \in 0..n |-> IF i = 0 THEN Empty ELSE IF s[i] = "lf" THEN Empty ELSE Decoded(upto[i - 1], s[i])]
  BY <1>6, Zenon
<1>8. Lines(s) = upto
  BY Zenon DEF Lines, n
<1> HIDE DEF upto
<1>9. \A i \in 0..n : upto[i] = IF i = 0 THEN Empty ELSE IF s[i] = "lf" THEN Empty ELSE Decoded(upto[i - 1], s[i])
  BY <1>7
<1> DEFINE T == {i \in 0..n : upto[i] = f[i]}
<1>10. 0 \in T
  BY <1>1, <1>4, <1>9
<1>11. ASSUME NEW k \in 0..(n - 1), k \in T PROVE k + 1 \in T
  <2>1. k + 1 \in 1..n /\ (k + 1) - 1 = k /\ k + 1 \in 0..n /\ k + 1 # 0
    BY <1>1
  <2>2. QED BY <1>5, <1>9, <1>11, <2>1
<1> HIDE DEF T
<1>12. \A k \in 0..n : k \in T
  BY <1>1, <1>10, <1>11, Induction
<1>13. \A i \in 0..n : upto[i] = f[i]
  BY <1>12 DEF T
<1>14. upto = f
  BY <1>4, <1>7, <1>13
<1>15. QED BY <1>4, <1>5, <1>8, <1>14 DEF n

\* The lines of the front of a stream are those of the stream.
LEMMA LinesOfFront ==
  ASSUME NEW s \in Seq(Bytes), NEW n \in 0..Len(s)
  PROVE  \A i \in 0..n : Lines(SubSeq(s, 1, n))[i] = Lines(s)[i]
<1> DEFINE p == SubSeq(s, 1, n)
           T == {i \in 0..n : Lines(p)[i] = Lines(s)[i]}
<1>1. p \in Seq(Bytes) /\ Len(p) = n /\ \A i \in 1..n : p[i] = s[i]
  BY Cut
<1> HIDE DEF p
<1>2. 0 \in T
  BY <1>1, LinesAre
<1>3. ASSUME NEW k \in 0..(n - 1), k \in T PROVE k + 1 \in T
  <2>1. k + 1 \in 1..n /\ (k + 1) - 1 = k /\ k + 1 \in 1..Len(s) /\ k + 1 \in 0..n
    OBVIOUS
  <2>2. Lines(p)[k + 1] = IF p[k + 1] = "lf" THEN Empty ELSE Decoded(Lines(p)[k], p[k + 1])
    BY <1>1, <2>1, LinesAre
  <2>3. Lines(s)[k + 1] = IF s[k + 1] = "lf" THEN Empty ELSE Decoded(Lines(s)[k], s[k + 1])
    BY <2>1, LinesAre
  <2>4. p[k + 1] = s[k + 1]
    BY <1>1, <2>1
  <2>5. QED BY <1>3, <2>1, <2>2, <2>3, <2>4
<1> HIDE DEF T
<1>4. \A k \in 0..n : k \in T
  BY <1>2, <1>3, Induction
<1>5. QED BY <1>4 DEF T, p

\* Characters.
LEMMA TextType ==
  ASSUME NEW s \in Seq(Bytes), NEW i \in 1..Len(s)
  PROVE  Lines(s)[i - 1].text \in Texts /\ Lines(s)[i - 1] \in States
<1>1. i - 1 \in 0..Len(s)
  OBVIOUS
<1>2. QED BY <1>1, LinesAre DEF States

LEMMA MaxIsGreatest ==
  ASSUME NEW n \in Nat, NEW S, S \subseteq 0..n, S # {}
  PROVE  Max(S) \in S /\ \A y \in S : y <= Max(S)
<1> DEFINE below == {n - x : x \in S}
<1>1. below \subseteq Nat /\ below # {}
  <2>1. \A x \in S : n - x \in Nat
    OBVIOUS
  <2>2. QED BY <2>1
<1>2. PICK m \in below : \A y \in below : m <= y
  BY <1>1, LeastNumber
<1>3. PICK x \in S : m = n - x
  BY <1>2
<1>4. ASSUME NEW y \in S PROVE x >= y
  <2>1. n - y \in below
    OBVIOUS
  <2>2. m <= n - y
    BY <1>2, <2>1
  <2>3. QED BY <1>3, <2>2
<1>5. \E z \in S : \A y \in S : z >= y
  BY <1>4
<1>6. Max(S) \in S /\ \A y \in S : Max(S) >= y
  BY <1>5 DEF Max
<1>7. QED BY <1>6

Blanks(text) == {i \in DOMAIN text : text[i] \in Blank}

LEMMA BlanksType ==
  ASSUME NEW text \in Texts
  PROVE  IsFiniteSet(Blanks(text)) /\ Cardinality(Blanks(text)) \in Nat
<1>1. Len(text) \in Nat /\ Blanks(text) \subseteq 1..Len(text)
  BY DEF Blanks, Texts
<1>2. IsFiniteSet(Blanks(text))
  <2>1. IsFiniteSet(1..Len(text))
    BY <1>1, FS_Interval
  <2>2. QED BY <1>1, <2>1, FS_Subset
<1>3. QED BY <1>2, FS_CardinalityType

\* trim leaves out white space, and of what it leaves out there is not more than that.
LEMMA TrimLength ==
  ASSUME NEW text \in Texts
  PROVE  /\ Trim(text) \in Texts /\ Len(Trim(text)) <= Len(text)
         /\ Len(text) <= Len(Trim(text)) + Cardinality(Blanks(text))
<1> DEFINE solid == {i \in DOMAIN text : text[i] \notin Blank}
           n == Len(text)
<1>1. n \in Nat /\ solid \subseteq 1..n /\ Blanks(text) \subseteq 1..n /\ DOMAIN text = 1..n
  BY DEF Blanks, Texts
<1>2. IsFiniteSet(Blanks(text)) /\ Cardinality(Blanks(text)) \in Nat
  BY BlanksType
<1>3. \A i \in 1..n : i \notin solid => i \in Blanks(text)
  BY <1>1 DEF Blanks
<1>4. Trim(text) = IF solid = {} THEN <<>> ELSE SubSeq(text, Min(solid), Max(solid))
  BY DEF Trim
<1> HIDE DEF solid, n
<1>5. CASE solid = {}
  <2>1. Trim(text) = <<>> /\ <<>> \in Texts /\ Len(<<>>) = 0
    BY <1>4, <1>5 DEF Texts
  <2>2. Blanks(text) = 1..n
    BY <1>1, <1>3, <1>5
  <2>3. Cardinality(1..n) = n
    <3>1. Cardinality(1..n) = IF 1 > n THEN 0 ELSE n - 1 + 1
      BY <1>1, FS_Interval
    <3>2. QED BY <1>1, <3>1
  <2>4. Len(Trim(text)) = 0 /\ Cardinality(Blanks(text)) = n
    BY <2>1, <2>2, <2>3
  <2>5. QED BY <1>1, <2>1, <2>4 DEF n
<1>6. CASE solid # {}
  <2> DEFINE a == Min(solid)
             b == Max(solid)
  <2>1. a \in solid /\ \A y \in solid : a <= y
    <3>1. solid \subseteq Nat
      BY <1>1
    <3>2. QED BY <1>6, <3>1, MinIsLeast
  <2>2. b \in solid /\ \A y \in solid : y <= b
    <3>1. solid \subseteq 0..n
      BY <1>1
    <3>2. QED BY <1>1, <1>6, <3>1, MaxIsGreatest
  <2>3. Trim(text) = SubSeq(text, a, b)
    BY <1>4, <1>6
  <2> HIDE DEF a, b
  <2>4. a \in 1..n /\ b \in a..n
    BY <1>1, <2>1, <2>2
  <2>5. Trim(text) \in Texts /\ Len(Trim(text)) = b - a + 1
    <3>1. text \in Seq(Bytes \cup {Nul}) /\ a \in Nat \ {0} /\ b \in 0..Len(text)
      BY <1>1, <2>4 DEF Texts, n
    <3>2. /\ SubSeq(text, a, b) \in Seq(Bytes \cup {Nul})
          /\ Len(SubSeq(text, a, b)) = IF a <= b THEN b - a + 1 ELSE 0
      BY <3>1, AnyCut
    <3>3. QED BY <2>3, <2>4, <3>2 DEF Texts
  <2> DEFINE front == 1..(a - 1)
             back == (b + 1)..n
  <2>6. front \subseteq Blanks(text) /\ back \subseteq Blanks(text)
    <3>1. ASSUME NEW i \in front PROVE i \in Blanks(text)
      <4>1. i \in 1..n /\ i \notin solid
        BY <1>1, <2>1, <2>4
      <4>2. QED BY <1>3, <4>1
    <3>2. ASSUME NEW i \in back PROVE i \in Blanks(text)
      <4>1. i \in 1..n /\ i \notin solid
        BY <1>1, <2>2, <2>4
      <4>2. QED BY <1>3, <4>1
    <3>3. QED BY <3>1, <3>2
  <2>7. /\ IsFiniteSet(front) /\ Cardinality(front) = a - 1
        /\ IsFiniteSet(back) /\ Cardinality(back) = n - b
    <3>1. /\ IsFiniteSet(front) /\ Cardinality(front) = IF 1 > a - 1 THEN 0 ELSE (a - 1) - 1 + 1
      BY <2>4, FS_Interval
    <3>2. /\ IsFiniteSet(back) /\ Cardinality(back) = IF b + 1 > n THEN 0 ELSE n - (b + 1) + 1
      BY <1>1, <2>4, FS_Interval
    <3>3. QED BY <1>1, <2>4, <3>1, <3>2
  <2>8. front \cap back = {}
    BY <2>4
  <2> HIDE DEF front, back
  <2>9. Cardinality(front \cup back) = (a - 1) + (n - b)
    <3>1. Cardinality(front \cap back) = 0
      BY <2>8, FS_EmptySet
    <3>2. Cardinality(front \cup back) = Cardinality(front) + Cardinality(back) - Cardinality(front \cap back)
      BY <2>7, FS_Union
    <3>3. QED BY <1>1, <2>4, <2>7, <3>1, <3>2
  <2>10. Cardinality(front \cup back) <= Cardinality(Blanks(text))
    <3>1. front \cup back \subseteq Blanks(text)
      BY <2>6
    <3>2. QED BY <1>2, <3>1, FS_Subset
  <2>11. QED BY <1>1, <1>2, <2>4, <2>5, <2>9, <2>10 DEF n
<1>7. QED BY <1>5, <1>6

LEMMA BlanksOfMore ==
  ASSUME NEW text \in Texts, NEW c \in Bytes \cup {Nul}
  PROVE  Cardinality(Blanks(Append(text, c))) = Cardinality(Blanks(text)) + (IF c \in Blank THEN 1 ELSE 0)
<1> DEFINE n == Len(text)
<1>1. n \in Nat /\ DOMAIN text = 1..n /\ text \in Seq(Bytes \cup {Nul})
  BY DEF Texts
<1>2. /\ DOMAIN Append(text, c) = 1..(n + 1) /\ Append(text, c)[n + 1] = c
      /\ \A i \in 1..n : Append(text, c)[i] = text[i]
  BY <1>1, AppendProperties
<1> HIDE DEF n
<1>3. CASE c \in Blank
  <2>1. Blanks(Append(text, c)) = Blanks(text) \cup {n + 1}
    BY <1>1, <1>2, <1>3 DEF Blanks
  <2>2. n + 1 \notin Blanks(text)
    BY <1>1 DEF Blanks
  <2>3. QED BY <1>3, <2>1, <2>2, BlanksType, FS_AddElement
<1>4. CASE c \notin Blank
  <2>1. Blanks(Append(text, c)) = Blanks(text)
    BY <1>1, <1>2, <1>4 DEF Blanks
  <2>2. QED BY <1>4, <2>1, BlanksType
<1>5. QED BY <1>3, <1>4

LEMMA BlanksOfDecoded ==
  ASSUME NEW x \in States, NEW byte \in Bytes
  PROVE  Cardinality(Blanks(Decoded(x, byte).text)) = Cardinality(Blanks(x.text)) + (IF byte \in Blank THEN 1 ELSE 0)
<1>1. x.text \in Texts /\ Cardinality(Blanks(x.text)) \in Nat
  BY BlanksType DEF States
<1>2. Nul \notin Blank /\ "hi" \notin Blank /\ "lo" \notin Blank
  BY DEF Nul, Blank
<1>3. CASE byte \in {"hi", "lo"}
  <2>1. Decoded(x, byte).text = x.text \/ Decoded(x, byte).text = Append(x.text, Nul)
    BY <1>3 DEF Decoded, States
  <2>2. byte \notin Blank
    BY <1>2, <1>3
  <2>3. Cardinality(Blanks(Append(x.text, Nul))) = Cardinality(Blanks(x.text)) + 0
    BY <1>1, <1>2, BlanksOfMore
  <2> DEFINE b(t) == Cardinality(Blanks(t))
  <2>4. b(Decoded(x, byte).text) = b(x.text) \/ b(Decoded(x, byte).text) = b(Append(x.text, Nul))
    BY <2>1
  <2>5. b(x.text) \in Nat /\ b(Append(x.text, Nul)) = b(x.text) + 0
    BY <1>1, <2>3
  <2> HIDE DEF b
  <2>6. b(Decoded(x, byte).text) = b(x.text) + 0
    BY <2>4, <2>5
  <2>7. QED BY <2>2, <2>6 DEF b
<1>4. CASE byte \notin {"hi", "lo"}
  <2>1. Decoded(x, byte).text = Append(x.text, byte)
    BY <1>4 DEF Decoded
  <2>2. QED BY <1>1, <2>1, BlanksOfMore
<1>5. QED BY <1>3, <1>4

LEMMA TextIs ==
  ASSUME NEW s \in Seq(Bytes), NEW i \in 1..Len(s)
  PROVE  Text(s, i) \in Texts /\ Len(Text(s, i)) \in Nat
<1>1. Lines(s)[i - 1].text \in Texts
  BY TextType
<1>2. Text(s, i) \in Texts
  BY <1>1, TrimLength DEF Text
<1>3. QED BY <1>2 DEF Texts

\* Characters.
LEMMA CharactersAre ==
  ASSUME NEW s \in Seq(Bytes)
  PROVE  /\ Characters(s, 0) = 0
         /\ \A n \in 0..Len(s) : Characters(s, n) \in Nat
         /\ \A n \in 0..(Len(s) - 1) :
              Characters(s, n + 1) = Characters(s, n) + (IF s[n + 1] = "lf" THEN Len(Text(s, n + 1)) ELSE 0)
<1> DEFINE m == Len(s)
           more(i) == IF s[i] = "lf" THEN Len(Text(s, i)) ELSE 0
           g == [p \in Nat \X (1..m) |-> p[1] + more(p[2])]
<1>1. m \in Nat /\ \A i \in 1..m : more(i) \in Nat
  BY TextIs
<1> HIDE DEF m, more
<1>2. \A x \in Nat : \A i \in 1..m : g[<<x, i>>] = x + more(i) /\ g[<<x, i>>] \in Nat
  BY <1>1
<1> HIDE DEF g
<1>3. \E f : Folds(f, Nat, g, 0, m)
  <2>1. Stays(Nat, g, m)
    BY <1>2 DEF Stays
  <2>2. 0 \in Nat
    OBVIOUS
  <2>3. QED BY <1>1, <2>1, <2>2, FoldExists, Zenon
<1>4. PICK f : f \in [0..m -> Nat] /\ f[0] = 0 /\ \A i \in 1..m : f[i] = g[<<f[i - 1], i>>]
  BY <1>3, Zenon DEF Folds
<1>5. \A i \in 1..m : f[i] = f[i - 1] + more(i)
  <2> TAKE i \in 1..m
  <2>1. i - 1 \in 0..m
    BY <1>1
  <2>2. f[i - 1] \in Nat /\ f[i] = g[<<f[i - 1], i>>]
    BY <1>4, <2>1
  <2>3. QED BY <1>2, <2>2
<1>6. ASSUME NEW n \in 0..m PROVE Characters(s, n) = f[n]
  <2> DEFINE h == [i \in 0..n |-> f[i]]
  <2>1. h = [i \in 0..n |-> IF i = 0 THEN 0 ELSE h[i - 1] + more(i)]
    <3>1. ASSUME NEW i \in 0..n PROVE h[i] = IF i = 0 THEN 0 ELSE h[i - 1] + more(i)
      <4>1. i # 0 => i \in 1..m /\ i - 1 \in 0..n
        BY <1>1
      <4>2. QED BY <1>4, <1>5, <4>1
    <3> HIDE DEF h
    <3>2. h = [i \in 0..n |-> h[i]]
      BY DEF h
    <3>3. QED BY <3>1, <3>2
  <2> HIDE DEF h
  <2> DEFINE upto[i \in 0..n] == IF i = 0 THEN 0 ELSE upto[i - 1] + more(i)
  <2>2. upto = [i \in 0..n |-> IF i = 0 THEN 0 ELSE upto[i - 1] + more(i)]
    BY <2>1, Zenon
  <2>3. Characters(s, n) = upto[n]
    BY Zenon DEF Characters, more
  <2> HIDE DEF upto
  <2>4. \A i \in 0..n : upto[i] = IF i = 0 THEN 0 ELSE upto[i - 1] + more(i)
    BY <2>2
  <2> DEFINE T == {i \in 0..n : upto[i] = f[i]}
  <2>5. 0 \in T
    BY <1>1, <1>4, <2>4
  <2>6. ASSUME NEW k \in 0..(n - 1), k \in T PROVE k + 1 \in T
    <3>1. k + 1 \in 1..m /\ (k + 1) - 1 = k /\ k + 1 \in 0..n /\ k + 1 # 0
      BY <1>1
    <3>2. upto[k + 1] = upto[k] + more(k + 1) /\ f[k + 1] = f[k] + more(k + 1)
      BY <1>5, <2>4, <3>1
    <3>3. QED BY <2>6, <3>1, <3>2
  <2>7. n \in Nat
    BY <1>1
  <2> HIDE DEF T
  <2>8. \A k \in 0..n : k \in T
    BY <2>5, <2>6, <2>7, Induction
  <2>9. n \in T
    BY <2>7, <2>8
  <2>10. QED BY <2>3, <2>9 DEF T
<1>7. 0 \in 0..m
  BY <1>1
<1>8. Characters(s, 0) = 0
  BY <1>4, <1>6, <1>7
<1>9. \A n \in 0..m : Characters(s, n) \in Nat
  BY <1>4, <1>6
<1>10. ASSUME NEW n \in 0..(m - 1) PROVE Characters(s, n + 1) = Characters(s, n) + more(n + 1)
  <2>1. n \in 0..m /\ n + 1 \in 0..m /\ n + 1 \in 1..m /\ (n + 1) - 1 = n
    BY <1>1
  <2>2. QED BY <1>5, <1>6, <2>1
<1>11. QED BY <1>8, <1>9, <1>10 DEF m, more

-------------------------------------------------------------------------------
\* The lines and the white space up to a place.
LinesOf(s, n) == Feeds(s) \cap (1..n)
BlanksOf(s, n) == {i \in 1..n : s[i] \in Blank}

LEMMA CountsAre ==
  ASSUME NEW s \in Seq(Bytes), NEW n \in 0..(Len(s) - 1)
  PROVE  /\ Cardinality(LinesOf(s, n)) \in Nat /\ Cardinality(BlanksOf(s, n)) \in Nat
         /\ Cardinality(LinesOf(s, n + 1)) = Cardinality(LinesOf(s, n)) + (IF s[n + 1] = "lf" THEN 1 ELSE 0)
         /\ Cardinality(BlanksOf(s, n + 1)) = Cardinality(BlanksOf(s, n)) + (IF s[n + 1] \in Blank THEN 1 ELSE 0)
<1>1. IsFiniteSet(1..n)
  BY FS_Interval
<1>2. LinesOf(s, n) \subseteq 1..n /\ BlanksOf(s, n) \subseteq 1..n
  BY DEF LinesOf, BlanksOf
<1>3. IsFiniteSet(LinesOf(s, n)) /\ IsFiniteSet(BlanksOf(s, n))
  BY <1>1, <1>2, FS_Subset
<1>4. Cardinality(LinesOf(s, n)) \in Nat /\ Cardinality(BlanksOf(s, n)) \in Nat
  BY <1>3, FS_CardinalityType
<1>5. n + 1 \notin LinesOf(s, n) /\ n + 1 \notin BlanksOf(s, n) /\ n + 1 \in DOMAIN s
  BY <1>2
<1>6. LinesOf(s, n + 1) = IF s[n + 1] = "lf" THEN LinesOf(s, n) \cup {n + 1} ELSE LinesOf(s, n)
  BY <1>5 DEF LinesOf, Feeds
<1>7. BlanksOf(s, n + 1) = IF s[n + 1] \in Blank THEN BlanksOf(s, n) \cup {n + 1} ELSE BlanksOf(s, n)
  BY <1>5 DEF BlanksOf
<1>8. /\ Cardinality(LinesOf(s, n) \cup {n + 1}) = Cardinality(LinesOf(s, n)) + 1
      /\ Cardinality(BlanksOf(s, n) \cup {n + 1}) = Cardinality(BlanksOf(s, n)) + 1
  BY <1>3, <1>5, FS_AddElement
<1>9. QED BY <1>4, <1>6, <1>7, <1>8

LEMMA FirstIs ==
  ASSUME NEW s \in Seq(Bytes)
  PROVE  /\ Feeds(s) \subseteq 1..Len(s)
         /\ Feeds(s) # {} => First(s) \in Feeds(s) /\ \A end \in Feeds(s) : First(s) <= end
<1>1. Feeds(s) \subseteq 1..Len(s) /\ Feeds(s) \subseteq Nat
  BY DEF Feeds
<1>2. QED BY <1>1, MinIsLeast DEF First

-------------------------------------------------------------------------------
\* The header fields of one more line.
LEMMA NoFields ==
  ASSUME NEW s, NEW n, Fields(s, n) = {}
  PROVE  Headers(s, n) = <<>>
BY DEF Headers

LEMMA SameFields ==
  ASSUME NEW s, NEW n, NEW m, Fields(s, n) = Fields(s, m)
  PROVE  Headers(s, n) = Headers(s, m)
BY DEF Headers

LEMMA OtherFields ==
  ASSUME NEW s \in Seq(Bytes), NEW n \in 0..(Len(s) - 1),
         n + 1 \notin Feeds(s) \/ First(s) = n + 1 \/ ~IsField(Text(s, n + 1))
  PROVE  Headers(s, n + 1) = Headers(s, n)
<1>1. \A end \in Feeds(s) : end \in Nat
  BY FirstIs
<1>2. Fields(s, n + 1) = Fields(s, n)
  BY <1>1 DEF Fields
<1>3. QED BY <1>2, SameFields

LEMMA AnotherField ==
  ASSUME NEW s \in Seq(Bytes), NEW n \in 0..(Len(s) - 1),
         n + 1 \in Feeds(s), First(s) < n + 1
  PROVE  Headers(s, n + 1) = WithHeader(Headers(s, n), Text(s, n + 1))
<1>1. CASE ~IsField(Text(s, n + 1))
  BY <1>1, OtherFields DEF WithHeader
<1>2. CASE IsField(Text(s, n + 1))
  <2> DEFINE at(i) == Text(s, i)
             new == Name(at(n + 1))
             old == {Name(at(end)) : end \in Fields(s, n)}
             named(m, name) == {end \in Fields(s, m) : Name(at(end)) = name}
  <2>1. Fields(s, n) \subseteq 1..n /\ n + 1 \notin Fields(s, n)
    BY FirstIs DEF Fields
  <2>2. Fields(s, n + 1) = Fields(s, n) \cup {n + 1}
    <3>1. \A end \in Feeds(s) : end \in Nat
      BY FirstIs
    <3>2. QED BY <1>2, <3>1 DEF Fields
  <2>3. Headers(s, n) = [name \in old |-> Value(at(Max(named(n, name))))]
    BY Zenon DEF Headers
  <2>4. Headers(s, n + 1) = [name \in {Name(at(end)) : end \in Fields(s, n + 1)} |-> Value(at(Max(named(n + 1, name))))]
    BY Zenon DEF Headers
  <2>5. WithHeader(Headers(s, n), at(n + 1)) =
          [name \in DOMAIN Headers(s, n) \cup {new} |-> IF name = new THEN Value(at(n + 1)) ELSE Headers(s, n)[name]]
    BY <1>2 DEF WithHeader
  <2>6. {Name(at(end)) : end \in Fields(s, n + 1)} = old \cup {new}
    BY <2>2
  <2>7. Max(named(n + 1, new)) = n + 1
    <3>1. n + 1 \in named(n + 1, new) /\ named(n + 1, new) \subseteq 0..(n + 1)
      BY <2>1, <2>2
    <3> HIDE DEF named
    <3>2. Max(named(n + 1, new)) \in named(n + 1, new) /\ \A y \in named(n + 1, new) : y <= Max(named(n + 1, new))
      <4>1. named(n + 1, new) # {} /\ n + 1 \in Nat
        BY <3>1
      <4>2. QED BY <3>1, <4>1, MaxIsGreatest
    <3>3. n + 1 <= Max(named(n + 1, new)) /\ Max(named(n + 1, new)) \in 0..(n + 1)
      BY <3>1, <3>2
    <3>4. QED BY <3>3
  <2>8. ASSUME NEW name \in old, name # new PROVE named(n + 1, name) = named(n, name)
    BY <2>2, <2>8
  <2>9. DOMAIN Headers(s, n) = old /\ \A name \in old : Headers(s, n)[name] = Value(at(Max(named(n, name))))
    BY <2>3
  <2> HIDE DEF at, new, old, named
  <2>10. \A name \in old \cup {new} :
           Value(at(Max(named(n + 1, name)))) = IF name = new THEN Value(at(n + 1)) ELSE Headers(s, n)[name]
    <3> TAKE name \in old \cup {new}
    <3>1. CASE name = new
      BY <2>7, <3>1
    <3>2. CASE name # new
      <4>1. name \in old /\ named(n + 1, name) = named(n, name)
        BY <2>8, <3>2
      <4>2. QED BY <2>9, <3>2, <4>1
    <3>3. QED BY <3>1, <3>2
  <2>11. Headers(s, n + 1) = WithHeader(Headers(s, n), at(n + 1))
    BY <2>4, <2>5, <2>6, <2>9, <2>10
  <2>12. QED BY <2>11 DEF at
<1>3. QED BY <1>1, <1>2

\* How many bytes of the stream were looked at.
Seen == consumed - read_buf + pos

\* The empty line behind the fields, and what is known before it.
LastLine(s, n) == n \in Feeds(s) /\ First(s) < n /\ Text(s, n) = <<>>
Headed(s, isRequest, n) ==
  /\ Feeds(s) # {} /\ First(s) <= n
  /\ FirstLine(Text(s, First(s)), isRequest) = "reading"
  /\ \A end \in 1..(n - 1) : ~LastLine(s, end)

\* A head that is being read: what was parsed is what the bytes that were looked at make,
\* wherever the reads cut them.  The white space that a line will lose is counted first.
Parsed(n) ==
  /\ the_rest = <<>>
  /\ [text |-> new_string, pending |-> pending] = Lines(stream)[n]
  /\ LinesOf(stream, n) = {} => line = "first" /\ headers = <<>>
  /\ LinesOf(stream, n) # {} =>
       /\ line = "header" /\ headers = Headers(stream, n)
       /\ Headed(stream, request, n) /\ ~LastLine(stream, n)
Counts(n, c, lines) ==
  /\ Characters(stream, n) <= received
  /\ received + c <= Characters(stream, n) + Cardinality(BlanksOf(stream, n)) + lines * (BufferSize - 1)
Going(n) == Parsed(n) /\ Counts(n, Cardinality(Blanks(new_string)), Cardinality(LinesOf(stream, n)))

\* A head that was read.
Ended(n) ==
  /\ Headed(stream, request, n) /\ LastLine(stream, n)
  /\ headers = Headers(stream, n) /\ the_rest = SubSeq(stream, n + 1, consumed)
  /\ Characters(stream, n) + Len(the_rest) <= received
  /\ received <= Characters(stream, n) + Len(the_rest) + Cardinality(BlanksOf(stream, n))
                   + (Cardinality(LinesOf(stream, n)) - 1) * (BufferSize - 1)

HeadKept ==
  /\ result \in {"reading", "closed"} => Going(Seen)
  /\ result = "closed" => Seen = Len(stream)
  /\ result \in {"invalid", "panicked"} =>
       Feeds(stream) # {} /\ FirstLine(Text(stream, First(stream)), request) = result
  /\ result = "done" => Ended(Seen)
HeadInv == TypeInv /\ HeadKept

-------------------------------------------------------------------------------
LEMMA HeadStarts == ReaderInit => HeadKept
<1> SUFFICES ASSUME ReaderInit PROVE HeadKept
  OBVIOUS
<1>1. stream \in Seq(Bytes) /\ Seen = 0 /\ result = "reading"
  BY StreamsAssumption DEF ReaderInit, Seen
<1>2. Lines(stream)[0] = Empty
  BY <1>1, LinesAre
<1>3. LinesOf(stream, 0) = {} /\ BlanksOf(stream, 0) = {}
  BY DEF LinesOf, BlanksOf
<1>4. Parsed(0)
  BY <1>2, <1>3 DEF Parsed, ReaderInit, Empty
<1>5. Characters(stream, 0) = 0
  BY <1>1, CharactersAre
<1>6. Blanks(new_string) = {} /\ Cardinality({}) = 0
  BY FS_EmptySet DEF Blanks, ReaderInit
<1>7. Counts(0, 0, 0)
  <2>1. received = 0 /\ BufferSize \in Nat
    BY BufferAssumption DEF ReaderInit
  <2>2. Cardinality(BlanksOf(stream, 0)) = 0 /\ 0 * (BufferSize - 1) = 0
    BY <1>3, <1>6, <2>1
  <2>3. QED BY <1>5, <2>1, <2>2 DEF Counts
<1>8. Going(0)
  BY <1>3, <1>4, <1>6, <1>7 DEF Going
<1>9. QED BY <1>1, <1>8 DEF HeadKept

\* What is looked at next is the next byte of the stream.
LEMMA NextByte ==
  ASSUME TypeInv, pos < read_buf
  PROVE  /\ Seen \in 0..(Len(stream) - 1) /\ read_buffer[pos + 1] = stream[Seen + 1]
         /\ stream[Seen + 1] \in Bytes /\ Seen + 1 <= consumed
         /\ read_buf - (pos + 1) \in 0..(BufferSize - 1) /\ stream \in Seq(Bytes)
<1>1. /\ pos \in Nat /\ read_buf \in Nat /\ consumed \in Nat /\ read_buf <= BufferSize /\ read_buf <= consumed
      /\ WindowIsTheStream /\ stream \in Seq(Bytes) /\ consumed <= Len(stream) /\ Len(stream) \in Nat
  BY DEF TypeInv, ReaderTypeOK, WindowInv
<1>2. pos + 1 \in (pos + 1)..read_buf
  BY <1>1
<1>3. read_buffer[pos + 1] = stream[consumed - read_buf + (pos + 1)]
  BY <1>1, <1>2 DEF WindowIsTheStream
<1>4. consumed - read_buf + (pos + 1) = Seen + 1 /\ Seen \in 0..(Len(stream) - 1) /\ Seen + 1 <= consumed
  BY <1>1 DEF Seen
<1>5. stream[Seen + 1] \in Bytes
  BY <1>1, <1>4
<1>6. read_buf - (pos + 1) \in 0..(BufferSize - 1)
  BY <1>1, BufferAssumption
<1>7. QED BY <1>1, <1>3, <1>4, <1>5, <1>6

LEMMA ByteKeeps ==
  ASSUME TypeInv, HeadKept, Byte
  PROVE  HeadKept'
<1>0. PICK n, s : n = Seen /\ s = stream
  OBVIOUS
<1> DEFINE c == s[n + 1]
<1>1. /\ n \in 0..(Len(s) - 1) /\ read_buffer[pos + 1] = c /\ c \in Bytes /\ s \in Seq(Bytes)
      /\ c # "lf" /\ result = "reading"
  BY <1>0, NextByte DEF Byte
<1>2. Going(n)
  BY <1>0, <1>1 DEF HeadKept
<1>3. /\ pos' = pos + 1 /\ UNCHANGED <<stream, request, read_buffer, read_buf, consumed>>
      /\ UNCHANGED <<line, headers, the_rest, received, result>>
  BY DEF Byte, source, parsed
<1>4. Seen' = n + 1 /\ n + 1 \in 1..Len(s) /\ (n + 1) - 1 = n
  <2>1. pos \in Nat /\ read_buf \in Nat /\ consumed \in Nat
    BY DEF TypeInv, WindowInv
  <2>2. QED BY <1>0, <1>1, <1>3, <2>1 DEF Seen
<1>5. Lines(s)[n] \in States /\ Lines(s)[n + 1] = Decoded(Lines(s)[n], c)
  <2>1. n \in 0..Len(s)
    BY <1>1
  <2>2. QED BY <1>1, <1>4, <2>1, LinesAre
<1>6. /\ new_string' = Lines(s)[n + 1].text /\ pending' = Lines(s)[n + 1].pending
      /\ Lines(s)[n + 1] \in States
  <2>1. [text |-> new_string, pending |-> pending] = Lines(s)[n]
    BY <1>0, <1>2 DEF Going, Parsed
  <2>2. new_string' = Decoded(Lines(s)[n], c).text /\ pending' = Decoded(Lines(s)[n], c).pending
    BY <1>1, <2>1 DEF Byte
  <2>3. QED BY <1>1, <1>5, <2>2, DecodedIs
<1>7. [text |-> new_string', pending |-> pending'] = Lines(s)[n + 1]
  BY <1>6 DEF States
<1>8. n + 1 \notin Feeds(s)
  BY <1>1 DEF Feeds
<1>9. LinesOf(s, n + 1) = LinesOf(s, n)
  <2>1. 1..(n + 1) = 1..n \cup {n + 1}
    BY <1>1
  <2>2. QED BY <1>8, <2>1 DEF LinesOf
<1>10. Headers(s, n + 1) = Headers(s, n)
  BY <1>1, <1>8, OtherFields
<1>11. Headed(s, request, n) /\ ~LastLine(s, n) => Headed(s, request, n + 1) /\ ~LastLine(s, n + 1)
  <2>1. \A end \in 1..((n + 1) - 1) : end = n \/ end \in 1..(n - 1)
    BY <1>1
  <2>2. Feeds(s) \subseteq 1..Len(s) /\ (Feeds(s) # {} => First(s) \in Feeds(s))
    BY <1>1, FirstIs
  <2>3. Feeds(s) # {} /\ First(s) <= n => First(s) <= n + 1
    BY <1>1, <2>2
  <2>4. QED BY <1>8, <2>1, <2>3 DEF Headed, LastLine
<1>12. Parsed(n + 1)'
  BY <1>0, <1>2, <1>3, <1>7, <1>9, <1>10, <1>11 DEF Going, Parsed
<1> DEFINE b == Cardinality(Blanks(new_string))
           more == IF c \in Blank THEN 1 ELSE 0
           l == Cardinality(LinesOf(s, n))
<1>13. b \in Nat /\ b' = b + more
  <2>1. Cardinality(Blanks(Decoded(Lines(s)[n], c).text)) = Cardinality(Blanks(Lines(s)[n].text)) + more
    BY <1>1, <1>5, BlanksOfDecoded
  <2>2. new_string = Lines(s)[n].text
    BY <1>0, <1>2 DEF Going, Parsed
  <2>3. new_string \in Texts
    BY <1>5, <2>2 DEF States
  <2>4. b \in Nat
    BY <2>3, BlanksType
  <2>5. new_string' = Decoded(Lines(s)[n], c).text
    BY <1>5, <1>6
  <2>6. QED BY <2>1, <2>2, <2>4, <2>5
<1>14. /\ l \in Nat /\ Cardinality(LinesOf(s, n + 1)) = l
       /\ Cardinality(BlanksOf(s, n)) \in Nat
       /\ Cardinality(BlanksOf(s, n + 1)) = Cardinality(BlanksOf(s, n)) + more
  BY <1>1, <1>9, CountsAre
<1>15. Characters(s, n) \in Nat /\ Characters(s, n + 1) = Characters(s, n)
  <2>1. n \in 0..Len(s)
    BY <1>1
  <2>2. Characters(s, n) \in Nat /\ Characters(s, n + 1) = Characters(s, n) + 0
    BY <1>1, <2>1, CharactersAre
  <2>3. QED BY <2>2
<1> HIDE DEF b, more, l
<1>16. /\ Characters(s, n + 1) <= received
       /\ received + b' <= Characters(s, n + 1) + Cardinality(BlanksOf(s, n + 1)) + l * (BufferSize - 1)
  <2>1. /\ Characters(s, n) <= received
        /\ received + b <= Characters(s, n) + Cardinality(BlanksOf(s, n)) + l * (BufferSize - 1)
    BY <1>0, <1>2 DEF Going, Counts, b, l
  <2>2. received \in Nat /\ l * (BufferSize - 1) \in Nat /\ more \in Nat
    BY <1>14, BufferAssumption DEF TypeInv, ReaderTypeOK, more
  <2>3. QED BY <1>13, <1>14, <1>15, <2>1, <2>2
<1>17. Counts(n + 1, Cardinality(Blanks(new_string)), Cardinality(LinesOf(stream, n + 1)))'
  BY <1>0, <1>3, <1>14, <1>16 DEF Counts, b
<1>18. Going(n + 1)'
  BY <1>12, <1>17 DEF Going
<1>19. QED BY <1>1, <1>3, <1>4, <1>18 DEF HeadKept

\* What a line adds to received, and what it may add.
LEMMA LineCounted ==
  ASSUME NEW rec \in Nat, NEW chars \in Nat, NEW white \in Nat, NEW lines \in Nat, NEW lost \in Nat,
         NEW len \in Nat, NEW kept \in Nat, NEW rest \in 0..(BufferSize - 1),
         chars <= rec, rec + lost <= chars + white + lines * (BufferSize - 1),
         kept <= len, len <= kept + lost
  PROVE  /\ chars + kept + rest <= rec + len + rest
         /\ rec + len + rest <= (chars + kept) + white + (lines + 1) * (BufferSize - 1)
         /\ rec + len + rest <= (chars + kept) + rest + white + ((lines + 1) - 1) * (BufferSize - 1)
<1>1. BufferSize - 1 \in Nat
  BY BufferAssumption
<1>2. (lines + 1) * (BufferSize - 1) = lines * (BufferSize - 1) + (BufferSize - 1)
  BY <1>1
<1>3. (lines + 1) - 1 = lines
  OBVIOUS
<1>4. lines * (BufferSize - 1) \in Nat
  BY <1>1
<1> DEFINE all == lines * (BufferSize - 1)
<1>5. all \in Nat /\ (lines + 1) * (BufferSize - 1) = all + (BufferSize - 1) /\ rec + lost <= chars + white + all
  BY <1>2, <1>4
<1> HIDE DEF all
<1>6. rec + len + rest <= (chars + kept) + white + (all + (BufferSize - 1))
  BY <1>1, <1>5
<1>7. rec + len + rest <= (chars + kept) + rest + white + all
  BY <1>5
<1>8. QED BY <1>3, <1>5, <1>6, <1>7 DEF all

LEMMA LineKeeps ==
  ASSUME TypeInv, HeadKept, LineEnds
  PROVE  HeadKept'
<1>0. PICK n, s : n = Seen /\ s = stream
  OBVIOUS
<1>1. /\ n \in 0..(Len(s) - 1) /\ s[n + 1] = "lf" /\ s \in Seq(Bytes) /\ n + 1 <= consumed
      /\ read_buf - (pos + 1) \in 0..(BufferSize - 1) /\ result = "reading" /\ pos < read_buf
  BY <1>0, NextByte DEF LineEnds
<1>2. Going(n)
  BY <1>0, <1>1 DEF HeadKept
<1>3. /\ pos' = pos + 1 /\ new_string' = <<>> /\ pending' = FALSE /\ line' = "header"
      /\ received' = received + Len(new_string) + read_buf - (pos + 1)
      /\ UNCHANGED <<stream, request, read_buffer, read_buf, consumed>>
  BY DEF LineEnds, FirstLineEnds, HeaderLineEnds, Counted, source
<1>3a. pos \in Nat /\ read_buf \in Nat /\ consumed \in Nat /\ consumed <= Len(stream) /\ received \in Nat
  BY DEF TypeInv, ReaderTypeOK, WindowInv
<1>4. Seen' = n + 1 /\ n + 1 \in 1..Len(s) /\ (n + 1) - 1 = n
  BY <1>0, <1>1, <1>3, <1>3a DEF Seen
<1>5. Lines(s)[n] \in States /\ Lines(s)[n + 1] = Empty
  <2>1. n \in 0..Len(s)
    BY <1>1
  <2>2. QED BY <1>1, <1>4, <2>1, LinesAre
<1>6. new_string = Lines(s)[n].text /\ new_string \in Texts /\ Len(new_string) \in Nat
  <2>1. [text |-> new_string, pending |-> pending] = Lines(s)[n]
    BY <1>0, <1>2 DEF Going, Parsed
  <2>2. new_string = Lines(s)[n].text /\ new_string \in Texts
    BY <1>5, <2>1 DEF States
  <2>3. QED BY <2>2 DEF Texts
<1>7. Trim(new_string) = Text(s, n + 1)
  BY <1>4, <1>6 DEF Text
<1>8. n + 1 \in Feeds(s) /\ Feeds(s) # {} /\ Feeds(s) \subseteq 1..Len(s)
      /\ First(s) \in Feeds(s) /\ (\A end \in Feeds(s) : First(s) <= end)
  BY <1>1, <1>4, FirstIs DEF Feeds
<1>9. LinesOf(s, n + 1) # {}
  BY <1>4, <1>8 DEF LinesOf
\* The counts.
<1> DEFINE rest == read_buf - (pos + 1)
           chars == Characters(s, n + 1)
           white == Cardinality(BlanksOf(s, n + 1))
           lines == Cardinality(LinesOf(s, n + 1))
<1>10. /\ chars + rest <= received' /\ chars <= received'
       /\ received' <= chars + white + lines * (BufferSize - 1)
       /\ received' <= chars + rest + white + (lines - 1) * (BufferSize - 1)
  <2> DEFINE kept == Len(Text(s, n + 1))
             lost == Cardinality(Blanks(new_string))
  <2>1. kept \in Nat /\ lost \in Nat /\ kept <= Len(new_string) /\ Len(new_string) <= kept + lost
    <3>1. kept \in Nat
      BY <1>1, <1>4, TextIs
    <3>2. lost \in Nat
      BY <1>6, BlanksType
    <3>3. QED BY <1>6, <1>7, <3>1, <3>2, TrimLength
  <2>2. Characters(s, n) \in Nat /\ chars = Characters(s, n) + kept
    <3>1. n \in 0..Len(s)
      BY <1>1
    <3>2. QED BY <1>1, <3>1, CharactersAre
  <2>3. /\ Cardinality(LinesOf(s, n)) \in Nat /\ lines = Cardinality(LinesOf(s, n)) + 1
        /\ Cardinality(BlanksOf(s, n)) \in Nat /\ white = Cardinality(BlanksOf(s, n))
    <3>1. "lf" \notin Blank
      BY DEF Blank
    <3>2. /\ Cardinality(BlanksOf(s, n)) \in Nat /\ white = Cardinality(BlanksOf(s, n)) + 0
      BY <1>1, <3>1, CountsAre
    <3>3. QED BY <1>1, <3>2, CountsAre
  <2>4. /\ Characters(s, n) <= received
        /\ received + lost <= Characters(s, n) + Cardinality(BlanksOf(s, n)) + Cardinality(LinesOf(s, n)) * (BufferSize - 1)
    BY <1>0, <1>2 DEF Going, Counts
  <2>5. received' = received + Len(new_string) + rest /\ rest \in 0..(BufferSize - 1)
    BY <1>1, <1>3, <1>3a, <1>6
  <2> HIDE DEF kept, lost, chars, white, lines, rest
  <2>6. PICK c0, w0, l0 : c0 = Characters(s, n) /\ w0 = Cardinality(BlanksOf(s, n)) /\ l0 = Cardinality(LinesOf(s, n))
    OBVIOUS
  <2>7. /\ c0 + kept + rest <= received + Len(new_string) + rest
        /\ received + Len(new_string) + rest <= (c0 + kept) + w0 + (l0 + 1) * (BufferSize - 1)
        /\ received + Len(new_string) + rest <= (c0 + kept) + rest + w0 + ((l0 + 1) - 1) * (BufferSize - 1)
    <3>1. c0 \in Nat /\ w0 \in Nat /\ l0 \in Nat /\ c0 <= received /\ received + lost <= c0 + w0 + l0 * (BufferSize - 1)
      BY <2>2, <2>3, <2>4, <2>6
    <3>2. QED BY <1>3a, <1>6, <2>1, <2>5, <3>1, LineCounted
  <2>8. c0 + kept = chars /\ white = w0 /\ lines = l0 + 1 /\ chars \in Nat
    BY <2>1, <2>2, <2>3, <2>6
  <2>9. QED BY <2>5, <2>7, <2>8
<1>11. Blanks(new_string') = {} /\ Cardinality({}) = 0
  BY <1>3, FS_EmptySet DEF Blanks
<1>12. Counts(n + 1, Cardinality(Blanks(new_string)), Cardinality(LinesOf(stream, n + 1)))'
  <2>1. received' \in Nat
    <3>1. rest \in Nat
      BY <1>1
    <3>2. received' = received + Len(new_string) + rest
      BY <1>3, <1>3a, <1>6
    <3>3. QED BY <1>3a, <1>6, <3>1, <3>2
  <2>2. received' + 0 <= Characters(s, n + 1) + Cardinality(BlanksOf(s, n + 1)) + Cardinality(LinesOf(s, n + 1)) * (BufferSize - 1)
    BY <1>10, <2>1
  <2>3. Characters(s, n + 1) <= received'
    BY <1>10
  <2>4. stream' = s
    BY <1>0, <1>3
  <2> HIDE DEF rest, chars, white, lines
  <2>5. QED BY <1>11, <2>2, <2>3, <2>4 DEF Counts
<1> HIDE DEF rest, chars, white, lines
<1>13. [text |-> new_string', pending |-> pending'] = Lines(s)[n + 1]
  BY <1>3, <1>5 DEF Empty
\* The first line.
<1>14. CASE FirstLineEnds
  <2>1. /\ line = "first" /\ result' = FirstLine(Text(s, n + 1), request) /\ UNCHANGED <<headers, the_rest>>
    BY <1>7, <1>14 DEF FirstLineEnds
  <2>2. LinesOf(s, n) = {} /\ headers = <<>> /\ the_rest = <<>>
    BY <1>0, <1>2, <2>1 DEF Going, Parsed
  <2>3. First(s) = n + 1
    <3>1. \A end \in Feeds(s) : ~ (end < n + 1)
      BY <1>1, <1>8, <2>2 DEF LinesOf
    <3>2. First(s) <= n + 1 /\ ~ (First(s) < n + 1) /\ First(s) \in Nat
      BY <1>8, <3>1
    <3>3. QED BY <1>4, <3>2
  <2>4. result' \in {"reading", "invalid", "panicked"}
    BY <2>1, FirstLineType
  <2>5. CASE result' = "reading"
    <3>1. \A end \in 1..(n + 1) : ~LastLine(s, end)
      <4>1. \A end \in 1..(n + 1) : ~ (First(s) < end)
        BY <1>1, <2>3
      <4>2. QED BY <4>1 DEF LastLine
    <3>2. Headed(s, request, n + 1)
      <4>1. \A end \in 1..((n + 1) - 1) : end \in 1..(n + 1)
        BY <1>1
      <4>2. n + 1 <= n + 1
        BY <1>1
      <4>3. FirstLine(Text(s, First(s)), request) = "reading"
        BY <2>1, <2>3, <2>5
      <4>4. QED BY <1>8, <2>3, <3>1, <4>1, <4>2, <4>3 DEF Headed
    <3>3. ~LastLine(s, n + 1)
      BY <1>1, <3>1
    <3>4. Headers(s, n + 1) = <<>>
      <4>1. Fields(s, n + 1) = {}
        BY <1>8, <2>3 DEF Fields
      <4>2. QED BY <4>1, NoFields
    <3>5. Parsed(n + 1)'
      BY <1>0, <1>3, <1>9, <1>13, <2>1, <2>2, <3>2, <3>3, <3>4 DEF Parsed
    <3>6. Going(n + 1)'
      BY <1>12, <3>5 DEF Going
    <3>7. QED BY <1>4, <2>5, <3>6 DEF HeadKept
  <2>6. CASE result' \in {"invalid", "panicked"}
    <3>1. Feeds(stream') # {} /\ FirstLine(Text(stream', First(stream')), request') = result'
      BY <1>0, <1>3, <1>8, <2>1, <2>3
    <3>2. QED BY <2>6, <3>1 DEF HeadKept
  <2>7. QED BY <2>4, <2>5, <2>6
\* A header line.
<1>15. CASE HeaderLineEnds
  <2>1. line = "header" /\ headers' = WithHeader(headers, Text(s, n + 1))
    BY <1>7, <1>15 DEF HeaderLineEnds
  <2>2. /\ headers = Headers(s, n) /\ Headed(s, request, n) /\ ~LastLine(s, n) /\ the_rest = <<>>
    BY <1>0, <1>2, <2>1 DEF Going, Parsed
  <2>3. First(s) < n + 1 /\ First(s) \in Nat
    BY <1>1, <1>8, <2>2 DEF Headed
  <2>4. headers' = Headers(s, n + 1)
    BY <1>1, <1>8, <2>1, <2>2, <2>3, AnotherField
  <2>5. Headed(s, request, n + 1)
    <3>1. \A end \in 1..((n + 1) - 1) : end = n \/ end \in 1..(n - 1)
      BY <1>1
    <3>2. First(s) <= n + 1
      BY <1>1, <2>3
    <3>3. QED BY <2>2, <3>1, <3>2 DEF Headed
  <2>6. LastLine(s, n + 1) <=> Text(s, n + 1) = <<>>
    BY <1>8, <2>3 DEF LastLine
  <2>7. CASE Text(s, n + 1) = <<>>
    <3>1. result' = "done" /\ the_rest' = SubSeq(read_buffer, pos + 2, read_buf)
      BY <1>7, <1>15, <2>7 DEF HeaderLineEnds
    <3>2. the_rest' = SubSeq(s, n + 2, consumed) /\ Len(the_rest') = rest
      <4>1. /\ read_buffer \in Seq(Bytes \cup {Nul}) /\ Len(read_buffer) = BufferSize /\ read_buf <= BufferSize
        BY BufferAssumption DEF TypeInv, ReaderTypeOK, WindowInv
      <4>2. pos + 2 \in Nat \ {0} /\ read_buf \in 0..Len(read_buffer) /\ n + 2 \in Nat \ {0} /\ consumed \in 0..Len(s)
        BY <1>0, <1>1, <1>3a, <4>1
      <4> DEFINE one == SubSeq(read_buffer, pos + 2, read_buf)
                 other == SubSeq(s, n + 2, consumed)
      <4>3. /\ one \in Seq(Bytes \cup {Nul}) /\ Len(one) = IF pos + 2 <= read_buf THEN read_buf - (pos + 2) + 1 ELSE 0
            /\ \A i \in 1..(read_buf - (pos + 2) + 1) : one[i] = read_buffer[pos + 2 + i - 1]
        <5> DEFINE m == pos + 2
        <5>1. m \in Nat \ {0} /\ read_buf \in 0..Len(read_buffer)
          BY <4>2
        <5> HIDE DEF m
        <5>2. /\ SubSeq(read_buffer, m, read_buf) \in Seq(Bytes \cup {Nul})
              /\ Len(SubSeq(read_buffer, m, read_buf)) = IF m <= read_buf THEN read_buf - m + 1 ELSE 0
              /\ \A i \in 1..(read_buf - m + 1) : SubSeq(read_buffer, m, read_buf)[i] = read_buffer[m + i - 1]
          BY <4>1, <5>1, AnyCut
        <5>3. QED BY <5>2 DEF m
      <4>4. /\ other \in Seq(Bytes) /\ Len(other) = IF n + 2 <= consumed THEN consumed - (n + 2) + 1 ELSE 0
            /\ \A i \in 1..(consumed - (n + 2) + 1) : other[i] = s[n + 2 + i - 1]
        <5> DEFINE m == n + 2
        <5>1. m \in Nat \ {0} /\ consumed \in 0..Len(s)
          BY <4>2
        <5> HIDE DEF m
        <5>2. /\ SubSeq(s, m, consumed) \in Seq(Bytes)
              /\ Len(SubSeq(s, m, consumed)) = IF m <= consumed THEN consumed - m + 1 ELSE 0
              /\ \A i \in 1..(consumed - m + 1) : SubSeq(s, m, consumed)[i] = s[m + i - 1]
          BY <1>1, <5>1, AnyCut
        <5>3. QED BY <5>2 DEF m
      <4> HIDE DEF one, other
      <4>5. consumed - n = read_buf - pos
        BY <1>0, <1>3a DEF Seen
      <4>6. Len(one) = rest /\ Len(other) = rest /\ rest \in Nat
            /\ rest = read_buf - (pos + 2) + 1 /\ rest = consumed - (n + 2) + 1
        BY <1>1, <1>3a, <4>3, <4>4, <4>5 DEF rest
      <4>7. ASSUME NEW i \in 1..rest PROVE one[i] = other[i]
        <5>1. one[i] = read_buffer[pos + 2 + i - 1] /\ other[i] = s[n + 2 + i - 1]
          BY <4>3, <4>4, <4>6
        <5>2. pos + 2 + i - 1 \in (pos + 1)..read_buf /\ consumed - read_buf + (pos + 2 + i - 1) = n + 2 + i - 1
          BY <1>1, <1>3a, <4>5, <4>6
        <5>3. read_buffer[pos + 2 + i - 1] = stream[consumed - read_buf + (pos + 2 + i - 1)]
          BY <5>2 DEF TypeInv, WindowInv, WindowIsTheStream
        <5>4. QED BY <1>0, <5>1, <5>2, <5>3
      <4>8. other \in Seq(Bytes \cup {Nul})
        BY <4>4, SeqMonotonic
      <4>9. one = other
        BY <4>3, <4>6, <4>7, <4>8, SeqEqual
      <4>10. QED BY <3>1, <4>6, <4>9 DEF one, other
    <3>3. Ended(n + 1)'
      <4>1. (n + 1) + 1 = n + 2
        BY <1>1
      <4>2. stream' = s /\ request' = request /\ consumed' = consumed
        BY <1>0, <1>3
      <4>3. LastLine(s, n + 1)
        BY <2>6, <2>7
      <4>4. the_rest' = SubSeq(s, (n + 1) + 1, consumed)
        BY <3>2, <4>1
      <4>5. /\ Characters(s, n + 1) + Len(the_rest') <= received'
            /\ received' <= Characters(s, n + 1) + Len(the_rest') + Cardinality(BlanksOf(s, n + 1))
                 + (Cardinality(LinesOf(s, n + 1)) - 1) * (BufferSize - 1)
        BY <1>10, <3>2 DEF chars, white, lines
      <4>6. QED BY <2>4, <2>5, <4>2, <4>3, <4>4, <4>5 DEF Ended
    <3>4. QED BY <1>4, <3>1, <3>3 DEF HeadKept
  <2>8. CASE Text(s, n + 1) # <<>>
    <3>1. UNCHANGED <<result, the_rest>>
      BY <1>7, <1>15, <2>8 DEF HeaderLineEnds
    <3>2. Parsed(n + 1)'
      BY <1>0, <1>3, <1>9, <1>13, <2>2, <2>4, <2>5, <2>6, <2>8, <3>1 DEF Parsed
    <3>3. Going(n + 1)'
      BY <1>12, <3>2 DEF Going
    <3>4. QED BY <1>1, <1>4, <3>1, <3>3 DEF HeadKept
  <2>9. QED BY <2>7, <2>8
<1>16. QED BY <1>14, <1>15 DEF LineEnds

\* What leaves the bytes that were looked at, and what was parsed, alone.
LEMMA HeadStaysRead ==
  ASSUME HeadKept, result = "reading", Seen' = Seen,
         UNCHANGED <<stream, request, new_string, pending, line, headers, the_rest, received>>,
         result' = "reading" \/ (result' = "closed" /\ Seen = Len(stream))
  PROVE  HeadKept'
<1>0. PICK n : n = Seen
  OBVIOUS
<1>1. Going(n)
  BY <1>0 DEF HeadKept
<1>2. Going(n)'
  BY <1>1 DEF Going, Parsed, Counts
<1>3. QED BY <1>0, <1>2 DEF HeadKept

LEMMA HeadSteps == HeadInv /\ [ReaderNext]_reader_vars => HeadInv'
<1> SUFFICES ASSUME HeadInv, [ReaderNext]_reader_vars PROVE HeadKept'
  BY NextType DEF HeadInv
<1>1. TypeInv /\ HeadKept /\ pos \in Nat /\ read_buf \in Nat /\ consumed \in Nat
  BY DEF HeadInv, TypeInv, WindowInv
<1>2. CASE Closed
  <2>1. Seen' = Seen /\ Seen = Len(stream)
    BY <1>1, <1>2 DEF Closed, source, window, Seen
  <2>2. QED BY <1>1, <1>2, <2>1, HeadStaysRead DEF Closed, source
<1>3. CASE \E n \in 1..BufferSize : Read(n)
  <2>1. Seen' = Seen
    BY <1>1, <1>3, BufferAssumption DEF Read, Seen
  <2>2. QED BY <1>1, <1>3, <2>1, HeadStaysRead DEF Read, source, parsed
<1>4. CASE UNCHANGED reader_vars
  <2>1. UNCHANGED <<stream, request, consumed, pos, read_buf, new_string, pending, line, headers, the_rest, received, result>>
    BY <1>4 DEF reader_vars, source, window, parsed
  <2>2. PICK n : n = Seen
    OBVIOUS
  <2>3. Seen' = n /\ (Going(n) => Going(n)') /\ (Ended(n) => Ended(n)')
    BY <2>1, <2>2 DEF Seen, Going, Parsed, Counts, Ended
  <2>4. QED BY <1>1, <2>1, <2>2, <2>3 DEF HeadKept
<1>5. QED BY <1>1, <1>2, <1>3, <1>4, LineKeeps, ByteKeeps DEF ReaderNext

LEMMA HeadInvHolds == ReaderSpec => []HeadInv
<1>1. ReaderInit => HeadInv
  BY InitType, HeadStarts DEF HeadInv
<1>2. QED BY <1>1, HeadSteps, PTL DEF ReaderSpec

\* The whole of a stream that has no line, or a first line and no empty one behind it.
LEMMA WholeIsClosed ==
  ASSUME NEW s \in Seq(Bytes), NEW isRequest,
         Feeds(s) # {} => /\ FirstLine(Text(s, First(s)), isRequest) = "reading"
                          /\ \A end \in Feeds(s) : ~LastLine(s, end)
  PROVE  Whole(s, isRequest) = [result |-> "closed"]
<1> DEFINE blanks == {end \in Feeds(s) : First(s) < end /\ Text(s, end) = <<>>}
           first == FirstLine(Text(s, First(s)), isRequest)
<1>1. Feeds(s) # {} => first = "reading" /\ blanks = {}
  BY DEF LastLine
<1> HIDE DEF blanks, first
<1>2. Whole(s, isRequest) =
        CASE Feeds(s) = {} -> [result |-> "closed"]
          [] Feeds(s) # {} /\ first # "reading" -> [result |-> first]
          [] OTHER -> IF blanks = {} THEN [result |-> "closed"]
                      ELSE [result |-> "done", headers |-> Headers(s, Min(blanks)),
                            behind |-> SubSeq(s, Min(blanks) + 1, Len(s))]
  BY Zenon DEF Whole, blanks, first
<1>3. QED BY <1>1, <1>2

LEMMA WholeIsRefused ==
  ASSUME NEW s \in Seq(Bytes), NEW isRequest, Feeds(s) # {},
         FirstLine(Text(s, First(s)), isRequest) # "reading"
  PROVE  Whole(s, isRequest) = [result |-> FirstLine(Text(s, First(s)), isRequest)]
<1> DEFINE blanks == {end \in Feeds(s) : First(s) < end /\ Text(s, end) = <<>>}
           first == FirstLine(Text(s, First(s)), isRequest)
<1>1. first # "reading"
  OBVIOUS
<1>2. Whole(s, isRequest) =
        CASE Feeds(s) = {} -> [result |-> "closed"]
          [] Feeds(s) # {} /\ first # "reading" -> [result |-> first]
          [] OTHER -> IF blanks = {} THEN [result |-> "closed"]
                      ELSE [result |-> "done", headers |-> Headers(s, Min(blanks)),
                            behind |-> SubSeq(s, Min(blanks) + 1, Len(s))]
  BY Zenon DEF Whole
<1> HIDE DEF blanks, first
<1>3. Whole(s, isRequest) = [result |-> first]
  BY <1>1, <1>2
<1>4. QED BY <1>3 DEF first

LEMMA WholeIsDone ==
  ASSUME NEW s \in Seq(Bytes), NEW isRequest, NEW n, Headed(s, isRequest, n), LastLine(s, n)
  PROVE  Whole(s, isRequest) = [result |-> "done", headers |-> Headers(s, n), behind |-> SubSeq(s, n + 1, Len(s))]
<1> DEFINE blanks == {end \in Feeds(s) : First(s) < end /\ Text(s, end) = <<>>}
           first == FirstLine(Text(s, First(s)), isRequest)
<1>1. first = "reading" /\ Feeds(s) # {}
  BY DEF Headed
<1>2. Feeds(s) \subseteq 1..Len(s) /\ blanks \subseteq Nat /\ n \in blanks
  BY FirstIs DEF LastLine
<1>3. ASSUME NEW y \in blanks PROVE ~ (y < n)
  <2> SUFFICES ASSUME y < n PROVE FALSE
    OBVIOUS
  <2>1. y \in 1..(n - 1) /\ LastLine(s, y)
    BY <1>2 DEF LastLine
  <2>2. QED BY <2>1 DEF Headed
<1>4. Whole(s, isRequest) =
        CASE Feeds(s) = {} -> [result |-> "closed"]
          [] Feeds(s) # {} /\ first # "reading" -> [result |-> first]
          [] OTHER -> IF blanks = {} THEN [result |-> "closed"]
                      ELSE [result |-> "done", headers |-> Headers(s, Min(blanks)),
                            behind |-> SubSeq(s, Min(blanks) + 1, Len(s))]
  BY Zenon DEF Whole
<1> HIDE DEF blanks, first
<1>5. Min(blanks) = n
  BY <1>2, <1>3, MinIs
<1>6. blanks # {}
  BY <1>2
<1>7. QED BY <1>1, <1>4, <1>5, <1>6

\* Two parts of a sequence, one behind the other.
LEMMA PartsJoin ==
  ASSUME NEW s \in Seq(Bytes), NEW a \in 0..Len(s), NEW b \in a..Len(s)
  PROVE  /\ Len(SubSeq(s, a + 1, b)) = b - a
         /\ SubSeq(s, a + 1, b) \o SubSeq(s, b + 1, Len(s)) = SubSeq(s, a + 1, Len(s))
<1> DEFINE one == SubSeq(s, a + 1, b)
           two == SubSeq(s, b + 1, Len(s))
           all == SubSeq(s, a + 1, Len(s))
           m == Len(s)
<1>1. m \in Nat /\ a \in Nat /\ b \in Nat /\ a <= b /\ b <= m
  OBVIOUS
<1>2. one \in Seq(Bytes) /\ Len(one) = b - a /\ \A i \in 1..(b - a) : one[i] = s[a + i]
  <2>1. /\ one \in Seq(Bytes) /\ Len(one) = IF a + 1 <= b THEN b - (a + 1) + 1 ELSE 0
        /\ \A i \in 1..(b - (a + 1) + 1) : one[i] = s[a + 1 + i - 1]
    <3>1. a + 1 \in Nat \ {0} /\ b \in 0..Len(s)
      BY <1>1
    <3>2. QED BY <3>1, AnyCut
  <2> HIDE DEF one
  <2>2. \A i \in 1..(b - a) : i \in 1..(b - (a + 1) + 1) /\ a + 1 + i - 1 = a + i
    BY <1>1
  <2>3. QED BY <1>1, <2>1, <2>2
<1>3. two \in Seq(Bytes) /\ Len(two) = m - b /\ \A i \in 1..(m - b) : two[i] = s[b + i]
  <2>1. /\ two \in Seq(Bytes) /\ Len(two) = IF b + 1 <= m THEN m - (b + 1) + 1 ELSE 0
        /\ \A i \in 1..(m - (b + 1) + 1) : two[i] = s[b + 1 + i - 1]
    <3>1. b + 1 \in Nat \ {0} /\ m \in 0..Len(s)
      BY <1>1
    <3>2. QED BY <3>1, AnyCut
  <2> HIDE DEF two, m
  <2>2. \A i \in 1..(m - b) : i \in 1..(m - (b + 1) + 1) /\ b + 1 + i - 1 = b + i
    BY <1>1
  <2>3. QED BY <1>1, <2>1, <2>2
<1>4. all \in Seq(Bytes) /\ Len(all) = m - a /\ \A i \in 1..(m - a) : all[i] = s[a + i]
  <2>1. /\ all \in Seq(Bytes) /\ Len(all) = IF a + 1 <= m THEN m - (a + 1) + 1 ELSE 0
        /\ \A i \in 1..(m - (a + 1) + 1) : all[i] = s[a + 1 + i - 1]
    <3>1. a + 1 \in Nat \ {0} /\ m \in 0..Len(s)
      BY <1>1
    <3>2. QED BY <3>1, AnyCut
  <2> HIDE DEF all, m
  <2>2. \A i \in 1..(m - a) : i \in 1..(m - (a + 1) + 1) /\ a + 1 + i - 1 = a + i
    BY <1>1
  <2>3. QED BY <1>1, <2>1, <2>2
<1> HIDE DEF one, two, all, m
<1>5. /\ one \o two \in Seq(Bytes) /\ Len(one \o two) = Len(one) + Len(two)
      /\ \A i \in 1..(Len(one) + Len(two)) : (one \o two)[i] = IF i <= Len(one) THEN one[i] ELSE two[i - Len(one)]
  BY <1>2, <1>3, ConcatProperties
<1>6. ASSUME NEW i \in 1..(m - a) PROVE (one \o two)[i] = all[i]
  <2>1. i \in 1..(Len(one) + Len(two))
    BY <1>1, <1>2, <1>3
  <2>2. CASE i <= b - a
    <3>1. i \in 1..(b - a)
      BY <1>1, <2>2
    <3>2. QED BY <1>2, <1>4, <1>5, <2>1, <2>2, <3>1
  <2>3. CASE ~ (i <= b - a)
    <3>1. i - (b - a) \in 1..(m - b) /\ b + (i - (b - a)) = a + i
      BY <1>1, <2>3
    <3>2. (one \o two)[i] = two[i - (b - a)]
      BY <1>2, <1>5, <2>1, <2>3
    <3>3. QED BY <1>3, <1>4, <3>1, <3>2
  <2>4. QED BY <2>2, <2>3
<1>7. Len(one \o two) = m - a
  BY <1>1, <1>2, <1>3, <1>5
<1>8. one \o two = all
  BY <1>4, <1>5, <1>6, <1>7, SeqEqual
<1>9. QED BY <1>2, <1>8 DEF one, two, all, m

\* A line of the front of a stream is one of the stream.
LEMMA FrontIs ==
  ASSUME NEW s \in Seq(Bytes), NEW n \in 0..Len(s)
  PROVE  /\ Feeds(SubSeq(s, 1, n)) = LinesOf(s, n)
         /\ \A end \in LinesOf(s, n) : Text(SubSeq(s, 1, n), end) = Text(s, end)
         /\ LinesOf(s, n) # {} => First(SubSeq(s, 1, n)) = First(s)
<1> DEFINE p == SubSeq(s, 1, n)
<1>1. p \in Seq(Bytes) /\ Len(p) = n /\ \A i \in 1..n : p[i] = s[i]
  BY Cut
<1>2. \A i \in 0..n : Lines(p)[i] = Lines(s)[i]
  BY LinesOfFront
<1> HIDE DEF p
<1>3. Feeds(p) = LinesOf(s, n)
  BY <1>1 DEF Feeds, LinesOf
<1>4. ASSUME NEW end \in LinesOf(s, n) PROVE Text(p, end) = Text(s, end)
  <2>1. end - 1 \in 0..n
    BY DEF LinesOf
  <2>2. QED BY <1>2, <2>1 DEF Text
<1>5. ASSUME LinesOf(s, n) # {} PROVE First(p) = First(s)
  <2>1. First(p) \in LinesOf(s, n) /\ (\A end \in LinesOf(s, n) : First(p) <= end)
    BY <1>1, <1>3, <1>5, FirstIs
  <2>2. Feeds(s) # {} /\ LinesOf(s, n) \subseteq Feeds(s) /\ Feeds(s) \subseteq 1..Len(s)
    BY <1>5, FirstIs DEF LinesOf
  <2>3. First(s) \in Feeds(s) /\ \A end \in Feeds(s) : First(s) <= end
    BY <2>2, FirstIs
  <2>4. First(s) <= First(p) /\ First(p) \in 1..n
    BY <2>1, <2>2, <2>3 DEF LinesOf
  <2>5. First(s) \in LinesOf(s, n)
    BY <2>2, <2>3, <2>4 DEF LinesOf
  <2>6. First(p) <= First(s)
    BY <2>1, <2>5
  <2>7. QED BY <2>2, <2>3, <2>4, <2>6
<1>6. QED BY <1>3, <1>4, <1>5 DEF p

-------------------------------------------------------------------------------
LEMMA SeenIs ==
  ASSUME TypeInv
  PROVE  /\ stream \in Seq(Bytes) /\ Seen \in 0..consumed /\ consumed \in 0..Len(stream)
         /\ pos = read_buf => Seen = consumed
BY DEF TypeInv, ReaderTypeOK, WindowInv, Seen

LEMMA HeadIsAsSent == HeadInv => HeadAsSent
<1> SUFFICES ASSUME HeadInv PROVE HeadAsSent
  OBVIOUS
<1>1. PICK s, n : s = stream /\ n = Seen
  OBVIOUS
<1>2. s \in Seq(Bytes) /\ n \in 0..consumed /\ consumed \in 0..Len(s) /\ HeadKept
  BY <1>1, SeenIs DEF HeadInv
<1>3. SameForEveryCut
  <2>1. CASE result = "closed"
    <3>1. Going(n) /\ n = Len(s)
      BY <1>1, <1>2, <2>1 DEF HeadKept
    <3>2. LinesOf(s, n) = Feeds(s)
      BY <1>2, <3>1, FirstIs DEF LinesOf
    <3>3. Feeds(s) # {} => Headed(s, request, n) /\ ~LastLine(s, n)
      BY <1>1, <3>1, <3>2 DEF Going, Parsed
    <3>4. ASSUME NEW end \in Feeds(s) PROVE ~LastLine(s, end)
      <4>1. end \in 1..n
        BY <1>2, <3>1, FirstIs
      <4>2. end = n \/ end \in 1..(n - 1)
        BY <1>2, <4>1
      <4>3. \A i \in 1..(n - 1) : ~LastLine(s, i)
        BY <3>3 DEF Headed
      <4>4. ~LastLine(s, n)
        BY <3>3
      <4>5. QED BY <4>2, <4>3, <4>4
    <3>5. Whole(s, request) = [result |-> "closed"]
      <4>1. Feeds(s) # {} => FirstLine(Text(s, First(s)), request) = "reading"
        BY <3>3 DEF Headed
      <4>2. QED BY <1>2, <3>4, <4>1, WholeIsClosed
    <3>6. QED BY <1>1, <2>1, <3>5 DEF SameForEveryCut
  <2>2. CASE result \in {"invalid", "panicked"}
    <3>1. Feeds(s) # {} /\ FirstLine(Text(s, First(s)), request) = result
      BY <1>1, <1>2, <2>2 DEF HeadKept
    <3>2. Whole(s, request) = [result |-> result]
      <4>1. FirstLine(Text(s, First(s)), request) # "reading"
        BY <2>2, <3>1
      <4>2. QED BY <1>2, <3>1, <4>1, WholeIsRefused
    <3>3. QED BY <1>1, <2>2, <3>2 DEF SameForEveryCut
  <2>3. CASE result = "done"
    <3>1. Ended(n)
      BY <1>1, <1>2, <2>3 DEF HeadKept
    <3>2. Whole(s, request) = [result |-> "done", headers |-> Headers(s, n), behind |-> SubSeq(s, n + 1, Len(s))]
      BY <1>1, <1>2, <3>1, WholeIsDone DEF Ended
    <3>3. the_rest \o SubSeq(s, consumed + 1, Len(s)) = SubSeq(s, n + 1, Len(s))
      <4>1. n \in 0..Len(s) /\ consumed \in n..Len(s)
        BY <1>2
      <4>2. SubSeq(s, n + 1, consumed) \o SubSeq(s, consumed + 1, Len(s)) = SubSeq(s, n + 1, Len(s))
        BY <1>2, <4>1, PartsJoin
      <4>3. the_rest = SubSeq(s, n + 1, consumed)
        BY <1>1, <3>1 DEF Ended
      <4>4. QED BY <4>2, <4>3
    <3>4. headers = Headers(s, n)
      BY <1>1, <3>1 DEF Ended
    <3>5. /\ Whole(s, request).result = "done" /\ Whole(s, request).headers = Headers(s, n)
          /\ Whole(s, request).behind = SubSeq(s, n + 1, Len(s))
      <4> DEFINE h == Headers(s, n)
                 b == SubSeq(s, n + 1, Len(s))
                 w == Whole(s, request)
      <4>1. w = [result |-> "done", headers |-> h, behind |-> b]
        BY <3>2
      <4> HIDE DEF h, b, w
      <4>2. w.result = "done" /\ w.headers = h /\ w.behind = b
        BY <4>1
      <4>3. QED BY <4>2 DEF h, b, w
    <3>6. /\ result = Whole(s, request).result /\ headers = Whole(s, request).headers
          /\ the_rest \o SubSeq(s, consumed + 1, Len(s)) = Whole(s, request).behind
      BY <2>3, <3>3, <3>4, <3>5
    <3>7. /\ result = Whole(stream, request).result /\ headers = Whole(stream, request).headers
          /\ the_rest \o SubSeq(stream, consumed + 1, Len(stream)) = Whole(stream, request).behind
      BY <1>1, <3>6
    <3>8. QED BY <3>7 DEF SameForEveryCut
  <2>4. result \in {"reading", "done", "invalid", "panicked", "closed"}
    BY DEF HeadInv, TypeInv, ReaderTypeOK
  <2>5. QED BY <2>1, <2>2, <2>3, <2>4 DEF SameForEveryCut
<1>4. ReceivedWithin
  <2> SUFFICES ASSUME result = "done" PROVE ReceivedWithin
    BY DEF ReceivedWithin
  <2>1. Ended(n)
    BY <1>1, <1>2 DEF HeadKept
  <2>2. the_rest = SubSeq(s, n + 1, consumed)
    BY <1>1, <2>1 DEF Ended
  <2>3. Len(the_rest) = consumed - n
    <3>1. n \in 0..Len(s) /\ consumed \in n..Len(s)
      BY <1>2
    <3>2. QED BY <1>2, <2>2, <3>1, PartsJoin
  <2>4. consumed - Len(the_rest) = n
    BY <1>2, <2>3
  <2>5. /\ Characters(stream, n) + Len(the_rest) <= received
        /\ received <= Characters(stream, n) + Len(the_rest) + Cardinality({i \in 1..n : stream[i] \in Blank})
             + (Cardinality(Feeds(stream) \cap (1..n)) - 1) * (BufferSize - 1)
    BY <2>1 DEF Ended, BlanksOf, LinesOf
  <2>6. QED BY <2>4, <2>5 DEF ReceivedWithin
<1>5. QED BY <1>3, <1>4 DEF HeadAsSent

LEMMA HeadNeedsWhatItReads == HeadInv => ReadsOnlyWhatItNeeds
<1> SUFFICES ASSUME HeadInv, result = "reading", pos = read_buf
             PROVE  Whole(SubSeq(stream, 1, consumed), request).result = "closed"
  BY DEF ReadsOnlyWhatItNeeds
<1>1. PICK s, n : s = stream /\ n = consumed
  OBVIOUS
<1> DEFINE p == SubSeq(s, 1, n)
<1>2. s \in Seq(Bytes) /\ n \in 0..Len(s) /\ n = Seen /\ HeadKept
  BY <1>1, SeenIs DEF HeadInv
<1>3. Going(n)
  BY <1>1, <1>2 DEF HeadKept
<1>4. /\ p \in Seq(Bytes) /\ Feeds(p) = LinesOf(s, n)
      /\ \A end \in LinesOf(s, n) : Text(p, end) = Text(s, end)
      /\ LinesOf(s, n) # {} => First(p) = First(s)
  BY <1>2, FrontIs, Cut
<1> HIDE DEF p
<1>5. ASSUME LinesOf(s, n) # {}
      PROVE  /\ FirstLine(Text(p, First(p)), request) = "reading"
             /\ \A end \in Feeds(p) : ~LastLine(p, end)
  <2>1. Headed(s, request, n) /\ ~LastLine(s, n)
    BY <1>1, <1>3, <1>5 DEF Going, Parsed
  <2>2. First(p) \in LinesOf(s, n)
    BY <1>4, <1>5, FirstIs
  <2>3. FirstLine(Text(p, First(p)), request) = "reading"
    BY <1>4, <1>5, <2>1, <2>2 DEF Headed
  <2>4. ASSUME NEW end \in Feeds(p) PROVE ~LastLine(p, end)
    <3>1. end \in LinesOf(s, n) /\ end \in Feeds(s) /\ end \in 1..n
      BY <1>4 DEF LinesOf
    <3>2. end = n \/ end \in 1..(n - 1)
      BY <1>2, <3>1
    <3>3. ~LastLine(s, end)
      BY <2>1, <3>2 DEF Headed
    <3>4. QED BY <1>4, <1>5, <3>1, <3>3 DEF LastLine
  <2>5. QED BY <2>3, <2>4
<1>6. Whole(p, request) = [result |-> "closed"]
  BY <1>4, <1>5, WholeIsClosed
<1>7. QED BY <1>1, <1>6 DEF p

\* For every stream, every size of the array and every way the reads cut it: the head has
\* the same lines, fields and end, or is refused for the same reason, what follows it is
\* kept in order, and received is off by no more than a buffer for every line.
THEOREM HeadsAreAsSent == ReaderSpec => []HeadAsSent
BY HeadIsAsSent, HeadInvHolds, PTL

\* And it never waits for more once it has a head, or bytes that can be none.
THEOREM NothingIsAwaitedInVain == ReaderSpec => []ReadsOnlyWhatItNeeds
BY HeadNeedsWhatItReads, HeadInvHolds, PTL

-------------------------------------------------------------------------------
\* Split.
Pieces(A) == Seq(Seq(A)) \ {<<>>}

LEMMA ChoppedType ==
  ASSUME NEW A, NEW pieces \in Pieces(A), NEW x \in A, NEW c
  PROVE  Chopped(pieces, x, c) \in Pieces(A)
<1>1. CASE x = c
  BY <1>1 DEF Chopped, Pieces
<1>2. CASE x # c
  <2>1. Len(pieces) \in 1..Len(pieces)
    BY DEF Pieces
  <2>2. Append(pieces[Len(pieces)], x) \in Seq(A)
    BY <2>1 DEF Pieces
  <2>3. Chopped(pieces, x, c) = [pieces EXCEPT ![Len(pieces)] = Append(pieces[Len(pieces)], x)]
    BY <1>2 DEF Chopped
  <2>4. QED BY <2>1, <2>2, <2>3 DEF Pieces
<1>3. QED BY <1>1, <1>2

LEMMA SplitIs ==
  ASSUME NEW A, NEW s \in Seq(A), NEW c
  PROVE  \E f : /\ f \in [0..Len(s) -> Pieces(A)]
                /\ f[0] = <<<<>>>>
                /\ \A i \in 1..Len(s) : f[i] = Chopped(f[i - 1], s[i], c)
                /\ Split(s, c) = f[Len(s)]
<1> DEFINE S == Pieces(A)
           n == Len(s)
           base == <<<<>>>>
           g == [p \in S \X (1..n) |-> Chopped(p[1], s[p[2]], c)]
<1>1. \A x \in S : \A i \in 1..n : g[<<x, i>>] = Chopped(x, s[i], c) /\ g[<<x, i>>] \in S
  BY ChoppedType
<1>2. base \in S /\ n \in Nat
  BY DEF Pieces
<1> HIDE DEF g, S, n, base
<1>3. \E f : Folds(f, S, g, base, n)
  <2>1. Stays(S, g, n)
    BY <1>1 DEF Stays
  <2>2. QED BY <1>2, <2>1, FoldExists, Zenon
<1>3a. PICK f : f \in [0..n -> S] /\ f[0] = base /\ \A i \in 1..n : f[i] = g[<<f[i - 1], i>>]
  BY <1>3, Zenon DEF Folds
<1>4. f[0] = base /\ \A i \in 1..n : f[i] = Chopped(f[i - 1], s[i], c)
  <2>1. f[0] = base
    BY <1>3a
  <2>2. ASSUME NEW i \in 1..n PROVE f[i] = Chopped(f[i - 1], s[i], c)
    <3>1. i \in 0..n /\ i - 1 \in 0..n /\ i # 0
      BY <1>2
    <3>2. f[i - 1] \in S /\ f[i] = g[<<f[i - 1], i>>]
      BY <1>3a, <3>1
    <3>3. QED BY <1>1, <3>2
  <2>3. QED BY <2>1, <2>2
<1>5. f = [i \in 0..n |-> IF i = 0 THEN base ELSE Chopped(f[i - 1], s[i], c)]
  <2>1. ASSUME NEW i \in 0..n PROVE f[i] = IF i = 0 THEN base ELSE Chopped(f[i - 1], s[i], c)
    BY <1>4, <1>2
  <2>2. QED BY <1>3a, <2>1
<1> DEFINE u[i \in 0..n] == IF i = 0 THEN base ELSE Chopped(u[i - 1], s[i], c)
<1>6. u = [i \in 0..n |-> IF i = 0 THEN base ELSE Chopped(u[i - 1], s[i], c)]
  BY <1>5, Zenon
<1>7. Split(s, c) = u[n]
  BY Zenon DEF Split, n, base
<1> HIDE DEF u
<1>8. \A i \in 0..n : u[i] = IF i = 0 THEN base ELSE Chopped(u[i - 1], s[i], c)
  BY <1>6
<1>9. \A i \in 0..n : u[i] \in S
  <2> DEFINE T == {i \in 0..n : u[i] \in S}
  <2>1. 0 \in T
    BY <1>2, <1>8
  <2>2. ASSUME NEW k \in 0..(n - 1), k \in T PROVE k + 1 \in T
    <3>1. k + 1 \in 1..n /\ (k + 1) - 1 = k /\ k + 1 \in 0..n /\ k + 1 # 0
      BY <1>2
    <3>2. u[k + 1] = Chopped(u[k], s[k + 1], c) /\ u[k] \in S
      BY <1>8, <2>2, <3>1
    <3>3. QED BY <1>1, <3>1, <3>2
  <2> HIDE DEF T
  <2>3. \A k \in 0..n : k \in T
    BY <1>2, <2>1, <2>2, Induction
  <2>4. QED BY <2>3 DEF T
<1>10. u \in [0..n -> S]
  BY <1>6, <1>9
<1>11. u[0] = base /\ \A i \in 1..n : u[i] = Chopped(u[i - 1], s[i], c)
  BY <1>2, <1>8
<1>12. QED BY <1>7, <1>10, <1>11 DEF n, base, S

-------------------------------------------------------------------------------
\* FlattenSeq puts the sequences together one after the other.
LEMMA FlattenIs ==
  ASSUME NEW A, NEW q \in Seq(Seq(A))
  PROVE  \E f : /\ f \in [0..Len(q) -> Seq(A)]
                /\ f[0] = <<>>
                /\ \A i \in 1..Len(q) : f[i] = f[i - 1] \o q[i]
                /\ FlattenSeq(q) = f[Len(q)]
<1> DEFINE S == Seq(A)
           n == Len(q)
           g == [p \in S \X (1..n) |-> p[1] \o q[p[2]]]
<1>1. \A x \in S : \A i \in 1..n : g[<<x, i>>] = x \o q[i] /\ x \o q[i] \in S
  <2>1. ASSUME NEW x \in S, NEW i \in 1..n PROVE x \o q[i] \in S
    <3>1. q[i] \in S
      OBVIOUS
    <3>2. QED BY <3>1, ConcatProperties
  <2> HIDE DEF S, n
  <2>2. QED BY <2>1
<1>2. <<>> \in S /\ n \in Nat
  OBVIOUS
<1>3. \A x \in S : <<>> \o x = x
  BY ConcatEmptySeq
<1>4. \A i \in 1..n : q[i] \in S
  OBVIOUS
<1>5. n = 0 => q = <<>>
  OBVIOUS
<1> HIDE DEF g, S, n
<1>6. \E f : Folds(f, S, g, <<>>, n)
  <2>1. Stays(S, g, n)
    BY <1>1 DEF Stays
  <2>2. QED BY <1>2, <2>1, FoldExists, Zenon
<1>7. PICK f : f \in [0..n -> S] /\ f[0] = <<>> /\ \A i \in 1..n : f[i] = g[<<f[i - 1], i>>]
  BY <1>6, Zenon DEF Folds
<1>8. ASSUME NEW i \in 1..n PROVE f[i] = f[i - 1] \o q[i] /\ f[i - 1] \in S
  <2>1. i - 1 \in 0..n
    BY <1>2
  <2>2. QED BY <1>1, <1>7, <2>1
<1>9. CASE n = 0
  <2>1. FlattenSeq(q) = <<>>
    BY <1>5, <1>9 DEF FlattenSeq, n
  <2>2. QED BY <1>7, <1>8, <1>9, <2>1 DEF n, S
<1>10. CASE n # 0
  <2> DEFINE h == [i \in 1..n |-> f[i]]
  <2>1. h = [i \in 1..n |-> IF i = 1 THEN q[i] ELSE h[i - 1] \o q[i]]
    <3>1. ASSUME NEW i \in 1..n PROVE h[i] = IF i = 1 THEN q[i] ELSE h[i - 1] \o q[i]
      <4>1. CASE i = 1
        <5>1. q[i] \in S /\ h[i] = f[i] /\ f[i] = f[i - 1] \o q[i]
          BY <1>4, <1>8
        <5>2. f[i - 1] = <<>>
          BY <1>7, <4>1
        <5>3. <<>> \o q[i] = q[i]
          BY <1>3, <5>1
        <5>4. QED BY <4>1, <5>1, <5>2, <5>3
      <4>2. CASE i # 1
        <5>1. i - 1 \in 1..n
          BY <1>2, <4>2
        <5>2. QED BY <1>8, <4>2, <5>1
      <4>3. QED BY <4>1, <4>2
    <3> HIDE DEF h
    <3>2. h = [i \in 1..n |-> h[i]]
      BY DEF h
    <3>3. QED BY <3>1, <3>2
  <2> HIDE DEF h
  <2> DEFINE flatten[i \in 1..n] == IF i = 1 THEN q[i] ELSE flatten[i - 1] \o q[i]
  <2>2. flatten = [i \in 1..n |-> IF i = 1 THEN q[i] ELSE flatten[i - 1] \o q[i]]
    BY <2>1, Zenon
  <2>3. FlattenSeq(q) = flatten[n]
    BY <1>10, Zenon DEF FlattenSeq, n
  <2> HIDE DEF flatten
  <2>4. \A i \in 1..n : flatten[i] = IF i = 1 THEN q[i] ELSE flatten[i - 1] \o q[i]
    BY <2>2
  <2> DEFINE T == {0} \cup {i \in 1..n : flatten[i] = f[i]}
  <2>5. \A k \in 0..(n - 1) : k \in T => k + 1 \in T
    <3> TAKE k \in 0..(n - 1)
    <3> HAVE k \in T
    <3>1. k + 1 \in 1..n /\ (k + 1) - 1 = k /\ (k + 1 = 1 <=> k = 0)
      BY <1>2
    <3>2. flatten[k + 1] = IF k = 0 THEN q[1] ELSE flatten[k] \o q[k + 1]
      BY <2>4, <3>1
    <3>3. f[k + 1] = f[k] \o q[k + 1]
      BY <1>8, <3>1
    <3>4. k = 0 => f[k + 1] = q[1]
      BY <1>3, <1>4, <1>7, <3>1, <3>3
    <3>5. QED BY <3>1, <3>2, <3>3, <3>4
  <2>6. 0 \in T
    OBVIOUS
  <2> HIDE DEF T
  <2>7. \A k \in 0..n : k \in T
    BY <1>2, <2>5, <2>6, Induction
  <2>8. flatten[n] = f[n]
    BY <1>2, <1>10, <2>7 DEF T
  <2>9. QED BY <1>7, <1>8, <2>3, <2>8 DEF n, S
<1>11. QED BY <1>9, <1>10

-------------------------------------------------------------------------------
\* Before.
LEMMA BeforeIs ==
  ASSUME NEW s \in Seq(Nat), NEW c
  PROVE  /\ Before(s, c) \in 0..Len(s)
         /\ \A j \in 1..Before(s, c) : s[j] # c
         /\ Before(s, c) < Len(s) => s[Before(s, c) + 1] = c
<1> DEFINE at == {i - 1 : i \in {j \in DOMAIN s : s[j] = c}} \cup {Len(s)}
<1>1. at \subseteq 0..Len(s) /\ at # {}
  OBVIOUS
<1>2. Before(s, c) = Min(at)
  BY DEF Before
<1>3. \A j \in 1..Len(s) : s[j] = c => j - 1 \in at
  OBVIOUS
<1>4. \A x \in at : x < Len(s) => s[x + 1] = c
  OBVIOUS
<1> HIDE DEF at
<1>5. Min(at) \in at /\ \A y \in at : Min(at) <= y
  <2>1. at \subseteq Nat
    BY <1>1
  <2>2. QED BY <1>1, <2>1, MinIsLeast
<1>6. ASSUME NEW j \in 1..Min(at) PROVE s[j] # c
  <2>1. Min(at) \in 0..Len(s)
    BY <1>1, <1>5
  <2>2. j \in 1..Len(s) /\ ~ (Min(at) <= j - 1)
    BY <2>1
  <2>3. QED BY <1>3, <1>5, <2>2
<1>7. QED BY <1>1, <1>2, <1>4, <1>5, <1>6

\* And it is the one number of this kind.
LEMMA BeforeIsOnly ==
  ASSUME NEW s \in Seq(Nat), NEW c, NEW n \in 0..Len(s),
         \A j \in 1..n : s[j] # c, n < Len(s) => s[n + 1] = c
  PROVE  Before(s, c) = n
<1>1. /\ Before(s, c) \in 0..Len(s)
      /\ \A j \in 1..Before(s, c) : s[j] # c
      /\ Before(s, c) < Len(s) => s[Before(s, c) + 1] = c
  BY BeforeIs
<1>2. CASE Before(s, c) < n
  <2>1. Before(s, c) + 1 \in 1..n /\ Before(s, c) < Len(s)
    BY <1>1, <1>2
  <2>2. QED BY <1>1, <2>1
<1>3. CASE n < Before(s, c)
  <2>1. n + 1 \in 1..Before(s, c) /\ n < Len(s)
    BY <1>1, <1>3
  <2>2. QED BY <1>1, <2>1
<1>4. QED BY <1>1, <1>2, <1>3

\* The path in front of a query and a fragment.
LEMMA LocalPathIs ==
  ASSUME NEW path \in Seq(Nat), NEW rest \in Seq(Nat),
         \A i \in 1..Len(path) : path[i] \notin {Hash, Question},
         rest = <<>> \/ rest[1] \in {Hash, Question}
  PROVE  LocalPath(path \o rest) = path
<1> DEFINE s == path \o rest
           h == Before(s, Hash)
           query == SubSeq(s, 1, h)
           b == Before(query, Question)
<1>1. /\ s \in Seq(Nat) /\ Len(s) = Len(path) + Len(rest)
      /\ \A i \in 1..Len(path) : s[i] = path[i]
      /\ Len(path) < Len(s) => s[Len(path) + 1] \in {Hash, Question}
  <2>1. Len(path) < Len(path) + Len(rest) => rest # <<>>
    OBVIOUS
  <2>2. \A i \in 1..(Len(path) + Len(rest)) : s[i] = IF i <= Len(path) THEN path[i] ELSE rest[i - Len(path)]
    BY ConcatProperties
  <2>3. QED BY <2>1, <2>2, ConcatProperties
<1>2. h \in 0..Len(s) /\ (\A j \in 1..h : s[j] # Hash) /\ (h < Len(s) => s[h + 1] = Hash)
  BY <1>1, BeforeIs
<1> HIDE DEF s, h
<1>3. Len(path) <= h
  <2>1. CASE h < Len(path)
    <3>1. h + 1 \in 1..Len(path) /\ h < Len(s)
      <4>1. Len(path) \in Nat /\ Len(rest) \in Nat /\ Len(s) = Len(path) + Len(rest)
        BY <1>1
      <4>2. QED BY <1>2, <2>1, <4>1
    <3>2. s[h + 1] = path[h + 1] /\ path[h + 1] # Hash
      BY <1>1, <3>1
    <3>3. QED BY <1>2, <3>1, <3>2
  <2>2. QED BY <1>2, <2>1
<1>4. query \in Seq(Nat) /\ Len(query) = h /\ \A i \in 1..h : query[i] = s[i]
  BY <1>1, <1>2, Cut
<1>5. b = Len(path)
  <2> HIDE DEF query, b
  <2>1. Len(path) < h => query[Len(path) + 1] = Question
    <3> SUFFICES ASSUME Len(path) < h PROVE query[Len(path) + 1] = Question
      OBVIOUS
    <3>1. Len(path) + 1 \in 1..h /\ Len(path) < Len(s)
      BY <1>2
    <3>2. query[Len(path) + 1] = s[Len(path) + 1] /\ s[Len(path) + 1] # Hash
      BY <1>2, <1>4, <3>1
    <3>3. QED BY <1>1, <3>1, <3>2
  <2>2. ASSUME NEW j \in 1..Len(path) PROVE query[j] # Question
    <3>1. j \in 1..h
      BY <1>2, <1>3
    <3>2. QED BY <1>1, <1>4, <3>1
  <2>3. Len(path) \in 0..Len(query) /\ Len(query) = h
    BY <1>3, <1>4
  <2>4. QED BY <1>4, <2>1, <2>2, <2>3, BeforeIsOnly DEF b
<1>6. LocalPath(s) = SubSeq(query, 1, Len(path))
  BY <1>5 DEF LocalPath, h
<1>7. SubSeq(query, 1, Len(path)) = path
  <2> HIDE DEF query
  <2> DEFINE cut == SubSeq(query, 1, Len(path))
  <2>1. cut \in Seq(Nat) /\ Len(cut) = Len(path) /\ \A i \in 1..Len(path) : cut[i] = query[i]
    <3>1. query \in Seq(Nat) /\ Len(path) \in 0..Len(query)
      BY <1>2, <1>3, <1>4
    <3>2. QED BY <3>1, Cut
  <2>2. ASSUME NEW i \in 1..Len(path) PROVE cut[i] = path[i]
    <3>1. i \in 1..h
      BY <1>2, <1>3
    <3>2. QED BY <1>1, <1>4, <2>1, <3>1
  <2> HIDE DEF cut
  <2>3. QED BY <2>1, <2>2, SeqEqual
<1>8. QED BY <1>6, <1>7 DEF s

-------------------------------------------------------------------------------
\* And so is a function whose values rest on those behind them, down from the end.
Leads(S, g, next, n) ==
  /\ next \in [1..n -> Nat] /\ \A i \in 1..n : i < next[i] /\ next[i] <= n + 1
  /\ \A x \in S : \A i \in 1..n : g[<<x, i>>] \in S
Unfolds(f, S, g, next, base, n) ==
  f \in [1..(n + 1) -> S] /\ f[n + 1] = base /\ \A i \in 1..n : f[i] = g[<<f[next[i]], i>>]
LEMMA UnfoldExists ==
  ASSUME NEW S, NEW g, NEW next, NEW base \in S, NEW n \in Nat, Leads(S, g, next, n)
  PROVE  \E f : Unfolds(f, S, g, next, base, n)
<1>0. /\ \A i \in 1..n : next[i] \in Nat /\ i < next[i] /\ next[i] <= n + 1
      /\ \A x \in S : \A i \in 1..n : g[<<x, i>>] \in S
  BY DEF Leads
<1> DEFINE From(k) == (n + 1) - k
           Ok(k) == \E f : /\ f \in [From(k)..(n + 1) -> S] /\ f[n + 1] = base
                           /\ \A i \in From(k)..n : f[i] = g[<<f[next[i]], i>>]
           T == {k \in Nat : Ok(k)}
<1>1. Ok(0)
  <2>1. [i \in From(0)..(n + 1) |-> base] \in [From(0)..(n + 1) -> S]
    OBVIOUS
  <2>2. n + 1 \in From(0)..(n + 1) /\ \A i \in From(0)..n : FALSE
    OBVIOUS
  <2>3. WITNESS [i \in From(0)..(n + 1) |-> base]
  <2>4. QED BY <2>1, <2>2
<1>2. ASSUME NEW k \in 0..(n - 1), Ok(k) PROVE Ok(k + 1)
  <2>1. PICK f : /\ f \in [From(k)..(n + 1) -> S] /\ f[n + 1] = base
                 /\ \A i \in From(k)..n : f[i] = g[<<f[next[i]], i>>]
    BY <1>2
  <2> DEFINE m == From(k + 1)
             h == [i \in m..(n + 1) |-> IF i = m THEN g[<<f[next[m]], m>>] ELSE f[i]]
  <2>2. m \in 1..n /\ From(k) = m + 1
    BY <1>2
  <2>3. next[m] \in From(k)..(n + 1) /\ f[next[m]] \in S
    BY <1>0, <2>1, <2>2
  <2>4. g[<<f[next[m]], m>>] \in S
    BY <1>0, <2>2, <2>3
  <2> HIDE DEF m, From
  <2>5. h \in [m..(n + 1) -> S]
    <3>1. \A i \in m..(n + 1) : i # m => i \in From(k)..(n + 1)
      BY <2>2
    <3>2. QED BY <2>1, <2>4, <3>1
  <2>6. h[n + 1] = base
    <3>1. n + 1 # m /\ n + 1 \in m..(n + 1)
      BY <2>2
    <3>2. QED BY <2>1, <3>1
  <2>7. ASSUME NEW i \in m..n PROVE h[i] = g[<<h[next[i]], i>>]
    <3>1. i \in 1..n /\ i \in m..(n + 1) /\ next[i] \in m..(n + 1) /\ next[i] # m
      BY <1>0, <2>2
    <3>2. h[next[i]] = f[next[i]]
      BY <3>1
    <3>3. CASE i = m
      BY <3>1, <3>2, <3>3
    <3>4. CASE i # m
      <4>1. i \in From(k)..n
        BY <2>2, <3>4
      <4>2. h[i] = f[i]
        BY <3>1, <3>4
      <4>3. QED BY <2>1, <3>2, <4>1, <4>2
    <3>5. QED BY <3>3, <3>4
  <2> HIDE DEF h
  <2>8. QED BY <2>5, <2>6, <2>7 DEF m
<1> HIDE DEF Ok
<1>3. Ok(n)
  <2>1. 0 \in T
    BY <1>1
  <2>2. \A k \in 0..(n - 1) : k \in T => k + 1 \in T
    BY <1>2
  <2> HIDE DEF T
  <2>3. \A k \in 0..n : k \in T
    BY <2>1, <2>2, Induction
  <2>4. n \in T
    BY <2>3
  <2>5. QED BY <2>4 DEF T
<1>4. From(n) = 1
  OBVIOUS
<1>5. QED BY <1>3, <1>4 DEF Ok, Unfolds

-------------------------------------------------------------------------------
\* The characters that an escape is made of, and those that a term is made of.
EscapeChars == {Percent} \cup (48..57) \cup {c \in Nat : c >= 65}
TermChars == Unreserved \cup EscapeChars

LEMMA EscapeType ==
  ASSUME NEW b \in Nat
  PROVE  Escape(b) \in Seq(EscapeChars) /\ Len(Escape(b)) = 3
<1>1. b \div 16 \in Nat /\ b % 16 \in Nat
  OBVIOUS
<1>2. \A n \in Nat : HexDigit(n) \in EscapeChars
  BY DEF HexDigit, EscapeChars
<1>3. Percent \in EscapeChars
  BY DEF EscapeChars
<1>4. QED BY <1>1, <1>2, <1>3 DEF Escape

LEMMA Utf8Type ==
  ASSUME NEW c \in Nat
  PROVE  /\ Utf8(c) \in Seq(Nat) /\ Utf8(c) # <<>>
         /\ Utf8(c)[1] \in Unreserved => Utf8(c) = <<c>> /\ c \in Unreserved
<1>1. CASE c < 128
  <2>1. Utf8(c) = <<c>>
    BY <1>1 DEF Utf8
  <2>2. QED BY <2>1
<1>2. CASE 128 <= c /\ c < 2048
  <2>1. Utf8(c) = <<192 + (c \div 64), 128 + (c % 64)>>
    BY <1>2 DEF Utf8
  <2>2. 192 + (c \div 64) \in Nat /\ 128 + (c % 64) \in Nat /\ 192 + (c \div 64) >= 192
    OBVIOUS
  <2>3. QED BY <2>1, <2>2 DEF Unreserved
<1>3. CASE 2048 <= c /\ c < 65536
  <2>1. Utf8(c) = <<224 + (c \div 4096), 128 + ((c \div 64) % 64), 128 + (c % 64)>>
    BY <1>3 DEF Utf8
  <2>2. /\ 224 + (c \div 4096) \in Nat /\ 128 + ((c \div 64) % 64) \in Nat /\ 128 + (c % 64) \in Nat
        /\ 224 + (c \div 4096) >= 192
    OBVIOUS
  <2>3. QED BY <2>1, <2>2 DEF Unreserved
<1>4. CASE 65536 <= c
  <2>1. Utf8(c) = <<240 + (c \div 262144), 128 + ((c \div 4096) % 64),
                  128 + ((c \div 64) % 64), 128 + (c % 64)>>
    BY <1>4 DEF Utf8
  <2>2. /\ 240 + (c \div 262144) \in Nat /\ 128 + ((c \div 4096) % 64) \in Nat
        /\ 128 + ((c \div 64) % 64) \in Nat /\ 128 + (c % 64) \in Nat
        /\ 240 + (c \div 262144) >= 192
    OBVIOUS
  <2>3. QED BY <2>1, <2>2 DEF Unreserved
<1>5. QED BY <1>1, <1>2, <1>3, <1>4

LEMMA EscapedByte ==
  ASSUME NEW s \in Seq(Nat), NEW i \in 1..Len(s), IsEscape(s, i)
  PROVE  ByteAt(s, i) \in Nat /\ ByteAt(s, i) <= 255
<1>1. \A c \in HexDigits : HexValue(c) \in 0..15
  BY DEF HexDigits, HexValue
<1>2. s[i + 1] \in HexDigits /\ s[i + 2] \in HexDigits
  BY DEF IsEscape
<1>3. HexValue(s[i + 1]) \in 0..15 /\ HexValue(s[i + 2]) \in 0..15
  BY <1>1, <1>2
<1>4. \A x, y \in 0..15 : 16 * x + y \in Nat /\ 16 * x + y <= 255
  OBVIOUS
<1>5. QED BY <1>3, <1>4 DEF ByteAt

LEMMA BytesType ==
  ASSUME NEW s \in Seq(Nat), NEW i \in 1..Len(s), ~Bad(s, i)
  PROVE  /\ BytesAt(s, i) \in Seq(Nat) /\ BytesAt(s, i) # <<>>
         /\ Length(s, i) \in Nat \ {0} /\ i + Length(s, i) <= Len(s) + 1
         /\ s[i] # Percent => Length(s, i) = 1 /\ BytesAt(s, i) = Utf8(s[i])
<1> DEFINE more == Following(ByteAt(s, i))
<1>1. CASE s[i] = Percent
  <2>1. IsEscape(s, i) /\ \A k \in 1..more : IsEscape(s, i + 3 * k)
    BY <1>1 DEF Bad, Wellformed
  <2>2. more \in 0..3
    BY DEF Following
  <2>3. Length(s, i) = 3 * (1 + more)
    BY <1>1 DEF Length
  <2> HIDE DEF more
  <2>4. \A k \in 0..more : IsEscape(s, i + 3 * k)
    <3> TAKE k \in 0..more
    <3>1. CASE k = 0
      <4>1. i + 3 * k = i
        BY <3>1
      <4>2. QED BY <2>1, <4>1
    <3>2. CASE k # 0
      <4>1. k \in 1..more
        BY <2>2, <3>2
      <4>2. QED BY <2>1, <4>1
    <3>3. QED BY <3>1, <3>2
  <2>5. \A k \in 0..more : i + 3 * k \in 1..Len(s)
    <3> TAKE k \in 0..more
    <3>1. i + 3 * k + 2 <= Len(s) /\ k \in 0..3
      BY <2>2, <2>4 DEF IsEscape
    <3>2. QED BY <3>1
  <2>6. \A k \in 0..more : ByteAt(s, i + 3 * k) \in Nat
    <3> TAKE k \in 0..more
    <3>1. IsEscape(s, i + 3 * k) /\ i + 3 * k \in 1..Len(s)
      BY <2>4, <2>5
    <3>2. QED BY <3>1, EscapedByte
  <2>7. BytesAt(s, i) = [k \in 1..(1 + more) |-> ByteAt(s, i + 3 * (k - 1))]
    BY <1>1 DEF BytesAt, more
  <2>8. ASSUME NEW k \in 1..(1 + more) PROVE ByteAt(s, i + 3 * (k - 1)) \in Nat
    <3>1. k - 1 \in 0..more
      BY <2>2
    <3>2. QED BY <2>6, <3>1
  <2>9. BytesAt(s, i) \in Seq(Nat) /\ Len(BytesAt(s, i)) = 1 + more
    BY <2>2, <2>7, <2>8
  <2>10. IsEscape(s, i + 3 * more)
    BY <2>2, <2>4
  <2>11. i + 3 * more + 2 <= Len(s)
    BY <2>10 DEF IsEscape
  <2>12. QED BY <1>1, <2>2, <2>3, <2>9, <2>11
<1>2. CASE s[i] # Percent
  <2>1. s[i] \in Nat /\ BytesAt(s, i) = Utf8(s[i]) /\ Length(s, i) = 1
    BY <1>2 DEF BytesAt, Length
  <2>2. Utf8(s[i]) \in Seq(Nat) /\ Utf8(s[i]) # <<>>
    BY <2>1, Utf8Type
  <2>3. QED BY <2>1, <2>2
<1>3. QED BY <1>1, <1>2

\* A character becomes a text that is not empty, and that has a dot only for a dot.
LEMMA TermType ==
  ASSUME NEW s \in Seq(Nat), NEW i \in 1..Len(s), ~Bad(s, i)
  PROVE  /\ Term(s, i) \in Seq(TermChars) /\ Term(s, i) # <<>>
         /\ Term(s, i)[1] = Dot => s[i] = Dot /\ Term(s, i) = <<Dot>> /\ Length(s, i) = 1
<1>1. BytesAt(s, i) \in Seq(Nat) /\ BytesAt(s, i) # <<>>
  BY BytesType
<1>2. CASE BytesAt(s, i)[1] \in Unreserved
  <2>1. Term(s, i) = <<s[i]>>
    BY <1>2 DEF Term
  <2>2. CASE s[i] = Percent
    BY <2>1, <2>2 DEF TermChars, EscapeChars, Percent, Dot
  <2>3. CASE s[i] # Percent
    <3>1. s[i] \in Nat /\ BytesAt(s, i) = Utf8(s[i]) /\ Length(s, i) = 1
      BY <2>3, BytesType
    <3>2. s[i] \in Unreserved
      BY <1>2, <3>1, Utf8Type
    <3>3. QED BY <2>1, <3>1, <3>2 DEF TermChars
  <2>4. QED BY <2>2, <2>3
<1>3. CASE BytesAt(s, i)[1] \notin Unreserved
  <2> DEFINE bytes == BytesAt(s, i)
             q == [k \in DOMAIN bytes |-> Escape(bytes[k])]
  <2>1. Term(s, i) = FlattenSeq(q)
    BY <1>3 DEF Term
  <2>2. DOMAIN bytes = 1..Len(bytes) /\ Len(bytes) \in Nat \ {0} /\ \A k \in 1..Len(bytes) : bytes[k] \in Nat
    BY <1>1
  <2> HIDE DEF bytes
  <2>3. \A k \in 1..Len(bytes) : Escape(bytes[k]) \in Seq(EscapeChars) /\ Len(Escape(bytes[k])) = 3
    BY <2>2, EscapeType
  <2>4. q \in Seq(Seq(EscapeChars)) /\ Len(q) = Len(bytes) /\ \A k \in 1..Len(q) : Len(q[k]) = 3
    BY <2>2, <2>3
  <2> HIDE DEF q
  <2>5. PICK f : /\ f \in [0..Len(q) -> Seq(EscapeChars)]
                 /\ f[0] = <<>>
                 /\ \A k \in 1..Len(q) : f[k] = f[k - 1] \o q[k]
                 /\ FlattenSeq(q) = f[Len(q)]
    BY <2>4, FlattenIs
  <2> DEFINE n == Len(q)
  <2>6. n \in 1..n /\ n - 1 \in 0..n /\ n \in 0..n
    BY <2>2, <2>4
  <2>7. /\ f[n] = f[n - 1] \o q[n] /\ f[n] \in Seq(EscapeChars)
        /\ f[n - 1] \in Seq(EscapeChars) /\ q[n] \in Seq(EscapeChars) /\ Len(q[n]) = 3
    <3> HIDE DEF n
    <3>0. q[n] \in Seq(EscapeChars)
      BY <2>4, <2>6, ElementOfSeq DEF n
    <3>1. f[n] = f[n - 1] \o q[n] /\ q[n] \in Seq(EscapeChars) /\ Len(q[n]) = 3
      BY <2>4, <2>5, <2>6, <3>0 DEF n
    <3>2. f[n] \in Seq(EscapeChars) /\ f[n - 1] \in Seq(EscapeChars)
      BY <2>5, <2>6 DEF n
    <3>3. QED BY <3>1, <3>2
  <2>8. Len(f[n]) >= 3
    <3> HIDE DEF n
    <3> DEFINE a == f[n - 1]
               b == q[n]
    <3>1. a \in Seq(EscapeChars) /\ b \in Seq(EscapeChars) /\ f[n] = a \o b /\ Len(b) = 3
      BY <2>7
    <3> HIDE DEF a, b
    <3>2. Len(a \o b) = Len(a) + Len(b) /\ Len(a) \in Nat
      BY <3>1, ConcatProperties, LenProperties
    <3>3. QED BY <3>1, <3>2
  <2>9. Term(s, i) \in Seq(EscapeChars) /\ Len(Term(s, i)) >= 3
    BY <2>1, <2>5, <2>7, <2>8
  <2>10. Term(s, i)[1] \in EscapeChars
    BY <2>9
  <2>11. Term(s, i) \in Seq(TermChars)
    BY <2>9, SeqMonotonic DEF TermChars
  <2>12. Term(s, i)[1] # Dot
    <3>1. Dot \notin EscapeChars
      BY DEF EscapeChars, Percent, Dot
    <3>2. QED BY <2>10, <3>1, Zenon
  <2>13. Term(s, i) # <<>>
    BY <2>9
  <2>14. QED BY <2>11, <2>12, <2>13, Zenon
<1>4. QED BY <1>2, <1>3

-------------------------------------------------------------------------------
Terms == [bad : BOOLEAN, text : Seq(TermChars)]

\* normalize_term, as a function of the place that it has come to from the end.
LEMMA TermsAre ==
  ASSUME NEW s \in Seq(Nat)
  PROVE  \E f : /\ f \in [1..(Len(s) + 1) -> Terms]
                /\ f[Len(s) + 1] = [bad |-> FALSE, text |-> <<>>]
                /\ \A i \in 1..Len(s) : Bad(s, i) => f[i].bad
                /\ \A i \in 1..Len(s) : ~Bad(s, i) =>
                     /\ f[i].bad = f[i + Length(s, i)].bad
                     /\ f[i].text = Term(s, i) \o f[i + Length(s, i)].text
                /\ normalize_term(s) = IF f[1].bad THEN <<>> ELSE f[1].text
<1> DEFINE n == Len(s)
           base == [bad |-> FALSE, text |-> <<>>]
           lost == [bad |-> TRUE, text |-> <<>>]
           g == [p \in Terms \X (1..n) |-> IF Bad(s, p[2]) THEN lost ELSE [p[1] EXCEPT !.text = Term(s, p[2]) \o @]]
           next == [i \in 1..n |-> IF Bad(s, i) THEN n + 1 ELSE i + Length(s, i)]
<1>1. base \in Terms /\ lost \in Terms /\ n \in Nat
  BY DEF Terms
<1>2. ASSUME NEW i \in 1..n, ~Bad(s, i)
      PROVE  i + Length(s, i) \in (i + 1)..(n + 1) /\ Term(s, i) \in Seq(TermChars)
  BY <1>2, BytesType, TermType
<1>3. ASSUME NEW x \in Terms, NEW i \in 1..n
      PROVE  /\ g[<<x, i>>] = IF Bad(s, i) THEN lost ELSE [x EXCEPT !.text = Term(s, i) \o @]
             /\ g[<<x, i>>] \in Terms
  <2>1. g[<<x, i>>] = IF Bad(s, i) THEN lost ELSE [x EXCEPT !.text = Term(s, i) \o @]
    OBVIOUS
  <2>2. ASSUME ~Bad(s, i) PROVE [x EXCEPT !.text = Term(s, i) \o @] \in Terms
    <3>1. Term(s, i) \in Seq(TermChars) /\ x.text \in Seq(TermChars)
      BY <1>2, <2>2 DEF Terms
    <3>2. Term(s, i) \o x.text \in Seq(TermChars)
      BY <3>1, ConcatProperties
    <3>3. QED BY <3>2 DEF Terms
  <2> HIDE DEF g, lost
  <2>3. QED BY <1>1, <2>1, <2>2
<1>4. ASSUME NEW i \in 1..n
      PROVE  /\ next[i] \in (i + 1)..(n + 1) /\ next[i] \in Nat
             /\ ~Bad(s, i) => next[i] = i + Length(s, i)
  BY <1>1, <1>2
<1>5. next \in [1..n -> Nat]
  <2>1. next = [i \in 1..n |-> next[i]]
    OBVIOUS
  <2> HIDE DEF next
  <2>2. QED BY <1>4, <2>1
<1> HIDE DEF g, next, base, lost, n
<1>6. \E f : Unfolds(f, Terms, g, next, base, n)
  <2>1. \A i \in 1..n : i < next[i] /\ next[i] <= n + 1
    BY <1>1, <1>4
  <2>2. Leads(Terms, g, next, n)
    BY <1>3, <1>5, <2>1 DEF Leads
  <2>3. QED BY <1>1, <2>2, UnfoldExists, Zenon
<1>7. PICK f : /\ f \in [1..(n + 1) -> Terms] /\ f[n + 1] = base
               /\ \A i \in 1..n : f[i] = g[<<f[next[i]], i>>]
  BY <1>6, Zenon DEF Unfolds
<1>8. ASSUME NEW i \in 1..n
      PROVE  f[i] = IF Bad(s, i) THEN lost ELSE [f[i + Length(s, i)] EXCEPT !.text = Term(s, i) \o @]
  <2>1. next[i] \in 1..(n + 1)
    BY <1>1, <1>4
  <2>2. f[next[i]] \in Terms /\ f[i] = g[<<f[next[i]], i>>]
    BY <1>7, <2>1
  <2>3. f[i] = IF Bad(s, i) THEN lost ELSE [f[next[i]] EXCEPT !.text = Term(s, i) \o @]
    BY <1>3, <2>2
  <2>4. QED BY <1>4, <2>3
<1>9. f = [i \in 1..(n + 1) |->
             IF i > n THEN base ELSE IF Bad(s, i) THEN lost
             ELSE [f[i + Length(s, i)] EXCEPT !.text = Term(s, i) \o @]]
  <2>1. ASSUME NEW i \in 1..(n + 1)
        PROVE  f[i] = IF i > n THEN base ELSE IF Bad(s, i) THEN lost
                      ELSE [f[i + Length(s, i)] EXCEPT !.text = Term(s, i) \o @]
    <3>1. CASE i = n + 1
      <4>1. i > n
        BY <1>1, <3>1
      <4>2. QED BY <1>7, <3>1, <4>1
    <3>2. CASE i # n + 1
      <4>1. i \in 1..n /\ ~ (i > n)
        BY <1>1, <3>2
      <4>2. QED BY <1>8, <4>1
    <3>3. QED BY <3>1, <3>2
  <2>2. QED BY <1>7, <2>1
<1> DEFINE from[i \in 1..(n + 1)] ==
             IF i > n THEN base ELSE IF Bad(s, i) THEN lost
             ELSE [from[i + Length(s, i)] EXCEPT !.text = Term(s, i) \o @]
<1>10. from = [i \in 1..(n + 1) |->
             IF i > n THEN base ELSE IF Bad(s, i) THEN lost
             ELSE [from[i + Length(s, i)] EXCEPT !.text = Term(s, i) \o @]]
  BY <1>9, Zenon
<1>11. normalize_term(s) = IF from[1].bad THEN <<>> ELSE from[1].text
  BY Zenon DEF normalize_term, n, base, lost
<1> HIDE DEF from
<1>12. \A i \in 1..(n + 1) : from[i] = IF i > n THEN base ELSE IF Bad(s, i) THEN lost
             ELSE [from[i + Length(s, i)] EXCEPT !.text = Term(s, i) \o @]
  BY <1>10
<1> DEFINE T == {i \in 1..(n + 1) : from[i] = f[i]}
<1>13. n + 1 \in T
  <2>1. n + 1 \in 1..(n + 1) /\ n + 1 > n
    BY <1>1
  <2>2. QED BY <1>7, <1>12, <2>1
<1>14. ASSUME NEW i \in 1..n, \A j \in (i + 1)..(n + 1) : j \in T PROVE i \in T
  <2>1. i \in 1..(n + 1) /\ ~ (i > n)
    BY <1>1
  <2>2. ~Bad(s, i) => from[i + Length(s, i)] = f[i + Length(s, i)]
    BY <1>2, <1>14
  <2>3. QED BY <1>8, <1>12, <2>1, <2>2
<1> HIDE DEF T
<1>15. \A i \in 1..(n + 1) : i \in T
  BY <1>1, <1>13, <1>14, DownwardInduction
<1>16. from[1] = f[1]
  <2>1. 1 \in 1..(n + 1)
    BY <1>1
  <2>2. QED BY <1>15, <2>1 DEF T
<1>17. ASSUME NEW i \in 1..n
       PROVE  /\ Bad(s, i) => f[i].bad
              /\ ~Bad(s, i) => /\ f[i].bad = f[i + Length(s, i)].bad
                               /\ f[i].text = Term(s, i) \o f[i + Length(s, i)].text
  <2>1. CASE Bad(s, i)
    <3>1. f[i] = lost
      BY <1>8, <2>1
    <3>2. f[i].bad = TRUE
      BY <3>1 DEF lost
    <3>3. QED BY <2>1, <3>2
  <2>2. CASE ~Bad(s, i)
    <3>1. i + Length(s, i) \in 1..(n + 1)
      BY <1>1, <1>2, <2>2
    <3>2. f[i + Length(s, i)] \in Terms
      BY <1>7, <3>1
    <3>3. f[i] = [f[i + Length(s, i)] EXCEPT !.text = Term(s, i) \o @]
      BY <1>8, <2>2
    <3>4. QED BY <2>2, <3>2, <3>3 DEF Terms
  <2>3. QED BY <2>1, <2>2
<1>18. f[Len(s) + 1] = [bad |-> FALSE, text |-> <<>>] /\ f \in [1..(Len(s) + 1) -> Terms]
  BY <1>7 DEF n, base
<1>19. normalize_term(s) = IF f[1].bad THEN <<>> ELSE f[1].text
  BY <1>11, <1>16
<1>20. \A i \in 1..Len(s) : Bad(s, i) => f[i].bad
  BY <1>17, Zenon DEF n
<1>21. \A i \in 1..Len(s) : ~Bad(s, i) => /\ f[i].bad = f[i + Length(s, i)].bad
                                        /\ f[i].text = Term(s, i) \o f[i + Length(s, i)].text
  BY <1>17, Zenon DEF n
<1>22. QED BY <1>18, <1>19, <1>20, <1>21, Zenon

-------------------------------------------------------------------------------
\* What the segments of a path may be: no dots, and nothing that ends a path.
PathChars == Nat \ {Hash, Slash, Question}
Names == Seq(PathChars) \ {<<Dot>>, <<Dot, Dot>>}

\* Dots come out of normalize_term only where they went in.
LEMMA NoNewDots ==
  ASSUME NEW s \in Seq(Nat), s # <<Dot>>, s # <<Dot, Dot>>
  PROVE  normalize_term(s) \in Names
<1>1. ASSUME NEW c \in TermChars PROVE c \in PathChars
  <2>1. c \in Unreserved \/ c = 37 \/ c \in 48..57 \/ (c \in Nat /\ c >= 65)
    BY DEF TermChars, EscapeChars, Percent
  <2>2. \A d \in Unreserved : d \in Nat /\ d # 35 /\ d # 47 /\ d # 63
    BY DEF Unreserved
  <2>3. c \in Nat /\ c # 35 /\ c # 47 /\ c # 63
    BY <2>1, <2>2
  <2>4. QED BY <2>3 DEF PathChars, Hash, Slash, Question
<1>2. PICK f : /\ f \in [1..(Len(s) + 1) -> Terms]
               /\ f[Len(s) + 1] = [bad |-> FALSE, text |-> <<>>]
               /\ \A i \in 1..Len(s) : Bad(s, i) => f[i].bad
               /\ \A i \in 1..Len(s) : ~Bad(s, i) =>
                     /\ f[i].bad = f[i + Length(s, i)].bad
                     /\ f[i].text = Term(s, i) \o f[i + Length(s, i)].text
               /\ normalize_term(s) = IF f[1].bad THEN <<>> ELSE f[1].text
  BY TermsAre
<1>3. CASE f[1].bad
  <2>1. normalize_term(s) = <<>>
    BY <1>2, <1>3
  <2>2. QED BY <2>1 DEF Names
<1>4. CASE ~f[1].bad
  <2>1. normalize_term(s) = f[1].text /\ f[1].text \in Seq(PathChars)
    <3>1. 1 \in 1..(Len(s) + 1)
      OBVIOUS
    <3>2. f[1].text \in Seq(TermChars)
      BY <1>2, <3>1 DEF Terms
    <3>3. QED BY <1>1, <1>2, <1>4, <3>2, SeqMonotonic
  \* When there is a text that begins with a dot, so does what is left of the term.
  <2>2. ASSUME NEW i \in 1..(Len(s) + 1), ~f[i].bad, f[i].text # <<>>, f[i].text[1] = Dot
        PROVE  /\ i \in 1..Len(s) /\ s[i] = Dot /\ i + 1 \in 1..(Len(s) + 1)
               /\ ~f[i + 1].bad /\ f[i].text = <<Dot>> \o f[i + 1].text
               /\ f[i + 1].text \in Seq(TermChars)
    <3>1. i \in 1..Len(s)
      <4>1. i # Len(s) + 1
        BY <1>2, <2>2
      <4>2. QED BY <4>1
    <3>2. ~Bad(s, i)
      BY <1>2, <2>2, <3>1
    <3>3. /\ f[i].bad = f[i + Length(s, i)].bad
          /\ f[i].text = Term(s, i) \o f[i + Length(s, i)].text
      BY <1>2, <3>1, <3>2
    <3>4. i + Length(s, i) \in 1..(Len(s) + 1)
      BY <3>1, <3>2, BytesType
    <3>5. f[i + Length(s, i)].text \in Seq(TermChars)
      BY <1>2, <3>4 DEF Terms
    <3>6. Term(s, i) \in Seq(TermChars) /\ Term(s, i) # <<>>
      BY <3>1, <3>2, TermType
    <3>7. f[i].text[1] = Term(s, i)[1]
      BY <3>3, <3>5, <3>6
    <3>8. s[i] = Dot /\ Term(s, i) = <<Dot>> /\ Length(s, i) = 1
      BY <2>2, <3>1, <3>2, <3>7, TermType
    <3>9. QED BY <2>2, <3>1, <3>3, <3>4, <3>5, <3>8
  <2>3. ASSUME NEW i \in 1..(Len(s) + 1), ~f[i].bad, f[i].text = <<>>
        PROVE  i = Len(s) + 1
    <3> SUFFICES ASSUME i # Len(s) + 1 PROVE FALSE
      OBVIOUS
    <3>1. i \in 1..Len(s)
      OBVIOUS
    <3>2. ~Bad(s, i)
      BY <1>2, <2>3, <3>1
    <3>3. f[i].text = Term(s, i) \o f[i + Length(s, i)].text
      BY <1>2, <3>1, <3>2
    <3>4. i + Length(s, i) \in 1..(Len(s) + 1)
      BY <3>1, <3>2, BytesType
    <3>5. f[i + Length(s, i)].text \in Seq(TermChars)
      BY <1>2, <3>4 DEF Terms
    <3>6. Term(s, i) \in Seq(TermChars) /\ Term(s, i) # <<>>
      BY <3>1, <3>2, TermType
    <3>7. QED BY <2>3, <3>3, <3>5, <3>6, ConcatEqualIffEmpty
  <2>4. 1 \in 1..(Len(s) + 1)
    OBVIOUS
  <2>5. f[1].text # <<Dot>>
    <3> SUFFICES ASSUME f[1].text = <<Dot>> PROVE FALSE
      OBVIOUS
    <3>1. /\ 1 \in 1..Len(s) /\ s[1] = Dot /\ 2 \in 1..(Len(s) + 1)
          /\ ~f[2].bad /\ <<Dot>> = <<Dot>> \o f[2].text /\ f[2].text \in Seq(TermChars)
      <4>1. f[1].text # <<>> /\ f[1].text[1] = Dot
        OBVIOUS
      <4>2. /\ 1 \in 1..Len(s) /\ s[1] = Dot /\ 1 + 1 \in 1..(Len(s) + 1)
            /\ ~f[1 + 1].bad /\ f[1].text = <<Dot>> \o f[1 + 1].text
            /\ f[1 + 1].text \in Seq(TermChars)
        BY <1>4, <2>2, <2>4, <4>1
      <4>3. 1 + 1 = 2
        OBVIOUS
      <4>4. QED BY <4>2, <4>3
    <3>2. f[2].text = <<>>
      BY <3>1
    <3>3. Len(s) + 1 = 2
      BY <2>3, <3>1, <3>2
    <3>4. s = <<Dot>>
      BY <3>1, <3>3
    <3>5. QED BY <3>4
  <2>6. f[1].text # <<Dot, Dot>>
    <3> SUFFICES ASSUME f[1].text = <<Dot, Dot>> PROVE FALSE
      OBVIOUS
    <3>1. /\ 1 \in 1..Len(s) /\ s[1] = Dot /\ 2 \in 1..(Len(s) + 1)
          /\ ~f[2].bad /\ <<Dot, Dot>> = <<Dot>> \o f[2].text /\ f[2].text \in Seq(TermChars)
      <4>1. f[1].text # <<>> /\ f[1].text[1] = Dot
        OBVIOUS
      <4>2. /\ 1 \in 1..Len(s) /\ s[1] = Dot /\ 1 + 1 \in 1..(Len(s) + 1)
            /\ ~f[1 + 1].bad /\ f[1].text = <<Dot>> \o f[1 + 1].text
            /\ f[1 + 1].text \in Seq(TermChars)
        BY <1>4, <2>2, <2>4, <4>1
      <4>3. 1 + 1 = 2
        OBVIOUS
      <4>4. QED BY <4>2, <4>3
    <3>2. f[2].text # <<>> /\ f[2].text[1] = Dot /\ Len(f[2].text) = 1
      <4> DEFINE t == f[2].text
      <4>1. t \in Seq(TermChars) /\ <<Dot, Dot>> = <<Dot>> \o t
        BY <3>1
      <4> HIDE DEF t
      <4>2. Len(<<Dot, Dot>>) = 2 /\ <<Dot, Dot>>[2] = Dot /\ Len(<<Dot>>) = 1
        OBVIOUS
      <4>3. Len(<<Dot>> \o t) = 1 + Len(t) /\ Len(t) \in Nat
        BY <4>1
      <4>4. Len(t) = 1
        BY <4>1, <4>2, <4>3
      <4>5. (<<Dot>> \o t)[2] = t[1]
        BY <4>1, <4>4
      <4>6. t # <<>> /\ t[1] = Dot
        BY <4>1, <4>2, <4>4, <4>5
      <4>7. QED BY <4>4, <4>6 DEF t
    <3>3. /\ 2 \in 1..Len(s) /\ s[2] = Dot /\ 3 \in 1..(Len(s) + 1)
          /\ ~f[3].bad /\ f[2].text = <<Dot>> \o f[3].text /\ f[3].text \in Seq(TermChars)
      <4>1. /\ 2 \in 1..Len(s) /\ s[2] = Dot /\ 2 + 1 \in 1..(Len(s) + 1)
            /\ ~f[2 + 1].bad /\ f[2].text = <<Dot>> \o f[2 + 1].text
            /\ f[2 + 1].text \in Seq(TermChars)
        BY <2>2, <3>1, <3>2
      <4>2. 2 + 1 = 3
        OBVIOUS
      <4>3. QED BY <4>1, <4>2
    <3>4. f[3].text = <<>>
      BY <3>2, <3>3
    <3>5. Len(s) + 1 = 3
      BY <2>3, <3>3, <3>4
    <3>6. s = <<Dot, Dot>>
      <4>1. Len(s) = 2 /\ s[1] = Dot /\ s[2] = Dot
        <5>1. Len(s) \in Nat
          OBVIOUS
        <5>2. Len(s) = 2
          <6>1. \A n \in Nat : n + 1 = 3 => n = 2
            OBVIOUS
          <6>2. QED BY <3>5, <5>1, <6>1, Zenon
        <5>3. s[1] = Dot
          BY <3>1, Zenon
        <5>4. s[2] = Dot
          BY <3>3, Zenon
        <5>5. QED BY <5>2, <5>3, <5>4
      <4>2. QED BY <4>1
    <3>7. QED BY <3>6
  <2>7. QED BY <2>1, <2>5, <2>6 DEF Names
<1>5. QED BY <1>3, <1>4

-------------------------------------------------------------------------------
LEMMA PushedType ==
  ASSUME NEW path \in Seq(Names), NEW segment \in Seq(Nat)
  PROVE  Pushed(path, segment) \in Seq(Names)
<1>1. CASE segment = <<Dot>>
  BY <1>1 DEF Pushed
<1>2. CASE segment = <<Dot, Dot>>
  <2>1. <<Dot, Dot>> # <<Dot>>
    OBVIOUS
  <2>2. Pushed(path, segment) = IF path = <<>> THEN path ELSE Front(path)
    BY <1>2, <2>1 DEF Pushed
  <2>3. path # <<>> => Front(path) \in Seq(Names)
    <3> SUFFICES ASSUME path # <<>> PROVE SubSeq(path, 1, Len(path) - 1) \in Seq(Names)
      BY DEF Front
    <3>1. Len(path) - 1 \in 0..Len(path)
      OBVIOUS
    <3>2. QED BY <3>1, Cut
  <2>4. QED BY <2>2, <2>3
<1>3. CASE segment # <<Dot>> /\ segment # <<Dot, Dot>>
  <2>1. Pushed(path, segment) = Append(path, normalize_term(segment))
    BY <1>3 DEF Pushed
  <2>2. normalize_term(segment) \in Names
    BY <1>3, NoNewDots
  <2>3. QED BY <2>1, <2>2, AppendProperties
<1>4. QED BY <1>1, <1>2, <1>3

Segments(s) == Split(Tail(LocalPath(s)), Slash)

LEMMA SegmentsType ==
  ASSUME NEW s \in Seq(Nat), ~Panics(s)
  PROVE  Segments(s) \in Seq(Seq(Nat)) /\ LocalPath(s) \in Seq(Nat) /\ LocalPath(s) # <<>>
<1> DEFINE query == SubSeq(s, 1, Before(s, Hash))
<1>1. query \in Seq(Nat)
  <2>1. Before(s, Hash) \in 0..Len(s)
    BY BeforeIs
  <2>2. QED BY <2>1, Cut
<1>2. Before(query, Question) \in 0..Len(query)
  BY <1>1, BeforeIs
<1>3. LocalPath(s) = SubSeq(query, 1, Before(query, Question))
  BY DEF LocalPath
<1> HIDE DEF query
<1>4. LocalPath(s) \in Seq(Nat)
  BY <1>1, <1>2, <1>3, Cut
<1>5. LocalPath(s) # <<>>
  BY DEF Panics
<1>6. Tail(LocalPath(s)) \in Seq(Nat)
  BY <1>4, <1>5, HeadTailProperties
<1> DEFINE tail == Tail(LocalPath(s))
<1>7. PICK f : /\ f \in [0..Len(tail) -> Pieces(Nat)]
               /\ Split(tail, Slash) = f[Len(tail)]
  <2> HIDE DEF tail
  <2>1. tail \in Seq(Nat)
    BY <1>6 DEF tail
  <2>2. QED BY <2>1, SplitIs
<1>8. Len(tail) \in 0..Len(tail)
  BY <1>6
<1>9. Split(tail, Slash) \in Seq(Seq(Nat))
  BY <1>7, <1>8 DEF Pieces
<1>10. QED BY <1>4, <1>5, <1>9 DEF Segments

LEMMA PathIs ==
  ASSUME NEW s \in Seq(Nat), ~Panics(s)
  PROVE  \E f : /\ f \in [0..Len(Segments(s)) -> Seq(Names)]
                /\ f[0] = <<>>
                /\ \A i \in 1..Len(Segments(s)) : f[i] = Pushed(f[i - 1], Segments(s)[i])
                /\ Path(s) = f[Len(Segments(s))]
<1> DEFINE S == Seq(Names)
           segments == Segments(s)
           n == Len(segments)
           g == [p \in S \X (1..n) |-> Pushed(p[1], segments[p[2]])]
<1>1. \A x \in S : \A i \in 1..n : g[<<x, i>>] = Pushed(x, segments[i]) /\ Pushed(x, segments[i]) \in S
  <2> TAKE x \in S
  <2> TAKE i \in 1..n
  <2>1. segments[i] \in Seq(Nat)
    BY SegmentsType, ElementOfSeq
  <2>2. Pushed(x, segments[i]) \in S
    BY <2>1, PushedType
  <2>3. QED BY <2>2
<1>2. <<>> \in S /\ n \in Nat
  BY SegmentsType
<1>3. Path(s) = LET upto[i \in 0..n] == IF i = 0 THEN <<>> ELSE Pushed(upto[i - 1], segments[i]) IN upto[n]
  BY Zenon DEF Path, Segments
<1> HIDE DEF g, S, n, segments
<1>4. \E f : Folds(f, S, g, <<>>, n)
  <2>1. Stays(S, g, n)
    BY <1>1 DEF Stays
  <2>2. QED BY <1>2, <2>1, FoldExists, Zenon
<1>5. PICK f : f \in [0..n -> S] /\ f[0] = <<>> /\ \A i \in 1..n : f[i] = g[<<f[i - 1], i>>]
  BY <1>4, Zenon DEF Folds
<1>6. ASSUME NEW i \in 1..n PROVE f[i] = Pushed(f[i - 1], segments[i])
  <2>1. i - 1 \in 0..n
    BY <1>2
  <2>2. f[i - 1] \in S /\ f[i] = g[<<f[i - 1], i>>]
    BY <1>5, <2>1
  <2>3. QED BY <1>1, <2>2
<1>7. f = [i \in 0..n |-> IF i = 0 THEN <<>> ELSE Pushed(f[i - 1], segments[i])]
  <2>1. ASSUME NEW i \in 0..n PROVE f[i] = IF i = 0 THEN <<>> ELSE Pushed(f[i - 1], segments[i])
    <3>1. i # 0 => i \in 1..n
      BY <1>2
    <3>2. QED BY <1>5, <1>6, <3>1
  <2>2. QED BY <1>5, <2>1
<1> DEFINE upto[i \in 0..n] == IF i = 0 THEN <<>> ELSE Pushed(upto[i - 1], segments[i])
<1>8. upto = [i \in 0..n |-> IF i = 0 THEN <<>> ELSE Pushed(upto[i - 1], segments[i])]
  BY <1>7, Zenon
<1>9. Path(s) = upto[n]
  BY <1>3, Zenon
<1> HIDE DEF upto
<1>10. \A i \in 0..n : upto[i] = IF i = 0 THEN <<>> ELSE Pushed(upto[i - 1], segments[i])
  BY <1>8
<1> DEFINE T == {i \in 0..n : upto[i] = f[i]}
<1>11. 0 \in T
  BY <1>2, <1>5, <1>10
<1>12. ASSUME NEW k \in 0..(n - 1), k \in T PROVE k + 1 \in T
  <2>1. k + 1 \in 1..n /\ (k + 1) - 1 = k /\ k + 1 \in 0..n /\ k + 1 # 0
    BY <1>2
  <2>2. QED BY <1>6, <1>10, <1>12, <2>1
<1> HIDE DEF T
<1>13. \A k \in 0..n : k \in T
  BY <1>2, <1>11, <1>12, Induction
<1>14. upto[n] = f[n]
  BY <1>2, <1>13 DEF T
<1>15. QED BY <1>5, <1>6, <1>9, <1>14 DEF S, n, segments

-------------------------------------------------------------------------------
DotFree(path) == \A i \in DOMAIN path : path[i] = Slash => ~DotsAt(path, i + 1)

\* Another segment that is no dots leaves a path without dots.
LEMMA Longer ==
  ASSUME NEW path \in Seq(Nat), DotFree(path), NEW name \in Names
  PROVE  DotFree(path \o (<<Slash>> \o name))
<1> DEFINE more == <<Slash>> \o name
           all == path \o more
           l == Len(path)
           m == Len(name)
<1>1. name \in Seq(Nat) /\ \A k \in 1..Len(name) : name[k] # Slash
  BY SeqMonotonic DEF Names, PathChars
<1>2. /\ more \in Seq(Nat) /\ Len(more) = m + 1 /\ more[1] = Slash
      /\ \A k \in 1..m : more[k + 1] = name[k]
  BY <1>1 DEF Slash
<1>3. l \in Nat /\ m \in Nat /\ DOMAIN path = 1..l
  BY <1>1
<1> HIDE DEF more
<1>4. /\ all \in Seq(Nat) /\ Len(all) = l + (m + 1) /\ DOMAIN all = 1..Len(all)
      /\ \A i \in 1..(l + (m + 1)) : all[i] = IF i <= l THEN path[i] ELSE more[i - l]
  <2>1. /\ all \in Seq(Nat) /\ Len(all) = Len(path) + Len(more)
        /\ \A i \in 1..(Len(path) + Len(more)) : all[i] = IF i <= Len(path) THEN path[i] ELSE more[i - Len(path)]
    BY <1>2, ConcatProperties
  <2>2. DOMAIN all = 1..Len(all)
    BY <2>1
  <2> HIDE DEF all, m
  <2>3. QED BY <1>2, <2>1, <2>2
<1>5. /\ \A i \in 1..l : all[i] = path[i]
      /\ all[l + 1] = Slash
      /\ \A k \in 1..m : all[l + 1 + k] = name[k]
  <2>1. ASSUME NEW i \in 1..l PROVE all[i] = path[i]
    BY <1>3, <1>4
  <2>2. all[l + 1] = Slash
    <3>1. l + 1 \in 1..(l + (m + 1)) /\ ~ (l + 1 <= l) /\ (l + 1) - l = 1
      BY <1>3
    <3>2. QED BY <1>2, <1>4, <3>1
  <2>3. ASSUME NEW k \in 1..m PROVE all[l + 1 + k] = name[k]
    <3>1. l + 1 + k \in 1..(l + (m + 1)) /\ ~ (l + 1 + k <= l) /\ (l + 1 + k) - l = k + 1
      BY <1>3
    <3>2. QED BY <1>2, <1>4, <3>1
  <2>4. QED BY <2>1, <2>2, <2>3
<1> HIDE DEF all, l, m
<1>6. \A i \in 1..(l + 1) : SlashOrEnd(all, i) <=> SlashOrEnd(path, i)
  <2> TAKE i \in 1..(l + 1)
  <2>1. CASE i = l + 1
    BY <1>3, <1>4, <1>5, <2>1 DEF SlashOrEnd, l
  <2>2. CASE i # l + 1
    <3>1. i \in 1..l /\ i # Len(all) + 1 /\ i # Len(path) + 1
      BY <1>3, <1>4, <2>2 DEF l
    <3>2. QED BY <1>5, <3>1 DEF SlashOrEnd
  <2>3. QED BY <2>1, <2>2
<1>7. ASSUME NEW i \in DOMAIN all, all[i] = Slash, DotsAt(all, i + 1) PROVE FALSE
  <2>1. i \in 1..Len(all) /\ i + 1 <= Len(all) /\ all[i + 1] = Dot
    BY <1>4, <1>7 DEF DotsAt
  <2>2. CASE i <= l
    <3>1. i \in 1..l /\ path[i] = Slash
      BY <1>5, <1>7, <2>1, <2>2
    <3>2. i + 1 <= l
      <4>1. i + 1 # l + 1
        BY <1>5, <2>1 DEF Dot, Slash
      <4>2. QED BY <1>3, <2>2, <3>1, <4>1
    <3>3. path[i + 1] = Dot
      BY <1>3, <1>5, <2>1, <3>1, <3>2
    <3>4. ~DotsAt(path, i + 1)
      BY <1>3, <3>1 DEF DotFree
    <3>5. /\ ~SlashOrEnd(path, (i + 1) + 1)
          /\ ~ (path[(i + 1) + 1] = Dot /\ SlashOrEnd(path, (i + 1) + 2))
      BY <3>2, <3>3, <3>4 DEF DotsAt, l
    <3>6. (i + 1) + 1 \in 1..(l + 1) /\ (i + 1) + 1 # l + 1
      <4>1. (i + 1) + 1 \in 1..(l + 1)
        BY <1>3, <3>1, <3>2
      <4>2. (i + 1) + 1 # Len(path) + 1
        BY <3>5 DEF SlashOrEnd
      <4>3. QED BY <4>1, <4>2 DEF l
    <3>7. (i + 1) + 1 \in 1..l /\ (i + 1) + 2 \in 1..(l + 1)
      BY <1>3, <3>1, <3>6
    <3>8. ~SlashOrEnd(all, (i + 1) + 1) /\ ~ (all[(i + 1) + 1] = Dot /\ SlashOrEnd(all, (i + 1) + 2))
      BY <1>5, <1>6, <3>5, <3>6, <3>7
    <3>9. QED BY <1>7, <3>8 DEF DotsAt
  <2>3. CASE i = l + 1
    <3>1. 1 <= m /\ name[1] = Dot
      <4>1. i + 1 = l + 1 + 1 /\ 1 <= m
        BY <1>3, <1>4, <2>1, <2>3
      <4>2. 1 \in 1..m
        BY <1>3, <4>1
      <4>3. QED BY <1>5, <2>1, <4>1, <4>2
    <3>2. \A k \in 1..(m + 1) : SlashOrEnd(all, l + 1 + k) => k = m + 1
      <4> TAKE k \in 1..(m + 1)
      <4>1. CASE k = m + 1
        BY <4>1
      <4>2. CASE k # m + 1
        <5>1. k \in 1..m /\ l + 1 + k # Len(all) + 1
          BY <1>3, <1>4, <4>2
        <5>2. all[l + 1 + k] # Slash
          BY <1>1, <1>5, <5>1 DEF m
        <5>3. QED BY <5>1, <5>2 DEF SlashOrEnd
      <4>3. QED BY <4>1, <4>2
    <3>3. /\ (i + 1) + 1 = l + 1 + 2 /\ (i + 1) + 2 = l + 1 + 3 /\ 2 \in 1..(m + 1)
      BY <1>3, <2>3, <3>1
    <3>4. CASE SlashOrEnd(all, (i + 1) + 1)
      <4>1. m = 1
        <5>1. SlashOrEnd(all, l + 1 + 2)
          BY <3>3, <3>4, Zenon
        <5>2. 2 = m + 1
          BY <3>2, <3>3, <5>1
        <5>3. QED BY <1>3, <5>2
      <4>2. name = <<Dot>>
        BY <1>1, <3>1, <4>1 DEF m
      <4>3. QED BY <4>2 DEF Names
    <3>5. CASE all[(i + 1) + 1] = Dot /\ SlashOrEnd(all, (i + 1) + 2) /\ ~SlashOrEnd(all, (i + 1) + 1)
      <4>1. m # 1
        BY <1>4, <1>3, <3>3, <3>5 DEF SlashOrEnd
      <4>2. 2 \in 1..m /\ 3 \in 1..(m + 1)
        BY <1>3, <3>1, <4>1
      <4>3. m = 2
        <5>1. SlashOrEnd(all, l + 1 + 3)
          BY <3>3, <3>5, Zenon
        <5>2. 3 = m + 1
          BY <3>2, <4>2, <5>1
        <5>3. QED BY <1>3, <5>2
      <4>4. name[2] = Dot
        BY <1>5, <3>3, <3>5, <4>2
      <4>5. Len(name) = 2 /\ name[1] = Dot /\ name[2] = Dot
        BY <3>1, <4>3, <4>4 DEF m
      <4>6. name = <<Dot, Dot>>
        BY <1>1, <4>5
      <4>7. QED BY <4>6 DEF Names
    <3>6. QED BY <1>7, <3>4, <3>5 DEF DotsAt
  <2>4. CASE i > l + 1
    <3>1. i - (l + 1) \in 1..m /\ l + 1 + (i - (l + 1)) = i
      <4>1. i \in Nat /\ i <= l + (m + 1)
        BY <1>3, <1>4, <2>1
      <4>2. QED BY <1>3, <2>4, <4>1
    <3>2. all[i] = name[i - (l + 1)]
      BY <1>5, <3>1
    <3>3. QED BY <1>1, <1>7, <3>1, <3>2 DEF m
  <2>5. QED BY <1>3, <2>1, <2>2, <2>3, <2>4
<1>8. QED BY <1>7 DEF DotFree, all, more

\* What the segments are joined to.
LEMMA JoinedIs ==
  ASSUME NEW path \in Seq(Names)
  PROVE  Joined(path) \in Seq(Nat \ {Hash, Question}) /\ DotFree(Joined(path))
<1> DEFINE A == Nat \ {Hash, Question}
           q == [i \in DOMAIN path |-> <<Slash>> \o path[i]]
<1>1. \A i \in 1..Len(path) : path[i] \in Names
  BY ElementOfSeq
<1>2. ASSUME NEW i \in 1..Len(path) PROVE <<Slash>> \o path[i] \in Seq(A)
  <2>1. path[i] \in Seq(A)
    BY <1>1, SeqMonotonic DEF Names, PathChars
  <2>2. <<Slash>> \in Seq(A)
    BY DEF Slash, Hash, Question
  <2> HIDE DEF A
  <2>3. QED BY <2>1, <2>2, ConcatProperties
<1>3. q \in Seq(Seq(A)) /\ Len(q) = Len(path) /\ \A i \in 1..Len(q) : q[i] = <<Slash>> \o path[i]
  <2> HIDE DEF A
  <2>1. DOMAIN path = 1..Len(path) /\ Len(path) \in Nat
    OBVIOUS
  <2>2. QED BY <1>2, <2>1
<1>4. Joined(path) = FlattenSeq(q)
  BY DEF Joined
<1>5. A \subseteq Nat
  OBVIOUS
<1> HIDE DEF q, A
<1>6. PICK f : /\ f \in [0..Len(q) -> Seq(A)]
               /\ f[0] = <<>>
               /\ \A i \in 1..Len(q) : f[i] = f[i - 1] \o q[i]
               /\ FlattenSeq(q) = f[Len(q)]
  BY <1>3, FlattenIs
<1> DEFINE T == {k \in 0..Len(q) : DotFree(f[k])}
<1>7. 0 \in T /\ Len(q) \in Nat
  BY <1>3, <1>6 DEF DotFree
<1>8. ASSUME NEW k \in 0..(Len(q) - 1), k \in T PROVE k + 1 \in T
  <2>1. k + 1 \in 1..Len(q) /\ k + 1 \in 0..Len(q) /\ (k + 1) - 1 = k
    BY <1>7
  <2>2. f[k + 1] = f[k] \o (<<Slash>> \o path[k + 1])
    BY <1>3, <1>6, <2>1
  <2>3. f[k] \in Seq(Nat)
    <3>1. f[k] \in Seq(A)
      BY <1>6, <1>7, <1>8
    <3>2. QED BY <1>5, <3>1, SeqMonotonic
  <2>4. path[k + 1] \in Names
    BY <1>1, <1>3, <2>1
  <2>5. QED BY <1>8, <2>1, <2>2, <2>3, <2>4, Longer
<1> HIDE DEF T
<1>9. \A k \in 0..Len(q) : k \in T
  BY <1>7, <1>8, Induction
<1>10. DotFree(f[Len(q)]) /\ f[Len(q)] \in Seq(A)
  <2>1. Len(q) \in 0..Len(q)
    BY <1>7
  <2>2. QED BY <1>6, <1>9, <2>1 DEF T
<1>11. QED BY <1>4, <1>6, <1>10 DEF A

-------------------------------------------------------------------------------
\* The parameters that were given, and those that stay.
Given(s) ==
  LET query == SubSeq(s, 1, Before(s, Hash))
  IN IF Before(query, Question) = Len(query) THEN <<>>
     ELSE Split(SubSeq(query, Before(query, Question) + 2, Len(query)), Ampersand)
Key(p) == SubSeq(p, 1, Before(p, Equals))
LastOfName(given) == {j \in DOMAIN given : \A k \in DOMAIN given : k > j => Key(given[k]) # Key(given[j])}

LEMMA ParamsAre == \A s : Params(s) = {Given(s)[i] : i \in LastOfName(Given(s))}
BY Zenon DEF Params, Given, LastOfName, Key

\* What is split is split to texts.
LEMMA SplitType ==
  ASSUME NEW A, NEW s \in Seq(A), NEW c
  PROVE  Split(s, c) \in Seq(Seq(A)) /\ Split(s, c) # <<>>
<1>1. PICK f : f \in [0..Len(s) -> Pieces(A)] /\ Split(s, c) = f[Len(s)]
  BY SplitIs
<1>2. Len(s) \in 0..Len(s)
  OBVIOUS
<1>3. QED BY <1>1, <1>2 DEF Pieces

\* The query is made of characters that stood before the fragment.
QueryChars == Nat \ {Hash}
LEMMA GivenType ==
  ASSUME NEW s \in Seq(Nat)
  PROVE  Given(s) \in Seq(Seq(QueryChars))
<1> DEFINE h == Before(s, Hash)
           query == SubSeq(s, 1, h)
           b == Before(query, Question)
<1>1. h \in 0..Len(s) /\ \A j \in 1..h : s[j] # Hash
  BY BeforeIs
<1> HIDE DEF h
<1>2. query \in Seq(Nat) /\ Len(query) = h /\ \A i \in 1..h : query[i] = s[i]
  BY <1>1, Cut
<1>3. query \in Seq(QueryChars)
  <2>1. \A i \in 1..h : query[i] \in QueryChars
    BY <1>1, <1>2 DEF QueryChars
  <2> HIDE DEF query
  <2>2. \A i \in 1..Len(query) : query[i] \in QueryChars
    BY <1>2, <2>1
  <2>3. QED BY <1>2, <2>2, Retyped, Zenon
<1>4. b \in 0..Len(query)
  BY <1>2, BeforeIs
<1> HIDE DEF query, b
<1> DEFINE rest == SubSeq(query, b + 2, Len(query))
<1>5. rest \in Seq(QueryChars)
  <2>1. b + 2 \in Nat \ {0} /\ Len(query) \in 0..Len(query)
    BY <1>1, <1>2, <1>4
  <2>2. QED BY <1>3, <2>1, AnyCut
<1>6. Given(s) = IF b = Len(query) THEN <<>> ELSE Split(rest, Ampersand)
  BY Zenon DEF Given, h, query, b
<1> HIDE DEF rest
<1>7. Split(rest, Ampersand) \in Seq(Seq(QueryChars))
  BY <1>5, SplitType
<1>8. QED BY <1>6, <1>7

LEMMA ParamsType ==
  ASSUME NEW s \in Seq(Nat)
  PROVE  Params(s) \subseteq Seq(QueryChars) /\ IsFiniteSet(Params(s))
<1> DEFINE given == Given(s)
           last == LastOfName(given)
           f == [i \in last |-> given[i]]
<1>1. given \in Seq(Seq(QueryChars))
  BY GivenType
<1> HIDE DEF given
<1>2. last \subseteq 1..Len(given) /\ Len(given) \in Nat
  BY <1>1 DEF LastOfName
<1>3. Params(s) = {given[i] : i \in last}
  BY ParamsAre DEF given
<1> HIDE DEF last
<1>4. \A i \in last : given[i] \in Seq(QueryChars)
  BY <1>1, <1>2
<1>5. IsFiniteSet(last)
  <2>1. IsFiniteSet(1..Len(given))
    BY <1>2, FS_Interval
  <2>2. QED BY <1>2, <2>1, FS_Subset
<1>6. f \in Surjection(last, Params(s))
  BY <1>3 DEF Surjection
<1>7. QED BY <1>3, <1>4, <1>5, <1>6, FS_Surjection

LEMMA OrderType ==
  ASSUME NEW P, P \subseteq Seq(QueryChars), IsFiniteSet(P), NEW order \in SetToSeqs(P)
  PROVE  /\ order \in Seq(Seq(QueryChars)) /\ Len(order) = Cardinality(P)
         /\ \A i, j \in 1..Len(order) : i # j => order[i] # order[j]
         /\ P = {order[i] : i \in 1..Len(order)}
<1>1. Cardinality(P) \in Nat
  BY FS_CardinalityType
<1>2. /\ order \in [1..Cardinality(P) -> P]
      /\ \A i, j \in 1..Cardinality(P) : i # j => order[i] # order[j]
  BY DEF SetToSeqs
<1>3. Len(order) = Cardinality(P) /\ order \in Seq(P)
  BY <1>1, <1>2
<1>4. order \in Seq(Seq(QueryChars))
  BY <1>3, SeqMonotonic
<1>5. order \in Surjection(1..Len(order), P)
  <2> DEFINE D == 1..Cardinality(P)
  <2>1. order \in Injection(D, P)
    BY <1>2 DEF Injection, IsInjective
  <2>2. IsFiniteSet(D) /\ Cardinality(D) = Cardinality(P)
    BY <1>1, FS_Interval
  <2> HIDE DEF D
  <2>3. order \in Surjection(D, P)
    BY <2>1, <2>2, FS_Injection
  <2>4. QED BY <1>3, <2>3 DEF D
<1>6. QED BY <1>1, <1>2, <1>3, <1>4, <1>5 DEF Surjection

LEMMA QueryType ==
  ASSUME NEW order \in Seq(Seq(QueryChars))
  PROVE  /\ Query(order) \in Seq(QueryChars)
         /\ order = <<>> => Query(order) = <<>>
         /\ order # <<>> => Query(order) # <<>> /\ Query(order)[1] = Question
<1>1. CASE order = <<>>
  BY <1>1 DEF Query
<1>2. CASE order # <<>>
  <2> DEFINE m == Len(order) - 1
             q == [i \in 1..m |-> <<Ampersand>> \o order[i + 1]]
  <2>1. m \in Nat /\ order[1] \in Seq(QueryChars)
    BY <1>2
  <2>2. ASSUME NEW i \in 1..m PROVE <<Ampersand>> \o order[i + 1] \in Seq(QueryChars)
    <3>1. i + 1 \in 1..Len(order)
      BY <2>1
    <3>2. order[i + 1] \in Seq(QueryChars)
      BY <3>1, ElementOfSeq
    <3>3. <<Ampersand>> \in Seq(QueryChars)
      BY DEF QueryChars, Ampersand, Hash
    <3>4. QED BY <3>2, <3>3, ConcatProperties
  <2> HIDE DEF m
  <2>3. q \in Seq(Seq(QueryChars))
    BY <2>1, <2>2
  <2>4. Query(order) = <<Question>> \o order[1] \o FlattenSeq(q)
    BY <1>2, Zenon DEF Query, m
  <2> HIDE DEF q
  <2>5. PICK f : f \in [0..Len(q) -> Seq(QueryChars)] /\ FlattenSeq(q) = f[Len(q)]
    BY <2>3, FlattenIs
  <2>6. FlattenSeq(q) \in Seq(QueryChars)
    <3>1. Len(q) \in 0..Len(q)
      BY <2>3
    <3>2. QED BY <2>5, <3>1
  <2>7. <<Question>> \in Seq(QueryChars)
    BY DEF QueryChars, Question, Hash
  <2>8. <<Question>> \o order[1] \in Seq(QueryChars) /\ (<<Question>> \o order[1])[1] = Question
        /\ Len(<<Question>> \o order[1]) >= 1
    BY <2>1, <2>7
  <2> DEFINE first == <<Question>> \o order[1]
  <2>9. first \in Seq(QueryChars) /\ first[1] = Question /\ Len(first) \in Nat /\ Len(first) >= 1
    BY <2>8
  <2> DEFINE more == FlattenSeq(q)
  <2>10. Query(order) = first \o more /\ more \in Seq(QueryChars)
    BY <2>4, <2>6
  <2> HIDE DEF first, more
  <2>11. /\ first \o more \in Seq(QueryChars) /\ Len(first \o more) >= 1
         /\ (first \o more)[1] = Question
    BY <2>9, <2>10
  <2>12. QED BY <1>2, <2>10, <2>11
<1>3. QED BY <1>1, <1>2

\* The three parts of what normalized returns.
Fragment(s) == IF Reference(s) = <<>> THEN <<>> ELSE <<Hash>> \o Reference(s)
LEMMA FragmentType ==
  ASSUME NEW s \in Seq(Nat)
  PROVE  /\ Reference(s) \in Seq(Nat) /\ Fragment(s) \in Seq(Nat)
         /\ Fragment(s) = <<>> \/ Fragment(s)[1] = Hash
<1>1. Reference(s) \in Seq(Nat)
  <2>1. Before(s, Hash) \in 0..Len(s)
    BY BeforeIs
  <2>2. Before(s, Hash) + 2 \in Nat \ {0} /\ Len(s) \in 0..Len(s)
    BY <2>1
  <2>3. QED BY <2>2, AnyCut DEF Reference
<1>2. CASE Reference(s) = <<>>
  BY <1>1, <1>2 DEF Fragment
<1>3. CASE Reference(s) # <<>>
  <2>1. Fragment(s) = <<Hash>> \o Reference(s)
    BY <1>3 DEF Fragment
  <2>2. <<Hash>> \in Seq(Nat)
    BY DEF Hash
  <2>3. QED BY <1>1, <2>1, <2>2
<1>4. QED BY <1>2, <1>3

LEMMA NormalizedIs ==
  ASSUME NEW s \in Seq(Nat), ~Panics(s), NEW u \in normalized(s)
  PROVE  \E order \in SetToSeqs(Params(s)) :
           /\ order \in Seq(Seq(QueryChars))
           /\ Joined(Path(s)) \in Seq(Nat \ {Hash, Question}) /\ DotFree(Joined(Path(s)))
           /\ Query(order) \o Fragment(s) \in Seq(Nat)
           /\ u = Joined(Path(s)) \o (Query(order) \o Fragment(s))
           /\ LocalPath(u) = Joined(Path(s))
<1> DEFINE path == Joined(Path(s))
<1>1. Path(s) \in Seq(Names)
  <2>1. PICK f : f \in [0..Len(Segments(s)) -> Seq(Names)] /\ Path(s) = f[Len(Segments(s))]
    BY PathIs
  <2>2. Len(Segments(s)) \in 0..Len(Segments(s))
    BY SegmentsType
  <2>3. QED BY <2>1, <2>2
<1>2. path \in Seq(Nat \ {Hash, Question}) /\ DotFree(path)
  BY <1>1, JoinedIs
<1>3. PICK order \in SetToSeqs(Params(s)) : u = path \o Query(order) \o Fragment(s)
  BY Zenon DEF normalized, Fragment
<1>4. order \in Seq(Seq(QueryChars))
  BY ParamsType, OrderType
<1> HIDE DEF path
<1> DEFINE p == Query(order)
           g == Fragment(s)
<1>5. p \in Seq(Nat) /\ (p = <<>> \/ p[1] = Question)
  BY <1>4, QueryType, SeqMonotonic DEF QueryChars
<1>6. g \in Seq(Nat) /\ (g = <<>> \/ g[1] = Hash)
  BY FragmentType
<1>7. path \in Seq(Nat) /\ \A i \in 1..Len(path) : path[i] \notin {Hash, Question}
  BY <1>2, SeqMonotonic
<1>8. u = path \o p \o g
  BY <1>3
<1> HIDE DEF p, g
<1>9. p \o g \in Seq(Nat) /\ (p \o g = <<>> \/ (p \o g)[1] \in {Hash, Question})
  BY <1>5, <1>6
<1>10. u = path \o (p \o g)
  <2>1. (path \o p) \o g = path \o (p \o g)
    <3>1. \A x, y, z \in Seq(Nat) : (x \o y) \o z = x \o (y \o z)
      BY ConcatAssociative, SMTT(40)
    <3>2. path \in Seq(Nat) /\ p \in Seq(Nat) /\ g \in Seq(Nat)
      BY <1>5, <1>6, <1>7
    <3>3. QED BY <3>1, <3>2, Zenon
  <2>2. QED BY <1>8, <2>1
<1>11. LocalPath(path \o (p \o g)) = path
  <2> DEFINE rest == p \o g
  <2>1. rest \in Seq(Nat) /\ (rest = <<>> \/ rest[1] \in {Hash, Question})
    BY <1>9
  <2> HIDE DEF rest
  <2>2. LocalPath(path \o rest) = path
    BY <1>7, <2>1, LocalPathIs
  <2>3. QED BY <2>2 DEF rest
<1>12. QED BY <1>2, <1>4, <1>9, <1>10, <1>11 DEF path, p, g

-------------------------------------------------------------------------------
\* FlattenSeq of a longer sequence, piece by piece.
LEMMA FlattenNone == FlattenSeq(<<>>) = <<>>
<1>1. <<>> \in Seq(Seq(Nat)) /\ Len(<<>>) = 0
  OBVIOUS
<1>2. PICK f : f[0] = <<>> /\ FlattenSeq(<<>>) = f[Len(<<>>)]
  BY <1>1, FlattenIs
<1>3. QED BY <1>1, <1>2

LEMMA FlattenType ==
  ASSUME NEW A, NEW q \in Seq(Seq(A))
  PROVE  FlattenSeq(q) \in Seq(A)
<1>1. PICK f : f \in [0..Len(q) -> Seq(A)] /\ FlattenSeq(q) = f[Len(q)]
  BY FlattenIs
<1>2. Len(q) \in 0..Len(q)
  OBVIOUS
<1>3. QED BY <1>1, <1>2

LEMMA ConcatOf ==
  ASSUME NEW A, NEW a \in Seq(A), NEW b \in Seq(A)
  PROVE  /\ a \o b \in Seq(A) /\ Len(a \o b) = Len(a) + Len(b) /\ Len(a) \in Nat /\ Len(b) \in Nat
         /\ \A i \in 1..Len(a) : (a \o b)[i] = a[i]
         /\ \A i \in 1..Len(b) : (a \o b)[Len(a) + i] = b[i]
<1>1. /\ a \o b \in Seq(A) /\ Len(a \o b) = Len(a) + Len(b)
      /\ \A i \in 1..(Len(a) + Len(b)) : (a \o b)[i] = IF i <= Len(a) THEN a[i] ELSE b[i - Len(a)]
  BY ConcatProperties
<1>2. Len(a) \in Nat /\ Len(b) \in Nat
  OBVIOUS
<1> DEFINE c == a \o b
<1> HIDE DEF c
<1>3. \A i \in 1..Len(b) : c[Len(a) + i] = b[i]
  <2> TAKE i \in 1..Len(b)
  <2>1. Len(a) + i \in 1..(Len(a) + Len(b)) /\ ~ (Len(a) + i <= Len(a)) /\ (Len(a) + i) - Len(a) = i
    BY <1>2
  <2>2. QED BY <1>1, <2>1 DEF c
<1>4. \A i \in 1..Len(a) : c[i] = a[i]
  <2> TAKE i \in 1..Len(a)
  <2>1. i \in 1..(Len(a) + Len(b)) /\ i <= Len(a)
    BY <1>2
  <2>2. QED BY <1>1, <2>1 DEF c
<1>5. QED BY <1>1, <1>2, <1>3, <1>4 DEF c

LEMMA FlattenJoins ==
  ASSUME NEW A, NEW q \in Seq(Seq(A)), NEW p \in Seq(Seq(A))
  PROVE  FlattenSeq(q \o p) = FlattenSeq(q) \o FlattenSeq(p)
<1> DEFINE S == Seq(A)
           n == Len(q)
           m == Len(p)
           all == q \o p
<1>1. /\ all \in Seq(S) /\ Len(all) = n + m /\ n \in Nat /\ m \in Nat
      /\ (\A i \in 1..n : all[i] = q[i]) /\ (\A i \in 1..m : all[n + i] = p[i])
  BY ConcatOf
<1>2. PICK f : /\ f \in [0..n -> S] /\ f[0] = <<>>
               /\ \A i \in 1..n : f[i] = f[i - 1] \o q[i]
               /\ FlattenSeq(q) = f[n]
  BY FlattenIs
<1>3. PICK g : /\ g \in [0..m -> S] /\ g[0] = <<>>
               /\ \A i \in 1..m : g[i] = g[i - 1] \o p[i]
               /\ FlattenSeq(p) = g[m]
  BY FlattenIs
<1> HIDE DEF all
<1>4. PICK h : /\ h \in [0..Len(all) -> S] /\ h[0] = <<>>
               /\ \A i \in 1..Len(all) : h[i] = h[i - 1] \o all[i]
               /\ FlattenSeq(all) = h[Len(all)]
  BY <1>1, FlattenIs
<1>5. \A i \in 1..m : p[i] \in S
  BY ElementOfSeq
<1> HIDE DEF n, m
<1>6. h[n] = f[n]
  <2> DEFINE T == {i \in 0..n : h[i] = f[i]}
  <2>1. 0 \in T
    BY <1>1, <1>2, <1>4
  <2>2. ASSUME NEW k \in 0..(n - 1), k \in T PROVE k + 1 \in T
    <3>1. k + 1 \in 1..n /\ k + 1 \in 1..Len(all) /\ (k + 1) - 1 = k /\ k + 1 \in 0..n
      BY <1>1
    <3>2. f[k + 1] = f[k] \o q[k + 1] /\ h[k + 1] = h[k] \o all[k + 1] /\ all[k + 1] = q[k + 1]
      BY <1>1, <1>2, <1>4, <3>1
    <3>3. QED BY <2>2, <3>1, <3>2
  <2> HIDE DEF T
  <2>3. \A k \in 0..n : k \in T
    BY <1>1, <2>1, <2>2, Induction
  <2>4. QED BY <1>1, <2>3 DEF T
<1>7. f[n] \in S /\ \A i \in 0..m : g[i] \in S
  BY <1>1, <1>2, <1>3
<1>8. h[n + m] = f[n] \o g[m]
  <2> DEFINE T == {i \in 0..m : h[n + i] = f[n] \o g[i]}
  <2>1. 0 \in T
    <3>1. n + 0 = n /\ 0 \in 0..m
      BY <1>1
    <3>2. f[n] \o <<>> = f[n]
      BY <1>7, ConcatEmptySeq
    <3>3. QED BY <1>3, <1>6, <3>1, <3>2
  <2>2. ASSUME NEW k \in 0..(m - 1), k \in T PROVE k + 1 \in T
    <3>1. /\ k + 1 \in 1..m /\ k \in 0..m /\ (k + 1) - 1 = k /\ k + 1 \in 0..m
          /\ n + (k + 1) \in 1..Len(all) /\ (n + (k + 1)) - 1 = n + k
      BY <1>1
    <3>2. /\ g[k + 1] = g[k] \o p[k + 1] /\ h[n + (k + 1)] = h[n + k] \o all[n + (k + 1)]
          /\ all[n + (k + 1)] = p[k + 1] /\ h[n + k] = f[n] \o g[k]
      BY <1>1, <1>3, <1>4, <2>2, <3>1
    <3>3. f[n] \in Seq(A) /\ g[k] \in Seq(A) /\ p[k + 1] \in Seq(A)
      BY <1>5, <1>7, <3>1
    <3>4. (f[n] \o g[k]) \o p[k + 1] = f[n] \o (g[k] \o p[k + 1])
      <4>1. \A x, y, z \in Seq(A) : (x \o y) \o z = x \o (y \o z)
        BY ConcatAssociative, SMTT(40)
      <4>2. QED BY <3>3, <4>1
    <3>5. QED BY <3>1, <3>2, <3>4
  <2> HIDE DEF T
  <2>3. \A k \in 0..m : k \in T
    BY <1>1, <2>1, <2>2, Induction
  <2>4. m \in T
    BY <1>1, <2>3
  <2>5. QED BY <2>4 DEF T
<1>9. QED BY <1>1, <1>2, <1>3, <1>4, <1>8 DEF all

LEMMA FlattenOne ==
  ASSUME NEW A, NEW x \in Seq(A)
  PROVE  FlattenSeq(<<x>>) = x
<1> DEFINE S == Seq(A)
           q == <<x>>
<1>1. q \in Seq(S) /\ Len(q) = 1 /\ q[1] = x
  OBVIOUS
<1> HIDE DEF q
<1>2. PICK f : /\ f[0] = <<>>
               /\ \A i \in 1..Len(q) : f[i] = f[i - 1] \o q[i]
               /\ FlattenSeq(q) = f[Len(q)]
  BY <1>1, FlattenIs
<1>3. f[1] = f[0] \o q[1]
  <2>1. 1 \in 1..Len(q) /\ 1 - 1 = 0
    BY <1>1
  <2>2. QED BY <1>2, <2>1
<1>4. <<>> \o x = x
  BY ConcatEmptySeq
<1>5. QED BY <1>1, <1>2, <1>3, <1>4 DEF q

\* One more piece at the end, and one more in front.
LEMMA FlattenAppend ==
  ASSUME NEW A, NEW q \in Seq(Seq(A)), NEW x \in Seq(A)
  PROVE  FlattenSeq(Append(q, x)) = FlattenSeq(q) \o x
<1>1. <<x>> \in Seq(Seq(A)) /\ Append(q, x) = q \o <<x>>
  BY AppendIsConcat
<1>2. FlattenSeq(q \o <<x>>) = FlattenSeq(q) \o FlattenSeq(<<x>>)
  BY <1>1, FlattenJoins
<1>3. FlattenSeq(<<x>>) = x
  BY FlattenOne
<1>4. QED BY <1>1, <1>2, <1>3

LEMMA FlattenFrom ==
  ASSUME NEW A, NEW q \in Seq(Seq(A)), NEW i \in 1..Len(q)
  PROVE  /\ FlattenSeq(SubSeq(q, i, Len(q))) = q[i] \o FlattenSeq(SubSeq(q, i + 1, Len(q)))
         /\ q[i] \in Seq(A) /\ FlattenSeq(SubSeq(q, i + 1, Len(q))) \in Seq(A)
<1> DEFINE S == Seq(A)
           n == Len(q)
           rest == SubSeq(q, i + 1, n)
           x == q[i]
<1>1. x \in S /\ n \in i..Len(q) /\ i + 1 \in Nat \ {0} /\ n \in 0..Len(q)
  BY ElementOfSeq
<1>2. rest \in Seq(S)
  BY <1>1, AnyCut
<1>3. SubSeq(q, i, n) = <<x>> \o rest
  BY <1>1, SubSeqRecursiveFirst
<1>4. <<x>> \in Seq(S)
  BY <1>1
<1> HIDE DEF rest, x, n
<1>5. FlattenSeq(<<x>> \o rest) = FlattenSeq(<<x>>) \o FlattenSeq(rest)
  BY <1>2, <1>4, FlattenJoins
<1>6. FlattenSeq(<<x>>) = x /\ FlattenSeq(rest) \in Seq(A)
  BY <1>1, <1>2, FlattenOne, FlattenType
<1>7. QED BY <1>1, <1>3, <1>5, <1>6 DEF n, rest, x

LEMMA FlattenOfNone ==
  ASSUME NEW q, NEW n \in Nat
  PROVE  FlattenSeq(SubSeq(q, n + 1, n)) = <<>>
<1>1. SubSeq(q, n + 1, n) = <<>>
  OBVIOUS
<1>2. QED BY <1>1, FlattenNone

-------------------------------------------------------------------------------
\* Spelled: one byte after the other.
Spell(byte) == IF byte \in Unreserved THEN <<byte>> ELSE Escape(byte)

LEMMA SpelledIs == \A bytes : Spelled(bytes) = FlattenSeq([k \in DOMAIN bytes |-> Spell(bytes[k])])
BY Zenon DEF Spelled, Spell

LEMMA SpellType ==
  ASSUME NEW b \in Nat
  PROVE  Spell(b) \in Seq(TermChars)
<1>1. Escape(b) \in Seq(TermChars)
  BY EscapeType, SeqMonotonic DEF TermChars
<1>2. b \in Unreserved => <<b>> \in Seq(TermChars)
  BY DEF TermChars
<1>3. QED BY <1>1, <1>2 DEF Spell

LEMMA SpellsType ==
  ASSUME NEW bytes \in Seq(Nat)
  PROVE  /\ [k \in DOMAIN bytes |-> Spell(bytes[k])] \in Seq(Seq(TermChars))
         /\ Len([k \in DOMAIN bytes |-> Spell(bytes[k])]) = Len(bytes)
         /\ \A k \in 1..Len(bytes) : [i \in DOMAIN bytes |-> Spell(bytes[i])][k] = Spell(bytes[k])
<1>1. DOMAIN bytes = 1..Len(bytes) /\ Len(bytes) \in Nat /\ \A k \in 1..Len(bytes) : bytes[k] \in Nat
  OBVIOUS
<1>2. \A k \in 1..Len(bytes) : Spell(bytes[k]) \in Seq(TermChars)
  BY <1>1, SpellType
<1> DEFINE S == Seq(TermChars)
<1> HIDE DEF S
<1>3. \A k \in 1..Len(bytes) : Spell(bytes[k]) \in S
  BY <1>2 DEF S
<1>4. QED BY <1>1, <1>3 DEF S

LEMMA SpelledType ==
  ASSUME NEW bytes \in Seq(Nat)
  PROVE  Spelled(bytes) \in Seq(TermChars)
BY SpelledIs, SpellsType, FlattenType

LEMMA SpelledJoins ==
  ASSUME NEW a \in Seq(Nat), NEW b \in Seq(Nat)
  PROVE  Spelled(a \o b) = Spelled(a) \o Spelled(b)
<1> DEFINE S == Seq(TermChars)
           c == a \o b
           p == [k \in DOMAIN a |-> Spell(a[k])]
           q == [k \in DOMAIN b |-> Spell(b[k])]
           all == [k \in DOMAIN c |-> Spell(c[k])]
           both == p \o q
<1>1. /\ c \in Seq(Nat) /\ Len(c) = Len(a) + Len(b) /\ Len(a) \in Nat /\ Len(b) \in Nat
      /\ (\A i \in 1..Len(a) : c[i] = a[i]) /\ (\A i \in 1..Len(b) : c[Len(a) + i] = b[i])
  BY ConcatOf
<1> HIDE DEF c
<1>2. p \in Seq(S) /\ Len(p) = Len(a) /\ \A k \in 1..Len(a) : p[k] = Spell(a[k])
  BY SpellsType
<1>3. q \in Seq(S) /\ Len(q) = Len(b) /\ \A k \in 1..Len(b) : q[k] = Spell(b[k])
  BY SpellsType
<1>4. all \in Seq(S) /\ Len(all) = Len(c) /\ \A k \in 1..Len(c) : all[k] = Spell(c[k])
  BY <1>1, SpellsType
<1> HIDE DEF p, q, all, S
<1>5. /\ both \in Seq(S) /\ Len(both) = Len(p) + Len(q)
      /\ (\A i \in 1..Len(p) : both[i] = p[i]) /\ (\A i \in 1..Len(q) : both[Len(p) + i] = q[i])
  <2>1. p \in Seq(S) /\ q \in Seq(S)
    BY <1>2, <1>3
  <2>2. QED BY <2>1, ConcatOf
<1> HIDE DEF both
<1>6. ASSUME NEW i \in 1..Len(all) PROVE all[i] = both[i]
  <2>1. CASE i <= Len(a)
    <3>1. i \in 1..Len(a) /\ i \in 1..Len(c)
      BY <1>1, <1>4, <2>1
    <3>2. QED BY <1>1, <1>2, <1>4, <1>5, <3>1
  <2>2. CASE ~ (i <= Len(a))
    <3>1. i - Len(a) \in 1..Len(b) /\ Len(a) + (i - Len(a)) = i /\ i \in 1..Len(c)
      BY <1>1, <1>4, <2>2
    <3>2. c[i] = b[i - Len(a)] /\ both[i] = q[i - Len(a)] /\ q[i - Len(a)] = Spell(b[i - Len(a)])
      BY <1>1, <1>2, <1>3, <1>5, <3>1
    <3>3. QED BY <1>4, <3>1, <3>2
  <2>3. QED BY <2>1, <2>2
<1>7. all = both
  <2>1. Len(all) = Len(both)
    BY <1>1, <1>2, <1>3, <1>4, <1>5
  <2>2. QED BY <1>4, <1>5, <1>6, <2>1, SeqEqual
<1>8. FlattenSeq(both) = FlattenSeq(p) \o FlattenSeq(q)
  BY <1>2, <1>3, FlattenJoins DEF both, S
<1>9. Spelled(c) = FlattenSeq(all) /\ Spelled(a) = FlattenSeq(p) /\ Spelled(b) = FlattenSeq(q)
  BY SpelledIs DEF all, p, q
<1>10. QED BY <1>7, <1>8, <1>9 DEF c

LEMMA SpelledNone == Spelled(<<>>) = <<>>
<1>1. [k \in DOMAIN <<>> |-> Spell(<<>>[k])] = <<>>
  OBVIOUS
<1>2. QED BY <1>1, SpelledIs, FlattenNone

LEMMA SpelledOne ==
  ASSUME NEW b \in Nat
  PROVE  Spelled(<<b>>) = Spell(b)
<1> DEFINE x == <<b>>
<1>1. x \in Seq(Nat) /\ Len(x) = 1 /\ DOMAIN x = {1} /\ x[1] = b
  OBVIOUS
<1>2. [k \in DOMAIN x |-> Spell(x[k])] = <<Spell(b)>>
  <2> HIDE DEF x
  <2>1. [k \in DOMAIN x |-> Spell(x[k])] = [k \in {1} |-> Spell(b)]
    BY <1>1
  <2>2. QED BY <2>1
<1>3. FlattenSeq(<<Spell(b)>>) = Spell(b)
  BY SpellType, FlattenOne
<1>4. QED BY <1>2, <1>3, SpelledIs

\* Bytes that all need an escape.
LEMMA SpelledEscapes ==
  ASSUME NEW bytes, \A k \in DOMAIN bytes : bytes[k] \notin Unreserved
  PROVE  Spelled(bytes) = FlattenSeq([k \in DOMAIN bytes |-> Escape(bytes[k])])
<1>1. \A k \in DOMAIN bytes : Spell(bytes[k]) = Escape(bytes[k])
  BY DEF Spell
<1>2. [k \in DOMAIN bytes |-> Spell(bytes[k])] = [k \in DOMAIN bytes |-> Escape(bytes[k])]
  BY <1>1
<1>3. QED BY <1>2, SpelledIs

\* The spelling of parts that are put together is the spellings of the parts.
LEMMA SpelledFlatten ==
  ASSUME NEW q \in Seq(Seq(Nat)), NEW p \in Seq(Seq(TermChars)), Len(p) = Len(q),
         \A i \in 1..Len(q) : p[i] = Spelled(q[i])
  PROVE  Spelled(FlattenSeq(q)) = FlattenSeq(p)
<1> DEFINE n == Len(q)
<1>1. PICK f : /\ f \in [0..n -> Seq(Nat)] /\ f[0] = <<>>
               /\ \A i \in 1..n : f[i] = f[i - 1] \o q[i]
               /\ FlattenSeq(q) = f[n]
  BY FlattenIs
<1>2. PICK g : /\ g \in [0..Len(p) -> Seq(TermChars)] /\ g[0] = <<>>
               /\ \A i \in 1..Len(p) : g[i] = g[i - 1] \o p[i]
               /\ FlattenSeq(p) = g[Len(p)]
  BY FlattenIs
<1>3. n \in Nat /\ Len(p) = n /\ \A i \in 1..n : q[i] \in Seq(Nat)
  BY ElementOfSeq
<1>4. \A i \in 1..n : p[i] = Spelled(q[i])
  OBVIOUS
<1> HIDE DEF n
<1> DEFINE T == {i \in 0..n : Spelled(f[i]) = g[i]}
<1>5. 0 \in T
  BY <1>1, <1>2, <1>3, SpelledNone
<1>6. ASSUME NEW k \in 0..(n - 1), k \in T PROVE k + 1 \in T
  <2>1. k + 1 \in 1..n /\ (k + 1) - 1 = k /\ k \in 0..n /\ k + 1 \in 0..n
    BY <1>3
  <2>2. f[k + 1] = f[k] \o q[k + 1] /\ g[k + 1] = g[k] \o p[k + 1] /\ Spelled(f[k]) = g[k]
    BY <1>1, <1>2, <1>3, <1>6, <2>1
  <2>3. f[k] \in Seq(Nat) /\ q[k + 1] \in Seq(Nat) /\ p[k + 1] = Spelled(q[k + 1])
    BY <1>1, <1>3, <1>4, <2>1
  <2>4. Spelled(f[k] \o q[k + 1]) = Spelled(f[k]) \o Spelled(q[k + 1])
    BY <2>3, SpelledJoins
  <2>5. QED BY <2>1, <2>2, <2>3, <2>4
<1> HIDE DEF T
<1>7. \A k \in 0..n : k \in T
  BY <1>3, <1>5, <1>6, Induction
<1>8. n \in T
  BY <1>3, <1>7
<1>9. QED BY <1>1, <1>2, <1>3, <1>8 DEF T

-------------------------------------------------------------------------------
\* normalize_term of a text that is spelled properly.  What a place in it gives to the
\* bytes of the text.
PieceAt(s, i) ==
  IF i \in Escapes(s) THEN <<ByteAt(s, i)>>
  ELSE IF {i - 1, i - 2} \cap Escapes(s) # {} THEN <<>> ELSE Utf8(s[i])

LEMMA BytesOfIs == \A s : BytesOf(s) = FlattenSeq([i \in DOMAIN s |-> PieceAt(s, i)])
BY Zenon DEF BytesOf, PieceAt

LEMMA CharsAreNumbers == Chars \subseteq Nat /\ Seq(Chars) \subseteq Seq(Nat)
<1>1. Chars \subseteq Nat
  BY SMT DEF Chars
<1>2. QED BY <1>1, SeqMonotonic

LEMMA Utf8Bytes ==
  ASSUME NEW c \in Chars
  PROVE  /\ Utf8(c)[1] \in Nat /\ Utf8(c)[1] <= 247
         /\ Utf8(c) = <<c>> \/ \A k \in DOMAIN Utf8(c) : Utf8(c)[k] >= 128
<1>0. c \in Nat /\ c < 17 * 65536
  BY SMT DEF Chars
<1>1. CASE c < 128
  <2>1. Utf8(c) = <<c>>
    BY <1>0, <1>1 DEF Utf8
  <2>2. QED BY <1>0, <1>1, <2>1
<1>2. CASE 128 <= c /\ c < 2048
  <2>1. Utf8(c) = <<192 + (c \div 64), 128 + (c % 64)>>
    BY <1>0, <1>2 DEF Utf8
  <2>2. 192 + (c \div 64) \in 192..247 /\ 128 + (c % 64) >= 128
    BY <1>0, <1>2, SMT
  <2>3. QED BY <2>1, <2>2
<1>3. CASE 2048 <= c /\ c < 65536
  <2>1. Utf8(c) = <<224 + (c \div 4096), 128 + ((c \div 64) % 64), 128 + (c % 64)>>
    BY <1>0, <1>3 DEF Utf8
  <2>2. 224 + (c \div 4096) \in 192..247 /\ 128 + ((c \div 64) % 64) >= 128 /\ 128 + (c % 64) >= 128
    BY <1>0, <1>3, SMT
  <2>3. QED BY <2>1, <2>2
<1>4. CASE 65536 <= c
  <2>1. Utf8(c) = <<240 + (c \div 262144), 128 + ((c \div 4096) % 64),
                  128 + ((c \div 64) % 64), 128 + (c % 64)>>
    BY <1>0, <1>4 DEF Utf8
  <2>2. /\ 240 + (c \div 262144) \in 192..247 /\ 128 + ((c \div 4096) % 64) >= 128
        /\ 128 + ((c \div 64) % 64) >= 128 /\ 128 + (c % 64) >= 128
    BY <1>0, <1>4, SMT
  <2>3. QED BY <2>1, <2>2
<1>5. QED BY <1>0, <1>1, <1>2, <1>3, <1>4

\* A character that is no escape.
LEMMA PlainTerm ==
  ASSUME NEW s \in Seq(Chars), NEW i \in 1..Len(s), s[i] # Percent
  PROVE  ~Bad(s, i) /\ Length(s, i) = 1 /\ Term(s, i) = Spelled(Utf8(s[i]))
<1> DEFINE c == s[i]
           bytes == Utf8(c)
<1>1. c \in Chars /\ c \in Nat
  BY SMT DEF Chars
<1>2. BytesAt(s, i) = bytes /\ Length(s, i) = 1 /\ Wellformed(s, i)
  BY DEF BytesAt, Length, Wellformed
<1> HIDE DEF c
<1>3. /\ bytes[1] \in Nat /\ bytes[1] <= 247
      /\ bytes = <<c>> \/ \A k \in DOMAIN bytes : bytes[k] >= 128
  BY <1>1, Utf8Bytes
<1>4. bytes \in Seq(Nat) /\ bytes # <<>>
  BY <1>1, Utf8Type
<1> HIDE DEF bytes
<1>5. ~Bad(s, i)
  BY <1>2, <1>3 DEF Bad
<1>6. Term(s, i) = IF bytes[1] \in Unreserved THEN <<c>> ELSE FlattenSeq([k \in DOMAIN bytes |-> Escape(bytes[k])])
  BY <1>2 DEF Term, c
<1>7. CASE bytes = <<c>>
  <2>1. Spelled(bytes) = Spell(c)
    BY <1>1, <1>7, SpelledOne
  <2>2. CASE c \in Unreserved
    <3>1. Spell(c) = <<c>>
      BY <2>2 DEF Spell
    <3>2. QED BY <1>2, <1>5, <1>6, <1>7, <2>1, <2>2, <3>1 DEF bytes, c
  <2>3. CASE c \notin Unreserved
    <3>1. \A k \in DOMAIN bytes : bytes[k] \notin Unreserved
      BY <1>7, <2>3
    <3>2. Spelled(bytes) = FlattenSeq([k \in DOMAIN bytes |-> Escape(bytes[k])])
      BY <3>1, SpelledEscapes
    <3>3. bytes[1] \notin Unreserved
      BY <1>7, <2>3
    <3>4. QED BY <1>2, <1>5, <1>6, <3>2, <3>3 DEF bytes, c
  <2>4. QED BY <2>2, <2>3
<1>8. CASE \A k \in DOMAIN bytes : bytes[k] >= 128
  <2>1. \A k \in DOMAIN bytes : bytes[k] \in Nat
    BY <1>4
  <2>2. \A k \in DOMAIN bytes : bytes[k] \notin Unreserved
    <3>1. \A b \in Nat : b >= 128 => b \notin Unreserved
      BY DEF Unreserved
    <3>2. QED BY <1>8, <2>1, <3>1
  <2>3. Spelled(bytes) = FlattenSeq([k \in DOMAIN bytes |-> Escape(bytes[k])])
    BY <2>2, SpelledEscapes
  <2>4. bytes[1] \notin Unreserved
    <3>1. 1 \in DOMAIN bytes
      BY <1>4
    <3>2. QED BY <2>2, <3>1
  <2>5. QED BY <1>2, <1>5, <1>6, <2>3, <2>4 DEF bytes, c
<1>9. QED BY <1>3, <1>7, <1>8

\* The escapes of one character.
LEMMA EscapedTerm ==
  ASSUME NEW s \in Seq(Chars), Proper(s), NEW i \in 1..Len(s), s[i] = Percent
  PROVE  \E m \in 0..3 :
           /\ ~Bad(s, i) /\ Length(s, i) = 3 * (1 + m)
           /\ \A k \in 0..m : i + 3 * k \in Escapes(s) /\ ByteAt(s, i + 3 * k) \notin Unreserved
           /\ Term(s, i) = FlattenSeq([k \in 1..(1 + m) |-> Escape(ByteAt(s, i + 3 * (k - 1)))])
<1> DEFINE m == Following(ByteAt(s, i))
           bytes == BytesAt(s, i)
<1>1. m \in 0..3
  BY DEF Following
<1>2. Length(s, i) = 3 * (1 + m)
  BY DEF Length
<1>3. bytes = [k \in 1..(1 + m) |-> ByteAt(s, i + 3 * (k - 1))]
  BY DEF BytesAt
<1>4. /\ \A j \in 1..Len(s) : s[j] = Percent => j \in Escapes(s) /\ ByteAt(s, j) \notin Unreserved
      /\ i \in Escapes(s) /\ ByteAt(s, i) <= 247 /\ {i + 3 * k : k \in 1..m} \subseteq Escapes(s)
  <2>1. DOMAIN s = 1..Len(s)
    OBVIOUS
  <2>2. QED BY <2>1 DEF Proper
<1>5. \A j \in Escapes(s) : IsEscape(s, j) /\ s[j] = Percent /\ j \in 1..Len(s)
  BY DEF Escapes, IsEscape
<1> HIDE DEF m, bytes
<1>6. \A k \in 1..m : i + 3 * k \in Escapes(s)
  BY <1>4
<1>7. \A k \in 0..m : i + 3 * k \in Escapes(s)
  <2> TAKE k \in 0..m
  <2>1. k = 0 \/ k \in 1..m
    BY <1>1
  <2>2. k = 0 => i + 3 * k = i
    OBVIOUS
  <2>3. QED BY <1>4, <1>6, <2>1, <2>2
<1>8. \A k \in 0..m : ByteAt(s, i + 3 * k) \notin Unreserved
  BY <1>4, <1>5, <1>7
<1>9. DOMAIN bytes = 1..(1 + m) /\ \A k \in 1..(1 + m) : bytes[k] = ByteAt(s, i + 3 * (k - 1)) /\ bytes[k] \notin Unreserved
  <2>1. \A k \in 1..(1 + m) : k - 1 \in 0..m
    BY <1>1
  <2>2. \A k \in 1..(1 + m) : ByteAt(s, i + 3 * (k - 1)) \notin Unreserved
    BY <1>8, <2>1
  <2>3. QED BY <1>3, <2>2
<1>10. 1 \in 1..(1 + m) /\ i + 3 * (1 - 1) = i
  BY <1>1
<1>11. bytes[1] = ByteAt(s, i) /\ bytes[1] \notin Unreserved
  BY <1>9, <1>10
<1>12. Term(s, i) = FlattenSeq([k \in DOMAIN bytes |-> Escape(bytes[k])])
  BY <1>11 DEF Term, bytes
<1>13. [k \in DOMAIN bytes |-> Escape(bytes[k])] = [k \in 1..(1 + m) |-> Escape(ByteAt(s, i + 3 * (k - 1)))]
  BY <1>9
<1>14. Wellformed(s, i)
  BY <1>4, <1>5, <1>6 DEF Wellformed, m
<1>15. ~Bad(s, i)
  <2>1. ByteAt(s, i) \in Nat
    <3>1. s \in Seq(Nat) /\ IsEscape(s, i)
      BY <1>4, <1>5, CharsAreNumbers
    <3>2. QED BY <3>1, EscapedByte
  <2>2. QED BY <1>4, <1>11, <1>14, <2>1 DEF Bad, bytes
<1>16. QED BY <1>1, <1>2, <1>7, <1>8, <1>12, <1>13, <1>15

LEMMA EscapesAre ==
  ASSUME NEW s, NEW j \in Escapes(s), s \in Seq(Nat)
  PROVE  /\ j \in 1..Len(s) /\ j + 2 <= Len(s) /\ s[j] = Percent
         /\ j + 1 \notin Escapes(s) /\ j + 2 \notin Escapes(s)
         /\ ByteAt(s, j) \in Nat
<1>1. /\ j \in 1..Len(s) /\ j + 2 <= Len(s) /\ s[j] = Percent
      /\ s[j + 1] \in HexDigits /\ s[j + 2] \in HexDigits /\ IsEscape(s, j)
  BY DEF Escapes, IsEscape
<1>2. Percent \notin HexDigits
  BY DEF Percent, HexDigits
<1>3. \A i \in Escapes(s) : s[i] = Percent
  BY DEF Escapes, IsEscape
<1>4. ByteAt(s, j) \in Nat
  BY <1>1, EscapedByte
<1>5. QED BY <1>1, <1>2, <1>3, <1>4

LEMMA PieceType ==
  ASSUME NEW s \in Seq(Nat), NEW i \in 1..Len(s)
  PROVE  PieceAt(s, i) \in Seq(Nat)
<1>1. CASE i \in Escapes(s)
  <2>1. ByteAt(s, i) \in Nat
    BY <1>1, EscapesAre
  <2>2. QED BY <1>1, <2>1 DEF PieceAt
<1>2. CASE i \notin Escapes(s) /\ {i - 1, i - 2} \cap Escapes(s) # {}
  BY <1>2 DEF PieceAt
<1>3. CASE i \notin Escapes(s) /\ ~ ({i - 1, i - 2} \cap Escapes(s) # {})
  <2>1. s[i] \in Nat
    OBVIOUS
  <2>2. Utf8(s[i]) \in Seq(Nat)
    BY <2>1, Utf8Type
  <2>3. PieceAt(s, i) = Utf8(s[i])
    BY <1>3, Zenon DEF PieceAt
  <2>4. QED BY <2>2, <2>3
<1>4. QED BY <1>1, <1>2, <1>3

\* The spellings of the pieces from a place on.
Spellings(s) == [i \in 1..Len(s) |-> Spelled(PieceAt(s, i))]
SpelledFrom(s, i) == FlattenSeq(SubSeq(Spellings(s), i, Len(s)))

LEMMA SpelledFromIs ==
  ASSUME NEW s \in Seq(Nat)
  PROVE  /\ SpelledFrom(s, Len(s) + 1) = <<>>
         /\ SpelledFrom(s, 1) = Spelled(BytesOf(s))
         /\ \A i \in 1..(Len(s) + 1) : SpelledFrom(s, i) \in Seq(TermChars)
         /\ \A i \in 1..Len(s) : SpelledFrom(s, i) = Spelled(PieceAt(s, i)) \o SpelledFrom(s, i + 1)
<1> DEFINE n == Len(s)
           p == Spellings(s)
           q == [i \in DOMAIN s |-> PieceAt(s, i)]
<1>1. n \in Nat /\ DOMAIN s = 1..n
  OBVIOUS
<1>2. q \in Seq(Seq(Nat)) /\ Len(q) = n /\ \A i \in 1..n : q[i] = PieceAt(s, i)
  <2> DEFINE S == Seq(Nat)
  <2>1. \A i \in 1..n : PieceAt(s, i) \in S
    BY PieceType
  <2> HIDE DEF S, n
  <2>2. q \in Seq(S) /\ Len(q) = n /\ \A i \in 1..n : q[i] = PieceAt(s, i)
    BY <1>1, <2>1
  <2>3. QED BY <2>2 DEF S
<1>3. p \in Seq(Seq(TermChars)) /\ Len(p) = n /\ \A i \in 1..n : p[i] = Spelled(PieceAt(s, i))
  <2> DEFINE S == Seq(TermChars)
  <2>1. \A i \in 1..n : Spelled(PieceAt(s, i)) \in S
    BY PieceType, SpelledType
  <2> HIDE DEF S, n
  <2>2. p \in Seq(S) /\ Len(p) = n /\ \A i \in 1..n : p[i] = Spelled(PieceAt(s, i))
    BY <1>1, <2>1 DEF Spellings, n
  <2>3. QED BY <2>2 DEF S
<1> HIDE DEF p, q, n
<1>4. SpelledFrom(s, n + 1) = <<>>
  BY <1>1, FlattenOfNone DEF SpelledFrom, n
<1>5. SpelledFrom(s, 1) = Spelled(BytesOf(s))
  <2>1. SubSeq(p, 1, n) = p
    BY <1>3, SubSeqFull
  <2>2. Spelled(FlattenSeq(q)) = FlattenSeq(p)
    BY <1>2, <1>3, SpelledFlatten
  <2>3. FlattenSeq(q) = BytesOf(s)
    BY BytesOfIs DEF q
  <2>4. QED BY <2>1, <2>2, <2>3 DEF SpelledFrom, p, n
<1>6. ASSUME NEW i \in 1..n
      PROVE  /\ SpelledFrom(s, i) = Spelled(PieceAt(s, i)) \o SpelledFrom(s, i + 1)
             /\ SpelledFrom(s, i + 1) \in Seq(TermChars) /\ Spelled(PieceAt(s, i)) \in Seq(TermChars)
  <2>1. i \in 1..Len(p)
    BY <1>3
  <2>2. /\ FlattenSeq(SubSeq(p, i, Len(p))) = p[i] \o FlattenSeq(SubSeq(p, i + 1, Len(p)))
        /\ p[i] \in Seq(TermChars) /\ FlattenSeq(SubSeq(p, i + 1, Len(p))) \in Seq(TermChars)
    BY <1>3, <2>1, FlattenFrom
  <2>3. QED BY <1>3, <2>2 DEF SpelledFrom, p, n
<1>7. ASSUME NEW i \in 1..(n + 1) PROVE SpelledFrom(s, i) \in Seq(TermChars)
  <2>1. CASE i = n + 1
    <3>1. <<>> \in Seq(TermChars)
      OBVIOUS
    <3>2. QED BY <1>4, <2>1, <3>1
  <2>2. CASE i # n + 1
    <3>1. i \in 1..n
      BY <1>1, <2>2
    <3>2. \A x, y \in Seq(TermChars) : x \o y \in Seq(TermChars)
      BY ConcatProperties
    <3>3. QED BY <1>6, <3>1, <3>2
  <2>3. QED BY <2>1, <2>2
<1>8. QED BY <1>4, <1>5, <1>6, <1>7 DEF n

\* An escape is spelled by its byte, whatever the case of its digits.
LEMMA SpelledEscape ==
  ASSUME NEW s \in Seq(Nat), NEW j \in Escapes(s), ByteAt(s, j) \notin Unreserved
  PROVE  /\ SpelledFrom(s, j) = Escape(ByteAt(s, j)) \o SpelledFrom(s, j + 3)
         /\ j \in 1..Len(s) /\ j + 3 \in 1..(Len(s) + 1) /\ Escape(ByteAt(s, j)) \in Seq(TermChars)
<1>1. /\ j \in 1..Len(s) /\ j + 2 <= Len(s)
      /\ j + 1 \notin Escapes(s) /\ j + 2 \notin Escapes(s)
      /\ ByteAt(s, j) \in Nat
  BY EscapesAre
<1>2. j \in 1..Len(s) /\ j + 1 \in 1..Len(s) /\ j + 2 \in 1..Len(s) /\ j + 3 \in 1..(Len(s) + 1)
  BY <1>1
<1>3. PieceAt(s, j) = <<ByteAt(s, j)>>
  BY DEF PieceAt
<1>4. Spelled(PieceAt(s, j)) = Escape(ByteAt(s, j))
  BY <1>1, <1>3, SpelledOne DEF Spell
<1>5. PieceAt(s, j + 1) = <<>>
  <2>1. {(j + 1) - 1, (j + 1) - 2} \cap Escapes(s) # {}
    <3>1. (j + 1) - 1 = j
      BY <1>1
    <3>2. QED BY <3>1
  <2>2. QED BY <1>1, <2>1, Zenon DEF PieceAt
<1>6. PieceAt(s, j + 2) = <<>>
  <2>1. {(j + 2) - 1, (j + 2) - 2} \cap Escapes(s) # {}
    <3>1. (j + 2) - 2 = j
      BY <1>1
    <3>2. QED BY <3>1
  <2>2. QED BY <1>1, <2>1, Zenon DEF PieceAt
<1>7. \A i \in 1..(Len(s) + 1) : SpelledFrom(s, i) \in Seq(TermChars)
  BY SpelledFromIs
<1>8. /\ SpelledFrom(s, j) = Escape(ByteAt(s, j)) \o SpelledFrom(s, j + 1)
      /\ SpelledFrom(s, j + 1) = <<>> \o SpelledFrom(s, j + 2)
      /\ SpelledFrom(s, j + 2) = <<>> \o SpelledFrom(s, j + 3)
  <2>1. \A i \in 1..Len(s) : SpelledFrom(s, i) = Spelled(PieceAt(s, i)) \o SpelledFrom(s, i + 1)
    BY SpelledFromIs
  <2>2. (j + 1) + 1 = j + 2 /\ (j + 2) + 1 = j + 3
    BY <1>1
  <2>3. QED BY <1>2, <1>4, <1>5, <1>6, <2>1, <2>2, SpelledNone
<1>9. \A x \in Seq(TermChars) : <<>> \o x = x
  BY ConcatEmptySeq
<1>10. SpelledFrom(s, j + 2) \in Seq(TermChars) /\ SpelledFrom(s, j + 3) \in Seq(TermChars)
  <2>1. j + 2 \in 1..(Len(s) + 1)
    BY <1>1
  <2>2. QED BY <1>2, <1>7, <2>1
<1>11. Escape(ByteAt(s, j)) \in Seq(TermChars)
  BY <1>1, EscapeType, SeqMonotonic DEF TermChars
<1>12. QED BY <1>2, <1>8, <1>9, <1>10, <1>11

\* One character, at the place of its first byte.
LEMMA OneTerm ==
  ASSUME NEW s \in Seq(Chars), Proper(s), NEW i \in 1..Len(s), {i - 1, i - 2} \cap Escapes(s) = {}
  PROVE  /\ ~Bad(s, i) /\ i + Length(s, i) \in (i + 1)..(Len(s) + 1)
         /\ {(i + Length(s, i)) - 1, (i + Length(s, i)) - 2} \cap Escapes(s) = {}
         /\ SpelledFrom(s, i) = Term(s, i) \o SpelledFrom(s, i + Length(s, i))
<1>0. s \in Seq(Nat)
  BY CharsAreNumbers
<1>1. CASE s[i] # Percent
  <2>1. ~Bad(s, i) /\ Length(s, i) = 1 /\ Term(s, i) = Spelled(Utf8(s[i]))
    BY <1>1, PlainTerm
  <2>2. i \notin Escapes(s)
    BY <1>1 DEF Escapes, IsEscape
  <2>3. PieceAt(s, i) = Utf8(s[i])
    <3>1. ~ ({i - 1, i - 2} \cap Escapes(s) # {})
      OBVIOUS
    <3>2. QED BY <2>2, <3>1, Zenon DEF PieceAt
  <2>4. SpelledFrom(s, i) = Spelled(PieceAt(s, i)) \o SpelledFrom(s, i + 1)
    BY <1>0, SpelledFromIs
  <2>5. {(i + 1) - 1, (i + 1) - 2} \cap Escapes(s) = {}
    <3>1. (i + 1) - 1 = i /\ (i + 1) - 2 = i - 1
      OBVIOUS
    <3>2. i - 1 \notin Escapes(s)
      OBVIOUS
    <3>3. QED BY <2>2, <3>1, <3>2
  <2>6. QED BY <2>1, <2>3, <2>4, <2>5
<1>2. CASE s[i] = Percent
  <2>1. PICK m \in 0..3 :
           /\ ~Bad(s, i) /\ Length(s, i) = 3 * (1 + m)
           /\ \A k \in 0..m : i + 3 * k \in Escapes(s) /\ ByteAt(s, i + 3 * k) \notin Unreserved
           /\ Term(s, i) = FlattenSeq([k \in 1..(1 + m) |-> Escape(ByteAt(s, i + 3 * (k - 1)))])
    BY <1>2, EscapedTerm
  <2> DEFINE n == 1 + m
             q == [k \in 1..n |-> Escape(ByteAt(s, i + 3 * (k - 1)))]
             S == Seq(TermChars)
  <2>2. n \in 1..4 /\ n \in Nat /\ m \in 0..m /\ n = 1 + m
    OBVIOUS
  <2>3. ASSUME NEW k \in 1..n
        PROVE  /\ i + 3 * (k - 1) \in Escapes(s)
               /\ SpelledFrom(s, i + 3 * (k - 1)) = q[k] \o SpelledFrom(s, i + 3 * k)
               /\ i + 3 * k \in 1..(Len(s) + 1) /\ q[k] \in S
    <3> DEFINE j == i + 3 * (k - 1)
    <3>1. k - 1 \in 0..m /\ j + 3 = i + 3 * k /\ k \in Nat
      BY <2>2
    <3>2. j \in Escapes(s) /\ ByteAt(s, j) \notin Unreserved
      BY <2>1, <3>1
    <3>3. q[k] = Escape(ByteAt(s, j))
      OBVIOUS
    <3> HIDE DEF j, q
    <3>4. /\ SpelledFrom(s, j) = Escape(ByteAt(s, j)) \o SpelledFrom(s, j + 3)
          /\ j + 3 \in 1..(Len(s) + 1) /\ Escape(ByteAt(s, j)) \in Seq(TermChars)
      BY <1>0, <3>2, SpelledEscape
    <3>5. QED BY <3>1, <3>2, <3>3, <3>4 DEF j
  <2>4. q \in Seq(S) /\ Len(q) = n
    <3>1. q = [k \in 1..n |-> q[k]]
      OBVIOUS
    <3>2. \A k \in 1..n : q[k] \in S
      BY <2>3
    <3> HIDE DEF q, n, S
    <3>3. q \in [1..n -> S] /\ n \in Nat
      BY <2>2, <3>1, <3>2
    <3>4. QED BY <3>3
  <2> HIDE DEF q, n
  <2>5. PICK g : /\ g \in [0..Len(q) -> Seq(TermChars)] /\ g[0] = <<>>
                 /\ \A k \in 1..Len(q) : g[k] = g[k - 1] \o q[k]
                 /\ FlattenSeq(q) = g[Len(q)]
    BY <2>4, FlattenIs
  <2> DEFINE T == {k \in 0..n : SpelledFrom(s, i) = g[k] \o SpelledFrom(s, i + 3 * k)}
  <2>6. \A x \in 1..(Len(s) + 1) : SpelledFrom(s, x) \in S
    BY <1>0, SpelledFromIs
  <2>7. 0 \in T
    <3>1. i + 3 * 0 = i /\ i \in 1..(Len(s) + 1) /\ 0 \in 0..n
      BY <2>2
    <3>2. <<>> \o SpelledFrom(s, i) = SpelledFrom(s, i)
      BY <2>6, <3>1, ConcatEmptySeq
    <3>3. QED BY <2>5, <3>1, <3>2
  <2>8. ASSUME NEW k \in 0..(n - 1), k \in T PROVE k + 1 \in T
    <3>1. k + 1 \in 1..n /\ (k + 1) - 1 = k /\ k \in 0..n /\ k + 1 \in 0..n
      BY <2>2
    <3>2. SpelledFrom(s, i) = g[k] \o SpelledFrom(s, i + 3 * k)
      BY <2>8
    <3>3. /\ SpelledFrom(s, i + 3 * k) = q[k + 1] \o SpelledFrom(s, i + 3 * (k + 1))
          /\ q[k + 1] \in S /\ i + 3 * (k + 1) \in 1..(Len(s) + 1)
      BY <2>3, <3>1
    <3>4. g[k] \in S /\ g[k + 1] = g[k] \o q[k + 1]
      BY <2>4, <2>5, <3>1
    <3>5. SpelledFrom(s, i + 3 * (k + 1)) \in S
      BY <2>6, <3>3
    <3>6. \A x, y, z \in S : (x \o y) \o z = x \o (y \o z)
      BY ConcatAssociative, SMTT(40)
    <3>7. (g[k] \o q[k + 1]) \o SpelledFrom(s, i + 3 * (k + 1)) = g[k] \o (q[k + 1] \o SpelledFrom(s, i + 3 * (k + 1)))
      BY <3>3, <3>4, <3>5, <3>6
    <3> HIDE DEF S
    <3>8. QED BY <3>1, <3>2, <3>3, <3>4, <3>7
  <2> HIDE DEF T
  <2>9. \A k \in 0..n : k \in T
    BY <2>2, <2>7, <2>8, Induction
  <2>10. n \in T
    BY <2>2, <2>9
  <2>11. SpelledFrom(s, i) = Term(s, i) \o SpelledFrom(s, i + 3 * n)
    BY <2>1, <2>4, <2>5, <2>10 DEF T, q, n
  <2>12. i + Length(s, i) = i + 3 * n
    BY <2>1, <2>2
  <2>13. i + 3 * n \in (i + 1)..(Len(s) + 1)
    <3>1. n \in 1..n
      BY <2>2
    <3>2. i + 3 * n \in 1..(Len(s) + 1)
      BY <2>3, <3>1
    <3>3. QED BY <2>2, <3>2
  <2>14. {(i + 3 * n) - 1, (i + 3 * n) - 2} \cap Escapes(s) = {}
    <3> DEFINE j == i + 3 * (n - 1)
    <3>1. n \in 1..n
      BY <2>2
    <3>2. j \in Escapes(s)
      BY <2>3, <3>1
    <3>3. (i + 3 * n) - 1 = j + 2 /\ (i + 3 * n) - 2 = j + 1
      BY <2>2
    <3> HIDE DEF j
    <3>4. j + 1 \notin Escapes(s) /\ j + 2 \notin Escapes(s)
      BY <1>0, <3>2, EscapesAre
    <3>5. QED BY <3>3, <3>4
  <2>15. QED BY <2>1, <2>11, <2>12, <2>13, <2>14
<1>3. QED BY <1>1, <1>2

\* normalize_term spells the bytes of a proper text in the one way there is.
LEMMA ProperTerm ==
  ASSUME NEW s \in Seq(Chars), Proper(s)
  PROVE  normalize_term(s) = Spelled(BytesOf(s))
<1>0. s \in Seq(Nat) /\ Len(s) \in Nat
  BY CharsAreNumbers
<1>1. PICK f : /\ f \in [1..(Len(s) + 1) -> Terms]
               /\ f[Len(s) + 1] = [bad |-> FALSE, text |-> <<>>]
               /\ \A i \in 1..Len(s) : Bad(s, i) => f[i].bad
               /\ \A i \in 1..Len(s) : ~Bad(s, i) =>
                     /\ f[i].bad = f[i + Length(s, i)].bad
                     /\ f[i].text = Term(s, i) \o f[i + Length(s, i)].text
               /\ normalize_term(s) = IF f[1].bad THEN <<>> ELSE f[1].text
  BY <1>0, TermsAre
<1> DEFINE n == Len(s)
           T == {i \in 1..(n + 1) : {i - 1, i - 2} \cap Escapes(s) = {} =>
                                      ~f[i].bad /\ f[i].text = SpelledFrom(s, i)}
<1>2. n + 1 \in T
  <2>1. SpelledFrom(s, n + 1) = <<>>
    BY <1>0, SpelledFromIs
  <2>2. ~f[n + 1].bad /\ f[n + 1].text = <<>>
    BY <1>1
  <2>3. n + 1 \in 1..(n + 1)
    BY <1>0
  <2>4. QED BY <2>1, <2>2, <2>3
<1>3. ASSUME NEW i \in 1..n, \A j \in (i + 1)..(n + 1) : j \in T PROVE i \in T
  <2> SUFFICES ASSUME {i - 1, i - 2} \cap Escapes(s) = {}
               PROVE  ~f[i].bad /\ f[i].text = SpelledFrom(s, i)
    BY <1>0
  <2>1. /\ ~Bad(s, i) /\ i + Length(s, i) \in (i + 1)..(Len(s) + 1)
        /\ {(i + Length(s, i)) - 1, (i + Length(s, i)) - 2} \cap Escapes(s) = {}
        /\ SpelledFrom(s, i) = Term(s, i) \o SpelledFrom(s, i + Length(s, i))
    BY OneTerm
  <2>2. f[i].bad = f[i + Length(s, i)].bad /\ f[i].text = Term(s, i) \o f[i + Length(s, i)].text
    BY <1>1, <2>1
  <2>3. i + Length(s, i) \in T
    BY <1>3, <2>1
  <2>4. ~f[i + Length(s, i)].bad /\ f[i + Length(s, i)].text = SpelledFrom(s, i + Length(s, i))
    BY <2>1, <2>3
  <2>5. QED BY <2>1, <2>2, <2>4
<1>4. \A i \in 1..(n + 1) : i \in T
  <2> HIDE DEF T
  <2>1. QED BY <1>0, <1>2, <1>3, DownwardInduction
<1>5. 1 \in T /\ {1 - 1, 1 - 2} \cap Escapes(s) = {}
  <2>1. 1 \in 1..(n + 1)
    BY <1>0
  <2>2. \A j \in Escapes(s) : j \in 1..Len(s)
    BY <1>0, EscapesAre
  <2>3. QED BY <1>4, <2>1, <2>2
<1>6. ~f[1].bad /\ f[1].text = SpelledFrom(s, 1)
  BY <1>5
<1>7. QED BY <1>0, <1>1, <1>6, SpelledFromIs

-------------------------------------------------------------------------------
\* Counting up to a place, and from one place to another.
UpTo(X, j) == Cardinality(X \cap (1..j))
Between(X, i, j) == Cardinality(X \cap ((i + 1)..j))

LEMMA CountUpTo ==
  ASSUME NEW X, NEW i \in Nat, NEW j \in Nat, i <= j
  PROVE  UpTo(X, j) = UpTo(X, i) + Between(X, i, j) /\ UpTo(X, i) \in Nat /\ Between(X, i, j) \in Nat
<1> DEFINE a == X \cap (1..i)
           b == X \cap ((i + 1)..j)
           c == X \cap (1..j)
<1>1. IsFiniteSet(1..i) /\ IsFiniteSet((i + 1)..j)
  BY FS_Interval
<1>2. a \subseteq 1..i /\ b \subseteq (i + 1)..j
  OBVIOUS
<1>3. c = a \cup b /\ a \cap b = {}
  OBVIOUS
<1> HIDE DEF a, b, c
<1>4. IsFiniteSet(a) /\ IsFiniteSet(b)
  BY <1>1, <1>2, FS_Subset
<1>5. Cardinality(a) \in Nat /\ Cardinality(b) \in Nat
  BY <1>4, FS_CardinalityType
<1>6. Cardinality(a \cup b) = Cardinality(a) + Cardinality(b) - Cardinality(a \cap b)
  BY <1>4, FS_Union, Zenon
<1>7. Cardinality(c) = Cardinality(a \cup b) /\ Cardinality(a \cap b) = 0
  BY <1>3, FS_EmptySet, Zenon
<1>8. Cardinality(c) = Cardinality(a) + Cardinality(b)
  BY <1>5, <1>6, <1>7
<1>9. QED BY <1>5, <1>8 DEF a, b, c, UpTo, Between

LEMMA CountOneMore ==
  ASSUME NEW X, NEW k \in Nat
  PROVE  UpTo(X, k + 1) = UpTo(X, k) + (IF k + 1 \in X THEN 1 ELSE 0) /\ UpTo(X, k) \in Nat
<1>1. k + 1 \in Nat /\ k <= k + 1
  OBVIOUS
<1>2. UpTo(X, k + 1) = UpTo(X, k) + Between(X, k, k + 1) /\ UpTo(X, k) \in Nat
  BY <1>1, CountUpTo
<1>3. CASE k + 1 \in X
  <2>1. X \cap ((k + 1)..(k + 1)) = {k + 1}
    BY <1>3
  <2>2. Cardinality({k + 1}) = 1
    BY FS_Singleton
  <2>3. Between(X, k, k + 1) = 1
    BY <2>1, <2>2, Zenon DEF Between
  <2>4. QED BY <1>2, <1>3, <2>3
<1>4. CASE k + 1 \notin X
  <2>1. X \cap ((k + 1)..(k + 1)) = {}
    BY <1>4
  <2>2. Between(X, k, k + 1) = 0
    BY <2>1, FS_EmptySet, Zenon DEF Between
  <2>3. QED BY <1>2, <1>4, <2>2
<1>5. QED BY <1>3, <1>4

-------------------------------------------------------------------------------
\* Pieces one after the other, those of some places only.
Laid(pieces, at) == FlattenSeq([i \in DOMAIN pieces |-> IF i \in at THEN pieces[i] ELSE <<>>])

Lays(f, A, p, at) ==
  /\ f \in [0..Len(p) -> Seq(A)] /\ f[0] = <<>>
  /\ \A i \in 1..Len(p) : f[i] = IF i \in at THEN f[i - 1] \o p[i] ELSE f[i - 1]
  /\ Laid(p, at) = f[Len(p)]

LEMMA LaidIs ==
  ASSUME NEW A, NEW p \in Seq(Seq(A)), NEW at
  PROVE  \E f : Lays(f, A, p, at)
<1> DEFINE S == Seq(A)
           n == Len(p)
           q == [i \in DOMAIN p |-> IF i \in at THEN p[i] ELSE <<>>]
<1>1. DOMAIN p = 1..n /\ n \in Nat /\ <<>> \in S /\ \A i \in 1..n : p[i] \in S
  BY ElementOfSeq
<1> HIDE DEF S, n
<1>2. q \in Seq(S) /\ Len(q) = n /\ \A i \in 1..n : q[i] = IF i \in at THEN p[i] ELSE <<>>
  <2>1. \A i \in 1..n : (IF i \in at THEN p[i] ELSE <<>>) \in S
    BY <1>1
  <2>2. QED BY <1>1, <2>1
<1> HIDE DEF q
<1>3. PICK f : /\ f \in [0..n -> S] /\ f[0] = <<>>
               /\ \A i \in 1..n : f[i] = f[i - 1] \o q[i]
               /\ FlattenSeq(q) = f[n]
  BY <1>2, FlattenIs DEF S
<1>4. ASSUME NEW i \in 1..n PROVE f[i] = IF i \in at THEN f[i - 1] \o p[i] ELSE f[i - 1]
  <2>1. i - 1 \in 0..n
    BY <1>1
  <2>2. f[i - 1] \in S
    BY <1>3, <2>1
  <2>3. f[i - 1] \o <<>> = f[i - 1]
    BY <2>2, ConcatEmptySeq DEF S
  <2>4. QED BY <1>2, <1>3, <2>3
<1>5. Laid(p, at) = f[n]
  BY <1>3 DEF Laid, q
<1>6. QED BY <1>3, <1>4, <1>5 DEF S, n, Lays

LEMMA LaidNone ==
  ASSUME NEW A, NEW p \in Seq(Seq(A)), NEW at, at \cap (1..Len(p)) = {}
  PROVE  Laid(p, at) = <<>>
<1> DEFINE n == Len(p)
<1>1a. PICK f : Lays(f, A, p, at)
  BY LaidIs
<1>1. /\ f \in [0..n -> Seq(A)] /\ f[0] = <<>>
      /\ \A i \in 1..n : f[i] = IF i \in at THEN f[i - 1] \o p[i] ELSE f[i - 1]
      /\ Laid(p, at) = f[n]
  BY <1>1a DEF Lays
<1>2. n \in Nat
  OBVIOUS
<1>3. \A i \in 1..n : f[i] = f[i - 1]
  BY <1>1
<1> HIDE DEF n
<1> DEFINE T == {k \in 0..n : f[k] = <<>>}
<1>4. 0 \in T
  BY <1>1, <1>2
<1>5. ASSUME NEW k \in 0..(n - 1), k \in T PROVE k + 1 \in T
  <2>1. k + 1 \in 1..n /\ (k + 1) - 1 = k /\ k + 1 \in 0..n
    BY <1>2
  <2>2. QED BY <1>3, <1>5, <2>1
<1> HIDE DEF T
<1>6. \A k \in 0..n : k \in T
  BY <1>2, <1>4, <1>5, Induction
<1>7. n \in T
  BY <1>2, <1>6
<1>8. QED BY <1>1, <1>7 DEF T

\* One more place behind the others.
LEMMA LaidMore ==
  ASSUME NEW A, NEW p \in Seq(Seq(A)), NEW t \in 1..Len(p), NEW at, at \subseteq 1..(t - 1)
  PROVE  Laid(p, at \cup {t}) = Laid(p, at) \o p[t]
<1> DEFINE n == Len(p)
           S == Seq(A)
           more == at \cup {t}
<1>1. n \in Nat /\ p[t] \in S /\ t \in 1..n
  BY ElementOfSeq
<1>2a. PICK f : Lays(f, A, p, at)
  BY LaidIs
<1>2. /\ f \in [0..n -> S] /\ f[0] = <<>>
      /\ \A i \in 1..n : f[i] = IF i \in at THEN f[i - 1] \o p[i] ELSE f[i - 1]
      /\ Laid(p, at) = f[n]
  BY <1>2a DEF Lays
<1>3a. PICK g : Lays(g, A, p, more)
  BY LaidIs
<1>3. /\ g \in [0..n -> S] /\ g[0] = <<>>
      /\ \A i \in 1..n : g[i] = IF i \in more THEN g[i - 1] \o p[i] ELSE g[i - 1]
      /\ Laid(p, more) = g[n]
  BY <1>3a DEF Lays
<1>4. /\ \A i \in 1..n : i < t => (i \in more <=> i \in at)
      /\ t \in more /\ t \notin at
      /\ \A i \in 1..n : i > t => i \notin more /\ i \notin at
  OBVIOUS
<1> HIDE DEF n, S, more
<1> DEFINE T == {k \in 0..n : g[k] = IF k < t THEN f[k] ELSE f[k] \o p[t]}
<1>5. 0 \in T
  <2>1. 0 < t /\ 0 \in 0..n
    BY <1>1
  <2>2. QED BY <1>2, <1>3, <2>1
<1>6. ASSUME NEW k \in 0..(n - 1), k \in T PROVE k + 1 \in T
  <2>1. k + 1 \in 1..n /\ (k + 1) - 1 = k /\ k + 1 \in 0..n
    BY <1>1
  <2>2. g[k] = IF k < t THEN f[k] ELSE f[k] \o p[t]
    BY <1>6
  <2>3. /\ f[k + 1] = IF k + 1 \in at THEN f[k] \o p[k + 1] ELSE f[k]
        /\ g[k + 1] = IF k + 1 \in more THEN g[k] \o p[k + 1] ELSE g[k]
    BY <1>2, <1>3, <2>1
  <2>4. CASE k + 1 < t
    <3>1. k < t /\ (k + 1 \in more <=> k + 1 \in at)
      BY <1>1, <1>4, <2>1, <2>4
    <3>2. g[k + 1] = f[k + 1]
      BY <2>2, <2>3, <3>1
    <3>3. QED BY <2>1, <2>4, <3>2
  <2>5. CASE k + 1 = t
    <3>1. k < t /\ k + 1 \in more /\ k + 1 \notin at /\ ~ (k + 1 < t)
      BY <1>1, <1>4, <2>5
    <3>2. g[k + 1] = f[k + 1] \o p[t]
      BY <2>2, <2>3, <2>5, <3>1
    <3>3. QED BY <2>1, <3>1, <3>2
  <2>6. CASE k + 1 > t
    <3>1. ~ (k < t) /\ ~ (k + 1 < t) /\ k + 1 \notin more /\ k + 1 \notin at
      BY <1>1, <1>4, <2>1, <2>6
    <3>2. g[k + 1] = f[k + 1] \o p[t]
      BY <2>2, <2>3, <3>1
    <3>3. QED BY <2>1, <3>1, <3>2
  <2>7. QED BY <1>1, <2>1, <2>4, <2>5, <2>6
<1> HIDE DEF T
<1>7. \A k \in 0..n : k \in T
  BY <1>1, <1>5, <1>6, Induction
<1>8. n \in T /\ ~ (n < t)
  BY <1>1, <1>7
<1>9. g[n] = f[n] \o p[t]
  BY <1>8 DEF T
<1>10. QED BY <1>2, <1>3, <1>9 DEF more

-------------------------------------------------------------------------------
\* The segments that are names, and those that take one away.  Balance is how many more
\* names than ".." there are up to a place; a name stays up to place k while it does not
\* fall below what it was at the name.
DotsIn(segments) == {i \in DOMAIN segments : segments[i] = <<Dot, Dot>>}
NamesIn(segments) == {i \in DOMAIN segments : segments[i] # <<Dot>>} \ DotsIn(segments)
Balance(segments, k) == UpTo(NamesIn(segments), k) - UpTo(DotsIn(segments), k)
LeftAt(segments, k) ==
  {i \in NamesIn(segments) : /\ i <= k
                             /\ \A j \in DotsIn(segments) : i < j /\ j <= k => Balance(segments, i) <= Balance(segments, j)}

LEMMA LeftIs ==
  ASSUME NEW A, NEW segments \in Seq(A)
  PROVE  Left(segments) = LeftAt(segments, Len(segments))
<1> DEFINE dots == DotsIn(segments)
           names == NamesIn(segments)
           n == Len(segments)
<1>1. dots \subseteq 1..n /\ names \subseteq 1..n /\ n \in Nat
  BY DEF DotsIn, NamesIn
<1>2. Left(segments) = {i \in names : \A j \in dots : j > i => Between(dots, i, j) <= Between(names, i, j)}
  BY Zenon DEF Left, DotsIn, NamesIn, Between
<1>3. \A k : Balance(segments, k) = UpTo(names, k) - UpTo(dots, k)
  BY DEF Balance
<1> HIDE DEF dots, names, n
<1>4. ASSUME NEW i \in names, NEW j \in dots, j > i
      PROVE  Between(dots, i, j) <= Between(names, i, j) <=> Balance(segments, i) <= Balance(segments, j)
  <2>1. i \in Nat /\ j \in Nat /\ i <= j
    BY <1>1, <1>4
  <2>2. UpTo(dots, j) = UpTo(dots, i) + Between(dots, i, j) /\ UpTo(dots, i) \in Nat /\ Between(dots, i, j) \in Nat
    BY <2>1, CountUpTo
  <2>3. UpTo(names, j) = UpTo(names, i) + Between(names, i, j) /\ UpTo(names, i) \in Nat /\ Between(names, i, j) \in Nat
    BY <2>1, CountUpTo
  <2>4. QED BY <1>3, <2>2, <2>3
<1>5. LeftAt(segments, n) =
        {i \in names : i <= n /\ \A j \in dots : i < j /\ j <= n => Balance(segments, i) <= Balance(segments, j)}
  BY DEF LeftAt, names, dots
<1>6. ASSUME NEW i \in names
      PROVE  (\A j \in dots : j > i => Between(dots, i, j) <= Between(names, i, j)) <=>
             (i <= n /\ \A j \in dots : i < j /\ j <= n => Balance(segments, i) <= Balance(segments, j))
  <2>1. i <= n /\ i \in Nat /\ \A j \in dots : j <= n /\ j \in Nat
    BY <1>1
  <2>2. \A j \in dots : j > i <=> i < j
    BY <2>1
  <2>3. QED BY <1>4, <2>1, <2>2
<1>7. QED BY <1>2, <1>5, <1>6 DEF n

LEMMA BalanceIs ==
  ASSUME NEW A, NEW segments \in Seq(A), NEW k \in 0..(Len(segments) - 1)
  PROVE  /\ Balance(segments, k) \in Int /\ Balance(segments, k + 1) \in Int
         /\ k + 1 \in NamesIn(segments) => Balance(segments, k + 1) = Balance(segments, k) + 1
         /\ k + 1 \in DotsIn(segments) => Balance(segments, k + 1) = Balance(segments, k) - 1
         /\ k + 1 \notin NamesIn(segments) /\ k + 1 \notin DotsIn(segments) =>
              Balance(segments, k + 1) = Balance(segments, k)
<1>1. k \in Nat
  OBVIOUS
<1>2. ~ (k + 1 \in NamesIn(segments) /\ k + 1 \in DotsIn(segments))
  BY DEF NamesIn
<1>3. /\ UpTo(NamesIn(segments), k + 1) = UpTo(NamesIn(segments), k) + (IF k + 1 \in NamesIn(segments) THEN 1 ELSE 0)
      /\ UpTo(NamesIn(segments), k) \in Nat
  BY <1>1, CountOneMore
<1>4. /\ UpTo(DotsIn(segments), k + 1) = UpTo(DotsIn(segments), k) + (IF k + 1 \in DotsIn(segments) THEN 1 ELSE 0)
      /\ UpTo(DotsIn(segments), k) \in Nat
  BY <1>1, CountOneMore
<1>5. QED BY <1>2, <1>3, <1>4 DEF Balance

LEMMA LeftStep ==
  ASSUME NEW A, NEW segments \in Seq(A), NEW k \in 0..(Len(segments) - 1)
  PROVE  /\ LeftAt(segments, k) \subseteq 1..k
         /\ k + 1 \in NamesIn(segments) => LeftAt(segments, k + 1) = LeftAt(segments, k) \cup {k + 1}
         /\ k + 1 \in DotsIn(segments) =>
              LeftAt(segments, k + 1) = {i \in LeftAt(segments, k) : Balance(segments, i) <= Balance(segments, k + 1)}
         /\ k + 1 \notin NamesIn(segments) /\ k + 1 \notin DotsIn(segments) =>
              LeftAt(segments, k + 1) = LeftAt(segments, k)
<1> DEFINE dots == DotsIn(segments)
           names == NamesIn(segments)
<1>1. dots \subseteq 1..Len(segments) /\ names \subseteq 1..Len(segments) /\ names \cap dots = {}
  BY DEF DotsIn, NamesIn
<1>2. \A m : LeftAt(segments, m) =
        {i \in names : i <= m /\ \A j \in dots : i < j /\ j <= m => Balance(segments, i) <= Balance(segments, j)}
  BY DEF LeftAt
<1> HIDE DEF dots, names
<1>3. \A i \in Nat : /\ i <= k + 1 <=> i <= k \/ i = k + 1
                     /\ i <= k => i < k + 1
  OBVIOUS
<1>4. LeftAt(segments, k) \subseteq 1..k
  <2>1. \A i \in names : i \in Nat /\ 1 <= i
    BY <1>1
  <2>2. QED BY <1>2, <2>1
<1>5. CASE k + 1 \in names
  <2>1. k + 1 \notin dots
    BY <1>1, <1>5
  <2>2. ASSUME NEW i \in names PROVE i \in LeftAt(segments, k + 1) <=> i \in LeftAt(segments, k) \/ i = k + 1
    <3>1. CASE i = k + 1
      <4>1. \A j \in dots : ~ (i < j /\ j <= k + 1)
        BY <1>1, <3>1
      <4>2. i <= k + 1
        BY <3>1
      <4>3. QED BY <1>2, <3>1, <4>1, <4>2
    <3>2. CASE i # k + 1
      <4>1. \A j \in dots : j <= k + 1 <=> j <= k
        BY <1>1, <1>3, <2>1
      <4>2. i <= k + 1 <=> i <= k
        BY <1>1, <1>3, <3>2
      <4>3. QED BY <1>2, <3>2, <4>1, <4>2
    <3>3. QED BY <3>1, <3>2
  <2>3. LeftAt(segments, k + 1) \subseteq names /\ LeftAt(segments, k) \subseteq names
    BY <1>2
  <2>4. LeftAt(segments, k + 1) = LeftAt(segments, k) \cup {k + 1}
    BY <1>5, <2>2, <2>3
  <2>5. QED BY <1>4, <1>5, <2>1, <2>4 DEF names, dots
<1>6. CASE k + 1 \in dots
  <2>1. k + 1 \notin names
    BY <1>1, <1>6
  <2>2. ASSUME NEW i \in names
        PROVE i \in LeftAt(segments, k + 1) <=> i \in LeftAt(segments, k) /\ Balance(segments, i) <= Balance(segments, k + 1)
    <3>1. i <= k + 1 <=> i <= k
      BY <1>1, <1>3, <2>1
    <3>2. i <= k => i < k + 1 /\ k + 1 <= k + 1
      BY <1>1, <1>3
    <3>3. \A j \in dots : j <= k + 1 <=> j <= k \/ j = k + 1
      BY <1>1, <1>3
    <3>4. QED BY <1>2, <1>6, <3>1, <3>2, <3>3
  <2>3. LeftAt(segments, k + 1) \subseteq names /\ LeftAt(segments, k) \subseteq names
    BY <1>2
  <2>4. LeftAt(segments, k + 1) = {i \in LeftAt(segments, k) : Balance(segments, i) <= Balance(segments, k + 1)}
    BY <2>2, <2>3
  <2>5. QED BY <1>4, <1>6, <2>1, <2>4 DEF names, dots
<1>7. CASE k + 1 \notin names /\ k + 1 \notin dots
  <2>1. \A i \in names \cup dots : i <= k + 1 <=> i <= k
    BY <1>1, <1>3, <1>7
  <2>2. LeftAt(segments, k + 1) = LeftAt(segments, k)
    BY <1>2, <2>1
  <2>3. QED BY <1>4, <1>7, <2>2 DEF names, dots
<1>8. QED BY <1>5, <1>6, <1>7 DEF names, dots

\* What the path is after k segments: what the names that stay are put on, one by one.
Stacked(segments, f, k) ==
  LET left == LeftAt(segments, k)
  IN /\ \A i \in left : Balance(segments, i) <= Balance(segments, k)
     /\ left = {} => f[k] = <<>>
     /\ left # {} =>
          \E t \in left : /\ Balance(segments, t) = Balance(segments, k) /\ left = LeftAt(segments, t - 1) \cup {t}
                          /\ f[k] = Append(f[t - 1], normalize_term(segments[t]))

LEMMA FrontOfAppend ==
  ASSUME NEW A, NEW s \in Seq(A), NEW x \in A
  PROVE  Append(s, x) # <<>> /\ Front(Append(s, x)) = s
<1> DEFINE t == Append(s, x)
<1>1. t \in Seq(A) /\ Len(t) = Len(s) + 1 /\ Len(s) \in Nat /\ \A i \in 1..Len(s) : t[i] = s[i]
  BY AppendProperties
<1> HIDE DEF t
<1>2. Front(t) = SubSeq(t, 1, Len(s)) /\ Len(s) \in 0..Len(t)
  BY <1>1 DEF Front
<1> DEFINE front == SubSeq(t, 1, Len(s))
<1>3. front \in Seq(A) /\ Len(front) = Len(s) /\ \A i \in 1..Len(s) : front[i] = t[i]
  BY <1>1, <1>2, Cut
<1> HIDE DEF front
<1>4. front = s
  BY <1>1, <1>3, SeqEqual
<1>5. QED BY <1>1, <1>2, <1>4 DEF front, t

LEMMA StackStep ==
  ASSUME NEW segments \in Seq(Seq(Nat)), NEW f \in [0..Len(segments) -> Seq(Names)], f[0] = <<>>,
         \A i \in 1..Len(segments) : f[i] = Pushed(f[i - 1], segments[i]),
         NEW k \in 0..(Len(segments) - 1), \A j \in 0..k : Stacked(segments, f, j)
  PROVE  Stacked(segments, f, k + 1)
<1> DEFINE B(i) == Balance(segments, i)
           L(i) == LeftAt(segments, i)
           n == Len(segments)
<1>1. n \in Nat /\ k \in 0..k /\ k + 1 \in 1..n /\ (k + 1) - 1 = k /\ k \in Nat
  OBVIOUS
<1>2. f[k + 1] = Pushed(f[k], segments[k + 1])
  BY <1>1
<1>3. ASSUME NEW j \in 0..(n - 1)
      PROVE  /\ B(j) \in Int /\ B(j + 1) \in Int
             /\ j + 1 \in NamesIn(segments) => B(j + 1) = B(j) + 1
             /\ j + 1 \in DotsIn(segments) => B(j + 1) = B(j) - 1
             /\ j + 1 \notin NamesIn(segments) /\ j + 1 \notin DotsIn(segments) => B(j + 1) = B(j)
  BY BalanceIs
<1>4. /\ L(k) \subseteq 1..k
      /\ k + 1 \in NamesIn(segments) => L(k + 1) = L(k) \cup {k + 1}
      /\ k + 1 \in DotsIn(segments) => L(k + 1) = {i \in L(k) : B(i) <= B(k + 1)}
      /\ k + 1 \notin NamesIn(segments) /\ k + 1 \notin DotsIn(segments) => L(k + 1) = L(k)
  BY LeftStep
<1>5. ASSUME NEW j \in 0..k
      PROVE  /\ \A i \in L(j) : B(i) <= B(j)
             /\ L(j) = {} => f[j] = <<>>
             /\ L(j) # {} => \E t \in L(j) : /\ B(t) = B(j) /\ L(j) = L(t - 1) \cup {t}
                                             /\ f[j] = Append(f[t - 1], normalize_term(segments[t]))
  BY DEF Stacked
<1>6. \A i \in L(k) : i \in NamesIn(segments) /\ i \in 1..k
  BY <1>4 DEF LeftAt
<1>7. DOMAIN segments = 1..n
  OBVIOUS
<1> HIDE DEF B, L, n
<1>8. ASSUME /\ \A i \in L(k + 1) : B(i) <= B(k + 1)
             /\ L(k + 1) = {} => f[k + 1] = <<>>
             /\ L(k + 1) # {} => \E t \in L(k + 1) : /\ B(t) = B(k + 1) /\ L(k + 1) = L(t - 1) \cup {t}
                                                     /\ f[k + 1] = Append(f[t - 1], normalize_term(segments[t]))
      PROVE  Stacked(segments, f, k + 1)
  BY <1>8 DEF Stacked, B, L
<1>9. CASE k + 1 \in NamesIn(segments)
  <2>1. L(k + 1) = L(k) \cup {k + 1} /\ B(k + 1) = B(k) + 1 /\ B(k) \in Int
    <3>1. k \in 0..(n - 1)
      BY <1>1
    <3>2. QED BY <1>3, <1>4, <1>9, <3>1
  <2>2. f[k + 1] = Append(f[k], normalize_term(segments[k + 1]))
    <3>1. segments[k + 1] # <<Dot>> /\ segments[k + 1] # <<Dot, Dot>>
      BY <1>9 DEF NamesIn, DotsIn
    <3>2. Pushed(f[k], segments[k + 1]) = Append(f[k], normalize_term(segments[k + 1]))
      BY <3>1, Zenon DEF Pushed
    <3>3. QED BY <1>2, <3>2
  <2>3. ASSUME NEW i \in L(k + 1) PROVE B(i) <= B(k + 1)
    <3>1. i = k + 1 \/ i \in L(k)
      BY <2>1
    <3>2. i \in L(k) => B(i) <= B(k) /\ B(i) \in Int
      <4>1. \A x \in 1..k : x - 1 \in 0..(n - 1) /\ (x - 1) + 1 = x
        BY <1>1
      <4>2. QED BY <1>1, <1>3, <1>5, <1>6, <4>1
    <3>3. QED BY <2>1, <3>1, <3>2
  <2>4. k + 1 \in L(k + 1) /\ L(k + 1) = L((k + 1) - 1) \cup {k + 1}
        /\ f[k + 1] = Append(f[(k + 1) - 1], normalize_term(segments[k + 1]))
    BY <1>1, <2>1, <2>2
  <2>5. QED BY <1>8, <2>3, <2>4
<1>10. CASE k + 1 \in DotsIn(segments)
  <2>1. L(k + 1) = {i \in L(k) : B(i) <= B(k + 1)} /\ B(k + 1) = B(k) - 1 /\ B(k) \in Int /\ B(k + 1) \in Int
    <3>1. k \in 0..(n - 1)
      BY <1>1
    <3>2. QED BY <1>3, <1>4, <1>10, <3>1
  <2>2. f[k + 1] = IF f[k] = <<>> THEN f[k] ELSE Front(f[k])
    <3>1. segments[k + 1] = <<Dot, Dot>> /\ <<Dot, Dot>> # <<Dot>>
      BY <1>10 DEF DotsIn
    <3>2. Pushed(f[k], segments[k + 1]) = IF f[k] = <<>> THEN f[k] ELSE Front(f[k])
      BY <3>1 DEF Pushed
    <3>3. QED BY <1>2, <3>2
  <2>3. CASE L(k) = {}
    <3>1. L(k + 1) = {} /\ f[k + 1] = <<>>
      BY <1>1, <1>5, <2>1, <2>2, <2>3
    <3>2. QED BY <1>8, <3>1
  <2>4. CASE L(k) # {}
    <3>1. PICK t \in L(k) : /\ B(t) = B(k) /\ L(k) = L(t - 1) \cup {t}
                            /\ f[k] = Append(f[t - 1], normalize_term(segments[t]))
      BY <1>1, <1>5, <2>4
    <3>2. t \in NamesIn(segments) /\ t \in 1..k /\ t - 1 \in 0..k /\ t - 1 \in 0..(n - 1) /\ (t - 1) + 1 = t
          /\ t - 1 \in 0..n /\ t \in 1..n
      <4>1. t \in NamesIn(segments) /\ t \in 1..k
        BY <1>6
      <4>2. QED BY <1>1, <4>1
    <3>3. B(t) = B(t - 1) + 1 /\ B(t - 1) \in Int
      BY <1>3, <3>2
    <3>4. f[k + 1] = f[t - 1]
      <4>1. f[t - 1] \in Seq(Names)
        BY <3>2 DEF n
      <4>2. normalize_term(segments[t]) \in Names
        <5>1. segments[t] \in Seq(Nat)
          BY <1>7, <3>2, ElementOfSeq DEF n
        <5>2. segments[t] # <<Dot>> /\ segments[t] # <<Dot, Dot>>
          BY <3>2 DEF NamesIn, DotsIn
        <5>3. QED BY <5>1, <5>2, NoNewDots
      <4>3. \A s \in Seq(Names) : \A x \in Names : Append(s, x) # <<>> /\ Front(Append(s, x)) = s
        BY FrontOfAppend
      <4>4. QED BY <2>2, <3>1, <4>1, <4>2, <4>3
    <3>5. L(k + 1) = L(t - 1)
      <4>1. t \notin L(k + 1)
        BY <2>1, <3>1
      <4>2. \A i \in L(t - 1) : B(i) <= B(t - 1)
        BY <1>5, <3>2
      <4>3. B(t - 1) = B(k + 1)
        BY <2>1, <3>1, <3>3
      <4>4. \A i \in L(t - 1) : i \in L(k + 1)
        BY <2>1, <3>1, <4>2, <4>3
      <4>5. L(k + 1) \subseteq L(k)
        BY <2>1
      <4>6. QED BY <3>1, <4>1, <4>4, <4>5
    <3>6. B(k + 1) = B(t - 1)
      BY <2>1, <3>1, <3>3
    <3>7. /\ \A i \in L(t - 1) : B(i) <= B(t - 1)
          /\ L(t - 1) = {} => f[t - 1] = <<>>
          /\ L(t - 1) # {} => \E u \in L(t - 1) : /\ B(u) = B(t - 1) /\ L(t - 1) = L(u - 1) \cup {u}
                                                  /\ f[t - 1] = Append(f[u - 1], normalize_term(segments[u]))
      BY <1>5, <3>2
    <3>8. QED BY <1>8, <3>4, <3>5, <3>6, <3>7
  <2>5. QED BY <2>3, <2>4
<1>11. CASE k + 1 \notin NamesIn(segments) /\ k + 1 \notin DotsIn(segments)
  <2>1. segments[k + 1] = <<Dot>>
    BY <1>1, <1>7, <1>11 DEF NamesIn
  <2>2. f[k + 1] = f[k] /\ L(k + 1) = L(k)
    BY <1>2, <1>4, <1>11, <2>1 DEF Pushed
  <2>3. B(k + 1) = B(k)
    <3>1. k \in 0..(n - 1)
      BY <1>1
    <3>2. QED BY <1>3, <1>11, <3>1
  <2>4. /\ \A i \in L(k) : B(i) <= B(k)
        /\ L(k) = {} => f[k] = <<>>
        /\ L(k) # {} => \E t \in L(k) : /\ B(t) = B(k) /\ L(k) = L(t - 1) \cup {t}
                                        /\ f[k] = Append(f[t - 1], normalize_term(segments[t]))
    BY <1>1, <1>5
  <2>5. QED BY <1>8, <2>2, <2>3, <2>4
<1>12. QED BY <1>9, <1>10, <1>11

-------------------------------------------------------------------------------
\* What a segment is spelled as, behind its slash.
Spelling(segment) == <<Slash>> \o Spelled(BytesOf(segment))

LEMMA SpellingType ==
  ASSUME NEW segment \in Seq(Nat)
  PROVE  Spelling(segment) \in Seq(Nat)
<1> DEFINE q == [i \in DOMAIN segment |-> PieceAt(segment, i)]
<1>1. \A i \in 1..Len(segment) : PieceAt(segment, i) \in Seq(Nat)
  BY PieceType
<1>2. q \in Seq(Seq(Nat))
  <2> DEFINE S == Seq(Nat)
  <2>1. DOMAIN segment = 1..Len(segment) /\ Len(segment) \in Nat
    OBVIOUS
  <2> HIDE DEF S
  <2>2. \A i \in 1..Len(segment) : PieceAt(segment, i) \in S
    BY <1>1 DEF S
  <2>3. q \in Seq(S)
    BY <2>1, <2>2
  <2>4. QED BY <2>3 DEF S
<1>3. BytesOf(segment) = FlattenSeq(q)
  BY BytesOfIs, Zenon
<1> HIDE DEF q
<1>4. BytesOf(segment) \in Seq(Nat)
  BY <1>2, <1>3, FlattenType
<1>5. Spelled(BytesOf(segment)) \in Seq(TermChars)
  BY <1>4, SpelledType
<1>6. TermChars \subseteq Nat
  <2>1. \A c \in Unreserved : c \in Nat
    BY DEF Unreserved
  <2>2. \A c \in EscapeChars : c \in Nat
    BY DEF EscapeChars, Percent
  <2>3. QED BY <2>1, <2>2 DEF TermChars
<1>7. Spelled(BytesOf(segment)) \in Seq(Nat)
  BY <1>5, <1>6, SeqMonotonic
<1>8. <<Slash>> \in Seq(Nat)
  BY DEF Slash
<1>9. QED BY <1>7, <1>8, ConcatProperties DEF Spelling

LEMMA StackHolds ==
  ASSUME NEW segments \in Seq(Seq(Nat)), NEW f \in [0..Len(segments) -> Seq(Names)], f[0] = <<>>,
         \A i \in 1..Len(segments) : f[i] = Pushed(f[i - 1], segments[i])
  PROVE  \A k \in 0..Len(segments) : Stacked(segments, f, k)
<1> DEFINE n == Len(segments)
           T == {k \in 0..n : \A j \in 0..k : Stacked(segments, f, j)}
<1>1. n \in Nat
  OBVIOUS
<1>2. Stacked(segments, f, 0)
  <2>1. NamesIn(segments) \subseteq 1..n
    BY DEF NamesIn
  <2>2. LeftAt(segments, 0) = {}
    BY <2>1 DEF LeftAt
  <2>3. QED BY <2>2 DEF Stacked
<1>3. 0 \in T
  <2>1. \A j \in 0..0 : j = 0
    OBVIOUS
  <2>2. QED BY <1>1, <1>2, <2>1
<1>4. ASSUME NEW k \in 0..(n - 1), k \in T PROVE k + 1 \in T
  <2>1. k \in 0..(Len(segments) - 1) /\ \A j \in 0..k : Stacked(segments, f, j)
    BY <1>4
  <2>2. Stacked(segments, f, k + 1)
    BY <2>1, StackStep
  <2>3. k + 1 \in 0..n /\ \A j \in 0..(k + 1) : j \in 0..k \/ j = k + 1
    BY <1>1
  <2>4. QED BY <2>1, <2>2, <2>3
<1>5. \A k \in 0..n : k \in T
  <2> HIDE DEF T, n
  <2>1. QED BY <1>1, <1>3, <1>4, Induction
<1>6. ASSUME NEW k \in 0..n PROVE Stacked(segments, f, k)
  <2>1. k \in 0..k
    BY <1>1
  <2>2. QED BY <1>5, <2>1
<1>7. QED BY <1>6

\* Joined puts one more name at the end.
LEMMA JoinedAppend ==
  ASSUME NEW path \in Seq(Names), NEW x \in Names
  PROVE  Joined(Append(path, x)) = Joined(path) \o (<<Slash>> \o x) /\ Joined(path) \in Seq(Nat)
<1> DEFINE S == Seq(Nat)
           Slashed(y) == <<Slash>> \o y
           n == Len(path)
           q == [i \in 1..n |-> Slashed(path[i])]
           more == Append(path, x)
<1>1. \A y \in Names : Slashed(y) \in S
  <2>1. Names \subseteq Seq(Nat)
    BY SeqMonotonic DEF Names, PathChars
  <2>2. <<Slash>> \in Seq(Nat)
    BY DEF Slash
  <2>3. QED BY <2>1, <2>2, ConcatProperties
<1>2. /\ n \in Nat /\ DOMAIN path = 1..n /\ \A i \in 1..n : path[i] \in Names
      /\ more \in Seq(Names) /\ DOMAIN more = 1..(n + 1) /\ more[n + 1] = x /\ \A i \in 1..n : more[i] = path[i]
  BY AppendProperties, ElementOfSeq
<1>3. Joined(path) = FlattenSeq(q)
  BY <1>2 DEF Joined
<1>4. Joined(more) = FlattenSeq([i \in 1..(n + 1) |-> Slashed(more[i])])
  BY <1>2 DEF Joined
<1> HIDE DEF S, Slashed, n, more
<1>5. q \in Seq(S) /\ Len(q) = n /\ \A i \in 1..n : q[i] = Slashed(path[i])
  BY <1>1, <1>2
<1> HIDE DEF q
<1>6. [i \in 1..(n + 1) |-> Slashed(more[i])] = Append(q, Slashed(x))
  <2> DEFINE laid == [i \in 1..(n + 1) |-> Slashed(more[i])]
             z == Append(q, Slashed(x))
  <2>1. Slashed(x) \in S
    BY <1>1
  <2>2. laid \in Seq(S) /\ Len(laid) = n + 1 /\ \A i \in 1..(n + 1) : laid[i] = Slashed(more[i])
    <3>1. \A i \in 1..(n + 1) : more[i] \in Names
      BY <1>2, ElementOfSeq
    <3>2. QED BY <1>1, <1>2, <3>1
  <2>3. z \in Seq(S) /\ Len(z) = n + 1 /\ z[n + 1] = Slashed(x) /\ \A i \in 1..n : z[i] = q[i]
    BY <1>5, <2>1, AppendProperties
  <2> HIDE DEF laid, z
  <2>4. \A i \in 1..(n + 1) : laid[i] = z[i]
    <3>1. \A i \in 1..(n + 1) : i \in 1..n \/ i = n + 1
      BY <1>2
    <3>2. QED BY <1>2, <1>5, <2>2, <2>3, <3>1
  <2>5. laid = z
    BY <2>2, <2>3, <2>4, SeqEqual
  <2>6. QED BY <2>5 DEF laid, z
<1>7. FlattenSeq(Append(q, Slashed(x))) = FlattenSeq(q) \o Slashed(x)
  <2>1. Slashed(x) \in S
    BY <1>1
  <2>2. QED BY <1>5, <2>1, FlattenAppend DEF S
<1>8. FlattenSeq(q) \in S
  BY <1>5, FlattenType DEF S
<1>9. QED BY <1>3, <1>4, <1>6, <1>7, <1>8 DEF more, Slashed, S

\* The path is what is left of the segments, put together.
LEMMA PathIsLaid ==
  ASSUME NEW segments \in Seq(Seq(Nat)), NEW f \in [0..Len(segments) -> Seq(Names)], f[0] = <<>>,
         \A i \in 1..Len(segments) : f[i] = Pushed(f[i - 1], segments[i]),
         \A i \in 1..Len(segments) : normalize_term(segments[i]) = Spelled(BytesOf(segments[i]))
  PROVE  Joined(f[Len(segments)]) = Laid([i \in 1..Len(segments) |-> Spelling(segments[i])], Left(segments))
<1> DEFINE S == Seq(Nat)
           n == Len(segments)
           pieces == [i \in 1..n |-> Spelling(segments[i])]
           L(k) == LeftAt(segments, k)
           Same(k) == Joined(f[k]) = Laid(pieces, L(k))
           T == {k \in 0..n : \A j \in 0..k : Same(j)}
<1>1. n \in Nat /\ DOMAIN segments = 1..n /\ \A i \in 1..n : segments[i] \in Seq(Nat)
  BY ElementOfSeq
<1>2. pieces \in Seq(S) /\ Len(pieces) = n /\ \A i \in 1..n : pieces[i] = Spelling(segments[i])
  <2>1. \A i \in 1..n : Spelling(segments[i]) \in S
    BY <1>1, SpellingType
  <2> HIDE DEF S
  <2>2. QED BY <1>1, <2>1
<1>3. \A k \in 0..n : Stacked(segments, f, k)
  BY StackHolds
<1>4. Left(segments) = L(n)
  BY LeftIs
<1>5. \A k \in 0..(n - 1) : L(k) \subseteq 1..k
  BY LeftStep
<1>6. \A k \in 0..n : f[k] \in Seq(Names)
  OBVIOUS
<1>7. \A i \in NamesIn(segments) : i \in 1..n /\ segments[i] # <<Dot>> /\ segments[i] # <<Dot, Dot>>
  BY <1>1 DEF NamesIn, DotsIn
<1>8. \A i \in NamesIn(segments) : normalize_term(segments[i]) \in Names /\ pieces[i] = <<Slash>> \o normalize_term(segments[i])
  <2> TAKE i \in NamesIn(segments)
  <2>1. normalize_term(segments[i]) \in Names
    BY <1>1, <1>7, NoNewDots
  <2>2. pieces[i] = <<Slash>> \o normalize_term(segments[i])
    BY <1>2, <1>7 DEF Spelling
  <2>3. QED BY <2>1, <2>2
<1>9. \A k : L(k) \subseteq NamesIn(segments) /\ \A i \in L(k) : i <= k
  BY DEF LeftAt
<1>10. \A k \in 0..n : /\ L(k) = {} => f[k] = <<>>
                       /\ L(k) # {} => \E t \in L(k) : L(k) = L(t - 1) \cup {t} /\ f[k] = Append(f[t - 1], normalize_term(segments[t]))
  BY <1>3, Zenon DEF Stacked
<1> HIDE DEF n, pieces, L, S
<1>11. ASSUME NEW k \in 0..n, \A j \in 0..n : j < k => Same(j)
       PROVE  Same(k)
  <2>1. CASE L(k) = {}
    <3>1. Joined(f[k]) = <<>>
      <4>1. [i \in DOMAIN <<>> |-> <<Slash>> \o <<>>[i]] = <<>>
        OBVIOUS
      <4>2. Joined(<<>>) = <<>>
        BY <4>1, FlattenNone DEF Joined
      <4>3. QED BY <1>10, <2>1, <4>2
    <3>2. Laid(pieces, {}) = <<>>
      <4>1. pieces \in Seq(Seq(Nat)) /\ {} \cap (1..Len(pieces)) = {}
        BY <1>2 DEF S
      <4> DEFINE at == {}
      <4> HIDE DEF at
      <4>2. at \cap (1..Len(pieces)) = {}
        BY <4>1 DEF at
      <4>3. Laid(pieces, at) = <<>>
        BY <4>1, <4>2, LaidNone
      <4>4. QED BY <4>3 DEF at
    <3>3. QED BY <2>1, <3>1, <3>2
  <2>2. CASE L(k) # {}
    <3>1. PICK t \in L(k) : L(k) = L(t - 1) \cup {t} /\ f[k] = Append(f[t - 1], normalize_term(segments[t]))
      BY <1>10, <2>2
    <3>2. t \in NamesIn(segments) /\ t \in 1..n /\ t <= k
      BY <1>7, <1>9
    <3>3. t - 1 \in 0..n /\ t - 1 < k /\ t - 1 \in 0..(n - 1)
      BY <1>1, <3>2
    <3>4. Joined(f[t - 1]) = Laid(pieces, L(t - 1))
      BY <1>11, <3>3
    <3>5. Joined(f[k]) = Joined(f[t - 1]) \o (<<Slash>> \o normalize_term(segments[t]))
      <4>1. f[t - 1] \in Seq(Names) /\ normalize_term(segments[t]) \in Names
        BY <1>6, <1>8, <3>2, <3>3
      <4>2. QED BY <3>1, <4>1, JoinedAppend
    <3>6. Laid(pieces, L(t - 1) \cup {t}) = Laid(pieces, L(t - 1)) \o pieces[t]
      <4>1. L(t - 1) \subseteq 1..(t - 1)
        BY <1>5, <3>3
      <4>2. pieces \in Seq(Seq(Nat)) /\ t \in 1..Len(pieces)
        BY <1>2, <3>2 DEF S
      <4>3. QED BY <4>1, <4>2, LaidMore
    <3>7. QED BY <1>8, <3>1, <3>2, <3>4, <3>5, <3>6
  <2>3. QED BY <2>1, <2>2
<1> HIDE DEF Same
<1>12. 0 \in T
  <2>1. \A j \in 0..0 : j = 0
    OBVIOUS
  <2>2. Same(0)
    <3>1. 0 \in 0..n /\ \A j \in 0..n : ~ (j < 0)
      BY <1>1
    <3>2. QED BY <1>11, <3>1
  <2>3. QED BY <1>1, <2>1, <2>2
<1>13. ASSUME NEW k \in 0..(n - 1), k \in T PROVE k + 1 \in T
  <2>1. k + 1 \in 0..n /\ \A j \in 0..(k + 1) : j \in 0..k \/ j = k + 1
    BY <1>1
  <2>2. \A j \in 0..n : j < k + 1 => j \in 0..k
    BY <1>1
  <2>3. Same(k + 1)
    BY <1>11, <1>13, <2>1, <2>2
  <2>4. QED BY <1>13, <2>1, <2>3
<1>14. \A k \in 0..n : k \in T
  <2> HIDE DEF T
  <2>1. QED BY <1>1, <1>12, <1>13, Induction
<1>15. Same(n)
  <2>1. n \in 0..n
    BY <1>1
  <2>2. QED BY <1>14, <2>1
<1>16. QED BY <1>4, <1>15 DEF Same, n, pieces

\* LocalPath cuts the text at its end only, whatever it is made of.
LEMMA CharSegments ==
  ASSUME NEW s \in Seq(Chars), ~Panics(s)
  PROVE  Segments(s) \in Seq(Seq(Chars))
<1> DEFINE query == SubSeq(s, 1, Before(s, Hash))
<1>0. s \in Seq(Nat)
  BY CharsAreNumbers
<1>1. query \in Seq(Chars)
  <2>1. Before(s, Hash) \in 0..Len(s)
    BY <1>0, BeforeIs
  <2>2. QED BY <2>1, Cut
<1>2. Before(query, Question) \in 0..Len(query)
  BY <1>1, CharsAreNumbers, BeforeIs
<1>3. LocalPath(s) = SubSeq(query, 1, Before(query, Question))
  BY DEF LocalPath
<1> HIDE DEF query
<1>4. LocalPath(s) \in Seq(Chars)
  BY <1>1, <1>2, <1>3, Cut
<1>5. LocalPath(s) # <<>>
  BY DEF Panics
<1>6. Tail(LocalPath(s)) \in Seq(Chars)
  BY <1>4, <1>5, HeadTailProperties
<1>7. Split(Tail(LocalPath(s)), Slash) \in Seq(Seq(Chars))
  BY <1>6, SplitType
<1>8. QED BY <1>7 DEF Segments

\* A path whose segments are spelled properly comes out as it was meant.
LEMMA PathIsMeant ==
  ASSUME NEW s \in Seq(Chars), ~Panics(s), NEW u \in normalized(s),
         \A segment \in ToSet(Segments(s)) : Proper(segment)
  PROVE  LocalPath(u) = FlattenSeq([i \in DOMAIN Segments(s) |->
                          IF i \in Left(Segments(s)) THEN <<Slash>> \o Spelled(BytesOf(Segments(s)[i])) ELSE <<>>])
<1> DEFINE segments == Segments(s)
           n == Len(segments)
           pieces == [i \in 1..n |-> Spelling(segments[i])]
<1>1. s \in Seq(Nat)
  BY CharsAreNumbers
<1>2. LocalPath(u) = Joined(Path(s))
  BY <1>1, NormalizedIs
<1>3. segments \in Seq(Seq(Chars)) /\ segments \in Seq(Seq(Nat))
  BY <1>1, CharSegments, SegmentsType
<1>4. PICK f : /\ f \in [0..n -> Seq(Names)] /\ f[0] = <<>>
               /\ \A i \in 1..n : f[i] = Pushed(f[i - 1], segments[i])
               /\ Path(s) = f[n]
  BY <1>1, PathIs
<1>5. ToSet(segments) = {segments[i] : i \in DOMAIN segments}
  BY DEF ToSet
<1>6. \A segment \in ToSet(segments) : Proper(segment)
  OBVIOUS
<1> HIDE DEF segments
<1>7. DOMAIN segments = 1..n /\ n \in Nat
  BY <1>3
<1>8. ASSUME NEW i \in 1..n PROVE normalize_term(segments[i]) = Spelled(BytesOf(segments[i]))
  <2>1. segments[i] \in Seq(Chars)
    BY <1>3, ElementOfSeq
  <2>2. Proper(segments[i])
    BY <1>5, <1>6, <1>7
  <2>3. QED BY <2>1, <2>2, ProperTerm
<1>9. Joined(f[n]) = Laid(pieces, Left(segments))
  BY <1>3, <1>4, <1>8, PathIsLaid
<1>10. Laid(pieces, Left(segments)) =
         FlattenSeq([i \in DOMAIN segments |-> IF i \in Left(segments) THEN <<Slash>> \o Spelled(BytesOf(segments[i])) ELSE <<>>])
  BY <1>7 DEF Laid, Spelling
<1>11. QED BY <1>2, <1>4, <1>9, <1>10 DEF segments

-------------------------------------------------------------------------------
\* Split, one character at a time.
LEMMA SplitFirst ==
  ASSUME NEW A, NEW s \in Seq(A), NEW c, NEW k \in 0..Len(s), NEW f, f[0] = <<<<>>>>,
         \A i \in 1..Len(s) : f[i] = Chopped(f[i - 1], s[i], c)
  PROVE  f[k] = Split(SubSeq(s, 1, k), c)
<1> DEFINE t == SubSeq(s, 1, k)
<1>1. t \in Seq(A) /\ Len(t) = k /\ \A i \in 1..k : t[i] = s[i]
  BY Cut
<1>2. k \in Nat /\ \A i \in 1..k : i \in 1..Len(s)
  OBVIOUS
<1> HIDE DEF t
<1>3. PICK g : /\ g[0] = <<<<>>>>
               /\ \A i \in 1..Len(t) : g[i] = Chopped(g[i - 1], t[i], c)
               /\ Split(t, c) = g[Len(t)]
  BY <1>1, SplitIs
<1> DEFINE T == {i \in 0..k : f[i] = g[i]}
<1>4. 0 \in T
  BY <1>2, <1>3
<1>5. ASSUME NEW i \in 0..(k - 1), i \in T PROVE i + 1 \in T
  <2>1. i + 1 \in 1..k /\ (i + 1) - 1 = i /\ i + 1 \in 0..k
    BY <1>2
  <2>2. f[i + 1] = Chopped(f[i], s[i + 1], c)
    BY <1>2, <2>1
  <2>3. g[i + 1] = Chopped(g[i], s[i + 1], c)
    BY <1>1, <1>3, <2>1
  <2>4. QED BY <1>5, <2>1, <2>2, <2>3
<1> HIDE DEF T
<1>6. \A i \in 0..k : i \in T
  BY <1>2, <1>4, <1>5, Induction
<1>7. k \in T
  BY <1>2, <1>6
<1>8. QED BY <1>1, <1>3, <1>7 DEF T, t

\* What follows the last c is one piece.
RunsOn(f, s, c, m, front) ==
  /\ f[m] = Append(front, <<>>)
  /\ \A i \in (m + 1)..Len(s) : f[i] = Chopped(f[i - 1], s[i], c) /\ s[i] # c

LEMMA LastPiece ==
  ASSUME NEW A, NEW s \in Seq(A), NEW c, NEW m \in 0..Len(s), NEW front \in Seq(Seq(A)), NEW f, RunsOn(f, s, c, m, front)
  PROVE  f[Len(s)] = Append(front, SubSeq(s, m + 1, Len(s)))
<1> DEFINE S == Seq(A)
           n == Len(s)
           Rest(k) == SubSeq(s, m + 1, m + k)
           T == {k \in 0..(n - m) : f[m + k] = Append(front, Rest(k))}
<1>0. /\ f[m] = Append(front, <<>>)
      /\ \A i \in (m + 1)..n : f[i] = Chopped(f[i - 1], s[i], c) /\ s[i] # c
  BY DEF RunsOn
<1>1. n \in Nat /\ m \in Nat /\ n - m \in Nat /\ m + (n - m) = n /\ m + 0 = m
  OBVIOUS
<1>2. \A k \in 0..(n - m) : /\ Rest(k) \in S /\ Len(Rest(k)) = k
                            /\ \A i \in 1..k : Rest(k)[i] = s[m + i]
  <2> TAKE k \in 0..(n - m)
  <2> DEFINE from == m + 1
             to == m + k
  <2>1. from \in Nat \ {0} /\ to \in 0..Len(s) /\ to - from + 1 = k /\ (from <= to <=> 0 < k) /\ k \in Nat
    BY <1>1
  <2>2. \A i \in 1..k : from + i - 1 = m + i
    BY <1>1
  <2> HIDE DEF from, to
  <2>3. /\ SubSeq(s, from, to) \in Seq(A) /\ Len(SubSeq(s, from, to)) = IF from <= to THEN to - from + 1 ELSE 0
        /\ \A i \in 1..(to - from + 1) : SubSeq(s, from, to)[i] = s[from + i - 1]
    BY <2>1, AnyCut
  <2>4. SubSeq(s, from, to) = Rest(k)
    BY DEF from, to
  <2>5. QED BY <2>1, <2>2, <2>3, <2>4
<1> HIDE DEF S, Rest, n
<1>3. 0 \in T
  <2>1. 0 \in 0..(n - m) /\ Rest(0) = <<>>
    <3>1. 0 \in 0..(n - m)
      BY <1>1
    <3>2. Rest(0) \in S /\ Len(Rest(0)) = 0
      BY <1>2, <3>1
    <3>3. QED BY <3>1, <3>2, EmptySeq DEF S
  <2>2. QED BY <1>0, <1>1, <2>1
<1>4. ASSUME NEW k \in 0..((n - m) - 1), k \in T PROVE k + 1 \in T
  <2>1. /\ k \in 0..(n - m) /\ k + 1 \in 0..(n - m) /\ m + (k + 1) \in (m + 1)..n
        /\ (m + (k + 1)) - 1 = m + k /\ m + (k + 1) \in 1..n /\ k \in Nat
    BY <1>1
  <2> DEFINE x == s[m + (k + 1)]
             tail == Rest(k)
  <2>2. f[m + (k + 1)] = Chopped(f[m + k], x, c) /\ x # c
    BY <1>0, <2>1
  <2>3. x \in A
    BY <2>1, ElementOfSeq DEF n
  <2>4. tail \in S /\ Len(tail) = k /\ Rest(k + 1) \in S /\ Len(Rest(k + 1)) = k + 1
        /\ (\A i \in 1..k : tail[i] = s[m + i]) /\ \A i \in 1..(k + 1) : Rest(k + 1)[i] = s[m + i]
    BY <1>2, <2>1
  <2>5. f[m + k] = Append(front, tail)
    BY <1>4
  <2> HIDE DEF tail, x
  <2>6. Chopped(Append(front, tail), x, c) = Append(front, Append(tail, x))
    <3> DEFINE p == Append(front, tail)
               q == Append(front, Append(tail, x))
               w == Append(tail, x)
    <3>1. w \in S
      BY <2>3, <2>4, AppendProperties DEF S
    <3>2. p \in Seq(S) /\ Len(p) = Len(front) + 1 /\ p[Len(front) + 1] = tail /\ Len(front) \in Nat
          /\ \A i \in 1..Len(front) : p[i] = front[i]
      BY <2>4, AppendProperties DEF S
    <3>3. q \in Seq(S) /\ Len(q) = Len(front) + 1 /\ q[Len(front) + 1] = w
          /\ \A i \in 1..Len(front) : q[i] = front[i]
      <4> HIDE DEF w
      <4>1. QED BY <3>1, AppendProperties DEF S, w
    <3>4. Chopped(p, x, c) = [p EXCEPT ![Len(p)] = Append(p[Len(p)], x)]
      BY <2>2 DEF Chopped
    <3>5. Append(p[Len(p)], x) = w
      BY <3>2
    <3> HIDE DEF p, q, w
    <3>6. Chopped(p, x, c) = [p EXCEPT ![Len(p)] = w]
      BY <3>4, <3>5
    <3> DEFINE z == [p EXCEPT ![Len(p)] = w]
    <3>7. z \in Seq(S) /\ Len(z) = Len(p) /\ z[Len(p)] = w /\ \A i \in 1..Len(p) : i # Len(p) => z[i] = p[i]
      BY <3>1, <3>2
    <3> HIDE DEF z
    <3>8. \A i \in 1..Len(q) : z[i] = q[i]
      <4>1. \A i \in 1..Len(q) : i \in 1..Len(front) \/ i = Len(p)
        BY <3>2, <3>3
      <4>2. z[Len(p)] = q[Len(p)]
        BY <3>2, <3>3, <3>7
      <4>3. ASSUME NEW i \in 1..Len(front) PROVE z[i] = q[i]
        <5>1. i \in 1..Len(p) /\ i # Len(p)
          BY <3>2
        <5>2. QED BY <3>2, <3>3, <3>7, <5>1
      <4>4. QED BY <4>1, <4>2, <4>3
    <3>9. z = q
      BY <3>2, <3>3, <3>7, <3>8, SeqEqual
    <3>10. QED BY <3>6, <3>9 DEF z, p, q
  <2>7. Append(tail, x) = Rest(k + 1)
    <3> DEFINE w == Append(tail, x)
    <3>1. w \in S /\ Len(w) = k + 1 /\ w[k + 1] = x /\ \A i \in 1..k : w[i] = tail[i]
      <4>1. tail \in Seq(A) /\ Len(tail) = k
        BY <2>4 DEF S
      <4>2. w \in Seq(A) /\ Len(w) = Len(tail) + 1 /\ w[Len(tail) + 1] = x /\ \A i \in 1..Len(tail) : w[i] = tail[i]
        BY <2>3, <4>1, AppendProperties
      <4> HIDE DEF w
      <4>3. QED BY <4>1, <4>2 DEF S
    <3> HIDE DEF w
    <3>2. \A i \in 1..(k + 1) : i \in 1..k \/ i = k + 1
      BY <2>1
    <3>3. \A i \in 1..(k + 1) : w[i] = Rest(k + 1)[i]
      BY <2>4, <3>1, <3>2 DEF x
    <3>4. w = Rest(k + 1)
      BY <2>4, <3>1, <3>3, SeqEqual DEF S
    <3>5. QED BY <3>4 DEF w
  <2>8. QED BY <2>1, <2>2, <2>5, <2>6, <2>7
<1> HIDE DEF T
<1>5. \A k \in 0..(n - m) : k \in T
  BY <1>1, <1>3, <1>4, Induction
<1>6. n - m \in T
  BY <1>1, <1>5
<1>7. QED BY <1>1, <1>6 DEF T, n, Rest

\* The same facts under names.
Splits(f, A, s, c) ==
  /\ f \in [0..Len(s) -> Pieces(A)] /\ f[0] = <<<<>>>>
  /\ \A i \in 1..Len(s) : f[i] = Chopped(f[i - 1], s[i], c)
  /\ Split(s, c) = f[Len(s)]
LEMMA SplitSplits ==
  ASSUME NEW A, NEW s \in Seq(A), NEW c
  PROVE  \E f : Splits(f, A, s, c)
<1>1. PICK f : /\ f \in [0..Len(s) -> Pieces(A)]
               /\ f[0] = <<<<>>>>
               /\ \A i \in 1..Len(s) : f[i] = Chopped(f[i - 1], s[i], c)
               /\ Split(s, c) = f[Len(s)]
  BY SplitIs, ZenonT(40)
<1>2. Splits(f, A, s, c)
  BY <1>1, Zenon DEF Splits
<1>3. QED BY <1>2

LEMMA Associates == \A x, y, z \in Seq(Nat) : (x \o y) \o z = x \o (y \o z)
BY ConcatAssociative, SMTT(40)

\* No piece has the character it was split at.
LEMMA SplitPure ==
  ASSUME NEW A, NEW s \in Seq(A), NEW c
  PROVE  Split(s, c) \in Seq(Seq(A \ {c}))
<1> DEFINE B == A \ {c}
           P == Pieces(B)
           n == Len(s)
<1>1a. PICK f : Splits(f, A, s, c)
  BY SplitSplits, Zenon
<1>1. /\ f[0] = <<<<>>>>
      /\ \A i \in 1..n : f[i] = Chopped(f[i - 1], s[i], c)
      /\ Split(s, c) = f[n]
  BY <1>1a DEF Splits
<1>2. n \in Nat /\ \A i \in 1..n : s[i] \in A
  BY ElementOfSeq
<1>3. <<<<>>>> \in P
  BY DEF Pieces
<1>4. ASSUME NEW p \in P, NEW x \in A PROVE Chopped(p, x, c) \in P
  <2>1. CASE x = c
    <3>1. <<>> \in Seq(B) /\ p \in Seq(Seq(B))
      BY DEF Pieces
    <3>2. Chopped(p, x, c) = Append(p, <<>>)
      BY <2>1 DEF Chopped
    <3> HIDE DEF B
    <3>3. Append(p, <<>>) \in Seq(Seq(B)) /\ Append(p, <<>>) # <<>>
      BY <3>1
    <3>4. QED BY <3>2, <3>3 DEF Pieces
  <2>2. CASE x # c
    <3>1. x \in B
      BY <2>2
    <3>2. QED BY <3>1, ChoppedType
  <2>3. QED BY <2>1, <2>2
<1> HIDE DEF P, n
<1> DEFINE T == {k \in 0..n : f[k] \in P}
<1>5. 0 \in T
  <2>1. 0 \in 0..n
    BY <1>2
  <2>2. QED BY <1>1, <1>3, <2>1, Zenon
<1>6. ASSUME NEW k \in 0..(n - 1), k \in T PROVE k + 1 \in T
  <2>1. k + 1 \in 1..n /\ (k + 1) - 1 = k /\ k + 1 \in 0..n
    BY <1>2
  <2>2. f[k] \in P /\ s[k + 1] \in A
    BY <1>2, <1>6, <2>1
  <2>3. f[k + 1] = Chopped(f[k], s[k + 1], c)
    BY <1>1, <2>1
  <2>4. f[k + 1] \in P
    BY <1>4, <2>2, <2>3, Zenon
  <2>5. QED BY <2>1, <2>4
<1> HIDE DEF T
<1>7. \A k \in 0..n : k \in T
  BY <1>2, <1>5, <1>6, Induction
<1>8. n \in T
  BY <1>2, <1>7
<1>9. Split(s, c) \in P
  BY <1>1, <1>8 DEF T
<1>10. QED BY <1>9 DEF P, Pieces

LEMMA SplitPlain ==
  ASSUME NEW A, NEW p \in Seq(A), NEW c, \A i \in 1..Len(p) : p[i] # c
  PROVE  Split(p, c) = <<p>>
<1>1a. PICK f : Splits(f, A, p, c)
  BY SplitSplits, Zenon
<1>1. /\ f[0] = <<<<>>>>
      /\ \A i \in 1..Len(p) : f[i] = Chopped(f[i - 1], p[i], c)
      /\ Split(p, c) = f[Len(p)]
  BY <1>1a DEF Splits
<1> DEFINE m == 0
           front == <<>>
<1>2. m \in 0..Len(p) /\ front \in Seq(Seq(A)) /\ f[m] = Append(front, <<>>) /\ m + 1 = 1
  BY <1>1
<1> HIDE DEF m, front
<1>3. \A i \in (m + 1)..Len(p) : f[i] = Chopped(f[i - 1], p[i], c) /\ p[i] # c
  BY <1>1, <1>2
<1>4. f[Len(p)] = Append(front, SubSeq(p, m + 1, Len(p)))
  <2>1. RunsOn(f, p, c, m, front)
    BY <1>2, <1>3 DEF RunsOn
  <2>2. QED BY <1>2, <2>1, LastPiece, Zenon
<1>5. SubSeq(p, 1, Len(p)) = p
  BY SubSeqFull
<1>6. Append(<<>>, p) = <<p>>
  OBVIOUS
<1>7. QED BY <1>1, <1>2, <1>4, <1>5, <1>6 DEF front

LEMMA SplitAppend ==
  ASSUME NEW A, NEW a \in Seq(A), NEW c \in A, NEW p \in Seq(A), \A i \in 1..Len(p) : p[i] # c
  PROVE  Split(a \o (<<c>> \o p), c) = Append(Split(a, c), p)
<1> DEFINE S == Seq(A)
           end == <<c>> \o p
           s == a \o end
           l == Len(a)
           front == Split(a, c)
<1>1. end \in S /\ Len(end) = Len(p) + 1 /\ end[1] = c /\ Len(p) \in Nat /\ \A i \in 1..Len(p) : end[1 + i] = p[i]
  <2> DEFINE d == <<c>>
  <2>1. d \in Seq(A) /\ Len(d) = 1 /\ d[1] = c
    OBVIOUS
  <2> HIDE DEF d
  <2>2. /\ d \o p \in Seq(A) /\ Len(d \o p) = Len(d) + Len(p) /\ Len(p) \in Nat
        /\ \A i \in 1..Len(d) : (d \o p)[i] = d[i]
        /\ \A i \in 1..Len(p) : (d \o p)[Len(d) + i] = p[i]
    <3>1. \A a1, b1 \in Seq(A) :
            /\ a1 \o b1 \in Seq(A) /\ Len(a1 \o b1) = Len(a1) + Len(b1) /\ Len(b1) \in Nat
            /\ \A i \in 1..Len(a1) : (a1 \o b1)[i] = a1[i]
            /\ \A i \in 1..Len(b1) : (a1 \o b1)[Len(a1) + i] = b1[i]
      BY ConcatOf
    <3>2. QED BY <2>1, <3>1, Zenon
  <2>3. (d \o p)[1] = c /\ Len(d \o p) = Len(p) + 1
    BY <2>1, <2>2
  <2>4. \A i \in 1..Len(p) : (d \o p)[1 + i] = p[i]
    BY <2>1, <2>2
  <2>5. QED BY <2>2, <2>3, <2>4 DEF d
<1> HIDE DEF end, S
<1>2. /\ s \in S /\ Len(s) = l + Len(end) /\ l \in Nat
      /\ \A i \in 1..l : s[i] = a[i]
      /\ \A i \in 1..Len(end) : s[l + i] = end[i]
  <2>1. end \in Seq(A)
    BY <1>1 DEF S
  <2>2. /\ a \o end \in Seq(A) /\ Len(a \o end) = Len(a) + Len(end) /\ Len(a) \in Nat
        /\ \A i \in 1..Len(a) : (a \o end)[i] = a[i]
        /\ \A i \in 1..Len(end) : (a \o end)[Len(a) + i] = end[i]
    BY <2>1, ConcatOf
  <2>3. QED BY <2>2 DEF S
<1> HIDE DEF s, l, front
<1> DEFINE m == l + 1
           n == Len(s)
<1>3. m \in 0..n /\ l \in 0..n /\ m \in 1..n /\ m - 1 = l /\ n = m + Len(p)
  BY <1>1, <1>2
<1>4. s[m] = c /\ \A i \in 1..Len(p) : s[m + i] = p[i]
  <2>1. \A i \in 1..Len(p) : 1 + i \in 1..Len(end) /\ l + (1 + i) = m + i
    BY <1>1, <1>2
  <2>2. 1 \in 1..Len(end)
    BY <1>1
  <2>3. QED BY <1>1, <1>2, <2>1, <2>2
<1>5. SubSeq(s, 1, l) = a
  <2> DEFINE b == SubSeq(s, 1, l)
  <2>1. b \in S /\ Len(b) = l /\ \A i \in 1..l : b[i] = s[i]
    BY <1>2, <1>3, Cut DEF S
  <2> HIDE DEF b
  <2>2. b = a
    BY <1>2, <2>1, SeqEqual DEF S, l
  <2>3. QED BY <2>2 DEF b
<1>6. SubSeq(s, m + 1, n) = p
  <2> DEFINE from == m + 1
             b == SubSeq(s, from, n)
  <2>1. from \in Nat \ {0} /\ n \in 0..Len(s) /\ n - from + 1 = Len(p) /\ (from <= n <=> 0 < Len(p))
    BY <1>1, <1>2, <1>3
  <2>2. \A i \in 1..Len(p) : from + i - 1 = m + i
    BY <1>1, <1>2
  <2> HIDE DEF from
  <2>3. b \in S /\ Len(b) = (IF from <= n THEN n - from + 1 ELSE 0) /\ \A i \in 1..(n - from + 1) : b[i] = s[from + i - 1]
    BY <1>2, <2>1, AnyCut DEF S
  <2> HIDE DEF b
  <2>4. Len(b) = Len(p)
    BY <1>1, <2>1, <2>3
  <2>5. \A i \in 1..Len(p) : b[i] = p[i]
    BY <1>4, <2>1, <2>2, <2>3
  <2>6. b = p
    BY <2>3, <2>4, <2>5, SeqEqual DEF S
  <2>7. QED BY <2>6 DEF b, from
<1>7a. s \in Seq(A)
  BY <1>2 DEF S
<1>7b. PICK f : Splits(f, A, s, c)
  BY <1>7a, SplitSplits, Zenon
<1>7. /\ f[0] = <<<<>>>>
      /\ \A i \in 1..n : f[i] = Chopped(f[i - 1], s[i], c)
      /\ Split(s, c) = f[n]
  BY <1>7b DEF Splits
<1>8. f[l] = front
  <2>1. f[l] = Split(SubSeq(s, 1, l), c)
    <3> HIDE DEF n, m
    <3>1. l \in 0..Len(s) /\ f[0] = <<<<>>>> /\ \A i \in 1..Len(s) : f[i] = Chopped(f[i - 1], s[i], c)
      BY <1>3, <1>7 DEF n
    <3>2. QED BY <1>7a, <3>1, SplitFirst
  <2>2. QED BY <1>5, <2>1 DEF front
<1>9. f[m] = Append(front, <<>>)
  BY <1>3, <1>4, <1>7, <1>8 DEF Chopped
<1>10. \A i \in (m + 1)..n : f[i] = Chopped(f[i - 1], s[i], c) /\ s[i] # c
  <2> TAKE i \in (m + 1)..n
  <2>1. i \in 1..n /\ i - m \in 1..Len(p) /\ m + (i - m) = i
    <3> DEFINE d == Len(p)
    <3>1. m \in Nat /\ d \in Nat /\ n = m + d
      BY <1>3
    <3> HIDE DEF m, n, d
    <3>2. i \in 1..n /\ i - m \in 1..d /\ m + (i - m) = i
      BY <3>1
    <3>3. QED BY <3>2 DEF d
  <2>2. s[i] # c
    BY <1>4, <2>1
  <2>3. QED BY <1>7, <2>1, <2>2
<1>11. front \in Seq(Seq(A))
  BY SplitType DEF front
<1>12. f[n] = Append(front, SubSeq(s, m + 1, n))
  <2>1. m \in 0..Len(s) /\ RunsOn(f, s, c, m, front)
    <3>1. m \in 0..Len(s)
      BY <1>3
    <3> HIDE DEF m
    <3>2. QED BY <1>9, <1>10, <3>1 DEF RunsOn
  <2> HIDE DEF n, m
  <2>2. f[Len(s)] = Append(front, SubSeq(s, m + 1, Len(s)))
    BY <1>7a, <1>11, <2>1, LastPiece, Zenon
  <2>3. QED BY <2>2 DEF n
<1>13. QED BY <1>6, <1>7, <1>12 DEF front, s, end

-------------------------------------------------------------------------------
\* What a query is put together from is what it is split to.
Together(order) == order[1] \o FlattenSeq([i \in 1..(Len(order) - 1) |-> <<Ampersand>> \o order[i + 1]])

LEMMA TogetherSplits ==
  ASSUME NEW order \in Seq(Seq(Nat \ {Ampersand})), order # <<>>
  PROVE  Together(order) \in Seq(Nat) /\ Split(Together(order), Ampersand) = order
<1> DEFINE S == Seq(Nat)
           Q == Seq(Nat \ {Ampersand})
           m == Len(order) - 1
           q == [i \in 1..m |-> <<Ampersand>> \o order[i + 1]]
<1>1. m \in Nat /\ Len(order) = m + 1
  OBVIOUS
<1>2. \A i \in 1..(m + 1) : order[i] \in S /\ \A j \in 1..Len(order[i]) : order[i][j] # Ampersand
  <2> TAKE i \in 1..(m + 1)
  <2>1. order[i] \in Q
    BY <1>1, ElementOfSeq
  <2>2. Nat \ {Ampersand} \subseteq Nat
    OBVIOUS
  <2>3. order[i] \in Seq(Nat)
    BY <2>1, <2>2, SeqMonotonic
  <2>4. \A j \in 1..Len(order[i]) : order[i][j] \in Nat \ {Ampersand}
    BY <2>1, ElementOfSeq
  <2>5. QED BY <2>3, <2>4
<1>3. <<Ampersand>> \in S /\ Ampersand \in Nat
  BY DEF Ampersand
<1>4. q \in Seq(S) /\ Len(q) = m /\ \A i \in 1..m : q[i] = <<Ampersand>> \o order[i + 1]
  <2>1. \A i \in 1..m : <<Ampersand>> \o order[i + 1] \in S
    <3> TAKE i \in 1..m
    <3>1. i + 1 \in 1..(m + 1)
      BY <1>1
    <3>2. order[i + 1] \in S
      BY <1>2, <3>1
    <3>3. QED BY <1>3, <3>2, ConcatProperties
  <2> HIDE DEF S, m
  <2>2. QED BY <1>1, <2>1
<1> HIDE DEF q
<1>5. PICK f : /\ f \in [0..m -> S] /\ f[0] = <<>>
               /\ \A i \in 1..m : f[i] = f[i - 1] \o q[i]
               /\ FlattenSeq(q) = f[m]
  <2>1. q \in Seq(Seq(Nat))
    BY <1>4
  <2>2. PICK f : /\ f \in [0..Len(q) -> Seq(Nat)] /\ f[0] = <<>>
                 /\ \A i \in 1..Len(q) : f[i] = f[i - 1] \o q[i]
                 /\ FlattenSeq(q) = f[Len(q)]
    BY <2>1, FlattenIs
  <2>3. QED BY <1>4, <2>2
<1>6. Together(order) = order[1] \o f[m]
  BY <1>5 DEF Together, q
<1> HIDE DEF S, m, Q
<1> DEFINE So(k) == order[1] \o f[k]
           T == {k \in 0..m : Split(So(k), Ampersand) = SubSeq(order, 1, k + 1)}
<1>7. \A k \in 0..m : So(k) \in S
  <2> TAKE k \in 0..m
  <2>1. f[k] \in S /\ 1 \in 1..(m + 1)
    BY <1>1, <1>5
  <2>2. order[1] \in S
    BY <1>2, <2>1
  <2>3. QED BY <2>1, <2>2, ConcatProperties DEF S
<1>8. 0 \in T
  <2>1. order[1] \in S /\ (\A j \in 1..Len(order[1]) : order[1][j] # Ampersand)
    BY <1>1, <1>2
  <2>2. So(0) = order[1]
    BY <1>5, <2>1, ConcatEmptySeq DEF S
  <2>3. Split(order[1], Ampersand) = <<order[1]>>
    BY <2>1, SplitPlain DEF S
  <2>4. SubSeq(order, 1, 1) = <<order[1]>>
    <3> DEFINE one == SubSeq(order, 1, 1)
               first == <<order[1]>>
    <3>1. 1 \in 0..Len(order) /\ order[1] \in Q
      BY <1>1, ElementOfSeq DEF Q
    <3>2. one \in Seq(Q) /\ Len(one) = 1 /\ one[1] = order[1]
      <4>1. order \in Seq(Q)
        BY DEF Q
      <4>2. one \in Seq(Q) /\ Len(one) = 1 /\ \A i \in 1..1 : one[i] = order[i]
        BY <3>1, <4>1, Cut
      <4>3. QED BY <4>2
    <3>3. first \in Seq(Q) /\ Len(first) = 1 /\ first[1] = order[1]
      BY <3>1
    <3> HIDE DEF one, first
    <3>4. \A i \in 1..1 : one[i] = first[i]
      BY <3>2, <3>3
    <3>5. one = first
      BY <3>2, <3>3, <3>4, SeqEqual
    <3>6. QED BY <3>5 DEF one, first
  <2>5. 0 \in 0..m /\ 0 + 1 = 1
    BY <1>1
  <2>6. QED BY <2>2, <2>3, <2>4, <2>5
<1>9. ASSUME NEW k \in 0..(m - 1), k \in T PROVE k + 1 \in T
  <2>1. /\ k + 1 \in 1..m /\ (k + 1) - 1 = k /\ k + 1 \in 0..m /\ k \in 0..m
        /\ (k + 1) + 1 \in 1..(m + 1) /\ k \in Nat
    BY <1>1
  <2> DEFINE p == order[(k + 1) + 1]
             a == So(k)
  <2>2. p \in S /\ (\A j \in 1..Len(p) : p[j] # Ampersand) /\ a \in S
    BY <1>2, <1>7, <2>1
  <2>3. f[k + 1] = f[k] \o (<<Ampersand>> \o p)
    BY <1>4, <1>5, <2>1
  <2>4. So(k + 1) = a \o (<<Ampersand>> \o p)
    <3>2. order[1] \in S /\ f[k] \in S /\ <<Ampersand>> \o p \in S
      <4>1. 1 \in 1..(m + 1)
        BY <1>1
      <4>2. <<Ampersand>> \o p \in S
        BY <1>3, <2>2, ConcatProperties DEF S
      <4>3. QED BY <1>2, <1>5, <2>1, <4>1, <4>2
    <3>3. (order[1] \o f[k]) \o (<<Ampersand>> \o p) = order[1] \o (f[k] \o (<<Ampersand>> \o p))
      BY <3>2, Associates, ZenonT(40) DEF S
    <3>4. QED BY <2>3, <3>3
  <2>5. Split(a, Ampersand) = SubSeq(order, 1, k + 1)
    BY <1>9
  <2> HIDE DEF a, p
  <2>6. Split(a \o (<<Ampersand>> \o p), Ampersand) = Append(Split(a, Ampersand), p)
    BY <1>3, <2>2, SplitAppend DEF S
  <2>7. SubSeq(order, 1, (k + 1) + 1) = Append(SubSeq(order, 1, k + 1), order[(k + 1) + 1])
    <3>1. \A j \in 0..m : SubSeq(order, 1, j + 1) \in Seq(S) /\ Len(SubSeq(order, 1, j + 1)) = j + 1
                          /\ \A i \in 1..(j + 1) : SubSeq(order, 1, j + 1)[i] = order[i]
      <4> TAKE j \in 0..m
      <4> DEFINE to == j + 1
      <4>1. to \in 0..Len(order)
        BY <1>1
      <4>2. order \in Seq(S)
        <5>1. Q \subseteq S
          BY SeqMonotonic DEF Q, S
        <5>2. QED BY <5>1, SeqMonotonic DEF Q
      <4> HIDE DEF to
      <4>3. SubSeq(order, 1, to) \in Seq(S) /\ Len(SubSeq(order, 1, to)) = to /\ \A i \in 1..to : SubSeq(order, 1, to)[i] = order[i]
        BY <4>1, <4>2, Cut
      <4>4. QED BY <4>3 DEF to
    <3> DEFINE x == SubSeq(order, 1, (k + 1) + 1)
               y == SubSeq(order, 1, k + 1)
               z == Append(y, p)
    <3>2. x \in Seq(S) /\ Len(x) = (k + 1) + 1 /\ \A i \in 1..((k + 1) + 1) : x[i] = order[i]
      BY <2>1, <3>1
    <3>3. y \in Seq(S) /\ Len(y) = k + 1 /\ \A i \in 1..(k + 1) : y[i] = order[i]
      BY <2>1, <3>1
    <3> HIDE DEF x, y
    <3>4. z \in Seq(S) /\ Len(z) = Len(y) + 1 /\ z[Len(y) + 1] = p /\ \A i \in 1..Len(y) : z[i] = y[i]
      BY <2>2, <3>3, AppendProperties
    <3> HIDE DEF z
    <3>5. \A i \in 1..((k + 1) + 1) : i \in 1..(k + 1) \/ i = (k + 1) + 1
      BY <2>1
    <3>6. \A i \in 1..((k + 1) + 1) : x[i] = z[i]
      BY <3>2, <3>3, <3>4, <3>5 DEF p
    <3>7. Len(z) = (k + 1) + 1
      BY <3>3, <3>4
    <3>8. x = z
      BY <3>2, <3>4, <3>6, <3>7, SeqEqual
    <3>9. QED BY <3>8 DEF x, y, z, p
  <2>8. QED BY <2>1, <2>4, <2>5, <2>6, <2>7 DEF p
<1> HIDE DEF T
<1>10. \A k \in 0..m : k \in T
  BY <1>1, <1>8, <1>9, Induction
<1>11. m \in T
  BY <1>1, <1>10
<1>12. SubSeq(order, 1, m + 1) = order
  BY <1>1, SubSeqFull
<1>13. m \in 0..m
  BY <1>1
<1>14. QED BY <1>6, <1>7, <1>11, <1>12, <1>13 DEF T, S

-------------------------------------------------------------------------------
\* Where a text is cut at a character that its front does not have.
Lacks(s, c) == \A i \in 1..Len(s) : s[i] # c
Behind(s, front, c, rest) == s = front \o (<<c>> \o rest)
CutAt(s, front, c, rest) ==
  /\ Before(s, c) = Len(front) /\ Len(front) < Len(s)
  /\ SubSeq(s, 1, Len(front)) = front /\ SubSeq(s, Len(front) + 2, Len(s)) = rest

LEMMA NotCut ==
  ASSUME NEW s \in Seq(Nat), NEW c, Lacks(s, c)
  PROVE  Before(s, c) = Len(s) /\ SubSeq(s, 1, Len(s)) = s /\ SubSeq(s, Len(s) + 2, Len(s)) = <<>>
<1>1. Len(s) \in 0..Len(s) /\ Len(s) \in Nat
  OBVIOUS
<1>2. Before(s, c) = Len(s)
  BY <1>1, BeforeIsOnly DEF Lacks
<1>3. SubSeq(s, Len(s) + 2, Len(s)) = <<>>
  BY <1>1
<1>4. QED BY <1>2, <1>3, SubSeqFull

LEMMA CutBehind ==
  ASSUME NEW front \in Seq(Nat), NEW c \in Nat, Lacks(front, c), NEW rest \in Seq(Nat),
         NEW s, Behind(s, front, c, rest)
  PROVE  CutAt(s, front, c, rest)
<1> DEFINE S == Seq(Nat)
           d == <<c>>
           end == d \o rest
           l == Len(front)
           n == Len(s)
<1>0. \A a, b \in Seq(Nat) :
        /\ a \o b \in Seq(Nat) /\ Len(a \o b) = Len(a) + Len(b) /\ Len(a) \in Nat /\ Len(b) \in Nat
        /\ \A i \in 1..Len(a) : (a \o b)[i] = a[i]
        /\ \A i \in 1..Len(b) : (a \o b)[Len(a) + i] = b[i]
  BY ConcatOf
<1>1. d \in S /\ Len(d) = 1 /\ d[1] = c
  OBVIOUS
<1> HIDE DEF d
<1>2. end \in S /\ Len(end) = Len(rest) + 1 /\ end[1] = c /\ Len(rest) \in Nat /\ \A i \in 1..Len(rest) : end[1 + i] = rest[i]
  <2>1. /\ end \in S /\ Len(end) = Len(d) + Len(rest) /\ Len(rest) \in Nat
        /\ \A i \in 1..Len(d) : end[i] = d[i]
        /\ \A i \in 1..Len(rest) : end[Len(d) + i] = rest[i]
    BY <1>0, <1>1
  <2> HIDE DEF end, S
  <2>2. end[1] = c /\ Len(end) = Len(rest) + 1
    BY <1>1, <2>1
  <2>3. \A i \in 1..Len(rest) : end[1 + i] = rest[i]
    BY <1>1, <2>1
  <2>4. QED BY <2>1, <2>2, <2>3
<1>3. s = front \o end
  BY DEF d, Behind
<1> HIDE DEF end
<1>4. /\ s \in S /\ n = l + Len(end) /\ l \in Nat
      /\ \A i \in 1..l : s[i] = front[i]
      /\ \A i \in 1..Len(end) : s[l + i] = end[i]
  <2>1. /\ front \o end \in Seq(Nat) /\ Len(front \o end) = Len(front) + Len(end) /\ Len(front) \in Nat /\ Len(end) \in Nat
        /\ \A i \in 1..Len(front) : (front \o end)[i] = front[i]
        /\ \A i \in 1..Len(end) : (front \o end)[Len(front) + i] = end[i]
    BY <1>0, <1>2, Zenon
  <2>2. QED BY <1>3, <2>1, Zenon
<1>5. l < n /\ l \in 0..n /\ n = l + 1 + Len(rest)
  BY <1>2, <1>4
<1>6. s[l + 1] = c /\ \A i \in 1..Len(rest) : s[l + 1 + i] = rest[i]
  <2>1. 1 \in 1..Len(end) /\ \A i \in 1..Len(rest) : 1 + i \in 1..Len(end) /\ l + (1 + i) = l + 1 + i
    BY <1>2, <1>4
  <2>2. QED BY <1>2, <1>4, <2>1
<1>7. Before(s, c) = l
  <2>1. \A j \in 1..l : s[j] # c
    BY <1>4 DEF Lacks
  <2>2. s \in Seq(Nat) /\ l \in 0..Len(s) /\ (l < Len(s) => s[l + 1] = c)
    BY <1>4, <1>5, <1>6
  <2> HIDE DEF l
  <2>3. QED BY <2>1, <2>2, BeforeIsOnly
<1>8. SubSeq(s, 1, l) = front
  <2> DEFINE b == SubSeq(s, 1, l)
  <2>1. b \in S /\ Len(b) = l /\ \A i \in 1..l : b[i] = s[i]
    BY <1>4, <1>5, Cut
  <2> HIDE DEF b
  <2>2. Len(b) = Len(front) /\ \A i \in 1..Len(b) : b[i] = front[i]
    BY <1>4, <2>1
  <2>3. b = front
    BY <2>1, <2>2, SeqEqual
  <2>4. QED BY <2>3 DEF b
<1>9. SubSeq(s, l + 2, n) = rest
  <2> DEFINE from == l + 2
             b == SubSeq(s, from, n)
  <2>1. from \in Nat \ {0} /\ n \in 0..Len(s) /\ n - from + 1 = Len(rest) /\ (from <= n <=> 0 < Len(rest)) /\ Len(rest) \in Nat
    BY <1>2, <1>4, <1>5
  <2>2. \A i \in 1..Len(rest) : from + i - 1 = l + 1 + i
    BY <1>4
  <2> HIDE DEF from, l, n, S
  <2>2a. s \in Seq(Nat)
    BY <1>4 DEF S
  <2>3. b \in S /\ Len(b) = (IF from <= n THEN n - from + 1 ELSE 0) /\ \A i \in 1..(n - from + 1) : b[i] = s[from + i - 1]
    BY <2>1, <2>2a, AnyCut DEF S
  <2> HIDE DEF b
  <2>4. Len(b) = Len(rest)
    BY <2>1, <2>3
  <2>5. \A i \in 1..Len(rest) : b[i] = rest[i]
    BY <1>6, <2>1, <2>2, <2>3
  <2>6. b = rest
    BY <2>3, <2>4, <2>5, SeqEqual DEF S
  <2>7. QED BY <2>6 DEF b, from, l, n
<1>10. QED BY <1>5, <1>7, <1>8, <1>9 DEF CutAt

\* What a text is like in front of a character, and behind it.
Ends(s, front, c, rest, has) == IF has THEN Behind(s, front, c, rest) ELSE s = front
Parts(s, front, c, rest, has) ==
  /\ SubSeq(s, 1, Before(s, c)) = front
  /\ Before(s, c) = Len(s) <=> ~has
  /\ SubSeq(s, Before(s, c) + 2, Len(s)) = IF has THEN rest ELSE <<>>
LEMMA CutParts ==
  ASSUME NEW front \in Seq(Nat), NEW c \in Nat, Lacks(front, c), NEW rest \in Seq(Nat),
         NEW has \in BOOLEAN,
         NEW s, Ends(s, front, c, rest, has)
  PROVE  Parts(s, front, c, rest, has)
<1>0. IF has THEN Behind(s, front, c, rest) ELSE s = front
  BY Zenon DEF Ends
<1>1. CASE has
  <2>1. Behind(s, front, c, rest)
    BY <1>0, <1>1
  <2>2. /\ Before(s, c) = Len(front) /\ Len(front) < Len(s)
        /\ SubSeq(s, 1, Len(front)) = front /\ SubSeq(s, Len(front) + 2, Len(s)) = rest
    <3>1. CutAt(s, front, c, rest)
      BY <2>1, CutBehind
    <3>2. QED BY <3>1, Zenon DEF CutAt
  <2>3. Before(s, c) # Len(s)
    <3>1. Len(front) \in Nat /\ s \in Seq(Nat)
      <4>1. <<c>> \in Seq(Nat)
        OBVIOUS
      <4>2. <<c>> \o rest \in Seq(Nat)
        BY <4>1, ConcatProperties
      <4>3. QED BY <2>1, <4>2, ConcatProperties DEF Behind
    <3>2. Len(s) \in Nat
      BY <3>1
    <3> HIDE <2>1
    <3>3. QED BY <2>2, <3>1, <3>2
  <2>4. QED BY <1>1, <2>2, <2>3, Zenon DEF Parts
<1>2. CASE ~has
  <2>1. s = front
    BY <1>0, <1>2
  <2>2. Before(front, c) = Len(front) /\ SubSeq(front, 1, Len(front)) = front /\ SubSeq(front, Len(front) + 2, Len(front)) = <<>>
    BY NotCut, Zenon
  <2>3. QED BY <1>2, <2>1, <2>2, Zenon DEF Parts
<1>3. QED BY <1>1, <1>2

-------------------------------------------------------------------------------
\* No parameter has the character that ends it.
LEMMA ParamsLackAmpersand ==
  ASSUME NEW s \in Seq(Nat)
  PROVE  Params(s) \subseteq Seq(Nat \ {Ampersand})
<1> DEFINE Q == Seq(Nat \ {Ampersand})
           query == SubSeq(s, 1, Before(s, Hash))
           b == Before(query, Question)
           rest == SubSeq(query, b + 2, Len(query))
           given == Given(s)
<1>1. query \in Seq(Nat)
  <2>1. Before(s, Hash) \in 0..Len(s)
    BY BeforeIs
  <2>2. QED BY <2>1, Cut
<1> HIDE DEF query
<1>2. b \in 0..Len(query)
  BY <1>1, BeforeIs
<1> HIDE DEF b
<1>3. rest \in Seq(Nat)
  <2>1. b + 2 \in Nat \ {0} /\ Len(query) \in 0..Len(query)
    BY <1>1, <1>2
  <2>2. QED BY <1>1, <2>1, AnyCut
<1>4. given = IF b = Len(query) THEN <<>> ELSE Split(rest, Ampersand)
  BY Zenon DEF Given, query, b
<1> HIDE DEF rest
<1>5. Split(rest, Ampersand) \in Seq(Q)
  BY <1>3, SplitPure
<1> HIDE DEF Q, given
<1>6. given \in Seq(Q)
  BY <1>4, <1>5
<1>7. Params(s) = {given[i] : i \in LastOfName(given)}
  BY ParamsAre DEF given
<1>8. LastOfName(given) \subseteq DOMAIN given
  BY DEF LastOfName
<1>9. \A i \in DOMAIN given : given[i] \in Q
  BY <1>6, ElementOfSeq
<1>10. QED BY <1>7, <1>8, <1>9 DEF Q

\* Their keys differ, so nothing is left out when they are read back.
LEMMA KeysDiffer ==
  ASSUME NEW s, NEW x \in Params(s), NEW y \in Params(s), x # y, Given(s) \in Seq(Seq(Nat))
  PROVE  Key(x) # Key(y)
<1> DEFINE given == Given(s)
<1>1. Params(s) = {given[i] : i \in LastOfName(given)}
  BY ParamsAre
<1> HIDE DEF given
<1>2. PICK i \in LastOfName(given) : x = given[i]
  BY <1>1
<1>3. PICK j \in LastOfName(given) : y = given[j]
  BY <1>1
<1>4. /\ i \in DOMAIN given /\ \A k \in DOMAIN given : k > i => Key(given[k]) # Key(given[i])
      /\ j \in DOMAIN given /\ \A k \in DOMAIN given : k > j => Key(given[k]) # Key(given[j])
  BY DEF LastOfName
<1>5. DOMAIN given \subseteq Nat
  BY DEF given
<1>6. i # j
  BY <1>2, <1>3
<1>7. i > j \/ j > i
  BY <1>4, <1>5, <1>6
<1>8. QED BY <1>2, <1>3, <1>4, <1>7

LEMMA OrderIsKept ==
  ASSUME NEW s \in Seq(Nat), NEW order \in SetToSeqs(Params(s)), NEW u, Given(u) = order
  PROVE  Params(u) = Params(s)
<1>1. /\ order \in Seq(Seq(QueryChars))
      /\ \A i, j \in 1..Len(order) : i # j => order[i] # order[j]
      /\ Params(s) = {order[i] : i \in 1..Len(order)}
  BY ParamsType, OrderType
<1>2. Given(s) \in Seq(Seq(Nat))
  <2>1. QueryChars \subseteq Nat
    BY DEF QueryChars
  <2>2. Seq(QueryChars) \subseteq Seq(Nat)
    BY <2>1, SeqMonotonic
  <2>3. QED BY <2>2, GivenType, SeqMonotonic
<1>3. DOMAIN order = 1..Len(order) /\ \A k \in DOMAIN order : k \in Nat
  BY <1>1
<1>4. ASSUME NEW i \in 1..Len(order), NEW k \in 1..Len(order), k > i PROVE Key(order[k]) # Key(order[i])
  <2>1. order[k] # order[i]
    BY <1>1, <1>3, <1>4
  <2>2. order[k] \in Params(s) /\ order[i] \in Params(s)
    BY <1>1
  <2>3. QED BY <1>2, <2>1, <2>2, KeysDiffer
<1>5. LastOfName(order) = DOMAIN order
  BY <1>3, <1>4 DEF LastOfName
<1>6. Params(u) = {order[i] : i \in LastOfName(order)}
  BY ParamsAre
<1>7. QED BY <1>1, <1>3, <1>5, <1>6

\* What is put behind the path is what is read there again.
LEMMA QueryIsKept ==
  ASSUME NEW s \in Seq(Nat), ~Panics(s), NEW u \in normalized(s)
  PROVE  Params(u) = Params(s) /\ Reference(u) = Reference(s)
<1>1. PICK order \in SetToSeqs(Params(s)) :
           /\ order \in Seq(Seq(QueryChars))
           /\ Joined(Path(s)) \in Seq(Nat \ {Hash, Question}) /\ DotFree(Joined(Path(s)))
           /\ Query(order) \o Fragment(s) \in Seq(Nat)
           /\ u = Joined(Path(s)) \o (Query(order) \o Fragment(s))
           /\ LocalPath(u) = Joined(Path(s))
  BY NormalizedIs
<1> DEFINE path == Joined(Path(s))
           q == Query(order)
           meant == Reference(s)
           front == path \o q
           there == order # <<>>
           t == IF there THEN Together(order) ELSE <<>>
           has == meant # <<>>
<1>2. order \in Seq(Seq(Nat \ {Ampersand}))
  <2>1. Params(s) \subseteq Seq(Nat \ {Ampersand})
    BY ParamsLackAmpersand
  <2>2. order \in Seq(Params(s))
    <3>1. IsFiniteSet(Params(s))
      BY ParamsType
    <3>2. Cardinality(Params(s)) \in Nat
      BY <3>1, FS_CardinalityType
    <3>3. order \in [1..Cardinality(Params(s)) -> Params(s)]
      BY DEF SetToSeqs
    <3>4. QED BY <3>2, <3>3
  <2>3. QED BY <2>1, <2>2, SeqMonotonic
<1>3. t \in Seq(Nat) /\ (there => Split(t, Ampersand) = order)
  <2>1. CASE there
    <3>1. Together(order) \in Seq(Nat) /\ Split(Together(order), Ampersand) = order
      BY <1>2, <2>1, TogetherSplits
    <3>2. QED BY <2>1, <3>1
  <2>2. CASE ~there
    BY <2>2
  <2>3. QED BY <2>1, <2>2
<1>4. q = IF there THEN <<Question>> \o t ELSE <<>>
  <2>1. CASE there
    <3> DEFINE first == order[1]
               more == FlattenSeq([i \in 1..(Len(order) - 1) |-> <<Ampersand>> \o order[i + 1]])
    <3>1. q = <<Question>> \o first \o more
      BY <2>1, Zenon DEF Query
    <3>2. t = first \o more
      BY <2>1, Zenon DEF Together
    <3>3. <<Question>> \in Seq(Nat) /\ first \in Seq(Nat) /\ more \in Seq(Nat)
      <4>1. \A i \in 1..Len(order) : order[i] \in Seq(Nat)
        <5>1. Seq(QueryChars) \subseteq Seq(Nat)
          BY SeqMonotonic DEF QueryChars
        <5>2. QED BY <1>1, <5>1, ElementOfSeq
      <4>2. 1 \in 1..Len(order) /\ Len(order) - 1 \in Nat /\ \A i \in 1..(Len(order) - 1) : i + 1 \in 1..Len(order)
        BY <1>1, <2>1
      <4>3. <<Question>> \in Seq(Nat) /\ <<Ampersand>> \in Seq(Nat)
        BY DEF Question, Ampersand
      <4>4. \A i \in 1..(Len(order) - 1) : <<Ampersand>> \o order[i + 1] \in Seq(Nat)
        BY <4>1, <4>2, <4>3, ConcatProperties
      <4> DEFINE S == Seq(Nat)
                 w == [i \in 1..(Len(order) - 1) |-> <<Ampersand>> \o order[i + 1]]
      <4>5. w \in Seq(S)
        <5> HIDE DEF S
        <5>1. \A i \in 1..(Len(order) - 1) : <<Ampersand>> \o order[i + 1] \in S
          BY <4>4 DEF S
        <5>2. QED BY <4>2, <5>1
      <4> HIDE DEF w
      <4>6. FlattenSeq(w) \in Seq(Nat)
        BY <4>5, FlattenType
      <4>7. QED BY <4>1, <4>2, <4>3, <4>6 DEF w
    <3> HIDE DEF first, more, q, t
    <3>4. (<<Question>> \o first) \o more = <<Question>> \o (first \o more)
      BY <3>3, Associates, ZenonT(40)
    <3>5. QED BY <2>1, <3>1, <3>2, <3>4
  <2>2. CASE ~there
    BY <2>2 DEF Query
  <2>3. QED BY <2>1, <2>2
<1>5. /\ path \in Seq(Nat) /\ Lacks(path, Question) /\ Lacks(path, Hash)
      /\ q \in Seq(Nat) /\ Lacks(q, Hash) /\ meant \in Seq(Nat)
  <2>1. \A i \in 1..Len(path) : path[i] \in Nat \ {Hash, Question}
    BY <1>1, ElementOfSeq
  <2>2. path \in Seq(Nat)
    BY <1>1, SeqMonotonic
  <2>3. Query(order) \in Seq(QueryChars)
    BY <1>1, QueryType
  <2> HIDE DEF path, q
  <2>4. q \in Seq(QueryChars) /\ \A i \in 1..Len(q) : q[i] \in QueryChars
    BY <2>3, ElementOfSeq DEF q
  <2>5. q \in Seq(Nat)
    BY <2>4, SeqMonotonic DEF QueryChars
  <2>6. meant \in Seq(Nat)
    BY FragmentType
  <2>7. QED BY <2>1, <2>2, <2>4, <2>5, <2>6 DEF Lacks, QueryChars
<1>6. Fragment(s) = IF has THEN <<Hash>> \o meant ELSE <<>>
  BY DEF Fragment
<1>7. Fragment(s) \in Seq(Nat)
  BY FragmentType
<1>8. u = front \o Fragment(s)
  <2>1. (path \o q) \o Fragment(s) = path \o (q \o Fragment(s))
    BY <1>5, <1>7, Associates, ZenonT(40)
  <2>2. QED BY <1>1, <2>1
<1> HIDE DEF path, q, meant, t
<1>9. front \in Seq(Nat) /\ Lacks(front, Hash)
  <2>1. /\ front \in Seq(Nat) /\ Len(front) = Len(path) + Len(q) /\ Len(path) \in Nat /\ Len(q) \in Nat
        /\ \A i \in 1..Len(path) : front[i] = path[i]
        /\ \A i \in 1..Len(q) : front[Len(path) + i] = q[i]
    BY <1>5, ConcatOf
  <2> HIDE DEF front
  <2>2. ASSUME NEW i \in 1..Len(front) PROVE front[i] # Hash
    <3>1. CASE i <= Len(path)
      <4>1. i \in 1..Len(path)
        BY <3>1
      <4>2. QED BY <1>5, <2>1, <4>1 DEF Lacks
    <3>2. CASE i > Len(path)
      <4>1. i - Len(path) \in 1..Len(q) /\ Len(path) + (i - Len(path)) = i
        BY <2>1, <3>2
      <4>2. QED BY <1>5, <2>1, <4>1 DEF Lacks
    <3>3. QED BY <2>1, <3>1, <3>2
  <2>3. QED BY <2>1, <2>2 DEF Lacks
<1>10. IF there THEN Behind(front, path, Question, t) ELSE front = path
  <2>1. CASE there
    BY <1>4, <2>1 DEF Behind
  <2>2. CASE ~there
    <3>1. path \o <<>> = path
      BY <1>5, ConcatEmptySeq
    <3>2. QED BY <1>4, <2>2, <3>1
  <2>3. QED BY <2>1, <2>2
<1> HIDE DEF front
<1>11. IF has THEN Behind(u, front, Hash, meant) ELSE u = front
  <2>1. CASE has
    BY <1>6, <1>8, <2>1 DEF Behind
  <2>2. CASE ~has
    <3>1. front \o <<>> = front
      BY <1>9, ConcatEmptySeq
    <3>2. QED BY <1>6, <1>8, <2>2, <3>1
  <2>3. QED BY <2>1, <2>2
<1>12. Hash \in Nat /\ Question \in Nat
  BY DEF Hash, Question
<1> DEFINE hash == Hash
           question == Question
<1>13. hash \in Nat /\ question \in Nat /\ has \in BOOLEAN /\ there \in BOOLEAN
  BY <1>12
<1> HIDE DEF has, there
<1>14. SubSeq(u, 1, Before(u, hash)) = front /\ SubSeq(u, Before(u, hash) + 2, Len(u)) = IF has THEN meant ELSE <<>>
  <2>1. Ends(u, front, hash, meant, has)
    BY <1>11, Zenon DEF Ends, hash
  <2>2. Lacks(front, hash)
    BY <1>9
  <2> HIDE DEF hash
  <2>3. Parts(u, front, hash, meant, has)
    BY <1>5, <1>9, <1>13, <2>1, <2>2, CutParts
  <2>4. QED BY <2>3, Zenon DEF Parts
<1>15. /\ Before(front, question) = Len(front) <=> ~there
       /\ SubSeq(front, Before(front, question) + 2, Len(front)) = IF there THEN t ELSE <<>>
  <2>1. Ends(front, path, question, t, there)
    BY <1>10, Zenon DEF Ends, question
  <2>2. Lacks(path, question)
    BY <1>5
  <2> HIDE DEF question
  <2>3. Parts(front, path, question, t, there)
    BY <1>3, <1>5, <1>13, <2>1, <2>2, CutParts
  <2>4. QED BY <2>3, Zenon DEF Parts
<1>16. Reference(u) = meant
  BY <1>14, Zenon DEF Reference, has, hash
<1>17. Given(u) = order
  <2>1. Given(u) = IF Before(front, Question) = Len(front) THEN <<>>
                   ELSE Split(SubSeq(front, Before(front, Question) + 2, Len(front)), Ampersand)
    BY <1>14, Zenon DEF Given, hash
  <2>2. CASE there
    BY <1>3, <1>15, <2>1, <2>2, Zenon DEF question
  <2>3. CASE ~there
    BY <1>15, <2>1, <2>3, Zenon DEF question, there
  <2>4. QED BY <2>2, <2>3
<1>18. QED BY <1>16, <1>17, OrderIsKept DEF meant

-------------------------------------------------------------------------------
\* What is made of a condition matches where the condition is met, and so it is for a
\* route: the conditions that were passed over are those that nothing has to meet.
LEMMA ConditionAsWritten ==
  ASSUME NEW m, Of(m, "path_prefix") \subseteq Seq(Nat), NEW target, NEW fields,
         Has(m, "name"), DOMAIN m \cap {"path_regex", "path_prefix", "header"} # {}
  PROVE  MatchOne(PathMatch(m), target, fields) <=> Meets(m, target, fields)
<1>1. CASE Has(m, "path_regex")
  <2>1. PathMatch(m) = [kind |-> "PathRegex", of |-> ToSet(m.path_regex)]
    BY <1>1 DEF PathMatch
  <2>2. MatchOne(PathMatch(m), target, fields) <=> \E n \in ToSet(m.path_regex) : Occurs(n, target)
    BY <2>1 DEF MatchOne, AnyOf
  <2>3. QED BY <1>1, <2>2 DEF Meets
<1>2. CASE ~Has(m, "path_regex") /\ Has(m, "path_prefix")
  <2>1. PathMatch(m) = [kind |-> "PathPrefix", of |-> ToSet(m.path_prefix)]
    BY <1>2 DEF PathMatch
  <2>2. MatchOne(PathMatch(m), target, fields) <=> \E n \in ToSet(m.path_prefix) : IsPrefix(n, target)
    BY <2>1 DEF MatchOne
  <2>3. ASSUME NEW n \in ToSet(m.path_prefix)
        PROVE  IsPrefix(n, target) <=> Len(n) <= Len(target) /\ SubSeq(target, 1, Len(n)) = n
    <3>1. n \in Seq(Nat)
      BY <1>2 DEF Of, Items
    <3>2. SubSeq(n, 1, Len(n)) = n
      BY <3>1
    <3>3. QED BY <3>2 DEF IsPrefix
  <2>4. QED BY <1>2, <2>2, <2>3 DEF Meets
<1>3. CASE ~Has(m, "path_regex") /\ ~Has(m, "path_prefix")
  <2> DEFINE fit == {h \in ToSet(m.header) : Has(h, "header_name") /\ (Has(h, "header_value") \/ Has(h, "header_regex"))}
             Kept(h) == IF Has(h, "header_value")
                   THEN [key |-> "String", name |-> h.header_name, text |-> h.header_value]
                   ELSE [key |-> "NoCaseString", name |-> h.header_name, text |-> h.header_regex]
  <2>1. Of(m, "header") = ToSet(m.header)
    BY <1>3 DEF Has, Of, Items
  <2>2. PathMatch(m) = [kind |-> "HeaderMatch", of |-> {Kept(h) : h \in fit}]
    BY <1>3 DEF PathMatch, HeaderMatch
  <2> HIDE DEF fit, Kept
  <2>3. MatchOne(PathMatch(m), target, fields) <=> \A h \in fit : MatchHeader(Kept(h), fields)
    <3>1. PathMatch(m).kind = "HeaderMatch" /\ PathMatch(m).of = {Kept(h) : h \in fit}
      BY <2>2
    <3>2. MatchOne(PathMatch(m), target, fields) <=> \A k \in PathMatch(m).of : MatchHeader(k, fields)
      BY <3>1 DEF MatchOne
    <3>3. QED BY <3>1, <3>2
  <2>4. Meets(m, target, fields) <=>
          \A h \in ToSet(m.header) :
            Has(h, "header_name") /\ Has(h, "header_regex") /\ ~Has(h, "header_value") =>
              Has(fields, h.header_name) /\ Occurs(h.header_regex, fields[h.header_name])
    BY <1>3, <2>1 DEF Meets
  <2>5. ASSUME NEW h \in fit
        PROVE  MatchHeader(Kept(h), fields) <=>
                 (~Has(h, "header_value") =>
                    Has(fields, h.header_name) /\ Occurs(h.header_regex, fields[h.header_name]))
    BY <2>5 DEF MatchHeader, fit, Kept
  <2>6. QED BY <2>3, <2>4, <2>5 DEF fit
<1>4. QED BY <1>1, <1>2, <1>3

LEMMA RouteAsWritten ==
  ASSUME NEW route, \A m \in Of(route, "path_matches") : Of(m, "path_prefix") \subseteq Seq(Nat),
         NEW target, NEW fields
  PROVE  MatchRoute(RouteConfig(route), target, fields) <=>
           \A m \in Of(route, "path_matches") : Meets(m, target, fields)
<1> DEFINE fit == {m \in Of(route, "path_matches") :
                     Has(m, "name") /\ DOMAIN m \cap {"path_regex", "path_prefix", "header"} # {}}
<1>1. RouteConfig(route).path_matches = {PathMatch(m) : m \in fit}
  BY DEF RouteConfig
<1>2. ASSUME NEW m \in Of(route, "path_matches"), m \notin fit
      PROVE  Meets(m, target, fields)
  <2>1. CASE ~Has(m, "name")
    BY <2>1 DEF Meets
  <2>2. CASE Has(m, "name")
    <3>1. ~Has(m, "path_regex") /\ ~Has(m, "path_prefix") /\ ~Has(m, "header")
      BY <1>2, <2>2 DEF Has
    <3>2. Of(m, "header") = {}
      BY <3>1 DEF Of, Items, ToSet
    <3>3. QED BY <2>2, <3>1, <3>2 DEF Meets
  <2>3. QED BY <2>1, <2>2
<1>3. ASSUME NEW m \in fit
      PROVE  MatchOne(PathMatch(m), target, fields) <=> Meets(m, target, fields)
  BY <1>3, ConditionAsWritten
<1> HIDE DEF fit
<1>4. MatchRoute(RouteConfig(route), target, fields) <=> \A m \in fit : MatchOne(PathMatch(m), target, fields)
  BY <1>1 DEF MatchRoute
<1>5. fit \subseteq Of(route, "path_matches")
  BY DEF fit
<1>6. QED BY <1>2, <1>3, <1>4, <1>5

-------------------------------------------------------------------------------
Takers(document) ==
  {i \in Http(document) :
    use_tls => \E n \in Of(document.protocols[i], "sni") : Occurs(LowerCase(n), LowerCase(conn.sni))}

\* A connection that was taken has what its document says of the protocol that took it.
Taken ==
  /\ conn.document \in Documents /\ Takers(conn.document) # {}
  /\ conn.virtual_hosts = HttpProtocolConfig(Taker(conn.document)).virtual_hosts

HostMatches(h) == MatchVhost(conn.virtual_hosts[h], asked.headers)
RouteMatches(h, k) == MatchRoute(conn.virtual_hosts[h].routes[k], uri, asked.headers)

\* What the YAML has for a connection.
Written == Items(Taker(conn.document), "virtual_hosts")
Routes(h) == Items(Written[h], "routes")

LEMMA ListIs ==
  ASSUME NEW items, IsList(items)
  PROVE  Len(items) \in Nat /\ DOMAIN items = 1..Len(items)
BY DEF IsList

LEMMA TakerIsListed ==
  ASSUME Taken
  PROVE  \E i \in Http(conn.document) : Taker(conn.document) = conn.document.protocols[i]
<1>1. IsList(Items(conn.document, "protocols"))
  BY DocumentsAssumption DEF Taken
<1>2. Takers(conn.document) \subseteq Http(conn.document) /\ Http(conn.document) \subseteq Nat
  BY <1>1, ListIs DEF Takers, Http
<1>3. Min(Takers(conn.document)) \in Takers(conn.document)
  BY <1>2, MinIsLeast DEF Taken
<1>4. Taker(conn.document) = conn.document.protocols[Min(Takers(conn.document))]
  BY DEF Taker, Takers
<1>5. QED BY <1>2, <1>3, <1>4

\* What was parsed has a host for every host of the document, and a route for every
\* route, each at its place.
LEMMA TakenHosts ==
  ASSUME Taken
  PROVE  /\ Len(Written) \in Nat /\ DOMAIN Written = 1..Len(Written)
         /\ Len(conn.virtual_hosts) = Len(Written)
         /\ \A h \in DOMAIN Written : conn.virtual_hosts[h] = VirtualHostConfig(Written[h])
         /\ \A h \in DOMAIN Written : Written[h] \in Hosts(conn.document)
<1>1. PICK i \in Http(conn.document) : Taker(conn.document) = conn.document.protocols[i]
  BY TakerIsListed
<1>2. IsList(Written)
  BY <1>1, DocumentsAssumption DEF Taken, Written
<1>3. Len(Written) \in Nat /\ DOMAIN Written = 1..Len(Written)
  BY <1>2, ListIs
<1>4. conn.virtual_hosts = [h \in DOMAIN Written |-> VirtualHostConfig(Written[h])]
  BY DEF Taken, HttpProtocolConfig, Written
<1>5. Len(conn.virtual_hosts) = Len(Written)
  BY <1>3, <1>4
<1>6. ASSUME NEW h \in DOMAIN Written PROVE Written[h] \in Hosts(conn.document)
  BY <1>1 DEF Written, Hosts, Of, ToSet
<1>7. QED BY <1>3, <1>4, <1>5, <1>6

LEMMA TakenRoutes ==
  ASSUME Taken, NEW h \in DOMAIN Written
  PROVE  /\ Len(Routes(h)) \in Nat /\ DOMAIN Routes(h) = 1..Len(Routes(h))
         /\ Len(conn.virtual_hosts[h].routes) = Len(Routes(h))
         /\ \A k \in DOMAIN Routes(h) :
              /\ Routes(h)[k] = Written[h].routes[k]
              /\ IsList(Items(Routes(h)[k], "actions"))
              /\ conn.virtual_hosts[h].routes[k] = RouteConfig(Routes(h)[k])
              /\ \A m \in Of(Routes(h)[k], "path_matches") :
                   m \in Conditions(conn.document) /\ Of(m, "path_prefix") \subseteq Seq(Nat)
<1>1. Written[h] \in Hosts(conn.document) /\ conn.virtual_hosts[h] = VirtualHostConfig(Written[h])
  BY TakenHosts
<1>2. IsList(Routes(h))
  BY <1>1, DocumentsAssumption DEF Taken, Routes
<1>3. Len(Routes(h)) \in Nat /\ DOMAIN Routes(h) = 1..Len(Routes(h))
  BY <1>2, ListIs
<1>4. conn.virtual_hosts[h].routes = [k \in DOMAIN Routes(h) |-> RouteConfig(Routes(h)[k])]
  BY <1>1 DEF VirtualHostConfig, Routes
<1>5. Len(conn.virtual_hosts[h].routes) = Len(Routes(h))
  BY <1>3, <1>4
<1>6. ASSUME NEW k \in DOMAIN Routes(h) PROVE Routes(h)[k] = Written[h].routes[k]
  BY <1>3 DEF Routes, Items
<1>7. ASSUME NEW k \in DOMAIN Routes(h), NEW m \in Of(Routes(h)[k], "path_matches")
      PROVE  m \in Conditions(conn.document) /\ Of(m, "path_prefix") \subseteq Seq(Nat)
  <2>1. Routes(h)[k] \in Of(Written[h], "routes")
    BY DEF Routes, Of, ToSet
  <2>2. m \in Conditions(conn.document)
    BY <1>1, <2>1 DEF Conditions
  <2>3. QED BY <2>2, DocumentsAssumption DEF Taken
<1>8. ASSUME NEW k \in DOMAIN Routes(h) PROVE IsList(Items(Routes(h)[k], "actions"))
  <2>1. Routes(h)[k] \in Of(Written[h], "routes")
    BY DEF Routes, Of, ToSet
  <2>2. QED BY <1>1, <2>1, DocumentsAssumption DEF Taken
<1>9. QED BY <1>3, <1>4, <1>5, <1>6, <1>7, <1>8

\* The conditions of a document are met where those that were parsed match.
LEMMA FitsAsMatched ==
  ASSUME Taken, NEW h \in DOMAIN Written, NEW k \in DOMAIN Routes(h), NEW target
  PROVE  Fits(Written[h], Written[h].routes[k], target) <=>
           HostMatches(h) /\ MatchRoute(conn.virtual_hosts[h].routes[k], target, asked.headers)
<1>1. HostMatches(h) <=>
        \E n \in Of(Written[h], "host_names") : Occurs(LowerCase(n), LowerCase(asked.headers.host))
  <2>1. conn.virtual_hosts[h].host_names = Of(Written[h], "host_names")
    <3>1. conn.virtual_hosts[h] = VirtualHostConfig(Written[h])
      BY TakenHosts
    <3>2. VirtualHostConfig(Written[h]).host_names = Of(Written[h], "host_names")
      BY DEF VirtualHostConfig
    <3>3. QED BY <3>1, <3>2
  <2>2. QED BY <2>1 DEF HostMatches, MatchVhost, AnyCase
<1>2. MatchRoute(conn.virtual_hosts[h].routes[k], target, asked.headers) <=>
        \A m \in Of(Routes(h)[k], "path_matches") : Meets(m, target, asked.headers)
  BY TakenRoutes, RouteAsWritten
<1>3. Routes(h)[k] = Written[h].routes[k]
  BY TakenRoutes
<1>4. QED BY <1>1, <1>2, <1>3 DEF Fits

Fitting(h, target) == {k \in DOMAIN Routes(h) : Fits(Written[h], Written[h].routes[k], target)}
Fit(target) == {h \in DOMAIN Written : Fitting(h, target) # {}}

FirstFitting(target) ==
  LET h == Min(Fit(target))
      route == Written[h].routes[Min(Fitting(h, target))]
  IN IF Fit(target) = {} \/ Backends(route) = {} THEN NotFound
     ELSE [kind |-> "backend", backend |-> route.actions[Min(Backends(route))].backend,
           route |-> route.name, hostname |-> Hostname]

LEMMA WrittenIs ==
  \A target : WrittenRoute(conn.document, target) = FirstFitting(target)
BY Zenon DEF WrittenRoute, FirstFitting, Fit, Fitting, Written, Routes

LEMMA ActionIs ==
  ASSUME NEW route, IsList(Items(route, "actions"))
  PROVE  Action(RouteConfig(route)) =
           IF Backends(route) = {} THEN NotFound
           ELSE [kind |-> "backend", backend |-> route.actions[Min(Backends(route))].backend,
                 route |-> route.name, hostname |-> Hostname]
<1>1. RouteConfig(route).actions = [i \in Backends(route) |-> route.actions[i].backend]
  BY DEF RouteConfig
<1>2. RouteConfig(route).name = route.name
  BY DEF RouteConfig
<1>3. DOMAIN RouteConfig(route).actions = Backends(route)
  BY <1>1
<1>4. CASE Backends(route) = {}
  BY <1>3, <1>4 DEF Action
<1>5. CASE Backends(route) # {}
  <2>1. Min(Backends(route)) \in Backends(route)
    <3>1. Backends(route) \subseteq Nat
      BY ListIs DEF Backends
    <3>2. QED BY <3>1, <1>5, MinIsLeast
  <2>2. RouteConfig(route).actions[Min(Backends(route))] = route.actions[Min(Backends(route))].backend
    BY <1>1, <2>1
  <2>3. QED BY <1>2, <1>3, <1>5, <2>2 DEF Action
<1>6. QED BY <1>4, <1>5

\* Every host before h either does not match or has no route that does.
Passed(h) ==
  \A i \in 1..(h - 1) : ~ (HostMatches(i) /\ \E k \in DOMAIN Routes(i) : RouteMatches(i, k))

\* A route that matches, where no one before it does, is the one that is written.
LEMMA FoundIsWritten ==
  ASSUME Taken, v \in DOMAIN Written, r \in DOMAIN Routes(v),
         Passed(v), HostMatches(v), RouteMatches(v, r), \A k \in 1..(r - 1) : ~RouteMatches(v, k)
  PROVE  WrittenRoute(conn.document, uri) = Action(conn.virtual_hosts[v].routes[r])
<1>1. DOMAIN Written = 1..Len(Written) /\ Len(Written) \in Nat
  BY TakenHosts
<1>2. \A h \in DOMAIN Written : DOMAIN Routes(h) = 1..Len(Routes(h)) /\ Len(Routes(h)) \in Nat
  BY TakenRoutes
<1>3. \A h \in DOMAIN Written : Fitting(h, uri) = {k \in DOMAIN Routes(h) : HostMatches(h) /\ RouteMatches(h, k)}
  BY FitsAsMatched DEF Fitting, RouteMatches
<1>4. Min(Fitting(v, uri)) = r
  <2>1. r \in Fitting(v, uri) /\ Fitting(v, uri) \subseteq Nat
    BY <1>2, <1>3
  <2>2. \A k \in Fitting(v, uri) : ~ (k < r)
    BY <1>2, <1>3
  <2>3. QED BY <2>1, <2>2, MinIs
<1>5. Min(Fit(uri)) = v
  <2>1. v \in Fit(uri) /\ Fit(uri) \subseteq Nat
    BY <1>1, <1>3 DEF Fit
  <2>2. \A h \in Fit(uri) : ~ (h < v)
    BY <1>1, <1>3 DEF Fit, Passed
  <2>3. QED BY <2>1, <2>2, MinIs
<1>6. Fit(uri) # {}
  BY <1>3 DEF Fit
<1>7. /\ conn.virtual_hosts[v].routes[r] = RouteConfig(Written[v].routes[r])
      /\ IsList(Items(Written[v].routes[r], "actions"))
  BY TakenRoutes
<1> DEFINE there == IF Backends(Written[v].routes[r]) = {} THEN NotFound
                    ELSE [kind |-> "backend",
                          backend |-> Written[v].routes[r].actions[Min(Backends(Written[v].routes[r]))].backend,
                          route |-> Written[v].routes[r].name, hostname |-> Hostname]
<1>8. WrittenRoute(conn.document, uri) = there
  BY <1>4, <1>5, <1>6, WrittenIs DEF FirstFitting
<1>9. Action(conn.virtual_hosts[v].routes[r]) = there
  BY <1>7, ActionIs
<1>10. QED BY <1>8, <1>9

LEMMA NoneIsWritten ==
  ASSUME Taken, Passed(Len(Written) + 1)
  PROVE  WrittenRoute(conn.document, uri) = NotFound
<1>1. DOMAIN Written = 1..Len(Written) /\ Len(Written) \in Nat
  BY TakenHosts
<1>2. \A h \in DOMAIN Written : Fitting(h, uri) = {k \in DOMAIN Routes(h) : HostMatches(h) /\ RouteMatches(h, k)}
  BY FitsAsMatched DEF Fitting, RouteMatches
<1>3. Fit(uri) = {}
  BY <1>1, <1>2 DEF Fit, Passed
<1>4. QED BY <1>3, WrittenIs DEF FirstFitting

-------------------------------------------------------------------------------
\* Where the search is: what it has passed does not match, and a host is left only when
\* none of its routes does.
Searching ==
  /\ yaml \in Documents /\ config = ListenerConfig(yaml)
  /\ v \in Nat \ {0} /\ r \in Nat \ {0}
  /\ phase \in Phases
  /\ phase \in {"connected", "host", "route"} => Taken /\ answer = None
  /\ phase \in {"host", "route"} => Passed(v) /\ v <= Len(Written) + 1
  /\ phase = "connected" => v = 1
  /\ phase = "route" =>
       /\ v \in DOMAIN Written /\ HostMatches(v) /\ Has(asked.headers, "host")
       /\ r <= Len(Routes(v)) + 1 /\ \A k \in 1..(r - 1) : ~RouteMatches(v, k)
  /\ RoutedAsWritten

\* Nothing that the search looks at changes while it goes on.
LEMMA SameSearch ==
  ASSUME UNCHANGED <<conn, asked, uri, use_tls>>
  PROVE  /\ Taken' <=> Taken
         /\ Written' = Written
         /\ \A h : HostMatches(h)' <=> HostMatches(h)
         /\ \A h, k : RouteMatches(h, k)' <=> RouteMatches(h, k)
         /\ \A h : Routes(h)' = Routes(h)
         /\ \A h : Passed(h)' <=> Passed(h)
         /\ WrittenRoute(conn.document, uri)' = WrittenRoute(conn.document, uri)
<1>1. Taken' <=> Taken
  BY DEF Taken, Takers, Taker
<1>2. Written' = Written
  BY DEF Written, Taker
<1>3. \A h : HostMatches(h)' <=> HostMatches(h)
  BY DEF HostMatches
<1>4. \A h, k : RouteMatches(h, k)' <=> RouteMatches(h, k)
  BY DEF RouteMatches
<1>5. \A h : Routes(h)' = Routes(h)
  BY <1>2 DEF Routes
<1>6. \A h : Passed(h)' <=> Passed(h)
  BY <1>3, <1>4, <1>5 DEF Passed
<1>7. WrittenRoute(conn.document, uri)' = WrittenRoute(conn.document, uri)
  <2>1. \A d : Taker(d)' = Taker(d)
    BY DEF Taker
  <2>2. \A a, b, c : Fits(a, b, c)' <=> Fits(a, b, c)
    BY DEF Fits
  <2>3. Hostname' = Hostname
    BY DEF Hostname
  <2>4. \A h : Fitting(h, uri)' = Fitting(h, uri)
    BY <1>2, <1>5, <2>2 DEF Fitting
  <2>5. Fit(uri)' = Fit(uri)
    BY <1>2, <2>4 DEF Fit
  <2>6. FirstFitting(uri)' = FirstFitting(uri)
    BY <1>2, <2>3, <2>4, <2>5 DEF FirstFitting
  <2>7. WrittenRoute(conn.document, uri)' = FirstFitting(uri)'
    BY Zenon DEF WrittenRoute, FirstFitting, Fit, Fitting, Written, Routes
  <2>8. QED BY <2>6, <2>7, WrittenIs
<1>8. QED BY <1>1, <1>2, <1>3, <1>4, <1>5, <1>6, <1>7

LEMMA NotRouted ==
  ASSUME NEW outcome \in {None, Dropped, Invalid, Panicked}
  PROVE  outcome # NotFound /\ outcome.kind # "backend"
BY DEF None, Dropped, Invalid, Panicked, NotFound

LEMMA SearchingInit == Init => Searching
<1> SUFFICES ASSUME Init PROVE Searching
  OBVIOUS
<1>1. ~Routed
  BY NotRouted DEF Init, Routed
<1>2. QED BY <1>1 DEF Init, Searching, Phases, RoutedAsWritten

LEMMA SearchingStep ==
  ASSUME Searching, [Next]_vars
  PROVE  Searching'
<1>1. CASE UNCHANGED vars
  <2>1. UNCHANGED <<conn, asked, uri, use_tls, yaml, config, phase, v, r, answer>>
    BY <1>1 DEF vars, listener, head
  <2>2. RoutedAsWritten'
    BY <2>1, SameSearch DEF Searching, RoutedAsWritten, Routed
  <2>3. QED BY <2>1, <2>2, SameSearch DEF Searching
<1>2. CASE \E d \in Documents : Load(d)
  <2>1. UNCHANGED <<conn, asked, uri, use_tls, phase, v, r, answer>>
    BY <1>2 DEF Load, head
  <2>2. yaml' \in Documents /\ config' = ListenerConfig(yaml')
    BY <1>2 DEF Load, Searching
  <2>3. RoutedAsWritten'
    BY <2>1, SameSearch DEF Searching, RoutedAsWritten, Routed
  <2>4. QED BY <2>1, <2>2, <2>3, SameSearch DEF Searching
<1>3. CASE \E sni \in Snis : Accept(sni)
  <2>1. PICK sni \in Snis : Accept(sni)
    BY <1>3
  <2>2. /\ yaml' = yaml /\ config' = config /\ use_tls' = use_tls
        /\ asked' = NoRequest /\ v' = 1 /\ r' = 1
    BY <2>1 DEF Accept, listener
  <2>3. RoutedAsWritten'
    BY <2>2 DEF RoutedAsWritten, NoRequest, Has
  <2>4. CASE Takes(sni) = {}
    BY <2>1, <2>2, <2>3, <2>4 DEF Accept, Done, Searching, Phases
  <2>5. CASE Takes(sni) # {}
    <3>1. phase' = "connected" /\ answer' = None
          /\ conn' = [sni |-> sni, document |-> yaml, virtual_hosts |-> config[Min(Takes(sni))].virtual_hosts]
      BY <2>1, <2>5 DEF Accept
    <3>2. conn'.document = yaml /\ conn'.sni = sni /\ conn'.virtual_hosts = config[Min(Takes(sni))].virtual_hosts
      BY <3>1
    <3>3. DOMAIN config = Http(yaml) /\ \A i \in Http(yaml) : config[i] = HttpProtocolConfig(yaml.protocols[i])
      BY DEF Searching, ListenerConfig
    <3>4. \A i \in Http(yaml) : config[i].sni = Of(yaml.protocols[i], "sni")
      BY <3>3 DEF HttpProtocolConfig
    <3>5. Takers(yaml)' = Takes(sni)
      <4>1. use_tls => sni # NoSni
        BY <2>5 DEF Takes
      <4>2. Takes(sni) = {i \in Http(yaml) : use_tls =>
              \E n \in Of(yaml.protocols[i], "sni") : Occurs(LowerCase(n), LowerCase(sni))}
        BY <3>3, <3>4, <4>1 DEF Takes, AnyCase
      <4>3. QED BY <2>2, <3>2, <4>2 DEF Takers
    <3>6. Taker(conn.document)' = yaml.protocols[Min(Takes(sni))]
      BY <2>2, <3>2, <3>5 DEF Taker, Takers
    <3>7. Min(Takes(sni)) \in Http(yaml)
      <4>1. IsList(Items(yaml, "protocols"))
        BY DocumentsAssumption DEF Searching
      <4>2. Takes(sni) \subseteq Http(yaml) /\ Http(yaml) \subseteq Nat
        BY <3>3, <4>1, ListIs DEF Takes, Http
      <4>3. QED BY <2>5, <4>2, MinIsLeast
    <3>8. Taken'
      BY <2>2, <2>5, <3>2, <3>3, <3>5, <3>6, <3>7 DEF Taken, Searching
    <3>9. QED BY <2>2, <2>3, <3>1, <3>8 DEF Searching, Phases
  <2>6. QED BY <2>4, <2>5
<1>4. CASE \E q \in Requests : ReadHead(q)
  <2>1. PICK q \in Requests : ReadHead(q)
    BY <1>4
  <2>2. UNCHANGED <<conn, use_tls, yaml, config, v, r>> /\ phase = "connected"
    BY <2>1 DEF ReadHead, listener
  <2>3. Taken'
    BY <2>2 DEF Searching, Taken, Takers, Taker
  <2>4. CASE phase' = "done" /\ answer' \in {Panicked, Invalid}
    <3>1. ~Routed'
      BY <2>4, NotRouted DEF Routed
    <3>2. QED BY <2>2, <2>4, <3>1 DEF Searching, Phases, RoutedAsWritten
  <2>5. CASE phase' = "host" /\ UNCHANGED answer
    <3>1. ~Routed'
      BY <2>2, <2>5, NotRouted DEF Routed, Searching
    <3>2. Len(Written') \in Nat
      <4>1. Written' = Written
        BY <2>2 DEF Written, Taker
      <4>2. QED BY <2>2, <4>1, TakenHosts DEF Searching
    <3>3. Passed(v)' /\ (v <= Len(Written) + 1)'
      BY <2>2, <3>2 DEF Passed, Searching
    <3>4. QED BY <2>2, <2>3, <2>5, <3>1, <3>3 DEF Searching, Phases, RoutedAsWritten
  <2>6. QED BY <2>1, <2>4, <2>5 DEF ReadHead, Done
<1>5. CASE TryHost
  <2>1. UNCHANGED <<conn, asked, uri, use_tls, yaml, config>> /\ phase = "host"
    BY <1>5 DEF TryHost, listener, head
  <2>2. Taken /\ Passed(v) /\ v <= Len(conn.virtual_hosts)
    BY <1>5, <2>1 DEF TryHost, Searching
  <2>3. v \in DOMAIN Written /\ Len(Written) \in Nat /\ v + 1 <= Len(Written) + 1
    BY <2>2, TakenHosts DEF Searching
  <2>4. CASE ~Has(asked.headers, "host")
    <3>1. Done(Panicked) /\ UNCHANGED <<v, r>>
      BY <1>5, <2>4 DEF TryHost
    <3>2. ~Routed'
      BY <3>1, NotRouted DEF Routed, Done
    <3>3. QED BY <2>1, <3>1, <3>2 DEF Searching, Phases, RoutedAsWritten, Done
  <2>5. CASE Has(asked.headers, "host") /\ HostMatches(v)
    <3>1. phase' = "route" /\ r' = 1 /\ UNCHANGED <<v, answer>>
      BY <1>5, <2>5 DEF TryHost, HostMatches
    <3>2. ~Routed'
      BY <2>1, <3>1, NotRouted DEF Routed, Searching
    <3>3. Len(Routes(v)) \in Nat
      BY <2>2, <2>3, TakenRoutes
    <3>4. /\ Taken' /\ Passed(v)' /\ (v \in DOMAIN Written)' /\ HostMatches(v)' /\ Has(asked'.headers, "host")
          /\ (v <= Len(Written) + 1)' /\ (r <= Len(Routes(v)) + 1)'
      BY <2>1, <2>2, <2>3, <2>5, <3>1, <3>3, SameSearch DEF Searching
    <3>5. QED BY <2>1, <3>1, <3>2, <3>4 DEF Searching, Phases, RoutedAsWritten
  <2>6. CASE Has(asked.headers, "host") /\ ~HostMatches(v)
    <3>1. v' = v + 1 /\ UNCHANGED <<phase, r, answer>>
      BY <1>5, <2>6 DEF TryHost, HostMatches
    <3>2. ~Routed'
      BY <2>1, <3>1, NotRouted DEF Routed, Searching
    <3>3. Passed(v + 1)
      BY <2>2, <2>6 DEF Passed, Searching
    <3>4. Taken' /\ Passed(v)' /\ (v <= Len(Written) + 1)'
      BY <2>1, <2>2, <2>3, <3>1, <3>3, SameSearch
    <3>5. QED BY <2>1, <3>1, <3>2, <3>4 DEF Searching, Phases, RoutedAsWritten
  <2>7. QED BY <2>4, <2>5, <2>6
<1>6. CASE TryRoute
  <2>1. UNCHANGED <<conn, asked, uri, use_tls, yaml, config>> /\ phase = "route"
    BY <1>6 DEF TryRoute, listener, head
  <2>2. Taken /\ Passed(v) /\ v \in DOMAIN Written /\ HostMatches(v) /\ r <= Len(conn.virtual_hosts[v].routes)
    BY <1>6, <2>1 DEF TryRoute, Searching
  <2>3. r \in DOMAIN Routes(v) /\ Len(Routes(v)) \in Nat /\ r + 1 <= Len(Routes(v)) + 1
    BY <2>2, TakenRoutes DEF Searching
  <2>4. CASE RouteMatches(v, r)
    <3>1. phase' = "done" /\ answer' = Action(conn.virtual_hosts[v].routes[r]) /\ UNCHANGED <<v, r>>
      BY <1>6, <2>4 DEF TryRoute, RouteMatches, Done
    <3>2. answer' = WrittenRoute(conn.document, uri)
      BY <2>1, <2>2, <2>3, <2>4, <3>1, FoundIsWritten DEF Searching
    <3>3. QED BY <2>1, <3>1, <3>2, SameSearch DEF Searching, Phases, RoutedAsWritten
  <2>5. CASE ~RouteMatches(v, r)
    <3>1. r' = r + 1 /\ UNCHANGED <<phase, v, answer>>
      BY <1>6, <2>5 DEF TryRoute, RouteMatches
    <3>2. ~Routed'
      BY <2>1, <3>1, NotRouted DEF Routed, Searching
    <3>3. \A k \in 1..((r + 1) - 1) : ~RouteMatches(v, k)
      BY <2>1, <2>5 DEF Searching
    <3>4. /\ Taken' /\ Passed(v)' /\ (v \in DOMAIN Written)' /\ HostMatches(v)'
          /\ (v <= Len(Written) + 1)' /\ (r <= Len(Routes(v)) + 1)'
          /\ (\A k \in 1..(r - 1) : ~RouteMatches(v, k))'
      BY <2>1, <2>2, <2>3, <3>1, <3>3, SameSearch DEF Searching
    <3>5. QED BY <2>1, <3>1, <3>2, <3>4 DEF Searching, Phases, RoutedAsWritten
  <2>6. QED BY <2>4, <2>5
<1>7. CASE OtherHost
  <2>1. UNCHANGED <<conn, asked, uri, use_tls, yaml, config, r, answer>> /\ phase = "route"
    BY <1>7 DEF OtherHost, listener, head
  <2>2. Taken /\ Passed(v) /\ v \in DOMAIN Written /\ r > Len(conn.virtual_hosts[v].routes)
    BY <1>7, <2>1 DEF OtherHost, Searching
  <2>3. phase' = "host" /\ v' = v + 1
    BY <1>7 DEF OtherHost
  <2>4. ~Routed'
    BY <2>1, NotRouted DEF Routed, Searching
  <2>5. \A k \in DOMAIN Routes(v) : ~RouteMatches(v, k)
    <3>1. DOMAIN Routes(v) = 1..Len(Routes(v)) /\ Len(Routes(v)) \in Nat /\ Len(conn.virtual_hosts[v].routes) = Len(Routes(v))
      BY <2>2, TakenRoutes
    <3>2. DOMAIN Routes(v) \subseteq 1..(r - 1)
      BY <2>2, <3>1 DEF Searching
    <3>3. QED BY <2>1, <3>2 DEF Searching
  <2>6. Passed(v + 1)
    BY <2>2, <2>5 DEF Passed, Searching
  <2>7. v + 1 <= Len(Written) + 1
    BY <2>2, TakenHosts
  <2>8. Taken' /\ Passed(v)' /\ (v <= Len(Written) + 1)'
    BY <2>1, <2>2, <2>3, <2>6, <2>7, SameSearch
  <2>9. QED BY <2>1, <2>3, <2>4, <2>8 DEF Searching, Phases, RoutedAsWritten
<1>8. CASE NoRoute
  <2>1. UNCHANGED <<conn, asked, uri, use_tls, yaml, config, v, r>> /\ phase = "host"
    BY <1>8 DEF NoRoute, listener, head
  <2>2. Taken /\ Passed(v) /\ v > Len(conn.virtual_hosts) /\ v <= Len(Written) + 1
    BY <1>8, <2>1 DEF NoRoute, Searching
  <2>3. v = Len(Written) + 1
    BY <2>2, TakenHosts DEF Searching
  <2>4. phase' = "done" /\ answer' = NotFound
    BY <1>8 DEF NoRoute, Done
  <2>5. WrittenRoute(conn.document, uri) = NotFound
    BY <2>2, <2>3, NoneIsWritten
  <2>6. QED BY <2>1, <2>4, <2>5, SameSearch DEF Searching, Phases, RoutedAsWritten
<1>9. QED BY <1>1, <1>2, <1>3, <1>4, <1>5, <1>6, <1>7, <1>8 DEF Next

\* Whatever the documents say and the requests ask, a route that is found is the first one
\* that fits, of the first host that has such a route, and 404 means that there is none.
THEOREM RoutesAsWritten == Spec => []RoutedAsWritten
<1>1. Searching => RoutedAsWritten
  BY DEF Searching
<1>2. Searching /\ [Next]_vars => Searching'
  BY SearchingStep
<1>3. QED BY SearchingInit, <1>1, <1>2, PTL DEF Spec

\* A path that begins with "/" is there, and normalized does not panic.
LEMMA SlashIsEnough ==
  ASSUME NEW s \in Seq(Nat), IsPrefix(<<Slash>>, s)
  PROVE  ~Panics(s)
<1>1. Len(s) >= 1 /\ s[1] = Slash
  <2>1. /\ Len(<<Slash>>) <= Len(s)
        /\ SubSeq(<<Slash>>, 1, Len(<<Slash>>)) = SubSeq(s, 1, Len(<<Slash>>))
    BY DEF IsPrefix
  <2>2. Len(<<Slash>>) = 1 /\ SubSeq(<<Slash>>, 1, 1) = <<Slash>>
    <3>1. <<Slash>> \in Seq(Nat) /\ Len(<<Slash>>) = 1
      BY DEF Slash
    <3>2. QED BY <3>1, SubSeqFull
  <2>3. SubSeq(s, 1, 1) = <<Slash>> /\ Len(s) >= 1
    BY <2>1, <2>2
  <2>4. SubSeq(s, 1, 1)[1] = s[1]
    <3>1. 1 \in 0..Len(s)
      BY <2>3
    <3>2. QED BY <3>1, Cut
  <2>5. <<Slash>>[1] = Slash
    OBVIOUS
  <2>6. QED BY <2>3, <2>4, <2>5
<1> DEFINE h == Before(s, Hash)
           query == SubSeq(s, 1, h)
           b == Before(query, Question)
<1>2. h \in 0..Len(s) /\ h >= 1
  <2>1. h \in 0..Len(s) /\ (h < Len(s) => s[h + 1] = Hash)
    BY BeforeIs
  <2>2. h # 0
    <3> SUFFICES ASSUME h = 0 PROVE FALSE
      OBVIOUS
    <3>1. h < Len(s) /\ h + 1 = 1
      BY <1>1
    <3>2. s[1] = Hash
      BY <2>1, <3>1
    <3>3. QED BY <1>1, <3>2 DEF Slash, Hash
  <2>3. QED BY <2>1, <2>2
<1> HIDE DEF h
<1>3. query \in Seq(Nat) /\ Len(query) = h /\ query[1] = Slash
  BY <1>1, <1>2, Cut
<1> HIDE DEF query
<1>4. b \in 0..Len(query) /\ b >= 1
  <2>1. b \in 0..Len(query) /\ (b < Len(query) => query[b + 1] = Question)
    BY <1>3, BeforeIs
  <2>2. b # 0
    <3> SUFFICES ASSUME b = 0 PROVE FALSE
      OBVIOUS
    <3>1. b < Len(query) /\ b + 1 = 1
      BY <1>2, <1>3
    <3>2. query[1] = Question
      BY <2>1, <3>1
    <3>3. QED BY <1>3, <3>2 DEF Slash, Question
  <2>3. QED BY <2>1, <2>2
<1> HIDE DEF b
<1>5. Len(SubSeq(query, 1, b)) = b /\ SubSeq(query, 1, b)[1] = Slash
  BY <1>3, <1>4, Cut
<1>6. LocalPath(s) = SubSeq(query, 1, b)
  BY DEF LocalPath, h, query, b
<1>7. LocalPath(s) # <<>> /\ LocalPath(s)[1] = Slash
  <2>1. Len(LocalPath(s)) # 0 /\ LocalPath(s)[1] = Slash
    BY <1>4, <1>5, <1>6
  <2>2. QED BY <2>1
<1>8. QED BY <1>7 DEF Panics, Slash

\* The path ends before the first "?" or "#".
LEMMA LocalPathCuts ==
  ASSUME NEW u \in Seq(Nat)
  PROVE  \E b \in 0..Len(u) : LocalPath(u) = SubSeq(u, 1, b) /\ (b < Len(u) => u[b + 1] \in {Question, Hash})
<1> DEFINE h == Before(u, Hash)
           query == SubSeq(u, 1, h)
           b == Before(query, Question)
<1>1. h \in 0..Len(u) /\ (h < Len(u) => u[h + 1] = Hash)
  BY BeforeIs
<1>2. LocalPath(u) = SubSeq(query, 1, b)
  BY DEF LocalPath
<1> HIDE DEF h
<1>3. query \in Seq(Nat) /\ Len(query) = h /\ \A i \in 1..h : query[i] = u[i]
  BY <1>1, Cut
<1> HIDE DEF query
<1>4. b \in 0..h /\ (b < h => query[b + 1] = Question)
  BY <1>3, BeforeIs
<1> HIDE DEF b
<1>5. b \in 0..Len(u) /\ b \in 0..Len(query)
  BY <1>1, <1>3, <1>4
<1>6. b < Len(u) => u[b + 1] \in {Question, Hash}
  <2>1. CASE b < h
    <3>1. b + 1 \in 1..h
      BY <1>1, <1>4, <2>1
    <3>2. QED BY <1>3, <1>4, <2>1, <3>1
  <2>2. CASE b = h
    BY <1>1, <2>2
  <2>3. QED BY <1>1, <1>4, <2>1, <2>2
<1>7. SubSeq(query, 1, b) = SubSeq(u, 1, b)
  <2>1. SubSeq(u, 1, b) \in Seq(Nat) /\ Len(SubSeq(u, 1, b)) = b /\ \A i \in 1..b : SubSeq(u, 1, b)[i] = u[i]
    BY <1>5, Cut
  <2>2. SubSeq(query, 1, b) \in Seq(Nat) /\ Len(SubSeq(query, 1, b)) = b /\ \A i \in 1..b : SubSeq(query, 1, b)[i] = query[i]
    BY <1>3, <1>5, Cut
  <2>3. \A i \in 1..b : query[i] = u[i]
    BY <1>1, <1>3, <1>4
  <2> DEFINE one == SubSeq(u, 1, b)
             other == SubSeq(query, 1, b)
  <2>4. /\ one \in Seq(Nat) /\ other \in Seq(Nat) /\ Len(one) = Len(other)
        /\ \A i \in 1..Len(one) : one[i] = other[i]
    BY <2>1, <2>2, <2>3
  <2> HIDE DEF one, other
  <2>5. one = other
    BY <2>4, SeqEqual
  <2>6. QED BY <2>5 DEF one, other
<1>8. QED BY <1>2, <1>5, <1>6, <1>7

\* A prefix without a "?" or a "#" is a prefix of the path or of nothing.
LEMMA MeetsPath ==
  ASSUME NEW m, ~LooksBehindPath(m), Of(m, "path_prefix") \subseteq Seq(Nat), NEW u \in Seq(Nat), NEW fields
  PROVE  Meets(m, u, fields) <=> Meets(m, LocalPath(u), fields)
<1>1. ~Has(m, "path_regex") /\ \A n \in Of(m, "path_prefix") : Question \notin ToSet(n) /\ Hash \notin ToSet(n)
  BY DEF LooksBehindPath
<1>2. PICK b \in 0..Len(u) : LocalPath(u) = SubSeq(u, 1, b) /\ (b < Len(u) => u[b + 1] \in {Question, Hash})
  BY LocalPathCuts
<1> DEFINE path == SubSeq(u, 1, b)
<1>3. path \in Seq(Nat) /\ Len(path) = b /\ \A i \in 1..b : path[i] = u[i]
  BY <1>2, Cut
<1> HIDE DEF path
<1>4. ASSUME NEW n \in Of(m, "path_prefix")
      PROVE  (Len(n) <= Len(u) /\ SubSeq(u, 1, Len(n)) = n) <=> (Len(n) <= Len(path) /\ SubSeq(path, 1, Len(n)) = n)
  <2>1. n \in Seq(Nat) /\ Len(n) \in Nat /\ \A i \in 1..Len(n) : n[i] # Question /\ n[i] # Hash
    BY <1>1 DEF ToSet
  <2>2. ASSUME Len(n) <= b PROVE SubSeq(path, 1, Len(n)) = SubSeq(u, 1, Len(n))
    <3>1. Len(n) \in 0..Len(u) /\ Len(n) \in 0..Len(path)
      BY <1>2, <1>3, <2>1, <2>2
    <3>2. /\ SubSeq(u, 1, Len(n)) \in Seq(Nat) /\ Len(SubSeq(u, 1, Len(n))) = Len(n)
          /\ \A i \in 1..Len(n) : SubSeq(u, 1, Len(n))[i] = u[i]
      BY <3>1, Cut
    <3>3. /\ SubSeq(path, 1, Len(n)) \in Seq(Nat) /\ Len(SubSeq(path, 1, Len(n))) = Len(n)
          /\ \A i \in 1..Len(n) : SubSeq(path, 1, Len(n))[i] = path[i]
      BY <1>3, <3>1, Cut
    <3>4. \A i \in 1..Len(n) : u[i] = path[i]
      <4>1. \A i \in 1..Len(n) : i \in 1..b
        BY <1>2, <2>1, <2>2
      <4>2. QED BY <1>3, <4>1
    <3> DEFINE one == SubSeq(u, 1, Len(n))
               other == SubSeq(path, 1, Len(n))
    <3>5. /\ one \in Seq(Nat) /\ other \in Seq(Nat) /\ Len(one) = Len(other)
          /\ \A i \in 1..Len(one) : one[i] = other[i]
      BY <3>2, <3>3, <3>4
    <3> HIDE DEF one, other
    <3>6. one = other
      BY <3>5, SeqEqual
    <3>7. QED BY <3>6 DEF one, other
  <2>3. ASSUME Len(n) <= Len(u), SubSeq(u, 1, Len(n)) = n PROVE Len(n) <= b
    <3> SUFFICES ASSUME ~ (Len(n) <= b) PROVE FALSE
      OBVIOUS
    <3>1. b + 1 \in 1..Len(n) /\ b < Len(u) /\ Len(n) \in 0..Len(u)
      BY <1>2, <2>1, <2>3
    <3>2. SubSeq(u, 1, Len(n))[b + 1] = u[b + 1]
      BY <3>1, Cut
    <3>3. n[b + 1] \in {Question, Hash}
      BY <1>2, <2>3, <3>1, <3>2
    <3>4. QED BY <2>1, <3>1, <3>3
  <2>4. b <= Len(u)
    BY <1>2
  <2>5. QED BY <1>2, <1>3, <2>1, <2>2, <2>3, <2>4
<1>5. CASE ~Has(m, "name")
  BY <1>5 DEF Meets
<1>6. CASE Has(m, "name") /\ Has(m, "path_prefix")
  <2>1. Of(m, "path_prefix") = ToSet(m.path_prefix)
    BY <1>6 DEF Of, Items
  <2>2. \A target : Meets(m, target, fields) <=>
          \E n \in Of(m, "path_prefix") : Len(n) <= Len(target) /\ SubSeq(target, 1, Len(n)) = n
    BY <1>1, <1>6, <2>1 DEF Meets
  <2>3. Meets(m, u, fields) <=> Meets(m, path, fields)
    BY <1>4, <2>2
  <2>4. QED BY <1>2, <2>3 DEF path
<1>7. CASE Has(m, "name") /\ ~Has(m, "path_prefix")
  BY <1>1, <1>7 DEF Meets
<1>8. QED BY <1>5, <1>6, <1>7

LEMMA PathIsEnough ==
  ASSUME Taken, uri \in Seq(Nat), ~(\E m \in Conditions(conn.document) : LooksBehindPath(m))
  PROVE  WrittenRoute(conn.document, uri) = WrittenRoute(conn.document, LocalPath(uri))
<1> DEFINE path == LocalPath(uri)
<1>1. ASSUME NEW h \in DOMAIN Written, NEW k \in DOMAIN Routes(h)
      PROVE  Fits(Written[h], Written[h].routes[k], uri) <=> Fits(Written[h], Written[h].routes[k], path)
  <2>1. \A m \in Of(Routes(h)[k], "path_matches") :
          m \in Conditions(conn.document) /\ Of(m, "path_prefix") \subseteq Seq(Nat)
    BY TakenRoutes
  <2>2. Written[h].routes[k] = Routes(h)[k]
    BY TakenRoutes
  <2>3. \A m \in Of(Routes(h)[k], "path_matches") : Meets(m, uri, asked.headers) <=> Meets(m, path, asked.headers)
    BY <2>1, MeetsPath
  <2> HIDE DEF path
  <2>4. QED BY <2>2, <2>3 DEF Fits
<1> HIDE DEF path
<1>2. \A h \in DOMAIN Written : Fitting(h, uri) = Fitting(h, path)
  BY <1>1 DEF Fitting
<1>3. Fit(uri) = Fit(path)
  BY <1>2 DEF Fit
<1>4. CASE Fit(uri) = {}
  BY <1>3, <1>4, WrittenIs DEF FirstFitting, path
<1>5. CASE Fit(uri) # {}
  <2>1. Fit(uri) \subseteq DOMAIN Written /\ DOMAIN Written \subseteq Nat
    BY TakenHosts DEF Fit
  <2>2. Min(Fit(uri)) \in DOMAIN Written
    BY <1>5, <2>1, MinIsLeast
  <2>3. Fitting(Min(Fit(uri)), uri) = Fitting(Min(Fit(uri)), path)
    BY <1>2, <2>2
  <2>4. FirstFitting(uri) = FirstFitting(path)
    BY <1>3, <2>3 DEF FirstFitting
  <2>5. QED BY <2>4, WrittenIs DEF path
<1>6. QED BY <1>4, <1>5

-------------------------------------------------------------------------------
LEMMA ActionIsAnswer ==
  ASSUME NEW route
  PROVE  Action(route) # None /\ (Action(route) = NotFound \/ Action(route).kind = "backend")
BY DEF Action, NotFound, None

LEMMA NoConnHosts ==
  ASSUME NEW i \in Http(yaml), yaml \in Documents
  PROVE  Len(HttpProtocolConfig(yaml.protocols[i]).virtual_hosts) \in Nat
<1> DEFINE hosts == Items(yaml.protocols[i], "virtual_hosts")
<1>1. IsList(hosts)
  BY DocumentsAssumption
<1>2. DOMAIN hosts = 1..Len(hosts) /\ Len(hosts) \in Nat
  BY <1>1, ListIs
<1>3. HttpProtocolConfig(yaml.protocols[i]).virtual_hosts = [h \in DOMAIN hosts |-> VirtualHostConfig(hosts[h])]
  BY DEF HttpProtocolConfig
<1> HIDE DEF hosts
<1>4. QED BY <1>2, <1>3

LEMMA UriIsClean ==
  ASSUME NEW s \in Seq(Nat), ~Panics(s), NEW u \in normalized(s)
  PROVE  u \in Seq(Nat) /\ DotFree(LocalPath(u))
<1>1. PICK order \in SetToSeqs(Params(s)) :
           /\ Joined(Path(s)) \in Seq(Nat \ {Hash, Question}) /\ DotFree(Joined(Path(s)))
           /\ Query(order) \o Fragment(s) \in Seq(Nat)
           /\ u = Joined(Path(s)) \o (Query(order) \o Fragment(s))
           /\ LocalPath(u) = Joined(Path(s))
  BY NormalizedIs
<1>2. Joined(Path(s)) \in Seq(Nat)
  BY <1>1, SeqMonotonic
<1>3. QED BY <1>1, <1>2, ConcatProperties

LEMMA EmptyPath == LocalPath(<<>>) = <<>>
<1>1. ASSUME NEW c PROVE Before(<<>>, c) = 0
  <2>1. <<>> \in Seq(Nat) /\ Len(<<>>) = 0
    OBVIOUS
  <2>2. Before(<<>>, c) \in 0..Len(<<>>)
    BY <2>1, BeforeIs
  <2>3. QED BY <2>1, <2>2
<1>2. SubSeq(<<>>, 1, 0) = <<>>
  OBVIOUS
<1>3. QED BY <1>1, <1>2 DEF LocalPath

LEMMA RoutingInit == Init => RoutingInv /\ (Routed => Taken)
<1> SUFFICES ASSUME Init PROVE RoutingInv /\ (Routed => Taken)
  OBVIOUS
<1>1. ~Routed
  BY NotRouted DEF Init, Routed
<1>2. Len(conn.virtual_hosts) = 0
  BY DEF Init, NoConn
<1>3. TypeOK
  <2>1. <<>> \in Seq(Nat)
    OBVIOUS
  <2>2. loads \in 0..MaxLoads
    BY LoadsAssumption DEF Init
  <2>3. QED BY <1>2, <2>1, <2>2 DEF Init, TypeOK, Phases
<1>4. NoDotSegments
  <2>1. LocalPath(<<>>) = <<>>
    BY EmptyPath
  <2>2. QED BY <2>1 DEF Init, NoDotSegments
<1>5. WellFormedIsAnswered
  BY DEF Init, WellFormedIsAnswered
<1>6. QED BY <1>1, <1>3, <1>4, <1>5 DEF RoutingInv

\* What does not touch the head of a request, and not how far it is.
LEMMA HeadStays ==
  ASSUME UNCHANGED <<conn, asked, uri, use_tls, phase, v, r, answer>>, WellFormedIsAnswered, NoDotSegments,
         Routed => Taken
  PROVE  WellFormedIsAnswered' /\ NoDotSegments' /\ (Routed' => Taken')
<1>1. WellFormedIsAnswered'
  BY DEF WellFormedIsAnswered, Routed
<1>2. NoDotSegments'
  BY DEF NoDotSegments
<1>3. Routed' => Taken'
  BY SameSearch DEF Routed
<1>4. QED BY <1>1, <1>2, <1>3

LEMMA RoutingStep ==
  ASSUME Searching, RoutingInv, Routed => Taken, [Next]_vars
  PROVE  RoutingInv' /\ (Routed' => Taken')
<1> USE DEF RoutingInv
<1>1. CASE UNCHANGED vars
  <2>1. UNCHANGED <<conn, asked, uri, use_tls, yaml, config, loads, phase, v, r, answer>>
    BY <1>1 DEF vars, listener, head
  <2>2. TypeOK'
    BY <2>1 DEF TypeOK
  <2>3. QED BY <2>1, <2>2, HeadStays
<1>2. CASE \E d \in Documents : Load(d)
  <2>1. UNCHANGED <<conn, asked, uri, use_tls, phase, v, r, answer>>
    BY <1>2 DEF Load, head
  <2>2. yaml' \in Documents /\ config' = ListenerConfig(yaml') /\ loads' \in 0..MaxLoads
    BY <1>2, LoadsAssumption DEF Load, TypeOK
  <2>3. TypeOK'
    BY <2>1, <2>2 DEF TypeOK
  <2>4. QED BY <2>1, <2>3, HeadStays
<1>3. CASE \E sni \in Snis : Accept(sni)
  <2>1. PICK sni \in Snis : Accept(sni)
    BY <1>3
  <2>2. /\ UNCHANGED <<yaml, config, use_tls, loads>>
        /\ asked' = NoRequest /\ uri' = <<>> /\ v' = 1 /\ r' = 1
    BY <2>1 DEF Accept, listener
  <2>3. \/ phase' = "done" /\ answer' = Dropped
        \/ phase' = "connected" /\ answer' = None
    BY <2>1 DEF Accept, Done
  <2>4. Len(conn'.virtual_hosts) \in Nat
    <3>1. CASE Takes(sni) = {}
      <4>1. conn' = NoConn
        BY <2>1, <3>1 DEF Accept
      <4>2. Len(conn'.virtual_hosts) = 0
        BY <4>1 DEF NoConn
      <4>3. QED BY <4>2
    <3>2. CASE Takes(sni) # {}
      <4>1. conn' = [sni |-> sni, document |-> yaml, virtual_hosts |-> config[Min(Takes(sni))].virtual_hosts]
        BY <2>1, <3>2 DEF Accept
      <4>2. conn'.virtual_hosts = config[Min(Takes(sni))].virtual_hosts
        BY <4>1
      <4>3. yaml \in Documents /\ config = ListenerConfig(yaml)
        BY DEF TypeOK
      <4>4. DOMAIN config = Http(yaml) /\ \A i \in Http(yaml) : config[i] = HttpProtocolConfig(yaml.protocols[i])
        BY <4>3 DEF ListenerConfig
      <4>5. Min(Takes(sni)) \in Http(yaml)
        <5>1. IsList(Items(yaml, "protocols"))
          BY <4>3, DocumentsAssumption
        <5>2. Takes(sni) \subseteq Http(yaml) /\ Http(yaml) \subseteq Nat
          BY <4>4, <5>1, ListIs DEF Takes, Http
        <5>3. QED BY <3>2, <5>2, MinIsLeast
      <4>6. QED BY <4>2, <4>3, <4>4, <4>5, NoConnHosts
    <3>3. QED BY <3>1, <3>2
  <2>5. ~Routed'
    BY <2>3, NotRouted DEF Routed
  <2>6. answer' # None <=> phase' = "done"
    BY <2>3 DEF Dropped, None
  <2>7. <<>> \in Seq(Nat)
    OBVIOUS
  <2>8. TypeOK'
    <3>1. phase' \in Phases /\ phase' # "route"
      BY <2>3 DEF Phases
    <3>2. QED BY <2>2, <2>4, <2>6, <2>7, <3>1 DEF TypeOK
  <2>9. WellFormedIsAnswered'
    BY <2>2 DEF WellFormedIsAnswered
  <2>10. NoDotSegments'
    <3>1. LocalPath(<<>>) = <<>>
      BY EmptyPath
    <3>2. QED BY <2>2, <3>1 DEF NoDotSegments
  <2>11. QED BY <2>5, <2>8, <2>9, <2>10
<1>4. CASE \E q \in Requests : ReadHead(q)
  <2>1. PICK q \in Requests : ReadHead(q)
    BY <1>4
  <2>2. UNCHANGED <<conn, use_tls, yaml, config, loads, v, r>> /\ phase = "connected" /\ asked' = q
    BY <2>1 DEF ReadHead, listener
  <2>3. q.uri \in Seq(Nat) /\ q.fits \in BOOLEAN
    <3>1. q.uri \in Seq(Chars) /\ q.fits \in BOOLEAN
      BY RequestsAssumption
    <3>2. QED BY <3>1, CharsAreNumbers
  <2>4. answer = None
    BY <2>2 DEF Searching
  <2>5. \/ /\ Panics(q.uri) /\ phase' = "done" /\ answer' = Panicked /\ uri' = uri
        \/ /\ ~Panics(q.uri) /\ uri' \in normalized(q.uri)
           /\ \/ q.fits /\ phase' = "host" /\ answer' = None
              \/ ~q.fits /\ phase' = "done" /\ answer' = Invalid
    BY <2>1, <2>3, <2>4 DEF ReadHead, Done
  <2>6. ~Routed'
    BY <2>5, NotRouted DEF Routed
  <2>7. uri' \in Seq(Nat) /\ NoDotSegments'
    <3>1. CASE uri' = uri
      BY <3>1 DEF TypeOK, NoDotSegments
    <3>2. CASE ~Panics(q.uri) /\ uri' \in normalized(q.uri)
      <4>1. uri' \in Seq(Nat) /\ DotFree(LocalPath(uri'))
        BY <2>3, <3>2, UriIsClean
      <4>2. QED BY <4>1 DEF NoDotSegments, DotFree
    <3>3. QED BY <2>5, <3>1, <3>2
  <2>8. TypeOK'
    <3>1. answer' # None <=> phase' = "done"
      BY <2>5 DEF Panicked, Invalid, None
    <3>2. phase' \in Phases /\ phase' # "route"
      BY <2>5 DEF Phases
    <3>3. asked' \in Requests \cup {NoRequest}
      BY <2>2
    <3>4. QED BY <2>2, <2>7, <3>1, <3>2, <3>3 DEF TypeOK
  <2>9. WellFormedIsAnswered'
    BY <2>2, <2>3, <2>5, SlashIsEnough DEF WellFormedIsAnswered
  <2>10. QED BY <2>6, <2>7, <2>8, <2>9
<1>5. CASE TryHost \/ TryRoute \/ OtherHost \/ NoRoute
  <2>1. /\ UNCHANGED <<conn, asked, uri, use_tls, yaml, config, loads>> /\ phase \in {"host", "route"}
    BY <1>5 DEF TryHost, TryRoute, OtherHost, NoRoute, listener, head
  <2>2. Taken /\ answer = None /\ Len(conn.virtual_hosts) \in Nat
    BY <2>1, TakenHosts DEF Searching
  <2>3. Taken'
    BY <2>1, <2>2, SameSearch
  <2>4. NoDotSegments'
    BY <2>1 DEF NoDotSegments
  <2>5. v \in 1..(Len(conn.virtual_hosts) + 1) /\ r \in Nat \ {0}
    BY DEF TypeOK
  <2>6. CASE phase' = "done" /\ answer' = Panicked /\ ~Has(asked.headers, "host") /\ UNCHANGED <<v, r>>
    <3>1. TypeOK'
      BY <2>1, <2>6 DEF TypeOK, Phases, Panicked, None
    <3>2. WellFormedIsAnswered'
      BY <2>1, <2>6 DEF WellFormedIsAnswered
    <3>3. QED BY <2>3, <2>4, <3>1, <3>2
  <2>7. CASE phase' = "done" /\ answer' # None /\ (answer' = NotFound \/ answer'.kind = "backend") /\ UNCHANGED <<v, r>>
    <3>1. TypeOK'
      BY <2>1, <2>7 DEF TypeOK, Phases
    <3>2. Routed'
      BY <2>7 DEF Routed
    <3>3. QED BY <2>3, <2>4, <3>1, <3>2 DEF WellFormedIsAnswered
  <2>8. CASE /\ phase' \in {"host", "route"} /\ answer' = None
             /\ v' \in 1..(Len(conn.virtual_hosts) + 1) /\ r' \in Nat \ {0}
             /\ phase' = "route" => v' <= Len(conn.virtual_hosts) /\ r' <= Len(conn.virtual_hosts[v'].routes) + 1
    <3>1. TypeOK'
      BY <2>1, <2>8 DEF TypeOK, Phases
    <3>2. WellFormedIsAnswered'
      BY <2>8 DEF WellFormedIsAnswered
    <3>3. QED BY <2>3, <2>4, <3>1, <3>2
  <2>9. CASE TryHost
    <3>1. v <= Len(conn.virtual_hosts)
      BY <2>9 DEF TryHost
    <3>2. Len(conn.virtual_hosts[v].routes) \in Nat
      <4>1. v \in DOMAIN Written
        BY <2>2, <2>5, <3>1, TakenHosts
      <4>2. QED BY <2>2, <4>1, TakenRoutes
    <3>3. \/ phase' = "done" /\ answer' = Panicked /\ ~Has(asked.headers, "host") /\ UNCHANGED <<v, r>>
          \/ phase' = "route" /\ r' = 1 /\ v' = v /\ answer' = answer
          \/ phase' = phase /\ r' = r /\ v' = v + 1 /\ answer' = answer /\ phase = "host"
      BY <2>9 DEF TryHost, Done
    <3>4. QED BY <2>2, <2>5, <2>6, <2>8, <3>1, <3>2, <3>3
  <2>10. CASE TryRoute
    <3>1. phase = "route" /\ r <= Len(conn.virtual_hosts[v].routes)
      BY <2>10 DEF TryRoute
    <3>2. v <= Len(conn.virtual_hosts)
      BY <3>1 DEF TypeOK
    <3>3. Len(conn.virtual_hosts[v].routes) \in Nat
      <4>1. v \in DOMAIN Written
        BY <2>2, <2>5, <3>2, TakenHosts
      <4>2. QED BY <2>2, <4>1, TakenRoutes
    <3>4. \/ phase' = "done" /\ answer' = Action(conn.virtual_hosts[v].routes[r]) /\ UNCHANGED <<v, r>>
          \/ phase' = phase /\ r' = r + 1 /\ v' = v /\ answer' = answer
      BY <2>10 DEF TryRoute, Done
    <3>5. QED BY <2>2, <2>5, <2>7, <2>8, <3>1, <3>2, <3>3, <3>4, ActionIsAnswer
  <2>11. CASE OtherHost
    <3>1. phase' = "host" /\ v' = v + 1 /\ r' = r /\ answer' = answer /\ phase = "route"
      BY <2>11 DEF OtherHost
    <3>2. v <= Len(conn.virtual_hosts)
      BY <3>1 DEF TypeOK
    <3>3. QED BY <2>2, <2>5, <2>8, <3>1, <3>2
  <2>12. CASE NoRoute
    <3>1. phase' = "done" /\ answer' = NotFound /\ UNCHANGED <<v, r>>
      BY <2>12 DEF NoRoute, Done
    <3>2. NotFound # None
      BY DEF NotFound, None
    <3>3. QED BY <2>7, <3>1, <3>2
  <2>13. QED BY <1>5, <2>9, <2>10, <2>11, <2>12
<1>6. QED BY <1>1, <1>2, <1>3, <1>4, <1>5 DEF Next

\* What is known of a request, on its way to a route and there.
RouteInv == Searching /\ RoutingInv /\ (Routed => Taken)

LEMMA RouteInvHolds == Spec => []RouteInv
<1>1. Init => RouteInv
  BY SearchingInit, RoutingInit DEF RouteInv
<1>2. RouteInv /\ [Next]_vars => RouteInv'
  BY SearchingStep, RoutingStep DEF RouteInv
<1>3. QED BY <1>1, <1>2, PTL DEF Spec

\* Whatever is asked, and however its path is spelled, a request with a Host, a good first
\* line and a path that begins with "/" is answered, and the path it is routed by has no
\* segment "." or "..": normalize_term makes no dots out of what were none.
THEOREM RequestsAreAnswered == Spec => []RoutingInv
<1>1. RouteInv => RoutingInv
  BY DEF RouteInv
<1>2. QED BY <1>1, RouteInvHolds, PTL

\* Where no condition can look behind the path, the answer is the one that the path alone
\* would have had: neither the parameters, nor their order, nor the fragment decide.
THEOREM QueriesDoNotRoute == Spec => []QueryIsForRegexes
<1>1. RouteInv => QueryIsForRegexes
  BY PathIsEnough DEF RouteInv, QueryIsForRegexes, Searching, RoutedAsWritten, RoutingInv, TypeOK
<1>2. QED BY <1>1, RouteInvHolds, PTL

-------------------------------------------------------------------------------
\* The URI that is routed is that of the request that was read, normalized.
UriIsOfRequest ==
  /\ phase = "connected" => uri = <<>>
  /\ uri # <<>> => asked.uri \in Seq(Chars) /\ ~Panics(asked.uri) /\ uri \in normalized(asked.uri)

LEMMA UriStarts == Init => UriIsOfRequest
BY DEF Init, UriIsOfRequest

LEMMA UriSteps == UriIsOfRequest /\ [Next]_vars => UriIsOfRequest'
<1> SUFFICES ASSUME UriIsOfRequest, [Next]_vars PROVE UriIsOfRequest'
  OBVIOUS
<1>1. ASSUME NEW d \in Documents, Load(d) PROVE UriIsOfRequest'
  BY <1>1 DEF Load, UriIsOfRequest, head
<1>2. ASSUME NEW sni \in Snis, Accept(sni) PROVE UriIsOfRequest'
  BY <1>2 DEF Accept, UriIsOfRequest
<1>3. ASSUME NEW q \in Requests, ReadHead(q) PROVE UriIsOfRequest'
  <2>1. asked' = q /\ uri = <<>> /\ q.uri \in Seq(Chars)
    BY <1>3, RequestsAssumption DEF ReadHead, UriIsOfRequest
  <2>2. CASE Panics(q.uri)
    <3>1. uri' = uri /\ phase' = "done"
      BY <1>3, <2>2 DEF ReadHead, Done
    <3>2. QED BY <2>1, <3>1 DEF UriIsOfRequest
  <2>3. CASE ~Panics(q.uri)
    <3>1. uri' \in normalized(q.uri) /\ phase' # "connected"
      BY <1>3, <2>3 DEF ReadHead, Done
    <3>2. QED BY <2>1, <2>3, <3>1 DEF UriIsOfRequest
  <2>4. QED BY <2>2, <2>3
<1>4. ASSUME TryHost \/ TryRoute \/ OtherHost \/ NoRoute PROVE UriIsOfRequest'
  <2>1. asked' = asked /\ uri' = uri
    BY <1>4 DEF TryHost, TryRoute, OtherHost, NoRoute, head
  <2>2. phase' = "connected" => phase = "connected"
    BY <1>4 DEF TryHost, TryRoute, OtherHost, NoRoute, Done
  <2>3. QED BY <2>1, <2>2 DEF UriIsOfRequest
<1>5. ASSUME UNCHANGED vars PROVE UriIsOfRequest'
  BY <1>5 DEF vars, head, UriIsOfRequest
<1>6. QED BY <1>1, <1>2, <1>3, <1>4, <1>5 DEF Next

LEMMA UriMeans == UriIsOfRequest => UriKeepsItsMeaning
<1> SUFFICES ASSUME UriIsOfRequest, uri # <<>>
             PROVE  /\ (\A s \in ToSet(Segments(asked.uri)) : Proper(s)) =>
                         LocalPath(uri) = FlattenSeq([i \in DOMAIN Segments(asked.uri) |->
                           IF i \in Left(Segments(asked.uri)) THEN <<Slash>> \o Spelled(BytesOf(Segments(asked.uri)[i])) ELSE <<>>])
                    /\ Params(uri) = Params(asked.uri) /\ Reference(uri) = Reference(asked.uri)
  BY Zenon DEF UriKeepsItsMeaning, Segments
<1>1. asked.uri \in Seq(Chars) /\ ~Panics(asked.uri) /\ uri \in normalized(asked.uri)
  BY DEF UriIsOfRequest
<1>2. asked.uri \in Seq(Nat)
  BY <1>1, CharsAreNumbers
<1>3. Params(uri) = Params(asked.uri) /\ Reference(uri) = Reference(asked.uri)
  BY <1>1, <1>2, QueryIsKept
<1>4. ASSUME \A s \in ToSet(Segments(asked.uri)) : Proper(s)
      PROVE  LocalPath(uri) = FlattenSeq([i \in DOMAIN Segments(asked.uri) |->
               IF i \in Left(Segments(asked.uri)) THEN <<Slash>> \o Spelled(BytesOf(Segments(asked.uri)[i])) ELSE <<>>])
  BY <1>1, <1>4, PathIsMeant, Zenon
<1>5. QED BY <1>3, <1>4, Zenon

\* normalized keeps what a URI means: of a path that is spelled properly, the bytes of
\* the segments that its dots leave, each in its one spelling, and of every URI the
\* parameters, of one name the last, and the fragment.
THEOREM UrisKeepTheirMeaning == Spec => []UriKeepsItsMeaning
<1>1. UriIsOfRequest /\ [Next]_vars => UriIsOfRequest'
  BY UriSteps
<1>2. QED BY <1>1, UriStarts, UriMeans, PTL DEF Spec

===============================================================================
