------------------------------ MODULE HeaderReader ------------------------------
(***************************************************************************)
(* read_headers and read_line (connections/http.rs) as a function of the bytes *)
(* of a connection and of where its reads cut them: a line may begin in one     *)
(* read and end in another, the same array is filled again and again, and what  *)
(* was read behind the head is kept for the_rest.                              *)
(*                                                                         *)
(* Bytes are classes of bytes and words: "lf", "cr", "sp" and "colon", "a" and  *)
(* "A" (a letter in both cases), "b", "digit", two words of the first line,      *)
(* "HTTP" and "/1.1", and the bytes above 127: "hi" from 192 on, "lo" below.     *)
(***************************************************************************)
EXTENDS Integers, Sequences, FiniteSets, SequencesExt, FiniteSetsExt, TLC

CONSTANTS
  Streams,      \* what a peer may send before it closes
  BufferSize    \* CONN_BUFFER

Bytes == {"lf", "cr", "sp", "colon", "a", "A", "b", "digit", "HTTP", "/1.1", "hi", "lo"}

ASSUME BufferAssumption == BufferSize \in Nat \ {0}
ASSUME StreamsAssumption == Streams \subseteq Seq(Bytes)

Nul == "nul"

VARIABLES
  stream, request,       \* the bytes, and whether they are a request
  consumed,              \* how many of them were read
  read_buffer, pos, read_buf,
  new_string, pending,   \* the line so far; whether new_char is a byte from 192 on
  line,                  \* "first" or "header"
  headers, the_rest, received,
  result                 \* "reading", "done", "invalid", "panicked", "closed"

source == <<stream, request>>
window == <<read_buffer, pos, read_buf, consumed>>
parsed == <<line, headers, the_rest, received, result>>
reader_vars == <<source, window, new_string, pending, parsed>>

-------------------------------------------------------------------------------
\* One byte of a line.  Two bytes above 127 become U+0000 when the first of them is
\* from 192 on: new_char is cleared before it is decoded.  All others are dropped.
Decoded(state, byte) ==
  CASE byte = "hi" -> IF state.pending THEN [text |-> Append(state.text, Nul), pending |-> FALSE]
                      ELSE [state EXCEPT !.pending = TRUE]
    [] byte = "lo" -> IF state.pending THEN [text |-> Append(state.text, Nul), pending |-> FALSE]
                      ELSE state
    [] OTHER       -> [text |-> Append(state.text, byte), pending |-> FALSE]

Blank == {"cr", "sp"}
Trim(text) ==
  LET solid == {i \in DOMAIN text : text[i] \notin Blank}
  IN IF solid = {} THEN <<>> ELSE SubSeq(text, Min(solid), Max(solid))

\* split(" ") and split(": ").
Spaces(text) == {i \in DOMAIN text : text[i] = "sp"}
Word(text, from) ==
  SubSeq(text, from, Min({i \in Spaces(text) : i >= from} \cup {Len(text) + 1}) - 1)
Colons(text) == {i \in 1..(Len(text) - 1) : text[i] = "colon" /\ text[i + 1] = "sp"}

\* What the first line of a request is worth: three words, the last one HTTP with a
\* version; of a response: two words or more, the first one HTTP.  An empty URI panics,
\* and so does a response without a version or a code in digits.
FirstLine(text, isRequest) ==
  LET words == Cardinality(Spaces(text)) + 1
      last  == Word(text, Max(Spaces(text) \cup {0}) + 1)
      head  == Word(text, 1)
      code  == Word(text, Min(Spaces(text)) + 1)    \* the URI of a request
  IN IF isRequest
       THEN CASE words # 3 -> "invalid"
              [] words = 3 /\ code = <<>> -> "panicked"
              [] OTHER -> IF last = <<"HTTP", "/1.1">> THEN "reading" ELSE "invalid"
       ELSE CASE words < 2 -> "invalid"
              [] words >= 2 /\ head = <<"HTTP">> -> "panicked"
              [] words >= 2 /\ head = <<"HTTP", "/1.1">> ->
                   IF code # <<>> /\ ToSet(code) = {"digit"} THEN "reading" ELSE "panicked"
              [] OTHER -> "invalid"

\* NoCaseStr: names are the same in lower case.  The entry of a name is replaced; a line
\* that does not have exactly one ": " is passed over.
Lower(text) == [i \in DOMAIN text |-> IF text[i] = "A" THEN "a" ELSE text[i]]
IsField(text) == Cardinality(Colons(text)) = 1
Name(text) == Lower(SubSeq(text, 1, Min(Colons(text)) - 1))
Value(text) == SubSeq(text, Min(Colons(text)) + 2, Len(text))
WithHeader(map, text) ==
  IF ~IsField(text) THEN map
  ELSE [n \in DOMAIN map \cup {Name(text)} |-> IF n = Name(text) THEN Value(text) ELSE map[n]]

-------------------------------------------------------------------------------
ReaderInit ==
  /\ stream \in Streams /\ request \in BOOLEAN
  /\ consumed = 0 /\ read_buffer = [i \in 1..BufferSize |-> Nul] /\ pos = 0 /\ read_buf = 0
  /\ new_string = <<>> /\ pending = FALSE
  /\ line = "first" /\ headers = <<>> /\ the_rest = <<>> /\ received = 0 /\ result = "reading"

\* A line has ended.  What is in the array behind it is added to received with every
\* line, the line feeds and the dropped bytes with none.
Counted(at) == received + Len(new_string) + read_buf - at

FirstLineEnds ==
  /\ line = "first"
  /\ result' = FirstLine(Trim(new_string), request)
  /\ line' = "header"
  /\ UNCHANGED <<headers, the_rest>>

HeaderLineEnds ==
  /\ line = "header"
  /\ headers' = WithHeader(headers, Trim(new_string))
  /\ IF Trim(new_string) = <<>>
       THEN result' = "done" /\ the_rest' = SubSeq(read_buffer, pos + 2, read_buf)
       ELSE UNCHANGED <<result, the_rest>>
  /\ UNCHANGED line

\* Faulty variant: only a line without any byte ends the head.
LineEndsEmpty ==
  /\ result = "reading" /\ pos < read_buf /\ read_buffer[pos + 1] = "lf"
  /\ FirstLineEnds \/ (HeaderLineEnds /\ (new_string = <<>> \/ result' = "reading"))
     \/ (line = "header" /\ new_string # <<>> /\ Trim(new_string) = <<>> /\ UNCHANGED <<result, line, headers, the_rest>>)
  /\ received' = Counted(pos + 1)
  /\ pos' = pos + 1 /\ new_string' = <<>> /\ pending' = FALSE
  /\ UNCHANGED <<source, read_buffer, read_buf, consumed>>

LineEnds ==
  /\ result = "reading" /\ pos < read_buf /\ read_buffer[pos + 1] = "lf"
  /\ FirstLineEnds \/ HeaderLineEnds
  /\ received' = Counted(pos + 1)
  /\ pos' = pos + 1 /\ new_string' = <<>> /\ pending' = FALSE
  /\ UNCHANGED <<source, read_buffer, read_buf, consumed>>

Byte ==
  /\ result = "reading" /\ pos < read_buf /\ read_buffer[pos + 1] # "lf"
  /\ LET state == Decoded([text |-> new_string, pending |-> pending], read_buffer[pos + 1])
     IN new_string' = state.text /\ pending' = state.pending
  /\ pos' = pos + 1
  /\ UNCHANGED <<source, read_buffer, read_buf, consumed, parsed>>

\* Faulty variants: a read starts a new line; it does not say how much it brought.
ReadForgets(n) ==
  /\ result = "reading" /\ pos = read_buf /\ consumed + n <= Len(stream)
  /\ read_buffer' = [i \in 1..BufferSize |-> IF i <= n THEN stream[consumed + i] ELSE read_buffer[i]]
  /\ pos' = 0 /\ read_buf' = n /\ consumed' = consumed + n
  /\ new_string' = <<>> /\ pending' = FALSE
  /\ UNCHANGED <<source, parsed>>
ReadScansAll(n) ==
  /\ result = "reading" /\ pos = read_buf /\ consumed + n <= Len(stream)
  /\ read_buffer' = [i \in 1..BufferSize |-> IF i <= n THEN stream[consumed + i] ELSE read_buffer[i]]
  /\ pos' = 0 /\ read_buf' = (IF read_buf > n THEN read_buf ELSE n) /\ consumed' = consumed + n
  /\ UNCHANGED <<source, new_string, pending, parsed>>

\* client.read() has brought n bytes; those of the read before stay behind them.
Read(n) ==
  /\ result = "reading" /\ pos = read_buf /\ consumed + n <= Len(stream)
  /\ read_buffer' = [i \in 1..BufferSize |-> IF i <= n THEN stream[consumed + i] ELSE read_buffer[i]]
  /\ pos' = 0 /\ read_buf' = n /\ consumed' = consumed + n
  /\ UNCHANGED <<source, new_string, pending, parsed>>

Closed ==
  /\ result = "reading" /\ pos = read_buf /\ consumed = Len(stream)
  /\ result' = "closed"
  /\ UNCHANGED <<source, window, new_string, pending, line, headers, the_rest, received>>

ReaderNext == LineEnds \/ Byte \/ Closed \/ \E n \in 1..BufferSize : Read(n)

ReaderSpec == ReaderInit /\ [][ReaderNext]_reader_vars

-------------------------------------------------------------------------------
ReaderTypeOK ==
  /\ stream \in Seq(Bytes) /\ request \in BOOLEAN /\ consumed \in 0..Len(stream)
  /\ read_buffer \in [1..BufferSize -> Bytes \cup {Nul}] /\ pos \in 0..read_buf /\ read_buf \in 0..BufferSize
  /\ new_string \in Seq(Bytes \cup {Nul}) /\ pending \in BOOLEAN /\ line \in {"first", "header"}
  /\ the_rest \in Seq(Bytes) /\ received \in Nat
  /\ result \in {"reading", "done", "invalid", "panicked", "closed"}

\* What is between the two positions is what was read last and not looked at yet: what a
\* read leaves in the array from the one before is never looked at again.
WindowIsTheStream ==
  \A i \in (pos + 1)..read_buf : read_buffer[i] = stream[consumed - read_buf + i]

\* The array, the positions and what was parsed from them, in every state.
ReaderInv == ReaderTypeOK /\ WindowIsTheStream

\* The whole of a stream at once.  What a line has become at every byte of it; the text
\* of a line by the place of its line feed; the header fields of the lines up to place n,
\* each with the value of the last line that has its name; and the head they make.
Empty == [text |-> <<>>, pending |-> FALSE]
Lines(s) ==
  LET upto[i \in 0..Len(s)] ==
        IF i = 0 THEN Empty ELSE IF s[i] = "lf" THEN Empty ELSE Decoded(upto[i - 1], s[i])
  IN upto
Feeds(s) == {i \in DOMAIN s : s[i] = "lf"}
Text(s, end) == Trim(Lines(s)[end - 1].text)
First(s) == Min(Feeds(s))
Fields(s, n) == {end \in Feeds(s) : First(s) < end /\ end <= n /\ IsField(Text(s, end))}
Headers(s, n) ==
  [name \in {Name(Text(s, end)) : end \in Fields(s, n)} |->
     Value(Text(s, Max({end \in Fields(s, n) : Name(Text(s, end)) = name})))]
Whole(s, isRequest) ==
  LET first  == FirstLine(Text(s, First(s)), isRequest)
      blanks == {end \in Feeds(s) : First(s) < end /\ Text(s, end) = <<>>}
  IN CASE Feeds(s) = {} -> [result |-> "closed"]
       [] Feeds(s) # {} /\ first # "reading" -> [result |-> first]
       [] OTHER -> IF blanks = {} THEN [result |-> "closed"]
                   ELSE [result |-> "done", headers |-> Headers(s, Min(blanks)),
                         behind |-> SubSeq(s, Min(blanks) + 1, Len(s))]

\* Wherever the reads cut it, a head has the same lines, headers and end, it is refused
\* for the same reason, and what follows it is kept in order: the_rest, then what the
\* next reader will find.
SameForEveryCut ==
  LET whole == Whole(stream, request)
  IN result # "reading" =>
       /\ result = whole.result
       /\ result = "done" =>
            /\ headers = whole.headers
            /\ the_rest \o SubSeq(stream, consumed + 1, Len(stream)) = whole.behind

\* It does not wait for more when what it has is a head, or can be refused: a peer that
\* waits for its answer is not left waiting.
ReadsOnlyWhatItNeeds ==
  result = "reading" /\ pos = read_buf =>
    Whole(SubSeq(stream, 1, consumed), request).result = "closed"

\* received is never less than the text of the head and the_rest, and more by less than
\* a buffer for every line: it is no count of bytes.
Characters(s, n) ==
  LET upto[i \in 0..n] ==
        IF i = 0 THEN 0 ELSE upto[i - 1] + (IF s[i] = "lf" THEN Len(Text(s, i)) ELSE 0)
  IN upto[n]
ReceivedWithin ==
  result = "done" =>
    LET n     == consumed - Len(the_rest)    \* where the head ends
        text  == Characters(stream, n) + Len(the_rest)
        blank == Cardinality({i \in 1..n : stream[i] \in Blank})
        lines == Cardinality(Feeds(stream) \cap (1..n))
    IN text <= received /\ received <= text + blank + (lines - 1) * (BufferSize - 1)

\* What read_headers leaves for the relay is what was sent: the head, what is behind it,
\* and a count that is not too far off.
HeadAsSent == SameForEveryCut /\ ReceivedWithin

===============================================================================
