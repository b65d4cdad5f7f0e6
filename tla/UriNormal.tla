-------------------------------- MODULE UriNormal --------------------------------
(***************************************************************************)
(* normalize_term and normalized (utils/http.rs).  A string is the sequence   *)
(* of its characters, a character its code point; the strings that the query   *)
(* is put together from come out of a HashMap, so normalized has one result     *)
(* for every order of them.                                                 *)
(***************************************************************************)
EXTENDS Integers, Sequences, FiniteSets, SequencesExt, FiniteSetsExt, TLC

\* The code points of a char, 17 planes of them.
Chars == {c \in Nat : c < 17 * 65536}

Hash == 35   Percent == 37   Ampersand == 38   Dot == 46   Slash == 47   Equals == 61
Question == 63

Unreserved == (65..90) \cup (97..122) \cup (48..57) \cup {45, 46, 95, 126}
HexDigits == (48..57) \cup (65..70) \cup (97..102)
HexValue(c) == IF c <= 57 THEN c - 48 ELSE IF c <= 70 THEN c - 55 ELSE c - 87
HexDigit(n) == IF n <= 9 THEN 48 + n ELSE 55 + n

\* _push_unicode_digit
Escape(byte) == <<Percent, HexDigit(byte \div 16), HexDigit(byte % 16)>>

\* char::encode_utf8
Utf8(c) ==
  CASE c < 128   -> <<c>>
    [] 128 <= c /\ c < 2048    -> <<192 + (c \div 64), 128 + (c % 64)>>
    [] 2048 <= c /\ c < 65536 -> <<224 + (c \div 4096), 128 + ((c \div 64) % 64), 128 + (c % 64)>>
    [] 65536 <= c -> <<240 + (c \div 262144), 128 + ((c \div 4096) % 64),
                  128 + ((c \div 64) % 64), 128 + (c % 64)>>

\* How many bytes follow the first one of a character.
Following(byte) == IF byte >= 240 THEN 3 ELSE IF byte >= 224 THEN 2 ELSE IF byte >= 192 THEN 1 ELSE 0

\* _read_unicode_digit
IsEscape(s, i) ==
  i + 2 <= Len(s) /\ s[i] = Percent /\ s[i + 1] \in HexDigits /\ s[i + 2] \in HexDigits
ByteAt(s, i) == 16 * HexValue(s[i + 1]) + HexValue(s[i + 2])

\* The escapes of one character, from position i on.
Length(s, i) == IF s[i] = Percent THEN 3 * (1 + Following(ByteAt(s, i))) ELSE 1
Wellformed(s, i) ==
  s[i] = Percent =>
    IsEscape(s, i) /\ \A k \in 1..Following(ByteAt(s, i)) : IsEscape(s, i + 3 * k)
BytesAt(s, i) ==
  IF s[i] = Percent THEN [k \in 1..(1 + Following(ByteAt(s, i))) |-> ByteAt(s, i + 3 * (k - 1))]
  ELSE Utf8(s[i])

\* What one character becomes: c_char is the percent sign of an escape.
Term(s, i) ==
  IF BytesAt(s, i)[1] \in Unreserved THEN <<s[i]>>
  ELSE FlattenSeq([k \in DOMAIN BytesAt(s, i) |-> Escape(BytesAt(s, i)[k])])

\* An escape that is cut short, or a byte above 247, makes the whole term empty.
Bad(s, i) == ~Wellformed(s, i) \/ BytesAt(s, i)[1] > 247
normalize_term(s) ==
  LET from[i \in 1..(Len(s) + 1)] ==
        IF i > Len(s) THEN [bad |-> FALSE, text |-> <<>>]
        ELSE IF Bad(s, i) THEN [bad |-> TRUE, text |-> <<>>]
        ELSE [from[i + Length(s, i)] EXCEPT !.text = Term(s, i) \o @]
  IN IF from[1].bad THEN <<>> ELSE from[1].text

-------------------------------------------------------------------------------
\* find(c).unwrap_or(len), as the number of characters in front of c.
Before(s, c) == Min({i - 1 : i \in {j \in DOMAIN s : s[j] = c}} \cup {Len(s)})

\* split(c): the pieces so far, and one more character.
Chopped(pieces, x, c) ==
  IF x = c THEN Append(pieces, <<>>) ELSE [pieces EXCEPT ![Len(pieces)] = Append(@, x)]
Split(s, c) ==
  LET upto[i \in 0..Len(s)] == IF i = 0 THEN <<<<>>>> ELSE Chopped(upto[i - 1], s[i], c)
  IN upto[Len(s)]

\* Faulty variant: empty segments are left out.
PushedSkipsEmpty(path, segment) ==
  CASE segment \in {<<>>, <<Dot>>} -> path
    [] segment = <<Dot, Dot>> -> IF path = <<>> THEN path ELSE Front(path)
    [] OTHER                  -> Append(path, normalize_term(segment))

\* One segment of the path: the dots are looked at before it is decoded.
Pushed(path, segment) ==
  CASE segment = <<Dot>>      -> path
    [] segment = <<Dot, Dot>> -> IF path = <<>> THEN path ELSE Front(path)
    [] OTHER                  -> Append(path, normalize_term(segment))

\* local_path[1..] panics when there is nothing, or no ASCII character, to leave out.
LocalPath(s) == LET query == SubSeq(s, 1, Before(s, Hash)) IN SubSeq(query, 1, Before(query, Question))
PanicsOneLater(s) == Len(LocalPath(s)) <= 1 \/ LocalPath(s)[1] > 127    \* faulty
Panics(s) == LocalPath(s) = <<>> \/ LocalPath(s)[1] > 127

Path(s) ==
  LET segments == Split(Tail(LocalPath(s)), Slash)
      upto[i \in 0..Len(segments)] == IF i = 0 THEN <<>> ELSE Pushed(upto[i - 1], segments[i])
  IN upto[Len(segments)]

\* The parameters are neither decoded nor encoded; of those with one name the last stays.
Params(s) ==
  LET query == SubSeq(s, 1, Before(s, Hash))
      given == IF Before(query, Question) = Len(query) THEN <<>>
               ELSE Split(SubSeq(query, Before(query, Question) + 2, Len(query)), Ampersand)
      Key(p) == SubSeq(p, 1, Before(p, Equals))
  IN {given[i] : i \in {j \in DOMAIN given : \A k \in DOMAIN given : k > j => Key(given[k]) # Key(given[j])}}

Reference(s) == SubSeq(s, Before(s, Hash) + 2, Len(s))

Joined(path) == FlattenSeq([i \in DOMAIN path |-> <<Slash>> \o path[i]])
Query(order) == IF order = <<>> THEN <<>>
                ELSE <<Question>> \o order[1] \o FlattenSeq([i \in 1..(Len(order) - 1) |-> <<Ampersand>> \o order[i + 1]])

normalized(s) ==
  {Joined(Path(s)) \o Query(order) \o (IF Reference(s) = <<>> THEN <<>> ELSE <<Hash>> \o Reference(s)) :
     order \in SetToSeqs(Params(s))}
===============================================================================
