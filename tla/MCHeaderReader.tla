----------------------------- MODULE MCHeaderReader -----------------------------
(* TLC instance of HeaderReader: heads put together from lines.              *)
EXTENDS HeaderReader

Protocol == <<"HTTP", "/1.1">>
GoodLines == {
  <<"a", "sp", "b", "sp">> \o Protocol,          \* a request
  Protocol \o <<"sp", "digit">>                  \* a response
  }
BadLines == {
  <<"a", "sp", "sp">> \o Protocol,               \* no URI
  <<"HTTP", "sp", "digit">>, Protocol \o <<"sp", "a">>, <<"a">>, <<>>}
HeaderLines == {
  <<"a", "colon", "sp", "b">>, <<"A", "colon", "sp", "digit">>,  \* one name
  <<"b", "colon", "sp">>, <<"b", "colon", "sp", "colon", "sp">>, \* no value, one too many
  <<"b", "hi", "lo", "hi", "hi", "colon", "sp", "lo", "a">>,     \* bytes above 127
  <<"lo", "hi">>}                                               \* nothing but them
SecondLines == {<<"A", "colon", "sp", "digit">>, <<"lo", "hi">>}
Breaks == {<<"lf">>, <<"cr", "lf">>}

Rests == {<<>>, <<"a", "lf", "b">>}

\* Good first lines with pairs of header lines, the others with one.
Streams1 ==
  {f \o <<"lf">> \o h \o b \o g \o <<"lf">> \o b \o r :
     f \in GoodLines, h \in HeaderLines, g \in SecondLines, b \in Breaks, r \in Rests}
Streams2 ==
  {f \o <<"lf">> \o <<"a", "colon", "sp", "b">> \o b \o b : f \in GoodLines \cup BadLines, b \in Breaks}
\* The peer closes within a head.
Streams3 ==
  UNION {{SubSeq(f \o <<"cr", "lf", "a", "colon", "sp", "b", "lf", "cr", "lf">>, 1, n) : n \in 0..(Len(f) + 8)} :
           f \in GoodLines}
SomeStreams == Streams1 \cup Streams2 \cup Streams3
===============================================================================
