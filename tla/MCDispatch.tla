------------------------------ MODULE MCDispatch ------------------------------
(* TLC instances of Dispatch.                                               *)
EXTENDS Dispatch, TLC

CONSTANTS a1, a2, a3, a4, b1,         \* connections
          A, B,                       \* clusters
          m1, m2, n1                  \* members

\* As many connections to A as it can hold, and one to B.
FourAndOne == (a1 :> A) @@ (a2 :> A) @@ (a3 :> A) @@ (a4 :> A) @@ (b1 :> B)
TwoAndOne   == (a1 :> A) @@ (a2 :> A) @@ (b1 :> B)

\* Two members for A, one for B.
SomeMembers == (A :> <<m1, m2>>) @@ (B :> <<n1>>)

===============================================================================
