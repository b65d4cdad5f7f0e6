------------------------------- MODULE BytePipe -------------------------------
(***************************************************************************)
(* What a StrictBuffer promises to the two tasks that share it: a bounded,  *)
(* first-in first-out pipe that never loses, repeats or reorders a byte it  *)
(* accepted, and whose end is seen only after the sender has left.          *)
(***************************************************************************)
EXTENDS Naturals, Sequences, SequencesExt

CONSTANT Capacity

VARIABLES
  inFlight,   \* the bytes accepted and not yet received, oldest first
  sending,    \* the sender still holds its end
  aborted,    \* the sender has cut the pipe: what is in flight may be given up
  ended       \* the receiver has been told that nothing more will come

vars == <<inFlight, sending, aborted, ended>>

Init == inFlight = <<>> /\ sending = TRUE /\ aborted = FALSE /\ ended = FALSE

\* New bytes go behind all the others, and only while the sender is there.
Send ==
  /\ sending /\ ~aborted
  /\ IsPrefix(inFlight, inFlight')
  /\ Len(inFlight') <= Capacity
  /\ UNCHANGED <<sending, aborted, ended>>

\* The oldest bytes go out.
Receive ==
  /\ ~ended /\ ~aborted
  /\ \E k \in 1..Len(inFlight) : inFlight' = SubSeq(inFlight, k + 1, Len(inFlight))
  /\ UNCHANGED <<sending, aborted, ended>>

Abort == sending /\ aborted' = TRUE /\ UNCHANGED <<inFlight, sending, ended>>
Leave == sending /\ sending' = FALSE /\ UNCHANGED <<inFlight, aborted, ended>>

End ==
  /\ ~sending
  /\ inFlight = <<>> \/ aborted
  /\ ended' = TRUE
  /\ UNCHANGED <<inFlight, sending, aborted>>

Next == Send \/ Receive \/ Abort \/ Leave \/ End

Spec == Init /\ [][Next]_vars
===============================================================================
