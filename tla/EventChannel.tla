---------------------------- MODULE EventChannel ----------------------------
(***************************************************************************)
(* What the X11 event path promises: a channel.  Every event the X server  *)
(* sends is acted upon once, in the order of sending, and none is dropped; *)
(* an event that is waiting is acted upon in the end.                      *)
(***************************************************************************)
EXTENDS Sequences

CONSTANT Event

VARIABLES waiting,   \* sent and not yet acted upon
          handled    \* acted upon, in order

vars == <<waiting, handled>>

Init == waiting = <<>> /\ handled = <<>>

Send == \E e \in Event : waiting' = Append(waiting, e) /\ UNCHANGED handled

Act ==
  /\ waiting # <<>>
  /\ handled' = Append(handled, Head(waiting))
  /\ waiting' = Tail(waiting)

Next == Send \/ Act

Safe == Init /\ [][Next]_vars
Spec == Safe /\ WF_vars(Act)
=============================================================================
