----------------------------- MODULE ShotService -----------------------------
(***************************************************************************)
(* What a client of WindowServer's screenshot trigger may rely on: asking  *)
(* is remembered until a picture of the screen has been taken after it.    *)
(* Askings before a picture share it, and one may be answered twice.       *)
(***************************************************************************)
EXTENDS Naturals

CONSTANT Frame          \* the successive contents of the screen

VARIABLES screen,       \* what is on the screen now
          asked,        \* somebody is waiting for a picture
          shot,         \* the last picture taken
          gone          \* WindowServer has died

vars == <<screen, asked, shot, gone>>

Init == screen \in Frame /\ asked = FALSE /\ shot = {} /\ gone = FALSE

Paint == screen' \in Frame /\ UNCHANGED <<asked, shot, gone>>

Ask == ~gone /\ asked' = TRUE /\ UNCHANGED <<screen, shot, gone>>

Take ==
  /\ ~gone /\ asked
  /\ shot' = {screen} /\ asked' \in BOOLEAN
  /\ UNCHANGED <<screen, gone>>

Die == gone' = TRUE /\ UNCHANGED <<screen, shot>> /\ asked' = FALSE

Next == Paint \/ Ask \/ Take \/ Die

Safe == Init /\ [][Next]_vars
Spec == Safe /\ WF_vars(Take)
=============================================================================
