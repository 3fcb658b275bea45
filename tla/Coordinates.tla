----------------------------- MODULE Coordinates -----------------------------
(***************************************************************************)
(* Positions along one axis of the screen (the other is treated alike).    *)
(* Who produces input scales pixels to the 0 .. Wire of a mouse packet and *)
(* WindowServer scales them back; both divide integers, in 32 bits.        *)
(***************************************************************************)
EXTENDS Integers

CONSTANTS
  Width,      \* of the screen in pixels
  Wire        \* the largest position a packet carries (0xffff)

ASSUME CoordinatesAssumption == Wire \in Nat \ {0} /\ Width \in 1 .. Wire

Pixel == 0 .. Width - 1

\* C's integer division truncates towards zero.
Quot(a, b) == IF a >= 0 THEN a \div b ELSE -((-a) \div b)

ToWire(x)   == Quot(x * Wire, Width)
FromWire(p) == Quot(p * Width, Wire)

\* WindowServer keeps its cursor on the screen.
Constrain(x) == IF x < 0 THEN 0 ELSE IF x >= Width THEN Width - 1 ELSE x
=============================================================================
