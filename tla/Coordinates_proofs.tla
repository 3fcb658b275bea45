-------------------------- MODULE Coordinates_proofs --------------------------
(***************************************************************************)
(* Proofs about Coordinates, for every screen width up to the wire range.  *)
(***************************************************************************)
EXTENDS Coordinates, TLAPS

USE CoordinatesAssumption

(***************************************************************************)
(* Arithmetic.                                                             *)
(***************************************************************************)

\* What the quotient of a division is.
LEMMA Division ==
  ASSUME NEW a \in Nat, NEW n \in Nat \ {0}
  PROVE  /\ a \div n \in Nat
         /\ n * (a \div n) <= a
         /\ a < n * (a \div n) + n
OBVIOUS

\* A quotient is the only number that fits.
LEMMA Fits ==
  ASSUME NEW a \in Nat, NEW n \in Nat \ {0}, NEW q \in Int,
         n * q <= a, a < n * q + n
  PROVE  q = a \div n
OBVIOUS

\* Multiplying both sides of a comparison.
LEMMA Scale ==
  ASSUME NEW a \in Int, NEW b \in Int, NEW m \in Nat, a <= b
  PROVE  m * a <= m * b
OBVIOUS

(***************************************************************************)
(* The two conversions, one after the other, lose at most one pixel.       *)
(***************************************************************************)
\* A pixel of the script comes out at itself or at its left neighbour, and
\* stays on the screen: write_mouse_packet and ScreenInput both truncate.
THEOREM RoundTrip ==
  ASSUME NEW x \in Pixel
  PROVE  /\ FromWire(ToWire(x)) \in Pixel
         /\ FromWire(ToWire(x)) \in {x - 1, x}
<1> DEFINE p == (x * Wire) \div Width
           r == (p * Width) \div Wire
<1>0. /\ x \in Nat /\ x < Width /\ Width \in Nat \ {0} /\ Wire \in Nat \ {0}
      /\ Width <= Wire
  BY DEF Pixel
<1>1. x * Wire \in Nat BY <1>0
<1>2. /\ p \in Nat /\ Width * p <= x * Wire /\ x * Wire < Width * p + Width
  BY <1>0, <1>1, Division
<1>3. p * Width \in Nat /\ p * Width = Width * p BY <1>0, <1>2
<1>4. /\ r \in Nat /\ Wire * r <= p * Width /\ p * Width < Wire * r + Wire
  BY <1>0, <1>3, Division
<1> HIDE DEF p, r
<1>5. Wire * r <= x * Wire /\ x * Wire = Wire * x BY <1>0, <1>2, <1>3, <1>4
<1>6. r <= x
  <2>1. CASE r >= x + 1
    <3>1. Wire * (x + 1) <= Wire * r BY <1>0, <1>4, <2>1, Scale
    <3>2. Wire * (x + 1) = Wire * x + Wire BY <1>0
    <3> QED BY <1>0, <1>4, <1>5, <3>1, <3>2
  <2> QED BY <1>0, <1>4, <2>1
<1>7. r >= x - 1
  <2>1. CASE r <= x - 2
    <3>1. Wire * r <= Wire * (x - 2) BY <1>0, <1>4, <2>1, Scale
    <3>2. Wire * (x - 2) = Wire * x - 2 * Wire BY <1>0
    <3>3. p * Width < Wire * x - Wire BY <1>0, <1>3, <1>4, <3>1, <3>2
    <3>4. x * Wire < (Wire * x - Wire) + Width BY <1>0, <1>2, <1>3, <3>3
    <3> QED BY <1>0, <1>5, <3>4
  <2> QED BY <1>0, <1>4, <2>1
<1>8. r \in Pixel /\ r \in {x - 1, x} BY <1>0, <1>4, <1>6, <1>7 DEF Pixel
<1>9. ToWire(x) = p /\ FromWire(p) = r
  BY <1>0, <1>1, <1>2, <1>3 DEF ToWire, FromWire, Quot, p, r
<1> QED BY <1>8, <1>9

(***************************************************************************)
(* A part of a distance is no longer than it.                              *)
(***************************************************************************)
LEMMA QuotBetween ==
  ASSUME NEW a \in Int, NEW n \in Nat \ {0}, NEW i \in 0 .. n
  PROVE  /\ Quot(a * i, n) \in Int
         /\ a >= 0 => 0 <= Quot(a * i, n) /\ Quot(a * i, n) <= a
         /\ a < 0  => a <= Quot(a * i, n) /\ Quot(a * i, n) <= 0
<1>1. ASSUME NEW b \in Nat
      PROVE  /\ (b * i) \div n \in Nat
             /\ (b * i) \div n <= b
  <2>1. b * i \in Nat BY <1>1
  <2>2. /\ (b * i) \div n \in Nat /\ n * ((b * i) \div n) <= b * i
    BY <2>1, Division
  <2>3. b * i <= b * n BY <1>1, Scale
  <2> DEFINE q == (b * i) \div n
  <2>4. CASE q >= b + 1
    <3> HIDE DEF q
    <3>1. n * (b + 1) <= n * q BY <2>4, <2>2, Scale DEF q
    <3>2. n * (b + 1) = b * n + n BY <1>1
    <3>3. n * q <= b * n BY <2>1, <2>2, <2>3, <1>1 DEF q
    <3> QED BY <1>1, <2>2, <3>1, <3>2, <3>3 DEF q
  <2> QED BY <1>1, <2>2, <2>4
<1>2. CASE a >= 0
  <2>1. a * i >= 0 BY <1>2
  <2>2. (a * i) \div n \in Nat /\ (a * i) \div n <= a BY <1>1, <1>2
  <2> QED BY <1>2, <2>1, <2>2 DEF Quot
<1>3. CASE a < 0
  <2>1. -a \in Nat BY <1>3
  <2>2. ((-a) * i) \div n \in Nat /\ ((-a) * i) \div n <= -a BY <1>1, <2>1
  <2>3. (-a) * i = -(a * i) OBVIOUS
  <2>4. CASE a * i >= 0
    <3>1. a * i = 0
      <4>1. (-a) * i >= 0 BY <2>1
      <4> QED BY <2>3, <2>4, <4>1
    <3>2. 0 \div n = 0 OBVIOUS
    <3> QED BY <1>3, <3>1, <3>2 DEF Quot
  <2>5. CASE ~(a * i >= 0)
    BY <1>3, <2>2, <2>3, <2>5 DEF Quot
  <2> QED BY <2>4, <2>5
<1> QED BY <1>2, <1>3

(***************************************************************************)
(* Positions outside the screen, which a pointer grab reports.             *)
(***************************************************************************)

\* A quotient has the sign of its dividend and is no larger than it.
LEMMA QuotSign ==
  ASSUME NEW a \in Int, NEW n \in Nat \ {0}
  PROVE  /\ Quot(a, n) \in Int /\ Quot(a, n) * n \in Int
         /\ a >= 0 => 0 <= Quot(a, n) /\ Quot(a, n) * n <= a
         /\ a <= 0 => Quot(a, n) <= 0 /\ a <= Quot(a, n) * n
<1>1. CASE a >= 0
  <2>1. a \in Nat BY <1>1
  <2>2. Quot(a, n) = a \div n BY <1>1 DEF Quot
  <2> DEFINE q == a \div n
  <2>3. /\ q \in Nat /\ n * q <= a /\ a < n * q + n BY <2>1, Division
  <2>4. a <= 0 => q = 0
    <3>1. SUFFICES ASSUME a <= 0 PROVE q = 0 OBVIOUS
    <3>2. a = 0 BY <1>1, <3>1
    <3> HIDE DEF q
    <3>3. 0 = 0 \div n BY Fits
    <3> QED BY <3>2, <3>3 DEF q
  <2> HIDE DEF q
  <2>5. n * q = q * n /\ q * n \in Int BY <2>3
  <2>6. a <= 0 => a <= q * n
    <3>1. SUFFICES ASSUME a <= 0 PROVE a <= q * n OBVIOUS
    <3>2. q = 0 BY <2>4, <3>1
    <3> QED BY <3>1, <3>2
  <2> QED BY <1>1, <2>2, <2>3, <2>4, <2>5, <2>6 DEF q
<1>2. CASE a < 0
  <2>1. -a \in Nat BY <1>2
  <2> DEFINE q == (-a) \div n
  <2>2. Quot(a, n) = -q BY <1>2 DEF Quot
  <2>3. /\ q \in Nat /\ n * q <= -a BY <2>1, Division
  <2> HIDE DEF q
  <2>4. (-q) * n = -(n * q) /\ n * q \in Nat BY <2>3
  <2> QED BY <1>2, <2>2, <2>3, <2>4
<1> QED BY <1>1, <1>2

\* Wherever the pointer is, the cursor lands on the pixel of the screen that
\* is nearest to it, or one left of that.
THEOREM Lands ==
  ASSUME NEW x \in Int
  PROVE  /\ Constrain(FromWire(ToWire(x))) \in Pixel
         /\ Constrain(FromWire(ToWire(x))) \in {Constrain(x) - 1, Constrain(x)}
<1> DEFINE p == ToWire(x)
           r == FromWire(p)
<1>0. /\ Width \in Nat \ {0} /\ Wire \in Nat \ {0} /\ x * Wire \in Int
  OBVIOUS
<1>1. p \in Int /\ p * Width \in Int BY <1>0, QuotSign DEF ToWire
<1>2. r \in Int
  <2> HIDE DEF p
  <2> QED BY <1>0, <1>1, QuotSign DEF FromWire
<1>3. CASE x \in Pixel
  <2>1. r \in Pixel /\ r \in {x - 1, x} BY <1>3, RoundTrip
  <2> HIDE DEF r
  <2>2. Constrain(r) = r /\ Constrain(x) = x
    BY <1>0, <1>3, <2>1 DEF Constrain, Pixel
  <2> QED BY <2>1, <2>2 DEF r
<1>4. CASE x < 0
  <2>1. x * Wire <= 0 BY <1>0, <1>4
  <2>2. p <= 0 BY <1>0, <2>1, QuotSign DEF ToWire
  <2> HIDE DEF p
  <2>3. p * Width <= 0 BY <1>0, <1>1, <2>2
  <2>4. r <= 0 BY <1>0, <1>1, <2>3, QuotSign DEF FromWire
  <2> HIDE DEF r
  <2>5. Constrain(r) = 0 /\ Constrain(x) = 0
    BY <1>0, <1>2, <1>4, <2>4 DEF Constrain
  <2> QED BY <1>0, <2>5 DEF Pixel, r, p
<1>5. CASE x >= Width
  <2>1. x * Wire \in Nat BY <1>0, <1>5
  <2>2. p = (x * Wire) \div Width BY <2>1 DEF ToWire, Quot
  <2>3. p \in Nat /\ x * Wire < Width * p + Width
    BY <1>0, <2>1, <2>2, Division
  <2> HIDE DEF p
  <2>4. p >= Wire
    <3>1. CASE p <= Wire - 1
      <4>1. Width * p <= Width * (Wire - 1) BY <1>0, <2>3, <3>1, Scale
      <4>2. Width * (Wire - 1) = Width * Wire - Width BY <1>0
      <4>3. Wire * Width <= Wire * x BY <1>0, <1>5, Scale
      <4> QED BY <1>0, <2>1, <2>3, <4>1, <4>2, <4>3
    <3> QED BY <1>0, <2>3, <3>1
  <2>5. Width * Wire <= Width * p BY <1>0, <2>3, <2>4, Scale
  <2>6. p * Width \in Nat /\ p * Width = Width * p BY <1>0, <2>3
  <2>7. r = (p * Width) \div Wire BY <2>6 DEF FromWire, Quot
  <2>8. r \in Nat /\ p * Width < Wire * r + Wire
    BY <1>0, <2>6, <2>7, Division
  <2> HIDE DEF r
  <2>9. r >= Width
    <3>1. CASE r <= Width - 1
      <4>1. Wire * r <= Wire * (Width - 1) BY <1>0, <2>8, <3>1, Scale
      <4>2. Wire * (Width - 1) = Width * Wire - Wire BY <1>0
      <4> QED BY <1>0, <2>5, <2>6, <2>8, <4>1, <4>2
    <3> QED BY <1>0, <2>8, <3>1
  <2>10. Constrain(r) = Width - 1 /\ Constrain(x) = Width - 1
    BY <1>0, <1>5, <2>8, <2>9 DEF Constrain
  <2> QED BY <1>0, <2>10 DEF Pixel, r, p
<1> QED BY <1>0, <1>3, <1>4, <1>5 DEF Pixel

\* deliver_mouse multiplies 32-bit integers: with the protocol's coordinates,
\* which have 16 bits, neither its product nor WindowServer's leaves them.
THEOREM ProductsFit ==
  ASSUME NEW x \in Int, 0 - 32768 <= x, x <= 32767, Wire <= 65535
  PROVE  /\ 0 - 2147483648 <= x * Wire /\ x * Wire <= 2147483647
         /\ 0 - 2147483648 <= ToWire(x) * Width
         /\ ToWire(x) * Width <= 2147483647
<1>0. /\ Width \in Nat \ {0} /\ Wire \in Nat \ {0} /\ x * Wire \in Int
  OBVIOUS
<1>1. CASE x >= 0
  <2>1. Wire * x <= Wire * 32767 BY <1>0, Scale
  <2>2. x * Wire <= 2147450880 BY <1>0, <2>1
  <2>3. x * Wire >= 0 BY <1>0, <1>1
  <2>4. /\ ToWire(x) \in Int /\ 0 <= ToWire(x) /\ ToWire(x) * Width <= x * Wire
    BY <1>0, <2>3, QuotSign DEF ToWire
  <2>5. ASSUME NEW p \in Int, 0 <= p PROVE p * Width >= 0 BY <1>0, <2>5
  <2> QED BY <1>0, <2>2, <2>3, <2>4, <2>5
<1>2. CASE x < 0
  <2>1. Wire * (0 - x) <= Wire * 32768 BY <1>0, Scale
  <2>2. 0 - 2147483648 <= x * Wire BY <1>0, <2>1
  <2>3. x * Wire <= 0 BY <1>0, <1>2
  <2>4. /\ ToWire(x) \in Int /\ ToWire(x) <= 0 /\ x * Wire <= ToWire(x) * Width
    BY <1>0, <2>3, QuotSign DEF ToWire
  <2>5. ASSUME NEW p \in Int, p <= 0 PROVE p * Width <= 0 BY <1>0, <2>5
  <2>6. ToWire(x) * Width \in Int BY <1>0, <2>4
  <2> QED BY <1>0, <2>2, <2>3, <2>4, <2>5, <2>6
<1> QED BY <1>1, <1>2

(***************************************************************************)
(* Order.                                                                  *)
(***************************************************************************)

\* A larger number has no smaller quotient, ...
LEMMA DivisionMonotone ==
  ASSUME NEW a \in Nat, NEW b \in Nat, NEW n \in Nat \ {0}, a <= b
  PROVE  a \div n <= b \div n
<1> DEFINE p == a \div n
           q == b \div n
<1>1. /\ p \in Nat /\ n * p <= a
      /\ q \in Nat /\ b < n * q + n
  BY Division
<1> HIDE DEF p, q
<1>2. CASE p >= q + 1
  <2>1. n * (q + 1) <= n * p BY <1>1, <1>2, Scale
  <2>2. n * (q + 1) = n * q + n BY <1>1
  <2>3. n * q \in Int /\ n * p \in Int BY <1>1
  <2> QED BY <1>1, <2>1, <2>2, <2>3
<1> QED BY <1>1, <1>2 DEF p, q

\* ... whatever its sign.
LEMMA QuotMonotone ==
  ASSUME NEW a \in Int, NEW b \in Int, NEW n \in Nat \ {0}, a <= b
  PROVE  Quot(a, n) <= Quot(b, n)
<1>1. CASE a >= 0
  <2>1. a \div n <= b \div n BY <1>1, DivisionMonotone
  <2> QED BY <1>1, <2>1 DEF Quot
<1>2. CASE a < 0 /\ b >= 0
  <2>1. /\ Quot(a, n) \in Int /\ Quot(a, n) <= 0
        /\ Quot(b, n) \in Int /\ Quot(b, n) >= 0
    BY <1>2, QuotSign
  <2> QED BY <2>1
<1>3. CASE b < 0
  <2>1. (-b) \in Nat /\ (-a) \in Nat /\ -b <= -a BY <1>3
  <2> DEFINE p == (-a) \div n
             q == (-b) \div n
  <2>2. p \in Nat /\ q \in Nat /\ q <= p
    BY <2>1, Division, DivisionMonotone
  <2>3. Quot(a, n) = -p /\ Quot(b, n) = -q BY <1>3 DEF Quot
  <2> HIDE DEF p, q
  <2> QED BY <2>2, <2>3
<1> QED BY <1>1, <1>2, <1>3

\* Dividing a multiple gives back the factor.
LEMMA QuotExact ==
  ASSUME NEW a \in Int, NEW n \in Nat \ {0}
  PROVE  Quot(a * n, n) = a
<1>1. ASSUME NEW b \in Nat PROVE b = (b * n) \div n
  <2> DEFINE c == b * n
  <2>1. c \in Nat /\ n * b <= c /\ c < n * b + n OBVIOUS
  <2> HIDE DEF c
  <2>2. b = c \div n BY <2>1, Fits
  <2> QED BY <2>2 DEF c
<1>2. CASE a >= 0
  <2>1. a * n >= 0 /\ a \in Nat BY <1>2
  <2>2. a = (a * n) \div n BY <1>1, <2>1
  <2> QED BY <2>1, <2>2 DEF Quot
<1>3. CASE a < 0
  <2> DEFINE b == -a
  <2>1. b \in Nat /\ b >= 1 /\ a = -b BY <1>3
  <2> HIDE DEF b
  <2>2. b = (b * n) \div n BY <1>1, <2>1
  <2>3. n * 1 <= n * b BY <2>1, Scale
  <2>4. b * n = n * b /\ -(b * n) = a * n /\ -(a * n) = b * n BY <2>1
  <2>5. ~(a * n >= 0) BY <2>1, <2>3, <2>4
  <2>6. Quot(a * n, n) = -((-(a * n)) \div n) BY <2>5 DEF Quot
  <2> QED BY <2>1, <2>2, <2>4, <2>6
<1> QED BY <1>2, <1>3

\* Positions never change places on their way from one scale to the other and
\* back, on the screen or off it: what moves right is never seen to move left
\* (write_mouse_packet and deliver_mouse, then WindowServer's ScreenInput).
THEOREM OrderKept ==
  ASSUME NEW x \in Int, NEW y \in Int, x <= y
  PROVE  FromWire(ToWire(x)) <= FromWire(ToWire(y))
<1> DEFINE p == ToWire(x)
           q == ToWire(y)
<1>0. Width \in Nat \ {0} /\ Wire \in Nat \ {0} OBVIOUS
<1>1. /\ x * Wire \in Int /\ y * Wire \in Int /\ x * Wire <= y * Wire
  <2>1. Wire * x <= Wire * y BY <1>0, Scale
  <2> QED BY <1>0, <2>1
<1>2. p \in Int /\ q \in Int /\ p <= q
  BY <1>0, <1>1, QuotSign, QuotMonotone DEF ToWire
<1> HIDE DEF p, q
<1>3. /\ p * Width \in Int /\ q * Width \in Int /\ p * Width <= q * Width
  <2>1. Width * p <= Width * q BY <1>0, <1>2, Scale
  <2> QED BY <1>0, <1>2, <2>1
<1>4. FromWire(p) <= FromWire(q) BY <1>0, <1>3, QuotMonotone DEF FromWire
<1> QED BY <1>4 DEF p, q
=============================================================================
