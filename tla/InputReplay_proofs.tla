-------------------------- MODULE InputReplay_proofs --------------------------
(***************************************************************************)
(* Proofs about InputReplay, for every screen width up to the wire range,  *)
(* every set of scripts and every FIFO size: the types; that WindowServer  *)
(* sees the presses, releases and keys of the script, in order and near    *)
(* their places, none lost and none invented; and that a finished script   *)
(* leaves down only what its last mouse line left down.                    *)
(***************************************************************************)
EXTENDS InputReplay, Coordinates_proofs, SequenceTheorems,
        WellFoundedInduction

\* A position is a number.
LEMMA Positions == Reach \in Nat /\ \A x \in Position : x \in Int
<1>1. Reach \in Nat BY DEF Reach
<1> QED BY <1>1 DEF Position

\* A drag passes through positions between its ends.
LEMMA DragBetween ==
  ASSUME NEW lo \in Int, NEW hi \in Int, NEW x \in lo .. hi, NEW to \in lo .. hi,
         NEW n \in Nat \ {0}, NEW i \in 0 .. n
  PROVE  x + Quot((to - x) * i, n) \in lo .. hi
<1> DEFINE a == to - x
           q == Quot(a * i, n)
<1>1. a \in Int OBVIOUS
<1>2. /\ q \in Int
      /\ a >= 0 => 0 <= q /\ q <= a
      /\ a < 0  => a <= q /\ q <= 0
  <2> HIDE DEF a
  <2> QED BY <1>1, QuotBetween
<1> HIDE DEF q
<1>3. x + q \in lo .. hi BY <1>1, <1>2
<1> QED BY <1>3 DEF q

\* Every position a drag passes through is one, ...
LEMMA DragTo ==
  ASSUME NEW x \in Position, NEW to \in Position,
         NEW n \in Nat \ {0}, NEW i \in 0 .. n
  PROVE  x + Quot((to - x) * i, n) \in Position
<1>1. -Reach \in Int /\ Reach \in Int BY Positions
<1>2. x \in -Reach .. Reach /\ to \in -Reach .. Reach BY DEF Position
<1>3. x + Quot((to - x) * i, n) \in -Reach .. Reach
  BY <1>1, <1>2, DragBetween
<1> QED BY <1>3 DEF Position

USE CoordinatesAssumption, InputReplayAssumption

\* ... and is on the screen if both ends are.
THEOREM DragOnScreen ==
  ASSUME NEW x \in Pixel, NEW to \in Pixel,
         NEW n \in Nat \ {0}, NEW i \in 0 .. n
  PROVE  x + Quot((to - x) * i, n) \in Pixel
<1>1. 0 \in Int /\ Width - 1 \in Int OBVIOUS
<1> QED BY <1>1, DragBetween DEF Pixel

\* WindowServer's cursor keeps the order of positions, on the screen or off it.
LEMMA SeenInOrder ==
  ASSUME NEW x \in Int, NEW y \in Int, x <= y
  PROVE  Constrain(FromWire(ToWire(x))) <= Constrain(FromWire(ToWire(y)))
<1> DEFINE p == FromWire(ToWire(x))
           q == FromWire(ToWire(y))
<1>1. p <= q BY OrderKept
<1>2. p \in Int /\ q \in Int
  <2>1. ToWire(x) \in Int /\ ToWire(y) \in Int BY QuotSign DEF ToWire
  <2>2. \A w \in Int : FromWire(w) \in Int BY QuotSign DEF FromWire
  <2> QED BY <2>1, <2>2
<1> HIDE DEF p, q
<1>3. Constrain(p) <= Constrain(q) BY <1>1, <1>2 DEF Constrain
<1> QED BY <1>3 DEF p, q

\* A drag goes straight from where its button went down to where it is let go:
\* WindowServer sees it move one way only (mouse_drag), and the last position
\* before the release is the release's own.
THEOREM DragStraight ==
  ASSUME NEW x \in Position, NEW to \in Position, NEW n \in Nat \ {0},
         NEW i \in 0 .. n, NEW j \in 0 .. n, i <= j
  PROVE  LET at(k)   == x + Quot((to - x) * k, n)
             seen(k) == Constrain(FromWire(Move(at(k), "left").x))
         IN  /\ IF x <= to THEN seen(i) <= seen(j) ELSE seen(j) <= seen(i)
             /\ at(0) = x /\ at(n) = to
<1> DEFINE a == to - x
           at(k) == x + Quot(a * k, n)
           seen(k) == Constrain(FromWire(Move(at(k), "left").x))
<1>1. a \in Int /\ x \in Int /\ to \in Int /\ (a >= 0 <=> x <= to)
  BY Positions
<1>2. ASSUME NEW k \in 0 .. n PROVE at(k) \in Int
  <2>1. x + Quot((to - x) * k, n) \in Position BY DragTo
  <2> QED BY <2>1, Positions
<1>3. \A k : seen(k) = Constrain(FromWire(ToWire(at(k)))) BY DEF Move
<1>4. at(0) = x /\ at(n) = to
  <2> HIDE DEF a
  <2>1. Quot(a * n, n) = a BY <1>1, QuotExact
  <2>2. Quot(0 * n, n) = 0 /\ a * 0 = 0 /\ 0 * n = 0 BY <1>1, QuotExact
  <2>3. Quot(a * 0, n) = 0 BY <2>2
  <2> QED BY <1>1, <2>1, <2>3 DEF a
<1>5. CASE a >= 0
  <2>1. a * i <= a * j /\ a * i \in Int /\ a * j \in Int
    BY <1>1, <1>5, Scale
  <2>2. Quot(a * i, n) <= Quot(a * j, n) BY <2>1, QuotMonotone
  <2>3. Quot(a * i, n) \in Int /\ Quot(a * j, n) \in Int BY <2>1, QuotSign
  <2>4. at(i) <= at(j) BY <1>1, <2>2, <2>3
  <2> HIDE DEF at, seen
  <2>5. Constrain(FromWire(ToWire(at(i)))) <= Constrain(FromWire(ToWire(at(j))))
    BY <1>2, <2>4, SeenInOrder
  <2>6. seen(i) <= seen(j) BY <1>3, <2>5
  <2> QED BY <1>1, <1>4, <1>5, <2>6 DEF at, seen
<1>6. CASE a < 0
  <2>1. -a \in Nat BY <1>1, <1>6
  <2>2. (-a) * i <= (-a) * j BY <2>1, Scale
  <2>3. /\ (-a) * i = -(a * i) /\ (-a) * j = -(a * j)
        /\ a * i \in Int /\ a * j \in Int
    BY <1>1
  <2>4. a * j <= a * i BY <2>2, <2>3
  <2>5. Quot(a * j, n) <= Quot(a * i, n) BY <2>3, <2>4, QuotMonotone
  <2>6. Quot(a * i, n) \in Int /\ Quot(a * j, n) \in Int BY <2>3, QuotSign
  <2>7. at(j) <= at(i) BY <1>1, <2>5, <2>6
  <2> HIDE DEF at, seen
  <2>8. Constrain(FromWire(ToWire(at(j)))) <= Constrain(FromWire(ToWire(at(i))))
    BY <1>2, <2>7, SeenInOrder
  <2>9. seen(j) <= seen(i) BY <1>3, <2>8
  <2> QED BY <1>1, <1>4, <1>6, <2>9 DEF at, seen
<1> QED BY <1>1, <1>5, <1>6
-----------------------------------------------------------------------------
(***************************************************************************)
(* Types.  The packets on their way are of the two kinds the FIFOs carry,  *)
(* and a mouse packet holds a position that a script may name, scaled.     *)
(***************************************************************************)
Held         == Button \cup {"none"}
MousePackets == [x : {ToWire(p) : p \in Position}, buttons : Held]
KeyPackets   == [key : Key, press : BOOLEAN]
Packet       == MousePackets \cup KeyPackets

PInv ==
  /\ TypeOK
  /\ todo \in Seq(Packet)
  /\ mouse \in Seq(MousePackets) /\ keyboard \in Seq(KeyPackets)

LEMMA MouseOrKey ==
  ASSUME NEW p \in Packet
  PROVE  /\ IsMouse(p) => p \in MousePackets
         /\ ~IsMouse(p) => p \in KeyPackets
BY DEF Packet, MousePackets, KeyPackets, IsMouse

LEMMA MoveTyped ==
  ASSUME NEW x \in Position, NEW b \in Held
  PROVE  Move(x, b) \in Packet
BY DEF Move, Packet, MousePackets

LEMMA DragTyped ==
  ASSUME NEW c \in [op : {"drag"}, x : Position, to : Position, steps : Int]
  PROVE  Drag(c) \in Seq(Packet)
<1> DEFINE n == IF c.steps < 2 THEN 10 ELSE c.steps
           way == [i \in 1 .. n |->
                     Move(c.x + Quot((c.to - c.x) * i, n), "left")]
<1>1. /\ c.x \in Position /\ c.to \in Position /\ n \in Nat \ {0}
      /\ "left" \in Held /\ "none" \in Held
  BY DEF Held, Button
<1> HIDE DEF n
<1>2. ASSUME NEW i \in 1 .. n
      PROVE  Move(c.x + Quot((c.to - c.x) * i, n), "left") \in Packet
  <2>1. i \in 0 .. n BY <1>1
  <2>2. c.x + Quot((c.to - c.x) * i, n) \in Position BY <1>1, <2>1, DragTo
  <2> QED BY <1>1, <2>2, MoveTyped
<1>3. way \in Seq(Packet)
  <2>1. way \in [1 .. n -> Packet] BY <1>2
  <2> HIDE DEF way
  <2> QED BY <1>1, <2>1
<1> HIDE DEF way
<1>4. /\ Move(c.x, "none") \in Packet /\ Move(c.x, "left") \in Packet
      /\ Move(c.to, "none") \in Packet
  BY <1>1, MoveTyped
<1>5. /\ <<Move(c.x, "none"), Move(c.x, "left")>> \in Seq(Packet)
      /\ <<Move(c.to, "none")>> \in Seq(Packet)
  BY <1>4
<1>6. <<Move(c.x, "none"), Move(c.x, "left")>> \o way \in Seq(Packet)
  BY <1>3, <1>5, ConcatProperties
<1>7. (<<Move(c.x, "none"), Move(c.x, "left")>> \o way)
         \o <<Move(c.to, "none")>> \in Seq(Packet)
  BY <1>5, <1>6, ConcatProperties
<1> QED BY <1>7 DEF Drag, n, way

\* Whatever a line says, it writes packets of the two kinds.
LEMMA PacketsTyped ==
  ASSUME NEW c \in Command
  PROVE  Packets(c) \in Seq(Packet)
<1>0. "none" \in Held /\ Button \subseteq Held BY DEF Held
<1>1. CASE c.op \in {"move", "release"}
  <2>1. c.x \in Position BY <1>1 DEF Command
  <2>2. Move(c.x, "none") \in Packet BY <1>0, <2>1, MoveTyped
  <2>3. <<Move(c.x, "none")>> \in Seq(Packet) BY <2>2
  <2> QED BY <1>1, <2>3 DEF Packets
<1>2. CASE c.op \in {"press", "click"}
  <2>1. c.x \in Position /\ c.button \in Button BY <1>2 DEF Command
  <2>2. Move(c.x, "none") \in Packet /\ Move(c.x, c.button) \in Packet
    BY <1>0, <2>1, MoveTyped
  <2>3. /\ <<Move(c.x, "none"), Move(c.x, c.button)>> \in Seq(Packet)
        /\ <<Move(c.x, "none"), Move(c.x, c.button), Move(c.x, "none")>>
             \in Seq(Packet)
    BY <2>2
  <2> QED BY <1>2, <2>3 DEF Packets
<1>3. CASE c.op = "drag"
  <2>1. c \in [op : {"drag"}, x : Position, to : Position, steps : Int]
    BY <1>3 DEF Command
  <2> QED BY <1>3, <2>1, DragTyped DEF Packets
<1>4. CASE c.op = "key"
  <2>1. c.key \in Key BY <1>4 DEF Command
  <2>2. /\ KeyEvent(c.key, TRUE) \in Packet
        /\ KeyEvent(c.key, FALSE) \in Packet
    BY <2>1 DEF KeyEvent, Packet, KeyPackets
  <2> DEFINE down == KeyEvent(c.key, TRUE)
             up   == KeyEvent(c.key, FALSE)
  <2>3. <<down, up>> \in Seq(Packet)
    <3>1. down \in Packet /\ up \in Packet BY <2>2
    <3> HIDE DEF down, up
    <3> QED BY <3>1
  <2> QED BY <1>4, <2>3 DEF Packets
<1>5. CASE c.op \in {"delay", "bad"}
  <2>1. <<>> \in Seq(Packet) BY EmptySeq
  <2> QED BY <1>5, <2>1 DEF Packets
<1> QED BY <1>1, <1>2, <1>3, <1>4, <1>5 DEF Command

LEMMA PInit == Init => PInv
<1> SUFFICES ASSUME Init PROVE PInv OBVIOUS
<1>1. /\ <<>> \in Seq(Packet) /\ <<>> \in Seq(MousePackets)
      /\ <<>> \in Seq(KeyPackets) /\ Len(<<>>) = 0
  BY EmptySeq
<1>2. script \in Seq(Command) /\ script \in Scripts BY DEF Init
<1>3. 0 \in 0 .. Len(script) BY <1>2, LenProperties
<1>4. 0 \in Pixel BY DEF Pixel
<1>5. Len(mouse) = 0 /\ Len(keyboard) = 0 BY <1>1 DEF Init
<1> QED BY <1>1, <1>2, <1>3, <1>4, <1>5 DEF Init, PInv, TypeOK

LEMMA PNext == PInv /\ [Next]_vars => PInv'
<1> SUFFICES ASSUME PInv, [Next]_vars PROVE PInv' OBVIOUS
<1> USE DEF PInv, TypeOK, launcher, server
<1>0. /\ script \in Seq(Command) /\ Len(script) \in Nat
      /\ Len(mouse) \in Nat /\ Len(keyboard) \in Nat
  BY LenProperties
<1>1. CASE ReadLine
  <2>1. line + 1 \in 1 .. Len(script) BY <1>0, <1>1 DEF ReadLine
  <2>2. script[line + 1] \in Command BY <1>0, <2>1, ElementOfSeq
  <2>3. Packets(script[line + 1]) \in Seq(Packet) BY <2>2, PacketsTyped
  <2>4. todo' \in Seq(Packet) /\ status' \in {"replaying", "done", "exit"}
    BY <1>1, <2>3 DEF ReadLine
  <2> QED BY <1>0, <1>1, <2>1, <2>4 DEF ReadLine
<1>2. CASE Write
  <2> DEFINE p == Head(todo)
  <2>1. p \in Packet /\ Tail(todo) \in Seq(Packet)
    BY <1>2, HeadTailProperties DEF Write
  <2> HIDE DEF p
  <2>2. CASE /\ IsMouse(p) /\ Len(mouse) < FifoSize
             /\ mouse' = Append(mouse, p) /\ todo' = Tail(todo)
             /\ UNCHANGED <<keyboard, status>>
    <3>1. p \in MousePackets BY <2>1, <2>2, MouseOrKey
    <3>2. mouse' \in Seq(MousePackets) /\ Len(mouse') = Len(mouse) + 1
      BY <2>2, <3>1, AppendProperties
    <3>3. Len(mouse') \in 0 .. FifoSize BY <1>0, <2>2, <3>2
    <3> QED BY <1>2, <2>1, <2>2, <3>2, <3>3 DEF Write
  <2>3. CASE /\ ~IsMouse(p) /\ Len(keyboard) < FifoSize
             /\ keyboard' = Append(keyboard, p) /\ todo' = Tail(todo)
             /\ UNCHANGED <<mouse, status>>
    <3>1. p \in KeyPackets BY <2>1, <2>3, MouseOrKey
    <3>2. keyboard' \in Seq(KeyPackets) /\ Len(keyboard') = Len(keyboard) + 1
      BY <2>3, <3>1, AppendProperties
    <3>3. Len(keyboard') \in 0 .. FifoSize BY <1>0, <2>3, <3>2
    <3> QED BY <1>2, <2>1, <2>3, <3>2, <3>3 DEF Write
  <2>4. CASE status' = "exit" /\ UNCHANGED <<todo, mouse, keyboard>>
    BY <1>2, <2>4 DEF Write
  <2> QED BY <1>2, <2>2, <2>3, <2>4 DEF Write, p
<1>3. CASE EndOfScript BY <1>3 DEF EndOfScript
<1>4. CASE OpenDevices BY <1>4 DEF OpenDevices
<1>5. CASE DrainMouse
  <2> DEFINE p == Head(mouse)
  <2>1. /\ p \in MousePackets /\ mouse' \in Seq(MousePackets)
        /\ Len(mouse') = Len(mouse) - 1 /\ Len(mouse) # 0
    BY <1>5, HeadTailProperties, EmptySeq DEF DrainMouse
  <2>2. PICK q \in Position : p.x = ToWire(q) BY <2>1 DEF MousePackets
  <2>3. Constrain(FromWire(p.x)) \in Pixel BY <2>2, Lands, Positions
  <2>4. p.buttons \in Held BY <2>1 DEF MousePackets
  <2>5. cursor' \in Pixel /\ held' \in Held BY <1>5, <2>3, <2>4 DEF DrainMouse
  <2>6. Len(mouse') \in 0 .. FifoSize BY <1>0, <2>1
  <2> QED BY <1>5, <2>1, <2>5, <2>6 DEF DrainMouse, Held
<1>6. CASE MergeMove
  <2>1. mouse # <<>> BY <1>6, EmptySeq DEF MergeMove
  <2>2. /\ mouse' \in Seq(MousePackets) /\ Len(mouse') = Len(mouse) - 1
        /\ Len(mouse) > 1
    BY <1>6, <2>1, HeadTailProperties DEF MergeMove
  <2>3. Len(mouse') \in 0 .. FifoSize BY <1>0, <2>2
  <2> QED BY <1>6, <2>2, <2>3 DEF MergeMove
<1>7. CASE DrainKeyboard
  <2>1. /\ keyboard' \in Seq(KeyPackets) /\ Len(keyboard') = Len(keyboard) - 1
        /\ Len(keyboard) # 0
    BY <1>7, HeadTailProperties, EmptySeq DEF DrainKeyboard
  <2>2. Len(keyboard') \in 0 .. FifoSize BY <1>0, <2>1
  <2> QED BY <1>7, <2>1, <2>2 DEF DrainKeyboard
<1>8. CASE Crash BY <1>8 DEF Crash
<1>9. CASE UNCHANGED vars BY <1>9 DEF vars
<1> QED BY <1>1, <1>2, <1>3, <1>4, <1>5, <1>6, <1>7, <1>8, <1>9
     DEF Next, Launcher, Server

\* The cursor never leaves the screen, the FIFOs never hold more than they
\* can, and every other variable keeps its type.
THEOREM TypeCorrect == Spec => []TypeOK
<1>1. PInv => TypeOK BY DEF PInv
<1> QED BY <1>1, PInit, PNext, PTL DEF Spec

-----------------------------------------------------------------------------
(***************************************************************************)
(* What a script means is defined by recursion over its lines; these are   *)
(* the equations it satisfies. The functions are shown to exist, and to    *)
(* have their types, by the least number at which they would not.          *)
(***************************************************************************)
Stroke == [x : Int, buttons : Held]

\* A set of natural numbers that is not empty has a smallest one.
LEMMA Smallest ==
  ASSUME NEW T \in SUBSET Nat, T # {}
  PROVE  \E m \in T : \A k \in T : m <= k
<1> DEFINE R == OpToRel(<, Nat)
<1>1. R = {ss \in Nat \X Nat : ss[1] < ss[2]} BY DEF OpToRel
<1>2. IsWellFoundedOn(R, Nat) BY NatLessThanWellFounded
<1> HIDE DEF R
<1>3. PICK m \in T : \A k \in T : ~ (<<k, m>> \in R) BY <1>2, WFMin
<1>4. ASSUME NEW k \in T, k < m PROVE FALSE
  <2>1. <<k, m>> \in Nat \X Nat /\ <<k, m>>[1] < <<k, m>>[2] BY <1>4
  <2>2. <<k, m>> \in R BY <1>1, <2>1
  <2> QED BY <1>3, <2>2
<1>5. \A k \in T : m \in Nat /\ k \in Nat OBVIOUS
<1> QED BY <1>4, <1>5

\* What holds of 0 and passes from each number to the next holds of all up to N.
LEMMA Climb ==
  ASSUME NEW N \in Nat, NEW T, 0 \in T,
         \A n \in 1 .. N : n - 1 \in T => n \in T
  PROVE  0 .. N \subseteq T
<1> DEFINE bad == (0 .. N) \ T
<1> SUFFICES ASSUME bad # {} PROVE FALSE OBVIOUS
<1>1. bad \in SUBSET Nat OBVIOUS
<1>2. PICK m \in bad : \A k \in bad : m <= k BY <1>1, Smallest
<1>3. m \in 0 .. N /\ m \notin T /\ m # 0 BY <1>2
<1>4. m \in 1 .. N /\ m - 1 \in 0 .. N /\ ~(m <= m - 1) BY <1>3
<1>5. m - 1 \notin bad BY <1>2, <1>4
<1> QED BY <1>3, <1>4, <1>5

\* A function that computes each value from the one before it exists.
Iterate(f, N, V, b, G) ==
  /\ f \in [0 .. N -> V] /\ f[0] = b
  /\ \A n \in 1 .. N : f[n] = G[<<n, f[n - 1]>>]

LEMMA Iterates ==
  ASSUME NEW N \in Nat, NEW V, NEW b \in V, NEW G \in [(1 .. N) \X V -> V]
  PROVE  \E f : Iterate(f, N, V, b, G)
<1> DEFINE Run(f, m) == /\ f \in [0 .. m -> V] /\ f[0] = b
                        /\ \A n \in 1 .. m : f[n] = G[<<n, f[n - 1]>>]
           T == {m \in 0 .. N : \E f : Run(f, m)}
<1>1. 0 \in T
  <2>1. Run([n \in 0 .. 0 |-> b], 0) OBVIOUS
  <2> HIDE DEF Run
  <2>2. 0 \in 0 .. N OBVIOUS
  <2> QED BY <2>1, <2>2
<1>2. ASSUME NEW m \in 1 .. N, m - 1 \in T PROVE m \in T
  <2>1. PICK f : Run(f, m - 1) BY <1>2
  <2> DEFINE g == [n \in 0 .. m |-> IF n = m THEN G[<<m, f[m - 1]>>] ELSE f[n]]
  <2>2. f[m - 1] \in V /\ G[<<m, f[m - 1]>>] \in V
    <3>1. m - 1 \in 0 .. m - 1 OBVIOUS
    <3>2. f[m - 1] \in V BY <2>1, <3>1
    <3> QED BY <3>2
  <2>3. \A n \in 0 .. m - 1 : n \in 0 .. m /\ n # m /\ f[n] \in V BY <2>1
  <2>4. g \in [0 .. m -> V]
    <3> SUFFICES ASSUME NEW n \in 0 .. m, n # m PROVE n \in 0 .. m - 1
      BY <2>2, <2>3
    <3> QED OBVIOUS
  <2>5. g[0] = b BY <2>1
  <2>6. ASSUME NEW n \in 1 .. m PROVE g[n] = G[<<n, g[n - 1]>>]
    <3>1. n - 1 \in 0 .. m /\ n - 1 # m /\ n \in 0 .. m OBVIOUS
    <3>2. g[n - 1] = f[n - 1] BY <3>1
    <3>3. CASE n = m
      <4>1. g[n] = G[<<m, f[m - 1]>>] BY <3>1, <3>3
      <4> QED BY <3>2, <3>3, <4>1
    <3>4. CASE n # m
      <4>1. n \in 1 .. m - 1 BY <3>4
      <4>2. f[n] = G[<<n, f[n - 1]>>] BY <2>1, <4>1
      <4> QED BY <3>1, <3>2, <3>4, <4>2
    <3> QED BY <3>3, <3>4
  <2>7. Run(g, m) BY <2>4, <2>5, <2>6
  <2> HIDE DEF Run
  <2> QED BY <2>7
<1>3. 0 .. N \subseteq T
  <2> HIDE DEF T
  <2> QED BY <1>1, <1>2, Climb
<1>4. N \in T
  <2>1. N \in 0 .. N OBVIOUS
  <2> HIDE DEF T
  <2> QED BY <1>3, <2>1
<1> QED BY <1>4 DEF Iterate

\* The button a line leaves down follows from the one before it.
LEMMA DownUnfolds ==
  ASSUME NEW s \in Seq(Command)
  PROVE  /\ Down(s) \in [0 .. Len(s) -> Held]
         /\ Down(s)[0] = "none"
         /\ \A n \in 1 .. Len(s) : Down(s)[n] =
              IF ~IsMouseLine(s[n]) THEN Down(s)[n - 1]
              ELSE IF s[n].op = "press" THEN s[n].button ELSE "none"
<1> DEFINE N == Len(s)
           After(n, b) == IF ~IsMouseLine(s[n]) THEN b
                          ELSE IF s[n].op = "press" THEN s[n].button ELSE "none"
           G == [p \in (1 .. N) \X Held |-> After(p[1], p[2])]
           Eq(f) == f = [n \in 0 .. N |->
                           IF n = 0 THEN "none"
                           ELSE IF ~IsMouseLine(s[n]) THEN f[n - 1]
                           ELSE IF s[n].op = "press" THEN s[n].button
                           ELSE "none"]
<1>1. N \in Nat /\ "none" \in Held BY LenProperties DEF Held
<1>2. ASSUME NEW n \in 1 .. N, NEW b \in Held PROVE After(n, b) \in Held
  <2>1. s[n] \in Command BY ElementOfSeq
  <2>2. s[n].op = "press" => s[n].button \in Button BY <2>1 DEF Command
  <2> QED BY <2>2 DEF Held
<1>3. G \in [(1 .. N) \X Held -> Held]
  <2> HIDE DEF After
  <2> QED BY <1>2
<1>4. PICK f \in [0 .. N -> Held] :
        f[0] = "none" /\ \A n \in 1 .. N : f[n] = G[<<n, f[n - 1]>>]
  <2> DEFINE b == "none"
  <2>1. b \in Held BY <1>1
  <2> HIDE DEF N, G, After, Eq, b
  <2>2. \E f : Iterate(f, N, Held, b, G) BY <1>1, <1>3, <2>1, Iterates
  <2> QED BY <2>2 DEF b, Iterate
<1>5. \A n \in 1 .. N : f[n] = After(n, f[n - 1])
  <2> SUFFICES ASSUME NEW n \in 1 .. N PROVE f[n] = After(n, f[n - 1])
    OBVIOUS
  <2>1. n - 1 \in 0 .. N BY <1>1
  <2>2. <<n, f[n - 1]>> \in (1 .. N) \X Held BY <2>1
  <2> HIDE DEF After
  <2> QED BY <1>4, <2>2
<1>6. Eq(f)
  <2>1. \A n \in 0 .. N : n # 0 => n \in 1 .. N BY <1>1
  <2> QED BY <1>4, <1>5, <2>1
<1>7. Down(s) = CHOOSE d : Eq(d) BY Zenon DEF Down
<1>8. Eq(Down(s))
  <2> HIDE DEF Eq
  <2> QED BY <1>6, <1>7
<1>9. /\ Down(s)[0] = "none" /\ DOMAIN Down(s) = 0 .. N
      /\ \A n \in 1 .. N : Down(s)[n] = After(n, Down(s)[n - 1])
  <2>1. \A n \in 1 .. N : n # 0 /\ n \in 0 .. N BY <1>1
  <2> QED BY <1>1, <1>8, <2>1
<1> DEFINE T == {n \in 0 .. N : Down(s)[n] \in Held}
<1>10. 0 .. N \subseteq T
  <2>1. 0 \in T BY <1>1, <1>9
  <2>2. \A n \in 1 .. N : n - 1 \in T => n \in T
    <3> SUFFICES ASSUME NEW n \in 1 .. N, n - 1 \in T PROVE n \in T OBVIOUS
    <3>1. After(n, Down(s)[n - 1]) \in Held
      <4> HIDE DEF After
      <4> QED BY <1>2
    <3> HIDE DEF After
    <3> QED BY <1>1, <1>9, <3>1
  <2> HIDE DEF T
  <2> QED BY <1>1, <2>1, <2>2, Climb
<1>11. Down(s) \in [0 .. N -> Held] BY <1>8, <1>9, <1>10
<1> QED BY <1>9, <1>11

\* j[n] is the concatenation of the first n parts.
Joins(j, N, S, parts) ==
  /\ j \in [0 .. N -> Seq(S)] /\ j[0] = <<>>
  /\ \A n \in 1 .. N : j[n] = j[n - 1] \o parts[n]

\* So do the parts joined so far.
LEMMA JoinedUnfolds ==
  ASSUME NEW S, NEW N \in Nat, NEW parts \in [1 .. N -> Seq(S)]
  PROVE  Joins(Joined(parts), N, S, parts)
<1> DEFINE V == Seq(S)
           G == [p \in (1 .. N) \X V |-> p[2] \o parts[p[1]]]
           e == <<>>
           Eq(f) == f = [n \in 0 .. N |->
                           IF n = 0 THEN e ELSE f[n - 1] \o parts[n]]
<1>1. e \in V /\ Len(parts) = N BY EmptySeq
<1>2. \A n \in 1 .. N, s \in V : s \o parts[n] \in V BY ConcatProperties
<1>3. G \in [(1 .. N) \X V -> V]
  <2> HIDE DEF V
  <2> QED BY <1>2
<1>4. PICK f \in [0 .. N -> V] :
        f[0] = e /\ \A n \in 1 .. N : f[n] = G[<<n, f[n - 1]>>]
  <2> HIDE DEF G, V, e, Eq
  <2>1. \E f : Iterate(f, N, V, e, G) BY <1>1, <1>3, Iterates
  <2> QED BY <2>1 DEF Iterate
<1>5. \A n \in 1 .. N : f[n] = f[n - 1] \o parts[n]
  <2> SUFFICES ASSUME NEW n \in 1 .. N PROVE f[n] = f[n - 1] \o parts[n]
    OBVIOUS
  <2>1. n - 1 \in 0 .. N OBVIOUS
  <2>2. <<n, f[n - 1]>> \in (1 .. N) \X V BY <2>1
  <2> HIDE DEF V
  <2> QED BY <1>4, <2>2
<1>6. Eq(f)
  <2>1. \A n \in 0 .. N : n # 0 => n \in 1 .. N OBVIOUS
  <2> HIDE DEF e, V
  <2> QED BY <1>4, <1>5, <2>1
<1>7. Joined(parts) = CHOOSE d : Eq(d)
  <2> HIDE DEF V, G
  <2> QED BY <1>1 DEF Joined
<1>8. Eq(Joined(parts))
  <2> HIDE DEF Eq
  <2> QED BY <1>6, <1>7
<1>9. /\ Joined(parts)[0] = e /\ DOMAIN Joined(parts) = 0 .. N
      /\ \A n \in 1 .. N :
           Joined(parts)[n] = Joined(parts)[n - 1] \o parts[n]
  <2> DEFINE j == Joined(parts)
  <2>1. j = [n \in 0 .. N |-> IF n = 0 THEN e ELSE j[n - 1] \o parts[n]]
    BY <1>8
  <2> HIDE DEF e, j, Eq, V, G
  <2>2. 0 \in 0 .. N /\ \A n \in 1 .. N : n # 0 /\ n \in 0 .. N OBVIOUS
  <2>3. DOMAIN j = 0 .. N /\ j[0] = e BY <2>1, <2>2
  <2>4. ASSUME NEW n \in 1 .. N PROVE j[n] = j[n - 1] \o parts[n]
    BY <2>1, <2>2
  <2> QED BY <2>3, <2>4 DEF j
<1> DEFINE T == {n \in 0 .. N : Joined(parts)[n] \in V}
<1>10. 0 .. N \subseteq T
  <2> DEFINE j == Joined(parts)
  <2>1. j[0] \in V /\ 0 \in 0 .. N BY <1>1, <1>9
  <2>2. \A n \in 1 .. N : n - 1 \in 0 .. N /\ n \in 0 .. N OBVIOUS
  <2>3. \A n \in 1 .. N : j[n] = j[n - 1] \o parts[n] BY <1>9
  <2> HIDE DEF V, e, j
  <2>4. \A n \in 1 .. N : j[n - 1] \in V => j[n] \in V BY <1>2, <2>3
  <2> DEFINE U == {n \in 0 .. N : j[n] \in V}
  <2>5. 0 \in U /\ \A n \in 1 .. N : n - 1 \in U => n \in U
    BY <2>1, <2>2, <2>4
  <2> HIDE DEF U
  <2>6. 0 .. N \subseteq U BY <2>5, Climb
  <2> QED BY <2>6 DEF U, j
<1>11. Joined(parts) \in [0 .. N -> V] BY <1>8, <1>9, <1>10
<1> QED BY <1>9, <1>11 DEF Joins
-----------------------------------------------------------------------------
(***************************************************************************)
(* Buttons. A packet says which button is down, not that it changes; what  *)
(* it will change depends on what is down when it is read. Packets lead to *)
(* the strokes of a script when some k counts the changes up to each of    *)
(* them, and each change is the stroke of its number. Reading the first    *)
(* packet, putting packets behind the last, and dropping one that changes  *)
(* nothing all keep that.                                                  *)
(***************************************************************************)
\* The button that is down before packet i of the queue q, and after the last
\* one, when it is h now.
Before(h, q, i) == IF i = 1 THEN h ELSE q[i - 1].buttons
AtEnd(h, q)     == IF q = <<>> THEN h ELSE q[Len(q)].buttons

\* A packet read as the stroke m.
Means(p, m) ==
  Is([x |-> Constrain(FromWire(p.x)), buttons |-> p.buttons], m)

\* k[i] of the strokes meant have been made after packet i of q, all of them
\* after the last; h is down before the first.
Counts(k, h, q, meant) ==
  /\ k \in [0 .. Len(q) -> 0 .. Len(meant)] /\ k[Len(q)] = Len(meant)
  /\ \A i \in 1 .. Len(q) :
       IF q[i].buttons = Before(h, q, i) THEN k[i] = k[i - 1]
       ELSE k[i] = k[i - 1] + 1 /\ Means(q[i], meant[k[i]])

\* With c strokes made and h down, q makes the rest.
Leads(c, h, q, meant) == \E k : Counts(k, h, q, meant) /\ k[0] = c

\* The count of a queue without its first packet ...
LEMMA CountsTail ==
  ASSUME NEW q \in Seq(MousePackets), q # <<>>, NEW m \in Seq(Stroke),
         NEW h, NEW k, Counts(k, h, q, m)
  PROVE  LET b == Head(q).buttons
             t == [i \in 0 .. Len(q) - 1 |-> k[i + 1]] IN
         /\ Counts(t, b, Tail(q), m) /\ AtEnd(b, Tail(q)) = AtEnd(h, q)
         /\ IF b = h THEN t[0] = k[0]
            ELSE t[0] = k[0] + 1 /\ Means(Head(q), m[t[0]])
<1> DEFINE n == Len(q)
           r == Tail(q)
           b == Head(q).buttons
           t == [i \in 0 .. n - 1 |-> k[i + 1]]
<1>1. /\ n \in Nat \ {0} /\ Len(r) = n - 1 /\ Head(q) = q[1]
      /\ r \in Seq(MousePackets)
      /\ \A i \in 1 .. n - 1 : r[i] = q[i + 1]
  BY HeadTailProperties, LenProperties, EmptySeq
<1>2. /\ k \in [0 .. n -> 0 .. Len(m)] /\ k[n] = Len(m)
      /\ \A i \in 1 .. n :
           IF q[i].buttons = Before(h, q, i) THEN k[i] = k[i - 1]
           ELSE k[i] = k[i - 1] + 1 /\ Means(q[i], m[k[i]])
  BY DEF Counts
<1> HIDE DEF n, r
<1>3. \A i \in 0 .. n - 1 : i + 1 \in 0 .. n BY <1>1
<1>4. t \in [0 .. n - 1 -> 0 .. Len(m)] BY <1>2, <1>3
<1>5. t[n - 1] = Len(m)
  <2>1. n - 1 \in 0 .. n - 1 /\ (n - 1) + 1 = n BY <1>1
  <2> QED BY <1>2, <2>1
<1>6. t[0] = k[1]
  <2>1. 0 \in 0 .. n - 1 /\ 0 + 1 = 1 BY <1>1
  <2> QED BY <2>1
<1>7. ASSUME NEW i \in 1 .. n - 1
      PROVE  IF r[i].buttons = Before(b, r, i) THEN t[i] = t[i - 1]
             ELSE t[i] = t[i - 1] + 1 /\ Means(r[i], m[t[i]])
  <2>1. /\ i + 1 \in 1 .. n /\ i \in 0 .. n - 1 /\ i - 1 \in 0 .. n - 1
        /\ (i + 1) - 1 = i /\ (i - 1) + 1 = i /\ i + 1 # 1
    BY <1>1
  <2>2. r[i] = q[i + 1] BY <1>1
  <2>3. t[i] = k[i + 1] /\ t[i - 1] = k[i] BY <2>1
  <2>4. Before(b, r, i) = q[i].buttons
    <3>1. CASE i = 1 BY <1>1, <3>1 DEF Before
    <3>2. CASE i # 1
      <4>1. i - 1 \in 1 .. n - 1 BY <1>1, <3>2
      <4> QED BY <1>1, <2>1, <3>2, <4>1 DEF Before
    <3> QED BY <3>1, <3>2
  <2>5. Before(h, q, i + 1) = q[i].buttons BY <2>1 DEF Before
  <2>6. IF q[i + 1].buttons = Before(h, q, i + 1) THEN k[i + 1] = k[i]
        ELSE k[i + 1] = k[i] + 1 /\ Means(q[i + 1], m[k[i + 1]])
    BY <1>2, <2>1
  <2> HIDE DEF t
  <2> QED BY <2>2, <2>3, <2>4, <2>5, <2>6
<1>8. Counts(t, b, r, m)
  <2> HIDE DEF t
  <2> QED BY <1>1, <1>4, <1>5, <1>7 DEF Counts
<1>9. AtEnd(b, r) = AtEnd(h, q)
  <2>1. CASE n = 1
    <3>1. r = <<>> BY <1>1, <2>1, EmptySeq
    <3> QED BY <1>1, <2>1, <3>1 DEF AtEnd, n
  <2>2. CASE n # 1
    <3>1. n - 1 \in 1 .. n - 1 /\ (n - 1) + 1 = n BY <1>1, <2>2
    <3>2. r[n - 1] = q[n] BY <1>1, <3>1
    <3>3. r # <<>> BY <1>1, <3>1, EmptySeq
    <3> QED BY <1>1, <3>2, <3>3 DEF AtEnd, n
  <2> QED BY <2>1, <2>2
<1>10. IF b = h THEN t[0] = k[0]
       ELSE t[0] = k[0] + 1 /\ Means(Head(q), m[t[0]])
  <2>1. 1 \in 1 .. n /\ 1 - 1 = 0 BY <1>1
  <2>2. IF q[1].buttons = Before(h, q, 1) THEN k[1] = k[0]
        ELSE k[1] = k[0] + 1 /\ Means(q[1], m[k[1]])
    BY <1>2, <2>1
  <2> HIDE DEF t
  <2> QED BY <1>1, <1>6, <2>2 DEF Before
<1> QED BY <1>8, <1>9, <1>10 DEF n, r

\* ... and of two queues, one behind the other.
LEMMA CountsConcat ==
  ASSUME NEW q \in Seq(MousePackets), NEW p \in Seq(MousePackets),
         NEW m \in Seq(Stroke), NEW g \in Seq(Stroke), NEW h,
         NEW k, Counts(k, h, q, m),
         NEW j, Counts(j, AtEnd(h, q), p, g), j[0] = 0
  PROVE  /\ AtEnd(h, q \o p) = AtEnd(AtEnd(h, q), p)
         /\ \E t : Counts(t, h, q \o p, m \o g) /\ t[0] = k[0]
<1> DEFINE u == Len(q)
           v == Len(p)
           c == Len(m)
           d == Len(g)
           qp == q \o p
           mg == m \o g
           e == AtEnd(h, q)
           t == [i \in 0 .. u + v |-> IF i <= u THEN k[i] ELSE c + j[i - u]]
<1>1. /\ u \in Nat /\ v \in Nat /\ c \in Nat /\ d \in Nat
      /\ Len(qp) = u + v /\ Len(mg) = c + d
      /\ \A i \in 1 .. u + v : qp[i] = IF i <= u THEN q[i] ELSE p[i - u]
      /\ \A i \in 1 .. c + d : mg[i] = IF i <= c THEN m[i] ELSE g[i - c]
  BY ConcatProperties, LenProperties
<1>2. /\ k \in [0 .. u -> 0 .. c] /\ k[u] = c
      /\ \A i \in 1 .. u :
           IF q[i].buttons = Before(h, q, i) THEN k[i] = k[i - 1]
           ELSE k[i] = k[i - 1] + 1 /\ Means(q[i], m[k[i]])
  BY DEF Counts
<1>3. /\ j \in [0 .. v -> 0 .. d] /\ j[v] = d /\ j[0] = 0
      /\ \A i \in 1 .. v :
           IF p[i].buttons = Before(e, p, i) THEN j[i] = j[i - 1]
           ELSE j[i] = j[i - 1] + 1 /\ Means(p[i], g[j[i]])
  BY DEF Counts
<1>4. /\ u = 0 => q = <<>> /\ e = h
      /\ u # 0 => q # <<>> /\ e = q[u].buttons
      /\ v = 0 <=> p = <<>>
      /\ u + v = 0 <=> qp = <<>>
  BY <1>1, EmptySeq, ConcatProperties DEF AtEnd
<1>5. AtEnd(h, qp) = AtEnd(e, p)
  <2>1. CASE v = 0 /\ u = 0 BY <1>4, <2>1, <1>1 DEF AtEnd
  <2>2. CASE v = 0 /\ u # 0
    <3>1. u \in 1 .. u + v /\ u + v = u /\ u <= u BY <1>1, <2>2
    <3>2. qp[u] = q[u] BY <1>1, <3>1
    <3> HIDE DEF u, v, qp, e
    <3>3. qp # <<>> /\ p = <<>> BY <1>1, <1>4, <2>2
    <3> QED BY <1>1, <1>4, <2>2, <3>1, <3>2, <3>3 DEF AtEnd
  <2>3. CASE v # 0
    <3>1. u + v \in 1 .. u + v /\ ~(u + v <= u) /\ (u + v) - u = v
      BY <1>1, <2>3
    <3>2. qp[u + v] = p[v] BY <1>1, <3>1
    <3>3. qp # <<>> /\ p # <<>> BY <1>1, <1>4, <2>3
    <3> HIDE DEF qp, e
    <3> QED BY <1>1, <3>2, <3>3 DEF AtEnd, v
  <2> QED BY <2>1, <2>2, <2>3
<1> HIDE DEF u, v, c, d, qp, mg, e
<1>6. t \in [0 .. u + v -> 0 .. c + d]
  <2> SUFFICES ASSUME NEW i \in 0 .. u + v
               PROVE  (IF i <= u THEN k[i] ELSE c + j[i - u]) \in 0 .. c + d
    OBVIOUS
  <2>1. CASE i <= u
    <3>1. i \in 0 .. u BY <1>1, <2>1
    <3>2. k[i] \in 0 .. c BY <1>2, <3>1
    <3> QED BY <1>1, <2>1, <3>2
  <2>2. CASE ~(i <= u)
    <3>1. i - u \in 0 .. v BY <1>1, <2>2
    <3>2. j[i - u] \in 0 .. d BY <1>3, <3>1
    <3>3. \A w \in 0 .. d : c + w \in 0 .. c + d BY <1>1
    <3>4. c + j[i - u] \in 0 .. c + d BY <3>2, <3>3
    <3> QED BY <2>2, <3>4
  <2> QED BY <2>1, <2>2
<1>7. \A i \in 0 .. u : t[i] = k[i]
  <2> SUFFICES ASSUME NEW i \in 0 .. u PROVE t[i] = k[i] OBVIOUS
  <2>1. i \in 0 .. u + v /\ i <= u BY <1>1
  <2> QED BY <2>1
\* At the seam both say Len(m).
<1>8. \A i \in u .. u + v : t[i] = c + j[i - u]
  <2> SUFFICES ASSUME NEW i \in u .. u + v PROVE t[i] = c + j[i - u] OBVIOUS
  <2>1. i \in 0 .. u + v BY <1>1
  <2>2. CASE i = u
    <3>1. t[u] = k[u] /\ u - u = 0 /\ c + 0 = c BY <1>1, <1>7
    <3> QED BY <1>2, <1>3, <2>2, <3>1
  <2>3. CASE i # u
    <3>1. ~(i <= u) BY <1>1, <2>3
    <3> QED BY <2>1, <3>1
  <2> QED BY <2>2, <2>3
<1> HIDE DEF t
<1>9. t[u + v] = c + d
  <2>1. u + v \in u .. u + v /\ (u + v) - u = v BY <1>1
  <2> QED BY <1>3, <1>8, <2>1
<1>10. ASSUME NEW i \in 1 .. u + v
       PROVE  IF qp[i].buttons = Before(h, qp, i) THEN t[i] = t[i - 1]
              ELSE t[i] = t[i - 1] + 1 /\ Means(qp[i], mg[t[i]])
  <2>1. CASE i <= u
    <3>1. /\ i \in 1 .. u /\ i \in 0 .. u /\ i - 1 \in 0 .. u
          /\ i # 1 => i - 1 \in 1 .. u + v /\ i - 1 <= u
      BY <1>1, <2>1
    <3>2. t[i] = k[i] /\ t[i - 1] = k[i - 1] BY <1>7, <3>1
    <3>3. qp[i] = q[i] BY <1>1, <2>1
    <3>4. Before(h, qp, i) = Before(h, q, i) BY <1>1, <3>1 DEF Before
    <3>5. k[i] # 0 => mg[k[i]] = m[k[i]]
      <4>1. k[i] \in 0 .. c BY <1>2, <3>1
      <4>2. k[i] # 0 => k[i] \in 1 .. c + d /\ k[i] <= c BY <1>1, <4>1
      <4> QED BY <1>1, <4>2
    <3>6. k[i - 1] \in 0 .. c BY <1>2, <3>1
    <3>7. k[i] = k[i - 1] + 1 => k[i] # 0 BY <1>1, <3>6
    <3>8. IF q[i].buttons = Before(h, q, i) THEN k[i] = k[i - 1]
          ELSE k[i] = k[i - 1] + 1 /\ Means(q[i], m[k[i]])
      BY <1>2, <3>1
    <3> QED BY <3>2, <3>3, <3>4, <3>5, <3>7, <3>8
  <2>2. CASE ~(i <= u)
    <3> DEFINE w == i - u
    <3>1. /\ w \in 1 .. v /\ w \in 0 .. v /\ w - 1 \in 0 .. v
          /\ i \in u .. u + v /\ i - 1 \in u .. u + v /\ (i - 1) - u = w - 1
      BY <1>1, <2>2
    <3>2. t[i] = c + j[w] /\ t[i - 1] = c + j[w - 1] BY <1>8, <3>1
    <3>3. qp[i] = p[w] BY <1>1, <2>2
    <3>4. Before(h, qp, i) = Before(e, p, w)
      <4>1. CASE w = 1 /\ u = 0
        <5>1. i = 1 BY <1>1, <4>1
        <5> QED BY <1>4, <4>1, <5>1 DEF Before
      <4>2. CASE w = 1 /\ u # 0
        <5>1. i - 1 = u /\ i # 1 /\ u \in 1 .. u + v /\ u <= u
          BY <1>1, <4>2
        <5>2. qp[u] = q[u] BY <1>1, <5>1
        <5> HIDE DEF w
        <5> QED BY <1>4, <4>2, <5>1, <5>2 DEF Before
      <4>3. CASE w # 1
        <5>1. /\ i - 1 \in 1 .. u + v /\ ~(i - 1 <= u) /\ i # 1
              /\ (i - 1) - u = w - 1
          BY <1>1, <2>2, <4>3
        <5>2. qp[i - 1] = p[w - 1] BY <1>1, <5>1
        <5> HIDE DEF w
        <5> QED BY <4>3, <5>1, <5>2 DEF Before
      <4> QED BY <4>1, <4>2, <4>3
    <3> HIDE DEF w
    <3>5. j[w] \in 0 .. d /\ j[w - 1] \in 0 .. d BY <1>3, <3>1
    <3>6. j[w] # 0 => mg[c + j[w]] = g[j[w]]
      <4> DEFINE z == c + j[w]
      <4>1. j[w] # 0 => z \in 1 .. c + d /\ ~(z <= c) /\ z - c = j[w]
        BY <1>1, <3>5
      <4> HIDE DEF z
      <4>2. j[w] # 0 => mg[z] = g[z - c] BY <1>1, <4>1
      <4> QED BY <4>1, <4>2 DEF z
    <3>7. j[w] = j[w - 1] + 1 => j[w] # 0 /\ c + j[w] = (c + j[w - 1]) + 1
      <4> DEFINE y == j[w]
                 z == j[w - 1]
      <4>1. y \in Nat /\ z \in Nat BY <1>1, <3>5
      <4> HIDE DEF y, z
      <4>2. y = z + 1 => y # 0 /\ c + y = (c + z) + 1 BY <1>1, <4>1
      <4> QED BY <4>2 DEF y, z
    <3>8. IF p[w].buttons = Before(e, p, w) THEN j[w] = j[w - 1]
          ELSE j[w] = j[w - 1] + 1 /\ Means(p[w], g[j[w]])
      BY <1>3, <3>1
    <3> QED BY <3>2, <3>3, <3>4, <3>6, <3>7, <3>8
  <2> QED BY <2>1, <2>2
<1>11. Counts(t, h, qp, mg) BY <1>1, <1>6, <1>9, <1>10 DEF Counts
<1>12. t[0] = k[0]
  <2>1. 0 \in 0 .. u BY <1>1
  <2> QED BY <1>7, <2>1
<1> QED BY <1>5, <1>11, <1>12 DEF qp, mg, e

\* Taking the first packet off leads to the same end, after one more change if
\* it carries another button ...
LEMMA LeadsTail ==
  ASSUME NEW q \in Seq(MousePackets), q # <<>>, NEW m \in Seq(Stroke),
         NEW h, NEW c, Leads(c, h, q, m)
  PROVE  LET b == Head(q).buttons IN
         /\ AtEnd(b, Tail(q)) = AtEnd(h, q)
         /\ b = h => Leads(c, b, Tail(q), m)
         /\ b # h => /\ c + 1 \in 1 .. Len(m) /\ Means(Head(q), m[c + 1])
                     /\ Leads(c + 1, b, Tail(q), m)
<1> DEFINE b == Head(q).buttons
<1>1. PICK k : Counts(k, h, q, m) /\ k[0] = c BY DEF Leads
<1> DEFINE t == [i \in 0 .. Len(q) - 1 |-> k[i + 1]]
<1>2. /\ Counts(t, b, Tail(q), m) /\ AtEnd(b, Tail(q)) = AtEnd(h, q)
      /\ IF b = h THEN t[0] = k[0]
         ELSE t[0] = k[0] + 1 /\ Means(Head(q), m[t[0]])
  BY <1>1, CountsTail
<1> HIDE DEF t
<1>3. t[0] \in 0 .. Len(m) /\ c \in 0 .. Len(m)
  <2>1. 0 \in 0 .. Len(q) /\ 0 \in 0 .. Len(Tail(q))
    BY LenProperties, HeadTailProperties
  <2> QED BY <1>1, <1>2, <2>1 DEF Counts
<1>4. b = h => Leads(c, b, Tail(q), m) BY <1>1, <1>2 DEF Leads
<1>5. b # h => /\ c + 1 \in 1 .. Len(m) /\ Means(Head(q), m[c + 1])
               /\ Leads(c + 1, b, Tail(q), m)
  <2> SUFFICES ASSUME b # h
               PROVE  /\ c + 1 \in 1 .. Len(m) /\ Means(Head(q), m[c + 1])
                      /\ Leads(c + 1, b, Tail(q), m)
    OBVIOUS
  <2>1. t[0] = c + 1 /\ Means(Head(q), m[t[0]]) BY <1>1, <1>2
  <2>2. c + 1 \in 1 .. Len(m) BY <1>3, <2>1
  <2>3. Leads(t[0], b, Tail(q), m) BY <1>2 DEF Leads
  <2> QED BY <2>1, <2>2, <2>3
<1> QED BY <1>2, <1>4, <1>5

\* ... and packets put behind them lead on from there.
LEMMA LeadsOn ==
  ASSUME NEW q \in Seq(MousePackets), NEW p \in Seq(MousePackets),
         NEW m \in Seq(Stroke), NEW g \in Seq(Stroke), NEW h, NEW c,
         Leads(c, h, q, m), Leads(0, AtEnd(h, q), p, g)
  PROVE  /\ AtEnd(h, q \o p) = AtEnd(AtEnd(h, q), p)
         /\ Leads(c, h, q \o p, m \o g)
<1>1. PICK k : Counts(k, h, q, m) /\ k[0] = c BY DEF Leads
<1>2. PICK j : Counts(j, AtEnd(h, q), p, g) /\ j[0] = 0 BY DEF Leads
<1>3. /\ AtEnd(h, q \o p) = AtEnd(AtEnd(h, q), p)
      /\ \E t : Counts(t, h, q \o p, m \o g) /\ t[0] = k[0]
  BY <1>1, <1>2, CountsConcat
<1> QED BY <1>1, <1>3 DEF Leads
-----------------------------------------------------------------------------
(***************************************************************************)
(* What each line of a script leads to, whichever button the lines before  *)
(* it left down.                                                           *)
(***************************************************************************)

\* A packet says the position of the script, or one pixel left of it.
LEMMA MoveMeans ==
  ASSUME NEW x \in Position, NEW b \in Held
  PROVE  Move(x, b) \in MousePackets /\ At(x, b) \in Stroke
         /\ Move(x, b).buttons = b /\ Means(Move(x, b), At(x, b))
<1>1. Move(x, b) = [x |-> ToWire(x), buttons |-> b] BY DEF Move
<1>2. Move(x, b) \in MousePackets BY <1>1 DEF MousePackets
<1>3. x \in Int BY Positions
<1>5. Constrain(FromWire(ToWire(x))) \in {Constrain(x) - 1, Constrain(x)}
  BY <1>3, Lands
<1>4. At(x, b) = [x |-> x, buttons |-> b] BY DEF At
<1> QED BY <1>1, <1>2, <1>3, <1>4, <1>5 DEF Means, Is, Near, Stroke

\* What lifts the button that is still down.
Lift(x, down) == IF down = "none" THEN <<>> ELSE <<At(x, "none")>>

LEMMA LiftTyped ==
  ASSUME NEW x \in Position, NEW h \in Held
  PROVE  /\ Lift(x, h) \in Seq(Stroke)
         /\ Len(Lift(x, h)) = IF h = "none" THEN 0 ELSE 1
         /\ h # "none" => Lift(x, h)[1] = At(x, "none")
<1>1. "none" \in Held BY DEF Held
<1>2. At(x, "none") \in Stroke BY <1>1, MoveMeans
<1>3. CASE h = "none" BY <1>3, EmptySeq DEF Lift
<1>4. CASE h # "none"
  <2> DEFINE a == At(x, "none")
  <2> HIDE DEF a
  <2>1. a \in Stroke BY <1>2 DEF a
  <2>2. <<a>> \in Seq(Stroke) /\ Len(<<a>>) = 1 /\ <<a>>[1] = a BY <2>1
  <2> QED BY <1>4, <2>2 DEF Lift, a
<1> QED BY <1>3, <1>4

\* A packet without a button lifts it.
LEMMA LiftLeads ==
  ASSUME NEW x \in Position, NEW h \in Held
  PROVE  LET p == <<Move(x, "none")>> IN
         /\ p \in Seq(MousePackets) /\ AtEnd(h, p) = "none"
         /\ Leads(0, h, p, Lift(x, h))
<1> DEFINE a == Move(x, "none")
           p == <<a>>
           l == Len(Lift(x, h))
           j == [i \in 0 .. 1 |-> IF i = 0 THEN 0 ELSE l]
<1>1. "none" \in Held BY DEF Held
<1>2. a \in MousePackets /\ a.buttons = "none" /\ Means(a, At(x, "none"))
  BY <1>1, MoveMeans
<1> HIDE DEF a
<1>3. p \in Seq(MousePackets) /\ Len(p) = 1 /\ p[1] = a /\ p # <<>> BY <1>2
<1>4. l = IF h = "none" THEN 0 ELSE 1 BY LiftTyped
<1>5. h # "none" => Lift(x, h)[1] = At(x, "none") BY LiftTyped
<1> HIDE DEF p, l
<1>6. j \in [0 .. 1 -> 0 .. l] /\ j[0] = 0 /\ j[1] = l
  <2>1. 0 \in 0 .. l /\ l \in 0 .. l BY <1>4
  <2> QED BY <2>1
<1> HIDE DEF j
<1>7. ASSUME NEW i \in 1 .. 1
      PROVE  IF p[i].buttons = Before(h, p, i) THEN j[i] = j[i - 1]
             ELSE j[i] = j[i - 1] + 1 /\ Means(p[i], Lift(x, h)[j[i]])
  <2>1. i = 1 /\ i - 1 = 0 OBVIOUS
  <2>2. Before(h, p, i) = h BY <2>1 DEF Before
  <2>3. p[i].buttons = "none" BY <1>2, <1>3, <2>1
  <2>4. CASE h = "none"
    <3>1. j[i] = j[i - 1] BY <1>4, <1>6, <2>1, <2>4
    <3> QED BY <2>2, <2>3, <2>4, <3>1
  <2>5. CASE h # "none"
    <3>1. j[i] = 1 /\ j[i - 1] = 0 BY <1>4, <1>6, <2>1, <2>5
    <3>2. Means(p[i], Lift(x, h)[j[i]]) BY <1>2, <1>3, <1>5, <2>1, <2>5, <3>1
    <3> QED BY <2>2, <2>3, <2>5, <3>1, <3>2
  <2> QED BY <2>4, <2>5
<1>8. Counts(j, h, p, Lift(x, h)) BY <1>3, <1>6, <1>7 DEF Counts, l
<1>9. AtEnd(h, p) = "none" BY <1>2, <1>3 DEF AtEnd
<1> QED BY <1>3, <1>6, <1>8, <1>9 DEF p, a, Leads

\* A button goes down once, however many packets say so.
LEMMA PressLeads ==
  ASSUME NEW x \in Position, NEW b \in Button,
         NEW way \in Seq(MousePackets), \A i \in 1 .. Len(way) : way[i].buttons = b
  PROVE  LET p == <<Move(x, b)>> \o way IN
         /\ p \in Seq(MousePackets) /\ AtEnd("none", p) = b
         /\ Leads(0, "none", p, <<At(x, b)>>)
<1> DEFINE a == Move(x, b)
           g == <<At(x, b)>>
           n == Len(way)
           p == <<a>> \o way
           j == [i \in 0 .. n + 1 |-> IF i = 0 THEN 0 ELSE 1]
<1>1. b \in Held /\ b # "none" BY DEF Held, Button
<1>2. a \in MousePackets /\ a.buttons = b /\ Means(a, At(x, b))
  BY <1>1, MoveMeans
<1>3. At(x, b) \in Stroke BY <1>1, MoveMeans
<1>4. Len(g) = 1 /\ g[1] = At(x, b) OBVIOUS
<1> HIDE DEF a, g
<1>5. /\ n \in Nat /\ p \in Seq(MousePackets) /\ Len(p) = n + 1
      /\ p[1] = a /\ \A i \in 2 .. n + 1 : p[i] = way[i - 1]
  <2>1. <<a>> \in Seq(MousePackets) /\ Len(<<a>>) = 1 /\ <<a>>[1] = a BY <1>2
  <2> DEFINE s == <<a>>
  <2> HIDE DEF s
  <2>2. /\ s \o way \in Seq(MousePackets) /\ Len(s \o way) = Len(s) + Len(way)
        /\ \A i \in 1 .. Len(s) + Len(way) :
             (s \o way)[i] = IF i <= Len(s) THEN s[i] ELSE way[i - Len(s)]
    BY <2>1, ConcatProperties DEF s
  <2>3. n \in Nat BY LenProperties
  <2>4. 1 \in 1 .. Len(s) + Len(way) /\ 1 <= Len(s) BY <2>1, <2>3 DEF s
  <2>5. \A i \in 2 .. n + 1 : i \in 1 .. Len(s) + Len(way) /\ ~(i <= Len(s))
    BY <2>1, <2>3 DEF s
  <2>6. (s \o way)[1] = a BY <2>1, <2>2, <2>4 DEF s
  <2>7. \A i \in 2 .. n + 1 : (s \o way)[i] = way[i - 1]
    BY <2>1, <2>2, <2>5 DEF s
  <2>8. Len(s \o way) = n + 1 BY <2>1, <2>2, <2>3 DEF s
  <2> QED BY <2>2, <2>3, <2>6, <2>7, <2>8 DEF s
<1> HIDE DEF n, p
<1>6. \A i \in 1 .. n + 1 : p[i].buttons = b
  <2> SUFFICES ASSUME NEW i \in 1 .. n + 1 PROVE p[i].buttons = b OBVIOUS
  <2>1. CASE i = 1 BY <1>2, <1>5, <2>1
  <2>2. CASE i # 1
    <3>1. i \in 2 .. n + 1 /\ i - 1 \in 1 .. n BY <1>5, <2>2
    <3> QED BY <1>5, <3>1 DEF n
  <2> QED BY <2>1, <2>2
<1>7. /\ j \in [0 .. n + 1 -> 0 .. 1] /\ j[0] = 0
      /\ \A i \in 1 .. n + 1 : j[i] = 1
  BY <1>5
<1> HIDE DEF j
<1>8. ASSUME NEW i \in 1 .. n + 1
      PROVE  IF p[i].buttons = Before("none", p, i) THEN j[i] = j[i - 1]
             ELSE j[i] = j[i - 1] + 1 /\ Means(p[i], g[j[i]])
  <2>1. CASE i = 1
    <3>1. Before("none", p, i) = "none" BY <2>1 DEF Before
    <3>2. j[i] = 1 /\ j[i - 1] = 0 BY <1>7, <2>1
    <3>3. Means(p[i], g[j[i]]) BY <1>2, <1>4, <1>5, <2>1, <3>2
    <3> QED BY <1>1, <1>6, <3>1, <3>2, <3>3
  <2>2. CASE i # 1
    <3>1. i - 1 \in 1 .. n + 1 BY <1>5, <2>2
    <3>2. Before("none", p, i) = b BY <1>6, <2>2, <3>1 DEF Before
    <3>3. j[i] = 1 /\ j[i - 1] = 1 BY <1>7, <3>1
    <3> QED BY <1>6, <3>2, <3>3
  <2> QED BY <2>1, <2>2
<1>9. j[n + 1] = 1
  <2>1. n + 1 \in 1 .. n + 1 BY <1>5
  <2> QED BY <1>7, <2>1
<1>10. Counts(j, "none", p, g) BY <1>4, <1>5, <1>7, <1>8, <1>9 DEF Counts
<1>11. AtEnd("none", p) = b
  <2>1. n + 1 \in 1 .. n + 1 /\ n + 1 # 0 BY <1>5
  <2>2. p # <<>> BY <1>5, <2>1, EmptySeq
  <2> QED BY <1>5, <1>6, <2>1, <2>2 DEF AtEnd
<1> QED BY <1>5, <1>7, <1>10, <1>11 DEF p, g, a, Leads

\* A pair is one sequence behind another.
LEMMA Pair ==
  ASSUME NEW S, NEW a \in S, NEW b \in S
  PROVE  <<a>> \o <<b>> = <<a, b>> /\ <<a>> \in Seq(S) /\ <<a, b>> \in Seq(S)
<1> DEFINE s == <<a>>
           t == <<b>>
           u == <<a, b>>
<1>1. /\ s \in Seq(S) /\ Len(s) = 1 /\ s[1] = a
      /\ t \in Seq(S) /\ Len(t) = 1 /\ t[1] = b
      /\ u \in Seq(S) /\ Len(u) = 2 /\ u[1] = a /\ u[2] = b
  OBVIOUS
<1> HIDE DEF s, t, u
<1>2. /\ s \o t \in Seq(S) /\ Len(s \o t) = 2
      /\ \A i \in 1 .. 2 : (s \o t)[i] = IF i <= 1 THEN s[i] ELSE t[i - 1]
  BY <1>1, ConcatProperties
<1>3. \A i \in 1 .. 2 : (s \o t)[i] = u[i]
  <2>1. (s \o t)[1] = s[1] /\ (s \o t)[2] = t[1] BY <1>2
  <2>2. \A i \in 1 .. 2 : i = 1 \/ i = 2 OBVIOUS
  <2> QED BY <1>1, <2>1, <2>2
<1>4. s \o t = u BY <1>1, <1>2, <1>3, SeqEqual
<1> QED BY <1>1, <1>4 DEF s, t, u

\* A mouse line that presses the button b and holds it along a way ...
LEMMA Hold ==
  ASSUME NEW x \in Position, NEW b \in Button, NEW h \in Held,
         NEW way \in Seq(MousePackets), \A i \in 1 .. Len(way) : way[i].buttons = b
  PROVE  LET p == <<Move(x, "none"), Move(x, b)>> \o way
             g == Lift(x, h) \o <<At(x, b)>> IN
         /\ p \in Seq(MousePackets) /\ g \in Seq(Stroke)
         /\ AtEnd(h, p) = b
         /\ Leads(0, h, p, g)
<1> DEFINE a == Move(x, "none")
           d == Move(x, b)
           up   == <<a>>
           down == <<d>> \o way
           l    == Lift(x, h)
           pr   == <<At(x, b)>>
<1>0. "none" \in Held /\ b \in Held BY DEF Held
<1>1. a \in MousePackets /\ d \in MousePackets /\ At(x, b) \in Stroke
  BY <1>0, MoveMeans
<1>2. /\ up \in Seq(MousePackets) /\ AtEnd(h, up) = "none"
      /\ Leads(0, h, up, l)
  BY LiftLeads
<1>3. /\ down \in Seq(MousePackets) /\ AtEnd("none", down) = b
      /\ Leads(0, "none", down, pr)
  BY PressLeads
<1>4. l \in Seq(Stroke) BY LiftTyped
<1>5. pr \in Seq(Stroke)
  <2> DEFINE s == At(x, b)
  <2>1. s \in Stroke BY <1>1
  <2> HIDE DEF s
  <2>2. <<s>> \in Seq(Stroke) BY <2>1
  <2> QED BY <2>2 DEF s
<1>6. <<a, d>> \o way = up \o down
  <2> HIDE DEF a, d
  <2>1. <<a>> \o <<d>> = <<a, d>> /\ <<a>> \in Seq(MousePackets) BY <1>1, Pair
  <2>2. <<d>> \in Seq(MousePackets) BY <1>1
  <2> DEFINE s == <<a>>
             t == <<d>>
  <2> HIDE DEF s, t
  <2>3. s \in Seq(MousePackets) /\ t \in Seq(MousePackets)
    BY <2>1, <2>2 DEF s, t
  <2>4. (s \o t) \o way = s \o (t \o way) BY <2>3, ConcatAssociative
  <2> QED BY <2>1, <2>4 DEF s, t
<1> HIDE DEF a, d, up, down, l, pr
<1>7. up \o down \in Seq(MousePackets) /\ l \o pr \in Seq(Stroke)
  BY <1>2, <1>3, <1>4, <1>5, ConcatProperties
<1>8. Leads(0, AtEnd(h, up), down, pr) BY <1>2, <1>3
<1>9. /\ AtEnd(h, up \o down) = AtEnd(AtEnd(h, up), down)
      /\ Leads(0, h, up \o down, l \o pr)
  BY <1>2, <1>3, <1>4, <1>5, <1>8, LeadsOn
<1> QED BY <1>2, <1>3, <1>6, <1>7, <1>9 DEF a, d, l, pr

\* ... and one that lets it go at the end of the way.
LEMMA HoldAndRelease ==
  ASSUME NEW x \in Position, NEW to \in Position, NEW b \in Button, NEW h \in Held,
         NEW way \in Seq(MousePackets), \A i \in 1 .. Len(way) : way[i].buttons = b
  PROVE  LET p == (<<Move(x, "none"), Move(x, b)>> \o way)
                    \o <<Move(to, "none")>>
             g == Lift(x, h) \o <<At(x, b), At(to, "none")>> IN
         /\ p \in Seq(MousePackets) /\ g \in Seq(Stroke)
         /\ AtEnd(h, p) = "none"
         /\ Leads(0, h, p, g)
<1> DEFINE p == <<Move(x, "none"), Move(x, b)>> \o way
           l == Lift(x, h)
           e == At(x, b)
           f == At(to, "none")
           g == l \o <<e>>
           r == <<Move(to, "none")>>
<1>0. "none" \in Held /\ b \in Held /\ b # "none" BY DEF Held, Button
<1>1. /\ p \in Seq(MousePackets) /\ g \in Seq(Stroke) /\ AtEnd(h, p) = b
      /\ Leads(0, h, p, g)
  BY Hold
<1>2. /\ r \in Seq(MousePackets) /\ AtEnd(b, r) = "none"
      /\ Leads(0, b, r, Lift(to, b))
  BY <1>0, LiftLeads
<1>3. Lift(to, b) = <<f>> BY <1>0 DEF Lift
<1>4. e \in Stroke /\ f \in Stroke BY <1>0, MoveMeans
<1>5. l \in Seq(Stroke) BY LiftTyped
<1> HIDE DEF p, l, e, f, g, r
<1>6. /\ <<e>> \o <<f>> = <<e, f>> /\ <<e>> \in Seq(Stroke)
      /\ <<f>> \in Seq(Stroke)
  BY <1>4, Pair
<1>7. g \o <<f>> = l \o <<e, f>>
  <2> DEFINE s == <<e>>
             t == <<f>>
  <2> HIDE DEF s, t
  <2>1. s \in Seq(Stroke) /\ t \in Seq(Stroke) BY <1>6 DEF s, t
  <2>2. (l \o s) \o t = l \o (s \o t) BY <1>5, <2>1, ConcatAssociative
  <2> QED BY <1>6, <2>2 DEF g, s, t
<1>8. p \o r \in Seq(MousePackets) /\ g \o <<f>> \in Seq(Stroke)
  BY <1>1, <1>2, <1>6, ConcatProperties
<1>9. Leads(0, AtEnd(h, p), r, <<f>>) BY <1>1, <1>2, <1>3
<1>10. /\ AtEnd(h, p \o r) = AtEnd(AtEnd(h, p), r)
       /\ Leads(0, h, p \o r, g \o <<f>>)
  <2> DEFINE t == <<f>>
  <2> HIDE DEF t
  <2>1. t \in Seq(Stroke) /\ Leads(0, AtEnd(h, p), r, t) BY <1>6, <1>9 DEF t
  <2>2. Leads(0, h, p \o r, g \o t) /\ AtEnd(h, p \o r) = AtEnd(AtEnd(h, p), r)
    BY <1>1, <1>2, <2>1, LeadsOn
  <2> QED BY <2>2 DEF t
<1> QED BY <1>1, <1>2, <1>7, <1>8, <1>10 DEF p, r, l, e, f

\* Every packet on the way of a drag holds the left button.
LEMMA DragWay ==
  ASSUME NEW x \in Position, NEW to \in Position, NEW n \in Nat \ {0}
  PROVE  LET way == [i \in 1 .. n |->
                       Move(x + Quot((to - x) * i, n), "left")] IN
         /\ way \in Seq(MousePackets)
         /\ \A i \in 1 .. Len(way) : way[i].buttons = "left"
<1> DEFINE at(i) == x + Quot((to - x) * i, n)
           way == [i \in 1 .. n |-> Move(at(i), "left")]
<1>1. ASSUME NEW i \in 1 .. n
      PROVE  /\ Move(at(i), "left") \in MousePackets
             /\ Move(at(i), "left").buttons = "left"
  <2>1. i \in 0 .. n OBVIOUS
  <2>2. at(i) \in Position BY <2>1, DragTo
  <2>3. "left" \in Held BY DEF Held, Button
  <2> HIDE DEF at
  <2> QED BY <2>2, <2>3, MoveMeans
<1> HIDE DEF at
<1>2. /\ way \in [1 .. n -> MousePackets] /\ DOMAIN way = 1 .. n
      /\ \A i \in 1 .. n : way[i].buttons = "left"
  BY <1>1
<1> HIDE DEF way
<1>3. way \in Seq(MousePackets) /\ Len(way) = n BY <1>2
<1> QED BY <1>2, <1>3 DEF way, at

\* What a mouse line does to the button, ...
LEMMA MouseLine ==
  ASSUME NEW c \in Command, IsMouseLine(c), NEW h \in Held
  PROVE  /\ Packets(c) \in Seq(MousePackets) /\ Gesture(c, h) \in Seq(Stroke)
         /\ Leads(0, h, Packets(c), Gesture(c, h))
         /\ AtEnd(h, Packets(c)) = IF c.op = "press" THEN c.button ELSE "none"
         /\ Strokes(c) = <<>>
<1> DEFINE l == IF IsMouseLine(c) /\ h # "none" THEN <<At(c.x, "none")>> ELSE <<>>
<1>0. l = Lift(c.x, h) BY DEF Lift
<1>1. CASE c.op \in {"move", "release"}
  <2>1. c.x \in Position BY <1>1 DEF Command
  <2>2. Packets(c) = <<Move(c.x, "none")>> /\ Strokes(c) = <<>>
    BY <1>1 DEF Packets, Strokes
  <2>3. Gesture(c, h) = Lift(c.x, h)
    <3>1. Gesture(c, h) = Lift(c.x, h) \o <<>> BY <1>0, <1>1 DEF Gesture
    <3>2. Lift(c.x, h) \in Seq(Stroke) BY <2>1, LiftTyped
    <3> QED BY <3>1, <3>2, ConcatEmptySeq
  <2>4. /\ Packets(c) \in Seq(MousePackets) /\ AtEnd(h, Packets(c)) = "none"
        /\ Leads(0, h, Packets(c), Gesture(c, h))
    BY <2>1, <2>2, <2>3, LiftLeads
  <2>5. Gesture(c, h) \in Seq(Stroke) BY <2>1, <2>3, LiftTyped
  <2> QED BY <1>1, <2>2, <2>4, <2>5
<1> DEFINE no == <<>>
<1>2. no \in Seq(MousePackets) /\ \A i \in 1 .. Len(no) : FALSE BY EmptySeq
<1>3. CASE c.op = "press"
  <2>1. c.x \in Position /\ c.button \in Button BY <1>3 DEF Command
  <2> DEFINE p == <<Move(c.x, "none"), Move(c.x, c.button)>>
  <2>2. Packets(c) = p /\ Strokes(c) = <<>> BY <1>3 DEF Packets, Strokes
  <2>3. Gesture(c, h) = Lift(c.x, h) \o <<At(c.x, c.button)>>
    BY <1>0, <1>3 DEF Gesture
  <2>4. /\ p \o no \in Seq(MousePackets)
        /\ Lift(c.x, h) \o <<At(c.x, c.button)>> \in Seq(Stroke)
        /\ AtEnd(h, p \o no) = c.button
        /\ Leads(0, h, p \o no, Lift(c.x, h) \o <<At(c.x, c.button)>>)
    <3> HIDE DEF no
    <3>1. \A i \in 1 .. Len(no) : no[i].buttons = c.button BY <1>2
    <3> QED BY <1>2, <2>1, <3>1, Hold
  <2>5. p \o no = p
    <3>1. "none" \in Held /\ c.button \in Held BY <2>1 DEF Held
    <3>2. p \in Seq(MousePackets) BY <2>1, <3>1, MoveMeans, Pair
    <3> HIDE DEF p
    <3> QED BY <3>2, ConcatEmptySeq
  <2> QED BY <1>3, <2>2, <2>3, <2>4, <2>5
<1>4. CASE c.op = "click"
  <2>1. c.x \in Position /\ c.button \in Button BY <1>4 DEF Command
  <2> DEFINE a == Move(c.x, "none")
             b == Move(c.x, c.button)
             g == Lift(c.x, h) \o <<At(c.x, c.button), At(c.x, "none")>>
  <2>2. Packets(c) = <<a, b, a>> /\ Strokes(c) = <<>>
    BY <1>4 DEF Packets, Strokes
  <2>3. Gesture(c, h) = g BY <1>0, <1>4 DEF Gesture
  <2>4. /\ (<<a, b>> \o no) \o <<a>> \in Seq(MousePackets) /\ g \in Seq(Stroke)
        /\ AtEnd(h, (<<a, b>> \o no) \o <<a>>) = "none"
        /\ Leads(0, h, (<<a, b>> \o no) \o <<a>>, g)
    <3> HIDE DEF no
    <3>1. \A i \in 1 .. Len(no) : no[i].buttons = c.button BY <1>2
    <3> QED BY <1>2, <2>1, <3>1, HoldAndRelease
  <2>5. (<<a, b>> \o no) \o <<a>> = <<a, b, a>>
    <3>1. "none" \in Held /\ c.button \in Held BY <2>1 DEF Held
    <3>2. a \in MousePackets /\ b \in MousePackets BY <2>1, <3>1, MoveMeans
    <3> HIDE DEF a, b
    <3> DEFINE s == <<a, b>>
               t == <<a>>
               u == <<a, b, a>>
    <3>3. /\ s \in Seq(MousePackets) /\ Len(s) = 2 /\ s[1] = a /\ s[2] = b
          /\ t \in Seq(MousePackets) /\ Len(t) = 1 /\ t[1] = a
          /\ u \in Seq(MousePackets) /\ Len(u) = 3
          /\ u[1] = a /\ u[2] = b /\ u[3] = a
      BY <3>2
    <3> HIDE DEF s, t, u
    <3>4. s \o no = s BY <3>3, ConcatEmptySeq
    <3>5. /\ s \o t \in Seq(MousePackets) /\ Len(s \o t) = 3
          /\ \A i \in 1 .. 3 : (s \o t)[i] = IF i <= 2 THEN s[i] ELSE t[i - 2]
      <4>1. /\ s \o t \in Seq(MousePackets)
            /\ Len(s \o t) = Len(s) + Len(t)
            /\ \A i \in 1 .. Len(s) + Len(t) :
                 (s \o t)[i] = IF i <= Len(s) THEN s[i] ELSE t[i - Len(s)]
        BY <3>3, ConcatProperties
      <4>2. Len(s) + Len(t) = 3 BY <3>3
      <4> QED BY <3>3, <4>1, <4>2
    <3>6. \A i \in 1 .. 3 : (s \o t)[i] = u[i]
      <4>1. (s \o t)[1] = s[1] /\ (s \o t)[2] = s[2] /\ (s \o t)[3] = t[1]
        BY <3>5
      <4>2. \A i \in 1 .. 3 : i = 1 \/ i = 2 \/ i = 3 OBVIOUS
      <4> QED BY <3>3, <4>1, <4>2
    <3>7. s \o t = u BY <3>3, <3>5, <3>6, SeqEqual
    <3> QED BY <3>4, <3>7 DEF s, t, u
  <2> QED BY <1>4, <2>2, <2>3, <2>4, <2>5
<1>5. CASE c.op = "drag"
  <2>1. c \in [op : {"drag"}, x : Position, to : Position, steps : Int]
    BY <1>5 DEF Command
  <2>2. c.x \in Position /\ c.to \in Position /\ c.steps \in Int /\ "left" \in Button
    BY <2>1 DEF Button
  <2> DEFINE n == IF c.steps < 2 THEN 10 ELSE c.steps
             way == [i \in 1 .. n |->
                       Move(c.x + Quot((c.to - c.x) * i, n), "left")]
             p == (<<Move(c.x, "none"), Move(c.x, "left")>> \o way)
                    \o <<Move(c.to, "none")>>
             g == Lift(c.x, h) \o <<At(c.x, "left"), At(c.to, "none")>>
  <2>3. n \in Nat \ {0} BY <2>2
  <2>4. Packets(c) = p /\ Strokes(c) = <<>> BY <1>5 DEF Packets, Strokes, Drag
  <2>5. Gesture(c, h) = g BY <1>0, <1>5 DEF Gesture
  <2>6. /\ way \in Seq(MousePackets)
        /\ \A i \in 1 .. Len(way) : way[i].buttons = "left"
    <3> HIDE DEF n
    <3> QED BY <2>2, <2>3, DragWay
  <2>7. /\ p \in Seq(MousePackets) /\ g \in Seq(Stroke)
        /\ AtEnd(h, p) = "none" /\ Leads(0, h, p, g)
    <3> HIDE DEF way
    <3> QED BY <2>2, <2>6, HoldAndRelease
  <2> HIDE DEF p, g
  <2> QED BY <1>5, <2>4, <2>5, <2>7
<1> QED BY <1>1, <1>3, <1>4, <1>5 DEF Command, IsMouseLine

\* ... and every other line to the keys.
LEMMA OtherLine ==
  ASSUME NEW c \in Command, ~IsMouseLine(c), NEW h
  PROVE  /\ Packets(c) \in Seq(KeyPackets) /\ Packets(c) = Strokes(c)
         /\ Gesture(c, h) = <<>>
<1>1. c.op \in {"key", "delay", "bad"} BY DEF IsMouseLine
<1>2. Gesture(c, h) = <<>>
  <2>1. Gesture(c, h) = <<>> \o <<>> BY <1>1 DEF Gesture, IsMouseLine
  <2> QED BY <2>1, EmptySeq, ConcatEmptySeq
<1>3. CASE c.op = "key"
  <2>1. c.key \in Key BY <1>3 DEF Command
  <2> DEFINE d == KeyEvent(c.key, TRUE)
             u == KeyEvent(c.key, FALSE)
  <2>2. d \in KeyPackets /\ u \in KeyPackets BY <2>1 DEF KeyEvent, KeyPackets
  <2>3. Packets(c) = <<d, u>> /\ Strokes(c) = <<d, u>>
    BY <1>3 DEF Packets, Strokes
  <2> HIDE DEF d, u
  <2>4. <<d, u>> \in Seq(KeyPackets) BY <2>2, Pair
  <2> QED BY <1>2, <2>3, <2>4
<1>4. CASE c.op \in {"delay", "bad"}
  <2>1. Packets(c) = <<>> /\ Strokes(c) = <<>> BY <1>4 DEF Packets, Strokes
  <2> QED BY <1>2, <2>1, EmptySeq
<1> QED BY <1>1, <1>3, <1>4

\* The keys of a line are key packets.
LEMMA StrokesTyped ==
  ASSUME NEW c \in Command
  PROVE  Strokes(c) \in Seq(KeyPackets)
<1>1. "none" \in Held BY DEF Held
<1>2. CASE IsMouseLine(c) BY <1>1, <1>2, MouseLine, EmptySeq
<1>3. CASE ~IsMouseLine(c) BY <1>3, OtherLine
<1> QED BY <1>2, <1>3

\* Each line adds its gesture, given what is down before it, and its keys.
LEMMA GesturesUnfold ==
  ASSUME NEW s \in Seq(Command)
  PROVE  /\ Gestures(s)[0] = <<>> /\ Keys(s)[0] = <<>>
         /\ \A n \in 0 .. Len(s) :
              Gestures(s)[n] \in Seq(Stroke) /\ Keys(s)[n] \in Seq(KeyPackets)
         /\ \A n \in 1 .. Len(s) :
              /\ Gestures(s)[n] =
                   Gestures(s)[n - 1] \o Gesture(s[n], Down(s)[n - 1])
              /\ Keys(s)[n] = Keys(s)[n - 1] \o Strokes(s[n])
<1> DEFINE N == Len(s)
           G == [n \in 1 .. N |-> Gesture(s[n], Down(s)[n - 1])]
           K == [n \in 1 .. N |-> Strokes(s[n])]
<1>1. N \in Nat BY LenProperties
<1>2. ASSUME NEW n \in 1 .. N
      PROVE  /\ Gesture(s[n], Down(s)[n - 1]) \in Seq(Stroke)
             /\ Strokes(s[n]) \in Seq(KeyPackets)
  <2>1. s[n] \in Command BY ElementOfSeq
  <2>2. n - 1 \in 0 .. N BY <1>1
  <2>3. Down(s)[n - 1] \in Held BY <2>2, DownUnfolds
  <2>4. CASE IsMouseLine(s[n]) BY <2>1, <2>3, <2>4, MouseLine, StrokesTyped
  <2>5. CASE ~IsMouseLine(s[n])
    BY <2>1, <2>3, <2>5, OtherLine, StrokesTyped, EmptySeq
  <2> QED BY <2>4, <2>5
<1>3. G \in [1 .. N -> Seq(Stroke)] /\ K \in [1 .. N -> Seq(KeyPackets)]
  BY <1>2
<1>4. /\ \A n \in 1 .. N : G[n] = Gesture(s[n], Down(s)[n - 1])
      /\ \A n \in 1 .. N : K[n] = Strokes(s[n])
  OBVIOUS
<1>5. Gestures(s) = Joined(G) /\ Keys(s) = Joined(K) BY DEF Gestures, Keys
<1> HIDE DEF N, G, K
<1>6. /\ Joined(G) \in [0 .. N -> Seq(Stroke)] /\ Joined(G)[0] = <<>>
      /\ \A n \in 1 .. N : Joined(G)[n] = Joined(G)[n - 1] \o G[n]
  <2>1. Joins(Joined(G), N, Stroke, G) BY <1>1, <1>3, JoinedUnfolds
  <2> QED BY <2>1 DEF Joins
<1>7. /\ Joined(K) \in [0 .. N -> Seq(KeyPackets)] /\ Joined(K)[0] = <<>>
      /\ \A n \in 1 .. N : Joined(K)[n] = Joined(K)[n - 1] \o K[n]
  <2>1. Joins(Joined(K), N, KeyPackets, K) BY <1>1, <1>3, JoinedUnfolds
  <2> QED BY <2>1 DEF Joins
<1> QED BY <1>4, <1>5, <1>6, <1>7 DEF N
-----------------------------------------------------------------------------
(***************************************************************************)
(* The inductive invariant. What WindowServer has seen, what waits in a    *)
(* FIFO and what the line being written still has to write make up         *)
(* together what the lines read so far mean; the launcher and WindowServer *)
(* only move packets along this way. ButtonsArrive and KeysArrive look at  *)
(* its end alone and are not inductive.                                    *)
(***************************************************************************)

\* The packets of the line being written, by the FIFO they go to.
MousePart(t) == IF t # <<>> /\ IsMouse(Head(t)) THEN t ELSE <<>>
KeyPart(t)   == IF t # <<>> /\ ~IsMouse(Head(t)) THEN t ELSE <<>>

\* A line writes to one FIFO, and a script that is done has nothing to write.
OneFifo ==
  /\ todo \in Seq(MousePackets) \cup Seq(KeyPackets)
  /\ changes \in Seq(Stroke) /\ typed \in Seq(KeyPackets)
  /\ status = "done" => todo = <<>> /\ line = Len(script)

\* The changes seen are the first strokes of the script; the packets on their
\* way make the others, and leave down what the lines read so far leave down.
ButtonsOnTheWay ==
  LET q     == mouse \o MousePart(todo)
      meant == Gestures(script)[line] IN
  /\ \A i \in 1 .. Len(changes) : Is(changes[i], meant[i])
  /\ Leads(Len(changes), held, q, meant)
  /\ AtEnd(held, q) = Down(script)[line]

\* The key events seen and on their way are those of the lines.
KeysOnTheWay ==
  typed \o (keyboard \o KeyPart(todo)) = Keys(script)[line]

SInv == OneFifo /\ ButtonsOnTheWay /\ KeysOnTheWay

\* A line's packets are all for one FIFO.
LEMMA Parts ==
  ASSUME NEW t
  PROVE  /\ t \in Seq(MousePackets) => MousePart(t) = t /\ KeyPart(t) = <<>>
         /\ t \in Seq(KeyPackets) => MousePart(t) = <<>> /\ KeyPart(t) = t
<1>1. \A p \in MousePackets : IsMouse(p) BY DEF MousePackets, IsMouse
<1>2. \A p \in KeyPackets : ~IsMouse(p) BY DEF KeyPackets, IsMouse
<1>3. t \in Seq(MousePackets) /\ t # <<>> => IsMouse(Head(t))
  BY <1>1, HeadTailProperties
<1>4. t \in Seq(KeyPackets) /\ t # <<>> => ~IsMouse(Head(t))
  BY <1>2, HeadTailProperties
<1> QED BY <1>3, <1>4 DEF MousePart, KeyPart

\* Moving the first of one sequence behind another leaves the two together as
\* they were.
LEMMA Shift ==
  ASSUME NEW S, NEW s \in Seq(S), NEW t \in Seq(S), t # <<>>
  PROVE  Append(s, Head(t)) \o Tail(t) = s \o t
<1> DEFINE e == Head(t)
           m == Len(s)
           n == Len(t)
           a == Append(s, e)
           r == Tail(t)
<1>1. /\ e \in S /\ r \in Seq(S) /\ Len(r) = n - 1 /\ e = t[1]
      /\ \A i \in 1 .. n - 1 : r[i] = t[i + 1]
  BY HeadTailProperties
<1>2. m \in Nat /\ n \in Nat \ {0} BY LenProperties, EmptySeq
<1>3. /\ a \in Seq(S) /\ Len(a) = m + 1
      /\ \A i \in 1 .. m : a[i] = s[i]
      /\ a[m + 1] = e
  BY <1>1, AppendProperties
<1> HIDE DEF e, m, n, a, r
<1>4. /\ a \o r \in Seq(S) /\ Len(a \o r) = m + n
      /\ \A i \in 1 .. m + n :
           (a \o r)[i] = IF i <= m + 1 THEN a[i] ELSE r[i - (m + 1)]
  <2>1. /\ a \o r \in Seq(S) /\ Len(a \o r) = Len(a) + Len(r)
        /\ \A i \in 1 .. Len(a) + Len(r) :
             (a \o r)[i] = IF i <= Len(a) THEN a[i] ELSE r[i - Len(a)]
    BY <1>1, <1>3, ConcatProperties
  <2>2. Len(a) + Len(r) = m + n BY <1>1, <1>2, <1>3
  <2> QED BY <1>3, <2>1, <2>2
<1>5. /\ s \o t \in Seq(S) /\ Len(s \o t) = m + n
      /\ \A i \in 1 .. m + n : (s \o t)[i] = IF i <= m THEN s[i] ELSE t[i - m]
  BY ConcatProperties DEF m, n
<1>6. ASSUME NEW i \in 1 .. m + n PROVE (a \o r)[i] = (s \o t)[i]
  <2>1. CASE i <= m
    <3>1. i <= m + 1 /\ i \in 1 .. m BY <1>2, <2>1
    <3> QED BY <1>3, <1>4, <1>5, <2>1, <3>1
  <2>2. CASE i = m + 1
    <3>1. i <= m + 1 /\ ~(i <= m) /\ i - m = 1 BY <1>2, <2>2
    <3>2. (a \o r)[i] = e /\ (s \o t)[i] = t[1] BY <1>3, <1>4, <1>5, <2>2, <3>1
    <3> QED BY <1>1, <3>2
  <2>3. CASE i > m + 1
    <3>1. /\ ~(i <= m + 1) /\ ~(i <= m) /\ i - (m + 1) \in 1 .. n - 1
          /\ (i - (m + 1)) + 1 = i - m
      BY <1>2, <2>3
    <3>2. r[i - (m + 1)] = t[i - m] BY <1>1, <3>1
    <3>3. (a \o r)[i] = r[i - (m + 1)] BY <1>4, <3>1
    <3>4. (s \o t)[i] = t[i - m] BY <1>5, <3>1
    <3> QED BY <3>2, <3>3, <3>4
  <2>4. i <= m \/ i = m + 1 \/ i > m + 1 BY <1>2
  <2> QED BY <2>1, <2>2, <2>3, <2>4
<1>7. a \o r = s \o t BY <1>4, <1>5, <1>6, SeqEqual
<1> QED BY <1>7 DEF a, r, e

\* The front of two sequences is that of the first.
LEMMA Front ==
  ASSUME NEW S, NEW s \in Seq(S), NEW t \in Seq(S), s # <<>>
  PROVE  /\ s \o t \in Seq(S) /\ s \o t # <<>>
         /\ Head(s \o t) = Head(s) /\ Tail(s \o t) = Tail(s) \o t
<1> DEFINE e == Head(s)
           r == Tail(s)
<1>1. e \in S /\ r \in Seq(S) BY HeadTailProperties
<1> HIDE DEF e, r
<1>2. r \o t \in Seq(S) /\ s \o t \in Seq(S) BY <1>1, ConcatProperties
<1> DEFINE w == s \o t
           v == r \o t
<1>3. w # <<>> BY ConcatEqualIffEmpty
<1>4. /\ Len(s) \in Nat \ {0} /\ Len(t) \in Nat /\ Len(w) = Len(s) + Len(t)
      /\ \A i \in 1 .. Len(s) + Len(t) :
           w[i] = IF i <= Len(s) THEN s[i] ELSE t[i - Len(s)]
      /\ Len(r) = Len(s) - 1 /\ \A i \in 1 .. Len(s) - 1 : r[i] = s[i + 1]
      /\ Len(v) = Len(r) + Len(t)
      /\ \A i \in 1 .. Len(r) + Len(t) :
           v[i] = IF i <= Len(r) THEN r[i] ELSE t[i - Len(r)]
  BY <1>1, ConcatProperties, LenProperties, EmptySeq, HeadTailProperties DEF r
<1>5. /\ Tail(w) \in Seq(S) /\ Len(Tail(w)) = Len(w) - 1
      /\ \A i \in 1 .. Len(w) - 1 : Tail(w)[i] = w[i + 1]
  BY <1>2, <1>3, HeadTailProperties
<1> HIDE DEF w, v
<1>6. Head(w) = e
  <2>1. 1 \in 1 .. Len(s) + Len(t) /\ 1 <= Len(s) BY <1>4
  <2>2. w[1] = s[1] BY <1>4, <2>1
  <2> QED BY <2>2 DEF e
<1>7. Tail(w) = v
  <2>1. Len(Tail(w)) = Len(v) /\ Len(v) = (Len(s) + Len(t)) - 1 BY <1>4, <1>5
  <2>2. ASSUME NEW i \in 1 .. (Len(s) + Len(t)) - 1 PROVE Tail(w)[i] = v[i]
    <3>1. Tail(w)[i] = w[i + 1] BY <1>4, <1>5
    <3>2. CASE i <= Len(s) - 1
      <4>1. /\ i + 1 \in 1 .. Len(s) + Len(t) /\ i + 1 <= Len(s)
            /\ i \in 1 .. Len(s) - 1 /\ i \in 1 .. Len(r) + Len(t)
            /\ i <= Len(r)
        BY <1>4, <3>2
      <4> QED BY <1>4, <3>1, <4>1
    <3>3. CASE ~(i <= Len(s) - 1)
      <4>1. /\ i + 1 \in 1 .. Len(s) + Len(t) /\ ~(i + 1 <= Len(s))
            /\ i \in 1 .. Len(r) + Len(t) /\ ~(i <= Len(r))
            /\ (i + 1) - Len(s) = i - Len(r)
        BY <1>4, <3>3
      <4> QED BY <1>4, <3>1, <4>1
    <3> QED BY <3>2, <3>3
  <2>3. v \in Seq(S) BY <1>2 DEF v
  <2> QED BY <1>5, <2>1, <2>2, <2>3, SeqEqual
<1> QED BY <1>2, <1>3, <1>6, <1>7 DEF w, v, e, r
-----------------------------------------------------------------------------
\* No more strokes are made than meant, and all of them when nothing is left
\* to read.
LEMMA LeadsBound ==
  ASSUME NEW q \in Seq(MousePackets), NEW m \in Seq(Stroke), NEW h, NEW c,
         Leads(c, h, q, m)
  PROVE  c \in 0 .. Len(m) /\ (q = <<>> => c = Len(m))
<1>1. PICK k : Counts(k, h, q, m) /\ k[0] = c BY DEF Leads
<1>2. Len(q) \in Nat /\ (q = <<>> => Len(q) = 0) BY LenProperties, EmptySeq
<1>3. 0 \in 0 .. Len(q) BY <1>2
<1>4. k[0] \in 0 .. Len(m) BY <1>1, <1>3 DEF Counts
<1>5. q = <<>> => k[0] = Len(m) BY <1>1, <1>2 DEF Counts
<1> QED BY <1>1, <1>4, <1>5

\* Nothing is read, nothing is on its way.
LEMMA SInit == Init => SInv
<1> SUFFICES ASSUME Init PROVE SInv OBVIOUS
<1>1. /\ <<>> \in Seq(MousePackets) /\ <<>> \in Seq(KeyPackets)
      /\ <<>> \in Seq(Stroke) /\ Len(<<>>) = 0
  BY EmptySeq
<1>2. script \in Seq(Command) BY DEF Init
<1>3. /\ Gestures(script)[0] = <<>> /\ Keys(script)[0] = <<>>
      /\ Down(script)[0] = "none"
  BY <1>2, GesturesUnfold, DownUnfolds
<1>4. MousePart(<<>>) = <<>> /\ KeyPart(<<>>) = <<>> BY DEF MousePart, KeyPart
<1>5. <<>> \o <<>> = <<>> BY <1>1, ConcatEmptySeq
<1>6. Leads(0, "none", <<>>, <<>>)
  <2> DEFINE e == <<>>
             k == [i \in 0 .. 0 |-> 0]
  <2>1. Len(e) = 0 BY <1>1
  <2> HIDE DEF e
  <2>2. k \in [0 .. 0 -> 0 .. 0] /\ k[0] = 0 OBVIOUS
  <2> HIDE DEF k
  <2>3. Counts(k, "none", e, e) BY <2>1, <2>2 DEF Counts
  <2>4. Leads(0, "none", e, e) BY <2>2, <2>3 DEF Leads
  <2> QED BY <2>4 DEF e
<1>7. AtEnd("none", <<>>) = "none" BY DEF AtEnd
<1>8. /\ line = 0 /\ todo = <<>> /\ status = "replaying" /\ mouse = <<>>
      /\ keyboard = <<>> /\ held = "none" /\ changes = <<>> /\ typed = <<>>
  BY DEF Init
<1>9. OneFifo BY <1>1, <1>8 DEF OneFifo
<1>10. ButtonsOnTheWay
  BY <1>1, <1>3, <1>4, <1>5, <1>6, <1>7, <1>8 DEF ButtonsOnTheWay
<1>11. KeysOnTheWay BY <1>3, <1>4, <1>5, <1>8 DEF KeysOnTheWay
<1> QED BY <1>9, <1>10, <1>11 DEF SInv

\* What PInv and SInv say of the types.
LEMMA STypes ==
  ASSUME PInv, OneFifo
  PROVE  /\ script \in Seq(Command) /\ line \in 0 .. Len(script)
         /\ Len(script) \in Nat
         /\ mouse \in Seq(MousePackets) /\ keyboard \in Seq(KeyPackets)
         /\ held \in Held
         /\ MousePart(todo) \in Seq(MousePackets)
         /\ KeyPart(todo) \in Seq(KeyPackets)
         /\ mouse \o MousePart(todo) \in Seq(MousePackets)
         /\ Gestures(script)[line] \in Seq(Stroke)
         /\ Keys(script)[line] \in Seq(KeyPackets)
         /\ Down(script)[line] \in Held
<1>1. script \in Seq(Command) /\ line \in 0 .. Len(script) BY DEF PInv, TypeOK
<1>2. /\ mouse \in Seq(MousePackets) /\ keyboard \in Seq(KeyPackets)
      /\ held \in Held
  BY DEF PInv, TypeOK, Held
<1>3. /\ MousePart(todo) \in Seq(MousePackets)
      /\ KeyPart(todo) \in Seq(KeyPackets)
  BY Parts, EmptySeq DEF OneFifo
<1>4. mouse \o MousePart(todo) \in Seq(MousePackets)
  BY <1>2, <1>3, ConcatProperties
<1>5. /\ Gestures(script)[line] \in Seq(Stroke)
      /\ Keys(script)[line] \in Seq(KeyPackets)
      /\ Down(script)[line] \in Held
  BY <1>1, GesturesUnfold, DownUnfolds
<1> QED BY <1>1, <1>2, <1>3, <1>4, <1>5, LenProperties

\* Reading a line puts its packets on the way, ...
LEMMA ReadLineButtons ==
  ASSUME PInv, SInv, ReadLine
  PROVE  OneFifo' /\ ButtonsOnTheWay'
<1> DEFINE n == line + 1
           c == script[n]
           h == Down(script)[line]
           g == Gesture(c, h)
           m == Gestures(script)[line]
<1>1. OneFifo /\ ButtonsOnTheWay BY DEF SInv
<1>2. /\ script \in Seq(Command) /\ line \in 0 .. Len(script)
      /\ Len(script) \in Nat
      /\ mouse \in Seq(MousePackets) /\ m \in Seq(Stroke) /\ h \in Held
  BY <1>1, STypes
<1>3. /\ status = "replaying" /\ todo = <<>> /\ line < Len(script)
      /\ line' = n /\ script' = script /\ mouse' = mouse
      /\ held' = held /\ changes' = changes /\ typed' = typed
      /\ IF c.op = "bad" THEN status' = "exit" /\ UNCHANGED todo
         ELSE todo' = Packets(c) /\ UNCHANGED status
  BY DEF ReadLine, server
<1>4. n \in 1 .. Len(script) /\ n - 1 = line BY <1>2, <1>3
<1>5. c \in Command BY <1>2, <1>4, ElementOfSeq
<1>6. MousePart(<<>>) = <<>> /\ mouse \o <<>> = mouse
  BY <1>2, ConcatEmptySeq DEF MousePart
<1>7. /\ \A i \in 1 .. Len(changes) : Is(changes[i], m[i])
      /\ Leads(Len(changes), held, mouse, m) /\ AtEnd(held, mouse) = h
  BY <1>1, <1>3, <1>6 DEF ButtonsOnTheWay
<1>8. /\ Gestures(script)[n] = m \o g
      /\ Down(script)[n] =
           IF ~IsMouseLine(c) THEN h
           ELSE IF c.op = "press" THEN c.button ELSE "none"
  BY <1>2, <1>4, GesturesUnfold, DownUnfolds
<1>9. CASE IsMouseLine(c)
  <2>1. todo' = Packets(c) /\ UNCHANGED status
    BY <1>3, <1>9 DEF IsMouseLine
  <2>2. /\ Packets(c) \in Seq(MousePackets) /\ g \in Seq(Stroke)
        /\ Leads(0, h, Packets(c), g)
        /\ AtEnd(h, Packets(c)) = Down(script)[n]
    BY <1>2, <1>5, <1>8, <1>9, MouseLine
  <2>3. OneFifo' BY <1>1, <1>3, <2>1, <2>2 DEF OneFifo
  <2> HIDE DEF c, h, g, m, n
  <2>4. /\ AtEnd(held, mouse \o Packets(c)) = AtEnd(h, Packets(c))
        /\ Leads(Len(changes), held, mouse \o Packets(c), m \o g)
    BY <1>2, <1>7, <2>2, LeadsOn
  <2>5. MousePart(todo') = Packets(c) BY <2>1, <2>2, Parts
  <2>6. ASSUME NEW i \in 1 .. Len(changes) PROVE Is(changes[i], (m \o g)[i])
    <3>1. Len(changes) \in 0 .. Len(m) BY <1>2, <1>7, LeadsBound
    <3>2. Len(m) \in Nat /\ Len(g) \in Nat BY <1>2, <2>2, LenProperties
    <3>3. i \in 1 .. Len(m) + Len(g) /\ i <= Len(m) BY <3>1, <3>2
    <3>4. (m \o g)[i] = m[i] BY <1>2, <2>2, <3>3, ConcatProperties
    <3> QED BY <1>7, <3>4
  <2>7. ButtonsOnTheWay'
    BY <1>3, <1>8, <2>2, <2>4, <2>5, <2>6 DEF ButtonsOnTheWay
  <2> QED BY <2>3, <2>7
<1>10. CASE ~IsMouseLine(c)
  <2>1. Packets(c) \in Seq(KeyPackets) /\ g = <<>> BY <1>5, <1>10, OtherLine
  <2>2. todo' \in Seq(KeyPackets) /\ status' # "done"
    BY <1>3, <2>1, EmptySeq
  <2>3. OneFifo' BY <1>1, <1>3, <2>2 DEF OneFifo
  <2>4. MousePart(todo') = <<>> BY <2>2, Parts
  <2>5. m \o g = m BY <1>2, <2>1, ConcatEmptySeq
  <2> HIDE DEF c, h, g, m, n
  <2>6. ButtonsOnTheWay'
    BY <1>3, <1>6, <1>7, <1>8, <1>10, <2>4, <2>5 DEF ButtonsOnTheWay
  <2> QED BY <2>3, <2>6
<1> QED BY <1>9, <1>10

\* ... or its keys.
LEMMA ReadLineKeys ==
  ASSUME PInv, SInv, ReadLine
  PROVE  KeysOnTheWay'
<1> DEFINE n == line + 1
           c == script[n]
           m == Keys(script)[line]
<1>1. OneFifo /\ KeysOnTheWay BY DEF SInv
<1>2. /\ script \in Seq(Command) /\ line \in 0 .. Len(script)
      /\ Len(script) \in Nat /\ keyboard \in Seq(KeyPackets)
      /\ typed \in Seq(KeyPackets)
  BY <1>1, STypes DEF OneFifo
<1>3. /\ todo = <<>> /\ line < Len(script)
      /\ line' = n /\ script' = script /\ keyboard' = keyboard
      /\ typed' = typed
      /\ IF c.op = "bad" THEN UNCHANGED todo ELSE todo' = Packets(c)
  BY DEF ReadLine, server
<1>4. n \in 1 .. Len(script) /\ n - 1 = line BY <1>2, <1>3
<1>5. c \in Command BY <1>2, <1>4, ElementOfSeq
<1>6. KeyPart(<<>>) = <<>> /\ keyboard \o <<>> = keyboard
  BY <1>2, ConcatEmptySeq DEF KeyPart
<1>7. typed \o keyboard = m BY <1>1, <1>3, <1>6 DEF KeysOnTheWay
<1>8. Keys(script)[n] = m \o Strokes(c) BY <1>2, <1>4, GesturesUnfold
<1>9. KeyPart(todo') = Strokes(c) /\ Strokes(c) \in Seq(KeyPackets)
  <2>1. "none" \in Held BY DEF Held
  <2>2. CASE IsMouseLine(c)
    <3>1. Packets(c) \in Seq(MousePackets) /\ Strokes(c) = <<>>
      BY <1>5, <2>1, <2>2, MouseLine
    <3>2. todo' = Packets(c) BY <1>3, <2>2 DEF IsMouseLine
    <3> QED BY <3>1, <3>2, Parts, EmptySeq
  <2>3. CASE ~IsMouseLine(c)
    <3>1. Packets(c) \in Seq(KeyPackets) /\ Packets(c) = Strokes(c)
      BY <1>5, <2>3, OtherLine
    <3>2. CASE c.op = "bad"
      <4>1. todo' = <<>> /\ Strokes(c) = <<>> BY <1>3, <3>2 DEF Strokes
      <4> QED BY <1>6, <4>1, EmptySeq
    <3>3. CASE c.op # "bad" BY <1>3, <3>1, <3>3, Parts
    <3> QED BY <3>2, <3>3
  <2> QED BY <2>2, <2>3
<1> HIDE DEF c, m, n
<1>10. typed \o (keyboard \o Strokes(c)) = m \o Strokes(c)
  <2> DEFINE t == Strokes(c)
  <2>1. t \in Seq(KeyPackets) BY <1>9
  <2> HIDE DEF t
  <2>2. (typed \o keyboard) \o t = typed \o (keyboard \o t)
    BY <1>2, <2>1, ConcatAssociative
  <2> QED BY <1>7, <2>2 DEF t
<1> QED BY <1>3, <1>8, <1>9, <1>10 DEF KeysOnTheWay

\* Writing a packet moves it along, or ends the script.
LEMMA WriteStep ==
  ASSUME PInv, SInv, Write
  PROVE  SInv'
<1>1. OneFifo /\ ButtonsOnTheWay /\ KeysOnTheWay BY DEF SInv
<1>2. /\ mouse \in Seq(MousePackets) /\ keyboard \in Seq(KeyPackets)
  BY <1>1, STypes
<1>3. /\ status = "replaying" /\ todo # <<>> /\ UNCHANGED <<script, line>>
      /\ held' = held /\ changes' = changes /\ typed' = typed
  BY DEF Write, server
<1>4. CASE status' = "exit" /\ UNCHANGED <<todo, mouse, keyboard>>
  BY <1>1, <1>3, <1>4 DEF SInv, OneFifo, ButtonsOnTheWay, KeysOnTheWay
<1>5. CASE /\ IsMouse(Head(todo)) /\ mouse' = Append(mouse, Head(todo))
           /\ todo' = Tail(todo) /\ UNCHANGED <<keyboard, status>>
  <2>1. todo \in Seq(MousePackets)
    <3>1. todo \in Seq(KeyPackets) => KeyPart(todo) = todo BY Parts
    <3>2. KeyPart(todo) = <<>> BY <1>5 DEF KeyPart
    <3> QED BY <1>1, <1>3, <3>1, <3>2 DEF OneFifo
  <2>2. Tail(todo) \in Seq(MousePackets) BY <1>3, <2>1, HeadTailProperties
  <2>3. /\ MousePart(todo) = todo /\ KeyPart(todo) = <<>>
        /\ MousePart(todo') = Tail(todo) /\ KeyPart(todo') = <<>>
    BY <1>5, <2>1, <2>2, Parts
  <2>4. mouse' \o MousePart(todo') = mouse \o MousePart(todo)
    <3>1. Append(mouse, Head(todo)) \o Tail(todo) = mouse \o todo
      BY <1>2, <1>3, <2>1, Shift
    <3> QED BY <1>5, <2>3, <3>1
  <2>5. OneFifo' BY <1>1, <1>3, <1>5, <2>2 DEF OneFifo
  <2>6. ButtonsOnTheWay' BY <1>1, <1>3, <2>4 DEF ButtonsOnTheWay
  <2>7. KeysOnTheWay' BY <1>1, <1>3, <1>5, <2>3 DEF KeysOnTheWay
  <2> QED BY <2>5, <2>6, <2>7 DEF SInv
<1>6. CASE /\ ~IsMouse(Head(todo)) /\ keyboard' = Append(keyboard, Head(todo))
           /\ todo' = Tail(todo) /\ UNCHANGED <<mouse, status>>
  <2>1. todo \in Seq(KeyPackets)
    <3>1. todo \in Seq(MousePackets) => MousePart(todo) = todo BY Parts
    <3>2. MousePart(todo) = <<>> BY <1>6 DEF MousePart
    <3> QED BY <1>1, <1>3, <3>1, <3>2 DEF OneFifo
  <2>2. Tail(todo) \in Seq(KeyPackets) BY <1>3, <2>1, HeadTailProperties
  <2>3. /\ KeyPart(todo) = todo /\ MousePart(todo) = <<>>
        /\ KeyPart(todo') = Tail(todo) /\ MousePart(todo') = <<>>
    BY <1>6, <2>1, <2>2, Parts
  <2>4. keyboard' \o KeyPart(todo') = keyboard \o KeyPart(todo)
    <3>1. Append(keyboard, Head(todo)) \o Tail(todo) = keyboard \o todo
      BY <1>2, <1>3, <2>1, Shift
    <3> QED BY <1>6, <2>3, <3>1
  <2>5. OneFifo' BY <1>1, <1>3, <1>6, <2>2 DEF OneFifo
  <2>6. ButtonsOnTheWay' BY <1>1, <1>3, <1>6, <2>3 DEF ButtonsOnTheWay
  <2>7. KeysOnTheWay' BY <1>1, <1>3, <2>4 DEF KeysOnTheWay
  <2> QED BY <2>5, <2>6, <2>7 DEF SInv
<1> QED BY <1>4, <1>5, <1>6 DEF Write

\* WindowServer acts on a packet, ...
LEMMA DrainMouseStep ==
  ASSUME PInv, SInv, DrainMouse
  PROVE  SInv'
<1> DEFINE p == Head(mouse)
           q == mouse \o MousePart(todo)
           m == Gestures(script)[line]
           e == [x |-> Constrain(FromWire(p.x)), buttons |-> p.buttons]
           r == Tail(mouse) \o MousePart(todo)
<1>1. OneFifo /\ ButtonsOnTheWay /\ KeysOnTheWay BY DEF SInv
<1>2. /\ mouse \in Seq(MousePackets) /\ q \in Seq(MousePackets)
      /\ m \in Seq(Stroke) /\ MousePart(todo) \in Seq(MousePackets)
  BY <1>1, STypes
<1>3. /\ mouse # <<>> /\ mouse' = Tail(mouse)
      /\ held' = p.buttons
      /\ changes' = IF p.buttons = held THEN changes ELSE Append(changes, e)
      /\ UNCHANGED <<script, line, todo, status, keyboard, typed>>
  BY DEF DrainMouse, launcher
<1>4. q # <<>> /\ Head(q) = p /\ Tail(q) = r BY <1>2, <1>3, Front
<1>5. /\ \A i \in 1 .. Len(changes) : Is(changes[i], m[i])
      /\ Leads(Len(changes), held, q, m) /\ AtEnd(held, q) = Down(script)[line]
  BY <1>1 DEF ButtonsOnTheWay
<1>6. p \in MousePackets BY <1>2, <1>3, HeadTailProperties
<1>7. e \in Stroke
  <2>1. PICK y \in Position : p.x = ToWire(y) BY <1>6 DEF MousePackets
  <2>2. Constrain(FromWire(p.x)) \in Pixel BY <2>1, Lands, Positions
  <2>3. Pixel \subseteq Int BY DEF Pixel
  <2>4. p.buttons \in Held BY <1>6 DEF MousePackets
  <2> QED BY <2>2, <2>3, <2>4 DEF Stroke
<1>8. changes \in Seq(Stroke) BY <1>1 DEF OneFifo
<1>9. Means(p, m[Len(changes) + 1]) <=> Is(e, m[Len(changes) + 1])
  BY DEF Means
<1> HIDE DEF e, q, r, m, p
<1>10. /\ AtEnd(p.buttons, r) = Down(script)[line]
       /\ p.buttons = held => Leads(Len(changes), p.buttons, r, m)
       /\ p.buttons # held =>
            /\ Means(p, m[Len(changes) + 1])
            /\ Leads(Len(changes) + 1, p.buttons, r, m)
  BY <1>2, <1>4, <1>5, LeadsTail
<1>11. /\ changes' \in Seq(Stroke)
       /\ \A i \in 1 .. Len(changes') : Is(changes'[i], m[i])
       /\ Leads(Len(changes'), held', r, m)
  <2>1. CASE p.buttons = held BY <1>3, <1>5, <1>8, <1>10, <2>1
  <2>2. CASE p.buttons # held
    <3>1. changes' = Append(changes, e) BY <1>3, <2>2
    <3> DEFINE l == Len(changes)
    <3>2. /\ changes' \in Seq(Stroke) /\ Len(changes') = l + 1
          /\ \A i \in 1 .. l : changes'[i] = changes[i]
          /\ changes'[l + 1] = e /\ l \in Nat
      BY <1>7, <1>8, <3>1, AppendProperties, LenProperties
    <3>3. Is(e, m[l + 1]) /\ Leads(l + 1, held', r, m)
      BY <1>3, <1>9, <1>10, <2>2
    <3> HIDE DEF l
    <3>4. ASSUME NEW i \in 1 .. l + 1 PROVE Is(changes'[i], m[i])
      <4>1. CASE i = l + 1 BY <3>2, <3>3, <4>1
      <4>2. CASE i # l + 1
        <5>1. i \in 1 .. l BY <3>2, <4>2
        <5>2. changes'[i] = changes[i] BY <3>2, <5>1
        <5> QED BY <1>5, <5>1, <5>2 DEF l
      <4> QED BY <4>1, <4>2
    <3> QED BY <3>2, <3>3, <3>4
  <2> QED BY <2>1, <2>2
<1>12. OneFifo' BY <1>1, <1>3, <1>11 DEF OneFifo
<1>13. ButtonsOnTheWay'
  BY <1>3, <1>10, <1>11 DEF ButtonsOnTheWay, r, m
<1>14. KeysOnTheWay' BY <1>1, <1>3 DEF KeysOnTheWay
<1> QED BY <1>12, <1>13, <1>14 DEF SInv

\* ... or leaves one that changes no button to the next.
LEMMA MergeMoveStep ==
  ASSUME PInv, SInv, MergeMove
  PROVE  SInv'
<1> DEFINE p == Head(mouse)
           q == mouse \o MousePart(todo)
           m == Gestures(script)[line]
           r == Tail(mouse) \o MousePart(todo)
<1>1. OneFifo /\ ButtonsOnTheWay /\ KeysOnTheWay BY DEF SInv
<1>2. /\ mouse \in Seq(MousePackets) /\ q \in Seq(MousePackets)
      /\ m \in Seq(Stroke) /\ MousePart(todo) \in Seq(MousePackets)
  BY <1>1, STypes
<1>3. /\ mouse # <<>> /\ mouse' = Tail(mouse) /\ p.buttons = held
      /\ UNCHANGED <<script, line, todo, status, keyboard, typed, held,
                     changes>>
  BY EmptySeq DEF MergeMove, launcher, server
<1>4. q # <<>> /\ Head(q) = p /\ Tail(q) = r BY <1>2, <1>3, Front
<1>5. Leads(Len(changes), held, q, m) /\ AtEnd(held, q) = Down(script)[line]
  BY <1>1 DEF ButtonsOnTheWay
<1> HIDE DEF q, r, m, p
<1>6. AtEnd(held, r) = Down(script)[line] /\ Leads(Len(changes), held, r, m)
  BY <1>2, <1>3, <1>4, <1>5, LeadsTail
<1>7. OneFifo' BY <1>1, <1>3 DEF OneFifo
<1>8. ButtonsOnTheWay' BY <1>1, <1>3, <1>6 DEF ButtonsOnTheWay, r, m
<1>9. KeysOnTheWay' BY <1>1, <1>3 DEF KeysOnTheWay
<1> QED BY <1>7, <1>8, <1>9 DEF SInv

\* A key is acted on as it is.
LEMMA DrainKeyboardStep ==
  ASSUME PInv, SInv, DrainKeyboard
  PROVE  SInv'
<1>1. OneFifo /\ ButtonsOnTheWay /\ KeysOnTheWay BY DEF SInv
<1>2. /\ keyboard \in Seq(KeyPackets) /\ KeyPart(todo) \in Seq(KeyPackets)
      /\ typed \in Seq(KeyPackets)
  BY <1>1, STypes DEF OneFifo
<1>3. /\ keyboard # <<>> /\ keyboard' = Tail(keyboard)
      /\ typed' = Append(typed, Head(keyboard))
      /\ UNCHANGED <<script, line, todo, status, mouse, held, changes>>
  BY DEF DrainKeyboard, launcher
<1> DEFINE k == KeyPart(todo)
<1>4. typed' \o (keyboard' \o k) = typed \o (keyboard \o k)
  <2> DEFINE w == keyboard \o k
  <2>1. /\ w \in Seq(KeyPackets) /\ w # <<>> /\ Head(w) = Head(keyboard)
        /\ Tail(w) = Tail(keyboard) \o k
    BY <1>2, <1>3, Front
  <2> HIDE DEF w, k
  <2>2. Append(typed, Head(w)) \o Tail(w) = typed \o w BY <1>2, <2>1, Shift
  <2> QED BY <1>3, <2>1, <2>2 DEF w
<1>5. typed' \in Seq(KeyPackets)
  BY <1>2, <1>3, HeadTailProperties, AppendProperties
<1>6. OneFifo' BY <1>1, <1>3, <1>5 DEF OneFifo
<1>7. ButtonsOnTheWay' BY <1>1, <1>3 DEF ButtonsOnTheWay
<1>8. KeysOnTheWay' BY <1>1, <1>3, <1>4 DEF KeysOnTheWay
<1> QED BY <1>6, <1>7, <1>8 DEF SInv

\* Every step keeps the invariant ...
LEMMA SNext == PInv /\ SInv /\ [Next]_vars => SInv'
<1> SUFFICES ASSUME PInv, SInv, [Next]_vars PROVE SInv' OBVIOUS
<1>1. CASE ReadLine BY <1>1, ReadLineButtons, ReadLineKeys DEF SInv
<1>2. CASE Write BY <1>2, WriteStep
<1>3. CASE EndOfScript
  BY <1>3 DEF EndOfScript, server, SInv, OneFifo, ButtonsOnTheWay, KeysOnTheWay
<1>4. CASE OpenDevices \/ Crash
  BY <1>4 DEF OpenDevices, Crash, launcher, server, SInv, OneFifo,
              ButtonsOnTheWay, KeysOnTheWay
<1>5. CASE DrainMouse BY <1>5, DrainMouseStep
<1>6. CASE MergeMove BY <1>6, MergeMoveStep
<1>7. CASE DrainKeyboard BY <1>7, DrainKeyboardStep
<1>8. CASE UNCHANGED vars
  BY <1>8 DEF vars, SInv, OneFifo, ButtonsOnTheWay, KeysOnTheWay
<1> QED BY <1>1, <1>2, <1>3, <1>4, <1>5, <1>6, <1>7, <1>8
     DEF Next, Launcher, Server

\* ... which says what is promised of the end of the way.
LEMMA Arrived ==
  ASSUME PInv, SInv
  PROVE  GesturesArrive /\ NothingStaysHeld
<1> DEFINE q == mouse \o MousePart(todo)
           m == Gestures(script)[line]
           k == Keys(script)[line]
           l == KeyPart(todo)
<1>1. OneFifo /\ ButtonsOnTheWay /\ KeysOnTheWay BY DEF SInv
<1>2. /\ mouse \in Seq(MousePackets) /\ q \in Seq(MousePackets)
      /\ m \in Seq(Stroke) /\ k \in Seq(KeyPackets)
      /\ keyboard \in Seq(KeyPackets) /\ l \in Seq(KeyPackets)
      /\ typed \in Seq(KeyPackets)
  BY <1>1, STypes DEF OneFifo
<1>3. /\ \A i \in 1 .. Len(changes) : Is(changes[i], m[i])
      /\ Leads(Len(changes), held, q, m)
      /\ AtEnd(held, q) = Down(script)[line]
      /\ typed \o (keyboard \o l) = k
  BY <1>1 DEF ButtonsOnTheWay, KeysOnTheWay
<1>4. ASSUME status = "done"
      PROVE  /\ line = Len(script)
             /\ mouse = <<>> => q = <<>>
             /\ keyboard = <<>> => keyboard \o l = <<>>
  <2>1. todo = <<>> /\ line = Len(script) BY <1>1, <1>4 DEF OneFifo
  <2>2. MousePart(todo) = <<>> /\ l = <<>> BY <2>1 DEF MousePart, KeyPart
  <2> QED BY <1>2, <2>1, <2>2, ConcatEmptySeq
<1>5. NothingStaysHeld
  <2> SUFFICES ASSUME status = "done", mouse = <<>>
               PROVE  held = Down(script)[Len(script)]
    BY DEF NothingStaysHeld
  <2>1. q = <<>> /\ line = Len(script) BY <1>4
  <2> HIDE DEF q
  <2> QED BY <1>3, <2>1 DEF AtEnd
<1> HIDE DEF q, m, k, l
<1>6. Len(changes) \in 0 .. Len(m) /\ (q = <<>> => Len(changes) = Len(m))
  BY <1>2, <1>3, LeadsBound
<1>7. ButtonsArrive
  <2>1. Len(m) \in Nat BY <1>2, LenProperties
  <2>2. Len(changes) <= Len(m) BY <1>6, <2>1
  <2> QED BY <1>3, <1>4, <1>6, <2>2 DEF ButtonsArrive, m
<1>8. KeysArrive
  <2> DEFINE w == keyboard \o l
  <2>1. w \in Seq(KeyPackets) BY <1>2, ConcatProperties
  <2>2. typed \o w = k BY <1>3
  <2>3. w = <<>> => typed = k BY <1>2, <2>2, ConcatEmptySeq
  <2> HIDE DEF w
  <2>4. /\ Len(typed) \in Nat /\ Len(w) \in Nat
        /\ Len(k) = Len(typed) + Len(w)
        /\ \A i \in 1 .. Len(typed) + Len(w) :
             k[i] = IF i <= Len(typed) THEN typed[i] ELSE w[i - Len(typed)]
    BY <1>2, <2>1, <2>2, ConcatProperties, LenProperties
  <2>5. Len(typed) <= Len(k) BY <2>4
  <2>6. ASSUME NEW i \in 1 .. Len(typed) PROVE typed[i] = k[i]
    <3>1. i \in 1 .. Len(typed) + Len(w) /\ i <= Len(typed) BY <2>4
    <3> QED BY <2>4, <3>1
  <2>7. status = "done" /\ keyboard = <<>> => typed = k
    BY <1>4, <2>3 DEF w
  <2> QED BY <2>5, <2>6, <2>7 DEF KeysArrive, k
<1> QED BY <1>5, <1>7, <1>8 DEF GesturesArrive

\* Whatever a script presses, moves and leaves down, and however late
\* WindowServer reads and whatever moves it merges: the presses, releases and
\* keys it sees are those of the lines replayed so far, in order, each at its
\* place or one pixel short of it, and all of them once a finished script has
\* been read (run_input_script writes, WindowServer drains its FIFOs).
THEOREM ScriptFollowed == Spec => []GesturesArrive
<1>1. Init => PInv /\ SInv BY PInit, SInit
<1>2. PInv /\ SInv /\ [Next]_vars => PInv' /\ SInv' BY PNext, SNext
<1>3. PInv /\ SInv => GesturesArrive BY Arrived
<1> QED BY <1>1, <1>2, <1>3, PTL DEF Spec

\* Once WindowServer has read all of a finished script, the button that is
\* down is the one that the script's last mouse line pressed, or none: a drag
\* or click never leaves its button stuck (send_mouse, run_input_script).
THEOREM ButtonsReleased == Spec => []NothingStaysHeld
<1>1. Init => PInv /\ SInv BY PInit, SInit
<1>2. PInv /\ SInv /\ [Next]_vars => PInv' /\ SInv' BY PNext, SNext
<1>3. PInv /\ SInv => NothingStaysHeld BY Arrived
<1> QED BY <1>1, <1>2, <1>3, PTL DEF Spec
=============================================================================
