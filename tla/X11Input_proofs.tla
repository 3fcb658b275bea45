--------------------------- MODULE X11Input_proofs ---------------------------
(***************************************************************************)
(* Proofs about X11Input, for every screen width, every set of positions   *)
(* that fits the protocol's 16 bits and all nine buttons.                  *)
(***************************************************************************)
EXTENDS X11Input, Coordinates_proofs

USE CoordinatesAssumption

\* The bits of the buttons the user holds.
Image(held) == {Bit(b) : b \in held \cap Known}

LEMMA BitTyped == \A b \in Known : Bit(b) \in Bits
<1> SUFFICES ASSUME NEW b \in Known PROVE Bit(b) \in Bits OBVIOUS
<1>1. b = 1 \/ b = 2 \/ b = 3 \/ b = 8 \/ b = 9 BY DEF Known
<1>2. /\ Bit(1) = "primary" /\ Bit(2) = "middle" /\ Bit(3) = "secondary"
      /\ Bit(8) = "backward" /\ Bit(9) = "forward"
  BY DEF Bit
<1> QED BY <1>1, <1>2 DEF Bits

LEMMA BitInjective == \A a, b \in Known : Bit(a) = Bit(b) => a = b
<1> SUFFICES ASSUME NEW a \in Known, NEW b \in Known, Bit(a) = Bit(b)
             PROVE  a = b
  OBVIOUS
<1>1. /\ a = 1 \/ a = 2 \/ a = 3 \/ a = 8 \/ a = 9
      /\ b = 1 \/ b = 2 \/ b = 3 \/ b = 8 \/ b = 9
  BY DEF Known
<1>2. /\ Bit(1) = "primary" /\ Bit(2) = "middle" /\ Bit(3) = "secondary"
      /\ Bit(8) = "backward" /\ Bit(9) = "forward"
  BY DEF Bit
<1> QED BY <1>1, <1>2

LEMMA ImageTyped == ASSUME NEW h PROVE Image(h) \subseteq Bits
BY BitTyped DEF Image

LEMMA ImagePress ==
  ASSUME NEW h, NEW b \in Known
  PROVE  Image(h \cup {b}) = Press(b, Image(h))
<1>1. \A e : e \in Image(h \cup {b}) <=> e \in Press(b, Image(h))
  BY DEF Image, Press
<1> QED BY <1>1

LEMMA ImageRelease ==
  ASSUME NEW h, NEW b \in Known
  PROVE  Image(h \ {b}) = Release(b, Image(h))
<1>1. \A e : e \in Image(h \ {b}) <=> e \in Release(b, Image(h))
  BY BitInjective DEF Image, Release
<1> QED BY <1>1

\* Buttons that have no bit do not show.
LEMMA ImageOther ==
  ASSUME NEW h, NEW b, b \notin Known
  PROVE  Image(h \cup {b}) = Image(h) /\ Image(h \ {b}) = Image(h)
<1>1. (h \cup {b}) \cap Known = h \cap Known OBVIOUS
<1>2. (h \ {b}) \cap Known = h \cap Known OBVIOUS
<1> QED BY <1>1, <1>2 DEF Image
-----------------------------------------------------------------------------
(***************************************************************************)
(* The inductive invariant: WindowServer and the mapper agree on the       *)
(* buttons, both with the user, and events begin after the viewport is     *)
(* set.                                                                    *)
(***************************************************************************)
AllMods == {"shift", "ctrl", "alt", "super"}

WsType == [cursor : Pixel, buttons : SUBSET Bits, wheel : Int,
           mods : SUBSET AllMods]

IInv ==
  /\ TypeOK /\ ws \in WsType
  /\ win # "none" => viewport = Width
  /\ buttons = ws.buttons
  /\ ButtonsMirrored /\ CursorMirrored /\ WheelOnce /\ KeyboardMirrored

LEMMA Bounds ==
  /\ MaxWheel \in Nat /\ \A n \in -MaxWheel .. MaxWheel : n \in Int
  /\ 0 \in -MaxWheel .. MaxWheel
<1> QED BY WheelAssumption

LEMMA ModifierNames ==
  /\ Modifiers \subseteq AllMods
  /\ \A k \in Keys : k \notin Modifiers
BY KeysAssumption, ModifiersAssumption DEF AllMods

LEMMA KeyDelivered ==
  ASSUME NEW w \in WsType, NEW m \in SUBSET AllMods
  PROVE  /\ [w EXCEPT !.mods = m] \in WsType
         /\ [w EXCEPT !.mods = m].mods = m
         /\ [w EXCEPT !.mods = m].buttons = w.buttons
         /\ [w EXCEPT !.mods = m].wheel = w.wheel
         /\ [w EXCEPT !.mods = m].cursor = w.cursor
BY DEF WsType

\* What one mouse packet does to WindowServer.
LEMMA Delivered ==
  ASSUME ws \in WsType, viewport = Width,
         NEW x \in PointerX, NEW held \in SUBSET Bits, NEW z \in Int
  PROVE  /\ deliver_mouse(x, held, z) \in WsType
         /\ deliver_mouse(x, held, z).buttons = held
         /\ deliver_mouse(x, held, z).wheel = ws.wheel + z
         /\ deliver_mouse(x, held, z).mods = ws.mods
         /\ deliver_mouse(x, held, z).cursor
              \in {Constrain(x) - 1, Constrain(x)}
<1>1. x \in Int BY PointerAssumption
<1> DEFINE c == Constrain(FromWire(ToWire(x)))
           w == [cursor |-> c, buttons |-> held, wheel |-> ws.wheel + z,
                 mods |-> ws.mods]
<1>2. c \in Pixel /\ c \in {Constrain(x) - 1, Constrain(x)} BY <1>1, Lands
<1>3. deliver_mouse(x, held, z) = w BY DEF deliver_mouse
<1>4. ws.wheel + z \in Int /\ ws.mods \in SUBSET AllMods BY DEF WsType
<1> HIDE DEF c
<1>5. w \in WsType BY <1>2, <1>4 DEF WsType
<1> QED BY <1>2, <1>3, <1>5 DEF c

LEMMA IInit == Init => IInv
<1> SUFFICES ASSUME Init PROVE IInv OBVIOUS
<1>1. /\ 0 \in Int /\ Width \div 2 \in Pixel BY DEF Pixel
<1>2. 0 \in -MaxWheel .. MaxWheel BY Bounds
<1>3. ws \in WsType BY <1>1 DEF Init, WsType
<1>4. TypeOK BY <1>2, <1>3 DEF Init, TypeOK, WsType, AllMods
<1>5. /\ ButtonsMirrored /\ CursorMirrored /\ WheelOnce /\ KeyboardMirrored
  BY DEF Init, ButtonsMirrored, CursorMirrored, WheelOnce, KeyboardMirrored,
         HeldMods
<1> QED BY <1>3, <1>4, <1>5 DEF Init, IInv

\* A key that is no modifier leaves the modifiers as they are.
LEMMA ModsKept ==
  ASSUME NEW k \in Keys, Key(k) PROVE HeldMods' = HeldMods
BY ModifierNames DEF Key, HeldMods

\* A key event adds or removes the code of its key and no other; a modifier
\* that changes the code of a key that is held ends the agreement.
LEMMA KeyPairs ==
  ASSUME NEW k \in Keys \cup Modifiers, Key(k), KeyboardMirrored,
         pressed \subseteq Keys \cup Modifiers,
         ws'.mods = HeldMods
  PROVE  KeyboardMirrored'
<1> DEFINE known(p, state) == {KeyCodeOf(h, state) : h \in p} \ {"invalid"}
           code == {KeyCodeOf(k, HeldMods)} \ {"invalid"}
<1>1. HeldMods \in SUBSET Modifiers BY DEF HeldMods
<1>2. lastKey' \notin Modifiers => ws'.mods = HeldMods'
  BY ModsKept DEF Key
<1>3. \A h \in Keys \cup Modifiers :
        KeyCodeOf(h, HeldMods) = KeyCodeOf(k, HeldMods) =>
          h = k \/ KeyCodeOf(k, HeldMods) = "invalid"
  BY <1>1, CodesAssumption
<1>4. ASSUME steady' PROVE codes' = known(pressed', HeldMods')
  <2>1. /\ codes = known(pressed, HeldMods)
        /\ \A h \in pressed \ {k} :
             KeyCodeOf(h, HeldMods) = KeyCodeOf(h, HeldMods')
    BY <1>4 DEF Key, KeyboardMirrored
  <2>2. KeyCodeOf(k, HeldMods') = KeyCodeOf(k, HeldMods)
    <3>1. CASE k \in Keys BY <3>1, ModsKept
    <3>2. CASE k \in Modifiers
      <4>1. HeldMods' \in SUBSET Modifiers BY DEF HeldMods
      <4>2. Char(k, HeldMods') = Char(k, HeldMods)
        BY <1>1, <3>2, <4>1, CodesAssumption
      <4> QED BY <4>2 DEF KeyCodeOf, raw_key_for
    <3> QED BY <3>1, <3>2
  <2>3. \A h \in pressed \cup {k} :
          KeyCodeOf(h, HeldMods') = KeyCodeOf(h, HeldMods)
    BY <2>1, <2>2
  <2>4. CASE k \in pressed
    <3>1. codes' = codes \ code /\ pressed' = pressed \ {k}
      BY <2>4 DEF Key
    <3>2. known(pressed', HeldMods') = known(pressed \ {k}, HeldMods)
      BY <2>3, <3>1
    <3>3. known(pressed \ {k}, HeldMods) = known(pressed, HeldMods) \ code
      BY <1>3
    <3> QED BY <2>1, <3>1, <3>2, <3>3
  <2>5. CASE k \notin pressed
    <3>1. codes' = codes \cup code /\ pressed' = pressed \cup {k}
      BY <2>5 DEF Key
    <3>2. known(pressed', HeldMods') = known(pressed \cup {k}, HeldMods)
      BY <2>3, <3>1
    <3>3. known(pressed \cup {k}, HeldMods) = known(pressed, HeldMods) \cup code
      OBVIOUS
    <3> QED BY <2>1, <3>1, <3>2, <3>3
  <2> QED BY <2>4, <2>5
<1> QED BY <1>2, <1>4 DEF KeyboardMirrored

LEMMA INext == IInv /\ [Next]_vars => IInv'
<1> SUFFICES ASSUME IInv, [Next]_vars PROVE IInv' OBVIOUS
<1> USE DEF IInv, TypeOK, keyboard, AllMods
<1>0. buttons = Image(down) BY DEF Image, ButtonsMirrored
<1>1. CASE SetViewport
  BY <1>1 DEF SetViewport, history, ButtonsMirrored, CursorMirrored, WheelOnce,
              KeyboardMirrored, HeldMods
<1>2. CASE MapWindow
  BY <1>2 DEF MapWindow, mapper, history, ButtonsMirrored, CursorMirrored,
              WheelOnce, KeyboardMirrored, HeldMods
<1>3. ASSUME NEW x \in PointerX, NEW held \in SUBSET Bits, NEW z \in Int,
             win = "mapped", ws' = deliver_mouse(x, held, z),
             UNCHANGED <<win, viewport, keyboard>>,
             lastX' = x, told' = {x}, buttons' = held,
             down' \subseteq Buttons, turned' \in -MaxWheel .. MaxWheel,
             held = Image(down'), turned' = turned + z
      PROVE  IInv'
  <2>1. /\ ws' \in WsType /\ ws'.buttons = held /\ ws'.wheel = ws.wheel + z
        /\ ws'.mods = ws.mods
        /\ ws'.cursor \in {Constrain(x) - 1, Constrain(x)}
    BY <1>3, Delivered
  <2>2. TypeOK' BY <1>3, <2>1 DEF WsType
  <2>3. ButtonsMirrored' BY <1>3, <2>1 DEF ButtonsMirrored, Image
  <2>4. CursorMirrored' BY <1>3, <2>1 DEF CursorMirrored
  <2>5. WheelOnce' BY <1>3, <2>1 DEF WheelOnce
  <2>6. KeyboardMirrored' BY <1>3, <2>1 DEF KeyboardMirrored, HeldMods
  <2> QED BY <1>3, <2>1, <2>2, <2>3, <2>4, <2>5, <2>6
<1>4. ASSUME NEW x \in PointerX, Motion(x) PROVE IInv'
  <2>1. 0 \in Int /\ turned' = turned + 0
    BY <1>4, Bounds DEF Motion
  <2> QED BY <1>0, <1>3, <1>4, <2>1 DEF Motion
<1>5. ASSUME NEW b \in Buttons, NEW x \in PointerX, ButtonDown(b, x)
      PROVE  IInv'
  <2>1. 0 \in Int /\ turned' = turned + 0 BY <1>5, Bounds DEF ButtonDown
  <2>2. buttons' = Image(down') BY <1>0, <1>5, ImagePress DEF ButtonDown
  <2>3. buttons' \in SUBSET Bits BY <2>2, ImageTyped
  <2>4. /\ down' \subseteq Buttons /\ turned' \in -MaxWheel .. MaxWheel
        /\ win = "mapped" /\ UNCHANGED <<win, viewport, keyboard>>
        /\ lastX' = x /\ told' = {x}
        /\ ws' = deliver_mouse(x, buttons', 0)
    BY <1>5 DEF ButtonDown
  <2> HIDE DEF IInv, TypeOK
  <2> QED BY <1>3, <2>1, <2>2, <2>3, <2>4
<1>6. ASSUME NEW b \in Buttons, NEW x \in PointerX, ButtonUp(b, x)
      PROVE  IInv'
  <2>1. 0 \in Int /\ turned' = turned + 0 BY <1>6, Bounds DEF ButtonUp
  <2>2. buttons' = Image(down') BY <1>0, <1>6, ImageRelease DEF ButtonUp
  <2>3. buttons' \in SUBSET Bits BY <2>2, ImageTyped
  <2>4. /\ down' \subseteq Buttons /\ turned' \in -MaxWheel .. MaxWheel
        /\ win = "mapped" /\ UNCHANGED <<win, viewport, keyboard>>
        /\ lastX' = x /\ told' = {x}
        /\ ws' = deliver_mouse(x, buttons', 0)
    BY <1>6 DEF ButtonUp
  <2> HIDE DEF IInv, TypeOK
  <2> QED BY <1>3, <2>1, <2>2, <2>3, <2>4
<1>7. ASSUME NEW b \in Buttons, NEW x \in PointerX, WheelDown(b, x)
      PROVE  IInv'
  <2>1. b \notin Known BY <1>7 DEF WheelDown, Wheel, Known
  <2>2. buttons' = Image(down') BY <1>0, <1>7, <2>1, ImageOther DEF WheelDown
  <2>3. Notch(b) \in Int BY DEF Notch
  <2> QED BY <1>3, <1>7, <2>2, <2>3 DEF WheelDown
<1>8. ASSUME NEW b \in Buttons, NEW x \in PointerX, WheelUp(b, x)
      PROVE  IInv'
  <2>1. b \notin Known BY <1>8 DEF WheelUp, Wheel, Known
  <2>2. buttons' = Image(down') BY <1>0, <1>8, <2>1, ImageOther DEF WheelUp
  <2>3. 0 \in Int /\ turned' = turned + 0 BY <1>8, Bounds DEF WheelUp
  <2>4. /\ down' \subseteq Buttons /\ turned' \in -MaxWheel .. MaxWheel
        /\ win = "mapped" /\ UNCHANGED <<win, viewport, keyboard>>
        /\ lastX' = x /\ told' = {x} /\ buttons' = buttons
        /\ buttons \in SUBSET Bits /\ ws' = deliver_mouse(x, buttons, 0)
    BY <1>8 DEF WheelUp
  <2> HIDE DEF IInv, TypeOK
  <2> QED BY <1>3, <2>2, <2>3, <2>4
<1>9. ASSUME NEW b \in Buttons, NEW x \in PointerX, OtherButton(b, x)
      PROVE  IInv'
  <2>1. buttons' = Image(down')
    BY <1>0, <1>9, ImageOther DEF OtherButton
  <2>2. ButtonsMirrored' BY <1>9, <2>1 DEF OtherButton, ButtonsMirrored, Image
  <2>3. TypeOK' BY <1>9 DEF OtherButton
  <2>4. CursorMirrored' /\ WheelOnce' /\ KeyboardMirrored'
    BY <1>9 DEF OtherButton, CursorMirrored, WheelOnce, KeyboardMirrored,
                HeldMods
  <2> QED BY <1>9, <2>2, <2>3, <2>4 DEF OtherButton
<1>10. ASSUME NEW k \in Keys \cup Modifiers, Key(k) PROVE IInv'
  <2>1. HeldMods \in SUBSET AllMods BY ModifierNames DEF HeldMods
  <2>2. /\ ws' \in WsType /\ ws'.mods = HeldMods /\ ws'.buttons = ws.buttons
        /\ ws'.wheel = ws.wheel /\ ws'.cursor = ws.cursor
    <3>1. HeldMods \cap AllMods = HeldMods BY <2>1
    <3>2. ws' = [ws EXCEPT !.mods = HeldMods]
      BY <1>10, <3>1 DEF Key, deliver_key, modifiers_from_state
    <3> QED BY <2>1, <3>2, KeyDelivered
  <2>3. TypeOK' BY <1>10, <2>2 DEF Key, mapper, WsType
  <2>4. ButtonsMirrored' /\ CursorMirrored' /\ WheelOnce'
    BY <1>10, <2>2 DEF Key, mapper, ButtonsMirrored, CursorMirrored, WheelOnce
  <2>5. KeyboardMirrored' BY <1>10, <2>2, KeyPairs
  <2> QED BY <1>10, <2>2, <2>3, <2>4, <2>5 DEF Key, mapper
<1>11. CASE UNCHANGED vars
  BY <1>11 DEF vars, ButtonsMirrored, CursorMirrored, WheelOnce,
               KeyboardMirrored, HeldMods
<1> QED
  BY <1>1, <1>2, <1>4, <1>5, <1>6, <1>7, <1>8, <1>9, <1>10, <1>11
  DEF Next, Pointer

LEMMA Invariance == Spec => []IInv
BY IInit, INext, PTL DEF Spec

\* The mapper's and WindowServer's state is well-formed.
THEOREM TypeCorrect == Spec => []TypeOK
<1>1. IInv => TypeOK BY DEF IInv
<1> QED BY <1>1, Invariance, PTL

\* The buttons WindowServer sees held are those the user holds.
THEOREM ButtonsTrue == Spec => []ButtonsMirrored
<1>1. IInv => ButtonsMirrored BY DEF IInv
<1> QED BY <1>1, Invariance, PTL

\* The cursor is where the pointer is, or one pixel short of it.
THEOREM CursorTrue == Spec => []CursorMirrored
<1>1. IInv => CursorMirrored BY DEF IInv
<1> QED BY <1>1, Invariance, PTL

\* No notch of the wheel is lost or counted twice.
THEOREM WheelTrue == Spec => []WheelOnce
<1>1. IInv => WheelOnce BY DEF IInv
<1> QED BY <1>1, Invariance, PTL

\* Modifiers are right until a modifier key itself changes, and key presses and
\* releases pair unless one renamed a key that was held.
THEOREM KeyboardTrue == Spec => []KeyboardMirrored
<1>1. IInv => KeyboardMirrored BY DEF IInv
<1> QED BY <1>1, Invariance, PTL
=============================================================================
