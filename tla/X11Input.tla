------------------------------- MODULE X11Input -------------------------------
(***************************************************************************)
(* From X events to WindowServer's mouse and keyboard.  pump_events reads  *)
(* the events of the window in the order the X server made them (X11Pump)  *)
(* and hands each to the mapper, on_raw, before it reads the next one; so  *)
(* here an event is made and handled in one step.                          *)
(*                                                                         *)
(* The variables from down on are history: what the events say of what the *)
(* user does, against which the properties hold WindowServer.              *)
(***************************************************************************)
EXTENDS Coordinates

CONSTANTS
  PointerX,     \* X coordinates of the events; a grab reports them outside
                \* the window too
  Buttons,      \* the X buttons used, out of 1 .. 9
  Keys,         \* keys that are no modifiers
  Modifiers,    \* modifier keys
  Chars,        \* of each key, the printable character XLookupString makes of
                \* it alone, with Shift and with Ctrl, or "none"
  Code,         \* of each character, its key code (code_point_to_key_code)
  Listed,       \* the keys whose keysym the mapper knows
  MaxWheel      \* bound: wheel notches the runs count, up or down

\* X carries coordinates in 16 bits.
ASSUME PointerAssumption ==
  \A x \in PointerX : x \in Int /\ -32768 <= x /\ x <= 32767

ASSUME ButtonsAssumption == Buttons \subseteq 1 .. 9

ASSUME WheelAssumption == MaxWheel \in Nat

ASSUME KeysAssumption == \A k \in Keys : k \notin Modifiers

ASSUME ModifiersAssumption ==
  Modifiers \subseteq {"shift", "ctrl", "alt", "super"}

\* The character X makes of a key while these modifiers are held.  Alt and
\* Super make no difference; Caps Lock is left out.
Char(k, state) ==
  IF "ctrl" \in state THEN Chars[k].ctrl
  ELSE IF "shift" \in state THEN Chars[k].shift ELSE Chars[k].plain

\* A key is known by its character or, without one, by its keysym.
raw_key_for(k, state) ==
  IF Char(k, state) # "none" THEN [raw |-> "char", of |-> Char(k, state)]
  ELSE IF k \in Listed THEN [raw |-> "key", of |-> k]
  ELSE [raw |-> "no key", of |-> "none"]

key_code_for(key) ==
  CASE key.raw = "char" -> Code[key.of]
    [] key.raw = "key"  -> key.of
    [] OTHER            -> "invalid"

KeyCodeOf(k, state) == key_code_for(raw_key_for(k, state))

\* Two keys have different codes, and a modifier has the same one always.
ASSUME CodesAssumption ==
  /\ \A state \in SUBSET Modifiers : \A k, h \in Keys \cup Modifiers :
       KeyCodeOf(k, state) = KeyCodeOf(h, state) =>
         k = h \/ KeyCodeOf(k, state) = "invalid"
  /\ \A k \in Modifiers : \A a, b \in SUBSET Modifiers : Char(k, a) = Char(k, b)

VARIABLES
  win,        \* create_window: "none", "sized" (viewport set) or "mapped"
  viewport,   \* the mapper's s_width, 0 before x11_set_viewport
  lastX,      \* the mapper's s_last_x
  buttons,    \* the mapper's s_buttons
  ws,         \* WindowServer: cursor, buttons, sum of the wheel, modifiers
  down,       \* the buttons the user holds
  pressed,    \* the keys the user holds
  turned,     \* the sum of the notches the user turned
  told,       \* the place of the last event that moves the cursor, if any
  lastKey,    \* the key of the last key event, or "none"
  codes,      \* the key codes WindowServer was told are down
  steady      \* no modifier has changed the code of a key that was held

mapper   == <<viewport, lastX, buttons>>
keyboard == <<pressed, lastKey, codes, steady>>
history  == <<down, turned, told, keyboard>>
vars     == <<win, viewport, lastX, buttons, ws, down, pressed, turned, told,
              lastKey, codes, steady>>
-----------------------------------------------------------------------------
(* The mapper's tables.                                                    *)

Wheel == {4, 5}
Known == {1, 2, 3, 8, 9}
Bits  == {"primary", "middle", "secondary", "backward", "forward"}
Notch(b) == IF b = 4 THEN 1 ELSE -1

Bit(b) ==
  CASE b = 1 -> "primary"   [] b = 2 -> "middle"  [] b = 3 -> "secondary"
    [] b = 8 -> "backward"  [] b = 9 -> "forward" [] OTHER -> "none"

Press(b, held) == held \cup {Bit(b)}

Release(b, held) == held \ {Bit(b)}

\* Mutant: Mod4 is not looked at.
ModifiersWithoutSuper(state) == state \cap {"shift", "ctrl", "alt"}

modifiers_from_state(state) == state \cap {"shift", "ctrl", "alt", "super"}
-----------------------------------------------------------------------------
(* What the mapper does to WindowServer.                                   *)

\* The position, all buttons and the wheel; nothing without a viewport.
deliver_mouse(x, held, z) ==
  IF viewport <= 0 THEN ws
  ELSE [cursor |-> Constrain(FromWire(ToWire(x))), buttons |-> held,
        wheel |-> ws.wheel + z, mods |-> ws.mods]

deliver_key(state) == [ws EXCEPT !.mods = modifiers_from_state(state)]
-----------------------------------------------------------------------------
HeldMods == pressed \cap Modifiers

TypeOK ==
  /\ win \in {"none", "sized", "mapped"}
  /\ viewport \in {0, Width}
  /\ lastX \in PointerX \cup {0}
  /\ buttons \subseteq Bits
  /\ ws.cursor \in Pixel /\ ws.buttons \subseteq Bits /\ ws.wheel \in Int
  /\ ws.mods \subseteq {"shift", "ctrl", "alt", "super"}
  /\ down \subseteq Buttons
  /\ pressed \subseteq Keys \cup Modifiers
  /\ turned \in -MaxWheel .. MaxWheel
  /\ told \subseteq PointerX
  /\ steady \in BOOLEAN

Init ==
  /\ win = "none" /\ viewport = 0 /\ lastX = 0 /\ buttons = {}
  /\ ws = [cursor |-> Width \div 2, buttons |-> {}, wheel |-> 0,
           mods |-> {}]
  /\ down = {} /\ pressed = {} /\ turned = 0
  /\ told = {} /\ lastKey = "none" /\ codes = {} /\ steady = TRUE

\* The end of create_window: the mapper learns the size, the window appears
\* (and its events begin).
SetViewport ==
  /\ win = "none" /\ win' = "sized" /\ viewport' = Width
  /\ UNCHANGED <<lastX, buttons, ws, history>>

\* Mutant: the window appears before the mapper knows the size.
MapEarly ==
  /\ win \in {"none", "sized"} /\ win' = "mapped"
  /\ UNCHANGED <<mapper, ws, history>>

MapWindow ==
  /\ win = "sized" /\ win' = "mapped"
  /\ UNCHANGED <<mapper, ws, history>>

Motion(x) ==
  /\ win = "mapped"
  /\ lastX' = x /\ ws' = deliver_mouse(x, buttons, 0)
  /\ told' = {x}
  /\ UNCHANGED <<win, viewport, buttons, down, turned, keyboard>>

\* Mutant: the place of a button event is not taken over.
ButtonDownStale(b, x) ==
  /\ win = "mapped" /\ b \in Known \ down
  /\ buttons' = Press(b, buttons) /\ ws' = deliver_mouse(lastX, buttons', 0)
  /\ down' = down \cup {b} /\ told' = {x}
  /\ UNCHANGED <<win, viewport, lastX, turned, keyboard>>

ButtonDown(b, x) ==
  /\ win = "mapped" /\ b \in Known \ down
  /\ lastX' = x
  /\ buttons' = Press(b, buttons) /\ ws' = deliver_mouse(x, buttons', 0)
  /\ down' = down \cup {b} /\ told' = {x}
  /\ UNCHANGED <<win, viewport, turned, keyboard>>

ButtonUp(b, x) ==
  /\ win = "mapped" /\ b \in Known \cap down
  /\ lastX' = x
  /\ buttons' = Release(b, buttons) /\ ws' = deliver_mouse(x, buttons', 0)
  /\ down' = down \ {b} /\ told' = {x}
  /\ UNCHANGED <<win, viewport, turned, keyboard>>

\* Mutant: buttons 4 and 5 are kept as buttons, too.
WheelHeld(b, x) ==
  /\ win = "mapped" /\ b \in Wheel \ down
  /\ turned + Notch(b) \in -MaxWheel .. MaxWheel
  /\ lastX' = x /\ ws' = deliver_mouse(x, buttons, Notch(b))
  /\ buttons' = Press(b, buttons)
  /\ down' = down \cup {b} /\ turned' = turned + Notch(b)
  /\ told' = {x}
  /\ UNCHANGED <<win, viewport, keyboard>>

\* X turns a notch of the wheel into a press and a release of button 4 or 5.
WheelDown(b, x) ==
  /\ win = "mapped" /\ b \in Wheel \ down
  /\ turned + Notch(b) \in -MaxWheel .. MaxWheel
  /\ lastX' = x /\ ws' = deliver_mouse(x, buttons, Notch(b))
  /\ down' = down \cup {b} /\ turned' = turned + Notch(b)
  /\ told' = {x}
  /\ UNCHANGED <<win, viewport, buttons, keyboard>>

\* Mutant: the release of button 4 or 5 turns the wheel too.
WheelUpTurns(b, x) ==
  /\ win = "mapped" /\ b \in Wheel \cap down
  /\ lastX' = x /\ ws' = deliver_mouse(x, buttons, Notch(b))
  /\ down' = down \ {b} /\ told' = {x}
  /\ UNCHANGED <<win, viewport, buttons, turned, keyboard>>

WheelUp(b, x) ==
  /\ win = "mapped" /\ b \in Wheel \cap down
  /\ lastX' = x /\ ws' = deliver_mouse(x, buttons, 0)
  /\ down' = down \ {b} /\ told' = {x}
  /\ UNCHANGED <<win, viewport, buttons, turned, keyboard>>

\* A button without a bit moves lastX and sends nothing.
OtherButton(b, x) ==
  /\ win = "mapped" /\ b \notin Known \cup Wheel
  /\ lastX' = x
  /\ down' = IF b \in down THEN down \ {b} ELSE down \cup {b}
  /\ UNCHANGED <<win, viewport, buttons, ws, told, turned, keyboard>>

\* Mutant: the window does not select KeyReleaseMask.
KeyPressOnly(k) ==
  /\ win = "mapped"
  /\ ws' = IF k \in pressed THEN ws ELSE deliver_key(HeldMods)
  /\ pressed' = IF k \in pressed THEN pressed \ {k} ELSE pressed \cup {k}
  /\ codes' = IF k \in pressed THEN codes
              ELSE codes \cup ({KeyCodeOf(k, HeldMods)} \ {"invalid"})
  /\ steady' = (steady /\ \A h \in pressed \ {k} :
                  KeyCodeOf(h, HeldMods) = KeyCodeOf(h, HeldMods'))
  /\ lastKey' = k
  /\ UNCHANGED <<win, mapper, told, down, turned>>

\* The state of a key event is that before the event.
Key(k) ==
  /\ win = "mapped"
  /\ ws' = deliver_key(HeldMods)
  /\ pressed' = IF k \in pressed THEN pressed \ {k} ELSE pressed \cup {k}
  /\ LET code == {KeyCodeOf(k, HeldMods)} \ {"invalid"} IN
       codes' = IF k \in pressed THEN codes \ code ELSE codes \cup code
  /\ steady' = (steady /\ \A h \in pressed \ {k} :
                  KeyCodeOf(h, HeldMods) = KeyCodeOf(h, HeldMods'))
  /\ lastKey' = k
  /\ UNCHANGED <<win, mapper, told, down, turned>>

Pointer(x) ==
  \/ Motion(x)
  \/ \E b \in Buttons : \/ ButtonDown(b, x) \/ ButtonUp(b, x)
                        \/ WheelDown(b, x)  \/ WheelUp(b, x)
                        \/ OtherButton(b, x)

Next ==
  \/ SetViewport \/ MapWindow
  \/ \E x \in PointerX : Pointer(x)
  \/ \E k \in Keys \cup Modifiers : Key(k)

Spec == Init /\ [][Next]_vars
-----------------------------------------------------------------------------
(* WindowServer is never told less than everything, and nothing twice.     *)

\* After every event WindowServer holds exactly the buttons the user holds,
\* whatever wheel notches, unknown buttons and moves come between; so no press
\* or release of an earlier event was dropped for want of a viewport.
ButtonsMirrored == ws.buttons = {Bit(b) : b \in down \cap Known}

\* The cursor is where the last mouse event that concerns it took place, or
\* one pixel left of it; outside the window, at the nearer edge.
CursorMirrored ==
  \A x \in told : ws.cursor \in {Constrain(x) - 1, Constrain(x)}

\* Each notch scrolls once, though X reports it as a press and a release.
WheelOnce == ws.wheel = turned

\* What WindowServer knows of the keyboard.  Its modifiers, which it also
\* attaches to mouse events, are those held, until a modifier key itself is
\* pressed or released: that event carries the state before it.  And every
\* key is released under the code it was pressed with, so that none stays down
\* and none goes up that the user holds, unless Shift or Ctrl changed, while
\* a key was held, what that key is called.
KeyboardMirrored ==
  /\ lastKey \notin Modifiers => ws.mods = HeldMods
  /\ steady =>
       codes = {KeyCodeOf(k, HeldMods) : k \in pressed} \ {"invalid"}
=============================================================================
