----------------------------- MODULE InputReplay -----------------------------
(***************************************************************************)
(* Replaying a script (replay_script and below): every line becomes a few  *)
(* mouse packets or key events, written one by one to two FIFOs that never *)
(* block; WindowServer reads each FIFO from its event loop whenever it     *)
(* gets there.                                                             *)
(*                                                                         *)
(* One axis is modelled, the other is treated alike.  A position is in     *)
(* pixels in the script, on the screen or off it, and in WindowServer,     *)
(* which keeps its cursor on the screen; a packet carries it scaled, a     *)
(* screen to 0 .. Wire.  Buttons are held or not ("none"); a packet always *)
(* carries the complete button state.                                      *)
(***************************************************************************)
EXTENDS Coordinates, Sequences

CONSTANTS
  Key,        \* the keys scripts press
  Scripts,    \* the scripts to replay, sequences of Command
  FifoSize    \* packets a FIFO holds

Button == {"left", "right"}

\* What a script may name (bound: with larger numbers the products of 32 bits
\* may overflow, which nothing in the code prevents).
Reach    == 32767
Position == -Reach .. Reach

Command ==
       [op : {"move", "release"}, x : Position]
  \cup [op : {"click", "press"}, x : Position, button : Button]
  \cup [op : {"drag"}, x : Position, to : Position, steps : Int]
  \cup [op : {"key"}, key : Key]
  \cup [op : {"delay", "bad"}]

ASSUME InputReplayAssumption ==
  /\ FifoSize \in Nat \ {0}
  /\ Scripts \subseteq Seq(Command)

VARIABLES
  script,     \* the script being replayed
  line,       \* lines read so far
  todo,       \* packets of the current line that are still to be written
  status,     \* the launcher is replaying, is through, or has left by exit()
  mouse,      \* the mouse FIFO
  keyboard,   \* the keyboard FIFO
  ws,         \* WindowServer has scanned its input devices, or has died
  cursor,     \* WindowServer's cursor, in pixels
  held,       \* the button WindowServer holds for pressed, or "none"
  changes,    \* history: presses and releases WindowServer saw, and where
  typed       \* history: key events WindowServer saw

launcher == <<script, line, todo, status>>
server   == <<cursor, held, changes, typed>>
vars     == <<script, line, todo, status, mouse, keyboard, ws, cursor,
              held, changes, typed>>
-----------------------------------------------------------------------------
(* What the lines of a script write.                                       *)

Move(x, b)      == [x |-> ToWire(x), buttons |-> b]
KeyEvent(k, p)  == [key |-> k, press |-> p]
IsMouse(packet) == "x" \in DOMAIN packet

\* Mutant: the packets between the ends of a drag carry no button.
DragUnheld(c) ==
  LET n == IF c.steps < 2 THEN 10 ELSE c.steps IN
  <<Move(c.x, "none"), Move(c.x, "left")>>
    \o [i \in 1 .. n |-> Move(c.x + Quot((c.to - c.x) * i, n), "none")]
    \o <<Move(c.to, "none")>>

Drag(c) ==
  LET n == IF c.steps < 2 THEN 10 ELSE c.steps IN
  <<Move(c.x, "none"), Move(c.x, "left")>>
    \o [i \in 1 .. n |-> Move(c.x + Quot((c.to - c.x) * i, n), "left")]
    \o <<Move(c.to, "none")>>

Packets(c) ==
  CASE c.op \in {"move", "release"} -> <<Move(c.x, "none")>>
    [] c.op = "press" -> <<Move(c.x, "none"), Move(c.x, c.button)>>
    [] c.op = "click" ->
         <<Move(c.x, "none"), Move(c.x, c.button), Move(c.x, "none")>>
    [] c.op = "drag"  -> Drag(c)
    [] c.op = "key"   -> <<KeyEvent(c.key, TRUE), KeyEvent(c.key, FALSE)>>
    [] OTHER          -> <<>>
-----------------------------------------------------------------------------
TypeOK ==
  /\ script \in Scripts /\ line \in 0 .. Len(script)
  /\ status \in {"replaying", "done", "exit"}
  /\ Len(mouse) \in 0 .. FifoSize /\ Len(keyboard) \in 0 .. FifoSize
  /\ ws \in {"booting", "open", "dead"}
  /\ cursor \in Pixel
  /\ held \in Button \cup {"none"}

Init ==
  /\ script \in Scripts /\ line = 0 /\ todo = <<>> /\ status = "replaying"
  /\ mouse = <<>> /\ keyboard = <<>> /\ ws = "booting"
  /\ cursor = 0 /\ held = "none" /\ changes = <<>> /\ typed = <<>>

\* Mutant: while (!feof(file)), which handles the last line once more when
\* there is none left to read.
ReadPastEnd ==
  /\ status = "replaying" /\ todo = <<>> /\ script # <<>>
  /\ line <= Len(script)
  /\ line' = line + 1
  /\ LET c == script[IF line < Len(script) THEN line + 1 ELSE line] IN
     IF c.op = "bad" THEN status' = "exit" /\ UNCHANGED todo
                     ELSE todo' = Packets(c) /\ UNCHANGED status
  /\ UNCHANGED <<script, mouse, keyboard, ws, server>>

\* The next line, unless a bad one ends the launcher.
ReadLine ==
  /\ status = "replaying" /\ todo = <<>> /\ line < Len(script)
  /\ line' = line + 1
  /\ IF script[line + 1].op = "bad"
       THEN status' = "exit" /\ UNCHANGED todo
       ELSE todo' = Packets(script[line + 1]) /\ UNCHANGED status
  /\ UNCHANGED <<script, mouse, keyboard, ws, server>>

\* Mutant: a write to a full FIFO waits.
WriteWaits ==
  /\ status = "replaying" /\ todo # <<>> /\ todo' = Tail(todo)
  /\ \/ /\ IsMouse(Head(todo)) /\ Len(mouse) < FifoSize
        /\ mouse' = Append(mouse, Head(todo)) /\ UNCHANGED keyboard
     \/ /\ ~IsMouse(Head(todo)) /\ Len(keyboard) < FifoSize
        /\ keyboard' = Append(keyboard, Head(todo)) /\ UNCHANGED mouse
  /\ UNCHANGED <<script, line, status, ws, server>>

\* Mutant: EAGAIN is ignored.
WriteOrDrop ==
  /\ status = "replaying" /\ todo # <<>> /\ todo' = Tail(todo)
  /\ \/ /\ IsMouse(Head(todo)) /\ UNCHANGED keyboard
        /\ mouse' = IF Len(mouse) < FifoSize
                      THEN Append(mouse, Head(todo)) ELSE mouse
     \/ /\ ~IsMouse(Head(todo)) /\ UNCHANGED mouse
        /\ keyboard' = IF Len(keyboard) < FifoSize
                         THEN Append(keyboard, Head(todo)) ELSE keyboard
  /\ UNCHANGED <<script, line, status, ws, server>>

\* One packet; a full FIFO (EAGAIN) ends the launcher.
Write ==
  /\ status = "replaying" /\ todo # <<>>
  /\ \/ /\ IsMouse(Head(todo)) /\ Len(mouse) < FifoSize
        /\ mouse' = Append(mouse, Head(todo)) /\ todo' = Tail(todo)
        /\ UNCHANGED <<keyboard, status>>
     \/ /\ ~IsMouse(Head(todo)) /\ Len(keyboard) < FifoSize
        /\ keyboard' = Append(keyboard, Head(todo)) /\ todo' = Tail(todo)
        /\ UNCHANGED <<mouse, status>>
     \/ /\ Len(IF IsMouse(Head(todo)) THEN mouse ELSE keyboard) = FifoSize
        /\ status' = "exit" /\ UNCHANGED <<todo, mouse, keyboard>>
  /\ UNCHANGED <<script, line, ws, server>>

EndOfScript ==
  /\ status = "replaying" /\ todo = <<>> /\ line = Len(script)
  /\ status' = "done"
  /\ UNCHANGED <<script, line, todo, mouse, keyboard, ws, server>>

\* The launcher made the FIFOs before it started WindowServer, which opens
\* them in its device scan; what was written before is still in them.
OpenDevices ==
  /\ ws = "booting" /\ ws' = "open"
  /\ UNCHANGED <<launcher, mouse, keyboard, server>>

\* WindowServer acts on a packet.
DrainMouse ==
  /\ ws = "open" /\ mouse # <<>>
  /\ LET p  == Head(mouse)
         at == Constrain(FromWire(p.x))
     IN  /\ cursor' = at /\ held' = p.buttons
         /\ changes' = IF p.buttons = held THEN changes
                       ELSE Append(changes, [x |-> at, buttons |-> p.buttons])
  /\ mouse' = Tail(mouse)
  /\ UNCHANGED <<launcher, keyboard, ws, typed>>

\* A packet that changes no button is merged into the one read after it.
MergeMove ==
  /\ ws = "open" /\ Len(mouse) > 1
  /\ Head(mouse).buttons = held
  /\ mouse' = Tail(mouse)
  /\ UNCHANGED <<launcher, keyboard, ws, server>>

DrainKeyboard ==
  /\ ws = "open" /\ keyboard # <<>>
  /\ typed' = Append(typed, Head(keyboard)) /\ keyboard' = Tail(keyboard)
  /\ UNCHANGED <<launcher, mouse, ws, cursor, held, changes>>

\* The FIFOs outlive their reader: the launcher holds both ends.
Crash ==
  /\ ws # "dead" /\ ws' = "dead"
  /\ UNCHANGED <<launcher, mouse, keyboard, server>>

Launcher == ReadLine \/ Write \/ EndOfScript
Server   == OpenDevices \/ DrainMouse \/ MergeMove \/ DrainKeyboard

Next == Launcher \/ Server \/ Crash

\* The launcher runs; WindowServer's event loop serves both FIFOs.
Spec ==
  /\ Init /\ [][Next]_vars
  /\ WF_vars(Launcher) /\ WF_vars(OpenDevices)
  /\ WF_vars(DrainMouse) /\ WF_vars(DrainKeyboard)
-----------------------------------------------------------------------------
(* What a script means.  Every mouse line lifts a button that an earlier   *)
(* press left down, before it does anything else: even a move says "no     *)
(* button" (PORTING.md).                                                   *)

At(pos, b)    == [x |-> pos, buttons |-> b]
IsMouseLine(c) == c.op \notin {"key", "delay", "bad"}

Gesture(c, down) ==
  (IF IsMouseLine(c) /\ down # "none" THEN <<At(c.x, "none")>> ELSE <<>>)
    \o CASE c.op = "click" -> <<At(c.x, c.button), At(c.x, "none")>>
         [] c.op = "press" -> <<At(c.x, c.button)>>
         [] c.op = "drag"  -> <<At(c.x, "left"), At(c.to, "none")>>
         [] OTHER -> <<>>

Strokes(c) ==
  IF c.op = "key" THEN <<KeyEvent(c.key, TRUE), KeyEvent(c.key, FALSE)>>
                  ELSE <<>>

\* The first n parts one after the other.
Joined(parts) ==
  LET j[n \in 0 .. Len(parts)] ==
        IF n = 0 THEN <<>> ELSE j[n - 1] \o parts[n]
  IN  j

\* After n lines of the script s: the button that is down, ...
Down(s) ==
  LET d[n \in 0 .. Len(s)] ==
        IF n = 0 THEN "none"
        ELSE IF ~IsMouseLine(s[n]) THEN d[n - 1]
        ELSE IF s[n].op = "press" THEN s[n].button ELSE "none"
  IN  d

\* ... the presses and releases so far, ...
Gestures(s) == Joined([n \in 1 .. Len(s) |-> Gesture(s[n], Down(s)[n - 1])])

\* ... and the key events.
Keys(s) == Joined([n \in 1 .. Len(s) |-> Strokes(s[n])])

\* Where a position of the script may arrive: at the pixel of the screen that
\* is nearest to it or, as both conversions truncate, one short of that.
Near(a, b) == a \in {Constrain(b) - 1, Constrain(b)}

\* A change that WindowServer saw is one that the script means.
Is(change, meant) ==
  change.buttons = meant.buttons /\ Near(change.x, meant.x)

\* The presses and releases WindowServer sees are those of the lines read so
\* far, in order, each at its place on the screen or one pixel short of it:
\* reading the FIFO late, and merging moves, loses none and invents none.
ButtonsArrive ==
  LET meant == Gestures(script)[line] IN
  /\ Len(changes) <= Len(meant)
  /\ \A i \in 1 .. Len(changes) : Is(changes[i], meant[i])
  /\ status = "done" /\ mouse = <<>> => Len(changes) = Len(meant)

\* So do the keys.
KeysArrive ==
  LET meant == Keys(script)[line] IN
  /\ Len(typed) <= Len(meant)
  /\ \A i \in 1 .. Len(typed) : typed[i] = meant[i]
  /\ status = "done" /\ keyboard = <<>> => typed = meant

\* Nothing of a script is lost, invented, repeated or reordered.
GesturesArrive == ButtonsArrive /\ KeysArrive

\* Every gesture and key of a script that was replayed to its end arrives, if
\* WindowServer lives.
ScriptArrives ==
  status = "done" ~>
    \/ ws = "dead"
    \/ /\ Len(changes) = Len(Gestures(script)[Len(script)])
       /\ typed = Keys(script)[Len(script)]

\* A finished script leaves no button held once WindowServer has caught up,
\* but one that its last mouse line pressed.
NothingStaysHeld ==
  status = "done" /\ mouse = <<>> => held = Down(script)[Len(script)]

\* Replaying ends: nothing in it waits for WindowServer, which may be dead.
ReplayEnds == <>(status # "replaying")
=============================================================================
