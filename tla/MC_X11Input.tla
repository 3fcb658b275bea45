----------------------------- MODULE MC_X11Input -----------------------------
(* Positions on, at the edges of, and outside a screen of five pixels, and a *)
(* letter, a digit and a key without a character.  Super has no keysym in    *)
(* the table; a letter has no character under Ctrl.                          *)
EXTENDS X11Input

ScreenEdges == {-32768, -1, 0, 3, 4, 5, 32767}

None     == [plain |-> "none", shift |-> "none", ctrl |-> "none"]
Keyboard ==
  [k \in Keys \cup Modifiers |->
     CASE k = "letter" -> [plain |-> "a", shift |-> "A", ctrl |-> "none"]
       [] k = "digit"  -> [plain |-> "1", shift |-> "!", ctrl |-> "1"]
       [] OTHER        -> None]
KeyCodes ==
  [c \in {"a", "A", "1", "!"} |->
     CASE c \in {"a", "A"} -> "Key_A" [] c = "1" -> "Key_1"
       [] OTHER -> "Key_ExclamationPoint"]

\* Keys and mouse share the event path and nothing else: once a key is used
\* the mouse is left at one place, with one button.
FewClicksWhileTyping ==
  lastKey # "none" => down \subseteq {1} /\ turned = 0 /\ lastX \in {0, 3}
=============================================================================
