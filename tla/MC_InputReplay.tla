--------------------------- MODULE MC_InputReplay ---------------------------
(* Scripts for a screen of a few pixels: whole gestures, one that fails,   *)
(* presses that another line or the end of the script overtakes, and       *)
(* positions off the screen.                                               *)
EXTENDS InputReplay

MCScripts == {
  << [op |-> "click", x |-> 3, button |-> "left"],
     [op |-> "key", key |-> "A"],
     [op |-> "click", x |-> 5, button |-> "right"] >>,
  << [op |-> "drag", x |-> 1, to |-> 6, steps |-> 3],
     [op |-> "key", key |-> "A"], [op |-> "key", key |-> "B"] >>,
  << [op |-> "move", x |-> 2], [op |-> "delay"],
     [op |-> "press", x |-> 6, button |-> "left"],
     [op |-> "release", x |-> 2] >>,
  << [op |-> "drag", x |-> 6, to |-> 0, steps |-> 1],
     [op |-> "bad"],
     [op |-> "click", x |-> 1, button |-> "left"] >>,
  << [op |-> "release", x |-> 4],
     [op |-> "press", x |-> 1, button |-> "left"],
     [op |-> "key", key |-> "B"],
     [op |-> "press", x |-> 2, button |-> "right"],
     [op |-> "move", x |-> 5] >>,
  << [op |-> "press", x |-> 6, button |-> "left"],
     [op |-> "drag", x |-> 5, to |-> 3, steps |-> 2],
     [op |-> "press", x |-> 0, button |-> "right"] >>,
  << [op |-> "drag", x |-> 4, to |-> -9, steps |-> 2],
     [op |-> "click", x |-> 32767, button |-> "left"] >> }
=============================================================================
