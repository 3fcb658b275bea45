---------------------------- MODULE MC_Screenshot ----------------------------
(* A screen of four pixels: black and of another size before the resolution  *)
(* is set, a window with one pixel unlike the golden picture's, the same     *)
(* window as there, and one colour, at the edge of its bucket, when the      *)
(* window has closed again.                                                  *)
EXTENDS Screenshot

Grey(v) == <<v, v, v, 255>>

Screenful(w, h, p) ==
  [width |-> w, height |-> h, pixel |-> [x \in 0 .. w * h - 1 |-> p[x + 1]]]

Window  == <<Grey(15), Grey(15), Grey(15), Grey(200)>>
Frames  == <<Screenful(2, 1, <<Grey(0), Grey(0)>>),
             Screenful(2, 2, <<Grey(31), Grey(47), Grey(15), Grey(200)>>),
             Screenful(2, 2, Window),
             Screenful(2, 2, <<Grey(240), Grey(240), Grey(240), Grey(240)>>)>>
Shown   == [f \in Picture |-> IF f = Old THEN Frames[3] ELSE Frames[f + 1]]
Wanted  == Screenful(2, 2, Window)
=============================================================================
