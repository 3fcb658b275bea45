------------------------------ MODULE MC_Startup ------------------------------
(* Three services of two programs, a broker, a launcher that starts with     *)
(* descriptor 4 open as well or with few descriptors left, and five kinds of *)
(* X server.                                                                 *)
EXTENDS Startup

OpenAtStart == {{0, 1, 2, 4}, 0 .. 7}
Programs    == <<"A", "B", "A">>
Resolutions == {<<4, 1>>, <<2, 3>>}
Pitches     == {0, 16}
Counts      == {-1, 0, 1, 2}
Updates     == {{0, 1, 2}, {3}, {0, 1, 2, 3}}
Servers ==
  {[depth |-> 32, bits |-> 32, argb |-> TRUE],
   [depth |-> 32, bits |-> 32, argb |-> FALSE],
   [depth |-> 24, bits |-> 32, argb |-> TRUE],
   [depth |-> 24, bits |-> 24, argb |-> TRUE],
   [depth |-> 16, bits |-> 16, argb |-> FALSE]}

\* The three parts act on each other only where Startup joins them.  TLC
\* explores each part against one state of the others: the launcher goes on
\* after one of the walks, and WindowServer draws while the launcher is about
\* to start the first service.
OnePartAtATime ==
  /\ wstep = "done" => /\ births = 1 /\ listed = <<>>
                       /\ \A p \in Pids : proc[p] = 1
                       /\ memstat.available = 1
  /\ sstep # "off" => /\ lstep = "log" /\ job = <<"group", 3>>
                      /\ \A n \in Fd : fds[n] # Fifo(1)
=============================================================================
