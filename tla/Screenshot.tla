----------------------------- MODULE Screenshot -----------------------------
(***************************************************************************)
(* Taking the screenshot and judging it: the launcher removes the old      *)
(* file, sends SIGUSR1 and polls for a file that is not empty; a signal    *)
(* handler in WindowServer writes a byte to a self-pipe, and its event     *)
(* loop drains the pipe, captures the screen, opens (and truncates) the    *)
(* file and writes the PNG piece by piece.  Test drivers send SIGUSR1 to   *)
(* the same process while the session runs ("probes").                     *)
(*                                                                         *)
(* A picture is identified by the frame of the screen it shows; Old is the *)
(* one an earlier run left at the same path, a good one.  Content has the  *)
(* pixels of each, and PngCompare what the launcher makes of them.         *)
(***************************************************************************)
EXTENDS PngCompare

CONSTANTS
  Modes,        \* the ways the launcher is asked to judge, from Mode
  MaxFrame,     \* bound: how often the screen changes
  Content,      \* the bitmap of each frame and of the old picture
  Golden,       \* --golden's bitmap
  Tolerance,    \* --tolerance
  MaxDiff,      \* thousandths of the pixels that may differ: 1
  Fuzz,         \* 24
  MinContent,   \* --expect-window, in thousandths
  PipeSize,     \* bytes the self-pipe holds
  Polls,        \* remaining_polls' first value
  MaxProbes,    \* bound: SIGUSR1s sent by a test driver
  MayCrash      \* WindowServer may crash

Mode == {"plain", "golden", "expect"}

ASSUME ScreenshotAssumption ==
  /\ Modes \subseteq Mode
  /\ MaxFrame \in Nat /\ MaxProbes \in Nat
  /\ PipeSize \in Nat \ {0} /\ Polls \in Nat \ {0}
  /\ MayCrash \in BOOLEAN

Frame   == 0 .. MaxFrame
Old     == -1
Picture == Frame \cup {Old}

\* A pixel of the dominant bucket is at most 15 away from its representative.
ASSUME PicturesAssumption ==
  /\ IsBitmap(Golden) /\ \A f \in Picture : IsBitmap(Content[f])
  /\ Fuzz \in Nat /\ Fuzz >= 15
  /\ Tolerance \in Nat /\ MaxDiff \in Nat /\ MinContent \in Nat

\* The two verdicts on a picture.
LooksGolden == [f \in Picture |-> Matches(Content[f], Golden, Tolerance, MaxDiff)]
Shows       == [f \in Picture |-> HasContent(Content[f], Fuzz, MinContent)]

VARIABLES
  mode,      \* --golden, --expect-window or neither
  goldenReads,  \* --golden's file can be read and decoded
  lpc,       \* where the launcher is
  got,       \* got_screenshot
  fraction,  \* window_fraction: not measured, below or at least the minimum
  polls,     \* remaining_polls
  failed,    \* history: the last load_png_bitmap of the poll loop failed
  judged,    \* history: the picture last measured or compared
  result,    \* what the launcher reports
  wpc,       \* where WindowServer is
  pipe,      \* bytes in the screenshot self-pipe
  shot,      \* the picture being written ({} when none was taken)
  screen,    \* what is on the screen
  size,      \* of the file at the screenshot path
  picture,   \* the picture in that file
  linked,    \* the file WindowServer has open is the one at the path
  asking,    \* history: the screen when the launcher last sent SIGUSR1
  probes     \* SIGUSR1s a test driver has sent

findings == <<mode, goldenReads, got, fraction, polls, failed, judged, result>>
launcher == <<lpc, asking, findings>>
server   == <<wpc, shot>>
file     == <<size, picture, linked>>
vars     == <<mode, goldenReads, lpc, got, fraction, polls, failed, judged,
              result, wpc, pipe, shot, screen, size, picture, linked, asking,
              probes>>

Results == {"none", "no_shot", "read_failed", "no_window", "mismatch", "ok"}
Ready   == {"idle", "drained", "captured", "opened", "writing"}

TypeOK ==
  /\ mode \in Modes
  /\ lpc \in {"unlink", "signal", "wait", "load", "sleep", "kill", "judge",
              "done"}
  /\ goldenReads \in BOOLEAN
  /\ got \in BOOLEAN /\ failed \in BOOLEAN /\ linked \in BOOLEAN
  /\ fraction \in {"none", "low", "high"}
  /\ polls \in 0 .. Polls
  /\ result \in Results
  /\ wpc \in Ready \cup {"booting", "deaf", "dead"}
  /\ pipe \in 0 .. PipeSize
  /\ shot \in SUBSET Frame
  /\ screen \in Frame /\ asking \in Frame
  /\ size \in {"absent", "empty", "part", "full"}
  /\ picture \in Picture /\ judged \in Picture
  /\ probes \in 0 .. MaxProbes

Init ==
  /\ mode \in Modes
  /\ goldenReads \in BOOLEAN /\ (mode # "golden" => goldenReads)
  /\ lpc = "unlink"
  /\ got = FALSE /\ failed = FALSE
  /\ fraction = "none"
  /\ polls = Polls
  /\ result = "none" /\ judged = Old
  /\ wpc = "booting"
  /\ pipe = 0
  /\ shot = {}
  /\ screen = 0 /\ asking = 0
  /\ size \in {"absent", "full"} /\ picture = Old
  /\ linked = FALSE
  /\ probes = 0
-----------------------------------------------------------------------------
(* The launcher: request_screenshot, the polling loop, the verdict.        *)

\* Mutant: the stale file is not removed.
UnlinkForgotten ==
  /\ lpc = "unlink" /\ lpc' = "signal"
  /\ UNCHANGED <<findings, asking, probes, server, pipe, screen, file>>

Unlink ==
  /\ lpc = "unlink" /\ lpc' = "signal"
  /\ size' = "absent" /\ linked' = FALSE
  /\ UNCHANGED <<findings, asking, probes, server, pipe, screen, picture>>

\* SIGUSR1 arrives: the handler writes one byte if the pipe has room; without
\* a handler the signal's default action ends the process.
Usr1 ==
  \/ /\ wpc \in {"booting", "deaf"} /\ wpc' = "dead" /\ UNCHANGED pipe
  \/ /\ wpc \in Ready
     /\ pipe' = IF pipe < PipeSize THEN pipe + 1 ELSE pipe
     /\ UNCHANGED wpc
  \/ wpc = "dead" /\ UNCHANGED <<wpc, pipe>>

Signal ==
  /\ lpc = "signal" /\ lpc' = "wait"
  /\ Usr1
  /\ asking' = screen
  /\ UNCHANGED <<findings, shot, screen, file, probes>>

\* wait_for_file: stat says the file is there and not empty.
FileSeen ==
  /\ lpc = "wait" /\ size \in {"part", "full"}
  /\ got' = TRUE
  /\ lpc' = IF mode = "expect" THEN "load" ELSE "kill"
  /\ UNCHANGED <<mode, goldenReads, fraction, polls, failed, judged, result,
                 asking, server, pipe, screen, file, probes>>

\* wait_for_file: still nothing at the deadline.
FileTimeout ==
  /\ lpc = "wait" /\ size \in {"absent", "empty"}
  /\ got' = FALSE
  /\ lpc' = "kill"
  /\ UNCHANGED <<mode, goldenReads, fraction, polls, failed, judged, result,
                 asking, server, pipe, screen, file, probes>>

\* Mutant: the polls are not counted.
LoadUncounted ==
  /\ lpc = "load"
  /\ IF size # "full"
       THEN /\ failed' = TRUE /\ lpc' = "kill" /\ UNCHANGED <<fraction, judged>>
       ELSE /\ judged' = picture
            /\ fraction' = IF Shows[picture] THEN "high" ELSE "low"
            /\ lpc' = IF Shows[picture] THEN "kill" ELSE "sleep"
            /\ UNCHANGED failed
  /\ UNCHANGED <<mode, goldenReads, got, result, asking, server, pipe, screen,
                 file, polls, probes>>

\* Mutant: the polls are counted down and never compared with none.
LoadUntilShown ==
  /\ lpc = "load"
  /\ IF size # "full"
       THEN /\ failed' = TRUE /\ lpc' = "kill"
            /\ UNCHANGED <<fraction, polls, judged>>
       ELSE /\ judged' = picture
            /\ fraction' = IF Shows[picture] THEN "high" ELSE "low"
            /\ polls' = IF Shows[picture] THEN polls ELSE polls - 1
            /\ lpc' = IF Shows[picture] THEN "kill" ELSE "sleep"
            /\ UNCHANGED failed
  /\ UNCHANGED <<mode, goldenReads, got, result, asking, server, pipe, screen,
                 file, probes>>

\* --expect-window: decode the file and measure it; give up on a decode error,
\* on success, or when the polls are used up.
Load ==
  /\ lpc = "load"
  /\ IF size # "full"
       THEN /\ failed' = TRUE /\ lpc' = "kill"
            /\ UNCHANGED <<fraction, polls, judged>>
       ELSE /\ judged' = picture
            /\ fraction' = IF Shows[picture] THEN "high" ELSE "low"
            /\ polls' = IF Shows[picture] THEN polls ELSE polls - 1
            /\ lpc' = IF Shows[picture] \/ polls' = 0 THEN "kill" ELSE "sleep"
            /\ UNCHANGED failed
  /\ UNCHANGED <<mode, goldenReads, got, result, asking, server, pipe, screen,
                 file, probes>>

SleepAndAskAgain ==
  /\ lpc = "sleep" /\ lpc' = "unlink"
  /\ UNCHANGED <<findings, asking, server, pipe, screen, file, probes>>

\* The teardown ends WindowServer, wherever it is.
Kill ==
  /\ lpc = "kill" /\ lpc' = "judge"
  /\ wpc' = "dead" /\ pipe' = 0
  /\ UNCHANGED <<findings, asking, shot, screen, file, probes>>

\* A picture or a golden that cannot be read is a mismatch, too.
Verdict ==
  CASE ~got -> "no_shot"
    [] got /\ mode = "expect" /\ fraction = "none" -> "read_failed"
    [] got /\ mode = "expect" /\ fraction = "low" -> "no_window"
    [] got /\ mode = "golden" /\
         ~(size = "full" /\ goldenReads /\ LooksGolden[picture]) -> "mismatch"
    [] OTHER -> "ok"

Judge ==
  /\ lpc = "judge" /\ lpc' = "done"
  /\ result' = Verdict
  /\ judged' = IF mode = "expect" THEN judged ELSE picture
  /\ UNCHANGED <<mode, goldenReads, got, fraction, polls, failed, asking,
                 server, pipe, screen, file, probes>>

Launcher ==
  \/ Unlink \/ Signal \/ FileSeen \/ FileTimeout \/ Load \/ SleepAndAskAgain
  \/ Kill \/ Judge
-----------------------------------------------------------------------------
(* WindowServer, its screen, and the drivers.                              *)

InstallHandler ==
  /\ wpc = "booting" /\ wpc' = "idle"
  /\ UNCHANGED <<launcher, pipe, shot, screen, file, probes>>

\* There is no pipe, and no handler: WindowServer goes on without them.
InstallFails ==
  /\ wpc = "booting" /\ wpc' = "deaf"
  /\ UNCHANGED <<launcher, pipe, shot, screen, file, probes>>

\* Mutant: the notifier's callback does not drain the pipe.
DrainNothing ==
  /\ wpc = "idle" /\ pipe > 0 /\ wpc' = "drained"
  /\ UNCHANGED <<launcher, pipe, shot, screen, file, probes>>

Drain ==
  /\ wpc = "idle" /\ pipe > 0 /\ wpc' = "drained"
  /\ pipe' = 0
  /\ UNCHANGED <<launcher, shot, screen, file, probes>>

Capture ==
  /\ wpc = "drained" /\ wpc' = "captured"
  /\ shot' = {screen}
  /\ UNCHANGED <<launcher, pipe, screen, file, probes>>

\* Mutant: the pipe is drained again after the capture.
OpenAndDrain ==
  /\ wpc = "captured" /\ wpc' = "opened"
  /\ size' = "empty" /\ linked' = TRUE
  /\ picture' \in shot /\ pipe' = 0
  /\ UNCHANGED <<launcher, shot, screen, probes>>

\* OpenMode::Truncate: an existing file is emptied, a missing one is created.
Open ==
  /\ wpc = "captured" /\ wpc' = "opened"
  /\ size' = "empty" /\ linked' = TRUE
  /\ picture' \in shot
  /\ UNCHANGED <<launcher, pipe, shot, screen, probes>>

\* The file cannot be opened: the capture is dropped.
OpenFails ==
  /\ wpc = "captured" /\ wpc' = "idle"
  /\ UNCHANGED <<launcher, pipe, shot, screen, file, probes>>

\* write_some's loop; a file that was unlinked in the meantime is written too.
Write ==
  /\ \/ wpc = "opened" /\ wpc' = "writing"
     \/ wpc = "writing" /\ wpc' = "idle"
  /\ size' = IF linked THEN IF wpc = "opened" THEN "part" ELSE "full" ELSE size
  /\ UNCHANGED <<launcher, pipe, shot, screen, picture, linked, probes>>

Crash ==
  /\ MayCrash /\ wpc # "dead" /\ wpc' = "dead" /\ pipe' = 0
  /\ UNCHANGED <<launcher, shot, screen, file, probes>>

Server ==
  \/ InstallHandler \/ InstallFails \/ Drain \/ Capture \/ Open \/ OpenFails
  \/ Write

Paint ==
  /\ wpc \in Ready \cup {"deaf"} /\ screen < MaxFrame /\ screen' = screen + 1
  /\ UNCHANGED <<launcher, pipe, server, file, probes>>

\* A test driver's SIGUSR1, in a session it knows the pid of.
Probe ==
  /\ probes < MaxProbes /\ lpc # "done"
  /\ probes' = probes + 1
  /\ Usr1
  /\ UNCHANGED <<launcher, shot, screen, file>>

Next == Launcher \/ Server \/ Crash \/ Paint \/ Probe

\* The launcher's waits end; WindowServer's event loop keeps running.
Spec == Init /\ [][Next]_vars /\ WF_vars(Launcher) /\ WF_vars(Server)
-----------------------------------------------------------------------------
\* A success is about a picture taken in this session, never the one an earlier
\* run left, and whatever replaces it between its measuring and the verdict.
\* With --golden it has the golden's size and nearly all of its pixels are near
\* the golden's; with --expect-window no colour (bucket) fills the screen but
\* for less than the minimum, so that a blank screen never passes, whatever
\* its colour and wherever in its bucket that colour is.
OkMeansShown ==
  result = "ok" =>
    LET bmp   == Content[judged]
        total == bmp.width * bmp.height
    IN
    /\ judged # Old
    /\ mode = "golden" =>
         /\ bmp.width = Golden.width /\ bmp.height = Golden.height
         /\ 1000 * Cardinality({x \in Places(bmp) : \A c \in 1 .. 4 :
               bmp.pixel[x][c] - Golden.pixel[x][c] \in -Tolerance .. Tolerance})
              >= (1000 - MaxDiff) * total
    /\ mode = "expect" => \A b \in Buckets(bmp) :
         1000 * Cardinality(Members(bmp, b)) <= (1000 - MinContent) * total

\* When only the launcher asks, the picture it reports on was captured after
\* its last request: an answer to an earlier request never stands in for it.
ShotAfterRequest ==
  probes = 0 /\ result \notin {"none", "no_shot"} => picture >= asking

\* The launcher always comes to a verdict: the number of polls is bounded even
\* if the window never appears and every screenshot succeeds.
VerdictReached == <>(lpc = "done")

\* The trigger implements ShotService: no SIGUSR1 is forgotten, although the
\* pipe may be full and several requests share one drain.
Promise == INSTANCE ShotService
             WITH asked <- wpc # "dead" /\ (pipe > 0 \/ wpc = "drained"),
                  gone  <- wpc = "dead"
ImplementsShotService == Promise!Spec
-----------------------------------------------------------------------------
(* What a comment says of the program, and the code does not do.           *)

\* "let the assertion below report the read failure" (main.cpp's poll loop).
ReadFailureReported == result # "none" /\ failed => result = "read_failed"
=============================================================================
