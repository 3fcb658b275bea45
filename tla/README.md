# SerenaDE in TLA+

SerenaDE runs the SerenityOS desktop (WindowServer, its services and
applications) as ordinary processes on a Linux or BSD host. The repository
holds a launcher, an X11 backend for WindowServer, a set of patches to the
SerenityOS tree, and tests. This directory is its verification project: TLA+
modules translated from that code, TLC configurations that check them on small
instances, and TLAPS proofs that hold for every value of the constants.

Paths below are relative to the repository's root; `main.cpp` is
`src/Launcher/main.cpp`. `PROJECT.json` has the line each definition models,
the hazards each property is aimed at, and for every property a mutation of the
code that breaks it.

## 1. The system

### Inventory

| Component | State | Operations | What makes it correct |
|---|---|---|---|
| Launcher session (`main.cpp` 209-278, 284-330, 420-500, 860-912, 1234-1462) | pid variables, listening sockets, pid file, broker connections | bind, fork and exec, wait for a socket, fork per broker connection, kill and reap, clean up, on_signal, exit from helpers | no child and no socket is left behind; WindowServer goes last; nobody else's process is signalled; the session ends |
| Screenshot trigger and verdict (`main.cpp` 352-418, 1397-1460; patch 0005) | the file, the self-pipe, WindowServer's capture in progress, the polls left | unlink and SIGUSR1, poll for the file, decode and measure, kill, judge; handler, drain, capture, write | a success is about this session's window; no request is forgotten; the polling ends |
| Scripted input (`main.cpp` 507-845; patch 0008) | script position, two FIFOs, WindowServer's cursor and buttons | lines to packets, non-blocking writes, device scan, draining and merging | what WindowServer sees is what the script says, in order |
| X11 event pump (`X11Context.cpp`, `X11ScreenBackend.cpp`) | connection, Xlib's queue, request buffer, self-pipe, thread | pump thread's select and write, notifier, put_rect's pump, blit, flush | events are delivered once and in order; cleared regions are repainted; the thread does not hang |
| X11 input mapper (`X11InputMap.cpp`; key names in `X11Context.cpp` 20-94) | viewport, last position, buttons | motion, button, wheel and key events, naming of keys | WindowServer's cursor, buttons, wheel, modifiers and keys are the user's |
| Audio mixer (patch 0038) | mutex, condition variable, queues, shutdown flag, PulseAudio sink | create_queue, mix loop, write, destructor | no lost wakeup, no forgotten stream, no write to a freed sink, the destructor returns |
| X11 screen (`X11Context.cpp`, `X11ScreenBackend.cpp`) | window, image and its store, framebuffer, resolution, viewport | open, mode setting, create_window and its failures, map and unmap, convert and blit, repaint | the framebuffer lies in its store; the window shows what was drawn |
| Socket takeover (`main.cpp` 212-330, 441-470, 1282-1395) | descriptor tables of the launcher and of every child | bind, log files, fork, the dup2 loop, accept and hand over | every program finds its listeners and its log; a connection ends with its service |
| sysfs shim (`main.cpp` 914-1232; patches 0073, 0074) | JSON files, written once | walk /proc, three files per process, memory figures | every process that lives through the walk is listed once, with its own figures |
| PNG comparison (`PngCompare.h`) | none | compare, dominant bucket, non-background fraction | a blank screen has no content, a picture unlike the golden one does not match |
| ConfigServer (patch 0068) | in SerenityOS | error replies | outside the repository |
| Debugger session (patches 0076, 0079) | in SerenityOS | ptrace requests one for one | outside the repository |
| Inert FileWatcher (patch 0036) | two tables nothing reads | add_watch, remove_watch | reports nothing |
| Options, WindowServer.ini | the option tables | parse | tables within bounds |
| Patches' application (`cmake/`) | the source tree | reverse check, apply | a second run changes nothing |
| Everything else | | build patches, null guards, fixtures, drivers, CI | |

### Interaction

The launcher binds every socket itself, then forks WindowServer, the services
(one process per binary, however many sockets it owns) and the applications,
and hands each its listeners. It talks to WindowServer in three ways: signals
(SIGUSR1 for a picture, SIGTERM at the end), FIFOs for scripted input, and the
screenshot file that WindowServer writes and the launcher polls. Brokers are
forked per connection from within the launcher's waits. WindowServer's X11
backend adds a second thread that only nudges the event loop; everything else
there runs on the main thread, from the event loop or from inside a frame.
AudioServer is the one other place with two threads. The stand-in for /sys/kernel
is written before the first fork, while the host's processes go on.

### What is hard

Two actors and no lock: fork() against a signal, a child before exec, pids
that are reused after a reap, another session on the same /tmp paths, a file
polled while it is written, one self-pipe byte for several requests, an event
that has left the connection but not Xlib's queue, a FIFO read late, a
destructor against a sleeping thread, descriptors that no exec closes, pids that
change hands during one walk over /proc, a repaint between a paint and its flush,
a key renamed by a modifier while it is held. Deadlines and escalation: wait_for_socket,
wait_for_file, the polls, kill_and_reap. Nothing is persisted across runs but the
screenshot file and stale sockets, both removed first.

## 2. The modules

### Session

`Session.tla` (checked through `MC_Session.tla`, proved in
`Session_proofs.tla`). `pc` is the place in `main`; `slot` holds the pid
variables, numbered in the order in which the teardown visits them; `proc` is
the kernel's process table, in which a reaped pid is free and may become
somebody else's. `fork()` and the assignment of its result are two steps
(`Fork`, then `StoreWS`, `StoreGroup`, `StoreApp`, `StoreCoApp` or
`StoreBroker`), because signals and the child run between them. A forked child
is a copy of the launcher, its handler and pid variables included
(`inherited`), until `Exec`. kill_and_reap is `Term`, then `Reaped` or
`Escalate`. `Signal` is on_signal, `HelperExits` any exit() of a helper,
`OtherSession` another launcher that removes /tmp/portal/window or wm.

What the code does not do, and the properties therefore do not say: the fork in
progress when a signal arrives survives on_signal ("best effort", main.cpp:892,
although docs/PORTING.md:514 says that the handler "kills all children"); broker
children beyond `max_broker_children` are not tracked; wait_for_socket connects to
the launcher's own listener, so it succeeds before WindowServer has accepted
anything; and during the teardown a pid shared by a group is signalled again after
its reap, when it may already belong to somebody else. wait_for_socket's connect()
itself has no deadline while the listener's backlog of five is full; the model
lets the wait time out (`NotReady`) or succeed.

### Screenshot, ShotService and PngCompare

`ShotService.tla` is what asking for a picture promises: an asking is remembered
until a picture is taken after it. `Screenshot.tla` is the code: launcher
(`Unlink`, `Signal`, `FileSeen`, `FileTimeout`, `Load`, `SleepAndAskAgain`,
`Kill`, `Judge`), WindowServer (`InstallHandler`, `Drain`, `Capture`, `Open`,
`Write`, `Crash`) and a test driver's SIGUSR1s (`Probe`). What fails there without
a word is in the model: the self-pipe (`InstallFails`, and SIGUSR1 then ends
WindowServer), the opening of the file (`OpenFails`), and a golden picture that
cannot be read (`goldenReads`), which the launcher reports as a mismatch. Pictures
have at least one pixel. A picture is identified by the screen contents it shows,
the file by its size (absent, empty, part, full) and picture.
`ImplementsShotService` maps the one to the other: a request is pending while the
pipe holds a byte or has been drained for a capture not yet made.

`PngCompare.tla` has compare_pngs and non_background_fraction as functions of
bitmaps, and the launcher's verdict applies them to the picture in the file:
`Content` gives the pixels of every frame. A fraction is in thousandths and the
rounding of the code's doubles is left out, as are the bounding box and the
largest difference, which are only printed. The code's comments speak of a
bucket's midpoint and of pixels that differ from the dominant colour; what it
compares with is `r * 17` for a bucket's index r, which runs from the lower end
of the first bucket to the upper end of the last, and PicturesAssumption asks
for the 15 that a member of the bucket may be away from it (the code's fuzz is
24). In the plain mode, without --golden or
--expect-window, a picture torn by the teardown is accepted: the code never
looks into it.

### X11Pump and EventChannel

`EventChannel.tla` is a channel: first in, first out, nothing lost, everything
acted upon. `X11Pump.tla` is the path through the connection, Xlib's queue,
the self-pipe and put_rect. Xlib is external and modelled as the code uses it:
XPending writes out and reads when its queue is empty; with `FlushReads` a
flush may read the connection too, as libX11 on libxcb does.
`X11Pump_proofs.tla` proves the safety half of the refinement.

### Coordinates, InputReplay, X11Input

`Coordinates.tla` is the scaling between pixels and the 0..0xffff of a mouse
packet with C's truncating division; both input paths extend it. `InputReplay.tla`
(with `MC_InputReplay.tla`) has one action for a line read, one for a packet
written, and WindowServer's scan, drain and merge. EAGAIN ends the launcher, as in
the code. A script may name positions off the screen (`Position`, up to 32767
pixels; with larger numbers the product of write_mouse_packet may overflow);
WindowServer keeps its cursor on the screen. What a script means is a definition
of its own: `Gestures` and `Keys` are the presses, releases and key events of its
first n lines, and `Down` the button they leave down. A mouse packet says which
button is down and never that it changed, so every mouse line begins by lifting
the button that a "press" before it left down ("a mouse move command releases a
held button", PORTING.md); the properties say that of scripts of every kind, not
of those made of whole clicks and drags. `X11Input.tla` (with `MC_X11Input.tla`)
makes an X event and handles it in one step, since `pump_events` does so; that
events arrive whole and in order is X11Pump's business. Its history variables say
what the user holds, against which WindowServer's state is compared. `KeyCodeOf`
is raw_key_for and key_code_for: a key outside the keysym table is named by the
character X gives it under the modifiers of that moment, so a key that went down
as "1" may go up as "!". `KeyboardMirrored` therefore speaks of sessions that are
`steady`, in which no modifier has changed the code of a key that was held, and
says that nothing else mispairs a key. X's keymap and SerenityOS's table of
characters are constants.

### Startup: FdTakeover, SysfsShim, X11Screen

`Startup.tla` (with `MC_Startup.tla`, proved in `Startup_proofs.tla`) joins three
modules into a session from the launcher's first line to the first pictures. The
launcher's `lstep` "sysfs" is SysfsShim's walk, and X11Screen runs in the
process that FdTakeover calls group 1, from its exec to its end.

`FdTakeover.tla` has the descriptor table of the launcher and of every child.
Listeners are numbered in the order in which they are bound (window, wm,
services, brokers); services of one binary form a group, and the child of a
group moves its listeners to 3, 4, ... and the log to 2, one dup2 per step, each
closing what was there. That this is safe is not obvious: it rests on the order
of binding, on the lowest-descriptor rule and on the launcher never closing a
listener. Nothing is close-on-exec, so every child starts with all of it. What
SOCKET_TAKEOVER says, the sorting of a group by its first member, the input
FIFOs and running out of descriptors are in the model; pids and signals are
Session's. Its assumption that descriptors 0 to 2 are open when the launcher
starts is a precondition of the code: with stdin closed a listener would be
bound to 0, and with stderr closed the children's log would be moved over it.

`SysfsShim.tla` is write_processes_json: `Lowest(Ahead, Batch)` is what readdir's
getdents returns, `ReadStat`, `ReadStatus` and `PrintEntry` the three files an
entry is put together from, while `Host` kills and creates processes, with pids
that come back. A process is a pid and an incarnation, so the model can tell an
entry put together from two of them. `Memstat` is the unsigned arithmetic over
what sysconf answers, -1 included, in words of Word values: a difference below
zero wraps, and the clamp is what prevents it.

`X11Screen.tla` is X11ScreenBackend over X11Context: a resolution is set, the
window, the image and the framebuffer are created, each of which may fail, then
WindowServer paints, flushes, repaints after Expose and may set another
resolution, upon which the window stays as it is ("fixed resolution for now"). A
setting with a stride other than the width's fails ("Unsupported pitch") after the
height and the pitch were replaced; WindowServer then asks for the safe setting,
which succeeds without doing anything, and maps what is there. So after another
resolution, or a refused stride, the framebuffer handed out may be larger than its
store. `StoreBacksFramebuffer` says that this passes: once the window's own
resolution is set with a supported stride, nothing is left of what was set before.
Two conditions on the X server limit what can be said. `Packed`: the server's
image has the code's layout, `depth / 8` bytes a pixel and rows without padding.
`Faithful`: moreover at least three bytes a pixel, masks in the order of ARGB32
(convert_rect writes B, G, R whatever they are, "non-standard masks are out of
scope"), and no shared segment (the code passes a shared segment's address to
XCreateImage and then uses XShmPutImage; what X makes of it is not modelled). A
depth of 24 with 32 bits a pixel, which is common, is not Packed: X then reads
rows longer than the store's. The comment at X11Context.cpp:152 calls the
conversion path correct everywhere; which servers exist is not in the repository,
so this is a hazard (X11Context.cpp:149) and not a finding. What such an image
shows is "garbled".

### Mixer

`Mixer.tla` splits the mixer thread's critical section where it matters,
between testing the condition and sleeping; the server thread's sections are
single steps taken while the thread does not hold the mutex. Streams are
`pending` (queued), `active` (being mixed) or dropped after their client left.

## 3. The runs

| Run | Bounds | Shows |
|---|---|---|
| `session_safety` | 5 pids, two services of one binary, a broker with one place in the table and 2 connections, a script; every event of the environment | Accounted, ReturnLeavesNothing, SignalLeavesOnlyFresh, WsTermedLast, PidsSafeUntilReaped |
| `session_liveness` | the same with a co-app, children that never die by themselves, another session | SessionEnds |
| `session_script_error` (violation) | one service, a script | exit() from a helper leaves the children running |
| `session_inherited_handler` (violation) | one service, one broker | a broker child before exec runs on_signal for its siblings |
| `screenshot` | three modes, 4 screen contents of up to 4 pixels, 3 polls, 2 driver signals, a pipe of one byte, crashes | OkMeansShown, ShotAfterRequest, VerdictReached, ImplementsShotService |
| `screenshot_read_failure` (violation) | expect-window only | a late decode failure is reported as a missing window |
| `x11pump_busy` | 3 events, connection and pipe of 2, frames of 2 rectangles | NothingLost, ExposeInFlight, Repainted, NudgerReturns, ImplementsChannel |
| `x11pump_idle` (violation) | 2 events, no frames required | the periodic nudge of the header does not exist |
| `startup` | 14 descriptors, two sets of them open at the start, three services of two programs, a broker with one connection, a co-app; 3 pids, getdents of 2, one birth, a 3-bit Word; two resolutions of up to 6 pixels, strides of 0 and 16, five kinds of X server, two colours | TakeoverRight, ConnectionClosesWithService, SysDataRight, StoreBacksFramebuffer, ShownAsDrawn |
| `input_replay` | 7 pixels, FIFOs of 3 packets, 7 scripts | GesturesArrive, NothingStaysHeld, ScriptArrives, ReplayEnds |
| `x11_input` | 5 pixels; positions on, at the edge of and far outside the screen; buttons 1, 3, 4, 5, 6; a letter, a digit, a key without a character, Shift, Ctrl and Super | ButtonsMirrored, CursorMirrored, WheelOnce, KeyboardMirrored |
| `mixer` | 3 streams, with and without a sink | NoWriteAfterFree, NoLostWakeup, StreamsKept, StreamsHeard, DestructorReturns |

Every passing run also checks its module's TypeOK.

**Why the bounds are enough.** Session: WindowServer, a group, the application and
two brokers are five children, one broker more than the table holds; five pids let
every child live at once and, with some dead, one pid be reused. Screenshot: the
window appears at the third of four contents, so pictures before, at and after it
exist, and with a one-byte pipe the second signal finds it full. The contents are
black and of another size, the window with one pixel unlike the golden one, the
window, and one colour at the edge of its bucket and unlike the golden one
everywhere; the golden can be read or not. Of pictures with four pixels one is 250
thousandths, so MaxDiff and MinContent are 250; the code's own MaxDiff is 1.
Startup: two services share a binary with a third between them, so a group's
listeners are not neighbours; starting with 0 to 7 open leaves too few
descriptors, starting with a hole at 4 puts a listener between inherited ones.
Three pids with two per getdents give two batches and room for one pid to be
reused. The resolutions, 4 by 1 and 2 by 3 pixels, differ in both numbers, so that
figures of two settings can be mixed; a stride of 16 bytes is natural for the one
and refused for the other. The servers cover both layouts, both mask orders (the
other one counts as garbled) and fewer than three bytes a pixel. X11Pump: with
three events of three kinds and two places on the connection the X server can be
held up while events sit in Xlib's queue. InputReplay: a script line writes up to
six packets to a FIFO of three, so the FIFO fills in every script; two of the
scripts press a button that a key, another press, a drag or the end of the script
overtakes, one leaves the screen on either side; the wire range is the code's
65535, because the truncations depend on it. X11Input: the coordinates include the
ends of X's 16 bits. Mixer: with three streams one can be active, one queued and
one gone. What goes beyond small sizes is what the theorems are for.

**Constraints.** Two runs restrict the product of parts that do not touch each
other. `startup` has OnePartAtATime: the launcher is followed beyond the walk
only after one of the walks, and WindowServer draws only while the launcher is
about to start the first service. The parts share no variables but in the steps
Startup joins, each property speaks of one part, and the theorems of
Startup_proofs are about `Spec` without any constraint. `x11_input` has
FewClicksWhileTyping: once a key is used the mouse has two positions and one
button; keys and mouse share the event path and nothing else, and again the
theorems need no constraint.

**Deadlock.** A session, a replay, a screenshot and a mixer end, and their
states without a successor are those ends; the runs say CHECK_DEADLOCK FALSE. So
does `startup`, whose launcher may run out of descriptors and whose bounds on
connections and births are reached.
X11Pump and X11Input never stop and are checked for deadlock.

**Symmetry** of pids is used only in runs without liveness properties.

**Fairness.**

- Session: WF(Launcher). The launcher is a scheduled process and each of its
  waits has a deadline. No child is fair: it may ignore SIGTERM for ever.
- Screenshot: WF(Launcher) for the same reason, WF(Server) for WindowServer's
  event loop. Neither the screen nor the drivers are fair.
- X11Pump: WF for both threads; SF(Wake), because the event loop polls all its
  notifiers between frames; SF(PipeEmpty), because the loop that reads the
  self-pipe 64 bytes at a time is faster than a thread that writes one byte per
  select. `SpecRendering` adds WF(BeginFrame): the taskbar clock redraws. The
  idle run does not assume it.
- InputReplay: WF(Launcher), and WF for the device scan and each FIFO's
  notifier. Merging and crashing are not fair.
- Mixer: WF for both threads, which includes that pa_simple_write returns (the
  code has no bound on it); SF(SetShutdown), because the mixer thread holds the
  mutex only for a moment between blocking writes or, without a sink, between two
  rounds of a loop that does not block, where only the mutex's own practical
  fairness justifies it. Connecting, leaving and
  ending are not fair.
- X11Input and Startup have no liveness property and no fairness.

## 4. Findings

Four runs end in a violation of what the repository says of itself.

1. `session_script_error`: the header of main.cpp says the launcher tears
   everything down; a bad script line, an unknown key, a full FIFO or a failing
   log file calls exit() and leaves WindowServer, services and sockets.
2. `session_inherited_handler`: kill_and_reap is documented to ask with SIGTERM
   before it kills; a broker child that has not reached exec answers SIGTERM
   with the inherited on_signal and SIGKILLs the services and WindowServer.
3. `screenshot_read_failure`: a comment in the poll loop leaves a decode error
   to the assertion after it; after one earlier low measurement that assertion
   reports a missing window instead.
4. `x11pump_idle`: X11Context.h says the thread nudges the main loop when there
   is data or periodically; it does not on a timeout, so an event that a flush
   has moved to Xlib's queue waits for the next frame or event.

## 5. The proofs

All theorems are checked by tlapm without omitted steps. They assume only the
named ASSUMEs of the modules, which TLC evaluates on the runs' constants:
SessionAssumption, X11PumpAssumption, CoordinatesAssumption,
InputReplayAssumption, PointerAssumption, ButtonsAssumption, WheelAssumption,
KeysAssumption, ModifiersAssumption, CodesAssumption, ScreenshotAssumption,
PicturesAssumption, FdAssumption, ServicesAssumption, ScreenAssumption and
SysfsAssumption.

- **Session_proofs** proves `IInv`, inductive, and from it TypeCorrect,
  ChildrenAccounted, ReturnIsClean, SignalMissesOnlyFresh, WindowServerLast and
  PidsSafe. None of those properties is inductive alone: whether a pid variable's
  process is gone depends on how far the teardown is, so `IInv` ties `at` to `pc`,
  says which variables are still unassigned at each place, and relates every pid
  variable to the process table.
- **X11Pump_proofs** proves TypeCorrect (with rectangles left exactly while a
  frame is drawn), Lossless, ClearedIsRepaired and RefinesChannel, the initial
  state and step simulation of EventChannel.
- **Coordinates_proofs**: RoundTrip (pixel to wire to pixel gives the pixel or its
  left neighbour, for every width up to the wire range), Lands (the same for
  positions off the screen, after constraining) and ProductsFit (the products of
  16-bit coordinates and a wire range of at most 65535 fit in 32 bits), and
  OrderKept (two positions, on the screen or off it, keep their order).
- **InputReplay_proofs**: DragOnScreen and DragStraight (a drag between pixels
  stays on the screen; any drag, on the screen or off it, is seen to go one way
  only and ends where its button is let go), TypeCorrect, and for every set of
  scripts ScriptFollowed (`[]GesturesArrive`) and ButtonsReleased
  (`[]NothingStaysHeld`). The meaning of a script is recursive, and the library's
  induction theorems cannot be used; its recursion equations (`DownUnfolds`,
  `JoinedUnfolds`) are proved instead from the least number at which the function
  would not exist or would lose its type (`Smallest`, `Climb`, `Iterates`). From
  then on only one line at a time matters. The invariant `SInv` says that what
  WindowServer has seen, what is in the FIFO and what the current line has still
  to write make up the meaning of the lines read so far. For keys that is an
  equation of sequences. A mouse packet, though, is a change only if its button
  differs from the one before it, so `Leads(c, h, q, m)` says that the queue q,
  read when c of the strokes m have been made and h is down, makes the others:
  some k counts the strokes after each packet. Three facts carry the proof: a
  line's packets lead to its gesture whatever was down (`MouseLine`), putting them
  behind the queue leads on (`LeadsOn`), and reading or merging the first packet
  leads to the same end (`LeadsTail`).
- **X11Input_proofs**: TypeCorrect, ButtonsTrue, CursorTrue, WheelTrue and
  KeyboardTrue, from one inductive invariant that links the mapper's buttons to
  those held, the viewport to the window's being mapped, and the codes that are
  down to the keys held.
- **Screenshot_proofs**: TypeCorrect, SuccessIsEarned (`[]OkMeansShown`),
  FailureIsEarned, AnswerIsCurrent (`[]ShotAfterRequest`) and RequestsRemembered,
  for pictures of every size. SuccessIsEarned has two halves. The protocol's
  invariant `Fresh` follows the picture from the file through the measurement to
  the verdict: after the unlink the file is never the old one. The measurement's
  lemmas show that a bucket's members lie within 15 of its representative, that a
  dominant bucket exists, and hence that no colour bucket fills a picture with
  content. `Answering` relates the file's frame to the frame of the last request.
  FailureIsEarned, for a golden that can be read, is the other direction: what
  stands out from a background pixel by more than the fuzz and the 15 of a bucket
  is always counted, so "no window appeared" is true of the picture it is said of,
  and it is said only after the last poll or a picture that could not be read (the
  case of finding 3). RequestsRemembered is the safety half of
  ImplementsShotService: initial states map to initial states, and every step is a
  step of ShotService or a stutter.
- **Startup_proofs**: TypeCorrect; FramebufferBacked and DrawnIsShown, from
  `ScreenInv` (how far the set-up is says which sizes are known, and the last
  setting which of the backend's figures are its own; outside dirty and exposed
  pixels, store and window agree with the framebuffer); SocketsFound and
  ConnectionsClose, from `FdInv`; SysDataSound, from `SysInv`. `FdInv` says that
  listener k is bound at or above k + 2 with nothing free below it, so that a
  child's target 3 + Rank(k) is never above the listener, nor the listener of a
  later turn; and of a half-moved child that what it has moved is in place and
  what it has yet to move is still where it was. `SysInv` says that pids ascend,
  from those listed over the one in hand to those buffered, and that every process
  alive since opendir is ahead, buffered, in hand or listed.
- **Mixer_proofs**: TypeCorrect, SinkSafe, WakeupSafe and StreamsSafe; the
  invariant adds that the sink is freed, and the destructor past its join, only
  with the thread ended.

**Only model-checked**: the liveness properties, because fairness and ENABLED are
outside the prover's reach: SessionEnds, VerdictReached, Repainted, NudgerReturns,
ScriptArrives, ReplayEnds, StreamsHeard, DestructorReturns, and the liveness
halves of ImplementsShotService and ImplementsChannel. Every invariant that a
passing run checks is also a theorem.

## 6. Not modelled

- **Options and WindowServer.ini**: text taken apart before anything runs. Each
  table is tested for room before each store. A mouse script without
  `--input-root` divides by a size of 0 (`main.cpp` 614); no check enforces the
  precondition, and InputReplay starts from open channels.
- **ConfigServer, the debugger session**: the patches replace single calls. The
  cache, the delayed write, the run loop and the breakpoints that a property
  would be about are in SerenityOS, whose sources are fetched and not in the
  repository; a model would be of a program that is not here.
- **Inert FileWatcher**: it reports nothing, so no behaviour depends on its
  tables. Its remove_watch reads an iterator after removing through it (patch
  0036:171), which is undefined, and the one thing there is to say.
- **Thread priorities, core dumps and ELF, path remapping, null guards beyond
  0005 and 0008, build patches, backend seams, SystemServerShim**: one test, one
  table or one prefix each, without state a property could be about.
- **Test applications, drivers, goldens, CI, the patches' application**: outside
  a session, or its environment, where Session's signals and Screenshot's driver
  stand for them.
- **Of the modelled parts**: the contents of cpuinfo, df and the net files and
  the name of a process (`parse_proc_stat` returns a pointer into its own frame,
  `main.cpp` 969: any string may be printed); decoding of pictures; writes into a
  framebuffer after a change of resolution; volumes and mixing of samples; Caps
  Lock. `PROJECT.json` lists each component with its reason.

## 7. Plan

Done, in this order: Session; Screenshot with ShotService; X11Pump with
EventChannel; InputReplay; Coordinates; X11Input; Mixer; Startup with
FdTakeover, X11Screen and SysfsShim; PngCompare and the verdicts of Screenshot;
the key names of X11Input.

What is left is proof about the parts that several modules share. X11Input
handles an event when it is made, which X11Pump's FIFO order justifies
informally; a module that composes the two would state it. Screenshot's and
Session's teardowns are one piece of code seen twice, once with one process and
once with all of them; that Screenshot's `Kill` is what Session's teardown does to
WindowServer could be a refinement.
