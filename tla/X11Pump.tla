------------------------------- MODULE X11Pump -------------------------------
(***************************************************************************)
(* How X events reach WindowServer (X11Context.cpp): the X server writes   *)
(* to the connection, Xlib reads it into a queue in user space, the main   *)
(* thread empties that queue (pump_events) before every rectangle it draws *)
(* and whenever a byte arrives on the self-pipe, which a second thread     *)
(* writes when select() reports the connection readable.                   *)
(*                                                                         *)
(* Xlib is modelled as X11Context uses it: XPending looks at the queue,    *)
(* and, when that is empty, writes out the request buffer and reads the    *)
(* connection; a flush may read the connection too (FlushReads), as        *)
(* libX11 on libxcb does.                                                  *)
(***************************************************************************)
EXTENDS Integers, Sequences

CONSTANTS
  MaxEvents,    \* bound: how many events the X server sends
  ConnSize,     \* events the connection holds before the X server waits
  PipeSize,     \* bytes the self-pipe holds
  Chunk,        \* bytes one read of the self-pipe takes (sizeof(drain))
  MaxRects,     \* bound: the dirty rectangles of one frame
  FlushReads    \* XFlush and XPutImage may read the connection

ASSUME X11PumpAssumption ==
  /\ MaxEvents \in Nat
  /\ ConnSize \in Nat \ {0} /\ PipeSize \in Nat \ {0}
  /\ Chunk \in Nat \ {0} /\ MaxRects \in Nat \ {0}
  /\ FlushReads \in BOOLEAN

Kind  == {"input", "expose", "other"}
Event == [n : 1 .. MaxEvents, kind : Kind]

VARIABLES
  conn,      \* events on the connection, not read by Xlib
  xq,        \* events in Xlib's queue
  out,       \* a repaint of an exposed region is in Xlib's request buffer
  blank,     \* the window has a region the X server cleared
  ppc,       \* the pump thread
  wake,      \* bytes in the self-pipe
  mpc,       \* the main thread
  rects,     \* rectangles left of the frame being drawn; 0: not in a frame
  handled,   \* history: events pump_events has acted upon
  sent       \* history: events the X server has sent

main   == <<mpc, rects>>
hist   == <<handled, sent>>
vars   == <<conn, xq, out, blank, ppc, wake, mpc, rects, handled, sent>>

TypeOK ==
  /\ conn \in Seq(Event) /\ Len(conn) <= ConnSize
  /\ xq \in Seq(Event)
  /\ handled \in Seq(Event) /\ sent \in Seq(Event)
  /\ Len(sent) <= MaxEvents
  /\ out \in BOOLEAN /\ blank \in BOOLEAN
  /\ ppc \in {"off", "none", "select", "write"}
  /\ wake \in 0 .. PipeSize
  /\ mpc \in {"idle", "drain", "pump", "blit", "flush"}
  /\ rects \in 0 .. MaxRects

\* create_window has mapped the window and is in its own put_rect.
Init ==
  /\ conn = <<>> /\ xq = <<>> /\ handled = <<>> /\ sent = <<>>
  /\ out = FALSE /\ blank = FALSE
  /\ ppc = "off" /\ wake = 0
  /\ mpc = "pump" /\ rects = 1
-----------------------------------------------------------------------------
(* The X server.                                                           *)

\* Clearing a region of the window and reporting it is one step for a client.
XSend ==
  /\ Len(sent) < MaxEvents /\ Len(conn) < ConnSize
  /\ \E k \in Kind :
       LET e == [n |-> Len(sent) + 1, kind |-> k] IN
       /\ conn' = Append(conn, e) /\ sent' = Append(sent, e)
       /\ blank' = (blank \/ k = "expose")
  /\ UNCHANGED <<xq, out, ppc, wake, main, handled>>
-----------------------------------------------------------------------------
(* The pump thread.                                                        *)

\* select() says the connection is readable.  Its timeout changes nothing.
Select ==
  /\ ppc = "select" /\ conn # <<>> /\ ppc' = "write"
  /\ UNCHANGED <<conn, xq, out, blank, wake, main, hist>>

\* The write end of the self-pipe blocks while the pipe is full.
Nudge ==
  /\ ppc = "write" /\ wake < PipeSize
  /\ wake' = wake + 1 /\ ppc' = "select"
  /\ UNCHANGED <<conn, xq, out, blank, main, hist>>
-----------------------------------------------------------------------------
(* The main thread.                                                        *)

\* The deferred job of start_event_pump: the pipe, the notifier, the thread.
StartPump ==
  /\ mpc = "idle" /\ ppc = "off"
  /\ ppc' \in {"select", "none"}
  /\ UNCHANGED <<conn, xq, out, blank, wake, main, hist>>

\* Mutant: the callback pumps without reading the pipe.
WakeNoDrain ==
  /\ mpc = "idle" /\ wake > 0 /\ mpc' = "pump"
  /\ UNCHANGED <<conn, xq, out, blank, ppc, wake, rects, hist>>

\* The notifier's callback: read the pipe until it is empty, then pump.
Wake ==
  /\ mpc = "idle" /\ wake > 0 /\ mpc' = "drain"
  /\ UNCHANGED <<conn, xq, out, blank, ppc, wake, rects, hist>>

ReadPipe ==
  /\ mpc = "drain" /\ wake > 0
  /\ wake' = IF wake > Chunk THEN wake - Chunk ELSE 0
  /\ UNCHANGED <<conn, xq, out, blank, ppc, main, hist>>

PipeEmpty ==
  /\ mpc = "drain" /\ wake = 0 /\ mpc' = "pump"
  /\ UNCHANGED <<conn, xq, out, blank, ppc, wake, rects, hist>>

\* flush_framebuffer_rects begins: put_rect pumps before it blits.
BeginFrame ==
  /\ mpc = "idle" /\ mpc' = "pump"
  /\ rects' \in 1 .. MaxRects
  /\ UNCHANGED <<conn, xq, out, blank, ppc, wake, hist>>

\* The request buffer reaches the X server, which carries out the repaint.
WriteOut == out' = FALSE /\ blank' = (blank /\ ~out)

\* XPending with an empty queue: write out, read what the connection holds.
Pending ==
  /\ mpc = "pump" /\ xq = <<>> /\ conn # <<>>
  /\ xq' = conn /\ conn' = <<>>
  /\ WriteOut
  /\ UNCHANGED <<ppc, wake, main, hist>>

\* XPending finds nothing.
PumpDone ==
  /\ mpc = "pump" /\ xq = <<>> /\ conn = <<>>
  /\ mpc' = IF rects = 0 THEN "idle" ELSE "blit"
  /\ WriteOut
  /\ UNCHANGED <<conn, xq, ppc, wake, rects, hist>>

\* Mutant: put_rect discards what it drains.
HandleOrDiscard ==
  /\ mpc = "pump" /\ xq # <<>>
  /\ xq' = Tail(xq)
  /\ handled' = IF rects = 0 THEN Append(handled, Head(xq)) ELSE handled
  /\ out' = (out \/ (rects = 0 /\ Head(xq).kind = "expose"))
  /\ UNCHANGED <<conn, blank, ppc, wake, main, sent>>

\* Mutant: Expose falls into the default branch.
HandleNoExpose ==
  /\ mpc = "pump" /\ xq # <<>>
  /\ xq' = Tail(xq) /\ handled' = Append(handled, Head(xq))
  /\ UNCHANGED <<conn, out, blank, ppc, wake, main, sent>>

\* Mutant: an Expose is answered through put_rect, which pumps once more and
\* draws one more rectangle.
HandleByPutRect ==
  /\ mpc = "pump" /\ xq # <<>>
  /\ xq' = Tail(xq) /\ handled' = Append(handled, Head(xq))
  /\ rects' = IF Head(xq).kind = "expose" THEN rects + 1 ELSE rects
  /\ out' = (out \/ Head(xq).kind = "expose")
  /\ UNCHANGED <<conn, blank, ppc, wake, mpc, sent>>

\* XNextEvent: an Expose is answered with a repaint, input goes to the mapper.
Handle ==
  /\ mpc = "pump" /\ xq # <<>>
  /\ xq' = Tail(xq) /\ handled' = Append(handled, Head(xq))
  /\ out' = (out \/ Head(xq).kind = "expose")
  /\ UNCHANGED <<conn, blank, ppc, wake, main, sent>>

\* A flush may move what is on the connection to Xlib's queue.
MayRead ==
  \/ UNCHANGED <<conn, xq>>
  \/ FlushReads /\ xq' = xq \o conn /\ conn' = <<>>

\* XPutImage of one rectangle; a full request buffer is written out.
Blit ==
  /\ mpc = "blit" /\ rects' = rects - 1
  /\ mpc' = IF rects = 1 THEN "flush" ELSE "pump"
  /\ MayRead
  /\ UNCHANGED <<out, blank, ppc, wake, hist>>

Flush ==
  /\ mpc = "flush" /\ mpc' = "idle"
  /\ MayRead /\ WriteOut
  /\ UNCHANGED <<ppc, wake, rects, hist>>

Nudger == Select \/ Nudge
Main ==
  \/ StartPump \/ Wake \/ ReadPipe \/ PipeEmpty
  \/ Pending \/ PumpDone \/ Handle \/ Blit \/ Flush

Next == XSend \/ Nudger \/ Main \/ BeginFrame

\* Both threads are scheduled; the event loop serves a readable notifier even
\* when frames keep it busy; the loop that reads the self-pipe, raced by the
\* pump thread, at some time finds it empty.  Nothing says a frame is drawn.
Spec ==
  /\ Init /\ [][Next]_vars
  /\ WF_vars(Main) /\ WF_vars(Nudger)
  /\ SF_vars(Wake) /\ SF_vars(PipeEmpty)

\* Something on the screen (the taskbar clock) keeps changing.
SpecRendering == Spec /\ WF_vars(BeginFrame)
-----------------------------------------------------------------------------
\* The events acted upon, those in Xlib's queue and those on the connection
\* are what was sent, in that order: neither a pump from put_rect nor a flush
\* drops, doubles or reorders an event.
NothingLost == handled \o xq \o conn = sent

\* While the window has a cleared region, an Expose is on its way or the
\* repaint that answers one is.
ExposeInFlight ==
  blank => \/ out
           \/ \E i \in 1 .. Len(xq \o conn) : (xq \o conn)[i].kind = "expose"

\* On a screen that keeps changing a cleared region is repainted in the end.
Repainted == blank ~> ~blank

\* The pump thread does not stay in its blocking write to a full pipe.
NudgerReturns == []<>(ppc # "write")

\* "nudge the main thread via the self-pipe when there is data (or
\* periodically)" (X11Context.h): once the pump thread runs, every event is
\* acted upon in the end, drawn frames or not.  An Xlib that reads the
\* connection in a flush takes it away from select(), and nobody nudges.
NudgedPeriodically ==
  \A n \in 1 .. MaxEvents :
    Len(sent) >= n ~> Len(handled) >= n \/ ppc = "none"

\* The path is a channel: events are acted upon once, in order, and, on a
\* screen that keeps changing, all of them.
Channel == INSTANCE EventChannel WITH waiting <- xq \o conn
ImplementsChannel == Channel!Spec
=============================================================================
