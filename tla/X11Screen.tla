------------------------------- MODULE X11Screen -------------------------------
(***************************************************************************)
(* WindowServer's X11 screen: X11ScreenBackend over X11Context.  open()    *)
(* connects to the display; a resolution is set, map_framebuffer creates   *)
(* the window and the pixel stores, and every frame is converted and put   *)
(* to the window rectangle by rectangle.  WindowServer sets a resolution   *)
(* when it starts and may set another one, or the same again, later.  A    *)
(* stride the backend does not support only fails the setting, of which    *)
(* two of three figures are kept; a failure to map ends WindowServer       *)
(* (MUST), one in open() leaves it without this screen.                    *)
(*                                                                         *)
(* A pixel is its place y * width + x, and a rectangle a set of places.    *)
(* Sizes are in bytes.  What Xlib makes of an image, and whether a         *)
(* request fails, is modelled from how the code uses it.                   *)
(***************************************************************************)
EXTENDS Integers, FiniteSets

CONSTANTS
  Modes,        \* resolutions: <<width, height>>
  Formats,      \* what the server may offer: see Format
  Rects,        \* rectangles the compositor paints and flushes
  Colors,
  Strides       \* asked for with a resolution, 0 for the natural one

\* The default visual is TrueColor: its depth, the bits a pixel of an image
\* takes, and whether the masks are in ARGB32's order.
Format   == [depth : 1 .. 32, bits : {8, 16, 24, 32}, argb : BOOLEAN]
NoFormat == [depth |-> 1, bits |-> 8, argb |-> FALSE]

ASSUME ScreenAssumption ==
  /\ \A m \in Modes : m \in (Nat \ {0}) \X (Nat \ {0})
  /\ Formats \subseteq Format
  /\ \A r \in Rects : r \subseteq Nat
  /\ Strides \subseteq Nat /\ Colors # {} /\ "garbled" \notin Colors
  /\ "black" \in Colors

VARIABLES
  sstep,     \* where the set-up is
  format,    \* the server's
  optIn,     \* SERENADE_X11_USE_SHM is set and the server has the extension
  mode,      \* the backend's m_width, m_height and m_pitch
  asked,     \* history: the resolution and the stride last asked for
  window,    \* the context's m_width and m_height; <<0, 0>>: no window
  zeroCopy,  \* m_zero_copy
  shm,       \* m_use_shm
  imageSize, \* of the XImage's data; 0 none
  fbSize,    \* of what m_fb points to; 0 none
  mapped,    \* m_size_in_bytes; 0: m_framebuffer is null
  viewport,  \* what the input mapper was told
  fb,        \* what the compositor has painted
  store,     \* the XImage's data, by pixel
  shown,     \* what the window shows, by pixel
  dirty,     \* history: pixels painted and not yet flushed
  exposed    \* pixels the server has cleared, their Expose not yet handled

pixels == <<fb, store, shown, dirty, exposed>>
setup  == <<format, optIn, zeroCopy, shm>>
screenVars == <<sstep, format, optIn, mode, asked, window, zeroCopy, shm,
                imageSize, fbSize, mapped, viewport, fb, store, shown, dirty,
                exposed>>

Steps == {"off", "no_display", "open", "mode", "create", "image", "fb",
          "viewport", "show", "map", "ready", "aborted"}

Pixels(w, h)  == 0 .. w * h - 1
WindowPixels  == Pixels(window[1], window[2])
Black(w)      == [p \in Pixels(w[1], w[2]) |-> "black"]
Bpp           == format.depth \div 8

\* X pads the rows of an image to 32 bits; the code's rows are not padded.
RowBytes == ((window[1] * format.bits + 31) \div 32) * 4
Packed   == Bpp * 8 = format.bits /\ window[1] * Bpp = RowBytes
\* convert_rect writes B, G, R whatever the masks ("Non-standard masks are out
\* of scope").
Faithful == Packed /\ Bpp >= 3 /\ format.argb /\ ~shm

Natural(m) == [width |-> m[1], height |-> m[2], pitch |-> m[1] * 4]
Supported  == asked[2] \in {0, asked[1][1] * 4}
Fits       == mode = Natural(window)

ScreenTypeOK ==
  LET Images == UNION {[Pixels(m[1], m[2]) -> Colors \cup {"garbled"}] :
                         m \in Modes \cup {<<0, 0>>}}
  IN
  /\ sstep \in Steps /\ format \in Formats \cup {NoFormat} /\ optIn \in BOOLEAN
  /\ mode \in [width : Nat, height : Nat, pitch : Nat]
  /\ asked \in (Modes \cup {<<0, 0>>}) \X Nat
  /\ window \in Modes \cup {<<0, 0>>} /\ viewport \in Modes \cup {<<0, 0>>}
  /\ zeroCopy \in BOOLEAN /\ shm \in BOOLEAN
  /\ imageSize \in Nat /\ fbSize \in Nat /\ mapped \in Nat
  /\ fb \in Images /\ store \in Images /\ shown \in Images
  /\ dirty \subseteq WindowPixels /\ exposed \subseteq WindowPixels

ScreenInit ==
  /\ sstep = "off"
  /\ format = NoFormat /\ optIn = FALSE
  /\ mode = [width |-> 0, height |-> 0, pitch |-> 0] /\ asked = <<<<0, 0>>, 0>>
  /\ window = <<0, 0>> /\ viewport = <<0, 0>>
  /\ zeroCopy = FALSE /\ shm = FALSE
  /\ imageSize = 0 /\ fbSize = 0 /\ mapped = 0
  /\ fb = Black(window) /\ store = Black(window) /\ shown = Black(window)
  /\ dirty = {} /\ exposed = {}
-----------------------------------------------------------------------------
(* Setting up.                                                             *)

\* open() connects, or fails "cleanly".
OpenDisplay ==
  /\ sstep = "off" /\ sstep' \in {"open", "no_display"}
  /\ format' \in Formats /\ optIn' \in BOOLEAN
  /\ UNCHANGED <<zeroCopy, shm, mode, asked, window, imageSize, fbSize, mapped,
                 viewport, pixels>>

\* Mutant: the natural pitch is worked out only when none is known yet.
SetModeOnce(m, stride) ==
  /\ sstep \in {"open", "ready"} /\ sstep' = "create"
  /\ LET pitch == IF stride # 0 THEN stride
                  ELSE IF mode.pitch = 0 THEN m[1] * 4 ELSE mode.pitch IN
       mode' = [width |-> IF pitch = m[1] * 4 THEN m[1] ELSE mode.width,
                height |-> m[2], pitch |-> pitch]
  /\ asked' = <<m, stride>> /\ mapped' = 0
  /\ UNCHANGED <<setup, window, imageSize, fbSize, viewport, pixels>>

\* set_head_mode_setting, when it fails ("Unsupported pitch")
\* set_safe_head_mode_setting, which does nothing and succeeds, and
\* unmap_framebuffer.  A stride of 0 means the natural one; with another than
\* that the height and the pitch are taken over all the same, the width is not.
SetMode(m, stride) ==
  /\ sstep \in {"open", "ready"} /\ sstep' = "create"
  /\ LET pitch == IF stride = 0 THEN m[1] * 4 ELSE stride IN
       mode' = [width |-> IF pitch = m[1] * 4 THEN m[1] ELSE mode.width,
                height |-> m[2], pitch |-> pitch]
  /\ asked' = <<m, stride>> /\ mapped' = 0
  /\ UNCHANGED <<setup, window, imageSize, fbSize, viewport, pixels>>

\* "already created (fixed resolution for now)"
KeepWindow ==
  /\ sstep = "create" /\ window # <<0, 0>> /\ sstep' = "map"
  /\ UNCHANGED <<setup, mode, asked, window, imageSize, fbSize, mapped,
                 viewport, pixels>>

\* Mutant: the masks alone decide that the store can be the framebuffer.
CreateByMasks ==
  /\ sstep = "create" /\ window = <<0, 0>> /\ sstep' = "image"
  /\ mode.width # 0
  /\ window' = <<mode.width, mode.height>>
  /\ zeroCopy' = format.argb
  /\ fb' = Black(window') /\ store' = Black(window') /\ shown' = Black(window')
  /\ UNCHANGED <<format, optIn, shm, mode, asked, imageSize, fbSize, mapped,
                 viewport, dirty, exposed>>

\* X refuses a window without width, as when the first setting has failed;
\* Xlib then ends the process (SetupFails).
CreateWindow ==
  /\ sstep = "create" /\ window = <<0, 0>> /\ sstep' = "image"
  /\ mode.width # 0
  /\ window' = <<mode.width, mode.height>>
  /\ zeroCopy' = (format.depth = 32 /\ format.argb)
  /\ fb' = Black(window') /\ store' = Black(window') /\ shown' = Black(window')
  /\ UNCHANGED <<format, optIn, shm, mode, asked, imageSize, fbSize, mapped,
                 viewport, dirty, exposed>>

\* A shared segment on request; when shmget or XCreateImage fails, or without
\* the request, memory of the process.
MakeImage ==
  /\ sstep = "image" /\ sstep' = "fb"
  /\ shm' \in {FALSE, optIn}
  /\ imageSize' = window[1] * window[2] * Bpp
  /\ UNCHANGED <<format, optIn, zeroCopy, mode, asked, window, fbSize,
                 mapped, viewport, pixels>>

\* Zero-copy: the image's store is the framebuffer.
MakeFramebuffer ==
  /\ sstep = "fb" /\ sstep' = "viewport"
  /\ fbSize' = IF zeroCopy THEN imageSize ELSE window[1] * window[2] * 4
  /\ UNCHANGED <<setup, mode, asked, window, imageSize, mapped, viewport,
                 pixels>>

\* XCreateWindow, shmat (whose failure is not null), malloc or XCreateImage
\* fails: map_framebuffer fails, or the process crashes, and WindowServer ends.
SetupFails ==
  /\ \/ sstep = "create" /\ window = <<0, 0>>
     \/ sstep \in {"image", "fb"}
  /\ sstep' = "aborted"
  /\ UNCHANGED <<setup, mode, asked, window, imageSize, fbSize, mapped,
                 viewport, pixels>>

SetViewport ==
  /\ sstep = "viewport" /\ sstep' = "show" /\ viewport' = window
  /\ UNCHANGED <<setup, mode, asked, window, imageSize, fbSize, mapped,
                 pixels>>

-----------------------------------------------------------------------------
(* Drawing.                                                                *)

Converted(r) ==
  IF zeroCopy \/ Bpp < 3 THEN store
  ELSE [p \in DOMAIN store |-> IF p \in r THEN fb[p] ELSE store[p]]

\* Mutant: the image is put before it is converted.
BlitBeforeConvert(r) ==
  /\ store' = Converted(r)
  /\ shown' = [p \in DOMAIN shown |->
                 IF p \notin r THEN shown[p]
                 ELSE IF Faithful THEN store[p] ELSE "garbled"]

\* convert_rect and XPutImage or XShmPutImage.  With other rows or another
\* order of colours than the code's, fewer than three bytes a pixel, or a
\* shared segment the image does not know of, what the window shows is wrong.
Blit(r) ==
  /\ store' = Converted(r)
  /\ shown' = [p \in DOMAIN shown |->
                 IF p \notin r THEN shown[p]
                 ELSE IF Faithful THEN Converted(r)[p] ELSE "garbled"]

\* XMapWindow and a first put_rect of everything; the server reports the
\* new window's whole surface as exposed, before or after it can be drawn to.
MapWindow ==
  /\ sstep = "show" /\ sstep' = "map"
  /\ Blit(WindowPixels) /\ exposed' = WindowPixels
  /\ UNCHANGED <<setup, mode, asked, window, imageSize, fbSize, mapped,
                 viewport, fb, dirty>>

\* The end of map_framebuffer.
MapFramebuffer ==
  /\ sstep = "map" /\ sstep' = "ready"
  /\ mapped' = mode.pitch * mode.height
  /\ UNCHANGED <<setup, mode, asked, window, imageSize, fbSize, viewport,
                 pixels>>

\* The compositor paints.  (In a framebuffer of another size or pitch than the
\* window's its writes are not modelled.)
Paint(r, c) ==
  /\ sstep = "ready" /\ Fits /\ r \subseteq WindowPixels
  /\ fb' = [p \in DOMAIN fb |-> IF p \in r THEN c ELSE fb[p]]
  /\ store' = IF zeroCopy THEN fb' ELSE store
  /\ dirty' = dirty \cup r
  /\ UNCHANGED <<sstep, setup, mode, asked, window, imageSize, fbSize,
                 mapped, viewport, shown, exposed>>

\* One rectangle of flush_framebuffer_rects, or all of flush_framebuffer.
FlushRect(r) ==
  /\ sstep = "ready" /\ Fits /\ r \subseteq WindowPixels
  /\ Blit(r) /\ dirty' = dirty \ r
  /\ UNCHANGED <<sstep, setup, mode, asked, window, imageSize, fbSize,
                 mapped, viewport, fb, exposed>>

\* Another window covered a part of ours: the server clears it and says so.
Expose(r) ==
  /\ sstep = "ready" /\ r \subseteq WindowPixels
  /\ shown' = [p \in DOMAIN shown |-> IF p \in r THEN "black" ELSE shown[p]]
  /\ exposed' = exposed \cup r
  /\ UNCHANGED <<sstep, setup, mode, asked, window, imageSize, fbSize,
                 mapped, viewport, fb, store, dirty>>

\* pump_events: the exposed regions are repainted.
Repaint ==
  /\ sstep = "ready" /\ exposed # {} /\ exposed' = {}
  /\ Blit(exposed)
  /\ UNCHANGED <<sstep, setup, mode, asked, window, imageSize, fbSize,
                 mapped, viewport, fb, dirty>>

SetupStep ==
  \/ \E m \in Modes : \E stride \in Strides : SetMode(m, stride)
  \/ KeepWindow \/ CreateWindow \/ MakeImage \/ MakeFramebuffer \/ SetViewport
  \/ MapWindow \/ MapFramebuffer

Draw ==
  \/ \E r \in Rects : \E c \in Colors : Paint(r, c)
  \/ \E r \in Rects : FlushRect(r) \/ Expose(r)
  \/ Repaint

ScreenStep == OpenDisplay \/ SetupStep \/ Draw
-----------------------------------------------------------------------------
\* Whatever was set before, in vain or not, setting the window's resolution
\* makes the backend's figures those of the store: the framebuffer handed to
\* the compositor lies within its memory, zero-copy or not, and the input
\* mapper scales to its size.  (After another resolution or an unsupported
\* stride the framebuffer handed out may well be larger than the store.)
StoreBacksFramebuffer ==
  sstep = "ready" /\ Supported /\ asked[1] = window =>
    Fits /\ mapped <= fbSize /\ viewport = window

\* What the compositor has painted and flushed is what the window shows, but
\* where an Expose is on its way: neither the conversion nor a repaint, which
\* may come between a paint and its flush, brings old pixels back.
ShownAsDrawn ==
  sstep = "ready" /\ Faithful =>
    \A p \in WindowPixels \ (dirty \cup exposed) : shown[p] = fb[p]
=============================================================================
