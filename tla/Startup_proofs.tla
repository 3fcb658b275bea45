---------------------------- MODULE Startup_proofs ----------------------------
(***************************************************************************)
(* Proofs about Startup, for every set of services and brokers, every set  *)
(* of descriptors open at the start, every resolution and X server: each   *)
(* program finds its sockets, a connection ends with its instance, the     *)
(* framebuffer lies in its memory, the window shows what was drawn, and    *)
(* the processes and the memory figures written are those there are.       *)
(***************************************************************************)
EXTENDS Startup, FiniteSetTheorems, WellFoundedInduction, TLAPS

(***************************************************************************)
(* Each part's variables change by its own steps only.                     *)
(***************************************************************************)

FdStep ==
  Launch \/ Children \/ SysData \/ SysFails \/ ExitJob(WindowServer)

\* What a step of the whole does to the screen.
LEMMA ScreenSteps ==
  Next => ScreenStep \/ SetupFails \/ UNCHANGED screenVars
BY DEF Next, Descriptors, Walk, OtherProcesses, Screen

\* What a step of the whole does to the descriptors.
LEMMA FdSteps == Next => FdStep \/ UNCHANGED fdVars
BY DEF Next, Descriptors, Walk, OtherProcesses, Screen, FdStep

\* What a step of the whole does to the walk.
LEMMA SysSteps ==
  Next => WalkStep \/ WriteRest \/ CannotWrite \/ Host \/ UNCHANGED sysVars
BY DEF Next, Descriptors, Walk, OtherProcesses, Screen

(***************************************************************************)
(* The screen.                                                             *)
(***************************************************************************)

Shade   == Colors \cup {"garbled"}
Created == {"image", "fb", "viewport", "show", "map", "ready"}

\* The pixels and the sizes have their types.
ScreenTyped ==
  /\ sstep \in Steps /\ format \in Formats \cup {NoFormat} /\ optIn \in BOOLEAN
  /\ mode \in [width : Nat, height : Nat, pitch : Nat]
  /\ asked \in (Modes \cup {<<0, 0>>}) \X Nat
  /\ window \in Modes \cup {<<0, 0>>} /\ viewport \in Modes \cup {<<0, 0>>}
  /\ zeroCopy \in BOOLEAN /\ shm \in BOOLEAN
  /\ imageSize \in Nat /\ fbSize \in Nat /\ mapped \in Nat
  /\ fb \in [WindowPixels -> Shade] /\ store \in [WindowPixels -> Shade]
  /\ shown \in [WindowPixels -> Shade]
  /\ dirty \subseteq WindowPixels /\ exposed \subseteq WindowPixels

\* How far the set-up is says what is there, and with which size.
SizesRight ==
  /\ sstep \in {"off", "no_display", "open"} =>
       window = <<0, 0>> /\ mode.width = 0
  /\ sstep = "off" => format = NoFormat
  /\ sstep \in Created => window # <<0, 0>>
  /\ window # <<0, 0>> => zeroCopy = (format.depth = 32 /\ format.argb)
  /\ window # <<0, 0>> /\ sstep \notin {"image", "aborted"} =>
       imageSize = window[1] * window[2] * Bpp
  /\ window # <<0, 0>> /\ sstep \notin {"image", "fb", "aborted"} =>
       fbSize = IF zeroCopy THEN imageSize ELSE window[1] * window[2] * 4
  /\ window # <<0, 0>> /\ sstep \notin {"image", "fb", "viewport", "aborted"} =>
       viewport = window
  /\ window = <<0, 0>> => \/ mode.width = 0
                          \/ <<mode.width, mode.height>> \in Modes
  /\ sstep \notin {"off", "no_display", "open"} /\ Supported =>
       mode = Natural(asked[1])
  /\ sstep = "ready" => mapped = mode.pitch * mode.height

\* The window shows the framebuffer but where it was painted or cleared.
PixelsRight ==
  /\ zeroCopy => store = fb
  /\ sstep \in {"off", "no_display", "open", "image", "fb", "viewport", "show"} =>
       shown = fb
  /\ Faithful => \A p \in WindowPixels \ (dirty \cup exposed) : shown[p] = fb[p]

ScreenInv == ScreenTyped /\ SizesRight /\ PixelsRight

\* A resolution is a pair of positive numbers; there is no window of none.
LEMMA ModeSizes ==
  /\ \A m \in Modes : m[1] \in Nat \ {0} /\ m[2] \in Nat \ {0} /\ m # <<0, 0>>
  /\ \A m \in Modes \cup {<<0, 0>>} :
       m[1] \in Nat /\ m[2] \in Nat /\ m = <<m[1], m[2]>>
BY ScreenAssumption

\* A product of sizes in bytes is a size in bytes.
LEMMA Products ==
  ASSUME NEW a \in Nat, NEW b \in Nat, NEW c \in Nat
  PROVE  a * b \in Nat /\ a * b * c \in Nat
OBVIOUS

\* There is no pixel without a window.
LEMMA NoPixels == Pixels(0, 0) = {}
BY DEF Pixels

\* Bytes a pixel takes.
LEMMA BppNat ==
  ASSUME ScreenTyped PROVE Bpp \in Nat /\ format.depth \in Nat /\ format.bits \in Nat
<1>1. format.depth \in 1 .. 32 /\ format.bits \in Nat
  BY ScreenAssumption DEF ScreenTyped, Format, NoFormat
<1> QED BY <1>1 DEF Bpp

LEMMA ScreenInvInit == Init => ScreenInv
<1> SUFFICES ASSUME Init PROVE ScreenInv OBVIOUS
<1> USE DEF Init, ScreenInit
<1>1. WindowPixels = {} BY NoPixels DEF WindowPixels
<1>2. Black(window) \in [WindowPixels -> Shade]
  BY <1>1 DEF Black, WindowPixels, Shade
<1>3. ScreenTyped
  <2>1. /\ fb \in [WindowPixels -> Shade] /\ store \in [WindowPixels -> Shade]
        /\ shown \in [WindowPixels -> Shade]
    BY <1>2
  <2>2. asked \in (Modes \cup {<<0, 0>>}) \X Nat OBVIOUS
  <2>3. mode \in [width : Nat, height : Nat, pitch : Nat] OBVIOUS
  <2>4. /\ sstep \in Steps /\ format \in Formats \cup {NoFormat}
        /\ optIn \in BOOLEAN /\ zeroCopy \in BOOLEAN /\ shm \in BOOLEAN
        /\ window \in Modes \cup {<<0, 0>>} /\ viewport \in Modes \cup {<<0, 0>>}
        /\ imageSize \in Nat /\ fbSize \in Nat /\ mapped \in Nat
    BY DEF Steps
  <2> QED BY <2>1, <2>2, <2>3, <2>4 DEF ScreenTyped
<1>4. SizesRight BY DEF SizesRight, Created
<1>5. PixelsRight BY <1>1 DEF PixelsRight
<1> QED BY <1>3, <1>4, <1>5 DEF ScreenInv

(* The steps that leave the pixels and the window alone.                   *)

LEMMA OpenDisplayKeeps == ScreenInv /\ OpenDisplay => ScreenInv'
<1> SUFFICES ASSUME ScreenInv, OpenDisplay PROVE ScreenInv' OBVIOUS
<1> USE DEF ScreenInv, OpenDisplay
<1>0. window = <<0, 0>> /\ window' = window BY DEF SizesRight
<1>1. WindowPixels = {} /\ WindowPixels' = {}
  BY <1>0, NoPixels DEF WindowPixels
<1>2. ScreenTyped' BY <1>0, <1>1 DEF ScreenTyped, Steps, pixels
<1>3. SizesRight' BY <1>0 DEF SizesRight, Created, Supported
<1>4. PixelsRight' BY <1>1 DEF PixelsRight, pixels
<1> QED BY <1>2, <1>3, <1>4

LEMMA SetModeKeeps ==
  ASSUME ScreenInv, NEW m \in Modes, NEW stride \in Strides, SetMode(m, stride)
  PROVE  ScreenInv'
<1> USE DEF ScreenInv
<1> DEFINE pitch == IF stride = 0 THEN m[1] * 4 ELSE stride
<1>1. /\ m[1] \in Nat /\ m[2] \in Nat /\ m = <<m[1], m[2]>> /\ stride \in Nat
      /\ pitch \in Nat
  BY ModeSizes, ScreenAssumption, Products
<1>2. mode' = [width |-> IF pitch = m[1] * 4 THEN m[1] ELSE mode.width,
               height |-> m[2], pitch |-> pitch]
  BY DEF SetMode
<1>3. /\ sstep \in {"open", "ready"} /\ sstep' = "create"
      /\ asked' = <<m, stride>> /\ mapped' = 0
      /\ UNCHANGED <<setup, window, imageSize, fbSize, viewport, pixels>>
  BY DEF SetMode
<1>4. mode' \in [width : Nat, height : Nat, pitch : Nat]
  <2>1. mode.width \in Nat BY DEF ScreenTyped
  <2> HIDE DEF pitch, ScreenInv
  <2> QED BY <1>1, <1>2, <2>1
<1>5. Supported' => mode' = Natural(m)
  <2>1. Supported' => stride \in {0, m[1] * 4} BY <1>3 DEF Supported
  <2> QED BY <1>2, <2>1 DEF Natural
<1>6. window' = <<0, 0>> => \/ mode'.width = 0
                            \/ <<mode'.width, mode'.height>> \in Modes
  <2>1. CASE pitch = m[1] * 4
    <3>1. mode'.width = m[1] /\ mode'.height = m[2] BY <1>2, <2>1
    <3> QED BY <1>1, <3>1
  <2>2. CASE pitch # m[1] * 4
    <3>1. mode'.width = mode.width BY <1>2, <2>2
    <3>2. sstep = "ready" => window # <<0, 0>> BY DEF SizesRight, Created
    <3> QED BY <1>3, <3>1, <3>2 DEF SizesRight
  <2> QED BY <2>1, <2>2
<1>7. asked' \in (Modes \cup {<<0, 0>>}) \X Nat BY <1>1, <1>3
<1>8. ScreenTyped'
  BY <1>3, <1>4, <1>7 DEF ScreenTyped, Steps, setup, pixels, WindowPixels
<1>9. SizesRight'
  BY <1>3, <1>5, <1>6 DEF SizesRight, Created, setup, Bpp
<1>10. PixelsRight'
  BY <1>3 DEF PixelsRight, setup, pixels, WindowPixels, Faithful, Packed,
              RowBytes, Bpp
<1> QED BY <1>8, <1>9, <1>10

LEMMA KeepWindowKeeps == ScreenInv /\ KeepWindow => ScreenInv'
<1> SUFFICES ASSUME ScreenInv, KeepWindow PROVE ScreenInv' OBVIOUS
<1> USE DEF ScreenInv, KeepWindow
<1>1. ScreenTyped' BY DEF ScreenTyped, Steps, setup, pixels, WindowPixels
<1>2. SizesRight' BY DEF SizesRight, Created, Supported, setup, Bpp
<1>3. PixelsRight'
  BY DEF PixelsRight, setup, pixels, WindowPixels, Faithful, Packed, RowBytes,
         Bpp
<1> QED BY <1>1, <1>2, <1>3

LEMMA MakeImageKeeps == ScreenInv /\ MakeImage => ScreenInv'
<1> SUFFICES ASSUME ScreenInv, MakeImage PROVE ScreenInv' OBVIOUS
<1> USE DEF ScreenInv, MakeImage
<1>0. window[1] * window[2] * Bpp \in Nat
  BY ModeSizes, BppNat, Products DEF ScreenTyped
<1>1. ScreenTyped'
  BY <1>0 DEF ScreenTyped, Steps, pixels, WindowPixels
<1>2. SizesRight' BY DEF SizesRight, Created, Supported, Bpp
<1>3. PixelsRight' BY DEF PixelsRight, pixels, WindowPixels, ScreenTyped
<1> QED BY <1>1, <1>2, <1>3

LEMMA MakeFramebufferKeeps == ScreenInv /\ MakeFramebuffer => ScreenInv'
<1> SUFFICES ASSUME ScreenInv, MakeFramebuffer PROVE ScreenInv' OBVIOUS
<1> USE DEF ScreenInv, MakeFramebuffer
<1>0. fbSize' \in Nat
  BY ModeSizes, Products DEF ScreenTyped
<1>1. ScreenTyped'
  BY <1>0 DEF ScreenTyped, Steps, setup, pixels, WindowPixels
<1>2. SizesRight' BY DEF SizesRight, Created, Supported, setup, Bpp
<1>3. PixelsRight'
  BY DEF PixelsRight, setup, pixels, WindowPixels, ScreenTyped
<1> QED BY <1>1, <1>2, <1>3

LEMMA SetViewportKeeps == ScreenInv /\ SetViewport => ScreenInv'
<1> SUFFICES ASSUME ScreenInv, SetViewport PROVE ScreenInv' OBVIOUS
<1> USE DEF ScreenInv, SetViewport
<1>1. ScreenTyped' BY DEF ScreenTyped, Steps, setup, pixels, WindowPixels
<1>2. SizesRight' BY DEF SizesRight, Created, Supported, setup, Bpp
<1>3. PixelsRight'
  BY DEF PixelsRight, setup, pixels, WindowPixels, ScreenTyped
<1> QED BY <1>1, <1>2, <1>3

LEMMA MapFramebufferKeeps == ScreenInv /\ MapFramebuffer => ScreenInv'
<1> SUFFICES ASSUME ScreenInv, MapFramebuffer PROVE ScreenInv' OBVIOUS
<1> USE DEF ScreenInv, MapFramebuffer
<1>0. mapped' \in Nat BY Products DEF ScreenTyped
<1>1. ScreenTyped'
  BY <1>0 DEF ScreenTyped, Steps, setup, pixels, WindowPixels
<1>2. SizesRight' BY DEF SizesRight, Created, Supported, setup, Bpp
<1>3. PixelsRight'
  BY DEF PixelsRight, setup, pixels, WindowPixels, Faithful, Packed, RowBytes,
         Bpp
<1> QED BY <1>1, <1>2, <1>3

LEMMA SetupFailsKeeps == ScreenInv /\ SetupFails => ScreenInv'
<1> SUFFICES ASSUME ScreenInv, SetupFails PROVE ScreenInv' OBVIOUS
<1> USE DEF ScreenInv, SetupFails
<1>1. ScreenTyped' BY DEF ScreenTyped, Steps, setup, pixels, WindowPixels
<1>2. SizesRight' BY DEF SizesRight, Created, Supported, setup, Bpp
<1>3. PixelsRight'
  BY DEF PixelsRight, setup, pixels, WindowPixels, Faithful, Packed, RowBytes,
         Bpp
<1> QED BY <1>1, <1>2, <1>3

(* The steps that touch the pixels.                                        *)

LEMMA CreateWindowKeeps == ScreenInv /\ CreateWindow => ScreenInv'
<1> SUFFICES ASSUME ScreenInv, CreateWindow PROVE ScreenInv' OBVIOUS
<1> USE DEF ScreenInv, CreateWindow
<1>1. /\ window' = <<mode.width, mode.height>> /\ window' \in Modes
      /\ mode' = mode /\ asked' = asked
  BY DEF SizesRight
<1>2. window' # <<0, 0>> BY <1>1, ModeSizes
<1>3. Black(window') \in [WindowPixels' -> Shade']
  BY ScreenAssumption DEF Black, WindowPixels, Shade
<1>4. WindowPixels = {} BY NoPixels DEF WindowPixels
<1>5. dirty' = {} /\ exposed' = {} BY <1>4 DEF ScreenTyped
<1>6. ScreenTyped'
  <2>1. /\ fb' \in [WindowPixels' -> Shade'] /\ store' \in [WindowPixels' -> Shade']
        /\ shown' \in [WindowPixels' -> Shade']
    BY <1>3
  <2>2. /\ sstep' \in Steps /\ zeroCopy' \in BOOLEAN
        /\ window' \in Modes \cup {<<0, 0>>}
    BY <1>1 DEF Steps
  <2> QED BY <1>5, <2>1, <2>2 DEF ScreenTyped
<1>7. SizesRight' BY <1>1, <1>2 DEF SizesRight, Created, Supported
<1>8. PixelsRight' BY <1>3, <1>5 DEF PixelsRight
<1> QED BY <1>6, <1>7, <1>8

\* A blit of a rectangle leaves the types; where X draws what it is given the
\* rectangle shows the framebuffer and everything else what it showed.
LEMMA BlitRight ==
  ASSUME ScreenInv, NEW r \in SUBSET WindowPixels, Blit(r)
  PROVE  /\ store' \in [WindowPixels -> Shade] /\ shown' \in [WindowPixels -> Shade]
         /\ zeroCopy => store' = fb
         /\ Faithful => \A p \in WindowPixels :
              shown'[p] = IF p \in r THEN fb[p] ELSE shown[p]
<1> USE DEF ScreenInv
<1>1. Converted(r) \in [WindowPixels -> Shade]
  BY DEF Converted, ScreenTyped
<1>2. store' = Converted(r) BY DEF Blit
<1>3. "garbled" \in Shade BY DEF Shade
<1>4. DOMAIN shown = WindowPixels BY DEF ScreenTyped
<1>5. shown' = [p \in WindowPixels |->
                  IF p \notin r THEN shown[p]
                  ELSE IF Faithful THEN Converted(r)[p] ELSE "garbled"]
  BY <1>4 DEF Blit
<1>6. shown' \in [WindowPixels -> Shade]
  <2>1. shown \in [WindowPixels -> Shade] BY DEF ScreenTyped
  <2> QED BY <1>1, <1>3, <1>5, <2>1
<1>7. zeroCopy => store' = fb BY <1>2 DEF Converted, PixelsRight
<1>8. Faithful => \A p \in r : Converted(r)[p] = fb[p]
  <2> SUFFICES ASSUME Faithful, NEW p \in r PROVE Converted(r)[p] = fb[p]
    OBVIOUS
  <2>1. CASE zeroCopy BY <2>1 DEF Converted, PixelsRight
  <2>2. CASE ~zeroCopy
    <3>1. ~(Bpp < 3) BY BppNat DEF Faithful
    <3>2. DOMAIN store = WindowPixels BY DEF ScreenTyped
    <3> QED BY <2>2, <3>1, <3>2 DEF Converted
  <2> QED BY <2>1, <2>2
<1> QED BY <1>1, <1>2, <1>5, <1>6, <1>7, <1>8

\* What keeps the window and the formats keeps what is said of sizes.
LEMMA SameSetup ==
  ASSUME ScreenInv, sstep = "ready", sstep' = sstep,
         UNCHANGED <<setup, mode, asked, window, imageSize, fbSize, mapped,
                     viewport>>
  PROVE  SizesRight' /\ WindowPixels' = WindowPixels /\ Shade' = Shade
         /\ Faithful' = Faithful /\ zeroCopy' = zeroCopy
BY DEF ScreenInv, SizesRight, Created, Supported, setup, Bpp, WindowPixels, 
       Shade,       Faithful, Packed, RowBytes

LEMMA MapWindowKeeps == ScreenInv /\ MapWindow => ScreenInv'
<1> SUFFICES ASSUME ScreenInv, MapWindow PROVE ScreenInv' OBVIOUS
<1> USE DEF ScreenInv, MapWindow
<1>0. Blit(WindowPixels) OBVIOUS
<1>1. /\ store' \in [WindowPixels -> Shade] /\ shown' \in [WindowPixels -> Shade]
      /\ zeroCopy => store' = fb
  BY <1>0, BlitRight
<1>2. ScreenTyped'
  BY <1>1 DEF ScreenTyped, Steps, setup, WindowPixels, Shade
<1>3. SizesRight' BY DEF SizesRight, Created, Supported, setup, Bpp
<1>4. PixelsRight' BY <1>1 DEF PixelsRight, setup, WindowPixels
<1> QED BY <1>2, <1>3, <1>4

LEMMA PaintKeeps ==
  ASSUME ScreenInv, NEW r \in Rects, NEW c \in Colors, Paint(r, c)
  PROVE  ScreenInv'
<1> USE DEF ScreenInv
<1>1. /\ sstep = "ready" /\ sstep' = sstep /\ r \subseteq WindowPixels
      /\ UNCHANGED <<setup, mode, asked, window, imageSize, fbSize, mapped,
                     viewport>>
  BY DEF Paint
<1>2. SizesRight' /\ WindowPixels' = WindowPixels /\ Shade' = Shade
      /\ Faithful' = Faithful /\ zeroCopy' = zeroCopy
  BY <1>1, SameSetup
<1>3. DOMAIN fb = WindowPixels BY DEF ScreenTyped
<1>4. fb' = [p \in WindowPixels |-> IF p \in r THEN c ELSE fb[p]]
  BY <1>3 DEF Paint
<1>5. fb' \in [WindowPixels -> Shade]
  <2>1. fb \in [WindowPixels -> Shade] /\ c \in Shade BY DEF ScreenTyped, Shade
  <2> QED BY <1>4, <2>1
<1>6. /\ store' = (IF zeroCopy THEN fb' ELSE store) /\ shown' = shown
      /\ dirty' = dirty \cup r /\ exposed' = exposed
  BY DEF Paint
<1>7. ScreenTyped'
  <2>1. store' \in [WindowPixels -> Shade] BY <1>5, <1>6 DEF ScreenTyped
  <2> QED BY <1>1, <1>2, <1>5, <1>6, <2>1 DEF ScreenTyped, Steps, setup
<1>8. PixelsRight'
  <2>1. \A p \in WindowPixels \ (dirty' \cup exposed') :
          fb'[p] = fb[p] /\ p \in WindowPixels \ (dirty \cup exposed)
    BY <1>4, <1>6
  <2> QED BY <1>1, <1>2, <1>6, <2>1 DEF PixelsRight
<1> QED BY <1>2, <1>7, <1>8

LEMMA FlushKeeps ==
  ASSUME ScreenInv, NEW r \in Rects, FlushRect(r) PROVE ScreenInv'
<1> USE DEF ScreenInv
<1>1. /\ sstep = "ready" /\ sstep' = sstep /\ r \in SUBSET WindowPixels
      /\ UNCHANGED <<setup, mode, asked, window, imageSize, fbSize, mapped,
                     viewport>>
      /\ Blit(r) /\ dirty' = dirty \ r /\ fb' = fb /\ exposed' = exposed
  BY DEF FlushRect
<1>2. SizesRight' /\ WindowPixels' = WindowPixels /\ Shade' = Shade
      /\ Faithful' = Faithful /\ zeroCopy' = zeroCopy
  BY <1>1, SameSetup
<1>3. /\ store' \in [WindowPixels -> Shade] /\ shown' \in [WindowPixels -> Shade]
      /\ zeroCopy => store' = fb
      /\ Faithful => \A p \in WindowPixels :
           shown'[p] = IF p \in r THEN fb[p] ELSE shown[p]
  BY <1>1, BlitRight
<1>4. ScreenTyped'
  BY <1>1, <1>2, <1>3 DEF ScreenTyped, Steps, setup
<1>5. PixelsRight' BY <1>1, <1>2, <1>3 DEF PixelsRight
<1> QED BY <1>2, <1>4, <1>5

LEMMA ExposeKeeps ==
  ASSUME ScreenInv, NEW r \in Rects, Expose(r) PROVE ScreenInv'
<1> USE DEF ScreenInv
<1>1. /\ sstep = "ready" /\ sstep' = sstep /\ r \subseteq WindowPixels
      /\ UNCHANGED <<setup, mode, asked, window, imageSize, fbSize, mapped,
                     viewport>>
      /\ store' = store /\ dirty' = dirty /\ fb' = fb
      /\ exposed' = exposed \cup r
  BY DEF Expose
<1>2. SizesRight' /\ WindowPixels' = WindowPixels /\ Shade' = Shade
      /\ Faithful' = Faithful /\ zeroCopy' = zeroCopy
  BY <1>1, SameSetup
<1>3. DOMAIN shown = WindowPixels BY DEF ScreenTyped
<1>4. shown' = [p \in WindowPixels |-> IF p \in r THEN "black" ELSE shown[p]]
  BY <1>3 DEF Expose
<1>5. shown' \in [WindowPixels -> Shade]
  <2>1. shown \in [WindowPixels -> Shade] /\ "black" \in Shade
    BY ScreenAssumption DEF ScreenTyped, Shade
  <2> QED BY <1>4, <2>1
<1>6. ScreenTyped'
  BY <1>1, <1>2, <1>5 DEF ScreenTyped, Steps, setup
<1>7. PixelsRight' BY <1>1, <1>2, <1>4 DEF PixelsRight
<1> QED BY <1>2, <1>6, <1>7

LEMMA RepaintKeeps == ScreenInv /\ Repaint => ScreenInv'
<1> SUFFICES ASSUME ScreenInv, Repaint PROVE ScreenInv' OBVIOUS
<1> USE DEF ScreenInv
<1>1. /\ sstep = "ready" /\ sstep' = sstep /\ exposed \in SUBSET WindowPixels
      /\ UNCHANGED <<setup, mode, asked, window, imageSize, fbSize, mapped,
                     viewport>>
      /\ Blit(exposed) /\ dirty' = dirty /\ fb' = fb /\ exposed' = {}
  BY DEF Repaint, ScreenTyped
<1>2. SizesRight' /\ WindowPixels' = WindowPixels /\ Shade' = Shade
      /\ Faithful' = Faithful /\ zeroCopy' = zeroCopy
  BY <1>1, SameSetup
<1>3. /\ store' \in [WindowPixels -> Shade] /\ shown' \in [WindowPixels -> Shade]
      /\ zeroCopy => store' = fb
      /\ Faithful => \A p \in WindowPixels :
           shown'[p] = IF p \in exposed THEN fb[p] ELSE shown[p]
  BY <1>1, BlitRight
<1>4. ScreenTyped'
  BY <1>1, <1>2, <1>3 DEF ScreenTyped, Steps, setup
<1>5. PixelsRight' BY <1>1, <1>2, <1>3 DEF PixelsRight
<1> QED BY <1>2, <1>4, <1>5

\* Every step of the whole preserves what is known of the screen.
LEMMA ScreenInvNext == ScreenInv /\ [Next]_vars => ScreenInv'
<1> SUFFICES ASSUME ScreenInv, [Next]_vars PROVE ScreenInv' OBVIOUS
<1>1. ScreenStep \/ SetupFails \/ UNCHANGED screenVars
  BY ScreenSteps DEF vars
<1>2. CASE OpenDisplay BY <1>2, OpenDisplayKeeps
<1>3. CASE SetupStep
  BY <1>3, SetModeKeeps, KeepWindowKeeps, CreateWindowKeeps, MakeImageKeeps,
     MakeFramebufferKeeps, SetViewportKeeps, MapWindowKeeps,
     MapFramebufferKeeps
     DEF SetupStep
<1>4. CASE Draw
  BY <1>4, PaintKeeps, FlushKeeps, ExposeKeeps, RepaintKeeps DEF Draw
<1>5. CASE SetupFails BY <1>5, SetupFailsKeeps
<1>6. CASE UNCHANGED screenVars
  <2> USE <1>6 DEF screenVars, pixels
  <2>1. WindowPixels' = WindowPixels BY DEF WindowPixels
  <2>2. ScreenTyped' BY <2>1 DEF ScreenInv, ScreenTyped, Shade, Steps
  <2>3. SizesRight' BY DEF ScreenInv, SizesRight, Created, Supported, Bpp
  <2>4. PixelsRight'
    BY <2>1 DEF ScreenInv, PixelsRight, Faithful, Packed, RowBytes, Bpp
  <2> QED BY <2>2, <2>3, <2>4 DEF ScreenInv
<1> QED BY <1>1, <1>2, <1>3, <1>4, <1>5, <1>6 DEF ScreenStep

\* For every resolution, stride, visual and image format, and whatever was set
\* before or failed to be: once the window's resolution is set, the framebuffer
\* handed to the compositor has the window's width and pitch and lies in its
\* memory (set_head_mode_setting, create_window, map_framebuffer).
THEOREM FramebufferBacked == Spec => []StoreBacksFramebuffer
<1>1. ScreenInv => StoreBacksFramebuffer
  <2> SUFFICES ASSUME ScreenInv, sstep = "ready", Supported, asked[1] = window
               PROVE  Fits /\ mapped <= fbSize /\ viewport = window
    BY DEF StoreBacksFramebuffer
  <2> DEFINE w == window[1]
             h == window[2]
  <2>1. Fits BY DEF ScreenInv, SizesRight, Fits
  <2>2. w \in Nat /\ h \in Nat /\ Bpp \in Nat
    BY ModeSizes, BppNat DEF ScreenInv, ScreenTyped
  <2>3. window # <<0, 0>> BY DEF ScreenInv, SizesRight, Created
  <2>4. imageSize = w * h * Bpp /\ viewport = window
        /\ fbSize = IF zeroCopy THEN imageSize ELSE w * h * 4
    BY <2>3 DEF ScreenInv, SizesRight
  <2>5. mapped = (w * 4) * h
    BY <2>1 DEF ScreenInv, SizesRight, Fits, Natural
  <2>6. zeroCopy => Bpp = 4
    <3>1. zeroCopy => format.depth = 32 BY <2>3 DEF ScreenInv, SizesRight
    <3> QED BY <3>1 DEF Bpp
  <2> HIDE DEF w, h
  <2>7. (w * 4) * h = w * h * 4 BY <2>2
  <2>8. mapped <= fbSize
    <3>1. mapped = fbSize BY <2>4, <2>5, <2>6, <2>7
    <3>2. mapped \in Nat BY DEF ScreenInv, ScreenTyped
    <3> QED BY <3>1, <3>2
  <2> QED BY <2>1, <2>4, <2>8
<1> QED BY <1>1, ScreenInvInit, ScreenInvNext, PTL DEF Spec

\* For every resolution and every interleaving of paints, flushes, exposures
\* and repaints: what was painted and flushed is what the window shows
\* (convert_rect, put_rect, pump_events).
THEOREM DrawnIsShown == Spec => []ShownAsDrawn
<1>1. ScreenInv => ShownAsDrawn
  BY DEF ScreenInv, PixelsRight, ShownAsDrawn
<1> QED BY <1>1, ScreenInvInit, ScreenInvNext, PTL DEF Spec

(***************************************************************************)
(* Groups of listeners.                                                    *)
(***************************************************************************)

\* Listeners are numbered from 1, the adopted ones first.
LEMMA Numbers ==
  /\ ServiceCount \in Nat /\ Bound \in Nat /\ Bound >= 2
  /\ Adopted \in SUBSET Listeners /\ Adopted \in SUBSET Nat
  /\ Listeners \in SUBSET Nat /\ 1 \in Adopted /\ 1 \in Listeners
<1>1. ServiceCount \in Nat
  BY ServicesAssumption, FS_CardinalityType DEF ServiceCount
<1>2. Brokers \in Nat BY FdAssumption
<1> QED BY <1>1, <1>2 DEF Bound, Adopted, Listeners

\* A member's rank is less than its number.
LEMMA RankBound ==
  ASSUME NEW k \in Adopted
  PROVE  Rank(k) \in Nat /\ Rank(k) <= k - 1
<1> DEFINE lower == {j \in Group(k) : j < k}
<1>1. k \in Nat /\ k >= 1 BY Numbers DEF Adopted
<1>2. lower \in SUBSET (1 .. k - 1) BY <1>1 DEF Group, Adopted
<1>3. 1 \in Int /\ k - 1 \in Int BY <1>1
<1>4. /\ IsFiniteSet(1 .. k - 1)
      /\ Cardinality(1 .. k - 1) = IF 1 > k - 1 THEN 0 ELSE (k - 1) - 1 + 1
  BY <1>3, FS_Interval
<1>5. Cardinality(1 .. k - 1) = k - 1 BY <1>1, <1>4
<1>6. IsFiniteSet(lower) /\ Cardinality(lower) <= Cardinality(1 .. k - 1)
  BY <1>2, <1>4, FS_Subset
<1>7. Cardinality(lower) \in Nat BY <1>6, FS_CardinalityType
<1> QED BY <1>5, <1>6, <1>7 DEF Rank

\* Within a group a later member has a higher rank.
LEMMA RankGrows ==
  ASSUME NEW g \in Adopted, NEW j \in Group(g), NEW k \in Group(g), j < k
  PROVE  Rank(j) < Rank(k)
<1> DEFINE lo == {i \in Group(j) : i < j}
           hi == {i \in Group(k) : i < k}
<1>1. /\ g \in Nat /\ j \in Nat /\ k \in Nat /\ j \in Adopted /\ k \in Adopted
      /\ SameGroup(j, g) /\ SameGroup(k, g)
  BY Numbers DEF Group
<1>2. SameGroup(j, k) BY <1>1 DEF SameGroup
<1>3. \A i \in Adopted : SameGroup(i, j) => SameGroup(i, k)
  BY <1>1, <1>2, Numbers DEF SameGroup
<1>5. lo \in SUBSET hi /\ j \in hi /\ j \notin lo
  <2>1. j \in hi BY <1>1, <1>2 DEF Group
  <2>2. ASSUME NEW i \in lo PROVE i \in hi
    <3>1. i \in Adopted /\ i \in Nat /\ SameGroup(i, k) /\ i < j
      BY <1>3, Numbers DEF Group
    <3>2. i < k BY <1>1, <3>1
    <3> QED BY <3>1, <3>2 DEF Group
  <2>3. ~(j < j) BY <1>1
  <2>4. j \notin lo BY <2>3
  <2> HIDE DEF lo, hi
  <2> QED BY <2>1, <2>2, <2>4
<1>6. IsFiniteSet(hi)
  <2>1. IsFiniteSet(1 .. k - 1) BY <1>1, FS_Interval
  <2>2. hi \in SUBSET (1 .. k - 1) BY <1>1 DEF Group, Adopted
  <2> QED BY <2>1, <2>2, FS_Subset
<1>7. IsFiniteSet(lo) /\ Cardinality(lo) <= Cardinality(hi)
      /\ (Cardinality(lo) = Cardinality(hi) => lo = hi)
  BY <1>5, <1>6, FS_Subset
<1>8. Cardinality(lo) \in Nat /\ Cardinality(hi) \in Nat
  BY <1>6, <1>7, FS_CardinalityType
<1>9. Cardinality(lo) # Cardinality(hi) BY <1>5, <1>7
<1> QED BY <1>7, <1>8, <1>9 DEF Rank

\* The first member of the first group is window.
LEMMA FirstJob == <<"group", 1>> \in Jobs
<1>1. 1 \in Adopted BY Numbers
<1>2. Rank(1) \in Nat /\ Rank(1) <= 1 - 1 BY <1>1, RankBound
<1>3. Rank(1) = 0 BY <1>2
<1> QED BY <1>1, <1>3 DEF Jobs

\* A set of natural numbers that is not empty has a smallest one.
LEMMA Smallest ==
  ASSUME NEW T \in SUBSET Nat, T # {}
  PROVE  \E m \in T : \A k \in T : m <= k
<1> DEFINE R == OpToRel(<, Nat)
<1>1. R = {ss \in Nat \X Nat : ss[1] < ss[2]} BY DEF OpToRel
<1>2. IsWellFoundedOn(R, Nat) BY NatLessThanWellFounded
<1> HIDE DEF R
<1>3. PICK m \in T : \A k \in T : ~ (<<k, m>> \in R) BY <1>2, WFMin
<1>4. ASSUME NEW k \in T, k < m PROVE FALSE
  <2>1. <<k, m>> \in Nat \X Nat /\ <<k, m>>[1] < <<k, m>>[2] BY <1>4
  <2>2. <<k, m>> \in R BY <1>1, <2>1
  <2> QED BY <1>3, <2>2
<1>5. \A k \in T : m \in Nat /\ k \in Nat OBVIOUS
<1> QED BY <1>4, <1>5

\* After a group comes another group, or the application.
LEMMA FollowingJob ==
  ASSUME NEW k \in Adopted
  PROVE  Following(k) \in Jobs
<1> DEFINE later == {j \in Adopted : j > k /\ Rank(j) = 0}
<1>1. CASE later = {}
  <2>1. 1 \in 1 .. Apps BY FdAssumption
  <2> QED BY <1>1, <2>1 DEF Following, Jobs
<1>2. CASE later # {}
  <2>1. later \in SUBSET Nat BY Numbers
  <2>2. \E m \in later : \A i \in later : m <= i BY <1>2, <2>1, Smallest
  <2>3. (CHOOSE j \in later : \A i \in later : j <= i) \in later BY <2>2
  <2> QED BY <1>2, <2>3 DEF Following, Jobs
<1> QED BY <1>1, <1>2

(***************************************************************************)
(* The launcher's descriptors.                                             *)
(***************************************************************************)

Objects == {Free, <<"inherited", 0>>, Fifo(1), Fifo(2)}
           \cup {Listener(k) : k \in Listeners}
           \cup {Conn(c) : c \in 1 .. MaxConns} \cup {Log(j) : j \in Jobs}
Process == [state : {"none", "forked", "running", "gone"},
            table : [Fd -> Objects], moved : Nat,
            from : Fd \cup {-1}, log : Fd \cup {-1}]
LSteps  == {"bind", "sysfs", "input", "log", "fork", "close", "wait", "gone"}

LauncherTyped ==
  /\ fds \in [Fd -> Objects]
  /\ lfd \in [Listeners -> Fd \cup {-1}]
  /\ lstep \in LSteps /\ job \in Jobs
  /\ from \in Fd \cup {-1} /\ logFd \in Fd \cup {-1}
  /\ conns \in 0 .. MaxConns

\* Listeners are bound in their order, each to a higher descriptor.
Placed ==
  /\ \A k \in Listeners : lfd[k] # -1 =>
       /\ lfd[k] >= k + 2
       /\ \A j \in 1 .. k - 1 : lfd[j] # -1 /\ lfd[j] < lfd[k]
  /\ lstep \notin {"bind", "gone"} => \A k \in Listeners : lfd[k] # -1

\* A listener stays where it was bound, and nothing below it is free.
Held ==
  lstep # "gone" =>
    /\ \A m \in 0 .. 2 : m \in Fd /\ fds[m] # Free
    /\ \A k \in Listeners : lfd[k] # -1 =>
         fds[lfd[k]] = Listener(k) /\ \A m \in 0 .. lfd[k] : fds[m] # Free

\* The log of the job about to be forked lies above all listeners.
Logged ==
  lstep = "fork" =>
    /\ logFd \in Fd /\ fds[logFd] = Log(job)
    /\ \A k \in Listeners : lfd[k] < logFd

\* So does the connection being handed over, and there is no other.
Handed ==
  /\ lstep \in {"bind", "sysfs", "input"} => job = <<"group", 1>>
  /\ lstep = "close" => job[1] = "conn"
  /\ job[1] = "conn" /\ lstep \in {"log", "fork", "close"} =>
       /\ from \in Fd /\ fds[from] = Conn(job[2])
       /\ \A k \in Listeners : lfd[k] < from
  /\ \A c \in 1 .. MaxConns : \A n \in Fd : fds[n] = Conn(c) =>
       /\ n = from /\ job = <<"conn", c>>
       /\ lstep \in {"log", "fork", "close"}

LauncherInv == LauncherTyped /\ Placed /\ Held /\ Logged /\ Handed

\* What descriptors refer to can be told apart.
LEMMA Distinct ==
  /\ \A k, c, j : /\ Free # Listener(k) /\ Free # Conn(c) /\ Free # Log(j)
                  /\ Listener(k) # Conn(c) /\ Listener(k) # Log(j)
                  /\ Conn(c) # Log(j)
  /\ \A n, k, c, j : /\ Fifo(n) # Free /\ Fifo(n) # Listener(k)
                     /\ Fifo(n) # Conn(c) /\ Fifo(n) # Log(j)
  /\ \A k, c : /\ <<"inherited", 0>> # Free
               /\ <<"inherited", 0>> # Listener(k)
               /\ <<"inherited", 0>> # Conn(c)
  /\ \A k, j : Listener(k) = Listener(j) => k = j
  /\ \A c, d : Conn(c) = Conn(d) => c = d
BY DEF Free, Listener, Conn, Log, Fifo

LEMMA FdNumbers == /\ Fd \in SUBSET Nat /\ -1 \notin Fd
                   /\ \A n \in Fd : \A m \in 0 .. n : m \in Fd
                   /\ \A k \in Listeners : k \in Nat /\ k >= 1
                        /\ \A j \in 1 .. k - 1 : j \in Listeners /\ j \in Nat
<1>1. MaxFd \in Nat BY FdAssumption
<1>2. Bound + Brokers \in Nat BY Numbers, FdAssumption
<1> QED BY <1>1, <1>2 DEF Fd, Listeners

LEMMA LauncherInit == FdInit => LauncherInv
<1> SUFFICES ASSUME FdInit PROVE LauncherInv
  OBVIOUS
<1>1. PICK s \in Starts :
        fds = [n \in Fd |-> IF n \in s THEN <<"inherited", 0>> ELSE Free]
  BY DEF FdInit
<1>2. s \subseteq Fd /\ 0 .. 2 \subseteq s BY FdAssumption
<1>3. LauncherTyped
  <2>1. fds \in [Fd -> Objects] BY <1>1 DEF Objects
  <2>2. conns \in 0 .. MaxConns BY FdAssumption DEF FdInit
  <2> QED BY <2>1, <2>2, FirstJob DEF FdInit, LauncherTyped, LSteps
<1>4. Placed BY DEF FdInit, Placed
<1>5. Held
  <2>1. \A m \in 0 .. 2 : m \in Fd /\ fds[m] # Free
    BY <1>1, <1>2, Distinct
  <2>2. \A k \in Listeners : lfd[k] = -1 BY DEF FdInit
  <2> QED BY <2>1, <2>2 DEF Held
<1>6. Logged BY DEF FdInit, Logged
<1>7. Handed
  <2>1. \A c \in 1 .. MaxConns : \A n \in Fd : fds[n] # Conn(c)
    BY <1>1, Distinct
  <2> QED BY <2>1 DEF FdInit, Handed
<1> QED BY <1>3, <1>4, <1>5, <1>6, <1>7 DEF LauncherInv

LEMMA BindKeeps ==
  ASSUME LauncherInv, NEW k \in Listeners, BindOne(k)
  PROVE  LauncherInv'
<1> USE DEF LauncherInv
<1>1. PICK n \in Fd : /\ LowestFree(n)
                      /\ fds' = [fds EXCEPT ![n] = Listener(k)]
                      /\ lfd' = [lfd EXCEPT ![k] = n]
  BY DEF BindOne
<1>2. /\ lstep = "bind" /\ lfd[k] = -1 /\ \A j \in 1 .. k - 1 : lfd[j] # -1
      /\ lstep' = IF k + 1 \in Listeners THEN "bind" ELSE "sysfs"
      /\ UNCHANGED <<job, from, logFd, child, conns>>
  BY DEF BindOne
<1>3. /\ fds[n] = Free /\ n \in Nat /\ \A m \in 0 .. n - 1 : fds[m] # Free
      /\ k \in Nat /\ k >= 1
  BY <1>1, FdNumbers DEF LowestFree
<1>4. /\ fds' \in [Fd -> Objects] /\ fds'[n] = Listener(k)
      /\ \A m \in Fd \ {n} : fds'[m] = fds[m]
  BY <1>1 DEF LauncherTyped, Objects
<1>5. /\ lfd' \in [Listeners -> Fd \cup {-1}] /\ lfd'[k] = n
      /\ \A j \in Listeners \ {k} : lfd'[j] = lfd[j]
  BY <1>1 DEF LauncherTyped
<1>6. LauncherTyped' BY <1>2, <1>4, <1>5 DEF LauncherTyped, LSteps
<1>7. \A j \in 1 .. k - 1 : lfd[j] < n
  <2> SUFFICES ASSUME NEW j \in 1 .. k - 1 PROVE lfd[j] < n
    OBVIOUS
  <2>1. j \in Listeners /\ lfd[j] \in Fd
    BY <1>2, <1>3, FdNumbers DEF LauncherTyped
  <2>2. \A m \in 0 .. lfd[j] : fds[m] # Free BY <1>2, <2>1 DEF Held
  <2>3. lfd[j] \in Nat BY <2>1, FdNumbers
  <2>4. n \notin 0 .. lfd[j] BY <1>3, <2>2
  <2> QED BY <1>3, <2>3, <2>4
<1>8. n >= k + 2
  <2>1. CASE k = 1
    <3>1. n \notin 0 .. 2 BY <1>2, <1>3 DEF Held
    <3> QED BY <1>3, <2>1, <3>1
  <2>2. CASE k > 1
    <3>1. k - 1 \in 1 .. k - 1 /\ k - 1 \in Nat BY <1>3, <2>2
    <3>2. k - 1 \in Listeners BY <3>1, FdNumbers
    <3>3. lfd[k - 1] # -1 /\ lfd[k - 1] < n BY <1>2, <1>7, <3>1
    <3>4. lfd[k - 1] >= (k - 1) + 2 BY <3>2, <3>3 DEF Placed
    <3>5. lfd[k - 1] \in Nat BY <3>2, <3>3, FdNumbers DEF LauncherTyped
    <3> QED BY <1>3, <3>3, <3>4, <3>5
  <2> QED BY <1>3, <2>1, <2>2
<1>9. \A i \in Listeners : i > k => lfd[i] = -1
  <2> SUFFICES ASSUME NEW i \in Listeners, i > k, lfd[i] # -1 PROVE FALSE
    OBVIOUS
  <2>1. k \in 1 .. i - 1 BY <1>3, FdNumbers
  <2> QED BY <1>2, <2>1 DEF Placed
<1>10. Placed'
  <2>1. ASSUME NEW i \in Listeners, lfd'[i] # -1
        PROVE  /\ lfd'[i] >= i + 2
               /\ \A j \in 1 .. i - 1 : lfd'[j] # -1 /\ lfd'[j] < lfd'[i]
    <3>1. CASE i = k
      <4>1. \A j \in 1 .. k - 1 : j \in Listeners /\ j # k
        BY <1>3, FdNumbers
      <4> QED BY <1>2, <1>5, <1>7, <1>8, <3>1, <4>1
    <3>2. CASE i # k
      <4>1. i < k BY <1>3, <1>5, <1>9, <2>1, <3>2, FdNumbers
      <4>2. \A j \in 1 .. i - 1 : j \in Listeners /\ j # k
        BY <1>3, <4>1, FdNumbers
      <4> QED BY <1>5, <2>1, <3>2, <4>2 DEF Placed
    <3> QED BY <3>1, <3>2
  <2>2. lstep' \notin {"bind", "gone"} => \A i \in Listeners : lfd'[i] # -1
    <3> SUFFICES ASSUME k + 1 \notin Listeners, NEW i \in Listeners
                 PROVE  lfd'[i] # -1
      BY <1>2
    <3>1. i <= k
      <4>1. Bound + Brokers \in Nat BY Numbers, FdAssumption
      <4> QED BY <1>3, <4>1 DEF Listeners
    <3>2. i = k \/ i \in 1 .. k - 1 BY <1>3, <3>1, FdNumbers
    <3>3. n # -1 BY <1>3
    <3> QED BY <1>2, <1>5, <3>2, <3>3
  <2> QED BY <2>1, <2>2 DEF Placed
<1>11. Held'
  <2>1. \A m \in Fd : fds[m] # Free => fds'[m] # Free /\ fds'[m] = fds[m]
    BY <1>3, <1>4
  <2>2. \A m \in 0 .. 2 : m \in Fd /\ fds'[m] # Free
    BY <1>2, <2>1 DEF Held
  <2>3. ASSUME NEW i \in Listeners, lfd'[i] # -1
        PROVE  fds'[lfd'[i]] = Listener(i) /\ \A m \in 0 .. lfd'[i] : fds'[m] # Free
    <3>1. CASE i = k
      <4>1. \A m \in 0 .. n : m = n \/ m \in 0 .. n - 1 BY <1>3
      <4>2. \A m \in 0 .. n : m \in Fd BY FdNumbers
      <4>3. \A m \in 0 .. n : fds'[m] # Free
        BY <1>3, <1>4, <2>1, <4>1, <4>2, Distinct
      <4> QED BY <1>4, <1>5, <3>1, <4>3
    <3>2. CASE i # k
      <4>1. lfd'[i] = lfd[i] /\ lfd[i] \in Fd
        BY <1>5, <2>3, <3>2 DEF LauncherTyped
      <4>2. fds[lfd[i]] = Listener(i) /\ \A m \in 0 .. lfd[i] : fds[m] # Free
        BY <1>2, <2>3, <4>1 DEF Held
      <4>3. \A m \in 0 .. lfd[i] : m \in Fd BY <4>1, FdNumbers
      <4> QED BY <2>1, <4>1, <4>2, <4>3, Distinct
    <3> QED BY <3>1, <3>2
  <2> QED BY <2>2, <2>3 DEF Held
<1>12. Logged' BY <1>2 DEF Logged
<1>13. Handed'
  <2>1. \A c \in 1 .. MaxConns : \A m \in Fd : fds'[m] # Conn(c)
    BY <1>2, <1>4, Distinct DEF Handed
  <2> QED BY <1>2, <2>1 DEF Handed
<1> QED BY <1>6, <1>10, <1>11, <1>12, <1>13

\* What is free lies above every listener.
LEMMA FreeIsAbove ==
  ASSUME LauncherInv, lstep \notin {"bind", "gone"}, NEW n \in Fd,
         fds[n] = Free
  PROVE  \A k \in Listeners : lfd[k] < n
<1> SUFFICES ASSUME NEW k \in Listeners PROVE lfd[k] < n
  OBVIOUS
<1> USE DEF LauncherInv
<1>1. lfd[k] # -1 /\ lfd[k] \in Fd BY DEF Placed, LauncherTyped
<1>2. \A m \in 0 .. lfd[k] : fds[m] # Free BY <1>1 DEF Held
<1>3. n \notin 0 .. lfd[k] BY <1>2
<1>4. n \in Nat /\ lfd[k] \in Nat BY <1>1, FdNumbers
<1> QED BY <1>3, <1>4

\* Taking what is free leaves the listeners where they are.
LEMMA HeldWhenTaken ==
  ASSUME LauncherInv, lstep # "gone", lfd' = lfd,
         \A n \in Fd : fds[n] # Free => fds'[n] = fds[n]
  PROVE  Held'
<1> USE DEF LauncherInv
<1>1. \A m \in 0 .. 2 : m \in Fd /\ fds'[m] # Free BY DEF Held
<1>2. ASSUME NEW k \in Listeners, lfd[k] # -1
      PROVE  fds'[lfd[k]] = Listener(k) /\ \A m \in 0 .. lfd[k] : fds'[m] # Free
  <2>1. lfd[k] \in Fd BY <1>2 DEF LauncherTyped
  <2>2. fds[lfd[k]] = Listener(k) /\ \A m \in 0 .. lfd[k] : fds[m] # Free
    BY <1>2 DEF Held
  <2>3. \A m \in 0 .. lfd[k] : m \in Fd BY <2>1, FdNumbers
  <2> QED BY <2>1, <2>2, <2>3, Distinct
<1> QED BY <1>1, <1>2 DEF Held

\* So does freeing what lies above them.
LEMMA HeldWhenFreed ==
  ASSUME LauncherInv, lstep \notin {"bind", "gone"}, lfd' = lfd, NEW n \in Fd,
         \A k \in Listeners : lfd[k] < n,
         \A m \in Fd \ {n} : fds'[m] = fds[m]
  PROVE  Held'
<1> USE DEF LauncherInv
<1>1. 1 \in Listeners /\ n \in Nat BY Numbers, FdNumbers
<1>2. lfd[1] # -1 /\ lfd[1] >= 1 + 2 /\ lfd[1] < n /\ lfd[1] \in Fd
  BY <1>1 DEF Placed, LauncherTyped
<1>3. lfd[1] \in Nat BY <1>2, FdNumbers
<1>4. n > 2 BY <1>1, <1>2, <1>3
<1>5. \A m \in 0 .. 2 : m \in Fd /\ fds'[m] # Free BY <1>4 DEF Held
<1>6. ASSUME NEW k \in Listeners, lfd[k] # -1
      PROVE  fds'[lfd[k]] = Listener(k) /\ \A m \in 0 .. lfd[k] : fds'[m] # Free
  <2>1. lfd[k] \in Fd /\ lfd[k] \in Nat /\ lfd[k] < n
    BY <1>6, FdNumbers DEF LauncherTyped
  <2>2. fds[lfd[k]] = Listener(k) /\ \A m \in 0 .. lfd[k] : fds[m] # Free
    BY <1>6 DEF Held
  <2>3. \A m \in 0 .. lfd[k] : m \in Fd /\ m # n BY <1>1, <2>1, FdNumbers
  <2>4. lfd[k] # n BY <1>1, <2>1
  <2> QED BY <2>1, <2>2, <2>3, <2>4
<1> QED BY <1>5, <1>6 DEF Held

LEMMA SysDataKeeps == LauncherInv /\ SysData => LauncherInv'
<1> SUFFICES ASSUME LauncherInv, SysData PROVE LauncherInv'
  OBVIOUS
<1> USE DEF LauncherInv
<1>1. /\ lstep = "sysfs" /\ lstep' = "input"
      /\ UNCHANGED <<fds, lfd, job, from, logFd, child, conns>>
  BY DEF SysData
<1>2. LauncherTyped' BY <1>1 DEF LauncherTyped, LSteps
<1>3. Placed' BY <1>1 DEF Placed
<1>4. Held' BY <1>1 DEF Held
<1>5. Logged' BY <1>1 DEF Logged
<1>6. Handed' BY <1>1 DEF Handed
<1> QED BY <1>2, <1>3, <1>4, <1>5, <1>6

LEMMA NoInputKeeps == LauncherInv /\ NoInput => LauncherInv'
<1> SUFFICES ASSUME LauncherInv, NoInput PROVE LauncherInv'
  OBVIOUS
<1> USE DEF LauncherInv
<1>1. /\ lstep = "input" /\ lstep' = "log"
      /\ UNCHANGED <<fds, lfd, job, from, logFd, child, conns>>
  BY DEF NoInput
<1>2. LauncherTyped' BY <1>1 DEF LauncherTyped, LSteps
<1>3. Placed' BY <1>1 DEF Placed
<1>4. Held' BY <1>1 DEF Held
<1>5. Logged' BY <1>1 DEF Logged
<1>6. Handed' BY <1>1 DEF Handed
<1> QED BY <1>2, <1>3, <1>4, <1>5, <1>6

LEMMA OpenInputKeeps == LauncherInv /\ OpenInput => LauncherInv'
<1> SUFFICES ASSUME LauncherInv, OpenInput PROVE LauncherInv'
  OBVIOUS
<1> USE DEF LauncherInv
<1>1. /\ lstep = "input" /\ lstep' = "log"
      /\ UNCHANGED <<lfd, job, from, logFd, child, conns>>
  BY DEF OpenInput
<1>2. PICK n, m \in Fd :
        /\ fds[n] = Free /\ m > n /\ fds[m] = Free
        /\ fds' = [fds EXCEPT ![n] = Fifo(1), ![m] = Fifo(2)]
  BY DEF OpenInput, LowestFree
<1>3. /\ fds' \in [Fd -> Objects]
      /\ \A i \in Fd \ {n, m} : fds'[i] = fds[i]
      /\ fds'[n] \in {Fifo(1), Fifo(2)} /\ fds'[m] \in {Fifo(1), Fifo(2)}
  BY <1>2 DEF LauncherTyped, Objects
<1>4. LauncherTyped' BY <1>1, <1>3 DEF LauncherTyped, LSteps
<1>5. Placed' BY <1>1 DEF Placed
<1>6. Held' BY <1>1, <1>2, <1>3, HeldWhenTaken
<1>7. Logged' BY <1>1 DEF Logged
<1>8. Handed'
  <2>1. \A c \in 1 .. MaxConns : \A i \in Fd : fds'[i] # Conn(c)
    BY <1>1, <1>3, Distinct DEF Handed
  <2>2. job[1] # "conn" BY <1>1 DEF Handed
  <2> QED BY <1>1, <2>1, <2>2 DEF Handed
<1> QED BY <1>4, <1>5, <1>6, <1>7, <1>8

LEMMA OpenLogKeeps == LauncherInv /\ OpenLog => LauncherInv'
<1> SUFFICES ASSUME LauncherInv, OpenLog PROVE LauncherInv'
  OBVIOUS
<1> USE DEF LauncherInv
<1>1. /\ lstep = "log" /\ lstep' = "fork"
      /\ UNCHANGED <<lfd, job, from, child, conns>>
  BY DEF OpenLog
<1>2. PICK n \in Fd : fds[n] = Free /\ logFd' = n
                      /\ fds' = [fds EXCEPT ![n] = Log(job)]
  BY DEF OpenLog, LowestFree
<1>3. /\ fds' \in [Fd -> Objects] /\ fds'[n] = Log(job)
      /\ \A i \in Fd \ {n} : fds'[i] = fds[i]
  BY <1>2 DEF LauncherTyped, Objects
<1>4. LauncherTyped' BY <1>1, <1>2, <1>3 DEF LauncherTyped, LSteps
<1>5. Placed' BY <1>1 DEF Placed
<1>6. Held' BY <1>1, <1>2, <1>3, HeldWhenTaken
<1>7. Logged' BY <1>1, <1>2, <1>3, FreeIsAbove DEF Logged
<1>8. Handed'
  <2>1. job[1] = "conn" => from # n BY <1>1, <1>2, Distinct DEF Handed
  <2>2. \A c \in 1 .. MaxConns : \A i \in Fd :
          fds'[i] = Conn(c) => fds[i] = Conn(c)
    BY <1>3, Distinct
  <2> QED BY <1>1, <1>3, <2>1, <2>2 DEF Handed
<1> QED BY <1>4, <1>5, <1>6, <1>7, <1>8

\* When the launcher exits its table goes with it.
LEMMA GoneKeeps ==
  ASSUME LauncherInv, OutOfDescriptors \/ ForkFails \/ SysFails
  PROVE  LauncherInv'
<1> USE DEF LauncherInv
<1>1. /\ lstep' = "gone" /\ fds' = [n \in Fd |-> Free]
      /\ UNCHANGED <<lfd, job, from, logFd, child, conns>>
  BY DEF OutOfDescriptors, ForkFails, SysFails
<1>2. LauncherTyped' BY <1>1 DEF LauncherTyped, LSteps, Objects
<1>3. Placed' BY <1>1 DEF Placed
<1>4. Held' BY <1>1 DEF Held
<1>5. Logged' BY <1>1 DEF Logged
<1>6. Handed' BY <1>1, Distinct DEF Handed
<1> QED BY <1>2, <1>3, <1>4, <1>5, <1>6

LEMMA ForkKeeps == LauncherInv /\ ForkJob => LauncherInv'
<1> SUFFICES ASSUME LauncherInv, ForkJob PROVE LauncherInv'
  OBVIOUS
<1> USE DEF LauncherInv
<1>1. /\ lstep = "fork" /\ lstep' \in {"log", "wait", "close"}
      /\ fds' = [fds EXCEPT ![logFd] = Free] /\ logFd' = -1
      /\ UNCHANGED <<lfd, from, conns>>
  BY DEF ForkJob
<1>2. /\ logFd \in Fd /\ fds[logFd] = Log(job)
      /\ \A k \in Listeners : lfd[k] < logFd
  BY <1>1 DEF Logged
<1>3. /\ fds' \in [Fd -> Objects] /\ fds'[logFd] = Free
      /\ \A n \in Fd \ {logFd} : fds'[n] = fds[n]
  BY <1>1, <1>2 DEF LauncherTyped, Objects
<1>4. \/ job[1] = "group" /\ lstep' = "log" /\ job' = Following(job[2])
      \/ job[1] = "app" /\ lstep' = "wait" /\ job' = job
      \/ job[1] = "conn" /\ lstep' = "close" /\ job' = job
  BY DEF ForkJob
<1>5. job' \in Jobs
  <2>1. job[1] = "group" => job[2] \in Adopted BY DEF LauncherTyped, Jobs
  <2> QED BY <1>4, <2>1, FollowingJob DEF LauncherTyped
<1>6. LauncherTyped' BY <1>1, <1>3, <1>5 DEF LauncherTyped, LSteps
<1>7. Placed' BY <1>1 DEF Placed
<1>8. Held' BY <1>1, <1>2, <1>3, HeldWhenFreed
<1>9. Logged' BY <1>1 DEF Logged
<1>10. Handed'
  <2>1. \A c \in 1 .. MaxConns : \A n \in Fd :
          fds'[n] = Conn(c) => fds[n] = Conn(c) /\ n # logFd
    BY <1>3, Distinct
  <2>2. \A c \in 1 .. MaxConns : \A n \in Fd :
          fds'[n] = Conn(c) => n = from /\ job = <<"conn", c>>
    BY <2>1 DEF Handed
  <2>3. CASE job[1] = "group"
    <3>1. lstep' = "log" /\ job' = Following(job[2]) BY <1>4, <2>3
    <3>2. job'[1] # "conn"
      BY <3>1 DEF Following
    <3>3. \A c \in 1 .. MaxConns : \A n \in Fd : fds'[n] # Conn(c)
      BY <2>2, <2>3
    <3> QED BY <3>1, <3>2, <3>3 DEF Handed
  <2>4. CASE job[1] = "app"
    <3>1. lstep' = "wait" BY <1>4, <2>4
    <3>2. \A c \in 1 .. MaxConns : \A n \in Fd : fds'[n] # Conn(c)
      BY <2>2, <2>4
    <3> QED BY <3>1, <3>2 DEF Handed
  <2>5. CASE job[1] = "conn"
    <3>1. lstep' = "close" /\ job' = job BY <1>4, <2>5
    <3>2. from \in Fd /\ fds[from] = Conn(job[2])
          /\ \A k \in Listeners : lfd[k] < from
      BY <1>1, <2>5 DEF Handed
    <3>3. from # logFd BY <1>2, <3>2, Distinct
    <3> QED BY <1>1, <1>3, <2>2, <2>5, <3>1, <3>2, <3>3 DEF Handed
  <2> QED BY <1>4, <2>3, <2>4, <2>5
<1> QED BY <1>6, <1>7, <1>8, <1>9, <1>10

LEMMA CloseKeeps == LauncherInv /\ CloseConn => LauncherInv'
<1> SUFFICES ASSUME LauncherInv, CloseConn PROVE LauncherInv'
  OBVIOUS
<1> USE DEF LauncherInv
<1>1. /\ lstep = "close" /\ lstep' = "wait"
      /\ fds' = [fds EXCEPT ![from] = Free] /\ from' = -1
      /\ UNCHANGED <<lfd, job, logFd, child, conns>>
  BY DEF CloseConn
<1>2. from \in Fd /\ \A k \in Listeners : lfd[k] < from BY <1>1 DEF Handed
<1>3. /\ fds' \in [Fd -> Objects] /\ fds'[from] = Free
      /\ \A n \in Fd \ {from} : fds'[n] = fds[n]
  BY <1>1, <1>2 DEF LauncherTyped, Objects
<1>4. LauncherTyped' BY <1>1, <1>3 DEF LauncherTyped, LSteps
<1>5. Placed' BY <1>1 DEF Placed
<1>6. Held' BY <1>1, <1>2, <1>3, HeldWhenFreed
<1>7. Logged' BY <1>1 DEF Logged
<1>8. Handed'
  <2>1. \A c \in 1 .. MaxConns : \A n \in Fd : fds'[n] # Conn(c)
    BY <1>3, Distinct DEF Handed
  <2> QED BY <1>1, <2>1 DEF Handed
<1> QED BY <1>4, <1>5, <1>6, <1>7, <1>8

LEMMA AcceptKeeps == LauncherInv /\ Accept => LauncherInv'
<1> SUFFICES ASSUME LauncherInv, Accept PROVE LauncherInv'
  OBVIOUS
<1> USE DEF LauncherInv
<1>1. /\ lstep = "wait" /\ lstep' = "log" /\ conns < MaxConns
      /\ conns' = conns + 1 /\ job' = <<"conn", conns + 1>>
      /\ UNCHANGED <<lfd, logFd, child>>
  BY DEF Accept
<1>2. PICK n \in Fd : fds[n] = Free /\ from' = n
                      /\ fds' = [fds EXCEPT ![n] = Conn(conns + 1)]
  BY DEF Accept, LowestFree
<1>3. conns + 1 \in 1 .. MaxConns
  <2>1. conns \in Nat /\ MaxConns \in Nat BY FdAssumption DEF LauncherTyped
  <2> QED BY <1>1, <2>1
<1>4. /\ fds' \in [Fd -> Objects] /\ fds'[n] = Conn(conns + 1)
      /\ \A i \in Fd \ {n} : fds'[i] = fds[i]
  BY <1>2, <1>3 DEF LauncherTyped, Objects
<1>5. LauncherTyped'
  <2>1. job' \in Jobs BY <1>1, <1>3 DEF Jobs
  <2>2. conns' \in 0 .. MaxConns BY <1>1, <1>3
  <2> QED BY <1>1, <1>2, <1>4, <2>1, <2>2 DEF LauncherTyped, LSteps
<1>6. Placed' BY <1>1 DEF Placed
<1>7. Held' BY <1>1, <1>2, <1>4, HeldWhenTaken
<1>8. Logged' BY <1>1 DEF Logged
<1>9. Handed'
  <2>1. \A k \in Listeners : lfd[k] < n BY <1>1, <1>2, FreeIsAbove
  <2>2. \A c \in 1 .. MaxConns : \A i \in Fd : fds[i] # Conn(c)
    BY <1>1 DEF Handed
  <2>3. \A c \in 1 .. MaxConns : \A i \in Fd :
          fds'[i] = Conn(c) => i = n /\ c = conns + 1
    BY <1>4, <2>2, Distinct
  <2>4. job'[2] = conns + 1 BY <1>1
  <2> QED BY <1>1, <1>2, <1>4, <2>1, <2>3, <2>4 DEF Handed
<1> QED BY <1>5, <1>6, <1>7, <1>8, <1>9

LEMMA CoAppKeeps == LauncherInv /\ SpawnCoApp => LauncherInv'
<1> SUFFICES ASSUME LauncherInv, SpawnCoApp PROVE LauncherInv'
  OBVIOUS
<1> USE DEF LauncherInv
<1>1. /\ lstep = "wait" /\ lstep' = "log"
      /\ UNCHANGED <<fds, lfd, from, logFd, child, conns>>
  BY DEF SpawnCoApp
<1>2. PICK a \in 2 .. Apps : job' = <<"app", a>> BY DEF SpawnCoApp
<1>3. job' \in Jobs
  <2>1. a \in 1 .. Apps BY FdAssumption
  <2> QED BY <1>2, <2>1 DEF Jobs
<1>4. LauncherTyped' BY <1>1, <1>3 DEF LauncherTyped, LSteps
<1>5. Placed' BY <1>1 DEF Placed
<1>6. Held' BY <1>1 DEF Held
<1>7. Logged' BY <1>1 DEF Logged
<1>8. Handed'
  <2>1. \A c \in 1 .. MaxConns : \A i \in Fd : fds'[i] # Conn(c)
    BY <1>1 DEF Handed
  <2> QED BY <1>1, <1>2, <2>1 DEF Handed
<1> QED BY <1>4, <1>5, <1>6, <1>7, <1>8

(***************************************************************************)
(* The children's descriptors.                                             *)
(***************************************************************************)

\* Where a child that has moved some of its listeners finds each.
Source(j, k) ==
  IF Rank(k) < child[j].moved THEN 3 + Rank(k) ELSE lfd[k]

\* A child on its way to exec has its log above all listeners, and its sockets
\* either where the launcher had them or already in their place.
OnItsWay(j) ==
  child[j].state = "forked" =>
    /\ child[j].log \in Fd /\ child[j].table[child[j].log] = Log(j)
    /\ \A k \in Listeners : lfd[k] # -1 /\ lfd[k] < child[j].log
    /\ j[1] = "group" =>
         \A k \in Group(j[2]) : child[j].table[Source(j, k)] = Listener(k)
    /\ j[1] = "conn" =>
         /\ child[j].from \in Fd /\ \A k \in Listeners : lfd[k] < child[j].from
         /\ child[j].moved \in {0, 1}
         /\ child[j].moved = 0 => child[j].table[child[j].from] = Conn(j[2])
         /\ child[j].moved = 1 => child[j].table[3] = Conn(j[2])

Equipped(j) ==
  child[j].state = "running" =>
    /\ child[j].table[2] = Log(j)
    /\ j[1] = "group" =>
         \A k \in Group(j[2]) : child[j].table[3 + Rank(k)] = Listener(k)
    /\ j[1] = "conn" => child[j].table[3] = Conn(j[2])

\* No other child than its instance holds a connection.
Discreet(j) ==
  \A c \in 1 .. MaxConns : \A n \in Fd :
    child[j].table[n] = Conn(c) => j = <<"conn", c>>

ChildInv ==
  /\ child \in [Jobs -> Process]
  /\ \A j \in Jobs : OnItsWay(j) /\ Equipped(j) /\ Discreet(j)

FdInv == LauncherInv /\ ChildInv

\* A place a listener is moved to lies at or below the listener, hence below
\* the log, and above stderr.
LEMMA Places ==
  ASSUME LauncherInv, NEW j \in Jobs, j[1] = "group", OnItsWay(j),
         child[j].state = "forked", NEW k \in Group(j[2])
  PROVE  /\ j[2] \in Adopted /\ k \in Listeners /\ k \in Adopted
         /\ Rank(k) \in Nat /\ lfd[k] \in Fd /\ lfd[k] \in Nat
         /\ 3 + Rank(k) \in Fd /\ 3 + Rank(k) <= lfd[k]
         /\ lfd[k] < child[j].log /\ child[j].log \in Nat
<1>1. j[2] \in Adopted BY DEF Jobs
<1>2. k \in Adopted /\ k \in Listeners /\ k \in Nat BY Numbers DEF Group
<1>3. Rank(k) \in Nat /\ Rank(k) <= k - 1 BY <1>2, RankBound
<1>4. /\ lfd[k] # -1 /\ lfd[k] < child[j].log /\ child[j].log \in Fd
      /\ lfd[k] >= k + 2 /\ lfd[k] \in Fd
  BY <1>2 DEF OnItsWay, LauncherInv, LauncherTyped, Placed
<1>5. lfd[k] \in Nat /\ child[j].log \in Nat BY <1>4, FdNumbers
<1>6. 3 + Rank(k) <= lfd[k] BY <1>2, <1>3, <1>4, <1>5
<1>7. 3 + Rank(k) \in 0 .. lfd[k] BY <1>3, <1>5, <1>6
<1> QED BY <1>1, <1>2, <1>3, <1>4, <1>5, <1>6, <1>7, FdNumbers

\* What is above a child's listeners is above descriptor 3.
LEMMA AboveThree ==
  ASSUME LauncherInv, NEW n \in Fd,
         \A k \in Listeners : lfd[k] # -1 /\ lfd[k] < n
  PROVE  3 \in Fd /\ n > 3
<1>1. 1 \in Listeners BY Numbers
<1>2. lfd[1] # -1 /\ lfd[1] < n /\ lfd[1] >= 1 + 2 /\ lfd[1] \in Fd
  BY <1>1 DEF LauncherInv, Placed, LauncherTyped
<1>3. lfd[1] \in Nat /\ n \in Nat BY <1>2, FdNumbers
<1>4. 3 \in 0 .. n /\ n > 3 BY <1>2, <1>3
<1> QED BY <1>4, FdNumbers

\* A step that leaves the children and the places of bound listeners alone.
LEMMA ChildInvKept ==
  ASSUME FdInv, child' = child,
         lfd' = lfd \/ \E k \in Listeners : lfd[k] = -1
  PROVE  ChildInv'
<1> USE DEF FdInv, ChildInv
<1>1. ASSUME NEW j \in Jobs
      PROVE  OnItsWay(j)' /\ Equipped(j)' /\ Discreet(j)'
  <2>1. Equipped(j)' /\ Discreet(j)' BY DEF Equipped, Discreet
  <2>2. CASE lfd' = lfd BY <2>1, <2>2 DEF OnItsWay, Source
  <2>3. CASE \E k \in Listeners : lfd[k] = -1
    <3>1. child[j].state # "forked" BY <2>3 DEF OnItsWay
    <3> QED BY <2>1, <3>1 DEF OnItsWay
  <2> QED BY <2>1, <2>2, <2>3
<1> QED BY <1>1

\* One turn of the dup2 loop.
LEMMA MoveKeeps ==
  ASSUME FdInv, NEW j \in Jobs, MoveNext(j)
  PROVE  FdInv'
<1> USE DEF FdInv, ChildInv
<1> DEFINE p == child[j]
           to == 3 + p.moved
<1>1. PICK k \in Unmoved(j) :
        LET source == IF j[1] = "conn" THEN p.from ELSE lfd[k] IN
        /\ j[1] = "group" => Rank(k) = p.moved
        /\ child' = [child EXCEPT
             ![j].table = [@ EXCEPT ![to] = p.table[source]],
             ![j].moved = @ + 1]
  BY DEF MoveNext
<1>2. p.state = "forked" /\ UNCHANGED <<fds, lfd, lstep, job, from, logFd, conns>>
  BY DEF MoveNext
<1> DEFINE source == IF j[1] = "conn" THEN p.from ELSE lfd[k]
<1>3. p \in Process OBVIOUS
<1>4. \/ j[1] = "group" /\ k \in Group(j[2]) /\ Rank(k) = p.moved
      \/ j[1] = "conn" /\ p.moved = 0
  BY <1>1 DEF Unmoved
<1>5. source \in Fd /\ to \in Fd /\ to # p.log /\ to > 2
      /\ p.table[source] = IF j[1] = "conn" THEN Conn(j[2]) ELSE Listener(k)
  <2>1. CASE j[1] = "group" /\ k \in Group(j[2]) /\ Rank(k) = p.moved
    <3>1. /\ Rank(k) \in Nat /\ lfd[k] \in Fd /\ lfd[k] \in Nat
          /\ 3 + Rank(k) \in Fd /\ 3 + Rank(k) <= lfd[k]
          /\ lfd[k] < p.log /\ p.log \in Nat
      BY <1>2, <2>1, Places
    <3>2. Source(j, k) = lfd[k] BY <2>1, <3>1 DEF Source
    <3>3. p.table[lfd[k]] = Listener(k) BY <1>2, <2>1, <3>2 DEF OnItsWay
    <3> QED BY <2>1, <3>1, <3>3
  <2>2. CASE j[1] = "conn" /\ p.moved = 0
    <3>1. p.from \in Fd /\ p.table[p.from] = Conn(j[2]) BY <1>2, <2>2 DEF OnItsWay
    <3>2. 3 \in Fd /\ p.log > 3 /\ p.log \in Fd
      BY <1>2, AboveThree DEF OnItsWay
    <3>3. p.log \in Nat BY <3>2, FdNumbers
    <3> QED BY <2>2, <3>1, <3>2, <3>3
  <2> QED BY <1>4, <2>1, <2>2
<1> DEFINE q == [p EXCEPT !.table = [p.table EXCEPT ![to] = p.table[source]],
                          !.moved = p.moved + 1]
<1>6. child' = [child EXCEPT ![j] = q] BY <1>1
<1>7. /\ q \in Process /\ q.state = "forked" /\ q.log = p.log
      /\ q.from = p.from /\ q.moved = p.moved + 1
      /\ q.table[to] = p.table[source]
      /\ \A n \in Fd \ {to} : q.table[n] = p.table[n]
  <2> DEFINE t == [p.table EXCEPT ![to] = p.table[source]]
  <2>1. p.table \in [Fd -> Objects] /\ p.moved \in Nat BY <1>3 DEF Process
  <2>2. /\ t \in [Fd -> Objects] /\ t[to] = p.table[source]
        /\ \A n \in Fd \ {to} : t[n] = p.table[n]
    BY <1>5, <2>1
  <2>3. q = [p EXCEPT !.table = t, !.moved = p.moved + 1] OBVIOUS
  <2> HIDE DEF t, p, to, source, q
  <2>4. /\ q.state = p.state /\ q.log = p.log
        /\ q.from = p.from /\ q.moved = p.moved + 1 /\ q.table = t
    BY <1>3, <2>3 DEF Process
  <2>5. p.moved + 1 \in Nat BY <2>1
  <2>6. q = [state |-> p.state, table |-> t, moved |-> p.moved + 1,
             from |-> p.from, log |-> p.log]
    BY <1>3, <2>3 DEF Process
  <2>7. q \in Process BY <1>3, <2>2, <2>5, <2>6 DEF Process
  <2> QED BY <1>2, <2>2, <2>4, <2>7 DEF p
<1>8. /\ child' \in [Jobs -> Process] /\ child'[j] = q
      /\ \A i \in Jobs \ {j} : child'[i] = child[i]
  BY <1>6, <1>7
<1> HIDE DEF q
<1>9. LauncherInv'
  BY <1>2 DEF LauncherInv, LauncherTyped, Placed, Held, Logged, Handed
<1>10. ASSUME NEW i \in Jobs, i # j
       PROVE  OnItsWay(i)' /\ Equipped(i)' /\ Discreet(i)'
  BY <1>2, <1>8, <1>10 DEF OnItsWay, Equipped, Discreet, Source
<1>11. Equipped(j)' BY <1>7, <1>8 DEF Equipped
<1>12. Discreet(j)'
  <2>1. p.table[source] = q.table[to] /\ source \in Fd BY <1>5, <1>7
  <2> HIDE DEF source, to
  <2> QED BY <1>7, <1>8, <2>1 DEF Discreet
<1>13. OnItsWay(j)'
  <2>1. /\ q.log \in Fd /\ q.table[q.log] = Log(j)
        /\ \A i \in Listeners : lfd'[i] # -1 /\ lfd'[i] < q.log
    BY <1>2, <1>5, <1>7 DEF OnItsWay
  <2>2. CASE j[1] = "group" /\ k \in Group(j[2]) /\ Rank(k) = p.moved
    <3>1. ASSUME NEW i \in Group(j[2])
          PROVE  q.table[Source(j, i)'] = Listener(i)
      <4>1. /\ Rank(i) \in Nat /\ lfd[i] \in Fd /\ lfd[i] \in Nat
            /\ 3 + Rank(i) \in Fd /\ 3 + Rank(i) <= lfd[i]
            /\ i \in Nat /\ i \in Listeners
        BY <1>2, <2>2, Places, Numbers
      <4>2. /\ Rank(k) \in Nat /\ lfd[k] \in Fd /\ lfd[k] \in Nat
            /\ 3 + Rank(k) <= lfd[k] /\ k \in Nat /\ k \in Listeners
            /\ j[2] \in Adopted
        BY <1>2, <2>2, Places, Numbers
      <4>3. p.table[Source(j, i)] = Listener(i) BY <1>2, <2>2 DEF OnItsWay
      <4>4. Source(j, i)' = IF Rank(i) < p.moved + 1 THEN 3 + Rank(i) ELSE lfd[i]
        BY <1>2, <1>7, <1>8 DEF Source
      <4>5. CASE i = k
        BY <1>5, <1>7, <2>2, <4>2, <4>4, <4>5
      <4>6. CASE i < k
        <5>1. Rank(i) < Rank(k) BY <2>2, <4>2, <4>6, RankGrows
        <5>2. Source(j, i) = 3 + Rank(i) /\ Source(j, i)' = 3 + Rank(i)
          BY <2>2, <4>1, <4>2, <4>4, <5>1 DEF Source
        <5>3. 3 + Rank(i) # to BY <2>2, <4>1, <4>2, <5>1
        <5> QED BY <1>7, <4>1, <4>3, <5>2, <5>3
      <4>7. CASE i > k
        <5>1. Rank(k) < Rank(i) BY <2>2, <4>2, <4>7, RankGrows
        <5>2. Source(j, i) = lfd[i] /\ Source(j, i)' = lfd[i]
          BY <2>2, <4>1, <4>2, <4>4, <5>1 DEF Source
        <5>3. k \in 1 .. i - 1 BY <4>1, <4>2, <4>7, FdNumbers
        <5>4. lfd[i] # -1 BY <4>1
        <5>5. lfd[k] < lfd[i] BY <4>1, <5>3, <5>4 DEF LauncherInv, Placed
        <5>6. lfd[i] # to BY <2>2, <4>1, <4>2, <5>5
        <5> QED BY <1>7, <4>1, <4>3, <5>2, <5>6
      <4> QED BY <4>1, <4>2, <4>5, <4>6, <4>7
    <3> QED BY <1>8, <2>1, <2>2, <3>1 DEF OnItsWay
  <2>3. CASE j[1] = "conn" /\ p.moved = 0
    <3>1. /\ q.moved = 1 /\ q.table[3] = Conn(j[2]) /\ q.from \in Fd
          /\ \A i \in Listeners : lfd'[i] < q.from
      BY <1>2, <1>5, <1>7, <2>3 DEF OnItsWay
    <3> QED BY <1>8, <2>1, <2>3, <3>1 DEF OnItsWay
  <2> QED BY <1>4, <2>2, <2>3
<1> QED BY <1>8, <1>9, <1>10, <1>11, <1>12, <1>13

\* A step that changes one child only.
LEMMA OneChild ==
  ASSUME FdInv, NEW j \in Jobs, NEW q \in Process,
         child' = [child EXCEPT ![j] = q], lfd' = lfd,
         OnItsWay(j)', Equipped(j)', Discreet(j)'
  PROVE  ChildInv'
<1> USE DEF FdInv, ChildInv
<1>1. /\ child' \in [Jobs -> Process]
      /\ \A i \in Jobs \ {j} : child'[i] = child[i]
  OBVIOUS
<1>2. ASSUME NEW i \in Jobs, i # j
      PROVE  OnItsWay(i)' /\ Equipped(i)' /\ Discreet(i)'
  BY <1>1, <1>2 DEF OnItsWay, Equipped, Discreet, Source
<1> QED BY <1>1, <1>2

\* The log goes to stderr, and the program starts.
LEMMA ExecKeeps ==
  ASSUME FdInv, NEW j \in Jobs, ExecJob(j)
  PROVE  FdInv'
<1> USE DEF FdInv, ChildInv
<1> DEFINE p == child[j]
           t == [p.table EXCEPT ![2] = p.table[p.log], ![p.log] = Free]
           q == [p EXCEPT !.table = t, !.state = "running"]
<1>1. /\ p.state = "forked" /\ Unmoved(j) = {}
      /\ child' = [child EXCEPT ![j] = q]
      /\ UNCHANGED <<fds, lfd, lstep, job, from, logFd, conns>>
  BY DEF ExecJob
<1>2. p \in Process OBVIOUS
<1>3. /\ p.log \in Fd /\ p.table[p.log] = Log(j)
      /\ \A k \in Listeners : lfd[k] # -1 /\ lfd[k] < p.log
  BY <1>1 DEF OnItsWay
<1>4. 3 \in Fd /\ p.log > 3 /\ p.log \in Nat
  BY <1>3, AboveThree, FdNumbers
<1>5. 2 \in Fd BY <1>4, FdNumbers
<1>6. /\ t \in [Fd -> Objects] /\ t[2] = Log(j) /\ t[p.log] = Free
      /\ \A n \in Fd \ {2, p.log} : t[n] = p.table[n]
  <2>1. p.table \in [Fd -> Objects] BY <1>2 DEF Process
  <2>2. Free \in Objects BY DEF Objects
  <2>3. p.log # 2 BY <1>4
  <2> HIDE DEF p
  <2> QED BY <1>3, <1>5, <2>1, <2>2, <2>3
<1>7. q \in Process /\ q.table = t /\ q.state = "running"
  <2>1. q = [p EXCEPT !.table = t, !.state = "running"] OBVIOUS
  <2> HIDE DEF p, t, q
  <2>2. q = [state |-> "running", table |-> t, moved |-> p.moved,
             from |-> p.from, log |-> p.log]
    BY <1>2, <2>1 DEF Process
  <2> QED BY <1>2, <1>6, <2>2 DEF Process
<1>8. child'[j] = q BY <1>1
<1>9. OnItsWay(j)' BY <1>7, <1>8 DEF OnItsWay
<1>10. Discreet(j)'
  <2>1. \A c \in 1 .. MaxConns : \A n \in Fd :
          t[n] = Conn(c) => p.table[n] = Conn(c)
    <3> HIDE DEF p, t
    <3> QED BY <1>6, Distinct
  <2> HIDE DEF q, t
  <2> QED BY <1>7, <1>8, <2>1 DEF Discreet
<1>11. Equipped(j)'
  <2>1. CASE j[1] = "group"
    <3>1. ASSUME NEW k \in Group(j[2]) PROVE t[3 + Rank(k)] = Listener(k)
      <4>1. /\ Rank(k) \in Nat /\ lfd[k] \in Nat
            /\ 3 + Rank(k) \in Fd /\ 3 + Rank(k) <= lfd[k] /\ lfd[k] < p.log
        BY <1>1, <2>1, Places
      <4>2. Rank(k) < p.moved
        <5>1. ~(Rank(k) >= p.moved) BY <1>1, <2>1 DEF Unmoved
        <5>2. p.moved \in Nat BY <1>2 DEF Process
        <5> HIDE DEF p
        <5> QED BY <4>1, <5>1, <5>2
      <4>3. p.table[3 + Rank(k)] = Listener(k)
        BY <1>1, <2>1, <4>2 DEF OnItsWay, Source
      <4>4. 3 + Rank(k) # 2 /\ 3 + Rank(k) # p.log BY <1>4, <4>1
      <4> HIDE DEF p, t
      <4> QED BY <1>6, <4>1, <4>3, <4>4
    <3> HIDE DEF q, t
    <3> QED BY <1>6, <1>7, <1>8, <2>1, <3>1 DEF Equipped
  <2>2. CASE j[1] = "conn"
    <3>1. p.moved = 1
      <4>1. p.moved # 0 BY <1>1, <2>2 DEF Unmoved
      <4> QED BY <1>1, <2>2, <4>1 DEF OnItsWay
    <3>2. p.table[3] = Conn(j[2]) BY <1>1, <2>2, <3>1 DEF OnItsWay
    <3>3. t[3] = Conn(j[2]) BY <1>4, <1>6, <3>2
    <3> HIDE DEF q, t
    <3> QED BY <1>6, <1>7, <1>8, <2>2, <3>3 DEF Equipped
  <2>3. CASE j[1] \notin {"group", "conn"}
    <3> HIDE DEF q, t
    <3> QED BY <1>6, <1>7, <1>8, <2>3 DEF Equipped
  <2> QED BY <2>1, <2>2, <2>3
<1>12. LauncherInv'
  BY <1>1 DEF LauncherInv, LauncherTyped, Placed, Held, Logged, Handed
<1> HIDE DEF q, p
<1>13. ChildInv' BY <1>1, <1>7, <1>9, <1>10, <1>11, OneChild
<1> QED BY <1>12, <1>13

LEMMA NoChildTyped ==
  /\ NoChild \in Process /\ [NoChild EXCEPT !.state = "gone"] \in Process
  /\ [NoChild EXCEPT !.state = "gone"].state = "gone"
  /\ [NoChild EXCEPT !.state = "gone"].table = NoChild.table
  /\ NoChild.state = "none" /\ \A n \in Fd : NoChild.table[n] = Free
BY DEF NoChild, Process, Objects

LEMMA ExitKeeps ==
  ASSUME FdInv, NEW j \in Jobs, ExitJob(j)
  PROVE  FdInv'
<1> USE DEF FdInv, ChildInv
<1> DEFINE q == [NoChild EXCEPT !.state = "gone"]
<1>1. /\ child' = [child EXCEPT ![j] = q]
      /\ UNCHANGED <<fds, lfd, lstep, job, from, logFd, conns>>
  BY DEF ExitJob
<1>2. /\ q \in Process /\ q.state = "gone"
      /\ \A n \in Fd : q.table[n] = Free
  BY NoChildTyped
<1> HIDE DEF q
<1>3. child'[j] = q BY <1>1
<1>4. OnItsWay(j)' /\ Equipped(j)' BY <1>2, <1>3 DEF OnItsWay, Equipped
<1>5. Discreet(j)' BY <1>2, <1>3, Distinct DEF Discreet
<1>6. LauncherInv'
  BY <1>1 DEF LauncherInv, LauncherTyped, Placed, Held, Logged, Handed
<1>7. ChildInv' BY <1>1, <1>2, <1>4, <1>5, OneChild
<1> QED BY <1>6, <1>7

\* A fork gives the child what the launcher has.
LEMMA ForkGives == FdInv /\ ForkJob => ChildInv'
<1> SUFFICES ASSUME FdInv, ForkJob PROVE ChildInv'
  OBVIOUS
<1> USE DEF FdInv, ChildInv, LauncherInv
<1>1. PICK j \in Jobs : j = job BY DEF LauncherTyped
<1>2. PICK q \in Process :
        q = [state |-> "forked", table |-> fds, moved |-> 0,
             from |-> from, log |-> logFd]
  BY DEF LauncherTyped, Process
<1>3. /\ lstep = "fork" /\ child' = [child EXCEPT ![j] = q] /\ lfd' = lfd
      /\ child'[j] = q
  BY <1>1, <1>2 DEF ForkJob
<1>4. /\ logFd \in Fd /\ fds[logFd] = Log(j)
      /\ \A k \in Listeners : lfd[k] # -1 /\ lfd[k] < logFd
  BY <1>1, <1>3 DEF Logged, Placed
<1>5. Equipped(j)' BY <1>2, <1>3 DEF Equipped
<1>6. Discreet(j)' BY <1>1, <1>2, <1>3 DEF Discreet, Handed
<1>7. OnItsWay(j)'
  <2>1. j[1] = "group" =>
          \A k \in Group(j[2]) : q.table[Source(j, k)'] = Listener(k)
    <3> SUFFICES ASSUME j[1] = "group", NEW k \in Group(j[2])
                 PROVE  q.table[Source(j, k)'] = Listener(k)
      OBVIOUS
    <3>1. k \in Adopted /\ k \in Listeners BY Numbers DEF Group
    <3>2. Rank(k) \in Nat BY <3>1, RankBound
    <3>3. Source(j, k)' = lfd[k] BY <1>2, <1>3, <3>2 DEF Source
    <3>4. lfd[k] # -1 BY <1>4, <3>1
    <3>5. fds[lfd[k]] = Listener(k) BY <1>3, <3>1, <3>4 DEF Held
    <3> QED BY <1>2, <3>3, <3>5
  <2>2. j[1] = "conn" =>
          /\ from \in Fd /\ fds[from] = Conn(j[2])
          /\ \A k \in Listeners : lfd[k] < from
    BY <1>1, <1>3 DEF Handed
  <2> QED BY <1>2, <1>3, <1>4, <2>1, <2>2 DEF OnItsWay
<1> QED BY <1>3, <1>5, <1>6, <1>7, OneChild

LEMMA FdInvInit == Init => FdInv
<1> SUFFICES ASSUME FdInit PROVE FdInv
  BY DEF Init
<1>1. LauncherInv BY LauncherInit
<1>2. child = [j \in Jobs |-> NoChild] BY DEF FdInit
<1>3. child \in [Jobs -> Process] BY <1>2, NoChildTyped
<1>4. ASSUME NEW j \in Jobs PROVE OnItsWay(j) /\ Equipped(j) /\ Discreet(j)
  <2>1. child[j] = NoChild BY <1>2
  <2> QED BY <2>1, NoChildTyped, Distinct DEF OnItsWay, Equipped, Discreet
<1> QED BY <1>1, <1>3, <1>4 DEF FdInv, ChildInv

LEMMA FdInvNext == FdInv /\ [Next]_vars => FdInv'
<1> SUFFICES ASSUME FdInv, [Next]_vars PROVE FdInv'
  OBVIOUS
<1>1. LauncherInv BY DEF FdInv
<1>2. FdStep \/ UNCHANGED fdVars BY FdSteps DEF vars
<1>3. CASE \E k \in Listeners : BindOne(k)
  <2>1. PICK k \in Listeners : BindOne(k) BY <1>3
  <2>2. LauncherInv' BY <1>1, <2>1, BindKeeps
  <2>3. child' = child /\ lfd[k] = -1 BY <2>1 DEF BindOne
  <2>4. ChildInv' BY <2>3, ChildInvKept
  <2> QED BY <2>2, <2>4 DEF FdInv
<1>4. ASSUME LauncherInv', child' = child, lfd' = lfd PROVE FdInv'
  BY <1>4, ChildInvKept DEF FdInv
<1>5. CASE OpenInput BY <1>1, <1>4, <1>5, OpenInputKeeps DEF OpenInput
<1>6. CASE NoInput BY <1>1, <1>4, <1>6, NoInputKeeps DEF NoInput
<1>7. CASE OpenLog BY <1>1, <1>4, <1>7, OpenLogKeeps DEF OpenLog
<1>8. CASE OutOfDescriptors
  BY <1>1, <1>4, <1>8, GoneKeeps DEF OutOfDescriptors
<1>18. CASE ForkFails BY <1>1, <1>4, <1>18, GoneKeeps DEF ForkFails
<1>9. CASE ForkJob BY <1>1, <1>9, ForkKeeps, ForkGives DEF FdInv
<1>10. CASE CloseConn BY <1>1, <1>4, <1>10, CloseKeeps DEF CloseConn
<1>11. CASE Accept BY <1>1, <1>4, <1>11, AcceptKeeps DEF Accept
<1>12. CASE SpawnCoApp BY <1>1, <1>4, <1>12, CoAppKeeps DEF SpawnCoApp
<1>13. CASE SysData BY <1>1, <1>4, <1>13, SysDataKeeps DEF SysData
<1>14. CASE SysFails BY <1>1, <1>4, <1>14, GoneKeeps DEF SysFails
<1>15. CASE Children
  <2>1. \A j \in Instances : j \in Jobs BY DEF Instances, Jobs
  <2> QED BY <1>15, <2>1, MoveKeeps, ExecKeeps, ExitKeeps DEF Children
<1>16. CASE ExitJob(WindowServer)
  <2>1. WindowServer \in Jobs BY FirstJob DEF WindowServer
  <2> QED BY <1>16, <2>1, ExitKeeps
<1>17. CASE UNCHANGED fdVars
  <2>1. UNCHANGED <<fds, lfd, lstep, job, from, logFd, child, conns>>
    BY <1>17 DEF fdVars
  <2>2. LauncherInv'
    BY <1>1, <2>1
    DEF LauncherInv, LauncherTyped, Placed, Held, Logged, Handed
  <2> QED BY <1>4, <2>1, <2>2
<1> QED BY <1>2, <1>3, <1>5, <1>6, <1>7, <1>8, <1>9, <1>10, <1>11, <1>12, <1>13,
           <1>14, <1>15, <1>16, <1>17, <1>18 DEF FdStep, Launch

\* For every set of services, however they share binaries, and whatever
\* descriptors are open at the start: a program that runs finds its sockets
\* and its log where it is told to look (spawn_with_takeover).
THEOREM SocketsFound == Spec => []TakeoverRight
<1>1. FdInv => TakeoverRight
  BY DEF FdInv, ChildInv, Equipped, TakeoverRight
<1> QED BY <1>1, FdInvInit, FdInvNext, PTL DEF Spec

\* For every number of connections: nobody but its instance, and the launcher
\* until it has forked that, holds a connection (broker_wait).
THEOREM ConnectionsClose == Spec => []ConnectionClosesWithService
<1>1. FdInv => ConnectionClosesWithService
  BY DEF FdInv, ChildInv, Discreet, LauncherInv, Handed,
         ConnectionClosesWithService
<1> QED BY <1>1, FdInvInit, FdInvNext, PTL DEF Spec

(***************************************************************************)
(* The walk over /proc.                                                    *)
(***************************************************************************)

\* How many of a set are lower.
Lower(s, p) == Cardinality({q \in s : q < p})

LEMMA LowerCounts ==
  ASSUME NEW s \in SUBSET Nat, IsFiniteSet(s), NEW p \in s
  PROVE  /\ Lower(s, p) \in 0 .. Cardinality(s) - 1
         /\ Cardinality(s) \in Nat
         /\ \A r \in s : p < r => Lower(s, p) < Lower(s, r)
<1> DEFINE L(x) == {q \in s : q < x}
<1>1. \A x : L(x) \in SUBSET s /\ IsFiniteSet(L(x)) /\ Cardinality(L(x)) \in Nat
  <2> TAKE x
  <2>1. L(x) \in SUBSET s OBVIOUS
  <2>2. IsFiniteSet(L(x)) BY <2>1, FS_Subset
  <2> QED BY <2>1, <2>2, FS_CardinalityType
<1>2. Cardinality(s) \in Nat BY FS_CardinalityType
<1>3. p \notin L(p)
  <2>1. p \in Nat /\ ~(p < p) OBVIOUS
  <2> QED BY <2>1
<1>4. Cardinality(L(p)) < Cardinality(s)
  <2>1. L(p) # s BY <1>3
  <2>2. /\ Cardinality(L(p)) <= Cardinality(s)
        /\ Cardinality(L(p)) = Cardinality(s) => L(p) = s
    BY <1>1, FS_Subset
  <2> HIDE DEF L
  <2> QED BY <1>1, <1>2, <2>1, <2>2
<1>5. ASSUME NEW r \in s, p < r PROVE Cardinality(L(p)) < Cardinality(L(r))
  <2>1. L(p) \in SUBSET L(r)
    <3>1. \A q \in s : q \in Nat /\ p \in Nat /\ r \in Nat OBVIOUS
    <3>2. \A q \in s : q < p => q < r BY <1>5, <3>1
    <3> QED BY <3>2
  <2>2. p \in L(r) BY <1>5
  <2>3. L(p) # L(r) BY <1>3, <2>2
  <2>4. /\ Cardinality(L(p)) <= Cardinality(L(r))
        /\ Cardinality(L(p)) = Cardinality(L(r)) => L(p) = L(r)
    BY <1>1, <2>1, FS_Subset
  <2> HIDE DEF L
  <2> QED BY <1>1, <2>3, <2>4
<1> HIDE DEF L
<1>6. Lower(s, p) = Cardinality(L(p)) /\ \A r : Lower(s, r) = Cardinality(L(r))
  BY DEF Lower, L
<1> QED BY <1>1, <1>2, <1>4, <1>5, <1>6

\* For every smaller number there is a member with so many lower ones.
LEMMA LowerFound ==
  ASSUME NEW s \in SUBSET Nat, IsFiniteSet(s), NEW i \in 0 .. Cardinality(s) - 1
  PROVE  \E p \in s : Lower(s, p) = i
<1> DEFINE bad == {k \in 0 .. Cardinality(s) - 1 :
                     ~ \E p \in s : Lower(s, p) = k}
<1>1. Cardinality(s) \in Nat BY FS_CardinalityType
<1> SUFFICES ASSUME bad # {} PROVE FALSE
  OBVIOUS
<1>2. bad \in SUBSET Nat BY <1>1
<1>3. PICK k \in bad : \A l \in bad : k <= l BY <1>2, Smallest
<1>4. k \in 0 .. Cardinality(s) - 1 /\ \A p \in s : Lower(s, p) # k
  OBVIOUS
<1> HIDE DEF bad
<1>5. CASE k = 0
  <2>1. s # {} BY <1>1, <1>4, FS_EmptySet
  <2>2. PICK p \in s : \A q \in s : p <= q BY <2>1, Smallest
  <2>3. {q \in s : q < p} = {}
    <3>1. \A q \in s : q \in Nat /\ p \in Nat OBVIOUS
    <3>2. \A q \in s : ~(q < p) BY <2>2, <3>1
    <3> QED BY <3>2
  <2>4. Lower(s, p) = 0 BY <2>3, FS_EmptySet DEF Lower
  <2> QED BY <1>4, <1>5, <2>4
<1>6. CASE k # 0
  <2>1. k - 1 \in 0 .. Cardinality(s) - 1 /\ ~(k <= k - 1)
    BY <1>1, <1>4, <1>6
  <2>2. k - 1 \notin bad BY <1>3, <2>1
  <2>3. PICK p \in s : Lower(s, p) = k - 1 BY <2>1, <2>2 DEF bad
  <2> DEFINE L == {q \in s : q < p}
             U == {q \in s : p < q}
  <2>4. /\ IsFiniteSet(L) /\ p \notin L /\ L \cup {p} \in SUBSET s
    <3>1. L \in SUBSET s OBVIOUS
    <3>2. p \in Nat /\ ~(p < p) OBVIOUS
    <3> QED BY <3>1, <3>2, FS_Subset
  <2>5. /\ IsFiniteSet(L \cup {p})
        /\ Cardinality(L \cup {p}) = Cardinality(L) + 1
    BY <2>4, FS_AddElement
  <2>6. Cardinality(L \cup {p}) = k
    <3>1. Cardinality(L) = k - 1 BY <2>3 DEF Lower
    <3> QED BY <1>4, <2>5, <3>1
  <2>7. U # {}
    <3>1. ASSUME U = {} PROVE s = L \cup {p}
      <4>1. \A q \in s : q \in Nat /\ p \in Nat /\ ~(p < q) BY <3>1
      <4>2. \A q \in s : q < p \/ q = p BY <4>1
      <4> QED BY <2>4, <4>2
    <3>2. Cardinality(s) # k BY <1>1, <1>4
    <3> QED BY <2>6, <3>1, <3>2
  <2>8. PICK r \in U : \A q \in U : r <= q
    <3>1. U \in SUBSET Nat OBVIOUS
    <3> QED BY <2>7, <3>1, Smallest
  <2>9. {q \in s : q < r} = L \cup {p}
    <3>1. \A q \in s : q \in Nat /\ p \in Nat /\ r \in Nat /\ p < r
      OBVIOUS
    <3>2. \A q \in s : q < r => ~(p < q) BY <2>8, <3>1
    <3>3. \A q \in s : q < r <=> (q < p \/ q = p) BY <3>1, <3>2
    <3> QED BY <2>4, <3>3
  <2>10. Lower(s, r) = k BY <2>6, <2>9 DEF Lower
  <2> QED BY <1>4, <2>10
<1> QED BY <1>5, <1>6

\* getdents returns the lowest pids of a set, ascending and without a gap.
LEMMA LowestRight ==
  ASSUME NEW s \in SUBSET Nat, IsFiniteSet(s), s # {}, NEW n \in Nat \ {0}
  PROVE  LET b == Lowest(s, n) IN
         /\ b \in Seq(s) /\ b # <<>> /\ Len(b) \in Nat \ {0}
         /\ \A i, j \in 1 .. Len(b) : i < j => b[i] < b[j]
         /\ \A p \in s : p <= b[Len(b)] => \E i \in 1 .. Len(b) : b[i] = p
<1> DEFINE c == Cardinality(s)
           m == IF c < n THEN c ELSE n
           b == [i \in 1 .. m |-> CHOOSE p \in s : Lower(s, p) = i - 1]
<1>1. Lowest(s, n) = b BY DEF Lowest, Lower
<1>2. c \in Nat /\ c # 0
  BY FS_CardinalityType, FS_EmptySet
<1>3. m \in Nat \ {0} /\ m <= c BY <1>2
<1> HIDE DEF c, m
<1>4. ASSUME NEW i \in 1 .. m PROVE b[i] \in s /\ Lower(s, b[i]) = i - 1
  <2>1. i - 1 \in 0 .. Cardinality(s) - 1 BY <1>2, <1>3 DEF c
  <2>2. \E p \in s : Lower(s, p) = i - 1 BY <2>1, LowerFound
  <2> QED BY <2>2
<1>5. b \in Seq(s) /\ Len(b) = m /\ b # <<>>
  <2>1. b \in [1 .. m -> s] BY <1>4
  <2>2. b \in Seq(s) BY <1>3, <2>1
  <2>3. Len(b) = m BY <1>3, <2>1, <2>2
  <2> QED BY <1>3, <2>2, <2>3
<1> HIDE DEF b
<1>6. ASSUME NEW p \in s, NEW r \in s, Lower(s, p) < Lower(s, r) PROVE p < r
  <2>1. p \in Nat /\ r \in Nat OBVIOUS
  <2>2. Lower(s, p) \in Int /\ Lower(s, r) \in Int
    BY LowerCounts
  <2>3. ~(r < p)
    <3>1. r < p => Lower(s, r) < Lower(s, p) BY LowerCounts
    <3> QED BY <1>6, <2>2, <3>1
  <2>4. r # p BY <1>6, <2>2
  <2> QED BY <2>1, <2>3, <2>4
<1>7. \A i, j \in 1 .. m : i < j => b[i] < b[j]
  <2> SUFFICES ASSUME NEW i \in 1 .. m, NEW j \in 1 .. m, i < j
               PROVE  b[i] < b[j]
    OBVIOUS
  <2>1. i - 1 < j - 1 BY <1>3
  <2> QED BY <1>4, <1>6, <2>1
<1>8. ASSUME NEW p \in s, p <= b[m] PROVE \E i \in 1 .. m : b[i] = p
  <2>1. m \in 1 .. m BY <1>3
  <2>2. b[m] \in s /\ Lower(s, b[m]) = m - 1 BY <1>4, <2>1
  <2>3. Lower(s, p) \in 0 .. c - 1 BY LowerCounts DEF c
  <2>4. ~(Lower(s, b[m]) < Lower(s, p))
    <3>1. Lower(s, b[m]) < Lower(s, p) => b[m] < p BY <1>6, <2>2
    <3>2. p \in Nat /\ b[m] \in Nat BY <2>2
    <3> QED BY <1>8, <3>1, <3>2
  <2> DEFINE i == Lower(s, p) + 1
  <2>5. i \in 1 .. m BY <1>2, <1>3, <2>2, <2>3, <2>4
  <2>6. b[i] \in s /\ Lower(s, b[i]) = Lower(s, p)
    BY <1>2, <1>4, <2>3, <2>5
  <2>7. ~(b[i] < p) /\ ~(p < b[i])
    <3>1. b[i] < p => Lower(s, b[i]) < Lower(s, p) BY <2>6, LowerCounts
    <3>2. p < b[i] => Lower(s, p) < Lower(s, b[i]) BY <2>6, LowerCounts
    <3>3. Lower(s, p) \in Int BY <1>2, <2>3
    <3> QED BY <2>6, <3>1, <3>2, <3>3
  <2>8. b[i] = p
    <3>1. b[i] \in Nat /\ p \in Nat BY <2>6
    <3> QED BY <2>7, <3>1
  <2> QED BY <2>5, <2>8
<1> QED BY <1>1, <1>3, <1>5, <1>7, <1>8

\* Pids, as they stand in the variables, are positive numbers.
LEMMA PidNumbers ==
  /\ \A p \in Pids : p \in Nat /\ p # 0
  /\ SysTypeOK =>
       /\ last \in Nat
       /\ \A i \in 1 .. Len(buffer) : buffer[i] \in Pids
       /\ Len(buffer) \in Nat /\ Len(listed) \in Nat
       /\ \A i \in 1 .. Len(listed) : listed[i].pid \in Pids
<1>1. \A p \in Pids : p \in Nat /\ p # 0 BY SysfsAssumption
<1>2. ASSUME SysTypeOK
      PROVE  /\ last \in Nat
             /\ \A i \in 1 .. Len(buffer) : buffer[i] \in Pids
             /\ Len(buffer) \in Nat /\ Len(listed) \in Nat
             /\ \A i \in 1 .. Len(listed) : listed[i].pid \in Pids
  <2>1. last \in Nat
    <3>1. last \in Pids \/ last = 0 BY <1>2 DEF SysTypeOK
    <3> QED BY <1>1, <3>1
  <2>2. buffer \in Seq(Pids) BY <1>2 DEF SysTypeOK
  <2> DEFINE Entries == [pid : Pids, stat : Nat, status : Nat, tasks : Nat]
  <2>3. listed \in Seq(Entries) BY <1>2 DEF SysTypeOK
  <2>4. \A i \in 1 .. Len(buffer) : buffer[i] \in Pids BY <2>2
  <2>5. \A r \in Entries : r.pid \in Pids OBVIOUS
  <2> HIDE DEF Entries
  <2>6. \A i \in 1 .. Len(listed) : listed[i].pid \in Pids BY <2>3, <2>5
  <2> QED BY <2>1, <2>2, <2>3, <2>4, <2>6
<1> QED BY <1>1, <1>2

InHand == wstep \in {"status", "print"}

\* Pids ascend: those listed, then the one in hand, then those of the buffer.
Ascending ==
  /\ \A i, j \in 1 .. Len(buffer) : i < j => buffer[i] < buffer[j]
  /\ \A i \in 1 .. Len(buffer) : buffer[i] <= last
  /\ \A i, j \in 1 .. Len(listed) : i < j => listed[i].pid < listed[j].pid
  /\ \A i \in 1 .. Len(listed) :
       /\ listed[i].pid <= last
       /\ \A j \in 1 .. Len(buffer) : listed[i].pid < buffer[j]
  /\ InHand =>
       /\ entry.pid \in Pids /\ entry.pid <= last
       /\ \A j \in 1 .. Len(buffer) : entry.pid < buffer[j]
       /\ \A i \in 1 .. Len(listed) : listed[i].pid < entry.pid
  /\ wstep = "stat" => buffer # <<>>
  /\ wstep = "start" => last = 0
  /\ wstep \in {"start", "walked", "done", "crashed"} => buffer = <<>>

EntryOf(x) == [pid |-> x[1], stat |-> x[2], status |-> x[2], tasks |-> x[2]]

StillToCome(x) == \E i \in 1 .. Len(buffer) : buffer[i] = x[1]

BeingRead(x) ==
  /\ InHand /\ entry.pid = x[1] /\ entry.stat = x[2]
  /\ wstep = "print" => entry.status = x[2]

OnList(x) == \E i \in 1 .. Len(listed) : listed[i] = EntryOf(x)

\* A process that has lived through the walk so far is still to come, or in
\* hand, or listed with its own figures.
Complete ==
  /\ \A x \in lived : x[1] \in Pids /\ proc[x[1]] = x[2] /\ x[2] # 0
  /\ \A x \in lived : x[1] <= last => StillToCome(x) \/ BeingRead(x) \/ OnList(x)
  /\ Walked => \A x \in lived : x[1] <= last

Separated == commas = IF listed = <<>> THEN 0 ELSE Len(listed) - 1

SysInv == SysTypeOK /\ Ascending /\ Complete /\ Separated /\ MemstatSane

LEMMA SysInvInit == Init => SysInv
<1> SUFFICES ASSUME SysInit PROVE SysInv
  BY DEF Init
<1> USE DEF SysInit
<1>1. SysTypeOK
  <2>1. Word \in Nat /\ 0 \in 0 .. Word - 1 BY SysfsAssumption
  <2>2. memstat \in [allocated : 0 .. Word - 1, available : 0 .. Word - 1]
    BY <2>1
  <2>3. proc \in [Pids -> Nat] OBVIOUS
  <2> QED BY <2>2, <2>3 DEF SysTypeOK, NoEntry
<1>2. Ascending BY DEF Ascending, InHand
<1>3. Complete BY DEF Complete, Walked
<1>4. Separated BY DEF Separated
<1>5. MemstatSane BY DEF MemstatSane
<1> QED BY <1>1, <1>2, <1>3, <1>4, <1>5 DEF SysInv

LEMMA DieKeeps == ASSUME SysInv, NEW p \in Pids, Die(p) PROVE SysInv'
<1> USE DEF SysInv
<1>1. /\ proc' = [proc EXCEPT ![p] = 0] /\ lived' = lived \ {<<p, proc[p]>>}
      /\ UNCHANGED <<births, wstep, last, buffer, entry, listed, commas, memstat>>
  BY DEF Die, walk
<1>2. SysTypeOK' BY <1>1 DEF SysTypeOK
<1>3. Ascending' BY <1>1 DEF Ascending, InHand
<1>4. ASSUME NEW x \in lived'
      PROVE  x \in lived /\ x[1] \in Pids /\ proc'[x[1]] = x[2] /\ x[2] # 0
  <2>1. x \in lived /\ x # <<p, proc[p]>> BY <1>1
  <2>2. x[1] \in Pids /\ proc[x[1]] = x[2] /\ x[2] # 0 BY <2>1 DEF Complete
  <2>3. x = <<x[1], x[2]>> BY <2>1 DEF SysTypeOK
  <2>4. x[1] # p BY <2>1, <2>2, <2>3
  <2> QED BY <1>1, <2>1, <2>2, <2>4 DEF SysTypeOK
<1>5. Complete'
  BY <1>1, <1>4 DEF Complete, StillToCome, BeingRead, OnList, InHand, Walked
<1>6. Separated' /\ MemstatSane' BY <1>1 DEF Separated, MemstatSane
<1> QED BY <1>2, <1>3, <1>5, <1>6

LEMMA BirthKeeps == ASSUME SysInv, NEW p \in Pids, Birth(p) PROVE SysInv'
<1> USE DEF SysInv
<1>1. /\ proc[p] = 0 /\ births' = births + 1
      /\ proc' = [proc EXCEPT ![p] = births + 1]
      /\ UNCHANGED <<lived, wstep, last, buffer, entry, listed, commas, memstat>>
  BY DEF Birth, walk
<1>2. SysTypeOK' BY <1>1 DEF SysTypeOK
<1>3. Ascending' BY <1>1 DEF Ascending, InHand
<1>4. ASSUME NEW x \in lived
      PROVE  x[1] \in Pids /\ proc'[x[1]] = x[2] /\ x[2] # 0
  <2>1. x[1] \in Pids /\ proc[x[1]] = x[2] /\ x[2] # 0 BY DEF Complete
  <2> QED BY <1>1, <2>1 DEF SysTypeOK
<1>5. Complete'
  BY <1>1, <1>4 DEF Complete, StillToCome, BeingRead, OnList, InHand, Walked
<1>6. Separated' /\ MemstatSane' BY <1>1 DEF Separated, MemstatSane
<1> QED BY <1>2, <1>3, <1>5, <1>6

LEMMA OpenProcKeeps == ASSUME SysInv, OpenProc PROVE SysInv'
<1> USE DEF SysInv
<1>1. /\ wstep = "start" /\ wstep' \in {"next", "walked"}
      /\ lived' = IF wstep' = "next"
                    THEN {<<p, proc[p]>> : p \in {p \in Pids : proc[p] # 0}}
                    ELSE {}
      /\ UNCHANGED <<proc, births, last, buffer, entry, listed, commas, memstat>>
  BY DEF OpenProc
<1>2. ASSUME NEW x \in lived'
      PROVE  /\ wstep' = "next" /\ x \in Pids \X Nat
             /\ x[1] \in Pids /\ proc'[x[1]] = x[2] /\ x[2] # 0
             /\ ~(x[1] <= last)
  <2>1. wstep' = "next" BY <1>1
  <2>2. PICK p \in Pids : proc[p] # 0 /\ x = <<p, proc[p]>> BY <1>1, <2>1
  <2>3. p \in Nat \ {0} /\ last = 0 BY <1>1, SysfsAssumption DEF Ascending
  <2>4. proc[p] \in Nat BY DEF SysTypeOK
  <2> QED BY <1>1, <2>1, <2>2, <2>3, <2>4
<1>3. SysTypeOK' BY <1>1, <1>2 DEF SysTypeOK
<1>4. Ascending' BY <1>1 DEF Ascending, InHand
<1>5. Complete' BY <1>1, <1>2 DEF Complete, Walked
<1>6. Separated' /\ MemstatSane' BY <1>1 DEF Separated, MemstatSane
<1> QED BY <1>3, <1>4, <1>5, <1>6

LEMMA GetDentsKeeps == ASSUME SysInv, GetDents PROVE SysInv'
<1> USE DEF SysInv
<1>1. /\ wstep = "next" /\ buffer = <<>> /\ Ahead # {}
      /\ buffer' = Lowest(Ahead, Batch) /\ last' = buffer'[Len(buffer')]
      /\ wstep' = "stat"
      /\ UNCHANGED <<proc, births, entry, listed, commas, lived, memstat>>
  BY DEF GetDents
<1>2. Ahead \in SUBSET Pids /\ Ahead \in SUBSET Nat /\ IsFiniteSet(Ahead)
      /\ Batch \in Nat \ {0}
  <2>1. Ahead \in SUBSET Pids BY DEF Ahead
  <2> QED BY <2>1, FS_Subset, SysfsAssumption
<1>3. /\ buffer' \in Seq(Ahead) /\ buffer' # <<>> /\ Len(buffer') \in Nat \ {0}
      /\ \A i, j \in 1 .. Len(buffer') : i < j => buffer'[i] < buffer'[j]
      /\ \A p \in Ahead : p <= buffer'[Len(buffer')] =>
           \E i \in 1 .. Len(buffer') : buffer'[i] = p
  BY <1>1, <1>2, LowestRight
<1>4. \A i \in 1 .. Len(buffer') : buffer'[i] \in Ahead BY <1>3
<1>5. last' \in Ahead BY <1>1, <1>3, <1>4
<1>6. \A i \in 1 .. Len(buffer') : buffer'[i] <= last'
  <2> SUFFICES ASSUME NEW i \in 1 .. Len(buffer') PROVE buffer'[i] <= last'
    OBVIOUS
  <2>1. i = Len(buffer') \/ i < Len(buffer') BY <1>3
  <2>2. Len(buffer') \in 1 .. Len(buffer') BY <1>3
  <2>3. buffer'[i] \in Nat /\ last' \in Nat BY <1>2, <1>4, <1>5
  <2> QED BY <1>1, <1>3, <2>1, <2>2, <2>3
<1>7. \A p \in Ahead : last < p /\ p \in Nat
  BY <1>2 DEF Ahead
<1>8. last \in Nat BY PidNumbers
<1>9. SysTypeOK'
  <2>1. buffer' \in Seq(Pids)
    <3>1. buffer' \in [1 .. Len(buffer') -> Ahead] BY <1>3
    <3>2. buffer' \in [1 .. Len(buffer') -> Pids] BY <1>2, <3>1
    <3> QED BY <1>3, <3>2
  <2> QED BY <1>1, <1>2, <1>5, <2>1 DEF SysTypeOK
<1>10. Ascending'
  <2>1. ASSUME NEW i \in 1 .. Len(listed)
        PROVE  /\ listed[i].pid <= last'
               /\ \A j \in 1 .. Len(buffer') : listed[i].pid < buffer'[j]
    <3>1. listed[i].pid <= last BY DEF Ascending
    <3>2. listed[i].pid \in Nat BY PidNumbers
    <3> QED BY <1>4, <1>5, <1>7, <1>8, <3>1, <3>2
  <2> QED BY <1>1, <1>3, <1>6, <2>1 DEF Ascending, InHand
<1>11. Complete'
  <2>1. ASSUME NEW x \in lived, x[1] <= last'
        PROVE  StillToCome(x)' \/ OnList(x)'
    <3>1. x[1] \in Pids /\ proc[x[1]] = x[2] /\ x[2] # 0 BY DEF Complete
    <3>2. CASE x[1] <= last
      <4>1. OnList(x) BY <1>1, <3>2 DEF Complete, StillToCome, BeingRead, InHand
      <4> QED BY <1>1, <4>1 DEF OnList
    <3>3. CASE x[1] > last
      <4>1. x[1] \in Ahead BY <3>1, <3>3 DEF Ahead
      <4> QED BY <1>1, <1>3, <2>1, <4>1 DEF StillToCome
    <3>4. x[1] \in Nat BY <3>1, PidNumbers
    <3> QED BY <1>8, <3>2, <3>3, <3>4
  <2> QED BY <1>1, <2>1 DEF Complete, Walked
<1>12. Separated' /\ MemstatSane' BY <1>1 DEF Separated, MemstatSane
<1> QED BY <1>9, <1>10, <1>11, <1>12

LEMMA NextEntryKeeps == ASSUME SysInv, NextEntry \/ EndOfProc PROVE SysInv'
<1> USE DEF SysInv
<1>1. /\ wstep = "next"
      /\ UNCHANGED <<proc, births, last, buffer, entry, listed, commas, lived,
                     memstat>>
      /\ \/ wstep' = "stat" /\ buffer # <<>>
         \/ wstep' = "walked" /\ buffer = <<>> /\ Ahead = {}
  BY DEF NextEntry, EndOfProc
<1>2. SysTypeOK' BY <1>1 DEF SysTypeOK
<1>3. Ascending' BY <1>1 DEF Ascending, InHand
<1>4. Complete'
  <2>1. \A x \in lived : x[1] <= last => StillToCome(x)' \/ OnList(x)'
    BY <1>1 DEF Complete, StillToCome, BeingRead, OnList, InHand
  <2>2. wstep' = "walked" => \A x \in lived : x[1] <= last
    <3> SUFFICES ASSUME wstep' = "walked", NEW x \in lived
                 PROVE  x[1] <= last
      OBVIOUS
    <3>1. x[1] \in Pids /\ proc[x[1]] # 0 /\ x[1] \notin Ahead
      BY <1>1 DEF Complete
    <3>2. ~(x[1] > last) BY <3>1 DEF Ahead
    <3>3. x[1] \in Nat /\ last \in Nat BY <3>1, PidNumbers
    <3> QED BY <3>2, <3>3
  <2> QED BY <1>1, <2>1, <2>2 DEF Complete, Walked
<1>5. Separated' /\ MemstatSane' BY <1>1 DEF Separated, MemstatSane
<1> QED BY <1>2, <1>3, <1>4, <1>5

\* The entries behind the first move up by one.
LEMMA TailShifts ==
  ASSUME SysTypeOK, buffer # <<>>
  PROVE  /\ Head(buffer) = buffer[1] /\ 1 \in 1 .. Len(buffer)
         /\ Tail(buffer) \in Seq(Pids)
         /\ \A i \in 1 .. Len(Tail(buffer)) :
              /\ Tail(buffer)[i] = buffer[i + 1]
              /\ i + 1 \in 1 .. Len(buffer)
         /\ \A i \in 1 .. Len(buffer) :
              i = 1 \/ /\ i - 1 \in 1 .. Len(Tail(buffer))
                       /\ Tail(buffer)[i - 1] = buffer[i]
<1>1. buffer \in Seq(Pids) BY DEF SysTypeOK
<1>2. Len(buffer) \in Nat \ {0} BY <1>1
<1>3. Tail(buffer) \in Seq(Pids) /\ Len(Tail(buffer)) = Len(buffer) - 1
  BY <1>1
<1>4. \A i \in 1 .. Len(buffer) - 1 : Tail(buffer)[i] = buffer[i + 1]
  BY <1>1
<1> QED BY <1>1, <1>2, <1>3, <1>4

\* What is left of the buffer ascends and lies above its first entry.
LEMMA RestAscends ==
  ASSUME SysTypeOK, Ascending, buffer # <<>>, buffer' = Tail(buffer)
  PROVE  /\ \A i, j \in 1 .. Len(buffer') : i < j => buffer'[i] < buffer'[j]
         /\ \A i \in 1 .. Len(buffer') : buffer'[i] <= last
         /\ \A j \in 1 .. Len(buffer') : Head(buffer) < buffer'[j]
         /\ \A i \in 1 .. Len(listed) :
              /\ listed[i].pid < Head(buffer)
              /\ \A j \in 1 .. Len(buffer') : listed[i].pid < buffer'[j]
         /\ Head(buffer) \in Pids /\ Head(buffer) <= last
<1>1. /\ Head(buffer) = buffer[1] /\ 1 \in 1 .. Len(buffer)
      /\ \A i \in 1 .. Len(buffer') :
           buffer'[i] = buffer[i + 1] /\ i + 1 \in 1 .. Len(buffer)
  BY TailShifts
<1>2. \A i, j \in 1 .. Len(buffer') : i < j => buffer'[i] < buffer'[j]
  <2> SUFFICES ASSUME NEW i \in 1 .. Len(buffer'), NEW j \in 1 .. Len(buffer'),
                      i < j
               PROVE  buffer'[i] < buffer'[j]
    OBVIOUS
  <2>1. i + 1 < j + 1 OBVIOUS
  <2> QED BY <1>1, <2>1 DEF Ascending
<1>3. \A j \in 1 .. Len(buffer') : Head(buffer) < buffer'[j]
  <2> SUFFICES ASSUME NEW j \in 1 .. Len(buffer')
               PROVE  Head(buffer) < buffer'[j]
    OBVIOUS
  <2>1. 1 < j + 1 OBVIOUS
  <2> QED BY <1>1, <2>1 DEF Ascending
<1>4. \A i \in 1 .. Len(buffer') : buffer'[i] <= last
  BY <1>1 DEF Ascending
<1>5. \A i \in 1 .. Len(listed) :
        /\ listed[i].pid < Head(buffer)
        /\ \A j \in 1 .. Len(buffer') : listed[i].pid < buffer'[j]
  BY <1>1 DEF Ascending
<1>6. Head(buffer) \in Pids /\ Head(buffer) <= last
  BY <1>1, PidNumbers DEF Ascending
<1> QED BY <1>2, <1>3, <1>4, <1>5, <1>6

LEMMA SkipGoneKeeps == ASSUME SysInv, SkipGone PROVE SysInv'
<1> USE DEF SysInv
<1>1. /\ wstep = "stat" /\ proc[Head(buffer)] = 0
      /\ wstep' = "next" /\ buffer' = Tail(buffer)
      /\ UNCHANGED <<proc, births, last, entry, listed, commas, lived, memstat>>
  BY DEF SkipGone
<1>2. buffer # <<>> BY <1>1 DEF Ascending
<1>3. SysTypeOK' BY <1>1, <1>2, TailShifts DEF SysTypeOK
<1>4. Ascending'
  <2> HIDE DEF SysInv
  <2>1. SysTypeOK /\ Ascending BY DEF SysInv
  <2> QED BY <1>1, <1>2, <2>1, RestAscends DEF Ascending, InHand
<1>5. Complete'
  <2>1. ASSUME NEW x \in lived, x[1] <= last
        PROVE  StillToCome(x)' \/ OnList(x)'
    <3>1. x[1] \in Pids /\ proc[x[1]] = x[2] /\ x[2] # 0 BY DEF Complete
    <3>2. CASE OnList(x) BY <1>1, <3>2 DEF OnList
    <3>3. CASE StillToCome(x)
      <4>1. PICK i \in 1 .. Len(buffer) : buffer[i] = x[1]
        BY <3>3 DEF StillToCome
      <4>2. i # 1 BY <1>1, <1>2, <3>1, <4>1, TailShifts
      <4>3. i - 1 \in 1 .. Len(buffer') /\ buffer'[i - 1] = x[1]
        BY <1>1, <1>2, <4>1, <4>2, TailShifts
      <4> QED BY <4>3 DEF StillToCome
    <3> QED BY <1>1, <2>1, <3>2, <3>3 DEF Complete, BeingRead, InHand
  <2> QED BY <1>1, <2>1 DEF Complete, Walked
<1>6. Separated' /\ MemstatSane' BY <1>1 DEF Separated, MemstatSane
<1> QED BY <1>3, <1>4, <1>5, <1>6

LEMMA ReadStatKeeps == ASSUME SysInv, ReadStat PROVE SysInv'
<1> USE DEF SysInv
<1>1. /\ wstep = "stat" /\ wstep' = "status" /\ buffer' = Tail(buffer)
      /\ entry' = [pid |-> Head(buffer), stat |-> proc[Head(buffer)],
                   status |-> 0, tasks |-> 0]
      /\ UNCHANGED <<proc, births, last, listed, commas, lived, memstat>>
  BY DEF ReadStat, NoEntry
<1>2. buffer # <<>> BY <1>1 DEF Ascending
<1>3. /\ Head(buffer) = buffer[1] /\ Head(buffer) \in Pids
      /\ proc[Head(buffer)] \in Nat
  BY <1>2, TailShifts, PidNumbers DEF SysTypeOK
<1>4. SysTypeOK'
  <2>1. entry' \in [pid : Pids \cup {0}, stat : Nat, status : Nat, tasks : Nat]
    BY <1>1, <1>3
  <2> QED BY <1>1, <1>2, <2>1, TailShifts DEF SysTypeOK
<1>5. Ascending'
  <2> HIDE DEF SysInv
  <2>1. SysTypeOK /\ Ascending BY DEF SysInv
  <2>2. entry'.pid = Head(buffer) BY <1>1
  <2> QED BY <1>1, <1>2, <2>1, <2>2, RestAscends DEF Ascending, InHand
<1>6. Complete'
  <2>1. ASSUME NEW x \in lived, x[1] <= last
        PROVE  StillToCome(x)' \/ BeingRead(x)' \/ OnList(x)'
    <3>1. x[1] \in Pids /\ proc[x[1]] = x[2] /\ x[2] # 0 BY DEF Complete
    <3>2. CASE OnList(x) BY <1>1, <3>2 DEF OnList
    <3>3. CASE StillToCome(x)
      <4>1. PICK i \in 1 .. Len(buffer) : buffer[i] = x[1]
        BY <3>3 DEF StillToCome
      <4>2. CASE i = 1
        <5>1. entry'.pid = x[1] /\ entry'.stat = x[2]
          BY <1>1, <1>3, <3>1, <4>1, <4>2
        <5> QED BY <1>1, <5>1 DEF BeingRead, InHand
      <4>3. CASE i # 1
        <5>1. i - 1 \in 1 .. Len(buffer') /\ buffer'[i - 1] = x[1]
          BY <1>1, <1>2, <4>1, <4>3, TailShifts
        <5> QED BY <5>1 DEF StillToCome
      <4> QED BY <4>2, <4>3
    <3> QED BY <1>1, <2>1, <3>2, <3>3 DEF Complete, BeingRead, InHand
  <2> QED BY <1>1, <2>1 DEF Complete, Walked
<1>7. Separated' /\ MemstatSane' BY <1>1 DEF Separated, MemstatSane
<1> QED BY <1>4, <1>5, <1>6, <1>7

LEMMA ReadStatusKeeps == ASSUME SysInv, ReadStatus PROVE SysInv'
<1> USE DEF SysInv
<1>1. /\ wstep = "status" /\ wstep' = "print"
      /\ entry' = [entry EXCEPT !.status = proc[entry.pid]]
      /\ UNCHANGED <<proc, births, last, buffer, listed, commas, lived, memstat>>
  BY DEF ReadStatus
<1>2. entry.pid \in Pids /\ proc[entry.pid] \in Nat
  BY <1>1 DEF Ascending, InHand, SysTypeOK
<1>3. /\ entry' \in [pid : Pids \cup {0}, stat : Nat, status : Nat, tasks : Nat]
      /\ entry'.pid = entry.pid /\ entry'.stat = entry.stat
      /\ entry'.status = proc[entry.pid]
  BY <1>1, <1>2 DEF SysTypeOK
<1>4. SysTypeOK' BY <1>1, <1>3 DEF SysTypeOK
<1>5. Ascending' BY <1>1, <1>3 DEF Ascending, InHand
<1>6. Complete'
  <2>1. ASSUME NEW x \in lived, x[1] <= last
        PROVE  StillToCome(x)' \/ BeingRead(x)' \/ OnList(x)'
    <3>1. x[1] \in Pids /\ proc[x[1]] = x[2] BY DEF Complete
    <3>2. BeingRead(x) => BeingRead(x)'
      BY <1>1, <1>3, <3>1 DEF BeingRead, InHand
    <3>3. /\ OnList(x) => OnList(x)'
          /\ StillToCome(x) => StillToCome(x)'
      BY <1>1 DEF OnList, StillToCome
    <3> QED BY <2>1, <3>2, <3>3 DEF Complete
  <2> QED BY <1>1, <2>1 DEF Complete, Walked
<1>7. Separated' /\ MemstatSane' BY <1>1 DEF Separated, MemstatSane
<1> QED BY <1>4, <1>5, <1>6, <1>7

LEMMA PrintEntryKeeps == ASSUME SysInv, PrintEntry PROVE SysInv'
<1> USE DEF SysInv
<1> DEFINE e == [entry EXCEPT !.tasks = proc[entry.pid]]
           Entries == [pid : Pids, stat : Nat, status : Nat, tasks : Nat]
<1>1. /\ wstep = "print" /\ wstep' = "next" /\ listed' = Append(listed, e)
      /\ commas' = IF listed = <<>> THEN commas ELSE commas + 1
      /\ entry' = NoEntry
      /\ UNCHANGED <<proc, births, last, buffer, lived, memstat>>
  BY DEF PrintEntry
<1>2. entry.pid \in Pids /\ proc[entry.pid] \in Nat
  BY <1>1 DEF Ascending, InHand, SysTypeOK
<1>3. /\ e \in Entries
      /\ e = [pid |-> entry.pid, stat |-> entry.stat, status |-> entry.status,
              tasks |-> proc[entry.pid]]
  <2>1. /\ entry = [pid |-> entry.pid, stat |-> entry.stat,
                    status |-> entry.status, tasks |-> entry.tasks]
        /\ entry.stat \in Nat /\ entry.status \in Nat
    BY DEF SysTypeOK
  <2>2. e = [pid |-> entry.pid, stat |-> entry.stat, status |-> entry.status,
             tasks |-> proc[entry.pid]]
    BY <2>1
  <2> HIDE DEF e
  <2>3. e \in Entries BY <1>2, <2>1, <2>2
  <2> QED BY <2>2, <2>3
<1> HIDE DEF e
<1>4. listed \in Seq(Entries) BY DEF SysTypeOK
<1>5. /\ listed' \in Seq(Entries) /\ Len(listed) \in Nat
      /\ Len(listed') = Len(listed) + 1 /\ listed'[Len(listed')] = e
      /\ \A i \in 1 .. Len(listed) : listed'[i] = listed[i]
      /\ listed' # <<>>
  BY <1>1, <1>3, <1>4
<1>6. SysTypeOK'
  <2>1. entry' \in [pid : Pids \cup {0}, stat : Nat, status : Nat, tasks : Nat]
    BY <1>1 DEF NoEntry
  <2>2. commas' \in Nat BY <1>1 DEF SysTypeOK
  <2>3. listed' \in Seq([pid : Pids, stat : Nat, status : Nat, tasks : Nat])
    BY <1>5
  <2> QED BY <1>1, <2>1, <2>2, <2>3 DEF SysTypeOK
<1>7. Ascending'
  <2>1. ASSUME NEW i \in 1 .. Len(listed')
        PROVE  \/ i \in 1 .. Len(listed) /\ listed'[i] = listed[i]
               \/ i = Len(listed) + 1 /\ listed'[i] = e
    BY <1>5
  <2>2. e.pid = entry.pid BY <1>3
  <2>3. \A i \in 1 .. Len(listed') :
          /\ listed'[i].pid <= last
          /\ \A j \in 1 .. Len(buffer) : listed'[i].pid < buffer[j]
    BY <1>1, <2>1, <2>2 DEF Ascending, InHand
  <2>4. ASSUME NEW i \in 1 .. Len(listed'), NEW j \in 1 .. Len(listed'), i < j
        PROVE  listed'[i].pid < listed'[j].pid
    <3>1. i \in 1 .. Len(listed) /\ listed'[i] = listed[i]
      <4>1. i # Len(listed) + 1 BY <1>5, <2>4
      <4> QED BY <2>1, <4>1
    <3>2. CASE j \in 1 .. Len(listed) /\ listed'[j] = listed[j]
      BY <2>4, <3>1, <3>2 DEF Ascending
    <3>3. CASE listed'[j] = e
      BY <1>1, <2>2, <3>1, <3>3 DEF Ascending, InHand
    <3> QED BY <2>1, <3>2, <3>3
  <2> QED BY <1>1, <2>3, <2>4 DEF Ascending, InHand
<1>8. Complete'
  <2>1. ASSUME NEW x \in lived, x[1] <= last
        PROVE  StillToCome(x)' \/ OnList(x)'
    <3>1. x[1] \in Pids /\ proc[x[1]] = x[2] BY DEF Complete
    <3>2. CASE BeingRead(x)
      <4>1. e = EntryOf(x) BY <1>1, <1>3, <3>1, <3>2 DEF BeingRead, EntryOf
      <4>2. Len(listed') \in 1 .. Len(listed') BY <1>5
      <4> QED BY <1>5, <4>1, <4>2 DEF OnList, EntryOf
    <3>3. CASE OnList(x)
      <4>1. PICK i \in 1 .. Len(listed) : listed[i] = EntryOf(x)
        BY <3>3 DEF OnList
      <4>2. listed'[i] = EntryOf(x) BY <1>5, <4>1 DEF EntryOf
      <4>3. i \in 1 .. Len(listed')
        <5>1. Len(listed') = Len(listed) + 1 /\ Len(listed) \in Nat BY <1>5
        <5> HIDE DEF SysInv
        <5> QED BY <5>1
      <4> QED BY <4>2, <4>3 DEF OnList, EntryOf
    <3>4. CASE StillToCome(x) BY <1>1, <3>4 DEF StillToCome
    <3> QED BY <2>1, <3>2, <3>3, <3>4 DEF Complete
  <2> QED BY <1>1, <2>1 DEF Complete, Walked
<1>9. Separated'
  <2>1. commas = IF listed = <<>> THEN 0 ELSE Len(listed) - 1
    BY DEF Separated
  <2>2. listed = <<>> => Len(listed) = 0 OBVIOUS
  <2> QED BY <1>1, <1>5, <2>1, <2>2 DEF Separated
<1>10. MemstatSane' BY <1>1 DEF MemstatSane
<1> QED BY <1>6, <1>7, <1>8, <1>9, <1>10

\* The memory figures: the clamp keeps the unsigned difference from wrapping,
\* so they add up to the total.
LEMMA MemstatAdds ==
  ASSUME NEW phys \in PageCounts, NEW avail \in PageCounts
  PROVE  LET m == Memstat(phys, avail) IN
         /\ m \in [allocated : 0 .. Word - 1, available : 0 .. Word - 1]
         /\ m.allocated + m.available >= 1
         /\ m.allocated + m.available < Word
<1> DEFINE a == Unsigned(avail)
           u == Unsigned(phys)
           total == IF u = 0 THEN 1 ELSE u
           free == IF a > total THEN total ELSE a
<1>1. Word \in Nat /\ Word > 1 BY SysfsAssumption
<1>2. a \in 0 .. Word - 1 /\ u \in 0 .. Word - 1
  <2>1. phys \in Int /\ avail \in Int BY SysfsAssumption
  <2> QED BY <1>1, <2>1 DEF Unsigned
<1>3. Memstat(phys, avail) = [allocated |-> (total - free) % Word, available |-> free]
  BY DEF Memstat
<1> HIDE DEF a, u
<1>4. total \in 1 .. Word - 1 /\ free \in 0 .. total BY <1>1, <1>2
<1> HIDE DEF total, free
<1>5. total - free \in 0 .. Word - 1 /\ free \in 0 .. Word - 1
      /\ (total - free) + free = total
  BY <1>1, <1>4
<1>6. (total - free) % Word = total - free BY <1>1, <1>5
<1> QED BY <1>1, <1>3, <1>4, <1>5, <1>6

LEMMA RestKeeps == ASSUME SysInv, WriteRest \/ CannotWrite PROVE SysInv'
<1> USE DEF SysInv
<1>1. /\ UNCHANGED <<proc, births, last, buffer, entry, listed, commas, lived>>
      /\ wstep \in {"start", "walked"} /\ wstep' \in {"done", "crashed"}
      /\ wstep' = "done" => wstep = "walked"
      /\ \/ wstep' = "crashed" /\ memstat' = memstat
         \/ \E phys, avail \in PageCounts : memstat' = Memstat(phys, avail)
  BY DEF WriteRest, CannotWrite
<1>2. /\ memstat' \in [allocated : 0 .. Word - 1, available : 0 .. Word - 1]
      /\ MemstatSane'
  <2>1. CASE wstep' = "crashed" /\ memstat' = memstat
    BY <2>1 DEF MemstatSane, SysTypeOK
  <2>2. CASE \E phys, avail \in PageCounts : memstat' = Memstat(phys, avail)
    <3>1. PICK phys, avail \in PageCounts : memstat' = Memstat(phys, avail)
      BY <2>2
    <3> QED BY <3>1, MemstatAdds DEF MemstatSane
  <2> QED BY <1>1, <2>1, <2>2
<1>3. SysTypeOK' BY <1>1, <1>2 DEF SysTypeOK
<1>4. Ascending' BY <1>1 DEF Ascending, InHand
<1>5. Complete'
  BY <1>1 DEF Complete, StillToCome, BeingRead, OnList, InHand, Walked
<1>6. Separated' BY <1>1 DEF Separated
<1> QED BY <1>2, <1>3, <1>4, <1>5, <1>6

LEMMA SysInvNext == ASSUME SysInv, [Next]_vars PROVE SysInv'
<1>1. CASE UNCHANGED sysVars
  BY <1>1 DEF SysInv, SysTypeOK, Ascending, InHand, Complete, StillToCome,
     BeingRead, OnList, Walked, Separated, MemstatSane, sysVars
<1>2. CASE WalkStep
  BY <1>2, OpenProcKeeps, GetDentsKeeps, NextEntryKeeps, SkipGoneKeeps,
     ReadStatKeeps, ReadStatusKeeps, PrintEntryKeeps DEF WalkStep
<1>3. CASE WriteRest \/ CannotWrite BY <1>3, RestKeeps
<1>4. CASE Host BY <1>4, DieKeeps, BirthKeeps DEF Host
<1> QED
  BY <1>1, <1>2, <1>3, <1>4, SysSteps DEF vars

\* The listing is right: a process that lived through the walk has one entry.
LEMMA ListingFollows == SysInv => SysDataRight
<1> SUFFICES ASSUME SysInv PROVE SysDataRight
  OBVIOUS
<1> USE DEF SysInv
<1>1. ASSUME NEW i \in 1 .. Len(listed), NEW j \in 1 .. Len(listed),
             listed[i].pid = listed[j].pid
      PROVE  i = j
  <2>1. listed[i].pid \in Nat /\ listed[j].pid \in Nat BY PidNumbers
  <2>2. ~(i < j) /\ ~(j < i) BY <1>1, <2>1 DEF Ascending
  <2> QED BY <2>2, PidNumbers
<1>2. ASSUME Walked, NEW x \in lived
      PROVE  Cardinality({i \in 1 .. Len(listed) : listed[i] = EntryOf(x)}) = 1
  <2>1. OnList(x)
    <3>1. wstep \in {"walked", "done"} /\ x[1] <= last
      BY <1>2 DEF Walked, Complete
    <3>2. buffer = <<>> BY <3>1 DEF Ascending
    <3> QED BY <3>1, <3>2 DEF Complete, StillToCome, BeingRead, InHand
  <2>2. PICK i \in 1 .. Len(listed) : listed[i] = EntryOf(x)
    BY <2>1 DEF OnList
  <2>3. \A j \in 1 .. Len(listed) : listed[j] = EntryOf(x) => j = i
    BY <1>1, <2>2
  <2>4. {j \in 1 .. Len(listed) : listed[j] = EntryOf(x)} = {i}
    BY <2>2, <2>3
  <2> QED BY <2>4, FS_Singleton
<1>3. ListingRight BY <1>1, <1>2 DEF ListingRight, EntryOf, Separated
<1> QED BY <1>3 DEF SysDataRight

\* Whatever processes are born, die and take a pid again while the launcher
\* walks: each that lived through it is listed once, with its own figures, and
\* the memory figures add up (write_processes_json, write_sysfs_data).
THEOREM SysDataSound == Spec => []SysDataRight
<1>1. Init => SysInv BY SysInvInit
<1>2. SysInv /\ [Next]_vars => SysInv' BY SysInvNext
<1>3. SysInv => SysDataRight BY ListingFollows
<1> QED BY <1>1, <1>2, <1>3, PTL DEF Spec

(***************************************************************************)
(* Types.                                                                  *)
(***************************************************************************)

LEMMA ScreenTypes == ScreenTyped => ScreenTypeOK
<1> SUFFICES ASSUME ScreenTyped PROVE ScreenTypeOK
  OBVIOUS
<1> DEFINE Images == UNION {[Pixels(m[1], m[2]) -> Shade] :
                              m \in Modes \cup {<<0, 0>>}}
<1>1. window \in Modes \cup {<<0, 0>>} /\ WindowPixels = Pixels(window[1], window[2])
  BY DEF ScreenTyped, WindowPixels
<1>2. [WindowPixels -> Shade] \subseteq Images BY <1>1
<1>3. fb \in Images /\ store \in Images /\ shown \in Images
  BY <1>2 DEF ScreenTyped
<1> QED BY <1>3 DEF ScreenTyped, ScreenTypeOK, Shade

LEMMA FdTypes == LauncherTyped /\ child \in [Jobs -> Process] => FdTypeOK
BY DEF LauncherTyped, FdTypeOK, Objects, Process, LSteps

\* Every variable keeps its type, for every value of the constants.
THEOREM TypeCorrect == Spec => []TypeOK
<1>1. ScreenInv /\ FdInv /\ SysInv => TypeOK
  BY ScreenTypes, FdTypes
  DEF ScreenInv, FdInv, LauncherInv, ChildInv, SysInv, TypeOK
<1> QED
  BY <1>1, ScreenInvInit, ScreenInvNext, FdInvInit, FdInvNext, SysInvInit,
     SysInvNext, PTL DEF Spec
=============================================================================
