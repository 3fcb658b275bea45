---------------------------- MODULE X11Pump_proofs ----------------------------
(***************************************************************************)
(* Proofs about X11Pump, for every number of events, buffer size and frame *)
(* size: types, that no event is lost, doubled or reordered, that a        *)
(* cleared region has its repaint on the way, and that the path implements *)
(* the safety part of EventChannel.                                        *)
(***************************************************************************)
EXTENDS X11Pump, SequenceTheorems, TLAPS

USE X11PumpAssumption DEF main, hist

(***************************************************************************)
(* Facts about sequences.                                                  *)
(***************************************************************************)

\* Appending behind a concatenation appends to its second part.
LEMMA AppendBehind ==
  ASSUME NEW S, NEW s \in Seq(S), NEW t \in Seq(S), NEW e \in S
  PROVE  s \o Append(t, e) = Append(s \o t, e)
<1>1. <<e>> \in Seq(S) OBVIOUS
<1>2. Append(t, e) = t \o <<e>> BY AppendIsConcat
<1>3. s \o t \in Seq(S) BY ConcatProperties
<1>4. Append(s \o t, e) = (s \o t) \o <<e>> BY <1>3, AppendIsConcat
<1> QED BY <1>1, <1>2, <1>4, ConcatAssociative

\* Moving the first element of one sequence to the end of another leaves
\* their concatenation as it was.
LEMMA MoveHead ==
  ASSUME NEW S, NEW s \in Seq(S), NEW t \in Seq(S), t # <<>>
  PROVE  Append(s, Head(t)) \o Tail(t) = s \o t
<1>0. /\ Len(t) \in Nat \ {0} /\ Len(s) \in Nat
  BY EmptySeq, LenProperties
<1>1. /\ Head(t) \in S /\ Tail(t) \in Seq(S) /\ Len(Tail(t)) = Len(t) - 1
      /\ \A i \in 1 .. Len(Tail(t)) : Tail(t)[i] = t[i + 1]
      /\ Head(t) = t[1]
  BY HeadTailProperties
<1>2. /\ Append(s, Head(t)) \in Seq(S)
      /\ Len(Append(s, Head(t))) = Len(s) + 1
      /\ \A i \in 1 .. Len(s) : Append(s, Head(t))[i] = s[i]
      /\ Append(s, Head(t))[Len(s) + 1] = t[1]
  BY <1>1, AppendProperties
<1> DEFINE a == Append(s, Head(t)) \o Tail(t)
           b == s \o t
<1>3. /\ a \in Seq(S) /\ Len(a) = Len(s) + Len(t)
      /\ \A i \in 1 .. Len(s) + Len(t) :
           a[i] = IF i <= Len(s) + 1 THEN Append(s, Head(t))[i]
                                     ELSE Tail(t)[i - (Len(s) + 1)]
  <2>1. Len(s) + 1 + (Len(t) - 1) = Len(s) + Len(t) BY <1>0
  <2> QED BY <1>0, <1>1, <1>2, <2>1, ConcatProperties
<1>4. /\ b \in Seq(S) /\ Len(b) = Len(s) + Len(t)
      /\ \A i \in 1 .. Len(s) + Len(t) :
           b[i] = IF i <= Len(s) THEN s[i] ELSE t[i - Len(s)]
  BY <1>0, ConcatProperties
<1>5. \A i \in 1 .. Len(a) : a[i] = b[i]
  <2> SUFFICES ASSUME NEW i \in 1 .. Len(s) + Len(t) PROVE a[i] = b[i]
    BY <1>3
  <2> HIDE DEF a, b
  <2>1. CASE i <= Len(s) BY <2>1, <1>0, <1>2, <1>3, <1>4
  <2>2. CASE i = Len(s) + 1 BY <2>2, <1>0, <1>2, <1>3, <1>4
  <2>3. CASE i > Len(s) + 1
    <3>1. i - (Len(s) + 1) \in 1 .. Len(Tail(t)) BY <2>3, <1>0, <1>1
    <3>2. Tail(t)[i - (Len(s) + 1)] = t[(i - (Len(s) + 1)) + 1] BY <3>1, <1>1
    <3>3. (i - (Len(s) + 1)) + 1 = i - Len(s) BY <1>0
    <3> QED BY <2>3, <3>2, <3>3, <1>0, <1>3, <1>4
  <2> QED BY <2>1, <2>2, <2>3, <1>0
<1> HIDE DEF a, b
<1>6. a = b BY <1>3, <1>4, <1>5, SeqEqual
<1> QED BY <1>6 DEF a, b

\* The first element and the rest of a concatenation whose first part is not
\* empty.
LEMMA FrontOfConcat ==
  ASSUME NEW S, NEW s \in Seq(S), NEW t \in Seq(S), s # <<>>
  PROVE  /\ s \o t # <<>>
         /\ Head(s \o t) = Head(s)
         /\ Tail(s \o t) = Tail(s) \o t
<1>0. /\ Len(s) \in Nat \ {0} /\ Len(t) \in Nat BY EmptySeq, LenProperties
<1>1. /\ s \o t \in Seq(S) /\ Len(s \o t) = Len(s) + Len(t)
      /\ \A i \in 1 .. Len(s) + Len(t) :
           (s \o t)[i] = IF i <= Len(s) THEN s[i] ELSE t[i - Len(s)]
  BY ConcatProperties
<1>2. s \o t # <<>> BY <1>0, ConcatEqualIffEmpty
<1>3. Head(s \o t) = Head(s) BY <1>0, <1>1
<1>4. /\ Tail(s) \in Seq(S) /\ Len(Tail(s)) = Len(s) - 1
      /\ \A i \in 1 .. Len(Tail(s)) : Tail(s)[i] = s[i + 1]
  BY HeadTailProperties
<1> DEFINE a == Tail(s \o t)
           b == Tail(s) \o t
<1>5. /\ a \in Seq(S) /\ Len(a) = Len(s) + Len(t) - 1
      /\ \A i \in 1 .. Len(a) : a[i] = (s \o t)[i + 1]
  BY <1>1, <1>2, HeadTailProperties
<1>6. /\ b \in Seq(S) /\ Len(b) = (Len(s) - 1) + Len(t)
      /\ \A i \in 1 .. (Len(s) - 1) + Len(t) :
           b[i] = IF i <= Len(s) - 1 THEN Tail(s)[i] ELSE t[i - (Len(s) - 1)]
  BY <1>0, <1>4, ConcatProperties
<1>7. \A i \in 1 .. Len(a) : a[i] = b[i]
  <2> HIDE DEF a, b
  <2> SUFFICES ASSUME NEW i \in 1 .. Len(s) + Len(t) - 1 PROVE a[i] = b[i]
    BY <1>5
  <2>0. /\ i + 1 \in 1 .. Len(s) + Len(t) /\ i \in 1 .. (Len(s) - 1) + Len(t)
        /\ i \in 1 .. Len(a)
    BY <1>0, <1>5
  <2>1. CASE i <= Len(s) - 1
    <3>1. Tail(s)[i] = s[i + 1] BY <2>1, <1>0, <1>4
    <3>2. (s \o t)[i + 1] = s[i + 1] BY <2>0, <2>1, <1>0, <1>1
    <3> QED BY <2>0, <2>1, <3>1, <3>2, <1>5, <1>6
  <2>2. CASE i > Len(s) - 1
    <3>1. (s \o t)[i + 1] = t[(i + 1) - Len(s)] BY <2>0, <2>2, <1>0, <1>1
    <3>2. (i + 1) - Len(s) = i - (Len(s) - 1) BY <1>0
    <3> QED BY <2>0, <2>2, <3>1, <3>2, <1>0, <1>5, <1>6
  <2> QED BY <2>1, <2>2, <1>0
<1>8. Len(a) = Len(b) BY <1>0, <1>5, <1>6
<1> HIDE DEF a, b
<1>9. a = b BY <1>5, <1>6, <1>7, <1>8, SeqEqual
<1> QED BY <1>2, <1>3, <1>9 DEF a, b
-----------------------------------------------------------------------------
(***************************************************************************)
(* Types.  A rectangle being drawn is counted, so that the count cannot    *)
(* become negative.                                                        *)
(***************************************************************************)
RectsLeft == mpc = "blit" => rects > 0
TInv == TypeOK /\ RectsLeft

LEMMA TInit == Init => TInv
<1> SUFFICES ASSUME Init PROVE TInv OBVIOUS
<1>1. <<>> \in Seq(Event) /\ Len(<<>>) = 0 BY EmptySeq
<1>2. /\ conn \in Seq(Event) /\ xq \in Seq(Event)
      /\ handled \in Seq(Event) /\ sent \in Seq(Event)
      /\ Len(conn) = 0 /\ Len(sent) = 0
  BY <1>1 DEF Init
<1>3. wake = 0 /\ rects = 1 BY DEF Init
<1>4. /\ Len(conn) <= ConnSize /\ Len(sent) <= MaxEvents
      /\ wake \in 0 .. PipeSize /\ rects \in 0 .. MaxRects /\ rects > 0
  BY <1>2, <1>3
<1> QED BY <1>2, <1>4 DEF Init, TInv, TypeOK, RectsLeft

LEMMA TNext == TInv /\ [Next]_vars => TInv'
<1> SUFFICES ASSUME TInv, [Next]_vars PROVE TInv' OBVIOUS
<1> USE DEF TInv, TypeOK, RectsLeft
<1>0. /\ Len(conn) \in Nat /\ Len(xq) \in Nat /\ Len(sent) \in Nat
      /\ <<>> \in Seq(Event) /\ Len(<<>>) = 0
  BY LenProperties, EmptySeq
<1>1. CASE XSend
  <2> PICK k \in Kind :
        LET e == [n |-> Len(sent) + 1, kind |-> k] IN
        /\ conn' = Append(conn, e) /\ sent' = Append(sent, e)
        /\ blank' = (blank \/ k = "expose")
    BY <1>1 DEF XSend
  <2> DEFINE e == [n |-> Len(sent) + 1, kind |-> k]
  <2>1. Len(sent) < MaxEvents /\ Len(conn) < ConnSize BY <1>1 DEF XSend
  <2>2. Len(sent) + 1 \in 1 .. MaxEvents BY <1>0, <2>1
  <2>3. e \in Event BY <2>2 DEF Event
  <2>4. /\ conn' \in Seq(Event) /\ Len(conn') = Len(conn) + 1
        /\ sent' \in Seq(Event) /\ Len(sent') = Len(sent) + 1
    <3> HIDE DEF e
    <3>1. conn' = Append(conn, e) /\ sent' = Append(sent, e) BY DEF e
    <3> QED BY <2>3, <3>1, AppendProperties
  <2>5. Len(conn') <= ConnSize /\ Len(sent') <= MaxEvents
    BY <1>0, <2>1, <2>4
  <2>6. blank' \in BOOLEAN OBVIOUS
  <2> QED BY <1>1, <2>4, <2>5, <2>6 DEF XSend
<1>2. CASE Select BY <1>2 DEF Select
<1>3. CASE Nudge BY <1>3 DEF Nudge
<1>4. CASE StartPump BY <1>4 DEF StartPump
<1>5. CASE Wake BY <1>5 DEF Wake
<1>6. CASE ReadPipe BY <1>6 DEF ReadPipe
<1>7. CASE PipeEmpty BY <1>7 DEF PipeEmpty
<1>8. CASE BeginFrame BY <1>8 DEF BeginFrame
<1>9. CASE Pending
  <2>1. out' \in BOOLEAN /\ blank' \in BOOLEAN
    BY <1>9 DEF Pending, WriteOut
  <2>2. /\ conn' \in Seq(Event) /\ xq' \in Seq(Event)
        /\ Len(conn') <= ConnSize
    BY <1>0, <1>9 DEF Pending
  <2> QED BY <1>9, <2>1, <2>2 DEF Pending
<1>10. CASE PumpDone
  <2>1. out' \in BOOLEAN /\ blank' \in BOOLEAN
    BY <1>10 DEF PumpDone, WriteOut
  <2> QED BY <1>10, <2>1 DEF PumpDone
<1>11. CASE Handle
  <2>1. xq' \in Seq(Event) /\ handled' \in Seq(Event)
    BY <1>11, HeadTailProperties, AppendProperties DEF Handle
  <2>2. out' \in BOOLEAN BY <1>11 DEF Handle
  <2> QED BY <1>11, <2>1, <2>2 DEF Handle
<1>12. ASSUME MayRead
       PROVE  conn' \in Seq(Event) /\ xq' \in Seq(Event) /\ Len(conn') <= ConnSize
  <2>1. CASE UNCHANGED <<conn, xq>> BY <2>1
  <2>2. CASE xq' = xq \o conn /\ conn' = <<>>
    <3>1. xq \o conn \in Seq(Event) BY ConcatProperties
    <3> QED BY <1>0, <2>2, <3>1
  <2> QED BY <1>12, <2>1, <2>2 DEF MayRead
<1>13. CASE Blit BY <1>12, <1>13 DEF Blit
<1>14. CASE Flush
  <2>1. out' \in BOOLEAN /\ blank' \in BOOLEAN
    BY <1>14 DEF Flush, WriteOut
  <2> QED BY <1>12, <1>14, <2>1 DEF Flush
<1>15. CASE UNCHANGED vars BY <1>15 DEF vars
<1> QED BY <1>1, <1>2, <1>3, <1>4, <1>5, <1>6, <1>7, <1>8, <1>9, <1>10,
           <1>11, <1>13, <1>14, <1>15 DEF Next, Nudger, Main

\* Every variable of the event path keeps its type.
THEOREM TypeCorrect == Spec => []TypeOK
<1>1. TInv => TypeOK BY DEF TInv
<1> QED BY <1>1, TInit, TNext, PTL DEF Spec
-----------------------------------------------------------------------------
(***************************************************************************)
(* No event is lost: each action moves events along or leaves them alone.  *)
(***************************************************************************)
LEMMA LossNext ==
  TInv /\ TInv' /\ NothingLost /\ [Next]_vars => NothingLost'
<1> SUFFICES ASSUME TInv, TInv', NothingLost, [Next]_vars
             PROVE  NothingLost'
  OBVIOUS
<1> USE DEF NothingLost
<1>0. /\ conn \in Seq(Event) /\ xq \in Seq(Event)
      /\ handled \in Seq(Event) /\ sent \in Seq(Event)
      /\ handled \o xq \in Seq(Event)
      /\ <<>> \in Seq(Event)
  BY ConcatProperties, EmptySeq DEF TInv, TypeOK
<1>1. CASE XSend
  <2> PICK k \in Kind :
        LET e == [n |-> Len(sent) + 1, kind |-> k] IN
        /\ conn' = Append(conn, e) /\ sent' = Append(sent, e)
        /\ blank' = (blank \/ k = "expose")
    BY <1>1 DEF XSend
  <2> DEFINE e == [n |-> Len(sent) + 1, kind |-> k]
  <2>1. conn' = Append(conn, e) /\ sent' = Append(sent, e)
        /\ UNCHANGED <<handled, xq>>
    BY <1>1 DEF XSend
  <2>2. Len(sent) \in Nat /\ Len(sent) < MaxEvents
    BY <1>0, <1>1, LenProperties DEF XSend
  <2>3. e \in Event BY <2>2 DEF Event
  <2> HIDE DEF e
  <2>4. (handled \o xq) \o Append(conn, e) = Append((handled \o xq) \o conn, e)
    <3> HIDE DEF NothingLost
    <3> DEFINE front == handled \o xq
    <3>1. front \in Seq(Event) BY <1>0
    <3> HIDE DEF front
    <3>2. front \o Append(conn, e) = Append(front \o conn, e)
      BY <1>0, <2>3, <3>1, AppendBehind
    <3> QED BY <3>2 DEF front
  <2> QED BY <2>1, <2>4
<1>2. CASE UNCHANGED <<handled, xq, conn, sent>> BY <1>2
<1>3. CASE Pending
  <2>1. xq = <<>> /\ xq' = conn /\ conn' = <<>> /\ UNCHANGED hist
    BY <1>3 DEF Pending
  <2>2. handled \o <<>> = handled /\ (handled \o conn) \o <<>> = handled \o conn
    BY <1>0, ConcatEmptySeq, ConcatProperties
  <2> QED BY <2>1, <2>2
<1>4. CASE Handle
  <2>1. xq # <<>> /\ xq' = Tail(xq) /\ handled' = Append(handled, Head(xq))
        /\ UNCHANGED <<conn, sent>>
    BY <1>4 DEF Handle
  <2>2. Append(handled, Head(xq)) \o Tail(xq) = handled \o xq
    BY <1>0, <2>1, MoveHead
  <2> QED BY <2>1, <2>2
<1>5. CASE MayRead /\ UNCHANGED hist
  <2>1. CASE UNCHANGED <<conn, xq>> BY <1>5, <2>1
  <2>2. CASE xq' = xq \o conn /\ conn' = <<>>
    <3>1. xq \o conn \in Seq(Event) BY <1>0, ConcatProperties
    <3>2. handled \o (xq \o conn) \in Seq(Event)
      BY <1>0, <3>1, ConcatProperties
    <3>3. (handled \o (xq \o conn)) \o <<>> = handled \o (xq \o conn)
      BY <3>2, ConcatEmptySeq
    <3>4. handled \o (xq \o conn) = (handled \o xq) \o conn
      <4>1. /\ handled \in Seq(Event) /\ xq \in Seq(Event)
            /\ conn \in Seq(Event)
        BY <1>0
      <4>2. \A a, b, c \in Seq(Event) : a \o (b \o c) = (a \o b) \o c
        BY ConcatAssociative, SMTT(60)
      <4>3. \A b, c \in Seq(Event) : handled \o (b \o c) = (handled \o b) \o c
        BY <4>1, <4>2, Zenon
      <4> QED BY <4>1, <4>3, Zenon
    <3> QED BY <1>5, <2>2, <3>3, <3>4
  <2> QED BY <1>5, <2>1, <2>2 DEF MayRead
<1>6. CASE Blit \/ Flush BY <1>5, <1>6 DEF Blit, Flush
<1> QED BY <1>1, <1>2, <1>3, <1>4, <1>6
     DEF Next, Nudger, Main, Select, Nudge, StartPump, Wake, ReadPipe,
         PipeEmpty, BeginFrame, PumpDone, vars

\* What was sent is what was acted upon, what Xlib holds and what is on the
\* connection, in that order.
THEOREM Lossless == Spec => []NothingLost
<1>1. Init => NothingLost
  BY EmptySeq, ConcatEmptySeq DEF Init, NothingLost
<1> QED BY <1>1, TInit, TNext, LossNext, PTL DEF Spec
-----------------------------------------------------------------------------
(***************************************************************************)
(* The path implements the safety part of EventChannel.                    *)
(***************************************************************************)
LEMMA ChannelStep ==
  TInv /\ TInv' /\ [Next]_vars => [Channel!Next]_(Channel!vars)
<1> SUFFICES ASSUME TInv, TInv', [Next]_vars
             PROVE  [Channel!Next]_(Channel!vars)
  OBVIOUS
<1> USE DEF Channel!vars
<1>0. /\ conn \in Seq(Event) /\ xq \in Seq(Event) /\ sent \in Seq(Event)
      /\ <<>> \in Seq(Event) /\ <<>> \o conn = conn
      /\ conn \o <<>> = conn
      /\ (xq \o conn) \o <<>> = xq \o conn
  BY EmptySeq, ConcatEmptySeq, ConcatProperties DEF TInv, TypeOK
<1>1. CASE XSend
  <2> PICK k \in Kind :
        LET e == [n |-> Len(sent) + 1, kind |-> k] IN
        /\ conn' = Append(conn, e) /\ sent' = Append(sent, e)
        /\ blank' = (blank \/ k = "expose")
    BY <1>1 DEF XSend
  <2> DEFINE e == [n |-> Len(sent) + 1, kind |-> k]
  <2>1. conn' = Append(conn, e) /\ UNCHANGED <<handled, xq>>
    BY <1>1 DEF XSend
  <2>2. Len(sent) \in Nat /\ Len(sent) < MaxEvents
    BY <1>0, <1>1, LenProperties DEF XSend
  <2>3. e \in Event BY <2>2 DEF Event
  <2> HIDE DEF e
  <2>4. (xq \o conn)' = Append(xq \o conn, e)
    BY <1>0, <2>1, <2>3, AppendBehind
  <2> QED BY <2>1, <2>3, <2>4 DEF Channel!Next, Channel!Send
<1>2. CASE Handle
  <2>1. xq # <<>> /\ xq' = Tail(xq) /\ handled' = Append(handled, Head(xq))
        /\ UNCHANGED conn
    BY <1>2 DEF Handle
  <2>2. /\ xq \o conn # <<>> /\ Head(xq \o conn) = Head(xq)
        /\ Tail(xq \o conn) = Tail(xq) \o conn
    BY <1>0, <2>1, FrontOfConcat
  <2>3. Channel!Act BY <2>1, <2>2 DEF Channel!Act
  <2> QED BY <2>3 DEF Channel!Next
<1>3. CASE UNCHANGED <<handled, xq, conn>> BY <1>3
<1>4. CASE Pending
  <2>1. xq = <<>> /\ xq' = conn /\ conn' = <<>> /\ handled' = handled
    BY <1>4 DEF Pending
  <2> QED BY <1>0, <2>1
<1>5. CASE MayRead /\ UNCHANGED hist BY <1>0, <1>5 DEF MayRead
<1>6. CASE Blit \/ Flush BY <1>5, <1>6 DEF Blit, Flush
<1> QED BY <1>1, <1>2, <1>3, <1>4, <1>6
     DEF Next, Nudger, Main, Select, Nudge, StartPump, Wake, ReadPipe,
         PipeEmpty, BeginFrame, PumpDone, vars

\* Every behaviour of the event path is a behaviour of the channel.
THEOREM RefinesChannel == Spec => Channel!Safe
<1>1. Init => Channel!Init
  BY EmptySeq, ConcatEmptySeq DEF Init, Channel!Init
<1> QED BY <1>1, TInit, TNext, ChannelStep, PTL DEF Spec, Channel!Safe
-----------------------------------------------------------------------------
(***************************************************************************)
(* A cleared region has its repaint on the way.                            *)
(***************************************************************************)
HasExpose(s) == \E i \in 1 .. Len(s) : s[i].kind = "expose"

\* A concatenation holds an Expose when one of its parts does, and only then.
LEMMA ExposeConcat ==
  ASSUME NEW S, NEW s \in Seq(S), NEW t \in Seq(S)
  PROVE  HasExpose(s \o t) <=> HasExpose(s) \/ HasExpose(t)
<1>1. /\ Len(s \o t) = Len(s) + Len(t)
      /\ \A i \in 1 .. Len(s) + Len(t) :
           (s \o t)[i] = IF i <= Len(s) THEN s[i] ELSE t[i - Len(s)]
  BY ConcatProperties
<1>2. Len(s) \in Nat /\ Len(t) \in Nat BY LenProperties
<1>3. ASSUME HasExpose(s) PROVE HasExpose(s \o t)
  <2> PICK i \in 1 .. Len(s) : s[i].kind = "expose" BY <1>3 DEF HasExpose
  <2>1. i \in 1 .. Len(s) + Len(t) /\ i <= Len(s) BY <1>2
  <2>2. (s \o t)[i].kind = "expose" BY <1>1, <2>1
  <2> QED BY <1>1, <2>1, <2>2 DEF HasExpose
<1>4. ASSUME HasExpose(t) PROVE HasExpose(s \o t)
  <2> PICK i \in 1 .. Len(t) : t[i].kind = "expose" BY <1>4 DEF HasExpose
  <2>1. /\ i + Len(s) \in 1 .. Len(s) + Len(t) /\ ~(i + Len(s) <= Len(s))
        /\ (i + Len(s)) - Len(s) = i
    BY <1>2
  <2>2. (s \o t)[i + Len(s)].kind = "expose" BY <1>1, <2>1
  <2> QED BY <1>1, <2>1, <2>2 DEF HasExpose
<1>5. ASSUME HasExpose(s \o t) PROVE HasExpose(s) \/ HasExpose(t)
  <2> PICK i \in 1 .. Len(s) + Len(t) : (s \o t)[i].kind = "expose"
    BY <1>1, <1>5 DEF HasExpose
  <2>1. CASE i <= Len(s)
    <3>1. i \in 1 .. Len(s) /\ s[i].kind = "expose" BY <1>1, <1>2, <2>1
    <3> QED BY <3>1 DEF HasExpose
  <2>2. CASE i > Len(s)
    <3>1. i - Len(s) \in 1 .. Len(t) /\ t[i - Len(s)].kind = "expose"
      BY <1>1, <1>2, <2>2
    <3> QED BY <3>1 DEF HasExpose
  <2> QED BY <1>2, <2>1, <2>2
<1> QED BY <1>3, <1>4, <1>5

\* Taking the first event off takes at most that Expose away.
LEMMA ExposeTail ==
  ASSUME NEW S, NEW s \in Seq(S), s # <<>>, HasExpose(s)
  PROVE  Head(s).kind = "expose" \/ HasExpose(Tail(s))
<1>1. /\ Len(Tail(s)) = Len(s) - 1 /\ Len(s) \in Nat
      /\ \A i \in 1 .. Len(Tail(s)) : Tail(s)[i] = s[i + 1]
  BY HeadTailProperties, LenProperties
<1> PICK i \in 1 .. Len(s) : s[i].kind = "expose" BY DEF HasExpose
<1>2. CASE i = 1 BY <1>2
<1>3. CASE i > 1
  <2>1. /\ i - 1 \in 1 .. Len(Tail(s)) /\ (i - 1) + 1 = i BY <1>1, <1>3
  <2>2. Tail(s)[i - 1].kind = "expose" BY <1>1, <2>1
  <2> QED BY <2>1, <2>2 DEF HasExpose
<1> QED BY <1>1, <1>2, <1>3

\* An appended event is held, and what was held is held still.
LEMMA ExposeAppend ==
  ASSUME NEW S, NEW s \in Seq(S), NEW e \in S,
         e.kind = "expose" \/ HasExpose(s)
  PROVE  HasExpose(Append(s, e))
<1>1. /\ Len(Append(s, e)) = Len(s) + 1 /\ Len(s) \in Nat
      /\ \A i \in 1 .. Len(s) : Append(s, e)[i] = s[i]
      /\ Append(s, e)[Len(s) + 1] = e
  BY AppendProperties, LenProperties
<1>2. CASE e.kind = "expose"
  <2>1. Len(s) + 1 \in 1 .. Len(Append(s, e)) BY <1>1
  <2> QED BY <1>1, <1>2, <2>1 DEF HasExpose
<1>3. CASE HasExpose(s)
  <2> PICK i \in 1 .. Len(s) : s[i].kind = "expose" BY <1>3 DEF HasExpose
  <2>1. i \in 1 .. Len(Append(s, e)) BY <1>1
  <2> QED BY <1>1, <2>1 DEF HasExpose
<1> QED BY <1>2, <1>3

\* The same with the two queues named apart.
Held == blank => out \/ HasExpose(xq) \/ HasExpose(conn)

LEMMA HeldNext == TInv /\ Held /\ [Next]_vars => Held'
<1> SUFFICES ASSUME TInv, Held, [Next]_vars PROVE Held' OBVIOUS
<1>0. conn \in Seq(Event) /\ xq \in Seq(Event) /\ sent \in Seq(Event)
  BY DEF TInv, TypeOK
<1>n. ~HasExpose(<<>>) BY EmptySeq DEF HasExpose
<1>1. CASE XSend
  <2> PICK k \in Kind :
        LET e == [n |-> Len(sent) + 1, kind |-> k] IN
        /\ conn' = Append(conn, e) /\ sent' = Append(sent, e)
        /\ blank' = (blank \/ k = "expose")
    BY <1>1 DEF XSend
  <2> DEFINE e == [n |-> Len(sent) + 1, kind |-> k]
  <2>1. /\ conn' = Append(conn, e) /\ blank' = (blank \/ k = "expose")
        /\ UNCHANGED <<out, xq>>
    BY <1>1 DEF XSend
  <2>2. Len(sent) \in Nat /\ Len(sent) < MaxEvents
    BY <1>0, <1>1, LenProperties DEF XSend
  <2>3. e \in Event BY <2>2 DEF Event
  <2>4. e.kind = k OBVIOUS
  <2> HIDE DEF e
  <2>5. (k = "expose" \/ HasExpose(conn)) => HasExpose(Append(conn, e))
    BY <1>0, <2>3, <2>4, ExposeAppend
  <2> QED BY <2>1, <2>5 DEF Held
<1>2. CASE UNCHANGED <<blank, out, xq, conn>> BY <1>2 DEF Held, HasExpose
<1>3. CASE Pending \/ PumpDone
  <2>1. xq = <<>> /\ blank' = (blank /\ ~out)
        /\ (xq' = conn \/ UNCHANGED <<xq, conn>>)
    BY <1>3 DEF Pending, PumpDone, WriteOut
  <2> QED BY <1>n, <2>1 DEF Held, HasExpose
<1>4. CASE Handle
  <2>1. /\ xq # <<>> /\ xq' = Tail(xq) /\ UNCHANGED <<conn, blank>>
        /\ out' = (out \/ Head(xq).kind = "expose")
    BY <1>4 DEF Handle
  <2>2. HasExpose(xq) => Head(xq).kind = "expose" \/ HasExpose(Tail(xq))
    BY <1>0, <2>1, ExposeTail
  <2> QED BY <2>1, <2>2 DEF Held
<1>5. ASSUME MayRead
       PROVE  HasExpose(xq) \/ HasExpose(conn)
                => HasExpose(xq') \/ HasExpose(conn')
  <2>1. HasExpose(xq \o conn) <=> HasExpose(xq) \/ HasExpose(conn)
    BY <1>0, ExposeConcat
  <2> QED BY <1>5, <2>1 DEF MayRead
<1>6. CASE Blit
  <2>1. MayRead /\ UNCHANGED <<out, blank>> BY <1>6 DEF Blit
  <2> QED BY <1>5, <2>1 DEF Held
<1>7. CASE Flush
  <2>1. MayRead /\ blank' = (blank /\ ~out) BY <1>7 DEF Flush, WriteOut
  <2> QED BY <1>5, <2>1 DEF Held
<1> QED BY <1>1, <1>2, <1>3, <1>4, <1>6, <1>7
     DEF Next, Nudger, Main, Select, Nudge, StartPump, Wake, ReadPipe,
         PipeEmpty, BeginFrame, vars

\* While the window has a cleared region, an Expose or the repaint that
\* answers one is on its way.
THEOREM ClearedIsRepaired == Spec => []ExposeInFlight
<1>1. Init => Held BY DEF Init, Held
<1>2. TInv /\ Held => ExposeInFlight
  <2> SUFFICES ASSUME TInv, Held PROVE ExposeInFlight OBVIOUS
  <2>1. HasExpose(xq \o conn) <=> HasExpose(xq) \/ HasExpose(conn)
    BY ExposeConcat DEF TInv, TypeOK
  <2> QED BY <2>1 DEF Held, HasExpose, ExposeInFlight
<1> QED BY <1>1, <1>2, TInit, TNext, HeldNext, PTL DEF Spec
=============================================================================
