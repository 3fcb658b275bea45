----------------------------- MODULE Mixer_proofs -----------------------------
(***************************************************************************)
(* Proofs about Mixer, for every set of streams.  The safety properties    *)
(* become inductive with three facts about the destructor: the flag is set *)
(* exactly from its first step on, the thread ends only because of it, and *)
(* the sink is freed only after the thread.                                *)
(***************************************************************************)
EXTENDS Mixer, TLAPS

Ended == /\ shutdown <=> server \in {"stopping", "join", "free", "gone"}
         /\ thread = "exit" => shutdown
         /\ server \in {"free", "gone"} => thread = "exit"
         /\ pulse = "freed" => server = "gone"

IInv == TypeOK /\ Ended /\ NoLostWakeup /\ StreamsKept

LEMMA IInit == Init => IInv
BY DEF Init, IInv, TypeOK, Ended, NoLostWakeup, StreamsKept

\* The steps of the server's thread.
LEMMA ServerStep ==
  ASSUME IInv,
         \/ \E s \in Streams : CreateQueue(s) \/ Disconnect(s)
         \/ Destroy \/ ServerThread
  PROVE  IInv'
<1> USE DEF IInv, Ended, StreamsKept, Holding, NothingToDo
<1>1. ASSUME NEW s \in Streams, CreateQueue(s) PROVE IInv'
  <2>1. TypeOK' BY <1>1 DEF CreateQueue, TypeOK
  <2>2. Ended' /\ StreamsKept' BY <1>1 DEF CreateQueue, TypeOK
  <2>3. NoLostWakeup' BY <1>1 DEF CreateQueue, NoLostWakeup
  <2> QED BY <2>1, <2>2, <2>3
<1>2. ASSUME NEW s \in Streams, Disconnect(s) PROVE IInv'
  BY <1>2 DEF Disconnect, TypeOK, NoLostWakeup
<1>3. CASE Destroy
  BY <1>3 DEF Destroy, TypeOK, NoLostWakeup
<1>4. CASE SignalQueue
  BY <1>4 DEF SignalQueue, TypeOK, NoLostWakeup
<1>5. CASE SetShutdown
  BY <1>5 DEF SetShutdown, TypeOK, NoLostWakeup
<1>6. CASE SignalShutdown
  BY <1>6 DEF SignalShutdown, TypeOK, NoLostWakeup
<1>7. CASE Join
  BY <1>7 DEF Join, TypeOK, NoLostWakeup
<1>8. CASE FreeSink
  BY <1>8 DEF FreeSink, TypeOK, NoLostWakeup
<1> QED BY <1>1, <1>2, <1>3, <1>4, <1>5, <1>6, <1>7, <1>8 DEF ServerThread

\* The steps of the mixer thread.
LEMMA MixerStep ==
  ASSUME IInv, MixerThread \/ WakeSpuriously
  PROVE  IInv'
<1> USE DEF IInv, Ended, StreamsKept, Holding, NothingToDo
<1>1. CASE Lock BY <1>1 DEF Lock, TypeOK, NoLostWakeup
<1>2. CASE Test BY <1>2 DEF Test, TypeOK, NoLostWakeup
<1>3. CASE Sleep BY <1>3 DEF Sleep, TypeOK, NoLostWakeup
<1>4. CASE Exit BY <1>4 DEF Exit, TypeOK, NoLostWakeup
<1>5. CASE Take
  <2>1. TypeOK' BY <1>5 DEF Take, TypeOK
  <2>2. Ended' /\ StreamsKept' /\ NoLostWakeup'
    BY <1>5 DEF Take, NoLostWakeup
  <2> QED BY <2>1, <2>2
<1>6. CASE Mix
  <2>1. TypeOK' BY <1>6 DEF Mix, TypeOK
  <2>2. Ended' /\ StreamsKept' /\ NoLostWakeup'
    BY <1>6 DEF Mix, NoLostWakeup
  <2> QED BY <2>1, <2>2
<1>7. CASE Written BY <1>7 DEF Written, TypeOK, NoLostWakeup
<1>8. CASE WakeSpuriously BY <1>8 DEF WakeSpuriously, TypeOK, NoLostWakeup
<1> QED BY <1>1, <1>2, <1>3, <1>4, <1>5, <1>6, <1>7, <1>8 DEF MixerThread

LEMMA INext == IInv /\ [Next]_vars => IInv'
<1>1. CASE UNCHANGED vars
  BY <1>1 DEF vars, IInv, Ended, TypeOK, NoLostWakeup, StreamsKept,
              NothingToDo
<1> QED BY <1>1, ServerStep, MixerStep DEF Next

LEMMA Invariance == Spec => []IInv
BY IInit, INext, PTL DEF Spec

\* Every variable of the mixer keeps its type, and no stream is both queued
\* and mixed.
THEOREM TypeCorrect == Spec => []TypeOK
<1>1. IInv => TypeOK BY DEF IInv
<1> QED BY <1>1, Invariance, PTL

\* ~Mixer frees the sink only once no thread can write to it.
THEOREM SinkSafe == Spec => []NoWriteAfterFree
<1>1. IInv => NoWriteAfterFree BY DEF IInv, Ended, NoWriteAfterFree
<1> QED BY <1>1, Invariance, PTL

\* The mixer thread never sleeps with something to do and nobody to wake it.
THEOREM WakeupSafe == Spec => []NoLostWakeup
<1>1. IInv => NoLostWakeup BY DEF IInv
<1> QED BY <1>1, Invariance, PTL

\* No connected stream drops out of both lists.
THEOREM StreamsSafe == Spec => []StreamsKept
<1>1. IInv => StreamsKept BY DEF IInv
<1> QED BY <1>1, Invariance, PTL
=============================================================================
