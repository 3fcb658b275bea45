-------------------------------- MODULE Mixer --------------------------------
(***************************************************************************)
(* AudioServer's mixer on a host (patch 0038): a thread that sleeps on a   *)
(* condition variable while there is nothing to mix and otherwise writes   *)
(* buffer after buffer to PulseAudio, and the destructor that must stop it *)
(* before it frees the sink.                                               *)
(*                                                                         *)
(* A critical section of the server's thread is one step, taken while the  *)
(* mixer thread does not hold the mutex; the mixer thread's own section is *)
(* split where it matters, between testing the condition and sleeping.     *)
(***************************************************************************)
CONSTANT Streams      \* the streams clients open

VARIABLES
  server,     \* the server's thread: "run", "signal" (a stream was queued),
              \* in the destructor "ending", "stopping", "join", "free", "gone"
  thread,     \* the mixer thread: see Holding and MixerThread
  shutdown,   \* m_shutdown
  pending,    \* m_pending_mixing
  active,     \* active_mix_queues
  connected,  \* streams whose client is there
  opened,     \* history: streams ever created
  pulse       \* the sink: "open", "none" (it could not be opened), "freed"

vars == <<server, thread, shutdown, pending, active, connected, opened, pulse>>

\* The mixer thread holds m_pending_mutex.
Holding == thread \in {"test", "sleep"}
-----------------------------------------------------------------------------
TypeOK ==
  /\ server \in {"run", "signal", "ending", "stopping", "join", "free", "gone"}
  /\ thread \in {"lock", "test", "sleep", "wait", "mix", "write", "exit"}
  /\ shutdown \in BOOLEAN
  /\ pending \subseteq opened /\ active \subseteq opened
  /\ pending \cap active = {}
  /\ connected \subseteq opened /\ opened \subseteq Streams
  /\ pulse \in {"open", "none", "freed"}

\* The constructor has opened the sink, or not, and started the thread.
Init ==
  /\ server = "run" /\ thread = "lock" /\ shutdown = FALSE
  /\ pending = {} /\ active = {} /\ connected = {} /\ opened = {}
  /\ pulse \in {"open", "none"}
-----------------------------------------------------------------------------
(* The server's thread.                                                    *)

\* create_queue, for a client that connects ...
CreateQueue(s) ==
  /\ server = "run" /\ s \notin opened /\ ~Holding
  /\ opened' = opened \cup {s} /\ connected' = connected \cup {s}
  /\ pending' = pending \cup {s}
  /\ server' = "signal"
  /\ UNCHANGED <<thread, shutdown, active, pulse>>

\* ... and wakes the mixer thread if it sleeps.
SignalQueue ==
  /\ server = "signal" /\ server' = "run"
  /\ thread' = IF thread = "wait" THEN "lock" ELSE thread
  /\ UNCHANGED <<shutdown, pending, active, connected, opened, pulse>>

\* A client goes away; its stream stays queued or active for now.
Disconnect(s) ==
  /\ server = "run" /\ s \in connected
  /\ connected' = connected \ {s}
  /\ UNCHANGED <<server, thread, shutdown, pending, active, opened, pulse>>

\* The server ends: ~Mixer runs.
Destroy ==
  /\ server = "run" /\ server' = "ending"
  /\ UNCHANGED <<thread, shutdown, pending, active, connected, opened, pulse>>

\* Mutant: the flag is set without the mutex.
SetShutdownUnlocked ==
  /\ server = "ending" /\ server' = "stopping" /\ shutdown' = TRUE
  /\ UNCHANGED <<thread, pending, active, connected, opened, pulse>>

\* It sets the flag under the mutex, ...
SetShutdown ==
  /\ server = "ending" /\ ~Holding
  /\ server' = "stopping" /\ shutdown' = TRUE
  /\ UNCHANGED <<thread, pending, active, connected, opened, pulse>>

\* Mutant: nobody is woken.
NoSignal ==
  /\ server = "stopping" /\ server' = "join"
  /\ UNCHANGED <<thread, shutdown, pending, active, connected, opened, pulse>>

\* ... signals, ...
SignalShutdown ==
  /\ server = "stopping" /\ server' = "join"
  /\ thread' = IF thread = "wait" THEN "lock" ELSE thread
  /\ UNCHANGED <<shutdown, pending, active, connected, opened, pulse>>

\* Mutant: the sink is freed while the thread may still run.
FreeAtOnce ==
  /\ server = "join" /\ server' = "free"
  /\ UNCHANGED <<thread, shutdown, pending, active, connected, opened, pulse>>

\* ... waits for the thread to end ...
Join ==
  /\ server = "join" /\ thread = "exit" /\ server' = "free"
  /\ UNCHANGED <<thread, shutdown, pending, active, connected, opened, pulse>>

\* ... and frees the sink, if there is one.
FreeSink ==
  /\ server = "free" /\ server' = "gone"
  /\ pulse' = IF pulse = "open" THEN "freed" ELSE pulse
  /\ UNCHANGED <<thread, shutdown, pending, active, connected, opened>>
-----------------------------------------------------------------------------
(* The mixer thread.                                                       *)

Lock ==
  /\ thread = "lock" /\ thread' = "test"
  /\ UNCHANGED <<server, shutdown, pending, active, connected, opened, pulse>>

\* Mutant: only the active streams are looked at.
NoActiveStreams == ~shutdown /\ active = {}

NothingToDo == ~shutdown /\ pending = {} /\ active = {}

\* The condition holds: sleep.
Test ==
  /\ thread = "test" /\ NothingToDo /\ thread' = "sleep"
  /\ UNCHANGED <<server, shutdown, pending, active, connected, opened, pulse>>

Sleep ==
  /\ thread = "sleep" /\ thread' = "wait"
  /\ UNCHANGED <<server, shutdown, pending, active, connected, opened, pulse>>

\* A condition variable may wake its waiter for no reason.
WakeSpuriously ==
  /\ thread = "wait" /\ thread' = "lock"
  /\ UNCHANGED <<server, shutdown, pending, active, connected, opened, pulse>>

Exit ==
  /\ thread = "test" /\ shutdown /\ thread' = "exit"
  /\ UNCHANGED <<server, shutdown, pending, active, connected, opened, pulse>>

\* Mutant: the queue is not cleared.
TakeCopy ==
  /\ thread = "test" /\ ~shutdown /\ ~NothingToDo
  /\ thread' = "mix"
  /\ active' = active \cup pending
  /\ UNCHANGED <<server, shutdown, pending, connected, opened, pulse>>

\* Mutant: the queued streams replace the active ones.
TakeOver ==
  /\ thread = "test" /\ ~shutdown /\ ~NothingToDo
  /\ thread' = "mix"
  /\ active' = IF pending = {} THEN active ELSE pending
  /\ pending' = {}
  /\ UNCHANGED <<server, shutdown, connected, opened, pulse>>

\* Adopt what was queued and unlock.
Take ==
  /\ thread = "test" /\ ~shutdown /\ ~NothingToDo
  /\ thread' = "mix"
  /\ active' = active \cup pending /\ pending' = {}
  /\ UNCHANGED <<server, shutdown, connected, opened, pulse>>

\* Streams without a client are dropped, the others mixed.
Mix ==
  /\ thread = "mix" /\ thread' = "write"
  /\ active' = active \cap connected
  /\ UNCHANGED <<server, shutdown, pending, connected, opened, pulse>>

\* pa_simple_write returns when PulseAudio has taken the buffer; at once
\* without a sink.
Written ==
  /\ thread = "write" /\ thread' = "lock"
  /\ UNCHANGED <<server, shutdown, pending, active, connected, opened, pulse>>

ServerThread ==
  SignalQueue \/ SetShutdown \/ SignalShutdown \/ Join \/ FreeSink

MixerThread == Lock \/ Test \/ Sleep \/ Exit \/ Take \/ Mix \/ Written

Next ==
  \/ \E s \in Streams : CreateQueue(s) \/ Disconnect(s)
  \/ Destroy \/ ServerThread \/ MixerThread \/ WakeSpuriously

(***************************************************************************)
(* Both threads run, pa_simple_write returns, and a server that ends gets  *)
(* the mutex although the mixer thread takes it for every buffer: it is    *)
(* held for a moment between writes that block or, without a sink, between *)
(* two rounds of a loop, where it is only the mutex that is fair.  The     *)
(* server need not end.                                                    *)
(***************************************************************************)
Spec ==
  /\ Init /\ [][Next]_vars
  /\ SF_vars(SetShutdown) /\ WF_vars(SignalQueue) /\ WF_vars(SignalShutdown)
  /\ WF_vars(Join) /\ WF_vars(FreeSink) /\ WF_vars(MixerThread)
-----------------------------------------------------------------------------
\* The sink is not freed under a thread that is, or comes to be, in a write.
NoWriteAfterFree == pulse = "freed" => thread = "exit"

\* Whoever gives the sleeping thread something to do wakes it: if it sleeps,
\* there is nothing, or the signal is about to be sent.
NoLostWakeup ==
  thread \in {"sleep", "wait"} =>
    NothingToDo \/ (thread = "wait" /\ server \in {"signal", "stopping"})

\* No stream whose client is there is forgotten while the server runs.
StreamsKept == connected \subseteq pending \cup active

\* Every stream comes to be mixed, unless its client or the server goes.
StreamsHeard ==
  \A s \in Streams :
    s \in pending ~> s \in active \/ s \notin connected \/ shutdown

\* The destructor comes to its end.
DestructorReturns == server = "ending" ~> server = "gone"
=============================================================================
