------------------------------- MODULE Session -------------------------------
(***************************************************************************)
(* The life of one launcher session: the sockets it binds, the children it *)
(* forks, the pid variables it remembers them by, and the three ways it    *)
(* ends: main returns after cleanup(), exit() is called from a helper, or  *)
(* SIGTERM/SIGINT runs on_signal().                                        *)
(*                                                                         *)
(* The pid variables of main.cpp (s_app_pid, s_co_app_pid,                 *)
(* s_broker_children[], services[].child_pid, s_window_server_pid) are one *)
(* function from Slot, numbered in the order in which the teardown visits  *)
(* them.  The kernel's process table is a function from Pid: a pid is free *)
(* again once its process has been reaped, and may then be given to a      *)
(* process that has nothing to do with the session ("foreign").            *)
(***************************************************************************)
EXTENDS Integers, Sequences, FiniteSets

CONSTANTS
  Pid,          \* the pids the kernel hands out
  NoPid,        \* the -1 of a pid variable that was never assigned
  Binary,       \* Binary[i]: the binary of the i-th --service option
  BrokerCount,  \* number of --broker-service options
  MaxBroker,    \* max_broker_children
  MaxConns,     \* bound: client connections arriving on the broker sockets
  HasCoApp,     \* --co-app given
  HasScript,    \* --script given
  Env           \* the environment's events that may happen, from EnvEvent

EnvEvent == {"signal", "recycle", "unlink", "fail", "crash"}

ASSUME SessionAssumption ==
  /\ NoPid \notin Pid
  /\ Binary \in Seq(STRING)
  /\ BrokerCount \in Nat /\ MaxBroker \in Nat /\ MaxConns \in Nat
  /\ HasCoApp \in BOOLEAN /\ HasScript \in BOOLEAN
  /\ Env \subseteq EnvEvent
-----------------------------------------------------------------------------
(* Slots, in teardown order, and sockets, in the order they are bound.     *)
ServiceCount == Len(Binary)
App          == 1
CoApp        == 2
BrokerSlot   == 3 .. (2 + MaxBroker)
ServiceSlot  == (3 + MaxBroker) .. (2 + MaxBroker + ServiceCount)
WS           == 3 + MaxBroker + ServiceCount
Slot         == 1 .. WS

Window        == 1
Wm            == 2
Socket        == 1 .. (2 + ServiceCount + BrokerCount)
SocketOf(s)   == s - MaxBroker                 \* of a service slot

\* The services that share the binary of service s run as one process.
Group(s) ==
  {t \in ServiceSlot : Binary[t - 2 - MaxBroker] = Binary[s - 2 - MaxBroker]}

Ended == {"returned", "exited", "signalled"}
Location ==
  {"bind", "setup", "ws", "ws_wait", "group", "group_wait", "app",
   "script_wait", "script", "co_wait", "co", "settle", "shoot",
   "kill_apps", "unlink", "teardown"} \cup Ended

VARIABLES
  pc,        \* where the launcher is
  slot,      \* the launcher's pid variables
  fresh,     \* fork()'s result while it is not yet in a pid variable
  group,     \* the service slots of the group being started
  brokers,   \* s_broker_child_count
  at,        \* the slot the teardown is at
  termed,    \* this slot's child was sent SIGTERM and is being waited for
  bound,     \* how many sockets were bound
  socks,     \* the sockets that exist in the file system
  pidFile,   \* serenade-windowserver.pid was written
  proc,      \* the kernel's process table
  inherited, \* the pids in the pid variables a forked child has a copy of
  conns,     \* connections waiting on the broker sockets
  arrived,   \* connections that ever arrived
  overflow,  \* history: broker children that found s_broker_children full
  hit        \* history: foreign pids the session sent a signal to

launcher == <<pc, slot, fresh, group, brokers, at, termed, bound, pidFile>>
vars == <<pc, slot, fresh, group, brokers, at, termed, bound, socks, pidFile,
          proc, inherited, conns, arrived, overflow, hit>>

Recorded == {slot[s] : s \in Slot} \ {NoPid}
Live(p)  == proc[p] \in {"forked", "running"}

TypeOK ==
  /\ pc \in Location
  /\ slot \in [Slot -> Pid \cup {NoPid}]
  /\ fresh \in Pid \cup {NoPid}
  /\ group \subseteq ServiceSlot
  /\ brokers \in 0 .. MaxBroker
  /\ at \in 1 .. (WS + 1)
  /\ termed \in BOOLEAN
  /\ bound \in 0 .. (2 + ServiceCount + BrokerCount)
  /\ socks \subseteq Socket
  /\ pidFile \in BOOLEAN
  /\ proc \in [Pid -> {"free", "forked", "running", "zombie", "foreign"}]
  /\ inherited \in [Pid -> SUBSET Pid]
  /\ conns \in Nat
  /\ arrived \in Nat
  /\ overflow \subseteq Pid
  /\ hit \subseteq Pid

Init ==
  /\ pc = "bind"
  /\ slot = [s \in Slot |-> NoPid]
  /\ fresh = NoPid
  /\ group = {}
  /\ brokers = 0
  /\ at = 1
  /\ termed = FALSE
  /\ bound = 0
  /\ socks = {}
  /\ pidFile = FALSE
  /\ proc = [p \in Pid |-> "free"]
  /\ inherited = [p \in Pid |-> {}]
  /\ conns = 0
  /\ arrived = 0
  /\ overflow = {}
  /\ hit = {}
-----------------------------------------------------------------------------
(* Sockets and set-up: everything main does before its first fork.         *)

\* create_listening_socket for the next socket: a stale file is unlinked first.
BindNext ==
  /\ pc = "bind" /\ bound < 2 + ServiceCount + BrokerCount
  /\ bound' = bound + 1
  /\ socks' = socks \cup {bound + 1}
  /\ pc' = IF bound' = 2 + ServiceCount + BrokerCount THEN "setup" ELSE "bind"
  /\ UNCHANGED <<slot, fresh, group, brokers, at, termed, pidFile, proc,
                 inherited, conns, arrived, overflow, hit>>

\* Environment, sysfs data, WindowServer.ini, FIFOs, then sigaction.
Setup ==
  /\ pc = "setup"
  /\ pc' = "ws"
  /\ UNCHANGED <<slot, fresh, group, brokers, at, termed, bound, socks,
                 pidFile, proc, inherited, conns, arrived, overflow, hit>>
-----------------------------------------------------------------------------
(* Spawning.  fork() and the assignment of its result are two steps: the   *)
(* child and signals run between them.  The child starts as a copy of the  *)
(* launcher, its signal handlers and pid variables included, until exec.   *)

MayFork ==
  \/ pc \in {"ws", "group", "app", "co"}
  \/ pc \in {"script_wait", "co_wait", "settle"} /\ conns > 0

Fork ==
  /\ MayFork /\ fresh = NoPid
  /\ \E p \in Pid :
       /\ proc[p] = "free"
       /\ proc' = [proc EXCEPT ![p] = "forked"]
       /\ inherited' = [inherited EXCEPT ![p] = Recorded]
       /\ fresh' = p
  /\ conns' = IF pc \in {"script_wait", "co_wait", "settle"} THEN conns - 1
                                                            ELSE conns
  /\ UNCHANGED <<pc, slot, group, brokers, at, termed, bound, socks, pidFile,
                 arrived, overflow, hit>>

\* The fork's result is stored in the slots of S and the launcher goes on.
Store(S, next) ==
  /\ fresh # NoPid
  /\ slot' = [s \in Slot |-> IF s \in S THEN fresh ELSE slot[s]]
  /\ fresh' = NoPid
  /\ pc' = next
  /\ UNCHANGED <<at, termed, bound, socks, pidFile, proc, inherited, conns,
                 arrived, hit>>

AfterScript == IF HasCoApp THEN "co_wait" ELSE "settle"
AfterApp    == IF HasScript THEN "script_wait" ELSE AfterScript

StoreWS ==
  /\ pc = "ws"
  /\ Store({WS}, "ws_wait")
  /\ UNCHANGED <<group, brokers, overflow>>

\* Groups are started in the order of their first service option.
StoreGroup ==
  /\ pc = "group"
  /\ \E first \in ServiceSlot :
       /\ slot[first] = NoPid
       /\ \A s \in ServiceSlot : slot[s] = NoPid => first <= s
       /\ Store(Group(first), "group_wait")
       /\ group' = Group(first)
  /\ UNCHANGED <<brokers, overflow>>

\* Mutant: s_app_pid is not assigned.
StoreAppForgotten ==
  /\ pc = "app"
  /\ Store({}, AfterApp)
  /\ UNCHANGED <<group, brokers, overflow>>

StoreApp ==
  /\ pc = "app"
  /\ Store({App}, AfterApp)
  /\ UNCHANGED <<group, brokers, overflow>>

StoreCoApp ==
  /\ pc = "co"
  /\ Store({CoApp}, "settle")
  /\ UNCHANGED <<group, brokers, overflow>>

\* Mutant: the capacity test of s_broker_children is off by one.
StoreBrokerNoCap ==
  /\ pc \in {"script_wait", "co_wait", "settle"}
  /\ Store({3 + brokers}, pc)
  /\ brokers' = brokers + 1
  /\ UNCHANGED <<group, overflow>>

\* broker_wait remembers the child only while s_broker_children has room.
StoreBroker ==
  /\ pc \in {"script_wait", "co_wait", "settle"}
  /\ IF brokers < MaxBroker
       THEN /\ Store({3 + brokers}, pc)
            /\ brokers' = brokers + 1
            /\ UNCHANGED overflow
       ELSE /\ Store({}, pc)
            /\ overflow' = overflow \cup {fresh}
            /\ UNCHANGED brokers
  /\ UNCHANGED group
-----------------------------------------------------------------------------
(* Waiting.  The launcher itself holds the listeners wait_for_socket       *)
(* connects to, so the connect succeeds whenever the path still exists.    *)

Go(next) ==
  /\ pc' = next
  /\ UNCHANGED <<slot, fresh, group, brokers, termed, bound, socks,
                 proc, inherited, conns, arrived, overflow, hit>>

NextStart ==
  IF \E s \in ServiceSlot : slot[s] = NoPid THEN "group" ELSE "app"

WsReady ==
  /\ pc = "ws_wait" /\ Window \in socks
  /\ pidFile' = TRUE
  /\ Go(NextStart)
  /\ UNCHANGED at

GroupReady ==
  /\ pc = "group_wait"
  /\ \A s \in group : SocketOf(s) \in socks
  /\ Go(NextStart)
  /\ UNCHANGED <<at, pidFile>>

\* wait_for_socket timed out: cleanup() and return 1.  (Its connect() waits
\* without a deadline while five others sit in the listener's backlog; the
\* model has the deadline pass.)
NotReady ==
  /\ \/ pc = "ws_wait" /\ Window \notin socks
     \/ pc = "group_wait" /\ \E s \in group : SocketOf(s) \notin socks
  /\ at' = 3
  /\ Go("unlink")
  /\ UNCHANGED pidFile

\* broker_wait's deadline, the end of replay_script, the screenshot (and its
\* polls): the launcher moves on.
MoveOn ==
  /\ fresh = NoPid
  /\ \/ pc = "script_wait" /\ Go("script")
     \/ pc = "script" /\ Go(AfterScript)
     \/ pc = "co_wait" /\ Go("co")
     \/ pc = "settle" /\ Go("shoot")
     \/ pc = "shoot" /\ Go("kill_apps")
  /\ UNCHANGED <<at, pidFile>>
-----------------------------------------------------------------------------
(* Signals, and the teardown.                                              *)

\* The process table once SIGKILL was sent to every pid of S.
Killed(t, S) ==
  [p \in Pid |-> IF p \in S /\ t[p] \in {"forked", "running"} THEN "zombie"
                                                             ELSE t[p]]
Foreign(S) == {p \in S : proc[p] = "foreign"}

\* kill_and_reap sends SIGTERM.  A child that has not reached exec yet still
\* has the launcher's handler: it runs on_signal on its copy of the pids.
Term ==
  /\ pc \in {"kill_apps", "teardown"} /\ at <= WS /\ slot[at] # NoPid /\ ~termed
  /\ termed' = TRUE
  /\ LET p == slot[at]
         S == IF proc[p] = "forked" THEN inherited[p] \cup {p} ELSE {}
     IN /\ proc' = Killed(proc, S)
        /\ hit' = hit \cup Foreign(S \cup {p})
  /\ UNCHANGED <<pc, slot, fresh, group, brokers, at, bound, socks, pidFile,
                 inherited, conns, arrived, overflow>>

TeardownNext ==
  /\ at' = at + 1
  /\ pc' = IF pc = "kill_apps" /\ at = CoApp THEN "unlink" ELSE pc
  /\ UNCHANGED <<slot, fresh, group, brokers, bound, socks, pidFile,
                 inherited, conns, arrived, overflow>>

\* kill_and_reap(pid <= 0) returns at once.
Skip ==
  /\ pc \in {"kill_apps", "teardown"} /\ at <= WS /\ slot[at] = NoPid
  /\ TeardownNext
  /\ UNCHANGED <<termed, proc, hit>>

\* Mutant: kill_and_reap returns after the first waitpid, whatever it said.
ReapedNoWait ==
  /\ pc \in {"kill_apps", "teardown"} /\ at <= WS /\ termed
  /\ TeardownNext
  /\ termed' = FALSE
  /\ proc' = [proc EXCEPT ![slot[at]] = IF @ = "zombie" THEN "free" ELSE @]
  /\ UNCHANGED hit

\* waitpid(WNOHANG) reaps the child, or reports that it is none of ours.
Reaped ==
  /\ pc \in {"kill_apps", "teardown"} /\ at <= WS /\ termed
  /\ ~Live(slot[at])
  /\ TeardownNext
  /\ termed' = FALSE
  /\ proc' = [proc EXCEPT ![slot[at]] = IF @ = "zombie" THEN "free" ELSE @]
  /\ UNCHANGED hit

\* Mutant: a plain blocking waitpid, with no deadline.
EscalateNever ==
  FALSE /\ UNCHANGED vars

\* Mutant: SIGKILL at the deadline without reaping the child.
EscalateNoReap ==
  /\ pc \in {"kill_apps", "teardown"} /\ at <= WS /\ termed
  /\ Live(slot[at])
  /\ TeardownNext
  /\ termed' = FALSE
  /\ proc' = [proc EXCEPT ![slot[at]] = "zombie"]
  /\ UNCHANGED hit

\* Still alive at the deadline: SIGKILL, then a blocking waitpid.
Escalate ==
  /\ pc \in {"kill_apps", "teardown"} /\ at <= WS /\ termed
  /\ Live(slot[at])
  /\ TeardownNext
  /\ termed' = FALSE
  /\ proc' = [proc EXCEPT ![slot[at]] = "free"]
  /\ UNCHANGED hit

\* cleanup() removes the service and broker sockets before it kills anything,
\* the portal sockets after WindowServer is gone.
UnlinkServices ==
  /\ pc = "unlink"
  /\ socks' = socks \cap {Window, Wm}
  /\ pc' = "teardown"
  /\ UNCHANGED <<slot, fresh, group, brokers, at, termed, bound, pidFile,
                 proc, inherited, conns, arrived, overflow, hit>>

Return ==
  /\ pc = "teardown" /\ at = WS + 1
  /\ socks' = socks \ {Window, Wm}
  /\ pc' = "returned"
  /\ UNCHANGED <<slot, fresh, group, brokers, at, termed, bound, pidFile,
                 proc, inherited, conns, arrived, overflow, hit>>
-----------------------------------------------------------------------------
(* The environment.                                                        *)

\* Mutant: on_signal without the loop over s_broker_children.
SignalNoBrokers ==
  /\ "signal" \in Env /\ pc \notin Ended
  /\ pc' = "signalled"
  /\ proc' = Killed(proc, Recorded \ {slot[s] : s \in BrokerSlot})
  /\ hit' = hit \cup Foreign(Recorded)
  /\ UNCHANGED <<slot, fresh, group, brokers, at, termed, bound, socks,
                 pidFile, inherited, conns, arrived, overflow>>

\* SIGTERM or SIGINT reaches the launcher: on_signal kills what it has a pid
\* for and leaves.  (Before sigaction nothing has been forked.)
Signal ==
  /\ "signal" \in Env /\ pc \notin Ended
  /\ pc' = "signalled"
  /\ proc' = Killed(proc, Recorded)
  /\ hit' = hit \cup Foreign(Recorded)
  /\ UNCHANGED <<slot, fresh, group, brokers, at, termed, bound, socks,
                 pidFile, inherited, conns, arrived, overflow>>

\* A helper calls exit(1) or exit(2): a socket, log file, fork, FIFO write or
\* script line failed.
HelperExits ==
  /\ fresh = NoPid
  /\ \/ "fail" \in Env /\ (pc \in {"bind", "setup", "script"} \/ MayFork)
     \/ MayFork /\ \A p \in Pid : proc[p] # "free"
  /\ pc' = "exited"
  /\ UNCHANGED <<slot, fresh, group, brokers, at, termed, bound, socks,
                 pidFile, proc, inherited, conns, arrived, overflow, hit>>

KernelStep ==
  UNCHANGED <<pc, slot, fresh, group, brokers, at, termed, bound, socks,
              pidFile, inherited, conns, arrived, overflow, hit>>

Exec(p) ==
  /\ proc[p] = "forked" /\ proc' = [proc EXCEPT ![p] = "running"]
  /\ KernelStep

\* Mutant: SIGCHLD ignored (SA_NOCLDWAIT), so that the kernel reaps children.
DieAutoReaped(p) ==
  /\ \/ proc[p] = "forked" /\ "fail" \in Env
     \/ proc[p] = "running" /\ "crash" \in Env
     \/ proc[p] = "running" /\ termed /\ slot[at] = p
  /\ proc' = [proc EXCEPT ![p] = "free"]
  /\ KernelStep

\* exec failed (_exit 126 or 127), the child crashed, or SIGTERM ended it.
Die(p) ==
  /\ \/ proc[p] = "forked" /\ "fail" \in Env
     \/ proc[p] = "running" /\ "crash" \in Env
     \/ proc[p] = "running" /\ termed /\ slot[at] = p
  /\ proc' = [proc EXCEPT ![p] = "zombie"]
  /\ KernelStep

\* The kernel gives a free pid to somebody else's process.
Recycle(p) ==
  /\ "recycle" \in Env /\ proc[p] = "free"
  /\ proc' = [proc EXCEPT ![p] = "foreign"]
  /\ KernelStep

\* A client connects to a broker socket.
Connect ==
  /\ pc \notin Ended /\ arrived < MaxConns
  /\ \E s \in (3 + ServiceCount) .. (2 + ServiceCount + BrokerCount) : s \in socks
  /\ conns' = conns + 1
  /\ arrived' = arrived + 1
  /\ UNCHANGED <<pc, slot, fresh, group, brokers, at, termed, bound, socks,
                 pidFile, proc, inherited, overflow, hit>>

\* Another session starts or ends: the portal paths are shared.
OtherSession(s) ==
  /\ "unlink" \in Env /\ pc \notin Ended
  /\ socks' = socks \ {s}
  /\ UNCHANGED <<pc, slot, fresh, group, brokers, at, termed, bound, pidFile,
                 proc, inherited, conns, arrived, overflow, hit>>
-----------------------------------------------------------------------------
Launcher ==
  \/ BindNext \/ Setup \/ Fork
  \/ StoreWS \/ StoreGroup \/ StoreApp \/ StoreCoApp \/ StoreBroker
  \/ WsReady \/ GroupReady \/ NotReady \/ MoveOn
  \/ Term \/ Skip \/ Reaped \/ Escalate \/ UnlinkServices \/ Return
  \/ HelperExits

Next ==
  \/ Launcher \/ Signal \/ Connect
  \/ \E p \in Pid : Exec(p) \/ Die(p) \/ Recycle(p)
  \/ \E s \in {Window, Wm} : OtherSession(s)

\* The launcher is scheduled, its timeouts pass, and nothing blocks it.
Spec == Init /\ [][Next]_vars /\ WF_vars(Launcher)
-----------------------------------------------------------------------------
(* What a session promises.                                                *)

Ours(p) == proc[p] \in {"forked", "running", "zombie"}

\* Every child that was not reaped is still known: it is in a pid variable, it
\* is the fork that is being recorded, or s_broker_children had no room for it.
Accounted ==
  \A p \in Pid : Ours(p) => p \in Recorded \cup {fresh} \cup overflow

\* When main returns, after cleanup(), nothing the launcher kept track of is
\* running or unreaped, and none of the session's sockets is left on disk.
ReturnLeavesNothing ==
  pc = "returned" => /\ \A p \in Pid : Ours(p) => p \in overflow
                     /\ socks = {}

\* on_signal leaves no child running but the one whose fork() had not been
\* recorded yet and those beyond s_broker_children's capacity.
SignalLeavesOnlyFresh ==
  pc = "signalled" => \A p \in Pid : Live(p) => p \in {fresh} \cup overflow

\* WindowServer is told to go only when every client and service the launcher
\* kept track of has been reaped (the order of main's tail and of cleanup).
WsTermedLast ==
  pc = "teardown" /\ at = WS /\ termed
    => \A p \in Pid : Ours(p) => p = slot[WS] \/ p \in overflow

\* A process of somebody else is signalled only after the teardown reaped a
\* child, because until then an unreaped child keeps its pid from being reused.
PidsSafeUntilReaped ==
  hit # {} => \E s \in Slot : s < at /\ slot[s] # NoPid

\* However the children behave, the session ends: kill_and_reap is bounded
\* because it escalates to SIGKILL, and every wait has a deadline.
SessionEnds == <>(pc \in Ended)
-----------------------------------------------------------------------------
(* What comments say of the program, and the code does not do.             *)

\* "and tears everything down" (main.cpp's header), when a helper exits.
ExitLeavesNothing == pc = "exited" => \A p \in Pid : ~Live(p)

\* "Send SIGTERM and wait for the child to exit, escalating to SIGKILL after a
\* bounded timeout": no teardown step ends a child that was not sent SIGTERM.
TermBeforeKill ==
  [][termed' # termed =>
       \A s \in Slot : slot[s] # NoPid /\ Live(slot[s]) /\ ~Live(slot[s])'
                         => s <= at \/ slot[s] = slot[at]]_vars
=============================================================================
