------------------------------ MODULE FdTakeover ------------------------------
(***************************************************************************)
(* Who holds which descriptor.  The launcher binds a listener for every    *)
(* socket (window, wm, the services', the brokers'), opens log files, forks*)
(* and, in the child, moves the listeners of one program to descriptors 3, *)
(* 4, ... and the log to 2 before exec (SOCKET_TAKEOVER).  A connection to *)
(* a broker's listener is accepted by the launcher and handed to a fresh   *)
(* instance in the same way.                                               *)
(*                                                                         *)
(* No descriptor is close-on-exec, so a child starts with a copy of the    *)
(* launcher's table.  The kernel hands out the lowest free descriptor.     *)
(*                                                                         *)
(* Listeners are numbered in the order of binding: 1 window, 2 wm, then    *)
(* the services, then the brokers.  The program that adopts a group of     *)
(* listeners is named by the first of them.                                *)
(***************************************************************************)
EXTENDS Integers, FiniteSets

CONSTANTS
  MaxFd,        \* the highest descriptor (RLIMIT_NOFILE)
  Starts,       \* sets of descriptors the launcher may start with
  Binary,       \* of each service, a function on 1 .. services
  Brokers,      \* how many broker listeners
  Apps,         \* 1, or 2 with --co-app
  MaxConns      \* bound: connections to the brokers

Services  == DOMAIN Binary
ServiceCount == Cardinality(Services)
Bound     == 2 + ServiceCount       \* listeners that are adopted
Listeners == 1 .. Bound + Brokers
Fd        == 0 .. MaxFd

\* Descriptors 0, 1 and 2 are open: were one closed, a listener would take it
\* and the child's log would be moved over it.
ASSUME FdAssumption ==
  /\ MaxFd \in Nat
  /\ \A s \in Starts : s \subseteq Fd /\ 0 .. 2 \subseteq s
  /\ Brokers \in Nat /\ Apps \in Nat \ {0} /\ MaxConns \in Nat

ASSUME ServicesAssumption ==
  IsFiniteSet(Services) /\ Services = 1 .. ServiceCount

\* What a descriptor may refer to.
Free        == <<"free", 0>>
Listener(k) == <<"listener", k>>
Conn(c)     == <<"conn", c>>
Fifo(n)     == <<"fifo", n>>
Log(job)    == <<"log", job>>

\* WindowServer's group is window and wm; services share a process when they
\* share a binary.
SameGroup(j, k) ==
  \/ j <= 2 /\ k <= 2
  \/ j > 2 /\ k > 2 /\ Binary[j - 2] = Binary[k - 2]

Adopted  == 1 .. Bound
Group(k) == {j \in Adopted : SameGroup(j, k)}

\* The member's place in its group: it goes to descriptor 3 + Rank.
Rank(k) == Cardinality({j \in Group(k) : j < k})

Jobs == {<<"group", k>> : k \in {k \in Adopted : Rank(k) = 0}}
        \cup {<<"app", a>> : a \in 1 .. Apps}
        \cup {<<"conn", c>> : c \in 1 .. MaxConns}

VARIABLES
  fds,      \* the launcher's table, Fd -> what it refers to
  lfd,      \* window_fd, wm_fd and the listener_fds; -1 not bound yet
  lstep,    \* where the launcher is
  job,      \* what it is spawning
  from,     \* the accepted connection's descriptor; -1 none
  logFd,    \* the log file's descriptor; -1 none
  child,    \* of each job, its process
  conns     \* connections accepted so far

fdVars == <<fds, lfd, lstep, job, from, logFd, child, conns>>

NoChild == [state |-> "none", table |-> [n \in Fd |-> Free], moved |-> 0,
            from |-> -1, log |-> -1]

FdTypeOK ==
  LET Object == {Free, <<"inherited", 0>>, Fifo(1), Fifo(2)}
                \cup {Listener(k) : k \in Listeners}
                \cup {Conn(c) : c \in 1 .. MaxConns} \cup {Log(j) : j \in Jobs}
  IN
  /\ fds \in [Fd -> Object]
  /\ lfd \in [Listeners -> Fd \cup {-1}]
  /\ lstep \in {"bind", "sysfs", "input", "log", "fork", "close", "wait", "gone"}
  /\ job \in Jobs
  /\ from \in Fd \cup {-1} /\ logFd \in Fd \cup {-1}
  /\ child \in [Jobs -> [state : {"none", "forked", "running", "gone"},
                         table : [Fd -> Object], moved : Nat,
                         from : Fd \cup {-1}, log : Fd \cup {-1}]]
  /\ conns \in 0 .. MaxConns

FdInit ==
  /\ \E s \in Starts :
       fds = [n \in Fd |-> IF n \in s THEN <<"inherited", 0>> ELSE Free]
  /\ lfd = [k \in Listeners |-> -1]
  /\ lstep = "bind" /\ job = <<"group", 1>>
  /\ from = -1 /\ logFd = -1
  /\ child = [j \in Jobs |-> NoChild]
  /\ conns = 0

LowestFree(n) == /\ n \in Fd /\ fds[n] = Free
                 /\ \A m \in 0 .. n - 1 : fds[m] # Free
-----------------------------------------------------------------------------
(* The launcher.                                                           *)

\* Mutant: wm is bound before window.
BindWmFirst(k) ==
  LET place(j) == IF j <= 2 THEN 3 - j ELSE j IN
  /\ lstep = "bind" /\ lfd[k] = -1
  /\ \A j \in Listeners : place(j) < place(k) => lfd[j] # -1
  /\ \E n \in Fd : /\ LowestFree(n)
                   /\ fds' = [fds EXCEPT ![n] = Listener(k)]
                   /\ lfd' = [lfd EXCEPT ![k] = n]
  /\ lstep' = IF k + 1 \in Listeners \/ k = 2 THEN "bind" ELSE "sysfs"
  /\ UNCHANGED <<job, from, logFd, child, conns>>

\* create_listening_socket, for one socket after the other.
BindOne(k) ==
  /\ lstep = "bind" /\ lfd[k] = -1 /\ \A j \in 1 .. k - 1 : lfd[j] # -1
  /\ \E n \in Fd : /\ LowestFree(n)
                   /\ fds' = [fds EXCEPT ![n] = Listener(k)]
                   /\ lfd' = [lfd EXCEPT ![k] = n]
  /\ lstep' = IF k + 1 \in Listeners THEN "bind" ELSE "sysfs"
  /\ UNCHANGED <<job, from, logFd, child, conns>>

\* What write_sysfs_data and write_window_server_config open, they close.
SysData ==
  /\ lstep = "sysfs" /\ lstep' = "input"
  /\ UNCHANGED <<fds, lfd, job, from, logFd, child, conns>>

\* setup_input_root keeps the keyboard's and the mouse's FIFO open.
OpenInput ==
  /\ lstep = "input" /\ lstep' = "log"
  /\ \E n, m \in Fd :
       /\ LowestFree(n)
       /\ m > n /\ fds[m] = Free /\ \A i \in n + 1 .. m - 1 : fds[i] # Free
       /\ fds' = [fds EXCEPT ![n] = Fifo(1), ![m] = Fifo(2)]
  /\ UNCHANGED <<lfd, job, from, logFd, child, conns>>

NoInput ==
  /\ lstep = "input" /\ lstep' = "log"
  /\ UNCHANGED <<fds, lfd, job, from, logFd, child, conns>>

OpenLog ==
  /\ lstep = "log" /\ lstep' = "fork"
  /\ \E n \in Fd : /\ LowestFree(n) /\ logFd' = n
                   /\ fds' = [fds EXCEPT ![n] = Log(job)]
  /\ UNCHANGED <<lfd, job, from, child, conns>>

\* The socket, a FIFO or the log cannot be opened: exit(1).
OutOfDescriptors ==
  /\ \/ lstep \in {"bind", "log"} /\ \A n \in Fd : fds[n] # Free
     \/ lstep = "input" /\ \A n, m \in Fd : {fds[n], fds[m]} = {Free} => n = m
  /\ lstep' = "gone" /\ fds' = [n \in Fd |-> Free]
  /\ UNCHANGED <<lfd, job, from, logFd, child, conns>>

\* spawn_with_takeover and spawn_plain: exit(1).
ForkFails ==
  /\ lstep = "fork" /\ lstep' = "gone" /\ fds' = [n \in Fd |-> Free]
  /\ UNCHANGED <<lfd, job, from, logFd, child, conns>>

\* The next group of services, in the order of their first members, or the
\* application.
Following(k) ==
  LET later == {j \in Adopted : j > k /\ Rank(j) = 0} IN
  IF later = {} THEN <<"app", 1>>
  ELSE <<"group", CHOOSE j \in later : \A i \in later : j <= i>>

\* spawn_with_takeover and spawn_plain: the child has a copy of the table, the
\* launcher closes the log.
ForkJob ==
  /\ lstep = "fork"
  /\ child' = [child EXCEPT ![job] = [state |-> "forked", table |-> fds,
                                      moved |-> 0, from |-> from,
                                      log |-> logFd]]
  /\ fds' = [fds EXCEPT ![logFd] = Free] /\ logFd' = -1
  /\ \/ /\ job[1] = "group" /\ lstep' = "log" /\ job' = Following(job[2])
     \/ /\ job[1] = "app" /\ lstep' = "wait" /\ job' = job
     \/ /\ job[1] = "conn" /\ lstep' = "close" /\ job' = job
  /\ UNCHANGED <<lfd, from, conns>>

\* Mutant: the launcher keeps its copy of the connection.
CloseNothing ==
  /\ lstep = "close" /\ lstep' = "wait" /\ from' = -1
  /\ UNCHANGED <<fds, lfd, job, logFd, child, conns>>

\* broker_wait: "drop ours so the connection closes when the service exits".
CloseConn ==
  /\ lstep = "close" /\ lstep' = "wait"
  /\ fds' = [fds EXCEPT ![from] = Free] /\ from' = -1
  /\ UNCHANGED <<lfd, job, logFd, child, conns>>

\* broker_wait finds a broker's listener readable.
Accept ==
  /\ lstep = "wait" /\ Brokers > 0 /\ conns < MaxConns
  /\ conns' = conns + 1 /\ job' = <<"conn", conns + 1>> /\ lstep' = "log"
  /\ \E n \in Fd : /\ LowestFree(n) /\ from' = n
                   /\ fds' = [fds EXCEPT ![n] = Conn(conns + 1)]
  /\ UNCHANGED <<lfd, logFd, child>>

\* After co_app_delay_ms.
SpawnCoApp ==
  /\ lstep = "wait" /\ \E a \in 2 .. Apps :
       /\ child[<<"app", a>>].state = "none"
       /\ child[<<"app", a - 1>>].state # "none"
       /\ job' = <<"app", a>>
  /\ lstep' = "log"
  /\ UNCHANGED <<fds, lfd, from, logFd, child, conns>>

\* write_sysfs_data exits or crashes.
SysFails ==
  /\ lstep = "sysfs" /\ lstep' = "gone"
  /\ fds' = [n \in Fd |-> Free]
  /\ UNCHANGED <<lfd, job, from, logFd, child, conns>>

Launch ==
  \/ \E k \in Listeners : BindOne(k)
  \/ OpenInput \/ NoInput \/ OpenLog \/ OutOfDescriptors \/ ForkFails
  \/ ForkJob \/ CloseConn \/ Accept \/ SpawnCoApp
-----------------------------------------------------------------------------
(* The children, between fork and exec.                                    *)

Unmoved(j) ==
  IF j[1] = "group" THEN {k \in Group(j[2]) : Rank(k) >= child[j].moved}
  ELSE IF j[1] = "conn" /\ child[j].moved = 0 THEN {0} ELSE {}

\* One turn of the loop over dup2: what was at 3 + moved is closed.
MoveNext(j) ==
  /\ child[j].state = "forked"
  /\ \E k \in Unmoved(j) :
       LET source == IF j[1] = "conn" THEN child[j].from ELSE lfd[k] IN
       /\ j[1] = "group" => Rank(k) = child[j].moved
       /\ child' = [child EXCEPT
            ![j].table = [@ EXCEPT ![3 + child[j].moved] = child[j].table[source]],
            ![j].moved = @ + 1]
  /\ UNCHANGED <<fds, lfd, lstep, job, from, logFd, conns>>

\* The log moves to stderr; exec, which may fail.
ExecJob(j) ==
  /\ child[j].state = "forked" /\ Unmoved(j) = {}
  /\ child' = [child EXCEPT
       ![j].table = [@ EXCEPT ![2] = child[j].table[child[j].log],
                              ![child[j].log] = Free],
       ![j].state = "running"]
  /\ UNCHANGED <<fds, lfd, lstep, job, from, logFd, conns>>

\* exec fails, or the program ends.
ExitJob(j) ==
  /\ child[j].state = "running"
  /\ child' = [child EXCEPT ![j] = [NoChild EXCEPT !.state = "gone"]]
  /\ UNCHANGED <<fds, lfd, lstep, job, from, logFd, conns>>

Instances == {<<"conn", c>> : c \in 1 .. MaxConns}

\* Of the ways a program ends those of a broker's instance matter here: the
\* others are the subject of Session, and concern nobody else's table.
Children ==
  \/ \E j \in Jobs : MoveNext(j) \/ ExecJob(j)
  \/ \E j \in Instances : ExitJob(j)
-----------------------------------------------------------------------------
\* Every program finds each socket of its SOCKET_TAKEOVER at the descriptor
\* named for it, and its log at stderr: no turn of the dup2 loop closes a
\* listener that a later turn moves, nor one it has moved, nor the log.
TakeoverRight ==
  \A j \in Jobs : child[j].state = "running" =>
    /\ child[j].table[2] = Log(j)
    /\ j[1] = "group" =>
         \A k \in Group(j[2]) : child[j].table[3 + Rank(k)] = Listener(k)
    /\ j[1] = "conn" => child[j].table[3] = Conn(j[2])

\* An accepted connection is held by the instance it was handed to and, until
\* that is forked, by the launcher, and by nobody else: it "closes when the
\* service exits".
ConnectionClosesWithService ==
  \A c \in 1 .. MaxConns :
    /\ \A j \in Jobs \ {<<"conn", c>>} :
         \A n \in Fd : child[j].table[n] # Conn(c)
    /\ \A n \in Fd : fds[n] = Conn(c) =>
         job = <<"conn", c>> /\ lstep \in {"log", "fork", "close"}
=============================================================================
