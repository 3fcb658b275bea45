------------------------------- MODULE SysfsShim -------------------------------
(***************************************************************************)
(* The session's stand-in for Serenity's /sys/kernel: the launcher walks   *)
(* /proc once, before it starts anything, and writes what it finds as      *)
(* JSON, then the memory figures and the other files (write_sysfs_data).   *)
(* Processes appear, vanish and reuse pids while it walks.                 *)
(*                                                                         *)
(* A process is its pid and its incarnation, the number of its birth.  An  *)
(* entry keeps, for each file it was put together from, the incarnation    *)
(* that file spoke of, 0 when it could not be read.                        *)
(***************************************************************************)
EXTENDS Integers, Sequences, FiniteSets

CONSTANTS
  Pids,         \* pids in use
  Batch,        \* directory entries one getdents returns
  MaxBirths,    \* bound: processes born while the launcher walks
  PageCounts,   \* what sysconf answers, -1 for an error
  Word          \* 2^64: the values of an unsigned long long

ASSUME SysfsAssumption ==
  /\ Pids \subseteq Nat \ {0} /\ IsFiniteSet(Pids)
  /\ Batch \in Nat \ {0} /\ MaxBirths \in Nat
  /\ Word \in Nat \ {0, 1}
  /\ PageCounts \subseteq Int /\ \A n \in PageCounts : -1 <= n /\ n < Word

VARIABLES
  proc,      \* the incarnation alive under each pid; 0 none
  births,    \* processes born so far
  wstep,     \* where the walk is
  last,      \* the pid of the last directory entry read
  buffer,    \* entries of getdents not yet looked at
  entry,     \* the entry being put together
  listed,    \* the entries written
  commas,    \* separators written between them
  lived,     \* history: processes alive since the directory was opened
  memstat    \* pages allocated and available, as written

walk    == <<wstep, last, buffer, entry, listed, commas, memstat>>
sysVars == <<proc, births, wstep, last, buffer, entry, listed, commas, lived,
             memstat>>

NoEntry == [pid |-> 0, stat |-> 0, status |-> 0, tasks |-> 0]

SysTypeOK ==
  /\ proc \in [Pids -> Nat] /\ births \in Nat
  /\ wstep \in {"start", "next", "stat", "status", "print", "walked", "done",
                "crashed"}
  /\ last \in Pids \cup {0}
  /\ buffer \in Seq(Pids)
  /\ entry \in [pid : Pids \cup {0}, stat : Nat, status : Nat, tasks : Nat]
  /\ listed \in Seq([pid : Pids, stat : Nat, status : Nat, tasks : Nat])
  /\ commas \in Nat
  /\ lived \subseteq Pids \X Nat
  /\ memstat \in [allocated : 0 .. Word - 1, available : 0 .. Word - 1]

SysInit ==
  /\ proc = [p \in Pids |-> 1]
  /\ births = 1
  /\ wstep = "start" /\ last = 0 /\ buffer = <<>> /\ entry = NoEntry
  /\ listed = <<>> /\ commas = 0 /\ lived = {}
  /\ memstat = [allocated |-> 0, available |-> 0]
-----------------------------------------------------------------------------
(* The processes of the host.                                              *)

Die(p) ==
  /\ proc[p] # 0 /\ wstep \notin {"done", "crashed"}
  /\ proc' = [proc EXCEPT ![p] = 0]
  /\ lived' = lived \ {<<p, proc[p]>>}
  /\ UNCHANGED <<births, walk>>

Birth(p) ==
  /\ proc[p] = 0 /\ births <= MaxBirths /\ wstep \notin {"done", "crashed"}
  /\ births' = births + 1 /\ proc' = [proc EXCEPT ![p] = births + 1]
  /\ UNCHANGED <<lived, walk>>
-----------------------------------------------------------------------------
(* write_processes_json.                                                   *)

\* opendir; without it the list is empty.
OpenProc ==
  /\ wstep = "start" /\ wstep' \in {"next", "walked"}
  /\ lived' = IF wstep' = "next"
                THEN {<<p, proc[p]>> : p \in {p \in Pids : proc[p] # 0}}
                ELSE {}
  /\ UNCHANGED <<proc, births, last, buffer, entry, listed, commas, memstat>>

Ahead == {p \in Pids : proc[p] # 0 /\ p > last}

\* The n lowest pids of a set, ascending.
Lowest(s, n) ==
  [i \in 1 .. (IF Cardinality(s) < n THEN Cardinality(s) ELSE n) |->
     CHOOSE p \in s : Cardinality({q \in s : q < p}) = i - 1]

\* readdir: the kernel returns the processes alive now, by pid, from where it
\* was.
GetDents ==
  /\ wstep = "next" /\ buffer = <<>> /\ Ahead # {}
  /\ buffer' = Lowest(Ahead, Batch)
  /\ last' = buffer'[Len(buffer')]
  /\ wstep' = "stat"
  /\ UNCHANGED <<proc, births, entry, listed, commas, lived, memstat>>

NextEntry ==
  /\ wstep = "next" /\ buffer # <<>> /\ wstep' = "stat"
  /\ UNCHANGED <<proc, births, last, buffer, entry, listed, commas, lived,
                 memstat>>

EndOfProc ==
  /\ wstep = "next" /\ buffer = <<>> /\ Ahead = {} /\ wstep' = "walked"
  /\ UNCHANGED <<proc, births, last, buffer, entry, listed, commas, lived,
                 memstat>>

\* Mutant: a process that is gone ends the walk.
StopAtGone ==
  /\ wstep = "stat" /\ proc[Head(buffer)] = 0
  /\ wstep' = "walked" /\ buffer' = <<>>
  /\ UNCHANGED <<proc, births, last, entry, listed, commas, lived, memstat>>

\* parse_proc_stat fails: the process is gone.
SkipGone ==
  /\ wstep = "stat" /\ proc[Head(buffer)] = 0
  /\ wstep' = "next" /\ buffer' = Tail(buffer)
  /\ UNCHANGED <<proc, births, last, entry, listed, commas, lived, memstat>>

\* parse_proc_stat.  (The name it returns is a pointer into its own frame and
\* is not modelled.)
ReadStat ==
  /\ wstep = "stat" /\ proc[Head(buffer)] # 0
  /\ wstep' = "status"
  /\ entry' = [NoEntry EXCEPT !.pid = Head(buffer), !.stat = proc[Head(buffer)]]
  /\ buffer' = Tail(buffer)
  /\ UNCHANGED <<proc, births, last, listed, commas, lived, memstat>>

\* Sizes and ids, zeros when the process has gone by now.  The code reads the
\* file once for each of three groups of figures; one reading stands for them.
ReadStatus ==
  /\ wstep = "status" /\ wstep' = "print"
  /\ entry' = [entry EXCEPT !.status = proc[entry.pid]]
  /\ UNCHANGED <<proc, births, last, buffer, listed, commas, lived, memstat>>

\* The entry is printed, with the threads the process has now.
PrintEntry ==
  /\ wstep = "print" /\ wstep' = "next"
  /\ listed' = Append(listed, [entry EXCEPT !.tasks = proc[entry.pid]])
  /\ commas' = IF listed = <<>> THEN commas ELSE commas + 1
  /\ entry' = NoEntry
  /\ UNCHANGED <<proc, births, last, buffer, lived, memstat>>
-----------------------------------------------------------------------------
(* The rest of write_sysfs_data.                                           *)

\* Mutant: sysconf's answers stay signed.
AsAnswered(n) == n

Unsigned(n) == n % Word

\* Mutant: more pages available than there are are taken as they are.
MemstatUnclamped(phys, avail) ==
  LET total == IF Unsigned(phys) = 0 THEN 1 ELSE Unsigned(phys) IN
  [allocated |-> (total - Unsigned(avail)) % Word, available |-> Unsigned(avail)]

\* "GraphWidget divides by the total; never zero."  The subtraction is one of
\* unsigned numbers.
Memstat(phys, avail) ==
  LET total == IF Unsigned(phys) = 0 THEN 1 ELSE Unsigned(phys)
      free  == IF Unsigned(avail) > total THEN total ELSE Unsigned(avail) IN
  [allocated |-> (total - free) % Word, available |-> free]

\* memstat, cpuinfo, df and the net files.  Nobody writes them again.
WriteRest ==
  /\ wstep = "walked" /\ wstep' = "done"
  /\ \E phys, avail \in PageCounts : memstat' = Memstat(phys, avail)
  /\ UNCHANGED <<proc, births, last, buffer, entry, listed, commas, lived>>

\* A directory or the first file cannot be made: exit(1); one of the other
\* files cannot, and a null FILE is written to.
CannotWrite ==
  /\ wstep \in {"start", "walked"} /\ wstep' = "crashed"
  /\ UNCHANGED <<proc, births, last, buffer, entry, listed, commas, lived,
                 memstat>>

WalkStep ==
  \/ OpenProc \/ GetDents \/ NextEntry \/ EndOfProc \/ SkipGone \/ ReadStat
  \/ ReadStatus \/ PrintEntry

Host == \E p \in Pids : Die(p) \/ Birth(p)
-----------------------------------------------------------------------------
Walked == wstep \in {"walked", "done"}

\* Every process that lived through the walk is listed once, with all its
\* figures its own; nothing is listed twice and the list is well separated.
ListingRight ==
  Walked =>
    /\ \A x \in lived : Cardinality({i \in 1 .. Len(listed) :
         listed[i] = [pid |-> x[1], stat |-> x[2], status |-> x[2],
                      tasks |-> x[2]]}) = 1
    /\ \A i, j \in 1 .. Len(listed) : listed[i].pid = listed[j].pid => i = j
    /\ commas = IF listed = <<>> THEN 0 ELSE Len(listed) - 1

\* The memory figures add up, in plain numbers, to a positive number of pages
\* below Word: had the difference wrapped, they would add up to Word or more.
MemstatSane ==
  wstep = "done" => /\ memstat.allocated + memstat.available >= 1
                    /\ memstat.allocated + memstat.available < Word

\* What the system monitor reads is right whatever the host does meanwhile.
SysDataRight == ListingRight /\ MemstatSane
=============================================================================
