--------------------------- MODULE Session_proofs ---------------------------
(***************************************************************************)
(* Proofs about Session, for every set of pids and services and every      *)
(* environment.  Phase ties the teardown's cursor to the control location, *)
(* Unset says which pid variables have not been assigned yet (so that an   *)
(* assignment never loses a child), and Children relates the pid variables *)
(* to the kernel's process table; together with TypeOK they are inductive. *)
(***************************************************************************)
EXTENDS Session, TLAPS

SpawnLoc ==
  {"ws", "group", "app", "co", "script_wait", "co_wait", "settle"}

Phase ==
  /\ at > 1 => pc \in {"kill_apps", "unlink", "teardown"} \cup Ended
  /\ pc = "kill_apps" => at \in {1, 2}
  /\ pc = "unlink" => at = 3
  /\ pc = "teardown" => at >= 3
  /\ pc = "teardown" => socks \subseteq {Window, Wm}
  /\ pc = "returned" => at = WS + 1 /\ socks = {}
  /\ termed => /\ pc \in {"kill_apps", "teardown", "signalled"}
               /\ at <= WS /\ slot[at] # NoPid
  /\ fresh # NoPid => pc \in SpawnLoc \cup {"signalled"} /\ at = 1

Unset ==
  /\ pc \in {"bind", "setup", "ws"} => \A s \in Slot : slot[s] = NoPid
  /\ pc \in {"ws_wait", "group", "group_wait", "app"} => slot[App] = NoPid
  /\ pc \in {"ws_wait", "group", "group_wait", "app", "script_wait", "script",
             "co_wait", "co"} => slot[CoApp] = NoPid
  /\ \A s \in BrokerSlot : s >= 3 + brokers => slot[s] = NoPid
  /\ \A s, t \in ServiceSlot : t \in Group(s) => slot[s] = slot[t]

Children ==
  /\ Accounted
  /\ fresh # NoPid => Ours(fresh)
  /\ \A s \in Slot :
       slot[s] # NoPid /\ (\A k \in Slot : k < at => slot[k] # slot[s])
         => Ours(slot[s])
  /\ \A k \in Slot : k < at /\ slot[k] # NoPid => ~Ours(slot[k])
  /\ pc = "signalled" => \A s \in Slot : slot[s] # NoPid => ~Live(slot[s])
  /\ \A p \in Pid : inherited[p] \subseteq Recorded
  /\ PidsSafeUntilReaped

IInv == TypeOK /\ Phase /\ Unset /\ Children
-----------------------------------------------------------------------------
(* The constants.                                                          *)

LEMMA SlotFacts ==
  /\ ServiceCount \in Nat /\ WS \in Nat /\ WS >= 3
  /\ App \in Slot /\ CoApp \in Slot /\ WS \in Slot
  /\ BrokerSlot \subseteq Slot /\ ServiceSlot \subseteq Slot
  /\ \A s \in BrokerSlot : s # App /\ s # CoApp /\ s # WS /\ s \notin ServiceSlot
  /\ \A s \in ServiceSlot : s # App /\ s # CoApp /\ s # WS
  /\ App = 1 /\ CoApp = 2
<1>1. ServiceCount \in Nat
  BY SessionAssumption DEF ServiceCount
<1>2. QED
  BY <1>1, SessionAssumption
  DEF WS, Slot, App, CoApp, BrokerSlot, ServiceSlot

LEMMA GroupFacts ==
  \A s \in ServiceSlot :
    /\ s \in Group(s) /\ Group(s) \subseteq ServiceSlot
    /\ \A t \in Group(s) : Group(t) = Group(s)
BY DEF Group

(* Every variable keeps its type.                                          *)
LEMMA InitType == Init => TypeOK
<1> SUFFICES ASSUME Init PROVE TypeOK
  OBVIOUS
<1>1. pc \in Location /\ fresh \in Pid \cup {NoPid} /\ termed \in BOOLEAN /\ pidFile \in BOOLEAN
  BY DEF Init, Location
<1>2. brokers \in 0 .. MaxBroker /\ at \in 1 .. (WS + 1)
      /\ bound \in 0 .. (2 + ServiceCount + BrokerCount)
      /\ conns \in Nat /\ arrived \in Nat
  BY SlotFacts, SessionAssumption DEF Init
<1>3. slot \in [Slot -> Pid \cup {NoPid}] /\ proc \in [Pid -> {"free", "forked", "running", "zombie", "foreign"}]
  BY DEF Init
<1>4. inherited \in [Pid -> SUBSET Pid]
  BY DEF Init
<1>5. group \subseteq ServiceSlot /\ socks \subseteq Socket /\ overflow \subseteq Pid /\ hit \subseteq Pid
  BY DEF Init
<1>6. QED
  BY <1>1, <1>2, <1>3, <1>4, <1>5 DEF TypeOK

LEMMA StepType == TypeOK /\ [Next]_vars => TypeOK'
<1> SUFFICES ASSUME TypeOK, [Next]_vars PROVE TypeOK'
  OBVIOUS
<1> USE SessionAssumption, SlotFacts DEF TypeOK, Location, Ended
<1>1. CASE BindNext
  BY <1>1 DEF BindNext, Socket
<1>2. CASE Setup
  BY <1>2 DEF Setup
<1>3. CASE Fork
  <2>1. PICK p \in Pid : /\ proc' = [proc EXCEPT ![p] = "forked"]
                        /\ inherited' = [inherited EXCEPT ![p] = Recorded]
                        /\ fresh' = p
    BY <1>3 DEF Fork
  <2>2. proc' \in [Pid -> {"free", "forked", "running", "zombie", "foreign"}]
    BY <2>1
  <2>3. Recorded \subseteq Pid
    BY DEF Recorded
  <2>4. inherited' \in [Pid -> SUBSET Pid]
    BY <2>1, <2>3
  <2>5. conns' \in Nat
    BY <1>3 DEF Fork, MayFork
  <2>6. QED
    BY <1>3, <2>1, <2>2, <2>4, <2>5 DEF Fork
<1>4. CASE StoreWS
  BY <1>4 DEF StoreWS, Store
<1>5. CASE StoreGroup
  BY <1>5, GroupFacts DEF StoreGroup, Store
<1>6. CASE StoreApp
  BY <1>6 DEF StoreApp, Store, AfterApp, AfterScript
<1>7. CASE StoreCoApp
  BY <1>7 DEF StoreCoApp, Store
<1>8. CASE StoreBroker
  <2>1. slot' \in [Slot -> Pid \cup {NoPid}] /\ overflow' \subseteq Pid
    BY <1>8 DEF StoreBroker, Store
  <2>2. brokers' \in 0 .. MaxBroker
    BY <1>8 DEF StoreBroker, Store
  <2>3. QED
    BY <1>8, <2>1, <2>2 DEF StoreBroker, Store
<1>9. CASE WsReady
  BY <1>9 DEF WsReady, Go, NextStart
<1>10. CASE GroupReady
  BY <1>10 DEF GroupReady, Go, NextStart
<1>11. CASE NotReady
  BY <1>11 DEF NotReady, Go
<1>12. CASE MoveOn
  BY <1>12 DEF MoveOn, Go, AfterScript
<1>0. at <= WS => at \in Slot
  BY DEF Slot
<1>13. CASE Term
  <2>1. slot[at] \in Pid
    BY <1>0, <1>13 DEF Term
  <2>2. PICK S \in SUBSET Pid : proc' = Killed(proc, S)
                              /\ hit' = hit \cup Foreign(S \cup {slot[at]})
    BY <1>13, <2>1 DEF Term
  <2>3. proc' \in [Pid -> {"free", "forked", "running", "zombie", "foreign"}]
    BY <2>2 DEF Killed
  <2>4. QED
    BY <1>13, <2>1, <2>2, <2>3 DEF Term, Foreign
<1>14. CASE Skip
  BY <1>14 DEF Skip, TeardownNext
<1>15. CASE Reaped
  <2>1. proc' \in [Pid -> {"free", "forked", "running", "zombie", "foreign"}]
    BY <1>15 DEF Reaped
  <2>2. at' \in 1 .. (WS + 1) /\ pc' \in Location
    BY <1>15 DEF Reaped, TeardownNext
  <2>3. QED
    BY <1>15, <2>1, <2>2 DEF Reaped, TeardownNext
<1>16. CASE Escalate
  <2>1. proc' \in [Pid -> {"free", "forked", "running", "zombie", "foreign"}]
    BY <1>16 DEF Escalate
  <2>2. at' \in 1 .. (WS + 1) /\ pc' \in Location
    BY <1>16 DEF Escalate, TeardownNext
  <2>3. QED
    BY <1>16, <2>1, <2>2 DEF Escalate, TeardownNext
<1>17. CASE UnlinkServices
  BY <1>17 DEF UnlinkServices
<1>18. CASE Return
  BY <1>18 DEF Return
<1>19. CASE Signal
  <2>1. proc' \in [Pid -> {"free", "forked", "running", "zombie", "foreign"}]
    BY <1>19 DEF Signal, Killed
  <2>2. hit' \subseteq Pid
    BY <1>19 DEF Signal, Foreign, Recorded
  <2>3. QED
    BY <1>19, <2>1, <2>2 DEF Signal
<1>20. CASE HelperExits
  BY <1>20 DEF HelperExits
<1>21. CASE Connect
  BY <1>21 DEF Connect
<1>22. ASSUME NEW p \in Pid, Exec(p) \/ Die(p) \/ Recycle(p) PROVE TypeOK'
  <2>1. proc' \in [Pid -> {"free", "forked", "running", "zombie", "foreign"}]
    BY <1>22 DEF Exec, Die, Recycle
  <2>2. QED
    BY <1>22, <2>1 DEF Exec, Die, Recycle, KernelStep
<1>23. ASSUME NEW s \in {Window, Wm}, OtherSession(s) PROVE TypeOK'
  BY <1>23 DEF OtherSession
<1>24. CASE UNCHANGED vars
  BY <1>24 DEF vars
<1>25. QED
  BY <1>1, <1>2, <1>3, <1>4, <1>5, <1>6, <1>7, <1>8, <1>9, <1>10, <1>11,
     <1>12, <1>13, <1>14, <1>15, <1>16, <1>17, <1>18, <1>19, <1>20, <1>21,
     <1>22, <1>23, <1>24 DEF Next, Launcher
-----------------------------------------------------------------------------
(* The teardown's cursor follows the control location.                     *)
LEMMA InitPhase == Init => Phase
BY SlotFacts, SessionAssumption DEF Init, Phase, Ended

LEMMA StepPhase == TypeOK /\ Phase /\ [Next]_vars => Phase'
<1> SUFFICES ASSUME TypeOK, Phase, [Next]_vars PROVE Phase'
  OBVIOUS
<1> USE SessionAssumption, SlotFacts DEF TypeOK, Phase, Ended, SpawnLoc
<1>1. CASE BindNext
  BY <1>1 DEF BindNext
<1>2. CASE Setup
  BY <1>2 DEF Setup
<1>3. CASE Fork
  BY <1>3 DEF Fork, MayFork
<1>4. CASE StoreWS
  BY <1>4 DEF StoreWS, Store
<1>5. CASE StoreGroup
  BY <1>5 DEF StoreGroup, Store
<1>6. CASE StoreApp
  BY <1>6 DEF StoreApp, Store, AfterApp, AfterScript
<1>7. CASE StoreCoApp
  BY <1>7 DEF StoreCoApp, Store
<1>8. CASE StoreBroker
  BY <1>8 DEF StoreBroker, Store
<1>9. CASE WsReady
  BY <1>9 DEF WsReady, Go, NextStart
<1>10. CASE GroupReady
  BY <1>10 DEF GroupReady, Go, NextStart
<1>11. CASE NotReady
  BY <1>11 DEF NotReady, Go
<1>12. CASE MoveOn
  BY <1>12 DEF MoveOn, Go, AfterScript
<1>13. CASE Term
  BY <1>13 DEF Term
<1>14. CASE Skip
  BY <1>14 DEF Skip, TeardownNext
<1>15. CASE Reaped
  BY <1>15 DEF Reaped, TeardownNext
<1>16. CASE Escalate
  BY <1>16 DEF Escalate, TeardownNext
<1>17. CASE UnlinkServices
  BY <1>17 DEF UnlinkServices
<1>18. CASE Return
  BY <1>18 DEF Return
<1>19. CASE Signal
  BY <1>19 DEF Signal
<1>20. CASE HelperExits
  BY <1>20 DEF HelperExits, MayFork
<1>21. CASE Connect
  BY <1>21 DEF Connect
<1>22. ASSUME NEW p \in Pid, Exec(p) \/ Die(p) \/ Recycle(p) PROVE Phase'
  BY <1>22 DEF Exec, Die, Recycle, KernelStep
<1>23. ASSUME NEW s \in {Window, Wm}, OtherSession(s) PROVE Phase'
  BY <1>23 DEF OtherSession
<1>24. CASE UNCHANGED vars
  BY <1>24 DEF vars
<1>25. QED
  BY <1>1, <1>2, <1>3, <1>4, <1>5, <1>6, <1>7, <1>8, <1>9, <1>10, <1>11,
     <1>12, <1>13, <1>14, <1>15, <1>16, <1>17, <1>18, <1>19, <1>20, <1>21,
     <1>22, <1>23, <1>24 DEF Next, Launcher

(* No pid variable is assigned twice, and a group's variables agree.       *)
LEMMA InitUnset == Init => Unset
BY SlotFacts, SessionAssumption, GroupFacts DEF Init, Unset

LEMMA StepUnset == TypeOK /\ Phase /\ Unset /\ [Next]_vars => Unset'
<1> SUFFICES ASSUME TypeOK, Phase, Unset, [Next]_vars PROVE Unset'
  OBVIOUS
<1> USE SessionAssumption, SlotFacts DEF TypeOK, Unset, Ended
<1>1. CASE BindNext \/ Setup \/ Fork
  BY <1>1 DEF BindNext, Setup, Fork
<1>4. CASE StoreWS
  BY <1>4, GroupFacts DEF StoreWS, Store
<1>5. CASE StoreGroup
  BY <1>5, GroupFacts DEF StoreGroup, Store
<1>6. CASE StoreApp
  BY <1>6, GroupFacts DEF StoreApp, Store, AfterApp, AfterScript
<1>7. CASE StoreCoApp
  BY <1>7, GroupFacts DEF StoreCoApp, Store
<1>8. CASE StoreBroker
  BY <1>8, GroupFacts DEF StoreBroker, Store, BrokerSlot
<1>9. CASE WsReady \/ GroupReady \/ NotReady \/ MoveOn
  BY <1>9 DEF WsReady, GroupReady, NotReady, MoveOn, Go, NextStart, AfterScript
<1>13. CASE Term \/ Skip \/ Reaped \/ Escalate
  BY <1>13 DEF Term, Skip, Reaped, Escalate, TeardownNext
<1>17. CASE UnlinkServices \/ Return \/ Signal \/ HelperExits \/ Connect
  BY <1>17 DEF UnlinkServices, Return, Signal, HelperExits, Connect
<1>22. ASSUME NEW p \in Pid, Exec(p) \/ Die(p) \/ Recycle(p) PROVE Unset'
  BY <1>22 DEF Exec, Die, Recycle, KernelStep
<1>23. ASSUME NEW s \in {Window, Wm}, OtherSession(s) PROVE Unset'
  BY <1>23 DEF OtherSession
<1>24. CASE UNCHANGED vars
  BY <1>24 DEF vars
<1>25. QED
  BY <1>1, <1>4, <1>5, <1>6, <1>7, <1>8, <1>9, <1>13, <1>17, <1>22, <1>23,
     <1>24 DEF Next, Launcher
-----------------------------------------------------------------------------
(* The pid variables and the process table.                                *)
LEMMA InitChildren == Init => Children
BY SlotFacts, SessionAssumption
DEF Init, Children, Accounted, Ours, Recorded, PidsSafeUntilReaped

\* Storing the fork's result in unassigned variables forgets no child.
LEMMA StoreRecords ==
  ASSUME TypeOK, NEW S \in SUBSET Slot, NEW next, S # {},
         \A s \in S : slot[s] = NoPid, Store(S, next)
  PROVE  Recorded' = Recorded \cup {fresh}
<1>1. PICK s0 \in S : TRUE
  OBVIOUS
<1>2. \A s \in Slot : slot'[s] = IF s \in S THEN fresh ELSE slot[s]
  BY DEF Store
<1>3. fresh # NoPid
  BY DEF Store
<1>4. slot'[s0] = fresh
  BY <1>1, <1>2
<1>5. ASSUME NEW s \in Slot, slot[s] # NoPid PROVE slot'[s] = slot[s]
  BY <1>2, <1>5
<1>6. Recorded \cup {fresh} \subseteq Recorded'
  BY <1>1, <1>3, <1>4, <1>5 DEF Recorded
<1>7. Recorded' \subseteq Recorded \cup {fresh}
  BY <1>2 DEF Recorded
<1>8. QED
  BY <1>6, <1>7

\* A step that stores the fork's result keeps Children.
LEMMA StoreChildren ==
  ASSUME TypeOK, Phase, Children, NEW S \in SUBSET Slot, NEW next,
         \A s \in S : slot[s] = NoPid, Store(S, next),
         next # "signalled", pc # "signalled",
         \/ S # {} /\ UNCHANGED overflow
         \/ S = {} /\ overflow' = overflow \cup {fresh}
  PROVE  Children'
<1> USE SessionAssumption, SlotFacts DEF TypeOK
<1>1. /\ UNCHANGED <<proc, inherited, at, hit>> /\ fresh' = NoPid /\ pc' = next
      /\ fresh # NoPid /\ fresh \in Pid
      /\ \A s \in Slot : slot'[s] = IF s \in S THEN fresh ELSE slot[s]
  BY DEF Store
<1>2. at = 1 /\ Ours(fresh)
  BY <1>1 DEF Phase, Children
<1>3. Recorded \subseteq Recorded'
  <2>1. ASSUME NEW s \in Slot, slot[s] # NoPid PROVE slot'[s] = slot[s]
    BY <1>1, <2>1
  <2>2. QED
    BY <2>1 DEF Recorded
<1>4. Recorded' \cup overflow' = Recorded \cup overflow \cup {fresh}
  <2>1. CASE S # {} /\ UNCHANGED overflow
    BY <2>1, StoreRecords
  <2>2. CASE S = {} /\ overflow' = overflow \cup {fresh}
    <3>1. \A s \in Slot : slot'[s] = slot[s]
      BY <1>1, <2>2
    <3>2. Recorded' = Recorded
      BY <3>1 DEF Recorded
    <3>3. QED
      BY <2>2, <3>2
  <2>3. QED
    BY <2>1, <2>2
<1>5. Accounted'
  BY <1>1, <1>4 DEF Children, Accounted, Ours
<1>6. (\A s \in Slot :
         slot[s] # NoPid /\ (\A k \in Slot : k < at => slot[k] # slot[s])
           => Ours(slot[s]))'
  <2>1. \A s \in Slot : ~(s < at)
    BY <1>2 DEF Slot
  <2>2. \A s \in Slot : slot[s] # NoPid => Ours(slot[s])
    BY <2>1 DEF Children
  <2>3. QED
    BY <1>1, <1>2, <2>2 DEF Ours
<1>7. (\A k \in Slot : k < at /\ slot[k] # NoPid => ~Ours(slot[k]))'
  BY <1>1, <1>2 DEF Slot
<1>8. (\A p \in Pid : inherited[p] \subseteq Recorded)'
  BY <1>1, <1>3 DEF Children
<1>9. PidsSafeUntilReaped'
  BY <1>1, <1>2 DEF Children, PidsSafeUntilReaped, Slot
<1>10. QED
  BY <1>1, <1>5, <1>6, <1>7, <1>8, <1>9 DEF Children
LEMMA StepChildren ==
  TypeOK /\ Phase /\ Unset /\ Children /\ [Next]_vars => Children'
<1> SUFFICES ASSUME TypeOK, Phase, Unset, Children, [Next]_vars
             PROVE  Children'
  OBVIOUS
<1> USE SessionAssumption, SlotFacts
<1> DEFINE Kept == UNCHANGED <<slot, fresh, proc, inherited, overflow, hit>>
\* Steps that only move the control location.
<1>1. ASSUME Kept, at' = at, pc' # "signalled" \/ pc' = pc PROVE Children'
  <2>1. Recorded' = Recorded
    BY <1>1 DEF Recorded
  <2>2. Accounted'
    BY <1>1, <2>1 DEF Children, Accounted, Ours
  <2>3. PidsSafeUntilReaped'
    BY <1>1 DEF Children, PidsSafeUntilReaped
  <2>4. QED
    BY <1>1, <2>1, <2>2, <2>3 DEF Children, Ours, Live
<1>2. CASE BindNext \/ Setup \/ WsReady \/ GroupReady \/ MoveOn
  BY <1>1, <1>2
  DEF BindNext, Setup, WsReady, GroupReady, MoveOn, Go, NextStart, AfterScript
<1>3. CASE UnlinkServices \/ Return \/ HelperExits \/ Connect
  BY <1>1, <1>3 DEF UnlinkServices, Return, HelperExits, Connect
<1>4. ASSUME NEW s \in {Window, Wm}, OtherSession(s) PROVE Children'
  BY <1>1, <1>4 DEF OtherSession
<1>5. CASE UNCHANGED vars
  BY <1>1, <1>5 DEF vars
\* cleanup() after a wait that timed out: the application slots are unset.
<1>6. CASE NotReady
  <2>1. Kept /\ at' = 3 /\ pc' = "unlink" /\ at = 1
    BY <1>6 DEF NotReady, Go, Phase, Ended, TypeOK
  <2>2. \A k \in Slot : k < 3 => slot[k] = NoPid
    BY <1>6 DEF NotReady, Unset, Slot
  <2>3. hit = {}
    BY <2>1 DEF Children, PidsSafeUntilReaped, Slot
  <2>4. \A s \in Slot : slot[s] # NoPid => Ours(slot[s])
    BY <2>1 DEF Children, Slot
  <2>5. QED
    BY <2>1, <2>2, <2>3, <2>4
    DEF Children, Accounted, Ours, Recorded, PidsSafeUntilReaped
<1>7. CASE Fork
  <2>1. PICK p \in Pid : /\ proc[p] = "free"
                         /\ proc' = [proc EXCEPT ![p] = "forked"]
                         /\ inherited' = [inherited EXCEPT ![p] = Recorded]
                         /\ fresh' = p
    BY <1>7 DEF Fork
  <2>2. UNCHANGED <<pc, slot, at, overflow, hit>> /\ at = 1 /\ fresh = NoPid
        /\ pc # "signalled"
    BY <1>7 DEF Fork, MayFork, Phase, Ended, TypeOK
  <2>3. \A q \in Pid : Ours(q)' <=> Ours(q) \/ q = p
    BY <2>1 DEF Ours, TypeOK
  <2>4. Recorded' = Recorded
    BY <2>2 DEF Recorded
  <2>5. \A s \in Slot : slot[s] # NoPid => slot[s] \in Pid
    BY DEF TypeOK
  <2>6. Accounted'
    BY <2>1, <2>2, <2>3, <2>4, SessionAssumption DEF Children, Accounted
  <2>7. \A q \in Pid : inherited'[q] \subseteq Recorded'
    BY <2>1, <2>4 DEF Children, TypeOK
  <2>8. (\A s \in Slot :
           slot[s] # NoPid /\ (\A k \in Slot : k < at => slot[k] # slot[s])
             => Ours(slot[s]))'
    BY <2>2, <2>3, <2>5 DEF Children, Ours
  <2>9. \A k \in Slot : ~(k < at')
    BY <2>2 DEF Slot
  <2>10. PidsSafeUntilReaped'
    BY <2>2 DEF Children, PidsSafeUntilReaped
  <2>11. QED
    BY <2>1, <2>2, <2>3, <2>6, <2>7, <2>8, <2>9, <2>10 DEF Children
<1>8. CASE StoreWS
  BY <1>8, StoreChildren DEF StoreWS, Unset
<1>9. CASE StoreGroup
  <2>1. PICK first \in ServiceSlot :
          slot[first] = NoPid /\ Store(Group(first), "group_wait")
    BY <1>9 DEF StoreGroup
  <2>2. /\ Group(first) \subseteq Slot /\ Group(first) # {}
        /\ \A s \in Group(first) : slot[s] = NoPid
    BY <2>1, GroupFacts DEF Unset
  <2>3. QED
    BY <1>9, <2>1, <2>2, StoreChildren DEF StoreGroup
<1>10. CASE StoreApp
  BY <1>10, StoreChildren DEF StoreApp, Unset, AfterApp, AfterScript
<1>11. CASE StoreCoApp
  BY <1>11, StoreChildren DEF StoreCoApp, Unset
<1>12. CASE StoreBroker
  <2>1. CASE brokers < MaxBroker
    <3>1. 3 + brokers \in BrokerSlot
      BY <2>1 DEF BrokerSlot, TypeOK
    <3>2. slot[3 + brokers] = NoPid
      BY <3>1 DEF Unset, TypeOK
    <3>3. QED
      BY <1>12, <2>1, <3>1, <3>2, StoreChildren DEF StoreBroker
  <2>2. CASE ~(brokers < MaxBroker)
    BY <1>12, <2>2, StoreChildren DEF StoreBroker
  <2>3. QED
    BY <2>1, <2>2
\* SIGTERM and SIGKILL turn a child into a zombie at most: it stays ours.
<1>13. ASSUME NEW S \in SUBSET Recorded, proc' = Killed(proc, S),
              hit' = hit \cup Foreign(S),
              UNCHANGED <<slot, fresh, inherited, overflow, at>>,
              pc' # "signalled" \/ S = Recorded
       PROVE  Children'
  <2>1. \A p \in Pid : Ours(p)' <=> Ours(p)
    BY <1>13 DEF Ours, Killed
  <2>2. \A s \in Slot : slot[s] # NoPid => slot[s] \in Pid
    BY DEF TypeOK
  <2>3. Recorded' = Recorded
    BY <1>13 DEF Recorded
  <2>4. Accounted'
    BY <1>13, <2>1, <2>3 DEF Children, Accounted
  <2>5. pc' = "signalled" => \A s \in Slot : slot[s] # NoPid => ~Live(slot[s])'
    <3>1. ASSUME pc' = "signalled", NEW s \in Slot, slot[s] # NoPid
          PROVE  ~Live(slot[s])'
      <4>1. slot[s] \in S /\ slot[s] \in Pid
        BY <1>13, <2>2, <3>1 DEF Recorded
      <4>2. QED
        BY <1>13, <4>1 DEF Live, Killed
    <3>2. QED
      BY <3>1
  <2>6. PidsSafeUntilReaped'
    <3>1. CASE \E q \in S : proc[q] = "foreign"
      <4>1. PICK q \in S : proc[q] = "foreign"
        BY <3>1
      <4>2. PICK s \in Slot : slot[s] = q /\ slot[s] # NoPid
        BY <1>13, <4>1 DEF Recorded
      <4>3. ~Ours(slot[s])
        BY <4>1, <4>2 DEF Ours
      <4>4. \E k \in Slot : k < at /\ slot[k] = slot[s]
        BY <4>2, <4>3 DEF Children
      <4>5. QED
        BY <1>13, <4>2, <4>4 DEF PidsSafeUntilReaped
    <3>2. CASE \A q \in S : proc[q] # "foreign"
      <4>1. hit' = hit
        BY <1>13, <3>2 DEF Foreign
      <4>2. QED
        BY <1>13, <4>1 DEF Children, PidsSafeUntilReaped
    <3>3. QED
      BY <3>1, <3>2
  <2>7. (\A s \in Slot :
           slot[s] # NoPid /\ (\A k \in Slot : k < at => slot[k] # slot[s])
             => Ours(slot[s]))'
    BY <1>13, <2>1, <2>2 DEF Children, Ours
  <2>8. (\A k \in Slot : k < at /\ slot[k] # NoPid => ~Ours(slot[k]))'
    BY <1>13, <2>1, <2>2 DEF Children, Ours
  <2>9. (\A p \in Pid : inherited[p] \subseteq Recorded)'
    BY <1>13, <2>3 DEF Children
  <2>10. (fresh # NoPid => Ours(fresh))'
    BY <1>13, <2>1 DEF Children, TypeOK, Ours
  <2>11. QED
    BY <1>13, <2>4, <2>5, <2>6, <2>7, <2>8, <2>9, <2>10 DEF Children, Live
<1>14. CASE Term
  <2>1. at \in Slot /\ slot[at] # NoPid /\ slot[at] \in Pid
    BY <1>14 DEF Term, TypeOK, Slot
  <2>2. slot[at] \in Recorded /\ inherited[slot[at]] \subseteq Recorded
    <3>1. slot[at] \in Recorded
      BY <2>1 DEF Recorded
    <3>2. \A p \in Pid : inherited[p] \subseteq Recorded
      BY DEF Children
    <3>3. QED
      BY <2>1, <3>1, <3>2
  <2>3. pc' # "signalled" /\ UNCHANGED <<slot, fresh, inherited, overflow, at>>
    BY <1>14 DEF Term
  <2>4. CASE proc[slot[at]] = "forked"
    <3>1. LET S == inherited[slot[at]] \cup {slot[at]}
          IN S \subseteq Recorded /\ proc' = Killed(proc, S) /\ hit' = hit \cup Foreign(S)
      BY <1>14, <2>2, <2>4 DEF Term
    <3>2. QED
      BY <1>13, <2>3, <3>1
  <2>5. CASE proc[slot[at]] # "forked"
    \* SIGTERM alone changes no process; a recycled pid is still hit.
    <3>1. proc' = proc /\ hit' = hit \cup Foreign({slot[at]})
      BY <1>14, <2>5 DEF Term, Killed, TypeOK
    <3>2. CASE proc[slot[at]] = "foreign"
      <4>1. \E k \in Slot : k < at /\ slot[k] = slot[at]
        BY <2>1, <3>2 DEF Children, Ours
      <4>2. QED
        BY <2>1, <2>3, <3>1, <4>1
        DEF Children, Accounted, Ours, Live, Recorded, PidsSafeUntilReaped
    <3>3. CASE proc[slot[at]] # "foreign"
      BY <1>1, <2>3, <3>1, <3>3 DEF Foreign
    <3>4. QED
      BY <3>2, <3>3
  <2>6. QED
    BY <2>4, <2>5
<1>15. CASE Signal
  BY <1>13, <1>15 DEF Signal
<1>16. CASE Skip
  <2>1. /\ UNCHANGED <<slot, fresh, proc, inherited, overflow, hit>>
        /\ at' = at + 1 /\ pc' # "signalled" /\ slot[at] = NoPid /\ at \in Nat
    BY <1>16 DEF Skip, TeardownNext, TypeOK, Slot
  <2>2. \A k \in Slot : k < at' <=> k < at \/ k = at
    BY <2>1 DEF Slot
  <2>3. Recorded' = Recorded
    BY <2>1 DEF Recorded
  <2>4. Accounted'
    BY <2>1, <2>3 DEF Children, Accounted, Ours
  <2>5. PidsSafeUntilReaped'
    BY <2>1, <2>2 DEF Children, PidsSafeUntilReaped
  <2>6. (\A s \in Slot :
           slot[s] # NoPid /\ (\A k \in Slot : k < at => slot[k] # slot[s])
             => Ours(slot[s]))'
    BY <2>1, <2>2 DEF Children, Ours
  <2>7. (\A k \in Slot : k < at /\ slot[k] # NoPid => ~Ours(slot[k]))'
    BY <2>1, <2>2 DEF Children, Ours
  <2>8. QED
    BY <2>1, <2>3, <2>4, <2>5, <2>6, <2>7 DEF Children, Ours
<1>17. CASE Reaped \/ Escalate
  <2>1. /\ UNCHANGED <<slot, fresh, inherited, overflow, hit>>
        /\ at' = at + 1 /\ pc' # "signalled" /\ at \in Slot /\ at \in Nat
    BY <1>17 DEF Reaped, Escalate, TeardownNext, TypeOK, Slot
  <2>2. slot[at] # NoPid /\ slot[at] \in Pid
    BY <1>17, <2>1 DEF Reaped, Escalate, Phase, TypeOK
  <2>3. /\ proc'[slot[at]] \in {"free", "foreign"}
        /\ \A p \in Pid : p # slot[at] => proc'[p] = proc[p]
    <3>1. proc'[slot[at]] \in {"free", "foreign"}
      BY <1>17, <2>1, <2>2 DEF Reaped, Escalate, Live, TypeOK
    <3>2. \A p \in Pid : p # slot[at] => proc'[p] = proc[p]
      BY <1>17, <2>2 DEF Reaped, Escalate, TypeOK
    <3>3. QED
      BY <3>1, <3>2
  <2>4. \A s \in Slot : slot[s] # NoPid => slot[s] \in Pid
    BY DEF TypeOK
  <2>5. \A k \in Slot : k < at' <=> k < at \/ k = at
    BY <2>1 DEF Slot
  <2>6. Accounted'
    BY <2>1, <2>2, <2>3 DEF Children, Accounted, Ours, Recorded
  <2>7. (\A s \in Slot :
           slot[s] # NoPid /\ (\A k \in Slot : k < at => slot[k] # slot[s])
             => Ours(slot[s]))'
    BY <2>1, <2>3, <2>4, <2>5 DEF Children, Ours
  <2>8. (\A k \in Slot : k < at /\ slot[k] # NoPid => ~Ours(slot[k]))'
    <3>1. ASSUME NEW k \in Slot, k < at', slot[k] # NoPid PROVE ~Ours(slot[k])'
      <4>1. CASE slot[k] = slot[at]
        BY <2>1, <2>3, <4>1 DEF Ours
      <4>2. CASE slot[k] # slot[at]
        <5>1. ~Ours(slot[k]) /\ proc'[slot[k]] = proc[slot[k]]
          BY <2>3, <2>4, <2>5, <3>1, <4>2 DEF Children
        <5>2. QED
          BY <2>1, <5>1 DEF Ours
      <4>3. QED
        BY <4>1, <4>2
    <3>2. QED
      BY <2>1, <3>1 DEF Ours
  <2>9. PidsSafeUntilReaped'
    BY <2>1, <2>5 DEF Children, PidsSafeUntilReaped
  <2>10. fresh' = NoPid
    BY <1>17, <2>1 DEF Reaped, Escalate, Phase, SpawnLoc
  <2>11. QED
    BY <2>1, <2>6, <2>7, <2>8, <2>9, <2>10 DEF Children, Recorded
<1>18. ASSUME NEW p \in Pid, Exec(p) \/ Die(p) \/ Recycle(p) PROVE Children'
  <2>1. /\ UNCHANGED <<pc, slot, fresh, inherited, overflow, at, hit>>
        /\ \A q \in Pid : (Ours(q)' <=> Ours(q)) /\ (Live(q)' => Live(q))
    BY <1>18 DEF Exec, Die, Recycle, KernelStep, Ours, Live, TypeOK
  <2>2. \A s \in Slot : slot[s] # NoPid => slot[s] \in Pid
    BY DEF TypeOK
  <2>3. fresh # NoPid => fresh \in Pid
    BY DEF TypeOK
  <2>4. Accounted'
    BY <2>1 DEF Children, Accounted, Recorded
  <2>5. QED
    BY <2>1, <2>2, <2>3, <2>4
    DEF Children, Recorded, PidsSafeUntilReaped, Ours, Live
<1>19. QED
  BY <1>2, <1>3, <1>4, <1>5, <1>6, <1>7, <1>8, <1>9, <1>10, <1>11, <1>12,
     <1>14, <1>15, <1>16, <1>17, <1>18 DEF Next, Launcher
-----------------------------------------------------------------------------
(* The theorems.                                                           *)

\* The inductive invariant holds in every reachable state.
THEOREM Inductive == Spec => []IInv
<1>1. Init => IInv
  BY InitType, InitPhase, InitUnset, InitChildren DEF IInv
<1>2. IInv /\ [Next]_vars => IInv'
  BY StepType, StepPhase, StepUnset, StepChildren DEF IInv
<1>3. QED
  BY <1>1, <1>2, PTL DEF Spec

\* Every variable of a session keeps its type.
THEOREM TypeCorrect == Spec => []TypeOK
<1>1. IInv => TypeOK
  BY DEF IInv
<1>2. QED
  BY <1>1, Inductive, PTL

\* No child is ever lost: one that is not reaped is in a pid variable, is the
\* fork being recorded, or found s_broker_children full.
THEOREM ChildrenAccounted == Spec => []Accounted
<1>1. IInv => Accounted
  BY DEF IInv, Children
<1>2. QED
  BY <1>1, Inductive, PTL

\* After cleanup() nothing the launcher kept track of is left.
THEOREM ReturnIsClean == Spec => []ReturnLeavesNothing
<1>1. IInv => ReturnLeavesNothing
  <2> SUFFICES ASSUME IInv, pc = "returned"
               PROVE  socks = {} /\ \A p \in Pid : Ours(p) => p \in overflow
    BY DEF ReturnLeavesNothing
  <2>1. at = WS + 1 /\ socks = {} /\ fresh = NoPid
    BY SlotFacts DEF IInv, Phase, SpawnLoc
  <2>2. \A s \in Slot : slot[s] # NoPid => ~Ours(slot[s])
    BY <2>1, SlotFacts DEF IInv, Children, Slot
  <2>3. QED
    BY <2>1, <2>2, SessionAssumption DEF IInv, Children, Accounted, Recorded
<1>2. QED
  BY <1>1, Inductive, PTL

\* on_signal misses only the fork being recorded and untracked broker children.
THEOREM SignalMissesOnlyFresh == Spec => []SignalLeavesOnlyFresh
<1>1. IInv => SignalLeavesOnlyFresh
  <2> SUFFICES ASSUME IInv, pc = "signalled", NEW p \in Pid, Live(p)
               PROVE  p \in {fresh} \cup overflow
    BY DEF SignalLeavesOnlyFresh
  <2>1. p \notin Recorded
    BY DEF IInv, Children, Recorded
  <2>2. Ours(p)
    BY DEF Live, Ours
  <2>3. QED
    BY <2>1, <2>2 DEF IInv, Children, Accounted
<1>2. QED
  BY <1>1, Inductive, PTL

\* WindowServer is sent SIGTERM only when everything else has been reaped.
THEOREM WindowServerLast == Spec => []WsTermedLast
<1>1. IInv => WsTermedLast
  <2> SUFFICES ASSUME IInv, at = WS, NEW p \in Pid, Ours(p)
               PROVE  p = slot[WS] \/ p \in overflow
    BY DEF WsTermedLast
  <2>1. fresh = NoPid
    BY SlotFacts DEF IInv, Phase
  <2>2. \A s \in Slot : slot[s] # NoPid => s = WS \/ ~Ours(slot[s])
    BY SlotFacts DEF IInv, Children, Slot
  <2>3. QED
    BY <2>1, <2>2, SessionAssumption DEF IInv, Children, Accounted, Recorded
<1>2. QED
  BY <1>1, Inductive, PTL

\* No process of somebody else is signalled before the teardown has reaped.
THEOREM PidsSafe == Spec => []PidsSafeUntilReaped
<1>1. IInv => PidsSafeUntilReaped
  BY DEF IInv, Children
<1>2. QED
  BY <1>1, Inductive, PTL
=============================================================================
