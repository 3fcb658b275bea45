-------------------------------- MODULE Startup --------------------------------
(***************************************************************************)
(* A session from the launcher's first line to the first pictures: the     *)
(* launcher binds its sockets (FdTakeover), writes the stand-in for        *)
(* /sys/kernel (SysfsShim) and starts its programs; WindowServer, once it  *)
(* runs, sets up its X11 screen and draws (X11Screen), while the launcher  *)
(* goes on.                                                                *)
(***************************************************************************)
EXTENDS FdTakeover, X11Screen, SysfsShim

vars == <<fdVars, screenVars, sysVars>>

WindowServer == <<"group", 1>>

Init == FdInit /\ ScreenInit /\ SysInit

Descriptors ==
  /\ Launch \/ Children
  /\ UNCHANGED <<screenVars, sysVars>>

\* write_sysfs_data.
Walk ==
  /\ lstep = "sysfs"
  /\ \/ WalkStep /\ UNCHANGED fdVars
     \/ WriteRest /\ SysData
     \/ CannotWrite /\ SysFails
  /\ UNCHANGED screenVars

OtherProcesses == Host /\ UNCHANGED <<fdVars, screenVars>>

Screen ==
  /\ child[WindowServer].state = "running"
  /\ \/ ScreenStep /\ UNCHANGED fdVars
     \/ SetupFails /\ ExitJob(WindowServer)
  /\ UNCHANGED sysVars

Next == Descriptors \/ Walk \/ OtherProcesses \/ Screen

Spec == Init /\ [][Next]_vars
-----------------------------------------------------------------------------
TypeOK == FdTypeOK /\ ScreenTypeOK /\ SysTypeOK
=============================================================================
