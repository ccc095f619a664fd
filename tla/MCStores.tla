------------------------------- MODULE MCStores -------------------------------
(* An instance for TLC of all that the daemon keeps on disk: the stores of  *)
(* MCStorage, or the schedules of the scheduler plugin.  They share         *)
(* nothing, so each behaviour is one of one of them, the other rests.       *)
EXTENDS MCStorage, MCSchedules

VARIABLE scheduled   (* whether the schedules move                          *)

StoresInit ==
  /\ scheduled \in BOOLEAN
  /\ StorageInit /\ SchedulesInit
  /\ scheduled => part = "file"

StoresNext ==
  /\ \/ ~scheduled /\ StorageNext /\ UNCHANGED scheduling
     \/ scheduled /\ SchedulesNext /\ UNCHANGED all
  /\ UNCHANGED scheduled

StoresSpec == StoresInit /\ [][StoresNext]_<<all, scheduling, scheduled>>
===============================================================================
