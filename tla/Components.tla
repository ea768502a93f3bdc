------------------------------ MODULE Components ------------------------------
(***************************************************************************)
(* The caches and the task scheduler side by side.  They share no state.   *)
(***************************************************************************)
EXTENDS DeferredCache

CONSTANTS Tasks, Capacity, MaxFaults
VARIABLES status, registered, due, running, stage, launch, deleting, leaked, overtaken, faults

TS == INSTANCE TaskScheduler

(* A task that ended does not run again (TaskScheduler, update_task).       *)
EndIsFinal == TS!EndIsFinal

(* Every scheduled task ends or is deleted (TaskScheduler). *)
EveryTaskEnds == TS!EveryTaskEnds
==============================================================================
