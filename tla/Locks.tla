-------------------------------- MODULE Locks --------------------------------
(***************************************************************************)
(* The lock between processes and the read/write locks side by side.  They *)
(* share no state.                                                         *)
(***************************************************************************)
EXTENDS WorkerLocks

CONSTANTS Acquisitions, Writers, MaxLapses
VARIABLES rows, mode, task, locked, stale, stalled, lapses

RW == INSTANCE ReadWriteLocks WITH MaxFaults <- MaxLapses, faults <- lapses

(* A writer works alone (ReadWriteLocks, try_acquire_read_write_lock).      *)
WriterAlone == RW!WriterAlone

(* The mode row agrees with the locks (ReadWriteLocks, the triggers).       *)
ModeAgrees == RW!ModeAgrees

(* A task that waits for a read/write lock gets it, or others get it again  *)
(* and again (ReadWriteLocks).                                              *)
EveryoneGetsIn == RW!EveryoneGetsIn
==============================================================================
