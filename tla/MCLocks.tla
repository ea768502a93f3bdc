-------------------------------- MODULE MCLocks --------------------------------
(***************************************************************************)
(* Small instances of the read/write locks and, for its liveness, of the   *)
(* lock between processes.  The two share no state; a behaviour is about   *)
(* the one that focus names from the start, the other stays in its initial *)
(* state.                                                                  *)
(***************************************************************************)
EXTENDS Locks, TLC

CONSTANTS
    r1, r2, r3, w,      \* acquisitions of a read/write lock; r3 and w write
    p, q, a1, b1        \* two processes with one task each

VARIABLE focus

rwVars == <<rows, mode, task, locked, stale, stalled, lapses>>

ASSUME RwAssumption == RW!TokensAssumption

OneTaskEach == (a1 :> p) @@ (b1 :> q)

------------------------------------------------------------------------------
LocksInit ==
    /\ focus \in {"read write locks", "locks"}
    /\ Init
    /\ RW!Init

LocksNext ==
    \/ /\ focus = "read write locks"
       /\ RW!Next
       /\ UNCHANGED <<focus, vars>>
    \/ /\ focus = "locks"
       /\ Next
       /\ UNCHANGED <<focus, rwVars>>

(* The fairness of the component in focus, see the modules. *)
RwFairness ==
    /\ \A t \in Acquisitions :
         /\ WF_rwVars(focus = "read write locks" /\ RW!TryAcquire(t))
         /\ WF_rwVars(focus = "read write locks" /\ RW!Release(t))
         /\ WF_rwVars(focus = "read write locks" /\ RW!EndRenew(t))
         /\ WF_rwVars(focus = "read write locks" /\ RW!EndRelease(t))
         /\ WF_rwVars(focus = "read write locks" /\ task[t] = "left" /\ RW!Expire(t))
    /\ WF_rwVars(focus = "read write locks" /\ RW!Reap)

WlFairness ==
    /\ \A t \in Tasks : /\ WF_pc(focus = "locks" /\ Proceed(t))
                        /\ WF_renewal(focus = "locks" /\ RenewTxn(t))
    /\ WF_vars(focus = "locks" /\ Tick)

FairLocks ==
    /\ LocksInit /\ [][LocksNext]_<<focus, vars, rwVars>>
    /\ RwFairness /\ WlFairness
------------------------------------------------------------------------------
(* A task that waits for a read/write lock gets it, or others get it again  *)
(* and again (ReadWriteLocks).                                              *)
EveryoneGetsInTurn == (focus = "read write locks") => EveryoneGetsIn
==============================================================================
