------------------------------ MODULE ReadWriteLocks ------------------------------
(***************************************************************************)
(* The read/write locks of the workers (LockStore), for one lock name and  *)
(* key.  A row of worker_read_write_locks is a lock held; the row of       *)
(* worker_read_write_locks_mode says whether they are readers' or a        *)
(* writer's and names one of them.  Constraints and triggers keep the two  *)
(* tables together: a statement that would break a foreign key is refused. *)
(*                                                                         *)
(* A lock is known by the token of its acquisition.  Renewing locks a row  *)
(* for the length of its statement, and the delete trigger skips rows that *)
(* are locked (SKIP LOCKED) when it looks for another holder to name.      *)
(***************************************************************************)
EXTENDS Naturals, FiniteSets

CONSTANTS
    Acquisitions,   \* the tasks that acquire the lock, one token at a time each
    Writers,        \* those in write mode
    MaxFaults       \* bound on holders that crash or stall past the timeout

None == [write |-> FALSE, token |-> "none"]

(* Write mode is one of the modes of an acquisition, and the name for no    *)
(* token is not a token.                                                    *)
TokensAssumption ==
    /\ Writers \subseteq Acquisitions
    /\ None.token \notin Acquisitions

VARIABLES
    rows,           \* worker_read_write_locks
    mode,           \* worker_read_write_locks_mode: [write, token], or None
    task,           \* what the task behind each token does
    locked,         \* rows locked by the UPDATE that renews them
    stale,          \* rows last renewed longer ago than _LOCK_TIMEOUT_MS
    stalled,        \* history: tasks that did not renew in time
    faults

vars == <<rows, mode, task, locked, stale, stalled, faults>>

Init ==
    /\ rows = {}
    /\ mode = None
    /\ task = [t \in Acquisitions |-> "idle"]
    /\ locked = {}
    /\ stale = {}
    /\ stalled = {}
    /\ faults = 0

Fault ==
    /\ faults < MaxFaults
    /\ faults' = faults + 1

------------------------------------------------------------------------------
(* acquire_read_write_lock: the task wants the lock, perhaps once more, with*)
(* a new token.                                                             *)
Acquire(t) ==
    /\ task[t] = "idle"
    /\ task' = [task EXCEPT ![t] = "waiting"]
    /\ stalled' = stalled \ {t}
    /\ UNCHANGED <<rows, mode, locked, stale, faults>>

(* The BEFORE INSERT trigger leaves an existing mode row as it is. *)
UpsertMode(t) == IF mode = None THEN [write |-> t \in Writers, token |-> t] ELSE mode

(* Deviation: without the unique index on the writers' rows. *)
ModeAllows(t) == UpsertMode(t).write = (t \in Writers)

(* The foreign key to the mode row and the unique index of writers. *)
InsertAllowed(t) ==
    /\ UpsertMode(t).write = (t \in Writers)
    /\ t \in Writers => rows \cap Writers = {}

(* _try_acquire_read_write_lock_txn.  Refused (IntegrityError), the task    *)
(* tries again later: nothing changes.                                      *)
TryAcquire(t) ==
    /\ task[t] = "waiting"
    /\ InsertAllowed(t)
    /\ mode' = UpsertMode(t)
    /\ rows' = rows \cup {t}
    /\ task' = [task EXCEPT ![t] = "held"]
    /\ UNCHANGED <<locked, stale, stalled, faults>>

(* Lock._renew, from the start to the end of its UPDATE. *)
BeginRenew(t) ==
    /\ task[t] = "held"
    /\ t \in rows \ locked
    /\ locked' = locked \cup {t}
    /\ UNCHANGED <<rows, mode, task, stale, stalled, faults>>

EndRenew(t) ==
    /\ task[t] \in {"held", "releasing"}
    /\ t \in locked
    /\ locked' = locked \ {t}
    /\ stale' = stale \ {t}
    /\ UNCHANGED <<rows, mode, task, stalled, faults>>

(* Lock.release: renewing stops and the DELETE is sent. *)
Release(t) ==
    /\ task[t] = "held"
    /\ task' = [task EXCEPT ![t] = "releasing"]
    /\ UNCHANGED <<rows, mode, locked, stale, stalled, faults>>

Others(gone) == rows \ gone

(* Deviation: the mode row outlives the last lock. *)
HandedOrKept(gone) ==
    IF mode = None \/ mode.token \notin gone \/ Others(gone) = {} THEN {mode}
    ELSE {[mode EXCEPT !.token = t] : t \in Others(gone) \ locked}

(* The mode row after the rows of gone were deleted: untouched unless it    *)
(* names one of them, else handed to a row that is not locked, or deleted.  *)
Handed(gone) ==
    IF mode = None \/ mode.token \notin gone THEN {mode}
    ELSE IF Others(gone) = {} THEN {None}
    ELSE {[mode EXCEPT !.token = t] : t \in Others(gone) \ locked}

(* The DELETE and its trigger.  A row that was reaped is not there. *)
Delete(t) ==
    /\ task[t] = "releasing"
    /\ t \notin locked
    /\ mode' \in Handed({t} \cap rows)
    /\ rows' = rows \ {t}
    /\ stale' = stale \ {t}
    /\ task' = [task EXCEPT ![t] = "idle"]
    /\ UNCHANGED <<locked, stalled, faults>>

(* All the other rows were locked, so that the trigger deletes the mode row *)
(* that they refer to: refused once their UPDATEs ended.  release() raises  *)
(* and leaves the row behind, which is no longer renewed.                   *)
DeleteRefused(t) ==
    /\ task[t] = "releasing"
    /\ t \notin locked
    /\ Handed({t} \cap rows) = {}
    /\ task' = [task EXCEPT ![t] = "left"]
    /\ UNCHANGED <<rows, mode, locked, stale, stalled, faults>>

(* Two minutes without a renewal: nobody renews the row, or its process     *)
(* stalls.                                                                  *)
Expire(t) ==
    /\ t \in rows \ stale
    /\ \/ task[t] = "left" /\ UNCHANGED <<stalled, faults>>
       \/ task[t] = "held" /\ Fault /\ stalled' = stalled \cup {t}
    /\ stale' = stale \cup {t}
    /\ UNCHANGED <<rows, mode, task, locked>>

(* The process of a holder ends. *)
Crash(t) ==
    /\ task[t] \in {"held", "releasing"}
    /\ Fault
    /\ task' = [task EXCEPT ![t] = IF t \in rows THEN "left" ELSE "idle"]
    /\ locked' = locked \ {t}
    /\ UNCHANGED <<rows, mode, stale, stalled>>

(* Deviation: only stale write locks are reaped. *)
ReapWriters ==
    LET gone == stale \cap Writers
    IN  /\ gone # {}
        /\ gone \cap locked = {}
        /\ mode' \in Handed(gone)
        /\ rows' = rows \ gone
        /\ stale' = stale \ gone
        /\ task' = [t \in Acquisitions |-> IF t \in gone /\ task[t] = "left" THEN "idle" ELSE task[t]]
        /\ UNCHANGED <<locked, stalled, faults>>

(* _reap_stale_read_write_locks: one DELETE for all stale rows. *)
Reap ==
    /\ stale # {}
    /\ stale \cap locked = {}
    /\ mode' \in Handed(stale)
    /\ rows' = rows \ stale
    /\ stale' = {}
    /\ task' = [t \in Acquisitions |-> IF t \in stale /\ task[t] = "left" THEN "idle" ELSE task[t]]
    /\ UNCHANGED <<locked, stalled, faults>>

EndRelease(t) == Delete(t) \/ DeleteRefused(t)

Next ==
    \/ \E t \in Acquisitions : \/ Acquire(t) \/ TryAcquire(t) \/ BeginRenew(t) \/ EndRenew(t)
                               \/ Release(t) \/ EndRelease(t) \/ Expire(t) \/ Crash(t)
    \/ Reap

Spec == Init /\ [][Next]_vars

(* Statements end, holders finish their work, refused tasks try again, the  *)
(* reaper runs regularly and finds rows that nobody renews.                 *)
Fairness ==
    /\ \A t \in Acquisitions :
         /\ WF_vars(TryAcquire(t)) /\ WF_vars(Release(t))
         /\ WF_vars(EndRenew(t)) /\ WF_vars(EndRelease(t))
         /\ WF_vars(task[t] = "left" /\ Expire(t))
    /\ WF_vars(Reap)
------------------------------------------------------------------------------
(* Types of the variables (lock.py and the two tables). *)
TypeOK ==
    /\ rows \subseteq Acquisitions
    /\ mode \in [write : BOOLEAN, token : Acquisitions \cup {None.token}]
    /\ task \in [Acquisitions -> {"waiting", "held", "releasing", "left", "idle"}]
    /\ locked \subseteq rows
    /\ stale \subseteq rows
    /\ stalled \subseteq Acquisitions
    /\ faults \in Nat

(* "This constraint ensures that a given lock has only been acquired in     *)
(* read xor write mode, but not both" (schema): a writer that renews in     *)
(* time works alone, readers that do work with readers only, although the   *)
(* mode row changes hands and outlives the lock it was made for.            *)
WriterAlone ==
    \A t \in Writers : \A u \in Acquisitions \ {t} :
        ~(task[t] = "held" /\ task[u] = "held" /\ {t, u} \cap stalled = {})

(* The mode row is there exactly while there are locks, names one of them   *)
(* and has their mode: none is left to keep the other mode out for ever.    *)
ModeAgrees ==
    /\ mode = None <=> rows = {}
    /\ mode # None => mode.token \in rows
    /\ \A t \in rows : (t \in Writers) = mode.write

(* Those that a holder keeps out: a writer keeps out all, a reader writers. *)
KeptOutBy(t) == IF t \in Writers THEN Acquisitions \ {t} ELSE Writers

(* A task that waits is granted the lock in the end: locks left behind by a *)
(* crash or a refused release are reaped, and the mode changes between      *)
(* readers and writers (WorkerLocksHandler keeps trying).  Only those that  *)
(* get the lock again and again can keep it out, which the schema says:     *)
(* "vulnerable to starving writers if read locks repeatedly get acquired".  *)
EveryoneGetsIn ==
    \A t \in Acquisitions :
        \/ task[t] = "waiting" ~> task[t] # "waiting"
        \/ []<><<\E u \in KeptOutBy(t) : TryAcquire(u)>>_vars

(* The same without the exception. *)
EveryoneGetsInAlways == \A t \in Acquisitions : task[t] = "waiting" ~> task[t] # "waiting"
==============================================================================
