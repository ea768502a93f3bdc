------------------------------ MODULE WorkerLocks ------------------------------
(***************************************************************************)
(* The lock between synapse processes of storage/databases/main/lock.py    *)
(* (LockStore.try_acquire_lock, Lock) and the waiting form of it in        *)
(* handlers/worker_lock.py (WorkerLocksHandler.acquire_lock, WaitingLock), *)
(* for one (lock_name, lock_key): keys never meet in the code.             *)
(*                                                                         *)
(* Time is relative.  A time stamp that is compared or stored later is     *)
(* kept as its age, and Tick makes everything one unit older: the test     *)
(*   worker_locks.last_renewed_ts < now - _LOCK_TIMEOUT_MS                 *)
(* is  row.age > age[t] + Timeout,  age[t] being the age of the `now` that *)
(* was read before the transaction began.                                  *)
(*                                                                         *)
(* Each database call is three steps: the code up to the await, the        *)
(* statement, and the code after the await.  Anything may run in between.  *)
(***************************************************************************)
EXTENDS Naturals, FiniteSets

CONSTANTS
    Instances,   \* synapse processes
    Tasks,       \* concurrent users of the lock
    HomeOf,      \* the process each task runs in
    Waiters,     \* the tasks that use WaitingLock; the others try once
    Timeout,     \* _LOCK_TIMEOUT_MS
    RenewBy,     \* the age up to which a renewal counts as timely
    MaxDelay,    \* bound: the longest a statement or an answer takes
    MaxFaults    \* bound: crashes, database calls that raise and Locks lost

ASSUME HomeAssumption ==
    /\ HomeOf \in [Tasks -> Instances] /\ Waiters \subseteq Tasks
    /\ IsFiniteSet(Tasks) /\ IsFiniteSet(Instances)

(* Locks are renewed every 30 s and time out after 120 s. *)
ASSUME TimeAssumption ==
    /\ Timeout \in Nat /\ RenewBy \in Nat /\ MaxDelay \in Nat /\ MaxFaults \in Nat
    /\ RenewBy + MaxDelay < Timeout

VARIABLES
    row,        \* the row of worker_locks
    live,       \* live[i]: the token in _live_lock_tokens of process i
    acquiring,  \* acquiring[i]: the key is in _acquiring_locks of process i
    pc,         \* where each task is
    token,      \* the token of the task's attempt, then of its Lock
    checking,   \* the token whose validity the task checks
    seen,       \* the age its SELECT found
    age,        \* the age of the `now` in its INSERT, or of the SELECT's answer
    renewal,    \* the age of the time in a renewal of the task's Lock
    clobbered,  \* history: a release popped the live entry of another Lock
    lapsed,     \* history: a lock in use was not renewed in time
    faults      \* bounded by MaxFaults

db == <<row>>
process == <<live, acquiring>>
attempt == <<token, checking, seen, age>>
history == <<clobbered, lapsed, faults>>
vars == <<db, process, pc, attempt, renewal, history>>

(* random_string(6), taken to be fresh.  Each task has one token, and the  *)
(* row and a live entry may still hold an earlier one.                     *)
Tokens == 1 .. (2 * Cardinality(Tasks) + Cardinality(Instances) + 1)
NoToken == 0

(* Ages above OldAge are not told apart by any test. *)
OldAge == Timeout + MaxDelay + 1
Ages == 0 .. OldAge
NoAge == OldAge + 1

NoRow == [token |-> NoToken]
Rows == [token : Tokens, instance : Instances, current : BOOLEAN, age : Ages]

PcValues == {"idle", "trying", "selecting", "selected", "inserting", "granted",
             "refused", "waiting", "holding", "deleting", "deleted"}

TokensInUse ==
    {row.token} \cup {live[i] : i \in Instances}
    \cup {token[t] : t \in Tasks} \cup {checking[t] : t \in Tasks}

FreshToken == CHOOSE k \in Tokens : k \notin TokensInUse

(* One more fault. *)
Fault == faults < MaxFaults /\ faults' = faults + 1

TasksOf(i) == {t \in Tasks : HomeOf[t] = i}

Init ==
    /\ row = NoRow
    /\ live = [i \in Instances |-> NoToken]
    /\ acquiring = [i \in Instances |-> FALSE]
    /\ pc = [t \in Tasks |-> "idle"]
    /\ token = [t \in Tasks |-> NoToken]
    /\ checking = [t \in Tasks |-> NoToken]
    /\ seen = [t \in Tasks |-> NoAge]
    /\ age = [t \in Tasks |-> NoAge]
    /\ renewal = [t \in Tasks |-> NoAge]
    /\ clobbered = FALSE
    /\ lapsed = FALSE
    /\ faults = 0

--------------------------------------------------------------------------------
(***************************************************************************)
(* Acquiring: try_acquire_lock and _try_acquire_lock.                      *)
(***************************************************************************)

(* A task wants the lock. *)
Enter(t) ==
    /\ pc[t] = "idle"
    /\ pc' = [pc EXCEPT ![t] = "trying"]
    /\ UNCHANGED <<db, process, attempt, renewal, history>>

(* try_acquire_lock returns None: a WaitingLock waits, others give up. *)
AfterRefusal(t) == IF t \in Waiters THEN "waiting" ELSE "idle"

(* Read the clock, draw a token and send the INSERT. *)
SendInsert(t) ==
    /\ pc' = [pc EXCEPT ![t] = "inserting"]
    /\ token' = [token EXCEPT ![t] = FreshToken]
    /\ age' = [age EXCEPT ![t] = 0]

(* Another task of this process is acquiring the lock: return None. *)
TryBusy(t) ==
    /\ pc[t] = "trying"
    /\ acquiring[HomeOf[t]]
    /\ pc' = [pc EXCEPT ![t] = AfterRefusal(t)]
    /\ UNCHANGED <<db, process, attempt, renewal, history>>

(* This process thinks it holds the lock: first ask whether it still does. *)
TryCheck(t) ==
    /\ pc[t] = "trying"
    /\ ~acquiring[HomeOf[t]]
    /\ live[HomeOf[t]] # NoToken
    /\ acquiring' = [acquiring EXCEPT ![HomeOf[t]] = TRUE]
    /\ checking' = [checking EXCEPT ![t] = live[HomeOf[t]]]
    /\ pc' = [pc EXCEPT ![t] = "selecting"]
    /\ UNCHANGED <<db, live, token, seen, age, renewal, history>>

TryInsert(t) ==
    /\ pc[t] = "trying"
    /\ ~acquiring[HomeOf[t]]
    /\ live[HomeOf[t]] = NoToken
    /\ acquiring' = [acquiring EXCEPT ![HomeOf[t]] = TRUE]
    /\ SendInsert(t)
    /\ UNCHANGED <<db, live, checking, seen, renewal, history>>

(* is_still_valid, the SELECT: last_renewed_ts of the row with the token. *)
Select(t) ==
    /\ pc[t] = "selecting"
    /\ seen' = [seen EXCEPT ![t] = IF row.token = checking[t] THEN row.age ELSE NoAge]
    /\ age' = [age EXCEPT ![t] = 0]
    /\ checking' = [checking EXCEPT ![t] = NoToken]
    /\ pc' = [pc EXCEPT ![t] = "selected"]
    /\ UNCHANGED <<db, process, token, renewal, history>>

(* ... its answer: a row was found and by now it has not timed out. *)
StillValid(t) == seen[t] # NoAge /\ seen[t] + age[t] < Timeout

CheckValid(t) ==
    /\ pc[t] = "selected"
    /\ StillValid(t)
    /\ seen' = [seen EXCEPT ![t] = NoAge]
    /\ age' = [age EXCEPT ![t] = NoAge]
    /\ acquiring' = [acquiring EXCEPT ![HomeOf[t]] = FALSE]
    /\ pc' = [pc EXCEPT ![t] = AfterRefusal(t)]
    /\ UNCHANGED <<db, live, token, checking, renewal, history>>

CheckLost(t) ==
    /\ pc[t] = "selected"
    /\ ~StillValid(t)
    /\ seen' = [seen EXCEPT ![t] = NoAge]
    /\ SendInsert(t)
    /\ UNCHANGED <<db, process, checking, renewal, history>>

(***************************************************************************)
(* The WHERE of the upsert.  The instance name is random_string(5), drawn  *)
(* when the process starts: the row of an earlier run of the process       *)
(* (current = FALSE) has another name.                                     *)
(***************************************************************************)
Takeable(t) ==
    row # NoRow => \/ row.age > age[t] + Timeout
                   \/ row.current /\ row.instance = HomeOf[t]

InsertTxn(t) ==
    /\ pc[t] = "inserting"
    /\ Takeable(t)
    /\ row' = [token |-> token[t], instance |-> HomeOf[t], current |-> TRUE, age |-> age[t]]
    /\ lapsed' = (lapsed \/ age[t] > RenewBy)
    /\ age' = [age EXCEPT ![t] = NoAge]
    /\ pc' = [pc EXCEPT ![t] = "granted"]
    /\ UNCHANGED <<process, token, checking, seen, renewal, clobbered, faults>>

InsertRefused(t) ==
    /\ pc[t] = "inserting"
    /\ ~Takeable(t)
    /\ age' = [age EXCEPT ![t] = NoAge]
    /\ token' = [token EXCEPT ![t] = NoToken]
    /\ pc' = [pc EXCEPT ![t] = "refused"]
    /\ UNCHANGED <<db, process, checking, seen, renewal, history>>

(* The transaction is over: create the Lock, or return None. *)
Granted(t) ==
    /\ pc[t] = "granted"
    /\ live' = [live EXCEPT ![HomeOf[t]] = token[t]]
    /\ acquiring' = [acquiring EXCEPT ![HomeOf[t]] = FALSE]
    /\ pc' = [pc EXCEPT ![t] = "holding"]
    /\ UNCHANGED <<db, attempt, renewal, history>>

(* Deviation: _acquiring_locks keeps the key of an attempt that failed. *)
RefusedStillAcquiring(t) ==
    /\ pc[t] = "refused"
    /\ pc' = [pc EXCEPT ![t] = AfterRefusal(t)]
    /\ UNCHANGED <<db, process, attempt, renewal, history>>

Refused(t) ==
    /\ pc[t] = "refused"
    /\ acquiring' = [acquiring EXCEPT ![HomeOf[t]] = FALSE]
    /\ pc' = [pc EXCEPT ![t] = AfterRefusal(t)]
    /\ UNCHANGED <<db, live, attempt, renewal, history>>

(***************************************************************************)
(* A database call of the attempt raises, the INSERT perhaps after it was  *)
(* done: the finally block of try_acquire_lock runs and the caller gets    *)
(* the exception.                                                          *)
(***************************************************************************)
AttemptFails(t) ==
    /\ Fault
    /\ pc[t] \in {"selecting", "inserting", "granted"}
    /\ acquiring' = [acquiring EXCEPT ![HomeOf[t]] = FALSE]
    /\ token' = [token EXCEPT ![t] = NoToken]
    /\ checking' = [checking EXCEPT ![t] = NoToken]
    /\ age' = [age EXCEPT ![t] = NoAge]
    /\ pc' = [pc EXCEPT ![t] = "idle"]
    /\ UNCHANGED <<db, live, seen, renewal, clobbered, lapsed>>

(***************************************************************************)
(* A waiter tries again: its retry interval is over, or it was told that   *)
(* the lock was released (which WaitingLock.__aexit__ announces before it  *)
(* releases it, so that being told proves nothing).                        *)
(***************************************************************************)
Wake(t) ==
    /\ pc[t] = "waiting"
    /\ pc' = [pc EXCEPT ![t] = "trying"]
    /\ UNCHANGED <<db, process, attempt, renewal, history>>

--------------------------------------------------------------------------------
(***************************************************************************)
(* Holding: renewal and release.                                           *)
(***************************************************************************)

(* The looping call of a Lock in use reads the clock ... *)
RenewSend(t) ==
    /\ pc[t] = "holding"
    /\ renewal[t] = NoAge
    /\ renewal' = [renewal EXCEPT ![t] = 0]
    /\ UNCHANGED <<db, process, pc, attempt, history>>

(* ... and updates the row if it still has the Lock's token. *)
RenewTxn(t) ==
    /\ renewal[t] # NoAge
    /\ row' = IF row.token = token[t] THEN [row EXCEPT !.age = renewal[t]] ELSE row
    /\ renewal' = [renewal EXCEPT ![t] = NoAge]
    /\ UNCHANGED <<process, pc, attempt, history>>

(* release: stop the looping call and send the DELETE ... *)
ReleaseStart(t) ==
    /\ pc[t] = "holding"
    /\ pc' = [pc EXCEPT ![t] = "deleting"]
    /\ UNCHANGED <<db, process, attempt, renewal, history>>

(* Deviation: the DELETE names the lock and not the token. *)
DeleteTxnAnyToken(t) ==
    /\ pc[t] = "deleting"
    /\ row' = NoRow
    /\ pc' = [pc EXCEPT ![t] = "deleted"]
    /\ UNCHANGED <<process, attempt, renewal, history>>

DeleteTxn(t) ==
    /\ pc[t] = "deleting"
    /\ row' = IF row.token = token[t] THEN NoRow ELSE row
    /\ pc' = [pc EXCEPT ![t] = "deleted"]
    /\ UNCHANGED <<process, attempt, renewal, history>>

(***************************************************************************)
(* ... and pop the live entry of the key, whichever Lock it is of.  A      *)
(* renewal still under way finds no row with the token, now or later.      *)
(***************************************************************************)
ReleaseEnd(t) ==
    /\ pc[t] = "deleted"
    /\ live' = [live EXCEPT ![HomeOf[t]] = NoToken]
    /\ clobbered' = (clobbered \/ live[HomeOf[t]] \notin {NoToken, token[t]})
    /\ token' = [token EXCEPT ![t] = NoToken]
    /\ renewal' = [renewal EXCEPT ![t] = NoAge]
    /\ pc' = [pc EXCEPT ![t] = "idle"]
    /\ UNCHANGED <<db, acquiring, checking, seen, age, lapsed, faults>>

(***************************************************************************)
(* The Lock is lost without being released (the caller raised before its   *)
(* `async with`, or the DELETE failed): __del__ stops the renewals and the *)
(* weak live entry disappears, the row stays.                              *)
(***************************************************************************)
Drop(t) ==
    /\ Fault
    /\ pc[t] \in {"holding", "deleting"}
    /\ live' = [live EXCEPT ![HomeOf[t]] = IF @ = token[t] THEN NoToken ELSE @]
    /\ token' = [token EXCEPT ![t] = NoToken]
    /\ renewal' = [renewal EXCEPT ![t] = NoAge]
    /\ pc' = [pc EXCEPT ![t] = "idle"]
    /\ UNCHANGED <<db, acquiring, checking, seen, age, clobbered, lapsed>>

--------------------------------------------------------------------------------
(* The process dies and starts again under a new instance name. *)
Crash(i) ==
    LET clear(f, none) == [t \in Tasks |-> IF t \in TasksOf(i) THEN none ELSE f[t]]
    IN  /\ Fault
        /\ row' = IF row # NoRow /\ row.instance = i
                  THEN [row EXCEPT !.current = FALSE] ELSE row
        /\ live' = [live EXCEPT ![i] = NoToken]
        /\ acquiring' = [acquiring EXCEPT ![i] = FALSE]
        /\ pc' = clear(pc, "idle")
        /\ token' = clear(token, NoToken)
        /\ checking' = clear(checking, NoToken)
        /\ seen' = clear(seen, NoAge)
        /\ age' = clear(age, NoAge)
        /\ renewal' = clear(renewal, NoAge)
        /\ UNCHANGED <<clobbered, lapsed>>

Older(a) == IF a >= OldAge THEN a ELSE a + 1

(* The tasks whose Lock object is in use or about to be handed out. *)
InUse(t) == pc[t] \in {"granted", "holding"}

(* Time passes; whatever carries a time arrives within MaxDelay. *)
Tick ==
    /\ \A t \in Tasks : \A a \in {age[t], renewal[t]} : a = NoAge \/ a < MaxDelay
    /\ row' = IF row = NoRow THEN row ELSE [row EXCEPT !.age = Older(@)]
    /\ age' = [t \in Tasks |-> Older(age[t])]
    /\ renewal' = [t \in Tasks |-> Older(renewal[t])]
    /\ lapsed' = (lapsed \/ \E t \in Tasks : /\ InUse(t)
                                             /\ row.token = token[t]
                                             /\ row'.age > RenewBy)
    /\ UNCHANGED <<process, pc, token, checking, seen, clobbered, faults>>

Next ==
    \/ \E t \in Tasks :
        \/ Enter(t) \/ TryBusy(t) \/ TryCheck(t) \/ TryInsert(t) \/ Select(t)
        \/ CheckValid(t) \/ CheckLost(t) \/ InsertTxn(t) \/ InsertRefused(t)
        \/ Granted(t) \/ Refused(t) \/ AttemptFails(t) \/ Wake(t)
        \/ RenewSend(t) \/ RenewTxn(t) \/ ReleaseStart(t) \/ DeleteTxn(t) \/ ReleaseEnd(t) \/ Drop(t)
    \/ \E i \in Instances : Crash(i)
    \/ Tick

Spec == Init /\ [][Next]_vars

(***************************************************************************)
(* The database answers, the reactor runs what follows, retry intervals    *)
(* end and time passes.  Nobody has to ask for the lock, to let go of it   *)
(* or to renew it.                                                         *)
(***************************************************************************)
Proceed(t) ==
    \/ TryBusy(t) \/ TryCheck(t) \/ TryInsert(t) \/ Select(t)
    \/ CheckValid(t) \/ CheckLost(t) \/ InsertTxn(t) \/ InsertRefused(t)
    \/ Granted(t) \/ Refused(t) \/ Wake(t) \/ DeleteTxn(t) \/ ReleaseEnd(t)

Fairness ==
    /\ \A t \in Tasks : WF_pc(Proceed(t)) /\ WF_renewal(RenewTxn(t))
    /\ WF_vars(Tick)

FairSpec == Spec /\ Fairness

--------------------------------------------------------------------------------
(* Every variable has its type. *)
TypeOK ==
    /\ row \in Rows \cup {NoRow}
    /\ live \in [Instances -> Tokens \cup {NoToken}]
    /\ acquiring \in [Instances -> BOOLEAN]
    /\ pc \in [Tasks -> PcValues]
    /\ token \in [Tasks -> Tokens \cup {NoToken}]
    /\ checking \in [Tasks -> Tokens \cup {NoToken}]
    /\ seen \in [Tasks -> Ages \cup {NoAge}]
    /\ age \in [Tasks -> Ages \cup {NoAge}]
    /\ renewal \in [Tasks -> Ages \cup {NoAge}]
    /\ clobbered \in BOOLEAN
    /\ lapsed \in BOOLEAN
    /\ faults \in 0 .. MaxFaults

Holders == {t \in Tasks : pc[t] = "holding"}

(***************************************************************************)
(* LockStore: at most one task, in whichever process, is inside the lock,  *)
(* as long as its holders are renewed in time and no release removed the   *)
(* live entry of a Lock that is not its own.                               *)
(***************************************************************************)
Exclusive == lapsed \/ clobbered \/ Cardinality(Holders) <= 1

(***************************************************************************)
(* The instance that holds the token holds the lock until it drops or      *)
(* times out (docstring of LockStore): while nothing has timed out there   *)
(* is at most one holder.                                                  *)
(***************************************************************************)
HeldUntilDropped == lapsed \/ Cardinality(Holders) <= 1

(***************************************************************************)
(* A process that was killed and restarted takes the row it left behind    *)
(* (comment of _try_acquire_lock_txn, case c): its INSERT is not refused   *)
(* because of a row of the same process.                                   *)
(***************************************************************************)
RestartReclaims ==
    \A t \in Tasks :
        pc[t] = "refused" => row = NoRow \/ row.instance # HomeOf[t]

(***************************************************************************)
(* WaitingLock: while a task waits, sooner or later some task gets in (or  *)
(* the one that waits is gone: its process died or its attempt raised),    *)
(* even if the holder crashed or lost its Lock without releasing it.       *)
(***************************************************************************)
SomeoneGetsIn ==
    \A t \in Waiters : pc[t] = "waiting" ~> (Holders # {} \/ pc[t] = "idle")
================================================================================
