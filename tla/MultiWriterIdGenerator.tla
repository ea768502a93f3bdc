------------------------ MODULE MultiWriterIdGenerator ------------------------
(***************************************************************************)
(* Several synapse processes writing one stream.  Each keeps its own       *)
(* MultiWriterIdGenerator (module StreamPositions); they share a Postgres  *)
(* sequence, the stream's table and the stream_positions table, and learn  *)
(* each other's positions through replication.                             *)
(*                                                                         *)
(* A thread is one use of get_next / get_next_mult / get_next_txn.  Its    *)
(* steps are the points where another thread or process may run between    *)
(* two lock blocks, two SQL statements or the awaits of                    *)
(* _MultiWriterCtxManager.  Replication is a set of announcements that may *)
(* be delivered late, repeatedly, in any order or never.                   *)
(***************************************************************************)
EXTENDS StreamPositions

CONSTANTS
    Instances,    \* synapse processes, the writers among them
    HomeOf,       \* the writer each thread runs in
    InitialEntry, \* the writers' stream_positions at the start: NoEntry on a
                  \* new server, FirstPosition on one that has run before
    MaxId,        \* bound: the largest ID drawn from the sequence
    MaxBatch,     \* bound: the largest n given to get_next_mult
    MaxFailures,  \* bound: sequence fetches that raise
    MaxRestarts   \* bound: process restarts

ASSUME WritersAssumption == Writers \subseteq Instances /\ Writers # {}
ASSUME HomeAssumption == HomeOf \in [Threads -> Writers]
ASSUME EntryAssumption == InitialEntry \in {NoEntry, FirstPosition}
ASSUME BoundsAssumption ==
    /\ MaxId \in Nat
    /\ MaxBatch \in Nat
    /\ MaxFailures \in Nat
    /\ MaxRestarts \in Nat

VARIABLES
    seq,        \* last_value of the Postgres sequence
    rows,       \* committed rows of the stream: <<writer, stream id>>
    table,      \* stream_positions
    gen,        \* gen[i]: the generator record of process i
    pc,         \* where each thread is
    want,       \* nextval calls the thread's statement still has to make
    ids,        \* the IDs the thread has drawn
    pos,        \* the position read by the thread for stream_positions
    announced,  \* <<writer, position>> sent over replication
    heard,      \* history: the announcements that each process has handled
    orderly,    \* history: every restart so far was an orderly one
    failures,   \* bounded by MaxFailures
    restarts    \* bounded by MaxRestarts

database == <<seq, rows, table>>
threads == <<pc, want, ids, pos>>
history == <<orderly, failures, restarts>>
vars == <<database, gen, threads, announced, heard, history>>

PcValues == {"idle", "fetching", "registered", "running", "committed",
             "aborted", "updating", "upserting"}

--------------------------------------------------------------------------------
(***************************************************************************)
(* What is in progress.                                                    *)
(***************************************************************************)

(* The IDs a thread has drawn and whose transaction has not ended. *)
Pending(t) ==
    IF pc[t] \in {"fetching", "registered", "running"} THEN ids[t] ELSE {}

ThreadsOf(i) == {t \in Threads : HomeOf[t] = i}

PendingAt(w) == UNION {Pending(t) : t \in ThreadsOf(w)}

PendingElsewhere(i) == UNION {Pending(t) : t \in Threads \ ThreadsOf(i)}

AllPending == UNION {Pending(t) : t \in Threads}

Quiescent == \A t \in Threads : pc[t] = "idle"

(* A fetch of n more IDs stays within the bound MaxId. *)
RoomFor(n) == seq + MapThenSumSet(LAMBDA t : want[t], Threads) + n <= MaxId

Init ==
    /\ seq = FirstPosition
    /\ rows = {}
    /\ table = [w \in Writers |-> InitialEntry]
    /\ gen = [i \in Instances |-> NewGenerator]
    /\ pc = [t \in Threads |-> "idle"]
    /\ want = [t \in Threads |-> 0]
    /\ ids = [t \in Threads |-> {}]
    /\ pos = [t \in Threads |-> 0]
    /\ announced = {}
    /\ heard = [i \in Instances |-> {}]
    /\ orderly = TRUE
    /\ failures = 0
    /\ restarts = 0

--------------------------------------------------------------------------------
(***************************************************************************)
(* Allocating IDs: _load_next_mult_id_txn.                                 *)
(***************************************************************************)

(* Record the in-flight fetch under the lock, then send the SELECT. *)
FetchStart(t) ==
    /\ pc[t] = "idle"
    /\ \E n \in 1 .. MaxBatch :
        /\ RoomFor(n)
        /\ want' = [want EXCEPT ![t] = n]
    /\ gen' = [gen EXCEPT ![HomeOf[t]] = BeginFetch(@, t)]
    /\ pc' = [pc EXCEPT ![t] = "fetching"]
    /\ UNCHANGED <<database, ids, pos, announced, heard, history>>

(* Deviation: the loop over generate_series does not stop. *)
NextValForEver(t) ==
    /\ pc[t] = "fetching"
    /\ seq < MaxId
    /\ seq' = seq + 1
    /\ ids' = [ids EXCEPT ![t] = @ \cup {seq + 1}]
    /\ want' = [want EXCEPT ![t] = @ - 1]
    /\ UNCHANGED <<rows, table, gen, pc, pos, announced, heard, history>>

(* One nextval of SELECT nextval(..) FROM generate_series(1, n): another   *)
(* session may draw IDs in between.                                        *)
NextVal(t) ==
    /\ pc[t] = "fetching"
    /\ want[t] > 0
    /\ seq' = seq + 1
    /\ ids' = [ids EXCEPT ![t] = @ \cup {seq + 1}]
    /\ want' = [want EXCEPT ![t] = @ - 1]
    /\ UNCHANGED <<rows, table, gen, pc, pos, announced, heard, history>>

(* The IDs have arrived: add them to the unfinished ones. *)
Register(t) ==
    /\ pc[t] = "fetching"
    /\ want[t] = 0
    /\ gen' = [gen EXCEPT ![HomeOf[t]] = RegisterFetched(@, ids[t])]
    /\ pc' = [pc EXCEPT ![t] = "registered"]
    /\ UNCHANGED <<database, want, ids, pos, announced, heard, history>>

(* The finally block of a successful fetch. *)
Release(t) ==
    /\ pc[t] = "registered"
    /\ gen' = [gen EXCEPT ![HomeOf[t]] = EndFetch(@, t)]
    /\ pc' = [pc EXCEPT ![t] = "running"]
    /\ UNCHANGED <<database, want, ids, pos, announced, heard, history>>

(* The SELECT raises, possibly after the sequence moved: only the finally  *)
(* block runs, and the IDs drawn become a gap.                             *)
FetchFail(t) ==
    /\ pc[t] = "fetching"
    /\ failures < MaxFailures
    /\ failures' = failures + 1
    /\ gen' = [gen EXCEPT ![HomeOf[t]] = EndFetch(@, t)]
    /\ pc' = [pc EXCEPT ![t] = "idle"]
    /\ want' = [want EXCEPT ![t] = 0]
    /\ ids' = [ids EXCEPT ![t] = {}]
    /\ UNCHANGED <<database, pos, announced, heard, orderly, restarts>>

--------------------------------------------------------------------------------
(***************************************************************************)
(* The body of the `async with` block, then __aexit__ (for get_next_txn,   *)
(* the transaction and its call_after / call_on_exception callbacks).      *)
(***************************************************************************)

(* The rows are persisted in one database transaction ... *)
Commit(t) ==
    /\ pc[t] = "running"
    /\ rows' = rows \cup {<<HomeOf[t], id>> : id \in ids[t]}
    /\ pc' = [pc EXCEPT ![t] = "committed"]
    /\ UNCHANGED <<seq, table, gen, want, ids, pos, announced, heard, history>>

(* ... or the block raises and nothing is persisted. *)
Abort(t) ==
    /\ pc[t] = "running"
    /\ pc' = [pc EXCEPT ![t] = "aborted"]
    /\ UNCHANGED <<database, gen, want, ids, pos, announced, heard, history>>

(* Either way the IDs are finished; only a success goes on to update       *)
(* stream_positions.                                                       *)
MarkFinished(t) ==
    /\ pc[t] \in {"committed", "aborted"}
    /\ gen' = [gen EXCEPT ![HomeOf[t]] = MarkIdsAsFinished(@, HomeOf[t], ids[t])]
    /\ pc' = [pc EXCEPT ![t] = IF @ = "committed" THEN "updating" ELSE "idle"]
    /\ ids' = [ids EXCEPT ![t] = {}]
    /\ UNCHANGED <<database, want, pos, announced, heard, history>>

(* _update_stream_positions_table_txn: read the position ... *)
ReadPosition(t) ==
    /\ pc[t] = "updating"
    /\ LET w == HomeOf[t]
       IN  pos' = [pos EXCEPT ![t] = CurrentTokenForWriter(gen[w], w, w)]
    /\ pc' = [pc EXCEPT ![t] = "upserting"]
    /\ UNCHANGED <<database, gen, want, ids, announced, heard, history>>

(* Deviation: the upsert stores the position it read, GREATEST left out. *)
UpsertLatest(t) ==
    /\ pc[t] = "upserting"
    /\ table' = [table EXCEPT ![HomeOf[t]] = pos[t]]
    /\ pos' = [pos EXCEPT ![t] = 0]
    /\ pc' = [pc EXCEPT ![t] = "idle"]
    /\ UNCHANGED <<seq, rows, gen, want, ids, announced, heard, history>>

(* ... then upsert the GREATEST of it and the stored one. *)
Upsert(t) ==
    /\ pc[t] = "upserting"
    /\ table' = [table EXCEPT ![HomeOf[t]] = Larger(@, pos[t])]
    /\ pos' = [pos EXCEPT ![t] = 0]
    /\ pc' = [pc EXCEPT ![t] = "idle"]
    /\ UNCHANGED <<seq, rows, gen, want, ids, announced, heard, history>>

--------------------------------------------------------------------------------
(***************************************************************************)
(* Replication and restarts.                                               *)
(***************************************************************************)

(* Writer w announces its current token, or the ID of one of its own rows  *)
(* up to it (the tokens of POSITION and RDATA).                            *)
Announce(w) ==
    LET token == CurrentTokenForWriter(gen[w], w, w)
        own == {r[2] : r \in {q \in rows : q[1] = w}}
    IN  /\ \E p \in {token} \cup {q \in own : q <= token} :
              announced' = announced \cup {<<w, p>>}
        /\ UNCHANGED <<database, gen, threads, heard, history>>

(* Process i handles an announcement a of another writer. *)
Advance(i, a) ==
    /\ a \in announced
    /\ a[1] # i
    /\ gen' = [gen EXCEPT ![i] = AdvancePosition(@, i, a[1], a[2])]
    /\ heard' = [heard EXCEPT ![i] = @ \cup {a}]
    /\ UNCHANGED <<database, threads, announced, history>>

(***************************************************************************)
(* A restart is orderly when every other process that has a pending ID has *)
(* an entry in stream_positions, and (for a writer) the ID the sequence    *)
(* handed out last is not pending in another process.                      *)
(***************************************************************************)
OrderlyRestart(i) ==
    /\ \A t \in Threads \ ThreadsOf(i) :
            Pending(t) # {} => table[HomeOf[t]] # NoEntry
    /\ i \in Writers => seq \notin PendingElsewhere(i)

(* Process i dies, its open transactions are rolled back, and it starts    *)
(* again from the database.                                                *)
Restart(i) ==
    /\ restarts < MaxRestarts
    /\ restarts' = restarts + 1
    /\ orderly' = (orderly /\ OrderlyRestart(i))
    /\ gen' = [gen EXCEPT ![i] = LoadCurrentIds(i, table, rows, seq)]
    /\ pc' = [t \in Threads |-> IF t \in ThreadsOf(i) THEN "idle" ELSE pc[t]]
    /\ want' = [t \in Threads |-> IF t \in ThreadsOf(i) THEN 0 ELSE want[t]]
    /\ ids' = [t \in Threads |-> IF t \in ThreadsOf(i) THEN {} ELSE ids[t]]
    /\ pos' = [t \in Threads |-> IF t \in ThreadsOf(i) THEN 0 ELSE pos[t]]
    /\ UNCHANGED <<database, announced, heard, failures>>

Next ==
    \/ \E t \in Threads :
        \/ FetchStart(t) \/ NextVal(t) \/ Register(t) \/ Release(t)
        \/ FetchFail(t) \/ Commit(t) \/ Abort(t) \/ MarkFinished(t)
        \/ ReadPosition(t) \/ Upsert(t)
    \/ \E w \in Writers : Announce(w)
    \/ \E i \in Instances : Restart(i) \/ \E a \in announced : Advance(i, a)

Spec == Init /\ [][Next]_vars

(* A thread that is at work does its next step. *)
Moves(t) ==
    /\ pc[t] # "idle"
    /\ \E to \in PcValues, left \in 0 .. MaxBatch :
        /\ <<to, left>> # <<pc[t], want[t]>>
        /\ pc' = [pc EXCEPT ![t] = to] /\ want' = [want EXCEPT ![t] = left]

(* Process i handles an announcement that it has not handled before. *)
HearsNew(i) ==
    \E a \in announced \ heard[i] : /\ a[1] # i
                                    /\ heard' = [heard EXCEPT ![i] = @ \cup {a}]

(***************************************************************************)
(* A thread that has asked for IDs goes on until its context manager has   *)
(* exited (the database answers), the streamer polls its token every       *)
(* second and the redis connection delivers what has been sent.  A         *)
(* position that has not moved is not sent again, so that nothing has to   *)
(* handle an announcement twice, to start a write or to restart.           *)
(***************************************************************************)
Fairness ==
    /\ \A t \in Threads : WF_<<pc, want>>(Moves(t))
    /\ \A w \in Writers : WF_announced(Announce(w))
    /\ \A i \in Instances : WF_heard(HearsNew(i))

FairSpec == Spec /\ Fairness

--------------------------------------------------------------------------------
(* Every variable has its type. *)
TypeOK ==
    /\ seq \in Nat
    /\ rows \subseteq Writers \X Nat
    /\ table \in [Writers -> Nat]
    /\ gen \in [Instances -> Generator]
    /\ pc \in [Threads -> PcValues]
    /\ want \in [Threads -> Nat]
    /\ ids \in [Threads -> SUBSET Nat]
    /\ pos \in [Threads -> Nat]
    /\ announced \subseteq Writers \X Nat
    /\ heard \in [Instances -> SUBSET (Writers \X Nat)]
    /\ orderly \in BOOLEAN
    /\ failures \in 0 .. MaxFailures
    /\ restarts \in 0 .. MaxRestarts

(***************************************************************************)
(* get_current_token: no process ever puts its persisted-up-to position at *)
(* or past an ID whose transaction is still open in any process (a row     *)
(* committed later would be invisible to every reader that has already     *)
(* read up to the token), as long as restarts were orderly.                *)
(***************************************************************************)
PersistedUptoSafe ==
    orderly => \A i \in Instances : \A id \in AllPending : gen[i].persistedUpto < id

(***************************************************************************)
(* get_current_token_for_writer: the token a writer gives for itself (it   *)
(* goes into POSITION and stream_positions), what it has announced and     *)
(* what is stored all stay below every ID it still has pending, although   *)
(* an idle writer jumps to the largest ID it has heard of.                 *)
(***************************************************************************)
OwnTokenSafe ==
    orderly => \A w \in Writers : \A id \in PendingAt(w) :
        /\ CurrentTokenForWriter(gen[w], w, w) < id
        /\ table[w] < id
        /\ \A a \in announced : a[1] = w => a[2] < id

(***************************************************************************)
(* While no fetch has failed, a writer with no thread in progress gives a  *)
(* token that covers every row it has committed: nothing it finished is    *)
(* left behind in _finished_ids.                                           *)
(***************************************************************************)
IdleTokenComplete ==
    failures = 0 =>
        \A w \in Writers :
            (\A t \in ThreadsOf(w) : pc[t] \in {"idle", "updating", "upserting"}) =>
                \A r \in rows : r[1] = w => r[2] <= CurrentTokenForWriter(gen[w], w, w)

(* The same, whether or not a fetch has failed. *)
IdleTokenCompleteAlways ==
    \A w \in Writers :
        (\A t \in ThreadsOf(w) : pc[t] \in {"idle", "updating", "upserting"}) =>
            \A r \in rows : r[1] = w => r[2] <= CurrentTokenForWriter(gen[w], w, w)

(* get_current_token whatever the restarts. *)
PersistedUptoSafeAlways ==
    \A i \in Instances : \A id \in AllPending : gen[i].persistedUpto < id

(***************************************************************************)
(* Within the life of a process no token goes backwards, neither the       *)
(* persisted-up-to position nor the one of any writer; stream_positions    *)
(* never goes backwards, whatever order the upserts land in.               *)
(***************************************************************************)
TokensMonotonicStep ==
    /\ restarts' = restarts =>
        \A i \in Instances :
            /\ gen[i].persistedUpto <= gen'[i].persistedUpto
            /\ \A w \in Writers :
                CurrentTokenForWriter(gen[i], i, w)
                    <= CurrentTokenForWriter(gen'[i], i, w)
    /\ \A w \in Writers : table[w] <= table'[w]

TokensMonotonic == [][TokensMonotonicStep]_vars

(***************************************************************************)
(* Process i has nothing in progress, but has not moved over what it has   *)
(* finished or heard of: only _mark_ids_as_finished and advance do that,   *)
(* and the end of a fetch that raises calls neither.                       *)
(***************************************************************************)
LeftBehind(i) ==
    /\ NothingInProgress(gen[i])
    /\ gen[i].finished # {} \/ gen[i].maxLocal < gen[i].maxSeen

(***************************************************************************)
(* Every committed row ends up at or below the persisted-up-to position of *)
(* every process, gaps and rollbacks notwithstanding: a writer that has    *)
(* nothing to write does not hold the stream back for ever.  Unless a      *)
(* fetch that raised has left a process behind: it may stay there until it *)
(* writes again or hears of something new.                                 *)
(***************************************************************************)
RowsEventuallyVisible ==
    \A id \in (FirstPosition + 1) .. MaxId :
        (\E w \in Writers : <<w, id>> \in rows)
            ~> \/ \A i \in Instances : gen[i].persistedUpto >= id
               \/ \E i \in Instances : LeftBehind(i)

(* The same whatever a failed fetch leaves behind. *)
RowsEventuallyVisibleAlways ==
    \A id \in (FirstPosition + 1) .. MaxId :
        (\E w \in Writers : <<w, id>> \in rows)
            ~> (\A i \in Instances : gen[i].persistedUpto >= id)
================================================================================
