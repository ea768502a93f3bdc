# TLA+ models of sayance-server

sayance-server is a Matrix homeserver (a fork of Synapse): Python on Twisted,
one Postgres database, and any number of worker processes that share the work
and talk through Redis and HTTP. Its correctness rests less on any one function
than on what happens *between* processes: IDs are drawn by several writers and
must be read in order by everybody, locks are rows that time out, queues live in
memory and are rebuilt from the database after a crash. These modules model that
part.

Paths below are relative to `src/`; line numbers refer to the modelled commit.

## 1. Inventory

| Part | State | Operations | Interacts with | Hard behaviour | Correct when |
|---|---|---|---|---|---|
| Stream ID generator `synapse/storage/util/id_generators.py` | per process: positions of the writers, unfinished, in-flight and finished IDs, persisted-up-to position, known positions; shared: sequence, stream table, `stream_positions` | `get_next*`, `__aexit__`, `advance`, `get_current_token*`, start-up | Postgres; replication | threads finish out of order, gaps, failed fetches, restarts | no token passes an ID that may still be committed; tokens never go back; every row is eventually covered |
| Sequence `synapse/storage/util/sequence.py` | `last_value` | `nextval` | ID generator | values are handed out outside transactions | IDs are unique and increasing |
| Worker locks `synapse/storage/databases/main/lock.py`, `synapse/handlers/worker_lock.py` | `worker_locks` row; per process `_live_lock_tokens`, `_acquiring_locks`, waiting locks | try, check, renew, release, drop, wait | Postgres, clock, replication (`LOCK_RELEASED`) | time-outs against late renewals; release racing an acquisition; crashes | mutual exclusion while renewed; a dead holder does not block for ever |
| Read/write locks (same files, triggers in `synapse/storage/schema/main/delta/79`, `80`) | `worker_read_write_locks*`, triggers | try, renew, release, reap | Postgres | the mode row changes hands while others renew | one writer or many readers; nobody is shut out for ever |
| Federation sender `synapse/federation/sender/` | federation position, per-destination queues, catch-up flags, back-off | notify, queue, transmission loop, catch up, wake up | database, remote servers | volatile queues, back-off, crash between send and record | every event reaches the destination, or can still be found by catch-up |
| Replication `synapse/replication/tcp/` | last tokens per stream, pending batches, per-connection queues | poke, RDATA, POSITION, REPLICATE | ID generator, Redis | lost connection, discarded positions | a reader misses no row |
| Event persistence `synapse/storage/controllers/persist_events.py`, `synapse/storage/databases/main/events.py` | per-room queues, event tables, forward and backward extremities, current state | enqueue, merge, drain, update the state | ID generator, state, deletion | tasks merged while running, outliers that join the graph, rejected and soft-failed events, a failure between chunks | extremities are the graph's heads; a client's retry is one event; everyone is answered |
| State resolution `synapse/state/` | none (caches) | resolve | event graph | — | deterministic |
| Application services `synapse/appservice/scheduler.py`, `synapse/handlers/appservice.py` | poller position, queues, recoverers, transactions, UP/DOWN | poll, enqueue, send, recover | database, event stream | failures handled in the background, a recovery ending beside a new batch, restart | every event reaches the service, in order |
| Task scheduler `synapse/util/task_scheduler.py` | `scheduled_tasks`, running set | schedule, launch, clean | database | restart while running, limit | a task runs to an end |
| Delayed events `synapse/handlers/delayed_events.py` | `delayed_events`, the next timer, position in the state deltas | add, restart, cancel, send, time out, cancel on a state change | database, clock, workers, event stream | timer, calls and state changes race for a row; results of transactions applied late; restart while sending | an event is sent or cancelled, once; the timer stands for the earliest |
| In-memory synchronisation `synapse/util/async_helpers.py` | queues of waiters | Linearizer, ReadWriteLock | reactor | cancellation of a waiter | exclusion, no lost wake-up |
| Caches `synapse/util/caches/` | pending and settled entries | get, set, invalidate | database, replication | a fetch racing an invalidation | no stale entry after an invalidation |
| Purge, state deletion `synapse/storage/controllers/purge_events.py` | state groups to delete | propose, delete, reference | persistence | a group referenced while being deleted | nothing referenced is deleted |
| Phone registration `synapse/handlers/phone_verification.py` | codes, attempts | request, verify, register | SMS gateway | expiry, repeated use | a code is used once, in time |
| Sync, presence, typing; inbound federation; client API, media, push, SSO; configuration | mostly none of their own, or timers | — | all of the above | — | not modelled |

`PROJECT.json` lists the same parts with their status, and under `hazards` each
place where an order of events is hard to reach with a test.

## 2. Modules

| Module | Models |
|---|---|
| `StreamPositions` | the bookkeeping of one `MultiWriterIdGenerator` object, as operators on a record; each operator is the body of one `with self._lock` block |
| `MultiWriterIdGenerator` | several processes with such an object, the sequence, the stream's table, `stream_positions` and replication |
| `MCMultiWriterIdGenerator` | its small instances |
| `WorkerLocks` | the exclusive worker lock, the waiting form of it, time, crashes |
| `MCWorkerLocks` | its small instances |
| `PerDestinationQueue` | the federation sender's event handling and its queue for one destination, with the tables it recovers from |
| `MCPerDestinationQueue` | its small instances |
| `StreamRows` | what the tokens of a replication stream stand for |
| `ReplicatedRows` | abstract: a reader that is given every row, in order |
| `ReplicationStream` | RDATA and POSITION from several writers to one reader over Redis; implements `ReplicatedRows` |
| `MCReplicationStream` | its small instances |
| `StateDeletion`, `MCStateDeletion` | deletion of state groups beside their use by new events |
| `AppServiceScheduler` | delivery of events to application services |
| `DelayedEvents` | events that clients ask the server to send later |
| `Delivery` | these two side by side: they share no state |
| `MCDelivery` | small instances of them, one per behaviour |
| `EventPersistence`, `MCEventPersistence` | the persistence queue of a room and the extremities it keeps |
| `ReadWriteLocks` | the two tables of the read/write locks, with their triggers |
| `TaskScheduler` | the resumable background tasks |
| `DeferredCache` | caches in front of the database, a fetch racing an invalidation |
| `Locks` | `WorkerLocks` and `ReadWriteLocks` side by side: they share no state |
| `MCLocks` | small instances of `ReadWriteLocks` and, for its liveness, `WorkerLocks`, one per behaviour |
| `Components` | `DeferredCache` and `TaskScheduler` side by side: they share no state |
| `MCComponents` | small instances of them and, for its liveness, `MultiWriterIdGenerator`, one per behaviour |

The proofs are in modules of their own, named after the module they extend:
`MultiWriterIdGenerator_proofs`, `Locks_proofs`, `Components_proofs`, `Delivery_proofs`,
`StateDeletion_proofs`, `PerDestinationQueue_proofs`, `ReplicationStream_proofs` and
`EventPersistence_proofs` (section 4).

A definition whose comment begins with `Deviation:` is not part of the model. It
stands before the definition it changes and is a form that definition could
plausibly take by mistake; `PROJECT.json` names, for each property, the one that
breaks it.

### 2.1 Stream IDs

A *thread* is one use of `get_next`, `get_next_mult` or their `_txn` forms. Its
program counter stands at the points where others may run:

    idle -FetchStart-> fetching -NextVal*- -Register-> registered -Release-> running
    running -Commit-> committed -MarkFinished-> updating -ReadPosition-> upserting -Upsert-> idle
    running -Abort-> aborted -MarkFinished-> idle          fetching -FetchFail-> idle

* `FetchStart`, `Register` and `Release` are the three lock blocks of
  `_load_next_mult_id_txn`. `NextVal` is one `nextval` of the
  `generate_series` statement between the first two: other sessions may draw in
  between, so a batch need not be contiguous. `FetchFail` is the path on which
  the statement raises, before or after the sequence moved: only the `finally`
  block runs.
* `Commit`/`Abort` are the end of the caller's transaction, `MarkFinished` is
  `_mark_ids_as_finished` with all its calls of `_add_persisted_position`.
  `ReadPosition`/`Upsert` are `_update_stream_positions_table_txn`: the position
  is read in Python and stored later, with `GREATEST`.
* `Announce` is what the replication streamer sends (`POSITION` with the current
  token, or an `RDATA` with the ID of one of the writer's own rows). Announcements form a set from which
  `Advance` takes any, any number of times: late, repeated, reordered or never.
* `Restart` is the death of a process, the roll-back of its transactions and
  `_load_current_ids`.

Data is abstracted to what the tokens depend on: a row is a pair of writer and
ID. `_known_persisted_positions`, a heap, is a set (equal entries are popped by
the same loop); `_in_flight_fetches`, a list that may hold a mark twice, is a set
of marks tagged with their thread. `MarkIdsAsFinished` calls
`_add_persisted_position` for the IDs in ascending order; the calls before the
last one collapse into one, which the comment of `AddPersistedPositions`
explains.

Not in the model: streams that count downwards (`positive=False`, the mirror
image); `writers=[]`; the in-memory sequence of SQLite; `check_consistency`; the
retry of a whole transaction by `DatabasePool.runInteraction`, which keeps the
callbacks of the failed try; a COMMIT that takes effect after its process died.
`_load_current_ids` is one step: its reads are made in one transaction.

### 2.2 Worker locks

One `(lock_name, lock_key)`; keys never meet in the code. Time is relative: a time
stamp is kept as its age and `Tick` makes everything one unit older, so that
`last_renewed_ts < now - _LOCK_TIMEOUT_MS` reads `row.age > age[t] + Timeout`,
`age[t]` being how long ago the task read `now`. Each database call is three
steps (the code before the await, the statement, the code after it).

| Code | Actions |
|---|---|
| `try_acquire_lock`, `_try_acquire_lock` | `TryBusy`, `TryCheck`, `TryInsert`; `Select`, `CheckValid`, `CheckLost` (`is_still_valid`); `InsertTxn`, `InsertRefused`; `Granted`, `Refused`; `AttemptFails` |
| `Lock._renew` | `RenewSend`, `RenewTxn` |
| `Lock.release` | `ReleaseStart`, `DeleteTxn`, `ReleaseEnd` |
| `Lock.__del__` | `Drop` |
| `WorkerLocksHandler.acquire_lock`, `WaitingLock` | `Enter`, `Wake` |
| process and clock | `Crash`, `Tick` |

`live[i]` is the token of the object that `_live_lock_tokens` (a
`WeakValueDictionary`) holds for the key. A notification that the lock was
released only makes a waiter try again, and `WaitingLock.__aexit__` sends it
*before* it releases (worker_lock.py:261), so `Wake` is allowed at any time.
`WaitingLock`'s retry interval only decides how soon that is.

Two history variables say when the lock's promise is off: `lapsed` (a lock in use
was not renewed by age `RenewBy`) and `clobbered` (a release removed the live
entry of a Lock that is not its own).

Not in the model: `acquire_multi_read_write_lock`; the shutdown hook, documented as
best effort; differences between the clocks of processes; a statement that Postgres
runs after the process that sent it died.

### 2.3 Federation sender

One destination, which is in all the rooms; queues of different destinations share
nothing but the handling of events. An event is its stream ordering, a to-device
message its stream ID. Each await is a point where others run.

| Code | Actions |
|---|---|
| `_process_event_queue_loop`, `_send_pdu` (`__init__.py`) | `Persist`, `StartBatch`; per event `StoreEntry`, `Pass` or `FilterOut`; `FinishBatch`. The events of a room go in order, rooms concurrently (`IsNext`) |
| `PerDestinationQueue.send_pdu`, `attempt_new_transaction` | `SendPdu`, `AttemptNewTransaction`; `Poke` for all the other callers |
| `_transaction_transmission_loop` | `Allowed` or `NotRetrying`; `Collect`, `NothingToSend`, `LoopFails` |
| `_catch_up_transmission_loop` | `LoadLastSent`; `Query` then `QueryAgain`, `CaughtUp` or `Behind`; `ChooseCatchUpPdus`, `CatchUpSent`, `RecordCatchUp` |
| `_TransactionQueueManager` | `ReadMessages`, `SendTransaction`; `TransactionSent`, `DeleteMessages`, `RecordSent` |
| `send_new_transaction` | `Deliver`: the destination has the transaction; a later `LoopFails` is an answer that got lost |
| `_wake_destinations_needing_catchup` | `WakeDestination` |
| `RetryDestinationLimiter`, process | `BackoffGrows`, `BackoffClears`, `TimePasses`, `Crash` |

The back-off has an interval, of which only "more than `CATCHUP_RETRY_INTERVAL`"
matters, and the time to the retry, of which only "over" and "within
`CATCHUP_RETRY_INTERVAL`" do. It changes by itself at any time: the limiter stores
it in the background, other requests to the destination change it too, and an
incoming request clears it. Having an event means being able to fetch the earlier
ones of its room, so `Reached` counts a later event of the room.

Three history variables: `known` (the destination had been sent an event, without
which "catching up is futile", per_destination_queue.py:448); `inOrder` (no event
has been stored or handed over before an earlier one of another room, and no entry
was lowered, when a batch is handled again after a restart, below the entry that
another room still has from before it); `leftOut`
(events filtered out by the back-off while the queue was not catching up, or between
the last catch-up query and the end of catch-up mode: if the back-off is then
cleared before the loop meets it, nothing looks for them).

Not in the model: typing, receipts and presence, which the code drops by design;
device list updates; shards; batches of at most 100 events; a handler that raises
while those of other rooms go on; rooms the destination leaves, purged rooms.

### 2.4 Replication

One stream (the events stream), whose tokens are counted per writer: what matters
is whether a token carries one row, two, none, or was taken over from others, and
`StreamRows` says so. Commands of one writer arrive in order, those of several
interleave.

| Code | Actions |
|---|---|
| a write, `notify_replication`, the looping call | `Write`, `Poke` (both `OnNotifierPoke`) |
| `_run_notifier_loop` | `RunNotifierLoop`, from the test of `pending_updates` to the next query; `SendUpdates`, `UpdatesFail` |
| `on_REPLICATE`, `send_positions_to_connection`, `_send_subscribe` | `ReplicateArrives`, `Greeted`, `WriterConnects`, `ReaderConnects` |
| lost connections, a writer's death | `WriterLost`, `WriterCrash`, `ReaderLost` |
| `on_RDATA`, `on_POSITION` | `Receive` |
| `_process_rdata` | `ProcessRdata` |
| `_process_position` | `DiscardPosition`, `ProcessPosition`, `FetchMissing`, `FetchFails` |

`ReplicatedRows` states the promise: the reader's position for a writer moves from
`p` to `t` only together with all rows between. `Replicates` is the refinement:
`INSTANCE ReplicatedRows WITH broken <- (disturbed # {})`, the other variables as
they are. `disturbed` records three situations in which the protocol does not keep
the promise (see "Known exceptions"); from then on the abstract reader may do
anything.

Not in the model: the other streams (which differ in their rows and in how the
current token is found), a limit reached by the state rows and not by the events,
the reader's own restart (it starts at the database's position, with nothing to
miss), handlers of rows that raise.

### 2.5 State deletion

References from events to state groups are in the main database, the groups and the
two guard tables in another, so no transaction sees both. A *stamp* stands for
`sequence_number` and `insertion_ts`, which are always written together; `oldUpto`
says which are older than the delay.

| Code | Actions |
|---|---|
| `check_state_groups_and_bump_deletion`, `store_state_group` | `HandleEvent`, `StoreGroup` |
| `persisting_state_group_references` around the write of the events | `MarkPersisting`, `StoreEvents` or `StoreFails`, `FinishPersisting`; `Crash`, `Restart` |
| `purge_history`, `_find_unreferenced_groups` | `PurgeEvents`; `FindReferenced`, `FindPrevious`, `FindNext` per query; `MarkUnreferenced` |
| `_delete_state_groups_loop`, `_delete_state_groups` | `NextCollection`, `RecheckReferenced`, `MarkUsed` |
| `_purge_unreferenced_state_groups` | `BeginDelete` (the snapshot of REPEATABLE READ), `DeleteGroups`, or `RetryDelete` on a serialisation failure |

Not in the model: `purge_room`, which deletes a room's groups without asking; the
background update that looks for unreferenced groups; SQLite.

### 2.6 Application services

Events are those of one room (rooms are handled concurrently, and nothing is
promised about the order between them). Every await is a step. `failing` and
`raising` count the background tasks that are about to mark the service DOWN and UP.

| Code | Actions |
|---|---|
| `notify_interested_services` | `PersistEvent`, `FetchEvents`, `HandleEvent`, `SavePosition`, `PollerFails` |
| `ApplicationServiceScheduler.start` | `StartRecoverers`, `StartFails` |
| `_ServiceQueuer._send_request`, `_TransactionController.send` | `NextBatch`/`LoopOn`; `CheckUp`, `CreateTxn`, `Send` or `SendFails`, `Complete`, `SenderFails` |
| `_on_txn_fail`, `start_recoverer` | `MarkDown`, `MarkDownFails` |
| `_Recoverer.retry`, `on_recovered` | `Retry`, `GetOldest`, `Resend`, `CompleteResent`, `RetryFails`; `MarkUp`, `MarkUpFails` |
| process | `Restart` |

Not in the model: ephemeral events, to-device messages and device list summaries.
They go through the same transactions, but reading the code for the model showed
that `queued_device_list_summaries.clear()` (scheduler.py:256) drops the summaries of
*all* services, not those of the one being served.

### 2.7 Event persistence

One room. The room's graph, which events are rejected, which a client sends with one
transaction ID, and how each arrives (new, local, by backfill, as an outlier) is
chosen freely. `MaxEvent` bounds the graph; an event is a number greater than those
before it.

| Code | Actions |
|---|---|
| `add_to_queue`, `try_merge`, `_handle_queue` | `AddToQueue`, by one of the `Submit...` actions; `NextItem`, `Answer` |
| `_persist_event_batch` | `CheckReplaced`, then per chunk `Calculate` and `Write` or `WriteFails` |
| `_calculate_new_extremities`, `_get_events_which_are_prevs`, `_get_prevs_before_rejected` | `NewExtremities`, `PrevsOfExisting`, `PrevsBeforeRejected` |
| `_persist_events_txn` with `_update_outliers_txn`, `_update_backward_extremeties` and the other parts | `Write` |
| `_update_current_state` | `CalculateState`, `WriteState` |
| process | `Restart` |

`stateAt` is the set of extremities that the stored current state was worked out
from. Two loops exist in the model so that a second one for the same room would be
noticed. Not in the model: `_prune_extremities` (it acts on extremities at least 20
deep), partial-state rooms, the server leaving the room, and the content of events.

### 2.8 Read/write locks, tasks, caches

*`ReadWriteLocks`*: one lock name and key. `TryAcquire` is the INSERT with the upsert
trigger and the constraints; `BeginRenew`/`EndRenew` hold a row lock, during which
`Handed`, the delete trigger with `SKIP LOCKED`, passes that row over. If every other
holder's row is locked, the trigger deletes the mode row, the foreign key refuses, and
`release` raises (`DeleteRefused`): the row stays until `Reap`.

*`TaskScheduler`*: `LaunchTasks`, `ReadActive`, `ReadScheduled`, `LaunchTask`,
`EndLaunch` are the loop with its awaits, `MarkActive`, `FunctionEnds`, `Finish` the
life of a task, `CheckDelete`/`DeleteTask` and `CleanTask` its removal. A failed update
(`MarkFails`, `FinishFails`) leaves the task in `_running_tasks` until a restart.

*`DeferredCache`*: `Lookup` (one key or several), `Read`, `Complete`, `Fail` are a fetch;
`Commit` is a change of the database, `Invalidate` or `Prefill` what follows it some time
later. A second function looks one key up with its `cache_context.invalidate`
(`CallOuter`, `OuterDone`); the callback moves from the pending entry to the cached node.

### 2.9 Delayed events

A row is waiting, processed (marked by the sender that will send it) or gone. Every
transaction on the table also returns the next send time, and the handler sets its one
timer to it after the await, so transaction and result are two steps: `Call` for `add`,
`restart`, `cancel` and `send`, `ProcessTimeout` for what is due, then `Apply`. A call reads the
clock and runs its transaction in one step. `add` may run on a worker, whose result reaches the
main process by HTTP (`on_added`), also while that process starts.

| Code | Actions |
|---|---|
| `add`, `restart`, `cancel`, `send`, `on_added` | `Call`, `Apply`, `ReplyLost` |
| `_send_on_timeout` | `TimerFires`, `Apply`, `TimeoutFails` |
| `_send_events`, `_send_event` | `Skip`; `SendEvent`, `SendFails` or `GuestCheckFails`; `DeleteSent` or `DeleteFails`; `Purge` or `PurgeFails` |
| `notify_new_event`, `_unsafe_process_new_event`, `_handle_state_deltas` | `NotifyNewEvent`, `WatchCheck`, `WatchCancel`, `WatchApply`, `WatchStore`, `WatchFails` |
| `_schedule_db_events` | `Crash`, the `Watch...` steps, `Unprocess`, `InitialTimeout`, `StartupFails` |
| other users, clock | `StateChange`, `Tick` |

Four history variables bound the promises: `again` (unmarked by a start of the process), `stale`
(the result last applied was not the current one, or a result was lost), `abandoned` (the
deletion of a sent event failed, or a sender stopped), `unwatched` (the watcher failed and has
not been notified since). Not in the model: ratelimits and validation, the content of events,
deltas of deleted state (skipped by the code), the rewinding of a position that is ahead of the
stream.

## 3. Runs

| Run | Instance | Shows |
|---|---|---|
| `idgen_safety` | 2 writers with 2 + 1 threads, IDs to 3, batches of 2, one failed fetch, one restart | `PersistedUptoSafe`, `OwnTokenSafe`, `IdleTokenComplete`, `TokensMonotonic` |
| `locks_exclusion` | 2 tasks in one process, 1 in another, two faults | `Exclusive` |
| `sender_safety` | 3 events in 2 rooms, a failure or a crash, two back-offs | `NoLoss` |
| `sender_liveness` | 1 event, 2 messages, a failure, a crash and two back-offs, known or unknown destination | `MessagesKept`; `EventsDelivered`, `MessagesDelivered` under `FairSpec` |
| `replication` | 2 writers, 2 + 1 tokens, one fault of any kind and a failing catch-up | `NoRowMissed`; the refinement `Replicates`; `CatchesUp` under `FairSpec` |
| `replication_batch` | 2 writers (the trace needs no fault) | **violated**: `NoRowMissedInBatch` |
| `state_deletion` | 2 groups and a third to come, one purge, two uses, one fault | `ReferencedKept`, `DeltasWhole`; `PendingSettled` under `FairSpec` |
| `delivery` | application services: 3 events, 2 per transaction, two faults, a restart; delayed events: 2 for the same state, of two users, one incident (a failure, a restart or a change of state) | `Accounted`, `LookedAfter`, `InOrder`, `OneOutcome`, `TimerCovers`, `StateWins`; `EventsReach`, `AllLeave` under fairness |
| `event_persistence` | 4 graphs of 5 events, 3 calls, chunks of 1 or 2, one rejected event, one fault | `TipsKept`, `NoDangling`, `OncePerTransaction`, `StateMatches`, `BackwardExact`; `AllAnswered` under fairness |
| `persistence_assertion` | the same graphs, 4 calls, chunks of 2, no fault | **violated**: `ExtremitiesLeft` |
| `locks_shared` | read/write locks: 2 readers, 2 writers, one fault; worker locks: 1 task in each of two processes, two faults | `WriterAlone`, `ModeAgrees`; `EveryoneGetsInTurn`, `SomeoneGetsIn` under fairness |
| `components` | caches: 2 keys, 2 fetches; tasks: 2 tasks, 2 places, two faults; stream IDs: 2 writers, IDs to 3, one failed fetch | `NoStale`, `OuterNotStale`; `EndIsFinal`; `EveryTaskEnds`, `RowsEventuallyVisible` under fairness |

### What the two violations show

`findings` in `PROJECT.json` quotes the lines they contradict.

* *Batches.* `_pending_batches` is kept per stream. A `POSITION` of writer A between two
  RDATA of writer B's batch clears B's row, and fetches only A's updates; the last RDATA
  of the batch moves B's position past it (handler.py:649).
* *Soft-failed ex-outliers.* `_update_outliers_txn` does not store that the event
  soft-failed. The event is not made a forward extremity, but its prev events count as
  followed by an accepted event: the next new event can leave the room with no forward
  extremity, and the assertion fails its task.

### Known exceptions

Some promises of a comment or docstring do not hold in every case. The models say when,
in a history variable, and the properties are about the other behaviours. These
configurations, which are not runs of `PROJECT.json`, let TLC show the cases (with `-continue` where a configuration is listed twice):

| Configuration | Violated | What happens |
|---|---|---|
| `MCIdGenRestartUnsafe.cfg` | `PersistedUptoSafeAlways` | A starting writer sets its own position to the sequence's last value. If another writer drew that ID and has not committed it, the new process's persisted-up-to position reaches it (id_generators.py:372). `OrderlyRestart` is the condition under which this cannot happen; under it safety is proved. |
| `MCIdGenFetchFailure.cfg` | `IdleTokenCompleteAlways` | While a fetch is in flight, a smaller finished ID is not passed. If the fetch raises, nothing re-evaluates that (id_generators.py:495). |
| `MCWorkerLocksStolen.cfg` | `HeldUntilDropped` | `release` awaits its DELETE and then pops the live entry by key; a task of the same process that acquired the lock in between loses its entry, and the next attempt takes the row over (lock.py:494). |
| `MCWorkerLocksReclaim.cfg` | `RestartReclaims` | The instance name is a random string drawn at each start, so "the process got killed and restarted" never matches its own old row (lock.py:157-159). |
| `MCSenderOvertaken.cfg` | `NoLossAnyOrder` | A later event of another room is sent and recorded before an earlier one has its `destination_rooms` entry; the earlier is neither sent, queued nor found, until the room's next event (per_destination_queue.py:590). |
| `MCSenderRestart.cfg` | `NoLossAnyOrder` | Events are handled strictly one by one. A restart in the middle of a batch starts it again, and `store_destination_rooms_entries` lowers the entry of a room while another room's later entry is still there; the catch-up sends that one and records its ordering, and the events stored again after its query are below the position (transactions.py:328, per_destination_queue.py:590). |
| `MCReplicationExceptions.cfg` | `NoRowMissedOnConnection` | After a reconnection the POSITION of one writer connects the stream, and RDATA of another, whose POSITION has not come yet, is taken with what was lost before it (handler.py:539). |
| `MCReplicationExceptions.cfg` | `NoRowMissedInGap` | A writer without a connection passes tokens in silence; after reconnecting a write can send RDATA before the position is announced. |
| `MCStateDeletionExceptions.cfg` | `ReferencedKeptOverRestart` | A restart clears `state_groups_persisting` without bumping, although the events may have been stored (deletion.py:101). |
| `MCStateDeletionExceptions.cfg` | `ReferencedKeptOverSnapshot` | Under REPEATABLE READ the deleting transaction does not see a row of `state_groups_persisting` committed after its snapshot. |
| `MCDeliveryExceptions.cfg` | `OnlyMarkedTwice` | While the main process starts, a worker's `add` sets the timer; the event is marked and sent before `unprocess_delayed_events` runs, is unmarked by it and sent again, although it was not "marked as processed on startup" (delayed_events.py:94-100). |
| `MCDeliveryExceptions.cfg` | `TimerCoversAlways` | Two transactions commit in one order and their next send times are applied in the other: the timer is late or cancelled, and the event waits until another call sets it (delayed_events.py:530). |
| `MCPersistenceDangling.cfg` | `NoDanglingPastOutliers` | Of a chain of three events the first soft-fails; the second was an outlier and soft-fails too, which is not stored; the third is accepted. `_get_prevs_before_rejected` goes back as far as the second, which counts as accepted, and the extremity before the first stays for good beside the third (events.py:824, 2444). |

The other exceptions, named in the properties' comments:

* *Federation sender.* An event left out because of a long back-off while its queue is not
  catching up (`leftOut`).
* *Replication.* `CatchesUp` allows for `stranded`, the writers without a POSITION since a
  catch-up query last raised. The failure drops the POSITION it was for and leaves the
  stream disconnected, so rows of every writer are discarded; the POSITION of one writer
  connects the stream again but does not fetch what the others sent meanwhile.
* *Application services.* A batch that read DOWN before the last recovery ended leaves its
  transaction to nobody; a restart does so for every transaction of a service that is
  still marked UP; the assertion in `start_recoverer` stops `start` for the services after
  it (`stranded`). A batch checked before an earlier failure was recorded overtakes it
  (`"race"`). What is queued in memory below the stored position is lost with the process
  (`"lost"`). If `set_appservice_state(UP)` fails in `on_recovered` the recoverer has been
  popped already: every later attempt ends in a KeyError, and the service stays DOWN,
  served through that recoverer, until a restart.
* *Persistence.* `NoDanglingPastRejected` does not hold: rejected events have no rows in
  `event_edges`, so `_get_prevs_before_rejected` does not look past them although its
  docstring says so, and they are never taken out of `event_backward_extremities`. A
  soft-failed event and an accepted one that follows it in the same chunk leave a dangling
  extremity (excluded by `gaps`, since the second was submitted before the first was
  stored). Backfilled history that leads to soft-failed events can hide a tip (`astray`).
  One failing event fails everyone merged into its task, and a failure in the second chunk
  answers an error for events of the first, which are stored.
* *Delayed events.* A query that raises in `_send_on_timeout` or at start-up sets no timer; one
  that raises in `_schedule_db_events` before the callback is added leaves state changes
  unwatched until a restart. An event stays marked for ever, or until the next start sends
  it again, if deleting it fails or if `is_guest` raises before the `try`.
* *Tasks.* A task that ends while the loop has it on its list is started again
  (`EndIsFinalAlways` does not hold; `overtaken`). The class comment says ten tasks at a
  time, the constant five.
* *Caches.* Prefills out of order, as two writers of the same account data can make
  (account_data.py:623), leave the older value (`misordered`); `prefill` drops a pending
  entry without running its callbacks.

### Bounds

* `MaxId` = 3 leaves an ID before, during and after a failure or a restart, and a gap with an
  ID above it: the cases of `_add_persisted_position`. `MaxBatch` = 2 is the smallest batch
  whose IDs may be split by another session. The proofs cover all values.
* `Timeout` = 3, `RenewBy` = 1, `MaxDelay` = 1 keep the order of the code's times
  (30 s, 120 s, and a database that answers in less than their difference;
  assumption `TimeAssumption`). Ages saturate at `OldAge` = `Timeout + MaxDelay + 1`,
  beyond which no test tells them apart.
* `locks_exclusion` does not continue past a state that is `lapsed` or `clobbered`
  (constraint `Undisturbed`): both are permanent and `Exclusive` is true for ever
  after them. Two faults let one process crash while another loses its Lock.
* Three events that alternate between two rooms give a room with two unsent events
  around the other's. `Limit` stands for the 50 events of a transaction or of a
  catch-up query and for the limit on messages: 2 is reached by the queue and by the
  two rooms, 1 makes two messages need two transactions. Two back-offs are the fewest
  that reach a long interval; one failed run of the loop and one crash can each fall
  between any two steps. `sender_safety` does not continue past a state that is not
  `inOrder`, after which `NoLoss` is true for ever, and takes a failure or a crash
  (`OneFault`): a crash leaves of what happened before it only the tables.
  `sender_liveness` has both in one behaviour. The inductive invariant of the proof, and with
  it `NoLoss`, was also checked with other assignments of events to rooms, with messages, with
  an unknown destination (1.2 to 5.5 million states each), and by simulation with three rooms,
  six events and two crashes.
* `replication`: two tokens of the first writer, with two rows or none each, make a batch, a
  gap and a catch-up in several queries (`Limit` = 1); the second writer only moves, which
  is enough to interleave its POSITIONs. A failing
  catch-up needs a fault before it, so `FaultSets` has it together with a lost connection
  or a writer's crash.
* `state_deletion`: two groups, the second a delta of the first, and a third that is stored
  during the run; two uses let one event be handled before and one after the purge. The
  safety properties also hold with two purges (10.0 million states).
* `delivery`, application services: three events make two transactions; two faults let a send fail while
  another's failure is dealt with. Also checked: three faults (3.2 million states), and two
  services with two events and one fault, where `start` meets both.
* `delivery`, delayed events: with two events of different users for the same state, each can be
  superseded by the other's sending, cancelled by it, or due together with it; delays of 1 and 2
  and a clock to 3 let both be restarted. One incident falls between any two steps. Also
  checked, for safety: two senders (2.4 million states), two requests at once (7.0 million), two
  events of the same user, and a message beside a state event.
* `event_persistence`: the graphs are a chain, two branches with a merge, and events that follow
  both extremities; three calls are the fewest that merge two while a third runs.
* `locks_shared`: with two readers and two writers the mode row changes hands within a mode and
  between modes. `components`: two tasks and two places fill the pool. The caches were also checked with
  two changes per row (358 thousand states).
* `CHECK_DEADLOCK FALSE` where the bound on what may happen makes the model stop; the
  models of the worker lock and of the sender never stop.

### Fairness

Everywhere: the database answers, requests end or time out, timers fire, and nothing has
to be written, to fail or to restart; faults are finitely many.

* `MultiWriterIdGenerator`: a thread that has asked for IDs goes on, the streamer announces the
  current token (`on_notifier_poke` is called every second where the events stream is
  written, resource.py:114) and announcements arrive.
* `WorkerLocks`: the retry interval of a waiter ends, time passes. Nobody has to ask for the
  lock, renew it or let it go.
* `PerDestinationQueue`: the handling of events and the loop go on, time passes, and the
  waker, which runs every minute, wakes a destination that stays eligible.
* `ReplicationStream`: writers and reader go on with whatever they can do, reconnecting
  included; what was sent arrives or is lost with a connection.
* `StateDeletion`: time passes, the deletion loop is called every minute, the persister ends
  what it began, after a restart if need be.
* `AppServiceScheduler`: one weak fairness for all steps of the process, which the reactor runs
  as they become ready.
* `DelayedEvents`: what a request or a sender has begun goes on, the clock moves, a timer that is
  due fires, notifications are delivered. Nobody has to call.
* `EventPersistence`: a loop goes on. `ReadWriteLocks`: statements end, holders release,
  refused tasks try again (`WorkerLocksHandler`), the reaper runs. `TaskScheduler`: the loop
  runs every minute, functions of tasks end.

## 4. Proofs

Every theorem is `Spec => []P` (or `Spec => P` for an action property or a refinement) and holds for all
values of the constants that satisfy the assumptions named here: any numbers of processes,
tasks, rooms, events, keys, messages, failures and restarts. `MaxId`, `MaxFaults` and the
like bound a behaviour, but the theorems hold for every bound.

| Module | Theorems | From |
|---|---|---|
| `MultiWriterIdGenerator_proofs` | `TypeCorrect` (`TypeOK`), `TokenSafety` (`PersistedUptoSafe`), `OwnTokenSafety` (`OwnTokenSafe`), `IdleTokenCompleteness` (`IdleTokenComplete`), `Monotonicity` (`TokensMonotonic`) | `WritersAssumption`, `HomeAssumption`, `EntryAssumption`, `BoundsAssumption` |
| `Locks_proofs` | `TypeCorrect`, `LockExclusion` (`Exclusive`) of `WorkerLocks` | `HomeAssumption` (finitely many tasks and processes, so that there is a fresh token), `TimeAssumption` |
| | `RwTypeCorrect`, `ModeAgreement` (`ModeAgrees`), `WriterExclusion` (`WriterAlone`) of `ReadWriteLocks` | `TokensAssumption` |
| `Components_proofs` | `TypeCorrect`, `CacheNotStale` (`NoStale`), `OuterCacheNotStale` (`OuterNotStale`) of `DeferredCache` | `KeysAssumption` |
| | `EndsStay` (`EndIsFinal`) of `TaskScheduler` | nothing |
| `StateDeletion_proofs` | `TypeCorrect`, `DeltasStayWhole` (`DeltasWhole`), `ReferencedGroupsKept` (`ReferencedKept`) | `BoundsAssumption` |
| `Delivery_proofs` | `TypeCorrect`, `EachEventHasOneOutcome` (`OneOutcome`), `ChangesOfStateWin` (`StateWins`), `TimerCoversWaiting` (`TimerCovers`) of `DelayedEvents` | `EventsAssumption` (finitely many events) |
| | `EventsAccounted` (`Accounted`), `TransactionsLookedAfter` (`LookedAfter`), `EventsInOrder` (`InOrder`) of `AppServiceScheduler` | `SchedulerAssumption` |
| `PerDestinationQueue_proofs` | `TypeCorrect` (`TypeOK`), `MessagesStay` (`MessagesKept`), `NothingLost` (`NoLoss`) | `RoomAssumption`, `StartAssumption`, `BoundsAssumption` |
| `ReplicationStream_proofs` | `TypeCorrect`, `NoRowIsMissed` (`NoRowMissed`), `Refinement` (`Replicates`) | `KindsAssumption`, `BoundsAssumption` |
| `EventPersistence_proofs` | `BranchesKept` (`TipsKept`), `ExtremitiesAreLast` (`NoDangling`), `TransactionsPersistOnce` (`OncePerTransaction`), `StateFollowsExtremities` (`StateMatches`), `BackwardExtremitiesExact` (`BackwardExact`), `CallsAreServed` (`TypeOK`, `Served`) | `RoomAssumption` (a graph has no cycle: an event's ID is a hash over the IDs of its prev events, so its events can be numbered upwards) |

`TokensAssumption`, `KeysAssumption`, `SchedulerAssumption` and `EventsAssumption` are definitions and hypotheses of
the theorems; `MCLocks`, `MCComponents` and `MCDelivery` assume them of the values they give.

None of these properties is inductive. Each module defines `IInv`, proves `Init => IInv` and
one lemma per action (or per group of actions that leave the same variables alone), and
combines them in `Invariance`. What `IInv` adds, and why it is needed:

**`MultiWriterIdGenerator`**

* `Allocated`: every value in any generator, table or message is at most `seq`.
  Without it an `advance` could bring a position that nobody was given, and the
  next `nextval` could fall below it; it also bounds the sets, so that their
  maxima exist.
* `HasIds`, `IdsDisjoint`: what a thread at each point has drawn, and that no ID
  is drawn twice.
* `ThreadKnown`: a thread's pending IDs are in its process's unfinished set, or
  above the mark of its in-flight fetch. This is why an idle generator may jump
  to the largest ID it has heard of.
* `Safe`: the claims. A position claimed for writer *w* (`Claim`) is below the IDs
  pending at *w* and is not itself an ID pending elsewhere; this second half is
  needed since a claim `p` of one writer is added to the known positions of
  another, whose persisted-up-to position skips over it.

* `Accounted`, for `IdleTokenComplete`: what a generator holds as in progress belongs to a
  thread in progress; finished IDs are held back only while something is in progress, unless
  a fetch failed; an own row that the token does not cover is held back or about to be marked.

There is one lemma per operator of `StreamPositions` (`MinProps`, `MaxProps`,
`SkipForwardProps`, `AddPersistedSafe`, `MarkSafe`, `AdvanceSafe`, `LoadSafe`, ...) and one
per action for each half of the invariant (`...Struct`, `...Safe`); `IInvStep` combines them.
`Monotonicity` follows from the same invariant through the `...Recording` lemmas, which say
that no operator but `LoadCurrentIds` lowers a token.

**`WorkerLocks`**

* `OneAttempt`: in a process one task at a time is between `_acquiring_locks.add` and the
  `finally` block.
* `OwnTokens`: tokens are not shared, so a DELETE or an UPDATE by token meets its own row.
* `Timely`, `RenewsForward`: what a task read of the clock is at most `MaxDelay` old, and a
  renewal was sent after the row was written, so that it never makes a row older.
* `Safe`, unless `lapsed` or `clobbered`: a Lock in use has the row, not older than `RenewBy`;
  the holder's token is the live entry of its process; an attempt in that process asks about
  this very token and sees a young row, hence never inserts. The other processes are kept out
  by `RenewBy + MaxDelay < Timeout`.

**`ReadWriteLocks`**

* `OneWriter`: the unique index; `HoldersHaveRows`, `StaleExplained`: a holder without a row
  has stalled, and the reaper only takes rows nobody renews. With `ModeAgrees`, which has to
  be carried through the triggers, a second mode is refused by the foreign key.

**`DeferredCache`**

* `CacheFresh`, `FetchFresh`: a cached value, and one that a fetch *still entered as pending*
  has read, is the newest, or the newest version's invalidation is still to come. The
  second half is the argument why `_completed_callback` may trust the identity of its entry.
* `OneOrOther`: no key is cached and pending. `OuterFollows`: the outer function's callback is
  on the entry it waits for or on the node whose value it used.

**`TaskScheduler`**

* `TasksInv`: a task that ended in time (not while the launching loop had it on its list) is
  neither running, nor about to be marked, nor on that list: nobody is left who could write to
  its row.

**`AppServiceScheduler`** (`AppInv`)

* `PollerInv`: what the scheduler was handed (`Handed`), and that what the poller has left to hand
  over follows it. Every event up to `Handed` is delivered, in a transaction or in memory.
* `TxnOk`: transaction ids ascend; the transaction that a sender or a recoverer is about to
  delete was delivered; the recoverer's is the oldest.
* `CareOk`, unless stranded: a transaction that is not with the sender, and a service that is
  DOWN, has a recoverer, or one is about to start.
* `StatusOk`: the batch of a service that was found UP is sent while nothing else is, and no
  transaction is left before it, unless one of the two races happened. This is where the order
  comes from: only a recoverer that found nothing left marks its service UP.
* `InSequence`: what a service has got has no gaps (`Closed`); the transactions in the order of
  their ids, then the sender's batch, then the queue, each go on where what comes before them
  ends (`Follows`). A batch may be delivered again, so `Follows` lets it start earlier.

The lemmas `MoreGot`, `Looped`, `Dropped`, `Created`, `EventTaken` and `EventQueued` say this of
one service's values, whichever action changed them.

**`StateDeletion`**

* `UsedKept`, `CandidatesWatched`, unless `disturbed`: what is being persisted refers to groups
  that exist, and a candidate that got a reference since the recheck is marked in
  `state_groups_persisting` or no longer has the stamp it was selected by. These are the two
  guards of the deletion; the invariant says that at any time one of them works.

**`DelayedEvents`**

* `AllWorking`, `OneHolder`: a sender's list has no event twice, no two processes have an event
  still to be sent.
* `Ledger`: what has become of an event, by the status of its row: an event that somebody holds
  is neither sent nor cancelled and its row does not wait.
* `Watched`: for an event that waits, no delta that the watcher has dealt with *so far*
  (`Handled`, which runs ahead of the stored position) hits it.
* `Timed` for the timer: a waiting row has a time, so `NextSendTs` is none only if nothing waits.

**`PerDestinationQueue`**

* `BatchInv`, `PlaceInv`, `LoopInv`: in any order of events, how the stages relate to the
  entries, which variables are in use at which point of the loop, and that what it holds was
  queued, or stands for the first event found.
* `MessageInv`: the messages collected are *all* in the outbox up to `upTo`, so that deleting up
  to it deletes nothing else.
* `OrderInv`, while `inOrder`: stages descend with the ordering across rooms, an event below any
  room's entry is below its own room's, the queue ascends.
* `SafeInv`, while `inOrder` and `known`: every event that is not above a recorded or about to be
  recorded position has reached the destination or is still found from the entries
  (`PositionsCovered`, for the stored position, the cached one and what the loop is about to
  store); a catch-up whose query came back empty has missed only what was skipped during it
  (`NothingMissing`); outside catch-up mode what was handled is queued (`QueueComplete`).

Stating `SafeInv` showed that a restart in the middle of a batch can lose events too
(`MCSenderRestart.cfg`), which needs more events than the run's instance has; `inOrder` now
records it.

**`ReplicationStream`**

* `Connections`: the queue is ordered by connection; while a POSITION is being fetched the stream
  is connected nowhere and no batch is kept; where a POSITION was dealt with and something may
  still come, the stream is connected (or the fetch under way will connect it).
* `Ascending`: a writer's commands, on their way and in the queue, and the rows kept are about
  ascending tokens, up to where its streamer stands.
* `Contiguous`, while `disturbed` is empty: no row is left out on the way from a writer to the
  reader. Two of the writer's commands that follow each other (`Chained`) on their way, in the
  queue, or from the queue to those on their way, leave out no token with rows that the reader
  has not passed; the first of them on a connection the reader follows the writer on
  (`SyncedOn`) starts where the reader is or will be after the fetch (`Ready`). What is on its
  way is followed by the row the writer would send next (`Coming`), so that sending is
  appending; for a writer in a gap nothing follows, which is why only a POSITION may end a gap.
* `OneBatch`: the rows kept are of one writer.

`CommandsRun` and `RunNotifierLoopIs` say what a streamer sends: a `Run`, which starts where
the streamer was and ends where it is. Since the three hazards are part of `disturbed`, the
theorem says that they are the only ways in which a row can be missed.

**`EventPersistence`**

* `OneLoop`: a room has one loop. `TasksOk`: no new event is in two tasks or twice in one, and
  what a task's events follow is there, unless an event came with a gap; merging, skipping
  replaced events and going on to the next chunk only take items away or put tasks together
  (`Within`, `MergedFit`, `LongerOk`).
* `LoopsOk`: what a loop is about to write was worked out from what is there *now*: between
  `_calculate_new_extremities` and the transaction nobody else changed the extremities, and no
  event of the same transaction ID was stored. The properties rest on this, and it rests on
  `OneLoop`.
* `Tables`: edges, rejections and the place in the graph follow from what is stored and rejected.
* `Tips`: every accepted event is at or before a forward extremity, so that `TipsKept`, which
  speaks of the events the server accepted as new, can be carried through an outlier that joins
  the graph. `Closed` and `ForwardLast` do the same for `NoDangling`.

The extremities are argued about through the order of the graph. A new extremity covers what an
old one covered since of the events of a chunk that come after it there is a last one
(`GreatestEvent`); `_get_prevs_before_rejected` is a search through rejected and soft-failed
events, of which the proof needs that it ends with a closed set after as many rounds as there
are events (from a least event it has not reached, `LeastElement`). Well-foundedness comes
from the library's `WFMin`, which has no operator parameter.

`CallsInv`, a second invariant over the first, counts calls: those that wait are those of the
tasks in the queue and of the loop (`Total`, a sum stated through its partial sums), and a queue
that is not empty has its loop. So while a call waits a loop runs (`Served`): the safety half of
`AllAnswered`, which would fail if the loop could end beside a task that was just added.

Only model-checked: the liveness properties and the refinements' fairness, which are out of the
prover's reach; and the two findings, where TLC's counterexample is the result.

## 5. Plan

Done: models and runs of the ID generator, worker locks and read/write locks, federation
sender, replication, state deletion, application services, delayed events, event
persistence, task scheduler and caches; the proofs of section 4, which cover every safety
property that a run checks.

Next, proofs: type correctness of `AppServiceScheduler` and `TaskScheduler` as theorems of their
own; and the conditions under which theorems are stated (`lapsed`, `inOrder`, `astray`, `disturbed`, ...),
each of which marks a race in the code: where one can be narrowed, the theorem gets stronger.

## 6. Not modelled

* *State resolution*: a pure function whose meaning is in the event authorisation rules; without
  those a model would only repeat its sorting.
* *Linearizer, in-memory ReadWriteLock*: their hard case is the cancellation of a Deferred at any
  await, which needs a model of Twisted's Deferreds first.
* *Phone registration*: the codes are kept by an outside service.
* *Sync, presence, typing, inbound federation, client API, media, push, SSO*: they assemble
  answers from many tables, or check and fetch; what they hand to the modelled parts are
  those parts' inputs.
* *Parsing, HTTP and wire formats, SQL assembly, configuration, logging, metrics*: no state that
  another part depends on.
