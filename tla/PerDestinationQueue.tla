-------------------------- MODULE PerDestinationQueue --------------------------
(***************************************************************************)
(* The federation sender and its queue for one destination                 *)
(* (federation/sender/__init__.py, per_destination_queue.py, and the       *)
(* tables of storage/databases/main/transactions.py).                      *)
(*                                                                         *)
(* An event is its stream ordering.  Events are handled in batches, the    *)
(* rooms of a batch concurrently: each event's destination_rooms entry is  *)
(* stored, the destination's back-off is looked up, and the event is given *)
(* to the queue.  The queue's transmission loop sends what is pending, or, *)
(* in catch-up mode, the newest event of each room that destination_rooms  *)
(* has above last_successful_stream_ordering.  Everything but the database *)
(* is lost when the sender's process dies.                                 *)
(***************************************************************************)
EXTENDS Naturals, Sequences, FiniteSets, SequencesExt

CONSTANTS
    Rooms,        \* rooms the destination is in
    RoomOf,       \* the room of each event
    StartsFrom,   \* what may be known of the destination at the start
    MaxEvent,     \* bound: the newest stream ordering
    MaxMessage,   \* bound: to-device messages
    Limit,        \* events or messages in one transaction, rooms in one catch-up query
    MaxFailures,  \* bound: runs of the transmission loop that end with an error
    MaxBackoffs,  \* bound: times the back-off grows
    MaxCrashes    \* bound: restarts of the sender

(* No stream ordering is known. *)
None == 0

(* Where the stream, and the destination if it is a known one, stand. *)
Start == 1

Events == (Start + 1) .. MaxEvent
Messages == 1 .. MaxMessage

ASSUME RoomAssumption == RoomOf \in [Events -> Rooms]
ASSUME StartAssumption == StartsFrom \subseteq {None, Start}
ASSUME BoundsAssumption ==
    /\ MaxEvent \in Nat /\ MaxEvent >= Start
    /\ MaxMessage \in Nat
    /\ Limit \in Nat \ {0}
    /\ MaxFailures \in Nat /\ MaxBackoffs \in Nat /\ MaxCrashes \in Nat

VARIABLES
    \* The database.
    persisted,    \* the newest event
    outPos,       \* federation_stream_position: handled up to here
    destRooms,    \* destination_rooms: the newest event of each room, or None
    lastSent,     \* destinations.last_successful_stream_ordering, or None
    outbox,       \* device_federation_outbox
    messages,     \* the newest to-device message
    backoff,      \* destinations.retry_interval, and when the retry is due
    \* FederationSender.
    lastPoked,    \* _last_poked_id: the newest event it has been told of, or None
    batchTo,      \* the end of the batch being handled, or None
    stage,        \* how far the handling of each event is
    \* PerDestinationQueue.
    catchingUp,   \* _catching_up
    lastSkipped,  \* _catchup_last_skipped
    lastCached,   \* _last_successful_stream_ordering, or None
    pending,      \* _pending_pdus
    newData,      \* _new_data_to_send
    lastDevice,   \* _last_device_stream_id
    pc,           \* where the transmission loop is; "off": not running
    first,        \* first_catch_up_check
    found,        \* catch-up events still to be sent
    txn,          \* PDUs of the transaction being sent
    edus,         \* to-device messages of the transaction being sent
    upTo,         \* _device_stream_id: they are the ones up to here
    \* The destination.
    received,     \* events
    delivered,    \* to-device messages
    \* History.
    known,        \* the destination had been sent an event before
    inOrder,      \* no event has overtaken an earlier one on its way to the queue
    leftOut,      \* events the queue never heard of although it was not catching up
    faults        \* bounded by MaxFailures, MaxBackoffs, MaxCrashes

tables == <<persisted, outPos, destRooms, lastSent, outbox, messages>>
sender == <<lastPoked, batchTo, stage>>
catchUp == <<catchingUp, lastSkipped, lastCached, first, found>>
transaction == <<txn, edus, upTo>>
remote == <<received, delivered>>
history == <<known, inOrder, leftOut>>
vars == <<tables, backoff, sender, catchUp, pending, newData, lastDevice, pc,
          transaction, remote, history, faults>>

(* The members of S, the oldest first: ORDER BY stream_ordering. *)
Ascending(S) == {s \in SetToSeqs(S) : \A i, j \in DOMAIN s : i < j => s[i] < s[j]}

(* What there is room for in one transaction or one answer. *)
UpToLimit(s) == SubSeq(s, 1, IF Len(s) < Limit THEN Len(s) ELSE Limit)

Stages == {"new", "stored", "passed", "handled"}

PcValues == {"off", "limiter", "load", "query", "decide", "choose", "sending",
             "answered", "recordCatchUp", "collect", "collecting", "collected",
             "deleting", "recording"}

(***************************************************************************)
(* The back-off.  CATCHUP_RETRY_INTERVAL (an hour) divides the intervals   *)
(* into short and long ones, and the time to the next retry into "later"   *)
(* and "soon".                                                             *)
(***************************************************************************)
NoBackoff == [interval |-> "none", due |-> "over"]
Backoffs == {NoBackoff} \cup [interval : {"short"}, due : {"soon", "over"}]
                        \cup [interval : {"long"}, due : {"later", "soon", "over"}]

(* get_retry_limiter does not raise NotRetryingDestination. *)
RetryAllowed == backoff.due = "over"

(* filter_destinations_by_retry_limiter keeps the destination. *)
RetryDueSoon == backoff.due \in {"soon", "over"}

Init ==
    /\ persisted = Start
    /\ outPos = Start
    /\ destRooms = [r \in Rooms |-> None]
    /\ lastSent \in StartsFrom
    /\ outbox = {}
    /\ messages = 0
    /\ backoff = NoBackoff
    /\ lastPoked = None
    /\ batchTo = None
    /\ stage = [e \in Events |-> "new"]
    /\ catchingUp = TRUE
    /\ lastSkipped = None
    /\ lastCached = None
    /\ pending = <<>>
    /\ newData = FALSE
    /\ lastDevice = 0
    /\ pc = "off"
    /\ first = FALSE
    /\ found = <<>>
    /\ txn = <<>>
    /\ edus = {}
    /\ upTo = 0
    /\ received = {}
    /\ delivered = {}
    /\ known = (lastSent # None)
    /\ inOrder = TRUE
    /\ leftOut = {}
    /\ faults = [failures |-> 0, backoffs |-> 0, crashes |-> 0]

--------------------------------------------------------------------------------
(***************************************************************************)
(* The queue's entry points.                                               *)
(***************************************************************************)

(* attempt_new_transaction: start the loop if it is not running. *)
AttemptNewTransaction ==
    /\ newData' = TRUE
    /\ pc' = IF pc = "off" THEN "limiter" ELSE pc

(***************************************************************************)
(* Somebody else asks for a transaction: wake_destination when the remote  *)
(* server is seen to be up, a to-device message, a receipt, presence.      *)
(***************************************************************************)
Poke ==
    /\ AttemptNewTransaction
    /\ UNCHANGED <<tables, backoff, sender, catchUp, pending, lastDevice, transaction,
                   remote, history, faults>>

(* Deviation: a destination with any retry interval is left alone. *)
OutstandingIfHealthy ==
    /\ backoff = NoBackoff
    /\ \/ \E r \in Rooms : destRooms[r] > lastSent
       \/ outbox # {}

(* Deviation: to-device messages do not count. *)
OutstandingEvents == RetryAllowed /\ \E r \in Rooms : destRooms[r] > lastSent

(* get_catch_up_outstanding_destinations returns the destination. *)
Outstanding ==
    /\ RetryAllowed
    /\ \/ \E r \in Rooms : destRooms[r] > lastSent
       \/ outbox # {}

(* _wake_destinations_needing_catchup, every minute. *)
WakeDestination ==
    /\ Outstanding
    /\ AttemptNewTransaction
    /\ UNCHANGED <<tables, backoff, sender, catchUp, pending, lastDevice, transaction,
                   remote, history, faults>>

(* A to-device message for the destination is stored. *)
AddMessage ==
    /\ messages < MaxMessage
    /\ messages' = messages + 1
    /\ outbox' = outbox \cup {messages'}
    /\ UNCHANGED <<persisted, outPos, destRooms, lastSent, backoff, sender, catchUp,
                   pending, newData, lastDevice, pc, transaction, remote, history, faults>>

--------------------------------------------------------------------------------
(***************************************************************************)
(* FederationSender._process_event_queue_loop.                             *)
(***************************************************************************)

(* A new event of ours, in a room the destination is in.  The notifier      *)
(* tells the sender (notify_new_events), which starts the loop.            *)
Persist ==
    /\ persisted < MaxEvent
    /\ persisted' = persisted + 1
    /\ lastPoked' = persisted'
    /\ UNCHANGED <<outPos, destRooms, lastSent, outbox, messages, backoff, batchTo, stage,
                   catchUp, pending, newData, lastDevice, pc, transaction, remote, history, faults>>

(***************************************************************************)
(* The notifier tells the sender of an event of another room.  Nothing     *)
(* else does: events that were waiting when the sender died go on waiting. *)
(***************************************************************************)
NotifyOther ==
    /\ lastPoked < persisted
    /\ lastPoked' = persisted
    /\ UNCHANGED <<tables, backoff, batchTo, stage, catchUp, pending, newData, lastDevice, pc,
                   transaction, remote, history, faults>>

(* Deviation: the batch ends one past the newest event. *)
StartBatchPast ==
    /\ batchTo = None
    /\ lastPoked > outPos
    /\ batchTo' = lastPoked + 1
    /\ UNCHANGED <<tables, backoff, lastPoked, stage, catchUp, pending, newData, lastDevice, pc,
                   transaction, remote, history, faults>>

(* The loop finds events from the position it has handled up to, to the     *)
(* newest it has been told of.                                             *)
StartBatch ==
    /\ batchTo = None
    /\ lastPoked > outPos
    /\ batchTo' = lastPoked
    /\ UNCHANGED <<tables, backoff, lastPoked, stage, catchUp, pending, newData, lastDevice, pc,
                   transaction, remote, history, faults>>

(* handle_room_events gets to e: the room's earlier events are done. *)
IsNext(e) ==
    /\ e \in (outPos + 1) .. batchTo
    /\ \A f \in (outPos + 1) .. (e - 1) : RoomOf[f] = RoomOf[e] => stage[f] = "handled"

(* The events of the batch before e are among those with a stage in S. *)
EarlierIn(e, S) == \A f \in (outPos + 1) .. (e - 1) : stage[f] \in S

(***************************************************************************)
(* _send_pdu: store_destination_rooms_entries.  It may lower the entry     *)
(* when a batch is handled again after a restart; entries of other rooms   *)
(* that are above it then have overtaken the event.                        *)
(***************************************************************************)
StoreEntry(e) ==
    /\ IsNext(e)
    /\ stage[e] = "new"
    /\ destRooms' = [destRooms EXCEPT ![RoomOf[e]] = e]
    /\ stage' = [stage EXCEPT ![e] = "stored"]
    /\ inOrder' = (/\ inOrder
                   /\ EarlierIn(e, Stages \ {"new"})
                   /\ \A r \in Rooms : destRooms[RoomOf[e]] > e /\ r # RoomOf[e] => destRooms[r] <= e)
    /\ UNCHANGED <<persisted, outPos, lastSent, outbox, messages, backoff, lastPoked, batchTo, catchUp,
                   pending, newData, lastDevice, pc, transaction, remote, known, leftOut, faults>>

(* _send_pdu: filter_destinations_by_retry_limiter keeps the destination. *)
Pass(e) ==
    /\ stage[e] = "stored"
    /\ RetryDueSoon
    /\ stage' = [stage EXCEPT ![e] = "passed"]
    /\ UNCHANGED <<tables, backoff, lastPoked, batchTo, catchUp, pending, newData, lastDevice, pc,
                   transaction, remote, history, faults>>

(* _send_pdu: the destination is left out, its queue hears nothing. *)
FilterOut(e) ==
    /\ stage[e] = "stored"
    /\ ~RetryDueSoon
    /\ stage' = [stage EXCEPT ![e] = "handled"]
    /\ inOrder' = (inOrder /\ EarlierIn(e, {"handled"}))
    /\ leftOut' = IF catchingUp /\ pc # "decide" THEN leftOut ELSE leftOut \cup {e}
    /\ UNCHANGED <<tables, backoff, lastPoked, batchTo, catchUp, pending, newData, lastDevice, pc,
                   transaction, remote, known, faults>>

(***************************************************************************)
(* PerDestinationQueue.send_pdu: queue the event, or leave it to the catch *)
(* up that is going on.                                                    *)
(***************************************************************************)
SendPdu(e) ==
    /\ stage[e] = "passed"
    /\ stage' = [stage EXCEPT ![e] = "handled"]
    /\ IF ~catchingUp \/ lastCached = None
       THEN /\ pending' = Append(pending, e)
            /\ UNCHANGED lastSkipped
       ELSE /\ lastSkipped' = e
            /\ UNCHANGED pending
    /\ AttemptNewTransaction
    /\ inOrder' = (inOrder /\ EarlierIn(e, {"handled"}))
    /\ UNCHANGED <<tables, backoff, lastPoked, batchTo, catchingUp, lastCached, first, found, lastDevice,
                   transaction, remote, known, leftOut, faults>>

(* update_federation_out_pos. *)
FinishBatch ==
    /\ batchTo # None
    /\ \A e \in (outPos + 1) .. batchTo : stage[e] = "handled"
    /\ outPos' = batchTo
    /\ batchTo' = None
    /\ UNCHANGED <<persisted, destRooms, lastSent, outbox, messages, backoff, lastPoked, stage,
                   catchUp, pending, newData, lastDevice, pc, transaction, remote, history, faults>>

--------------------------------------------------------------------------------
(***************************************************************************)
(* _transaction_transmission_loop, up to the end of the catch-up.          *)
(***************************************************************************)

(* _start_catching_up. *)
StartCatchingUp ==
    /\ catchingUp' = TRUE
    /\ pending' = <<>>

(* The loop ends: its local variables are gone. *)
LoopEnds ==
    /\ pc' = "off"
    /\ first' = FALSE
    /\ found' = <<>>
    /\ txn' = <<>>
    /\ edus' = {}
    /\ upTo' = 0

(* NotRetryingDestination, here or in the HTTP client. *)
NotRetrying ==
    /\ pc \in {"limiter", "sending"}
    /\ ~RetryAllowed
    /\ IF backoff.interval = "long" THEN StartCatchingUp
                                    ELSE UNCHANGED <<catchingUp, pending>>
    /\ LoopEnds
    /\ UNCHANGED <<tables, backoff, sender, lastSkipped, lastCached, newData, lastDevice,
                   remote, history, faults>>

Allowed ==
    /\ pc = "limiter"
    /\ RetryAllowed
    /\ first' = (catchingUp /\ lastCached = None)
    /\ pc' = IF ~catchingUp THEN "collect" ELSE IF lastCached = None THEN "load" ELSE "query"
    /\ UNCHANGED <<tables, backoff, sender, catchingUp, lastSkipped, lastCached, found, pending,
                   newData, lastDevice, transaction, remote, history, faults>>

(* get_destination_last_successful_stream_ordering. *)
LoadLastSent ==
    /\ pc = "load"
    /\ lastCached' = lastSent
    /\ catchingUp' = (lastSent # None)
    /\ first' = (lastSent # None)
    /\ pc' = IF lastSent = None THEN "collect" ELSE "query"
    /\ UNCHANGED <<tables, backoff, sender, lastSkipped, found, pending, newData,
                   lastDevice, transaction, remote, history, faults>>

(* get_catch_up_room_event_ids: the oldest of the rooms' newest events. *)
Query ==
    /\ pc = "query"
    /\ \E unsent \in Ascending({destRooms[r] : r \in {q \in Rooms : destRooms[q] > lastCached}}) :
        found' = UpToLimit(unsent)
    /\ pc' = "decide"
    /\ UNCHANGED <<tables, backoff, sender, catchingUp, lastSkipped, lastCached, first,
                   pending, newData, lastDevice, transaction, remote, history, faults>>

(* Nothing found, but an event was skipped meanwhile. *)
QueryAgain ==
    /\ pc = "decide"
    /\ found = <<>>
    /\ lastSkipped > lastCached
    /\ pc' = "query"
    /\ UNCHANGED <<tables, backoff, sender, catchUp, pending, newData, lastDevice, transaction,
                   remote, history, faults>>

(* Deviation: what was skipped meanwhile is not looked at. *)
CaughtUpAtOnce ==
    /\ pc = "decide"
    /\ found = <<>>
    /\ catchingUp' = FALSE
    /\ first' = FALSE
    /\ pc' = "collect"
    /\ UNCHANGED <<tables, backoff, sender, lastSkipped, lastCached, found, pending,
                   newData, lastDevice, transaction, remote, history, faults>>

CaughtUp ==
    /\ pc = "decide"
    /\ found = <<>>
    /\ lastSkipped <= lastCached
    /\ catchingUp' = FALSE
    /\ first' = FALSE
    /\ pc' = "collect"
    /\ UNCHANGED <<tables, backoff, sender, lastSkipped, lastCached, found, pending,
                   newData, lastDevice, transaction, remote, history, faults>>

Behind ==
    /\ pc = "decide"
    /\ found # <<>>
    /\ IF first THEN StartCatchingUp ELSE UNCHANGED <<catchingUp, pending>>
    /\ pc' = "choose"
    /\ UNCHANGED <<tables, backoff, sender, lastSkipped, lastCached, first, found, newData,
                   lastDevice, transaction, remote, history, faults>>

(* The newest event of e's room, its forward extremity. *)
Newest(e) ==
    {f \in Events : /\ f <= persisted /\ RoomOf[f] = RoomOf[e]
                    /\ \A g \in Events : g <= persisted /\ RoomOf[g] = RoomOf[e] => g <= f}

(***************************************************************************)
(* The room's extremities are sent in place of the event, unless the       *)
(* destination may not see them or that cannot be told.                    *)
(***************************************************************************)
ChooseCatchUpPdus ==
    /\ pc = "choose"
    /\ \E e \in {Head(found)} \cup Newest(Head(found)) : txn' = <<e>>
    /\ pc' = "sending"
    /\ UNCHANGED <<tables, backoff, sender, catchUp, pending, newData, lastDevice, edus, upTo,
                   remote, history, faults>>

(* The position in the queue of missed events is that of the original. *)
CatchUpSent ==
    /\ pc = "answered"
    /\ catchingUp
    /\ lastCached' = Head(found)
    /\ txn' = <<>>
    /\ pc' = "recordCatchUp"
    /\ UNCHANGED <<tables, backoff, sender, catchingUp, lastSkipped, first, found, pending,
                   newData, lastDevice, edus, upTo, remote, history, faults>>

(* set_destination_last_successful_stream_ordering. *)
RecordCatchUp ==
    /\ pc = "recordCatchUp"
    /\ lastSent' = lastCached
    /\ found' = Tail(found)
    /\ pc' = IF Tail(found) = <<>> THEN "query" ELSE "choose"
    /\ UNCHANGED <<persisted, outPos, destRooms, outbox, messages, backoff, sender, catchingUp,
                   lastSkipped, lastCached, first, pending, newData, lastDevice, transaction,
                   remote, history, faults>>

--------------------------------------------------------------------------------
(***************************************************************************)
(* The loop proper and _TransactionQueueManager.                           *)
(***************************************************************************)

(* The to-device token is read before the first await. *)
Collect ==
    /\ pc = "collect"
    /\ newData' = FALSE
    /\ upTo' = messages
    /\ pc' = "collecting"
    /\ UNCHANGED <<tables, backoff, sender, catchUp, pending, lastDevice, txn, edus, remote,
                   history, faults>>

(* get_new_device_msgs_for_remote: the oldest messages up to the token. *)
NewMessages ==
    {UpToLimit(new) : new \in Ascending({m \in outbox : lastDevice < m /\ m <= upTo})}

(* Deviation: with nothing to send, the position is the current token. *)
ReadMessagesLate ==
    /\ pc = "collecting"
    /\ \E new \in NewMessages :
        /\ edus' = Range(new)
        /\ upTo' = IF Len(new) = Limit THEN Last(new) ELSE upTo
        /\ lastDevice' = IF new = <<>> THEN messages ELSE lastDevice
    /\ pc' = "collected"
    /\ UNCHANGED <<tables, backoff, sender, catchUp, pending, newData, txn, remote,
                   history, faults>>

(* _get_to_device_message_edus, and what __aenter__ does with the answer. *)
ReadMessages ==
    /\ pc = "collecting"
    /\ \E new \in NewMessages :
        /\ edus' = Range(new)
        /\ upTo' = IF Len(new) = Limit THEN Last(new) ELSE upTo
        /\ lastDevice' = IF new = <<>> THEN upTo ELSE lastDevice
    /\ pc' = "collected"
    /\ UNCHANGED <<tables, backoff, sender, catchUp, pending, newData, txn, remote,
                   history, faults>>

NothingToSend ==
    /\ pc = "collected"
    /\ pending = <<>> /\ edus = {}
    /\ IF newData THEN pc' = "collect" /\ UNCHANGED <<first, found, txn, edus, upTo>> ELSE LoopEnds
    /\ UNCHANGED <<tables, backoff, sender, catchingUp, lastSkipped, lastCached, pending,
                   newData, lastDevice, remote, history, faults>>

SendTransaction ==
    /\ pc = "collected"
    /\ pending # <<>> \/ edus # {}
    /\ txn' = UpToLimit(pending)
    /\ pc' = "sending"
    /\ UNCHANGED <<tables, backoff, sender, catchUp, pending, newData, lastDevice, edus, upTo,
                   remote, history, faults>>

(* The destination gets the transaction; its answer may still be lost. *)
Deliver ==
    /\ pc = "sending"
    /\ received' = received \cup Range(txn)
    /\ delivered' = delivered \cup edus
    /\ pc' = "answered"
    /\ UNCHANGED <<tables, backoff, sender, catchUp, pending, newData, lastDevice, transaction,
                   history, faults>>

(* What is left to do after the messages are dealt with. *)
AfterMessages == IF txn = <<>> THEN "collect" ELSE "recording"

(* __aexit__: take the PDUs off the queue ... *)
TransactionSent ==
    /\ pc = "answered"
    /\ ~catchingUp
    /\ pending' = SubSeq(pending, Len(txn) + 1, Len(pending))
    /\ pc' = IF edus = {} THEN AfterMessages ELSE "deleting"
    /\ UNCHANGED <<tables, backoff, sender, catchUp, newData, lastDevice, transaction, remote,
                   history, faults>>

(* ... delete_device_msgs_for_remote ... *)
DeleteMessages ==
    /\ pc = "deleting"
    /\ outbox' = {m \in outbox : m > upTo}
    /\ lastDevice' = upTo
    /\ edus' = {}
    /\ pc' = AfterMessages
    /\ UNCHANGED <<persisted, outPos, destRooms, lastSent, messages, backoff, sender,
                   catchUp, pending, newData, txn, upTo, remote, history, faults>>

(* ... and set_destination_last_successful_stream_ordering, whose cached   *)
(* value is not updated.                                                   *)
RecordSent ==
    /\ pc = "recording"
    /\ lastSent' = Last(txn)
    /\ txn' = <<>>
    /\ pc' = "collect"
    /\ UNCHANGED <<persisted, outPos, destRooms, outbox, messages, backoff, sender, catchUp,
                   pending, newData, lastDevice, edus, upTo, remote, history, faults>>

(* An await of the loop raises: the request fails or the database does. *)
LoopFails ==
    /\ pc \notin {"off", "decide", "collect", "collected"}
    /\ faults.failures < MaxFailures
    /\ faults' = [faults EXCEPT !.failures = @ + 1]
    /\ LoopEnds
    /\ UNCHANGED <<tables, backoff, sender, catchingUp, lastSkipped, lastCached, pending,
                   newData, lastDevice, remote, history>>

--------------------------------------------------------------------------------
(***************************************************************************)
(* Back-off, time and crashes.                                             *)
(***************************************************************************)

(***************************************************************************)
(* RetryDestinationLimiter.__exit__ of a failed request to the             *)
(* destination, of this loop or of anybody else: min_retry_interval first, *)
(* then a multiple of the interval.                                        *)
(***************************************************************************)
BackoffGrows ==
    /\ RetryAllowed
    /\ faults.backoffs < MaxBackoffs
    /\ faults' = [faults EXCEPT !.backoffs = @ + 1]
    /\ \E interval \in {"short", "long"} :
        /\ backoff.interval = "none" => interval = "short"
        /\ backoff.interval = "long" => interval = "long"
        /\ backoff' = [interval |-> interval,
                       due |-> IF interval = "short" THEN "soon" ELSE "later"]
    /\ UNCHANGED <<tables, sender, catchUp, pending, newData, lastDevice, pc, transaction,
                   remote, history>>

(* The same of a successful one, or a request from the destination. *)
BackoffClears ==
    /\ backoff # NoBackoff
    /\ backoff' = NoBackoff
    /\ UNCHANGED <<tables, sender, catchUp, pending, newData, lastDevice, pc, transaction,
                   remote, history, faults>>

TimePasses ==
    /\ ~RetryAllowed
    /\ backoff' = [backoff EXCEPT !.due = IF @ = "later" THEN "soon" ELSE "over"]
    /\ UNCHANGED <<tables, sender, catchUp, pending, newData, lastDevice, pc, transaction,
                   remote, history, faults>>

(* The sender's process dies and starts again. *)
Crash ==
    /\ faults.crashes < MaxCrashes
    /\ faults' = [faults EXCEPT !.crashes = @ + 1]
    /\ lastPoked' = None
    /\ batchTo' = None
    /\ stage' = [e \in Events |-> IF e <= outPos THEN stage[e] ELSE "new"]
    /\ catchingUp' = TRUE
    /\ lastSkipped' = None
    /\ lastCached' = None
    /\ pending' = <<>>
    /\ newData' = FALSE
    /\ lastDevice' = 0
    /\ LoopEnds
    /\ UNCHANGED <<tables, backoff, remote, history>>

Handle == StartBatch \/ FinishBatch \/ \E e \in Events : StoreEntry(e) \/ Pass(e) \/ FilterOut(e) \/ SendPdu(e)

Loop ==
    \/ NotRetrying \/ Allowed \/ LoadLastSent \/ Query \/ QueryAgain \/ CaughtUp \/ Behind
    \/ ChooseCatchUpPdus \/ CatchUpSent \/ RecordCatchUp
    \/ Collect \/ ReadMessages \/ NothingToSend \/ SendTransaction \/ Deliver
    \/ TransactionSent \/ DeleteMessages \/ RecordSent

Next ==
    \/ Persist \/ NotifyOther \/ AddMessage \/ Poke \/ WakeDestination
    \/ Handle \/ Loop \/ LoopFails
    \/ BackoffGrows \/ BackoffClears \/ TimePasses \/ Crash

Spec == Init /\ [][Next]_vars

(***************************************************************************)
(* The database and the destination answer, the reactor runs what follows, *)
(* time passes and the waker runs every minute.  Nothing has to fail, to   *)
(* be written or to poke the queue.                                        *)
(***************************************************************************)
Fairness ==
    /\ WF_sender(Handle)
    /\ WF_pc(Loop)
    /\ WF_backoff(TimePasses)
    /\ WF_<<pc, newData>>(WakeDestination)

FairSpec == Spec /\ Fairness

--------------------------------------------------------------------------------
(* Every variable has its type. *)
TypeOK ==
    /\ persisted \in Start .. MaxEvent
    /\ outPos \in Start .. MaxEvent
    /\ destRooms \in [Rooms -> Events \cup {None}]
    /\ lastSent \in Events \cup {None, Start}
    /\ outbox \subseteq Messages
    /\ messages \in 0 .. MaxMessage
    /\ backoff \in Backoffs
    /\ lastPoked \in None .. MaxEvent
    /\ batchTo \in Events \cup {None}
    /\ stage \in [Events -> Stages]
    /\ catchingUp \in BOOLEAN
    /\ lastSkipped \in Events \cup {None}
    /\ lastCached \in Events \cup {None, Start}
    /\ pending \in Seq(Events)
    /\ newData \in BOOLEAN
    /\ lastDevice \in 0 .. MaxMessage
    /\ pc \in PcValues
    /\ first \in BOOLEAN
    /\ found \in Seq(Events)
    /\ txn \in Seq(Events)
    /\ edus \subseteq Messages
    /\ upTo \in 0 .. MaxMessage
    /\ received \subseteq Events
    /\ delivered \subseteq Messages
    /\ known \in BOOLEAN
    /\ inOrder \in BOOLEAN
    /\ leftOut \subseteq Events
    /\ faults \in [failures : 0 .. MaxFailures, backoffs : 0 .. MaxBackoffs,
                   crashes : 0 .. MaxCrashes]

(* The destination has the event, or a later one of its room from which it *)
(* can fetch it.                                                           *)
Reached(e) == \E f \in received : RoomOf[f] = RoomOf[e] /\ f >= e

(* A catch-up will find the event's room. *)
Findable(e) ==
    LET entry == destRooms[RoomOf[e]]
    IN  /\ catchingUp
        /\ entry >= e
        /\ entry > (IF lastCached = None THEN lastSent ELSE lastCached)

(* It, or a later event of its room, is queued. *)
Queued(e) == \E f \in Range(pending) : RoomOf[f] = RoomOf[e] /\ f >= e

(* It, or a later event of its room, was left out. *)
Missed(e) == \E f \in leftOut : RoomOf[f] = RoomOf[e] /\ f >= e

Accounted(e) == Reached(e) \/ Queued(e) \/ Findable(e)

(***************************************************************************)
(* An event that has been handled for a known destination has reached it,  *)
(* is queued, or is where a catch-up finds it, whatever crashes, fails or  *)
(* is skipped in between.  Excepted are an event that was left out because *)
(* of the back-off while its queue was not looking for missed events, and  *)
(* everything once events of two rooms have overtaken each other, in one   *)
(* batch or across a restart in the middle of it.                          *)
(***************************************************************************)
NoLoss ==
    known /\ inOrder => \A e \in Events : e <= outPos => Accounted(e) \/ Missed(e)

(***************************************************************************)
(* The same although events overtake each other: an event at or below      *)
(* last_successful_stream_ordering has been sent (docstring of             *)
(* set_destination_last_successful_stream_ordering), and one above it is   *)
(* found.                                                                  *)
(***************************************************************************)
NoLossAnyOrder ==
    known => \A e \in Events : e <= outPos => Accounted(e) \/ Missed(e)

(***************************************************************************)
(* A to-device message stays in device_federation_outbox until the         *)
(* destination has it, although messages are added while others are sent   *)
(* and deleted, and the transaction may fail at any point.                 *)
(***************************************************************************)
MessagesKept == \A m \in 1 .. messages : m \in outbox \/ m \in delivered

(* The sender gets to the event: it has handled it, or has been told of it *)
(* since it started.                                                       *)
InReach(e) == e <= outPos \/ e <= lastPoked

(***************************************************************************)
(* Every event that the sender gets to reaches a known destination, with   *)
(* the same exceptions, after crashes, failed transactions and back-offs;  *)
(* unless the sender dies before it has handled the event, which then      *)
(* waits for the next event of any room.                                   *)
(***************************************************************************)
EventsDelivered ==
    \A e \in Events :
        (known /\ InReach(e)) ~> (Reached(e) \/ Missed(e) \/ ~inOrder \/ ~InReach(e))

(* So does every to-device message, to any destination. *)
MessagesDelivered == \A m \in Messages : m \in outbox ~> m \in delivered
================================================================================
