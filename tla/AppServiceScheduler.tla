-------------------------- MODULE AppServiceScheduler --------------------------
(***************************************************************************)
(* Delivery of events to application services: the poller that follows the *)
(* event stream (ApplicationServicesHandler), the per-service queuer, the  *)
(* transaction controller and the recoverer (appservice/scheduler.py).     *)
(*                                                                         *)
(* Every await is a step of its own, a database call together with what    *)
(* follows it: what a task read before an await may be stale after it.  A  *)
(* failed send is dealt with by a task in the background, of which several *)
(* may be under way.  Queues and tasks are in memory and are lost with the *)
(* process; the poller's position, the services' states and the            *)
(* transactions are in the database.                                       *)
(***************************************************************************)
EXTENDS Naturals, Sequences, FiniteSets

CONSTANTS
    Services,       \* application services, all interested in every event, of one room
    MaxEvent,       \* bound on the events of the stream
    PerTransaction, \* MAX_PERSISTENT_EVENTS_PER_TRANSACTION
    MaxFaults,      \* bound on the failures of sends and of the database
    MaxRestarts     \* bound on the restarts of the process

(* The bounds are numbers, and a transaction holds something. *)
SchedulerAssumption ==
    /\ {MaxEvent, MaxFaults, MaxRestarts} \subseteq Nat
    /\ PerTransaction \in Nat \ {0}

VARIABLES
    stream,         \* the last event persisted
    pos,            \* appservice_stream_position
    poller,         \* _notify_interested_services; due: current_max was raised for it
    started,        \* start(): "no", "reading" or "done"
    queue,          \* queued_events
    sender,         \* _send_request and the send() it awaits
    state,          \* application_services_state: TRUE is UP or not yet known
    txns,           \* application_services_txns: id -> events
    lastTxn,        \* the sequence of transaction ids
    failing,        \* _on_txn_fail tasks about to set DOWN
    recoverer,      \* the recoverer; popped: it is no longer in self.recoverers
    raising,        \* on_recovered tasks about to set UP
    delivered,      \* the events the service has got; late: those of them that it
                    \* first got after a later one
    stranded,       \* history: services with a transaction nobody looks after
    disturbed,      \* history: a lost event or a transaction sent beside a failure
    spent           \* faults and restarts so far

storage == <<stream, pos, state, txns, lastTxn>>
service == <<queue, sender, failing, recoverer, raising>>
vars == <<storage, service, poller, started, delivered, stranded, disturbed, spent>>

IdlePoller == [due |-> FALSE, busy |-> FALSE, upto |-> 0, todo |-> <<>>]
NoSender == [at |-> "none", events |-> <<>>, up |-> FALSE, txn |-> 0]
NoRecoverer == [at |-> "none", txn |-> 0, popped |-> FALSE]

Init ==
    /\ stream = 0
    /\ pos = 0
    /\ poller = IdlePoller
    /\ started = "no"
    /\ queue = [s \in Services |-> <<>>]
    /\ sender = [s \in Services |-> NoSender]
    /\ state = [s \in Services |-> TRUE]
    /\ txns = [s \in Services |-> {}]
    /\ lastTxn = 0
    /\ failing = [s \in Services |-> 0]
    /\ recoverer = [s \in Services |-> NoRecoverer]
    /\ raising = [s \in Services |-> 0]
    /\ delivered = [s \in Services |-> [got |-> {}, late |-> {}]]
    /\ stranded = {}
    /\ disturbed = {}
    /\ spent = [faults |-> 0, restarts |-> 0]

Fault ==
    /\ spent.faults < MaxFaults
    /\ spent' = [spent EXCEPT !.faults = @ + 1]

Got(s) == delivered[s].got

EventsOf(events) == {events[i] : i \in DOMAIN events}

(* What the service has got when it reads the i-th of the events. *)
Before(s, events, i) == Got(s) \cup {events[j] : j \in 1 .. i - 1}

(* What is new to the service although it has got a later event. *)
Late(s, events) ==
    {events[i] : i \in {j \in DOMAIN events :
        /\ events[j] \notin Before(s, events, j)
        /\ \E e \in Before(s, events, j) : e > events[j]}}

(* The service gets the events of a transaction, in their order. *)
Deliver(s, events) ==
    delivered' = [delivered EXCEPT ![s] = [got  |-> @.got \cup EventsOf(events),
                                           late |-> @.late \cup Late(s, events)]]

(* Deviation: the query lacks its order. *)
Newest(s) == CHOOSE t \in txns[s] : \A u \in txns[s] : t.id >= u.id
Oldest(s) == CHOOSE t \in txns[s] : \A u \in txns[s] : t.id <= u.id

(* service.id in self.recoverers *)
HasRecoverer(s) == recoverer[s].at # "none" /\ ~recoverer[s].popped
Waiting == [NoRecoverer EXCEPT !.at = "wait"]
------------------------------------------------------------------------------
(* The event stream and the poller. *)

(* An event is persisted, and notify_interested_services is called: nothing *)
(* else starts the poller, not even a start of the process.                 *)
PersistEvent ==
    /\ stream < MaxEvent
    /\ stream' = stream + 1
    /\ poller' = [poller EXCEPT !.due = TRUE]
    /\ UNCHANGED <<pos, state, txns, lastTxn, service, started>>
    /\ UNCHANGED <<delivered, stranded, disturbed, spent>>

(* The events after the stored position. *)
Fetched == [due |-> FALSE, busy |-> TRUE, upto |-> stream,
            todo |-> [i \in 1 .. stream - pos |-> pos + i]]

(* Deviation: the position is stored when the events were fetched. *)
FetchEventsAndSave ==
    /\ poller.due /\ ~poller.busy
    /\ poller' = Fetched
    /\ pos' = stream
    /\ UNCHANGED <<stream, state, txns, lastTxn>>
    /\ UNCHANGED <<service, started, delivered, stranded, disturbed, spent>>

(* Deviation: the last event waits for another one. *)
FetchEventsButLast ==
    /\ poller.due /\ ~poller.busy
    /\ pos + 1 < stream
    /\ poller' = Fetched
    /\ UNCHANGED <<storage, service, started, delivered, stranded, disturbed, spent>>

(* _notify_interested_services, or the next round of its loop. *)
FetchEvents ==
    /\ poller.due /\ ~poller.busy
    /\ poller' = Fetched
    /\ UNCHANGED <<storage, service, started, delivered, stranded, disturbed, spent>>

(* _send_request with q queued: the next batch, or the end of the loop. *)
NextBatch(q) ==
    IF q = <<>> THEN NoSender
    ELSE [NoSender EXCEPT !.at = "check",
                          !.events = IF Len(q) <= PerTransaction THEN q
                                     ELSE SubSeq(q, 1, PerTransaction)]
AfterBatch(q) ==
    IF Len(q) <= PerTransaction THEN <<>> ELSE SubSeq(q, PerTransaction + 1, Len(q))

(* handle_event: the first one starts the scheduler; the services without   *)
(* a request in flight get one, which takes the event at once.              *)
HandleEvent ==
    LET e == Head(poller.todo)
        idle(s) == sender[s].at = "none"
    IN  /\ poller.busy /\ poller.todo # <<>>
        /\ poller' = [poller EXCEPT !.todo = Tail(@)]
        /\ started' = IF started = "no" THEN "reading" ELSE started
        /\ sender' = [s \in Services |-> IF idle(s) THEN NextBatch(<<e>>) ELSE sender[s]]
        /\ queue' = [s \in Services |-> IF idle(s) THEN queue[s] ELSE Append(queue[s], e)]
        /\ UNCHANGED <<storage, failing, recoverer, raising>>
        /\ UNCHANGED <<delivered, stranded, disturbed, spent>>

SavePosition ==
    /\ poller.busy /\ poller.todo = <<>>
    /\ poller' = [IdlePoller EXCEPT !.due = poller.due]
    /\ pos' = poller.upto
    /\ UNCHANGED <<stream, state, txns, lastTxn, service, started>>
    /\ UNCHANGED <<delivered, stranded, disturbed, spent>>

(* The poller raises: what it had queued is queued again some day. *)
PollerFails ==
    /\ poller.busy
    /\ Fault
    /\ poller' = IdlePoller
    /\ UNCHANGED <<storage, service, started, delivered, stranded, disturbed>>
------------------------------------------------------------------------------
(* start(): recoverers for the services that were left DOWN. *)

(* start_recoverer asserts that there is none yet; where there is one, the  *)
(* services after it in the list are left without.                          *)
StartRecoverers(begun) ==
    LET down == {s \in Services : ~state[s]}
        busy == {s \in down : HasRecoverer(s)}
    IN  /\ started = "reading"
        /\ begun \subseteq down \ busy
        /\ busy = {} => begun = down
        /\ started' = "done"
        /\ recoverer' = [s \in Services |->
                           IF s \in begun THEN Waiting ELSE recoverer[s]]
        /\ stranded' = stranded \cup (down \ (begun \cup busy))
        /\ UNCHANGED <<storage, queue, sender, failing, raising, poller, delivered, disturbed, spent>>

(* "Application Services Failure" *)
StartFails ==
    /\ started = "reading"
    /\ Fault
    /\ started' = "done"
    /\ stranded' = stranded \cup {s \in Services : ~state[s] /\ ~HasRecoverer(s)}
    /\ UNCHANGED <<storage, service, poller, delivered, disturbed>>
------------------------------------------------------------------------------
(* send() for the batch that _send_request took. *)

Unchanged == UNCHANGED <<stream, pos, poller, started>>

(* send() returned: the loop takes what was queued meanwhile. *)
LoopOn(s) ==
    /\ sender' = [sender EXCEPT ![s] = NextBatch(queue[s])]
    /\ queue' = [queue EXCEPT ![s] = AfterBatch(@)]

(* run_in_background(self._on_txn_fail, service) *)
OnTxnFail(s) == failing' = [failing EXCEPT ![s] = @ + 1]

(* _is_service_up.  A failed transaction that is not recorded yet is not    *)
(* seen.                                                                    *)
CheckUp(s) ==
    /\ sender[s].at = "check"
    /\ sender' = [sender EXCEPT ![s].at = "create", ![s].up = state[s]]
    /\ disturbed' = disturbed \cup (IF state[s] /\ failing[s] > 0 THEN {"race"} ELSE {})
    /\ UNCHANGED <<state, txns, lastTxn, queue, failing, recoverer, raising>>
    /\ Unchanged /\ UNCHANGED <<delivered, stranded, spent>>

(* A transaction for a service that is DOWN is left to the recoverer, which *)
(* may have found nothing left and be gone.                                 *)
CreateTxn(s) ==
    /\ sender[s].at = "create"
    /\ lastTxn' = lastTxn + 1
    /\ txns' = [txns EXCEPT ![s] = @ \cup {[id |-> lastTxn', events |-> sender[s].events]}]
    /\ IF sender[s].up
         THEN /\ sender' = [sender EXCEPT ![s].at = "send", ![s].txn = lastTxn']
              /\ UNCHANGED <<queue, stranded>>
         ELSE /\ LoopOn(s)
              /\ stranded' = stranded \cup
                   (IF recoverer[s].at = "none" /\ (state[s] \/ raising[s] > 0) THEN {s} ELSE {})
    /\ UNCHANGED <<state, failing, recoverer, raising>>
    /\ Unchanged /\ UNCHANGED <<delivered, disturbed, spent>>

Send(s) ==
    /\ sender[s].at = "send"
    /\ Deliver(s, sender[s].events)
    /\ sender' = [sender EXCEPT ![s].at = "complete"]
    /\ UNCHANGED <<state, txns, lastTxn, queue, failing, recoverer, raising>>
    /\ Unchanged /\ UNCHANGED <<stranded, disturbed, spent>>

(* push_bulk returned False; the service may have got the events. *)
SendFails(s) ==
    /\ sender[s].at = "send"
    /\ Fault
    /\ Deliver(s, sender[s].events) \/ UNCHANGED delivered
    /\ OnTxnFail(s)
    /\ LoopOn(s)
    /\ UNCHANGED <<state, txns, lastTxn, recoverer, raising>>
    /\ Unchanged /\ UNCHANGED <<stranded, disturbed>>

WithoutTxn(s, id) == [txns EXCEPT ![s] = {t \in @ : t.id # id}]

Complete(s) ==
    /\ sender[s].at = "complete"
    /\ txns' = WithoutTxn(s, sender[s].txn)
    /\ LoopOn(s)
    /\ UNCHANGED <<state, lastTxn, failing, recoverer, raising>>
    /\ Unchanged /\ UNCHANGED <<delivered, stranded, disturbed, spent>>

(* A database call of send() raises.  Before the transaction is stored that *)
(* loses its events.                                                        *)
SenderFails(s) ==
    /\ sender[s].at \in {"check", "create", "complete"}
    /\ Fault
    /\ OnTxnFail(s)
    /\ LoopOn(s)
    /\ disturbed' = disturbed \cup (IF sender[s].at = "complete" THEN {} ELSE {"lost"})
    /\ UNCHANGED <<state, txns, lastTxn, recoverer, raising>>
    /\ Unchanged /\ UNCHANGED <<delivered, stranded>>
------------------------------------------------------------------------------
(* _on_txn_fail and the recoverer. *)

(* The service is marked DOWN and gets a recoverer; the assertion that it   *)
(* has none yet fails without effect.  (A recoverer that was popped and     *)
(* goes on beside the new one does what that one does.)                     *)
MarkDown(s) ==
    /\ failing[s] > 0
    /\ failing' = [failing EXCEPT ![s] = @ - 1]
    /\ state' = [state EXCEPT ![s] = FALSE]
    /\ recoverer' = IF HasRecoverer(s) THEN recoverer ELSE [recoverer EXCEPT ![s] = Waiting]
    /\ UNCHANGED <<txns, lastTxn, queue, sender, raising>>
    /\ Unchanged /\ UNCHANGED <<delivered, stranded, disturbed, spent>>

(* "Error starting AS recoverer" *)
MarkDownFails(s) ==
    /\ failing[s] > 0
    /\ Fault
    /\ failing' = [failing EXCEPT ![s] = @ - 1]
    /\ stranded' = stranded \cup {s}
    /\ UNCHANGED <<state, txns, lastTxn, queue, sender, recoverer, raising>>
    /\ Unchanged /\ UNCHANGED <<delivered, disturbed>>

(* The back-off is over.  A recoverer that was popped finds something to do *)
(* or, as below, backs off again.                                           *)
Retry(s) ==
    /\ recoverer[s].at = "wait"
    /\ recoverer[s].popped => txns[s] # {}
    /\ recoverer' = [recoverer EXCEPT ![s].at = "get"]
    /\ UNCHANGED <<state, txns, lastTxn, queue, sender, failing, raising>>
    /\ Unchanged /\ UNCHANGED <<delivered, stranded, disturbed, spent>>

(* Deviation: one transaction is retried, then the service counts as UP. *)
GetOldestOnce(s) ==
    /\ recoverer[s].at = "get"
    /\ IF txns[s] = {} \/ recoverer[s].txn # 0
         THEN /\ recoverer' = [recoverer EXCEPT ![s] = NoRecoverer]
              /\ raising' = [raising EXCEPT ![s] = @ + 1]
         ELSE /\ recoverer' = [recoverer EXCEPT ![s].at = "send", ![s].txn = Oldest(s).id]
              /\ UNCHANGED raising
    /\ UNCHANGED <<state, txns, lastTxn, queue, sender, failing>>
    /\ Unchanged /\ UNCHANGED <<delivered, stranded, disturbed, spent>>

(* get_oldest_unsent_txn.  With none left on_recovered pops the recoverer   *)
(* at once and marks the service UP later; one that was popped before       *)
(* raises (KeyError) and backs off.                                         *)
GetOldest(s) ==
    /\ recoverer[s].at = "get"
    /\ IF txns[s] = {} /\ HasRecoverer(s)
         THEN /\ recoverer' = [recoverer EXCEPT ![s] = NoRecoverer]
              /\ raising' = [raising EXCEPT ![s] = @ + 1]
         ELSE /\ recoverer' = IF txns[s] = {} THEN [recoverer EXCEPT ![s].at = "wait"]
                              ELSE [recoverer EXCEPT ![s].at = "send", ![s].txn = Oldest(s).id]
              /\ UNCHANGED raising
    /\ UNCHANGED <<state, txns, lastTxn, queue, sender, failing>>
    /\ Unchanged /\ UNCHANGED <<delivered, stranded, disturbed, spent>>

(* A transaction that the sender completed meanwhile brings nothing new. *)
Redeliver(s) ==
    IF \E t \in txns[s] : t.id = recoverer[s].txn
      THEN \E t \in txns[s] : t.id = recoverer[s].txn /\ Deliver(s, t.events)
      ELSE UNCHANGED delivered

Resend(s) ==
    /\ recoverer[s].at = "send"
    /\ Redeliver(s)
    /\ recoverer' = [recoverer EXCEPT ![s].at = "complete"]
    /\ UNCHANGED <<state, txns, lastTxn, queue, sender, failing, raising>>
    /\ Unchanged /\ UNCHANGED <<stranded, disturbed, spent>>

CompleteResent(s) ==
    /\ recoverer[s].at = "complete"
    /\ txns' = WithoutTxn(s, recoverer[s].txn)
    /\ recoverer' = [recoverer EXCEPT ![s].at = "get"]
    /\ UNCHANGED <<state, lastTxn, queue, sender, failing, raising>>
    /\ Unchanged /\ UNCHANGED <<delivered, stranded, disturbed, spent>>

(* A send or a database call of retry fails: back off. *)
RetryFails(s) ==
    /\ recoverer[s].at \in {"get", "send", "complete"}
    /\ Fault
    /\ (recoverer[s].at = "send" /\ Redeliver(s)) \/ UNCHANGED delivered
    /\ recoverer' = [recoverer EXCEPT ![s].at = "wait", ![s].txn = 0]
    /\ UNCHANGED <<state, txns, lastTxn, queue, sender, failing, raising>>
    /\ Unchanged /\ UNCHANGED <<stranded, disturbed>>

(* The end of on_recovered, perhaps after another recoverer was started. *)
MarkUp(s) ==
    /\ raising[s] > 0
    /\ state' = [state EXCEPT ![s] = TRUE]
    /\ raising' = [raising EXCEPT ![s] = @ - 1]
    /\ disturbed' = disturbed \cup (IF recoverer[s].at # "none" \/ raising[s] > 1 THEN {"race"} ELSE {})
    /\ UNCHANGED <<txns, lastTxn, queue, sender, failing, recoverer>>
    /\ Unchanged /\ UNCHANGED <<delivered, stranded, spent>>

(* It fails: the recoverer backs off, although it was popped. *)
MarkUpFails(s) ==
    /\ raising[s] > 0
    /\ Fault
    /\ raising' = [raising EXCEPT ![s] = @ - 1]
    /\ recoverer' = IF HasRecoverer(s) THEN recoverer
                    ELSE [recoverer EXCEPT ![s] = [Waiting EXCEPT !.popped = TRUE]]
    /\ UNCHANGED <<state, txns, lastTxn, queue, sender, failing>>
    /\ Unchanged /\ UNCHANGED <<delivered, stranded, disturbed>>
------------------------------------------------------------------------------
(* Events that only memory holds: queued, or taken and not yet stored. *)
InMemory(s) ==
    EventsOf(queue[s]) \cup
        (IF sender[s].at \in {"check", "create"} THEN EventsOf(sender[s].events) ELSE {})

InTxns(s) == UNION {EventsOf(t.events) : t \in txns[s]}

(* The process ends and starts again.  A service that is not marked DOWN    *)
(* gets no recoverer for the transactions it has.                           *)
Restart ==
    /\ spent.restarts < MaxRestarts
    /\ spent' = [spent EXCEPT !.restarts = @ + 1]
    /\ poller' = IdlePoller
    /\ started' = "no"
    /\ queue' = [s \in Services |-> <<>>]
    /\ sender' = [s \in Services |-> NoSender]
    /\ failing' = [s \in Services |-> 0]
    /\ recoverer' = [s \in Services |-> NoRecoverer]
    /\ raising' = [s \in Services |-> 0]
    /\ stranded' = stranded \cup {s \in Services : state[s] /\ txns[s] # {}}
    /\ disturbed' = disturbed \cup
         (IF \E s \in Services : \E e \in InMemory(s) : e <= pos THEN {"lost"} ELSE {})
    /\ UNCHANGED <<storage, delivered>>

PollerStep ==
    \/ FetchEvents \/ HandleEvent \/ SavePosition
    \/ \E begun \in SUBSET Services : StartRecoverers(begun)
ServiceStep(s) ==
    \/ CheckUp(s) \/ CreateTxn(s) \/ Send(s) \/ Complete(s)
    \/ MarkDown(s)
    \/ Retry(s) \/ GetOldest(s) \/ Resend(s) \/ CompleteResent(s) \/ MarkUp(s)
ServiceFault(s) == SendFails(s) \/ SenderFails(s) \/ MarkDownFails(s) \/ RetryFails(s) \/ MarkUpFails(s)

Step == PollerStep \/ \E s \in Services : ServiceStep(s)

Next ==
    \/ PersistEvent
    \/ Step
    \/ PollerFails \/ StartFails
    \/ \E s \in Services : ServiceFault(s)
    \/ Restart

Spec == Init /\ [][Next]_vars

(* The reactor runs what is ready: requests end, timers fire. *)
FairSpec == Spec /\ WF_vars(Step)
------------------------------------------------------------------------------
(* Types of the variables (the scheduler's maps and its tables). *)
TypeOK ==
    /\ stream \in 0 .. MaxEvent /\ pos \in 0 .. stream
    /\ {poller.due, poller.busy} \subseteq BOOLEAN /\ poller.upto \in 0 .. stream
    /\ EventsOf(poller.todo) \subseteq 1 .. stream
    /\ started \in {"no", "reading", "done"}
    /\ lastTxn \in Nat
    /\ \A s \in Services :
         /\ EventsOf(queue[s]) \cup EventsOf(sender[s].events) \cup InTxns(s) \subseteq 1 .. stream
         /\ sender[s].at \in {"none", "check", "create", "send", "complete"}
         /\ sender[s].at = "none" => queue[s] = <<>>
         /\ state[s] \in BOOLEAN
         /\ \A t \in txns[s] : t.id \in 1 .. lastTxn
         /\ recoverer[s].at \in {"none", "wait", "get", "send", "complete"}
         /\ failing[s] \in Nat /\ raising[s] \in Nat
    /\ stranded \subseteq Services
    /\ disturbed \subseteq {"race", "lost"}
    /\ spent \in [faults : 0 .. MaxFaults, restarts : 0 .. MaxRestarts]

(* An event below the stored position was delivered, is stored in a         *)
(* transaction or waits in memory, for every service, unless a restart or a *)
(* failed insert lost it: set_appservice_last_pos comes after the events    *)
(* were queued.                                                             *)
Accounted ==
    "lost" \notin disturbed =>
        \A s \in Services : 1 .. pos \subseteq Got(s) \cup InTxns(s) \cup InMemory(s)

(* A transaction left in the database is looked after: it is being sent, a  *)
(* failure is being dealt with, a recoverer runs, or start() will start one *)
(* (scheduler.py: "FAILURE : Marked AS as DOWN and start Recoverer").       *)
LookedAfter ==
    \A s \in Services \ stranded : txns[s] # {} =>
        \/ sender[s].at \in {"send", "complete"}
        \/ failing[s] > 0
        \/ recoverer[s].at # "none"
        \/ ~state[s] /\ started # "done"

(* A service gets the events of the stream in order, through failures,      *)
(* recoveries and restarts, unless a batch was checked before an earlier    *)
(* one's failure was recorded, the end of one recovery marked it UP during  *)
(* another, or an earlier transaction was stranded ("Get oldest txn ID      *)
(* from DB and try to send it").                                            *)
InOrder ==
    disturbed = {} => \A s \in Services \ stranded : delivered[s].late = {}

(* After a restart or a failed poll, the next event wakes the poller and    *)
(* starts the recoverers.                                                   *)
Asleep == ~poller.due /\ ~poller.busy /\ (pos < stream \/ started = "no")

(* In the end every service has got every event, unless some were lost, the *)
(* service is stranded, or nothing happened since a restart or a failure of *)
(* the poller (notify_interested_services, the recoverer's retries).        *)
EventsReach ==
    \A s \in Services :
        <>[](\/ 1 .. stream \subseteq Got(s)
             \/ "lost" \in disturbed
             \/ s \in stranded
             \/ Asleep)
==============================================================================
