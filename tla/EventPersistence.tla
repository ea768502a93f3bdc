----------------------------- MODULE EventPersistence -----------------------------
(***************************************************************************)
(* Persisting the events of one room (storage/controllers/persist_events   *)
(* and the event tables of databases/main/events).                         *)
(*                                                                         *)
(* Calls to persist_events queue tasks; a task may be merged into the last *)
(* one of the queue.  One loop takes the tasks in turn: it looks up which  *)
(* events repeat a client's transaction, and for each chunk works out the  *)
(* new forward extremities from what the database holds, an await before   *)
(* the transaction that writes them with the events.                       *)
(*                                                                         *)
(* An event arrives as an outlier (an event outside the room's graph, kept *)
(* for its content), by backfill, or as a new event, which may soft-fail.  *)
(* The graph of the room, what is rejected, and who submits when, is the   *)
(* rest of the world's choice.  Rooms are so young here that               *)
(* _prune_extremities drops nothing (it wants a depth of 20 between), and  *)
(* the server stays in the room.                                           *)
(***************************************************************************)
EXTENDS Naturals, Sequences, FiniteSets, SequencesExt

CONSTANTS
    MaxEvent,       \* the events of the room are 1 .. MaxEvent
    Known,          \* its extremities at first, whose history is left out
    Graphs,         \* possible graphs of the room: the prev events of every event
    Sends,          \* possible sets of events that a client makes with one transaction ID
    ChunkSizes,     \* how many events of a task may be written at once
    MaxRejected,    \* bound on the rejected events
    MaxSubmitted,   \* bound on the calls
    MaxFaults       \* bound on failed transactions and restarts

Events == 1 .. MaxEvent
Loops == 1 .. 2

(* The ID of an event is a hash that covers the IDs of its prev events, so  *)
(* that a graph has no cycle and its events can be numbered upwards.  What  *)
(* comes before the first extremities is left out.                          *)
ASSUME RoomAssumption ==
    /\ MaxEvent \in Nat
    /\ Known \subseteq Events
    /\ \A g \in Graphs : /\ g \in [Events -> SUBSET Events]
                         /\ \A e \in Events : g[e] \subseteq 1 .. e - 1
                         /\ \A e \in Known : g[e] = {}
    /\ Sends \subseteq SUBSET (Events \ Known)
    /\ ChunkSizes \subseteq Nat \ {0}
    /\ MaxSubmitted \in Nat /\ MaxFaults \in Nat

VARIABLES
    prev,           \* prev_event_ids of every event
    rejects,        \* events that fail their auth checks
    sends,          \* events that a local client makes with one transaction ID
    chunkSize,      \* how many events of a task are written at once
    stored,         \* events: no row ("none"), "outlier", or in the graph ("event")
    rejections,     \* rejections
    softFailed,     \* events whose event_json says soft_failed
    edges,          \* events whose prev events are in event_edges
    forward,        \* event_forward_extremities
    backward,       \* event_backward_extremities
    stateAt,        \* the extremities that the current state was worked out from
    queue,          \* _event_persist_queues
    persisting,     \* _currently_persisting_rooms
    loop,           \* handle_queue_loop: where each loop is, with its task
    submitted,      \* the number of calls so far
    waiting,        \* the calls that wait for their deferred
    live,           \* history: events persisted as new and accepted
    gaps,           \* history: events were persisted before an event they follow
    astray,         \* history: the database holds an event as accepted that no
                    \*   extremity follows
    faults

world == <<prev, rejects, sends, chunkSize>>
tables == <<stored, rejections, softFailed, edges, forward, backward, stateAt>>
history == <<live, gaps, astray>>
vars == <<world, tables, queue, persisting, loop, submitted, waiting, history, faults>>

Idle == [at |-> "idle", task |-> "none", backfilled |-> FALSE, items |-> <<>>,
         calls |-> 0, extremities |-> {}]

Init ==
    /\ prev \in Graphs
    /\ sends \in Sends
    /\ rejects \in SUBSET (Events \ (sends \cup Known))
    /\ Cardinality(rejects) <= MaxRejected
    /\ chunkSize \in ChunkSizes
    /\ stored = [e \in Events |-> IF e \in Known THEN "event" ELSE "none"]
    /\ rejections = {} /\ softFailed = {}
    /\ edges = Known
    /\ forward = Known /\ backward = {} /\ stateAt = Known
    /\ queue = <<>> /\ persisting = FALSE
    /\ loop = [l \in Loops |-> Idle]
    /\ submitted = 0 /\ waiting = 0
    /\ live = Known /\ gaps = FALSE /\ astray = FALSE
    /\ faults = 0

Fault == faults < MaxFaults /\ faults' = faults + 1

Following(es) == UNION {prev[e] : e \in es}

(* The events before e. *)
Before[e \in Events] == prev[e] \cup UNION {Before[p] : p \in prev[e]}

InGraph == {e \in Events : stored[e] = "event"}
------------------------------------------------------------------------------
(* _EventPeristenceQueue *)

(* Deviation: a loop starts although one runs. *)
NoLoopYet == \E l \in Loops : loop[l] = Idle

MayStart == ~persisting

(* try_merge *)
Merges(t, u) == t.task = u.task /\ t.backfilled = u.backfilled
Merged(t, u) == [t EXCEPT !.items = @ \o u.items, !.calls = @ + u.calls]

(* add_to_queue and _handle_queue: without a loop one starts, and takes the *)
(* task at once.                                                            *)
AddToQueue(t) ==
    /\ submitted < MaxSubmitted
    /\ submitted' = submitted + 1
    /\ waiting' = waiting + 1
    /\ LET merged == queue # <<>> /\ Merges(Last(queue), t)
           longer == IF merged THEN [queue EXCEPT ![Len(queue)] = Merged(@, t)]
                     ELSE Append(queue, t)
       IN  IF MayStart
             THEN LET l == CHOOSE k \in Loops : loop[k] = Idle
                  IN  /\ loop' = [loop EXCEPT ![l] = [Head(longer) EXCEPT !.at = "check"]]
                      /\ queue' = Tail(longer)
                      /\ persisting' = TRUE
             ELSE queue' = longer /\ UNCHANGED <<loop, persisting>>

Persist(item, backfilled) ==
    [Idle EXCEPT !.task = "persist", !.backfilled = backfilled, !.items = <<item>>, !.calls = 1]

NoteGap(e) == gaps' = (gaps \/ ~(prev[e] \subseteq InGraph))

Pending == UNION {ToSet(q.items) : q \in ToSet(queue) \cup {loop[l] : l \in Loops}}

(* persist_events for an event received or pulled over federation that is   *)
(* not in the graph yet.  An event soft-fails only if the room has moved on *)
(* from its prev events (_check_for_soft_fail).                             *)
SubmitNew(e, soft) ==
    /\ e \notin sends \cup InGraph
    /\ \A i \in Pending : i.event = e => i.as # "new"
    /\ soft => e \notin rejects /\ prev[e] # forward
    /\ AddToQueue(Persist([event |-> e, as |-> "new", soft |-> soft], FALSE))
    /\ NoteGap(e)
    /\ UNCHANGED <<world, tables, live, astray, faults>>

(* The same for an event that a local client sends. *)
SubmitLocal(e) ==
    /\ e \in sends \ InGraph
    /\ \A i \in Pending : i.event # e
    /\ prev[e] = forward
    /\ AddToQueue(Persist([event |-> e, as |-> "new", soft |-> FALSE], FALSE))
    /\ UNCHANGED <<world, tables, history, faults>>

(* The same for history that leads up to events of the graph. *)
SubmitBackfilled(e) ==
    /\ e \notin sends \cup InGraph
    /\ \E f \in InGraph : e \in Before[f]
    /\ AddToQueue(Persist([event |-> e, as |-> "backfilled", soft |-> FALSE], TRUE))
    /\ NoteGap(e)
    /\ UNCHANGED <<world, tables, live, astray, faults>>

(* _auth_and_persist_outliers *)
SubmitOutlier(e) ==
    /\ e \notin sends
    /\ stored[e] = "none"
    /\ AddToQueue(Persist([event |-> e, as |-> "outlier", soft |-> FALSE], TRUE))
    /\ UNCHANGED <<world, tables, history, faults>>

(* update_current_state *)
SubmitStateUpdate ==
    /\ AddToQueue([Idle EXCEPT !.task = "state", !.calls = 1])
    /\ UNCHANGED <<world, tables, history, faults>>

(* The end of an item: its deferred fires for everyone who waits for it.    *)
Answer(l) ==
    /\ waiting' = waiting - loop[l].calls
    /\ loop' = [loop EXCEPT ![l] = [Idle EXCEPT !.at = "next"]]

(* Deviation: the loop ends with tasks still in the queue. *)
NextItemOnce(l) ==
    /\ loop[l].at = "next"
    /\ persisting' = FALSE
    /\ loop' = [loop EXCEPT ![l] = Idle]
    /\ UNCHANGED <<world, tables, queue, submitted, waiting, history, faults>>

(* handle_queue_loop: the next task of the draining queue, or the end. *)
NextItem(l) ==
    /\ loop[l].at = "next"
    /\ IF queue = <<>>
         THEN /\ persisting' = FALSE
              /\ loop' = [loop EXCEPT ![l] = Idle]
              /\ UNCHANGED queue
         ELSE /\ loop' = [loop EXCEPT ![l] = [Head(queue) EXCEPT !.at = "check"]]
              /\ queue' = Tail(queue)
              /\ UNCHANGED persisting
    /\ UNCHANGED <<world, tables, submitted, waiting, history, faults>>
------------------------------------------------------------------------------
(* _persist_event_batch *)

Sent(i) == i.event \in sends

(* Deviation: only what is stored counts, not the rest of the task. *)
ReplacedByStored(items) ==
    {k \in 1 .. Len(items) : Sent(items[k]) /\ sends \cap InGraph # {}}

(* get_already_persisted_events: an event of a transaction that has one, or *)
(* that an earlier event of the task has.                                   *)
Replaced(items) ==
    {k \in 1 .. Len(items) :
       /\ Sent(items[k])
       /\ \/ sends \cap InGraph # {}
          \/ \E j \in 1 .. (k - 1) : Sent(items[j])}

Kept(items) ==
    LET keep == (1 .. Len(items)) \ Replaced(items)
    IN  [n \in 1 .. Cardinality(keep) |->
           items[CHOOSE k \in keep : Cardinality({j \in keep : j <= k}) = n]]

CheckReplaced(l) ==
    /\ loop[l].at = "check" /\ loop[l].task = "persist"
    /\ IF Kept(loop[l].items) = <<>>
         THEN Answer(l)
         ELSE /\ loop' = [loop EXCEPT ![l].at = "calculate", ![l].items = Kept(@)]
              /\ UNCHANGED waiting
    /\ UNCHANGED <<world, tables, queue, persisting, submitted, history, faults>>

Chunk(l) == SubSeq(loop[l].items, 1, IF Len(loop[l].items) < chunkSize
                                       THEN Len(loop[l].items) ELSE chunkSize)
Rest(l) == SubSeq(loop[l].items, Len(Chunk(l)) + 1, Len(loop[l].items))

(* _get_events_which_are_prevs of events in good standing. *)
PrevsOfExisting == Following((edges \cap InGraph) \ (rejections \cup softFailed))

(* Deviation: looks one event back only. *)
PrevsBeforeRejectedOnce(es) == Following(es \cap edges \cap InGraph \cap (rejections \cup softFailed))

(* _get_prevs_before_rejected *)
PrevsBeforeRejected(es) ==
    LET bad == edges \cap InGraph \cap (rejections \cup softFailed)
        seen[n \in 0 .. MaxEvent] ==
            IF n = 0 THEN es ELSE seen[n - 1] \cup Following(seen[n - 1] \cap bad)
    IN  Following(seen[MaxEvent] \cap bad)

Accepted(chunk) ==
    {i.event : i \in {j \in ToSet(chunk) : j.as # "outlier" /\ ~j.soft /\ j.event \notin rejects}}

(* _calculate_new_extremities *)
NewExtremities(chunk) ==
    LET new == Accepted(chunk)
    IN  (((forward \cup new) \ Following(new)) \ PrevsOfExisting)
          \ PrevsBeforeRejected(Following(new))

(* _calculate_new_forward_extremities_and_state_delta; {} where the code    *)
(* has None.  "No forward extremities left!" fails the task.                *)
Calculate(l) ==
    /\ loop[l].at = "calculate"
    /\ LET new == NewExtremities(Chunk(l))
       IN  IF loop[l].backfilled \/ new = forward
             THEN loop' = [loop EXCEPT ![l].at = "write", ![l].extremities = {}] /\ UNCHANGED waiting
             ELSE IF new = {}
             THEN Answer(l)
             ELSE /\ loop' = [loop EXCEPT ![l].at = "write", ![l].extremities = new]
                  /\ UNCHANGED waiting
    /\ UNCHANGED <<world, tables, queue, persisting, submitted, history, faults>>

(* What a chunk brings: events for the graph, events without a row, events  *)
(* that were outliers until now, events that soft-failed.  Of an event that *)
(* is there twice the first one counts that is not an outlier.              *)
Inside(chunk) == {i.event : i \in {j \in ToSet(chunk) : j.as # "outlier"}}
Fresh(chunk) == {e \in {i.event : i \in ToSet(chunk)} : stored[e] = "none"}
ExOutliers(chunk) == {e \in Inside(chunk) \ rejects : stored[e] = "outlier"}
Soft(chunk) ==
    {e \in Inside(chunk) : \E k \in 1 .. Len(chunk) :
       /\ chunk[k].event = e /\ chunk[k].soft
       /\ \A j \in 1 .. (k - 1) : chunk[j].event = e => chunk[j].as = "outlier"}

Graph(chunk) == InGraph \cup ExOutliers(chunk) \cup (Fresh(chunk) \cap Inside(chunk))

(* Of the events that a chunk has for the graph, d comes before e. *)
Earlier(chunk, d, e) ==
    \E j \in 1 .. Len(chunk) :
       /\ chunk[j].event = d /\ chunk[j].as # "outlier"
       /\ \A k \in 1 .. j : chunk[k].event = e => chunk[k].as = "outlier"

HavePrev(es) == {e \in es : prev[e] # {}}

(* Deviation: ex-outliers stay backward extremities. *)
BackwardButOutliers(chunk) ==
    LET was == ExOutliers(chunk)
        good == (Fresh(chunk) \cap Inside(chunk)) \ rejects
    IN  (backward \cup (Following(was) \ (InGraph \cup was)) \cup (Following(good) \ Graph(chunk)))
          \ good

(* _update_backward_extremeties, for one ex-outlier after the other before   *)
(* the new events have rows, then for the new events that are not rejected, *)
(* outliers among them.  Unless one of its events that are in the graph has *)
(* prev events the function returns early, and takes nothing out.           *)
Backward(chunk) ==
    LET was == ExOutliers(chunk)
        fresh == Fresh(chunk) \ rejects
        good == fresh \cap Inside(chunk)
        afterOutliers ==
            (backward \cup {e \in Following(was) \ InGraph :
                             e \in was => \E d \in was : e \in prev[d] /\ Earlier(chunk, d, e)})
              \ HavePrev(was)
    IN  IF HavePrev(good) = {} THEN afterOutliers
        ELSE (afterOutliers \cup (Following(good) \ Graph(chunk)))
               \ (good \cup (fresh \ HavePrev(fresh)))

(* Nothing in the graph that no extremity follows is to count as accepted:  *)
(* event_json of an ex-outlier never says that it soft-failed, and          *)
(* backfilled history may lead up to events that soft-failed.               *)
GoesAstray(chunk, backfilled) ==
    \/ ExOutliers(chunk) \cap Soft(chunk) # {}
    \/ /\ backfilled
       /\ \E e \in ((Fresh(chunk) \cup ExOutliers(chunk)) \cap Inside(chunk)) \ rejects :
            \A f \in forward : e # f /\ e \notin Before[f]

(* _persist_events_txn: _filter_events_and_contexts_for_duplicates,         *)
(* _update_outliers_txn, _store_event_txn, _update_forward_extremities_txn, *)
(* _store_rejected_events_txn and _handle_mult_prev_events, for which the   *)
(* rejected events have been left out: they have no edges.                  *)
Write(l) ==
    /\ loop[l].at = "write"
    /\ LET chunk == Chunk(l)
           new == loop[l].extremities
       IN  /\ stored' = [e \in Events |-> IF e \in Graph(chunk) THEN "event"
                                          ELSE IF e \in Fresh(chunk) THEN "outlier"
                                          ELSE stored[e]]
           /\ rejections' = rejections \cup (Fresh(chunk) \cap rejects)
           /\ softFailed' = softFailed \cup (Fresh(chunk) \cap Soft(chunk))
           /\ edges' = edges \cup (Fresh(chunk) \ rejects)
           /\ backward' = Backward(chunk)
           /\ forward' = IF new = {} THEN forward ELSE new
           /\ stateAt' = IF new = {} THEN stateAt ELSE new
           /\ live' = live \cup (IF loop[l].backfilled THEN {} ELSE Accepted(chunk) \cap Graph(chunk))
           /\ astray' = (astray \/ GoesAstray(chunk, loop[l].backfilled))
    /\ IF Rest(l) = <<>>
         THEN Answer(l)
         ELSE /\ loop' = [loop EXCEPT ![l].at = "calculate", ![l].items = Rest(l)]
              /\ UNCHANGED waiting
    /\ UNCHANGED <<world, queue, persisting, submitted, gaps, faults>>

(* A task fails; the chunks before are written. *)
WriteFails(l) ==
    /\ loop[l].at = "write"
    /\ Fault
    /\ Answer(l)
    /\ UNCHANGED <<world, tables, queue, persisting, submitted, history>>

(* _update_current_state: reads the extremities, then writes the state. *)
CalculateState(l) ==
    /\ loop[l].at = "check" /\ loop[l].task = "state"
    /\ loop' = [loop EXCEPT ![l].at = "state", ![l].extremities = forward]
    /\ UNCHANGED <<world, tables, queue, persisting, submitted, waiting, history, faults>>

WriteState(l) ==
    /\ loop[l].at = "state"
    /\ stateAt' = loop[l].extremities
    /\ Answer(l)
    /\ UNCHANGED <<world, stored, rejections, softFailed, edges, forward, backward,
                   queue, persisting, submitted, history, faults>>

Restart ==
    /\ Fault
    /\ queue' = <<>> /\ persisting' = FALSE
    /\ loop' = [l \in Loops |-> Idle]
    /\ waiting' = 0
    /\ UNCHANGED <<world, tables, submitted, history>>

LoopStep(l) ==
    \/ NextItem(l) \/ CheckReplaced(l) \/ Calculate(l) \/ Write(l)
    \/ CalculateState(l) \/ WriteState(l)

Submit ==
    \/ \E e \in Events : \/ \E soft \in BOOLEAN : SubmitNew(e, soft)
                         \/ SubmitLocal(e) \/ SubmitBackfilled(e) \/ SubmitOutlier(e)
    \/ SubmitStateUpdate

Next ==
    \/ Submit
    \/ \E l \in Loops : LoopStep(l) \/ WriteFails(l)
    \/ Restart

Spec == Init /\ [][Next]_vars

Fairness == \A l \in Loops : WF_vars(LoopStep(l))
------------------------------------------------------------------------------
(* Types of the variables (_EventPeristenceQueue and the event tables). *)
TypeOK ==
    /\ prev \in [Events -> SUBSET Events]
    /\ stored \in [Events -> {"none", "outlier", "event"}]
    /\ rejects \cup rejections \cup softFailed \cup edges \cup live \subseteq Events
    /\ forward \cup backward \cup stateAt \subseteq Events
    /\ \A l \in Loops : /\ loop[l].at \in {"idle", "check", "calculate", "write", "state", "next"}
                         /\ loop[l].extremities \subseteq Events
    /\ {gaps, astray, persisting} \subseteq BOOLEAN
    /\ persisting <=> \E l \in Loops : loop[l] # Idle
    /\ submitted \in 0 .. MaxSubmitted /\ waiting \in 0 .. submitted
    /\ faults \in 0 .. MaxFaults

(* No branch of the room is forgotten: whatever was accepted is at or before *)
(* a forward extremity, so that the next event of this server follows it,   *)
(* however tasks are merged, chunked, failed and interleaved with backfill  *)
(* (_calculate_new_extremities).                                            *)
TipsKept == ~astray => \A e \in live : \E f \in forward : e = f \/ e \in Before[f]

(* "otherwise we end up with dangling extremities": with events in order,   *)
(* no extremity comes before another, also across any number of events that *)
(* soft-failed.  Rejected events are the exception, and ex-outliers that    *)
(* soft-failed, which _get_prevs_before_rejected takes for accepted.        *)
NoDangling ==
    ~gaps /\ ~astray /\ rejections = {} => \A e, f \in forward : e \notin Before[f]

(* The same for ex-outliers that soft-failed.                               *)
NoDanglingPastOutliers ==
    ~gaps /\ rejections = {} => \A e, f \in forward : e \notin Before[f]

(* The same for rejected events, which _get_prevs_before_rejected says it   *)
(* looks past too.                                                          *)
NoDanglingPastRejected == ~gaps => \A e, f \in forward : e \notin Before[f]

(* "there should always be at least one forward extremity": the assertion   *)
(* "No forward extremities left!" does not fail.                            *)
ExtremitiesLeft ==
    \A l \in Loops :
        loop[l].at = "calculate" /\ ~loop[l].backfilled => NewExtremities(Chunk(l)) # {}

(* "Checking here isn't racey": a client that sends twice with one          *)
(* transaction ID, over any interleaving of its calls, gets one event.      *)
OncePerTransaction == Cardinality(sends \cap InGraph) <= 1

(* The current state is the state after the current extremities: nothing is *)
(* written between reading the extremities and writing what follows from    *)
(* them ("we are only persisting events for one room at a time").           *)
StateMatches == stateAt = forward

(* The backward extremities, where backfill starts, are the missing events  *)
(* that an event of the graph follows, whichever way events arrived.  Not   *)
(* so for rejected events, which are never taken out, and for an event      *)
(* without prev events (the creation of the room): it may stay after it     *)
(* came (the early return), or go before it came (as an outlier, "it won't  *)
(* ever have anything else to backfill from").                              *)
BackwardExact ==
    /\ backward \subseteq Following(edges \cap InGraph)
    /\ HavePrev(backward) \ rejections =
          HavePrev(Following(edges \cap InGraph)) \ (InGraph \cup rejections)

(* Everyone who waits for a task is answered, failed tasks and the end of a *)
(* loop that races with a new task included (handle_queue_loop).            *)
AllAnswered == waiting > 0 ~> waiting = 0
==============================================================================
