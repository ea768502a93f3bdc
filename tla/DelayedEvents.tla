------------------------------ MODULE DelayedEvents ------------------------------
(***************************************************************************)
(* Events that clients ask the server to send later                        *)
(* (handlers/delayed_events.py, storage/databases/main/delayed_events.py). *)
(* They are rows of one table.  One timer of the main process stands for   *)
(* the earliest of them: each transaction that changes the table returns   *)
(* the next send time, and the timer is set to it some time after the      *)
(* transaction, in no particular order.  Transactions that write the same  *)
(* rows exclude each other (REPEATABLE READ, with retries), so they are    *)
(* atomic steps; the time one returns may miss what another does meanwhile.*)
(*                                                                         *)
(* Events are added by workers; everything else happens in the main        *)
(* process.  Ratelimiting and validation only refuse calls, before they    *)
(* change anything.                                                        *)
(***************************************************************************)
EXTENDS Naturals, FiniteSets, SequencesExt

CONSTANTS
    Events,         \* the delayed events
    DelayOf,        \* milliseconds to wait
    KeyOf,          \* the piece of state an event sets; NoKey for a message
    OwnerOf,        \* who asked for it
    NoKey,
    Others,         \* users of other servers who change the state
    Clients,        \* requests in progress
    Senders,        \* background processes that send events
    MaxTime,        \* bound on the clock
    MaxIncidents    \* bound on failures, restarts and changes of state by Others

(* There are finitely many events, and time is counted in milliseconds. *)
EventsAssumption ==
    /\ IsFiniteSet(Events)
    /\ DelayOf \in [Events -> Nat]
    /\ MaxTime \in Nat \ {0} /\ MaxIncidents \in Nat

VARIABLES
    row,            \* delayed_events: status and send_ts of each event
    now,
    timer,          \* _next_delayed_event_call: the time it is set to, or None
    proc,           \* what each client and sender does
    startup,        \* _schedule_db_events
    deltas,         \* the current_state_delta stream
    watch,          \* _unsafe_process_new_event
    eventPos,       \* _event_pos
    storedPos,      \* delayed_events_stream_pos
    notified,       \* a replication callback is due
    \* History.
    sent,           \* how often each event was sent
    cancelled,      \* events deleted before they were processed
    marked,         \* events that were marked as processed at a crash
    again,          \* events unmarked at startup
    born,           \* number of deltas when the event was added
    stale,          \* the timer's last setting was out of date, or was missed
    abandoned,      \* processed events that nobody will delete
    unwatched,      \* the watching of deltas failed
    incidents

table == <<row, born>>
clock == <<now, timer, stale>>
watcher == <<watch, eventPos, storedPos, unwatched>>
stream == <<deltas, notified>>
history == <<sent, cancelled, marked, again, abandoned>>
vars == <<table, clock, proc, startup, watcher, stream, history, incidents>>

(* No time; the clock starts after it. *)
None == 0

NoRow == [status |-> "none", ts |-> None]
Gone == [status |-> "gone", ts |-> None]

IdleProc ==
    [pc |-> "idle", op |-> "none", next |-> None, list |-> <<>>, keys |-> {}]

IdleWatch == [pc |-> "idle", i |-> 0, upto |-> 0, next |-> None]

(* At the head of the loop that looks for changes of state. *)
Starting == [IdleWatch EXCEPT !.pc = "check"]

(* The process has started, with an empty table. *)
Init ==
    /\ row = [e \in Events |-> NoRow]
    /\ now = 1
    /\ timer = None
    /\ proc = [p \in Clients \cup Senders |-> IdleProc]
    /\ startup = "done"
    /\ deltas = <<>>
    /\ watch = IdleWatch
    /\ eventPos = 0
    /\ storedPos = 0
    /\ notified = FALSE
    /\ sent = [e \in Events |-> 0]
    /\ cancelled = {}
    /\ marked = {}
    /\ again = {}
    /\ born = [e \in Events |-> 0]
    /\ stale = FALSE
    /\ abandoned = {}
    /\ unwatched = FALSE
    /\ incidents = 0

Incident ==
    /\ incidents < MaxIncidents
    /\ incidents' = incidents + 1

WithStatus(r, s) == {e \in Events : r[e].status = s}

(* _get_next_delayed_event_send_ts_txn *)
NextSendTs(r) ==
    LET waiting == WithStatus(r, "waiting") IN
    IF waiting = {} THEN None ELSE Min({r[e].ts : e \in waiting})

(* Deviation: a call that is set already stays as it is. *)
ScheduleIfUnset(ts) == IF timer # None /\ ts # None THEN timer ELSE ts

(***************************************************************************)
(* _next_send_ts_changed with _schedule_next_at_or_none: the time the call *)
(* is set to.  A time that has passed is now.                              *)
(***************************************************************************)
ScheduleNextAtOrNone(ts) ==
    IF ts = timer \/ ts = None THEN ts ELSE IF ts > now THEN ts ELSE now
------------------------------------------------------------------------------
(***************************************************************************)
(* The transactions, each with the call of the handler that leads to it.   *)
(* Its result is on its way afterwards.  A call for an event that is not   *)
(* found changes nothing.                                                  *)
(***************************************************************************)

(* Deviation: events that are being sent are found too. *)
FoundProcessed(op, e) ==
    row[e].status \in IF op = "add" THEN {"none"} ELSE {"waiting", "processed"}

(* A new event, or one that is not processed; else it is a NotFoundError. *)
Found(op, e) == row[e].status = IF op = "add" THEN "none" ELSE "waiting"

(* What becomes of the row. *)
Written(op, e) ==
    CASE op \in {"add", "restart"} -> [status |-> "waiting", ts |-> now + DelayOf[e]]
      [] op = "cancel"             -> Gone
      [] op = "send"               -> [row[e] EXCEPT !.status = "processed"]

(* p has changed the table and will report when the next event is due. *)
Result(p, op, list) ==
    proc' = [proc EXCEPT ![p] =
                [IdleProc EXCEPT !.pc = "reply", !.op = op, !.list = list,
                                 !.next = NextSendTs(row')]]

(* _initialized_from_db has fired; a failure is only logged. *)
Initialized == startup \in {"done", "failed", "unregistered"}

(***************************************************************************)
(* add, cancel, restart and send up to the result of their transaction.    *)
(* All but add wait for _initialized_from_db.                              *)
(***************************************************************************)
Call(p, op, e) ==
    /\ proc[p].pc = "idle"
    /\ op # "add" => Initialized
    /\ op \in {"add", "restart"} => now + DelayOf[e] <= MaxTime
    /\ Found(op, e)
    /\ row' = [row EXCEPT ![e] = Written(op, e)]
    /\ Result(p, op, <<e>>)
    /\ cancelled' = IF op = "cancel" THEN cancelled \cup {e} ELSE cancelled
    /\ born' = IF op = "add" THEN [born EXCEPT ![e] = Len(deltas)] ELSE born
    /\ UNCHANGED <<clock, startup, watcher, stream, sent, marked, again, abandoned,
                   incidents>>

Due == {e \in WithStatus(row, "waiting") : row[e].ts <= now}

(* process_timeout_delayed_events: what is due, in the order of send_ts. *)
ProcessTimeout(p, op) ==
    /\ proc[p].pc = "idle"
    /\ row' = [e \in Events |->
                 IF e \in Due THEN [row[e] EXCEPT !.status = "processed"] ELSE row[e]]
    /\ \E list \in SetToSeqs(Due) :
         /\ \A i, j \in DOMAIN list : i < j => row[list[i]].ts <= row[list[j]].ts
         /\ Result(p, op, list)
    /\ UNCHANGED born

(* The sender works on a list. *)
ToMany(c) == c.op \in {"timeout", "initial"}

(***************************************************************************)
(* The result reaches the main process (on_added, for a worker's add): the *)
(* timer is set, and what was found is sent.  A process for many events    *)
(* leaves the timer as it is when no other event waits.                    *)
(***************************************************************************)
Apply(p) ==
    LET c == proc[p] IN
    /\ c.pc = "reply"
    /\ timer' = IF ToMany(c) /\ c.next = None THEN timer
                                              ELSE ScheduleNextAtOrNone(c.next)
    /\ stale' = (c.next # NextSendTs(row))
    /\ proc' = [proc EXCEPT ![p] =
                  IF (ToMany(c) \/ c.op = "send") /\ c.list # <<>>
                  THEN [c EXCEPT !.pc = "send", !.next = None]
                  ELSE IdleProc]
    /\ startup' = IF c.op = "initial" THEN "done" ELSE startup
    /\ UNCHANGED <<table, now, watcher, stream, history, incidents>>
------------------------------------------------------------------------------
(***************************************************************************)
(* Sending: _send_events for a list, _send_event for one.                  *)
(***************************************************************************)

(* _send_on_timeout *)
TimerFires(p) ==
    /\ timer # None
    /\ timer <= now
    /\ timer' = None
    /\ ProcessTimeout(p, "timeout")
    /\ UNCHANGED <<now, stale, startup, watcher, stream, history, incidents>>

(* The process goes on with the next event, or ends. *)
GoOn(p, c) ==
    proc' = [proc EXCEPT ![p] = IF Len(c.list) > 1
                                THEN [c EXCEPT !.pc = "send", !.list = Tail(@)]
                                ELSE IdleProc]

(* The same piece of state was just set by an event of the list. *)
Superseded(c) == KeyOf[Head(c.list)] \in c.keys

Skip(p) ==
    /\ proc[p].pc = "send"
    /\ Superseded(proc[p])
    /\ GoOn(p, proc[p])
    /\ UNCHANGED <<table, clock, startup, watcher, stream, history, incidents>>

(* The event is persisted; a state event shows in the stream of deltas. *)
SendEvent(p) ==
    LET c == proc[p]
        e == Head(c.list) IN
    /\ c.pc = "send"
    /\ ~Superseded(c)
    /\ sent' = [sent EXCEPT ![e] = @ + 1]
    /\ IF KeyOf[e] # NoKey
       THEN /\ deltas' = Append(deltas, [key |-> KeyOf[e], by |-> OwnerOf[e]])
            /\ notified' = TRUE
            /\ proc' = [proc EXCEPT ![p].pc = "delete", ![p].keys = @ \cup {KeyOf[e]}]
       ELSE /\ proc' = [proc EXCEPT ![p].pc = "delete"]
            /\ UNCHANGED stream
    /\ UNCHANGED <<table, clock, startup, watcher, cancelled, marked, again,
                   abandoned, incidents>>

(* Sending raises; the event is deleted all the same. *)
SendFails(p) ==
    /\ proc[p].pc = "send"
    /\ ~Superseded(proc[p])
    /\ Incident
    /\ proc' = [proc EXCEPT ![p].pc = "delete"]
    /\ UNCHANGED <<table, clock, startup, watcher, stream, history>>

AfterDelete(p, c) ==
    IF c.op = "send" THEN proc' = [proc EXCEPT ![p] = IdleProc]
                     ELSE proc' = [proc EXCEPT ![p].pc = "purge"]

(* The query about the user raises, before anything that is cleaned up. *)
GuestCheckFails(p) ==
    LET c == proc[p] IN
    /\ c.pc = "send"
    /\ ~Superseded(c)
    /\ Incident
    /\ abandoned' = abandoned \cup {Head(c.list)}
    /\ AfterDelete(p, c)
    /\ UNCHANGED <<table, clock, startup, watcher, stream, sent, cancelled, marked,
                   again>>

(* delete_processed_delayed_event *)
DeleteSent(p) ==
    LET e == Head(proc[p].list) IN
    /\ proc[p].pc = "delete"
    /\ row' = IF row[e].status = "processed" THEN [row EXCEPT ![e] = Gone] ELSE row
    /\ AfterDelete(p, proc[p])
    /\ UNCHANGED <<born, clock, startup, watcher, stream, history, incidents>>

(* It fails, which is only logged. *)
DeleteFails(p) ==
    /\ proc[p].pc = "delete"
    /\ Incident
    /\ abandoned' = abandoned \cup {Head(proc[p].list)}
    /\ AfterDelete(p, proc[p])
    /\ UNCHANGED <<table, clock, startup, watcher, stream, sent, cancelled, marked,
                   again>>

(* Processed events for the pieces of state that were just set. *)
ToPurge(c) == {e \in WithStatus(row, "processed") : KeyOf[e] \in c.keys}

(* delete_processed_delayed_state_events *)
Purge(p) ==
    LET c == proc[p] IN
    /\ c.pc = "purge"
    /\ row' = [e \in Events |-> IF e \in ToPurge(c) THEN Gone ELSE row[e]]
    /\ GoOn(p, c)
    /\ UNCHANGED <<born, clock, startup, watcher, stream, history, incidents>>

(* It raises, and the rest of the list is left. *)
PurgeFails(p) ==
    LET c == proc[p] IN
    /\ c.pc = "purge"
    /\ c.keys # {}
    /\ Incident
    /\ abandoned' = abandoned \cup ToPurge(c) \cup {c.list[i] : i \in DOMAIN c.list}
    /\ proc' = [proc EXCEPT ![p] = IdleProc]
    /\ UNCHANGED <<table, clock, startup, watcher, stream, sent, cancelled, marked,
                   again>>
------------------------------------------------------------------------------
(***************************************************************************)
(* Watching for changes of state, which cancel the delayed events of       *)
(* other users for the same piece of state.                                *)
(***************************************************************************)

(* Somebody of another server changes a piece of state. *)
StateChange(u, k) ==
    /\ Incident
    /\ deltas' = Append(deltas, [key |-> k, by |-> u])
    /\ notified' = TRUE
    /\ UNCHANGED <<table, clock, proc, startup, watcher, history>>

(* The callback is added once the first look at the deltas is over. *)
Registered == startup \notin {"deltas", "unregistered"}

(* notify_new_event; one at a time. *)
NotifyNewEvent ==
    /\ notified
    /\ notified' = FALSE
    /\ IF Registered /\ watch.pc = "idle"
       THEN /\ watch' = Starting
            /\ unwatched' = FALSE
       ELSE UNCHANGED <<watch, unwatched>>
    /\ UNCHANGED <<table, clock, proc, startup, eventPos, storedPos, deltas,
                   history, incidents>>

(* Deviation: the deltas count as seen before they are handled. *)
SeenWhenRead(upto) == upto

(* _event_pos while the deltas that were read are handled. *)
SeenSoFar(upto) == eventPos

(* The head of the loop: up to date, or a list of deltas to handle. *)
WatchCheck ==
    /\ watch.pc = "check"
    /\ IF eventPos = Len(deltas)
       THEN /\ watch' = IdleWatch
            /\ startup' = IF startup = "deltas" THEN "unprocess" ELSE startup
            /\ notified' = (notified \/ startup = "deltas")
            /\ UNCHANGED eventPos
       ELSE /\ watch' = [IdleWatch EXCEPT !.pc = "txn", !.i = eventPos + 1,
                                          !.upto = Len(deltas)]
            /\ eventPos' = SeenSoFar(Len(deltas))
            /\ UNCHANGED <<startup, notified>>
    /\ UNCHANGED <<table, clock, proc, storedPos, unwatched, deltas, history,
                   incidents>>

(* Waiting events for the same piece of state, of everybody but its sender. *)
Hits(d, e) == KeyOf[e] = d.key /\ OwnerOf[e] # d.by
Victims(r, d) == {e \in WithStatus(r, "waiting") : Hits(d, e)}

(* cancel_delayed_state_events *)
WatchCancel ==
    LET victims == Victims(row, deltas[watch.i]) IN
    /\ watch.pc = "txn"
    /\ row' = [e \in Events |-> IF e \in victims THEN Gone ELSE row[e]]
    /\ cancelled' = cancelled \cup victims
    /\ watch' = [watch EXCEPT !.pc = "reply", !.next = NextSendTs(row')]
    /\ UNCHANGED <<born, clock, proc, startup, eventPos, storedPos, unwatched, stream,
                   sent, marked, again, abandoned, incidents>>

(* The timer is set; the next delta, or the end of the list. *)
WatchApply ==
    /\ watch.pc = "reply"
    /\ timer' = ScheduleNextAtOrNone(watch.next)
    /\ stale' = (watch.next # NextSendTs(row))
    /\ IF watch.i < watch.upto
       THEN /\ watch' = [watch EXCEPT !.pc = "txn", !.i = @ + 1, !.next = None]
            /\ UNCHANGED eventPos
       ELSE /\ watch' = [IdleWatch EXCEPT !.pc = "store"]
            /\ eventPos' = watch.upto
    /\ UNCHANGED <<table, now, proc, startup, storedPos, unwatched, stream,
                   history, incidents>>

(* update_delayed_events_stream_pos *)
WatchStore ==
    /\ watch.pc = "store"
    /\ storedPos' = eventPos
    /\ watch' = Starting
    /\ UNCHANGED <<table, clock, proc, startup, eventPos, unwatched, stream,
                   history, incidents>>

(* A query raises: what is left is for the next notification.  At startup, *)
(* nothing follows.                                                        *)
WatchFails ==
    /\ watch.pc \in {"txn", "store"}
    /\ Incident
    /\ watch' = IdleWatch
    /\ unwatched' = TRUE
    /\ IF startup = "deltas"
       THEN /\ startup' = "unregistered"
            /\ stale' = TRUE
            /\ abandoned' = abandoned \cup WithStatus(row, "processed")
       ELSE UNCHANGED <<startup, stale, abandoned>>
    /\ UNCHANGED <<table, now, timer, proc, eventPos, storedPos, stream, sent,
                   cancelled, marked, again>>
------------------------------------------------------------------------------
(***************************************************************************)
(* The main process starts (_schedule_db_events).                          *)
(***************************************************************************)

(* Deviation: processed events stay so. *)
KeepProcessed(r) == r

(* unprocess_delayed_events *)
Unprocessed(r) ==
    [e \in Events |->
        IF r[e].status = "processed" THEN [r[e] EXCEPT !.status = "waiting"] ELSE r[e]]

Unprocess ==
    /\ startup = "unprocess"
    /\ startup' = "timeout"
    /\ row' = Unprocessed(row)
    /\ again' = again \cup WithStatus(row, "processed")
    /\ UNCHANGED <<born, clock, proc, watcher, stream, sent, cancelled, marked,
                   abandoned, incidents>>

(* process_timeout_delayed_events, whose events a background process sends. *)
InitialTimeout(p) ==
    /\ startup = "timeout"
    /\ startup' = "reading"
    /\ ProcessTimeout(p, "initial")
    /\ UNCHANGED <<clock, watcher, stream, history, incidents>>

(* The process ends, with all it knew, and starts again; workers go on. *)
Crash ==
    /\ Incident
    /\ timer' = None
    /\ proc' = [p \in DOMAIN proc |->
                  IF proc[p].op = "add" THEN proc[p] ELSE IdleProc]
    /\ startup' = "deltas"
    /\ watch' = Starting
    /\ eventPos' = storedPos
    /\ notified' = FALSE
    /\ unwatched' = FALSE
    /\ abandoned' = {}
    /\ marked' = marked \cup WithStatus(row, "processed")
    /\ UNCHANGED <<table, now, stale, storedPos, deltas, sent, cancelled, again>>

(* process_timeout_delayed_events raises: nobody sets the timer again. *)
TimeoutFails ==
    /\ timer # None
    /\ timer <= now
    /\ Incident
    /\ timer' = None
    /\ stale' = TRUE
    /\ UNCHANGED <<table, now, proc, startup, watcher, stream, history>>

(* A query at startup raises; the rest of the list is left. *)
StartupFails ==
    /\ startup \in {"unprocess", "timeout"}
    /\ Incident
    /\ startup' = "failed"
    /\ stale' = TRUE
    /\ abandoned' = abandoned \cup WithStatus(row, "processed")
    /\ UNCHANGED <<table, now, timer, proc, watcher, stream, sent, cancelled,
                   marked, again>>

(* The main process cannot be told of an event that a worker has added. *)
ReplyLost(p) ==
    /\ proc[p].pc = "reply"
    /\ proc[p].op = "add"
    /\ Incident
    /\ stale' = TRUE
    /\ proc' = [proc EXCEPT ![p] = IdleProc]
    /\ UNCHANGED <<table, now, timer, startup, watcher, stream, history>>

Tick ==
    /\ now < MaxTime
    /\ now' = now + 1
    /\ UNCHANGED <<table, timer, stale, proc, startup, watcher, stream, history,
                   incidents>>
------------------------------------------------------------------------------
ProcStep(p) ==
    Apply(p) \/ Skip(p) \/ SendEvent(p) \/ DeleteSent(p) \/ Purge(p)

WatchStep == WatchCheck \/ WatchCancel \/ WatchApply \/ WatchStore

Next ==
    \/ \E p \in Clients, e \in Events, op \in {"add", "restart", "cancel", "send"} :
         Call(p, op, e)
    \/ \E p \in Senders : TimerFires(p) \/ InitialTimeout(p)
    \/ \E p \in Clients \cup Senders :
         \/ ProcStep(p)
         \/ SendFails(p) \/ GuestCheckFails(p) \/ DeleteFails(p) \/ PurgeFails(p)
         \/ ReplyLost(p)
    \/ \E u \in Others, k \in {KeyOf[e] : e \in Events} \ {NoKey} : StateChange(u, k)
    \/ NotifyNewEvent \/ WatchStep \/ WatchFails
    \/ Unprocess \/ StartupFails \/ TimeoutFails \/ Crash \/ Tick

Spec == Init /\ [][Next]_vars

(***************************************************************************)
(* Queries and sends end, the clock goes on, timers fire and callbacks are *)
(* called.  Nobody has to call, and nothing has to fail.                   *)
(***************************************************************************)
Fairness ==
    /\ \A p \in Clients \cup Senders : WF_vars(ProcStep(p))
    /\ WF_vars(\E p \in Senders : TimerFires(p))
    /\ WF_vars(\E p \in Senders : InitialTimeout(p))
    /\ WF_vars(WatchStep)
    /\ WF_vars(NotifyNewEvent)
    /\ WF_vars(Unprocess)
    /\ WF_vars(Tick)

FairSpec == Spec /\ Fairness
------------------------------------------------------------------------------
Times == 0 .. MaxTime
Keys == {KeyOf[e] : e \in Events} \ {NoKey}
Procs == [pc : {"idle", "reply", "send", "delete", "purge"},
          op : {"none", "add", "restart", "cancel", "send", "timeout", "initial"},
          next : Times, list : Seq(Events), keys : SUBSET Keys]
Watches == [pc : {"idle", "check", "txn", "reply", "store"}, i : Nat, upto : Nat, next : Times]
Deltas == [key : Keys, by : {OwnerOf[e] : e \in Events} \cup Others]

(* The variables' types. *)
TypeOK ==
    /\ row \in [Events -> [status : {"none", "waiting", "processed", "gone"}, ts : Times]]
    /\ now \in 1 .. MaxTime
    /\ timer \in Times
    /\ proc \in [Clients \cup Senders -> Procs]
    /\ startup \in {"deltas", "unprocess", "timeout", "reading", "done", "failed",
                    "unregistered"}
    /\ deltas \in Seq(Deltas)
    /\ watch \in Watches
    /\ watch.i <= watch.upto /\ watch.upto <= Len(deltas)
    /\ eventPos \in 0 .. Len(deltas)
    /\ storedPos \in 0 .. eventPos
    /\ sent \in [Events -> Nat]
    /\ cancelled \subseteq Events /\ marked \subseteq Events
    /\ again \subseteq Events /\ abandoned \subseteq Events
    /\ born \in [Events -> 0 .. Len(deltas)]
    /\ notified \in BOOLEAN /\ stale \in BOOLEAN /\ unwatched \in BOOLEAN
    /\ incidents \in 0 .. MaxIncidents

(***************************************************************************)
(* A delayed event is sent once, or cancelled, and not both (the owner's   *)
(* cancel and the watcher delete only what _send_on_timeout and send have  *)
(* not marked), unless a start of the process unmarked it.                 *)
(***************************************************************************)
Outcomes(e) == sent[e] + (IF e \in cancelled THEN 1 ELSE 0)
OneOutcome == \A e \in Events \ again : Outcomes(e) <= 1

(***************************************************************************)
(* The comment of _schedule_db_events: what is sent twice was processed,   *)
(* and not removed, on the last run of the server.                         *)
(***************************************************************************)
OnlyMarkedTwice == \A e \in Events \ marked : Outcomes(e) <= 1

(***************************************************************************)
(* Once the process has started and while no result is on its way, the     *)
(* timer is set for the earliest event that waits, unless the last result  *)
(* that _schedule_next_at was given had been overtaken by another          *)
(* transaction, or one was lost.                                           *)
(***************************************************************************)
Quiet ==
    /\ startup = "done"
    /\ \A p \in DOMAIN proc : proc[p].pc # "reply"
    /\ watch.pc # "reply"
TimerSet ==
    WithStatus(row, "waiting") # {} =>
        timer # None /\ (timer <= now \/ timer <= NextSendTs(row))
TimerCovers == Quiet /\ ~stale => TimerSet

(* The comment of _next_send_ts_changed: no update of the call is missed. *)
TimerCoversAlways == Quiet /\ incidents = 0 => TimerSet

(***************************************************************************)
(* A change of state that has been handled (_event_pos) has cancelled what *)
(* other users had delayed for that state before it, whatever failed and   *)
(* was tried again, except what a start of the process unmarked.           *)
(***************************************************************************)
StateWins ==
    \A e \in WithStatus(row, "waiting") \ again :
        \A i \in (born[e] + 1) .. eventPos : ~Hits(deltas[i], e)

(***************************************************************************)
(* Every event leaves the table in the end: sent, cancelled or failed; and *)
(* every change of state is looked at.  The exceptions: a timer that was   *)
(* set too late or not at all, events whose deletion failed, a watcher     *)
(* that failed and was not notified again.                                 *)
(***************************************************************************)
AllLeave ==
    <>[](/\ WithStatus(row, "waiting") = {} \/ stale
         /\ WithStatus(row, "processed") \subseteq abandoned
         /\ eventPos = Len(deltas) \/ unwatched)
================================================================================
