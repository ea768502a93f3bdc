---------------------------- MODULE ReplicationStream ----------------------------
(***************************************************************************)
(* Replication of one stream (the events stream) from several writers to   *)
(* one reader over Redis: replication/tcp/resource.py on the writers,      *)
(* handler.py and client.py on the reader, redis.py between them.          *)
(*                                                                         *)
(* Commands travel in the order a writer sent them; those of different     *)
(* writers interleave.  A row is <<writer, token, i>> (StreamRows).        *)
(***************************************************************************)
EXTENDS StreamRows, FiniteSets, SequencesExt

CONSTANTS
    Writers,          \* the instances that write the stream
    KindsOf,          \* the kinds of token each writer has
    MaxToken,         \* bound: tokens of each writer
    Limit,            \* events returned by one query for updates
    FaultSets         \* bound: the faults that occur together in a behaviour,
                      \* each once (see FaultKinds)

(***************************************************************************)
(* The faults: the reader's connection is lost; a writer's is, or it       *)
(* crashes; a writer's query for updates raises; one of the reader's does. *)
(***************************************************************************)
FaultKinds == {"reader", "writer", "query", "fetch"}

ASSUME KindsAssumption == KindsOf \in [Writers -> SUBSET AllKinds]
ASSUME BoundsAssumption ==
    /\ MaxToken \in [Writers -> Nat]
    /\ Limit \in Nat \ {0}
    /\ FaultSets \subseteq SUBSET FaultKinds

(* The token of an RDATA that is not the last of its batch. *)
None == 0

VARIABLES
    tokens,       \* the database: the kinds of each writer's tokens
    \* The writers.
    streamer,     \* ReplicationStreamer, its Stream and its connection
    out,          \* commands sent and not yet received, per writer
    asked,        \* writers a REPLICATE is on its way to
    \* The reader.
    pos,          \* current_token(writer)
    online,       \* its connection is up
    conn,         \* the newest connection's number
    connected,    \* connections the stream is connected on
    queue,        \* _command_queues_by_stream, with the connection
    batch,        \* _pending_batches
    fetch,        \* the POSITION whose missing updates are being fetched
    handled,      \* rows given to the data handler
    \* History.
    gap,          \* writers that sent nothing for tokens they have passed
    positioned,   \* <<connection, writer>>: a POSITION was dealt with there
                  \* since a fault last disconnected the stream
    disturbed,    \* what has happened that the protocol does not allow for
    stranded,     \* writers without a POSITION since a catch-up last raised
    faults        \* the kinds of the faults so far

writers == <<streamer, out, asked, gap>>
link == <<online, conn>>
reader == <<pos, connected, batch, fetch, handled, positioned, stranded>>
vars == <<tokens, writers, link, reader, queue, disturbed, faults>>

Hazards == {"batch", "connection", "gap"}

--------------------------------------------------------------------------------
(***************************************************************************)
(* Rows and commands.                                                      *)
(***************************************************************************)

(* The largest element of a set of tokens, or None. *)
Largest(S) == IF S = {} THEN None ELSE CHOOSE t \in S : \A u \in S : u <= t

(***************************************************************************)
(* get_updates_since with EventsStream._update_function: all rows above a, *)
(* up to `upto`.  When the query for events fills its limit, upto is the   *)
(* last event's token and the result is limited.                           *)
(***************************************************************************)
Updates(ts, a, b) ==
    LET found == WithRows(ts, a, b) IN
    IF Cardinality(found) >= Limit
    THEN [upto |-> CHOOSE t \in found :
                       Cardinality({u \in found : u <= t}) = Limit,
          limited |-> TRUE]
    ELSE [upto |-> b, limited |-> FALSE]

Position(w, prev, new) ==
    [type |-> "POSITION", writer |-> w, prev |-> prev, new |-> new]

(* The RDATA of one token: all but the last have no token (_batch_updates). *)
Rdata(w, ts, t) ==
    [i \in 1 .. RowsOf(ts[t]) |->
        [type |-> "RDATA", writer |-> w,
         token |-> IF i = RowsOf(ts[t]) THEN t ELSE None,
         row |-> <<w, t, i>>]]

(* What the notifier loop sends for the updates above a, up to b. *)
Commands(w, ts, a, b) ==
    LET sent == Largest(WithRows(ts, a, b)) IN
    IF sent = None
    THEN <<Position(w, a, b)>>
    ELSE FlattenSeq([i \in 1 .. (b - a) |-> Rdata(w, ts, a + i)])
             \o IF sent < b THEN <<Position(w, sent, b)>> ELSE <<>>

(* A command that the mix-up of another writer's rows can reach. *)
Foreign(w) == \E i \in DOMAIN batch : batch[i][1] # w

--------------------------------------------------------------------------------
(***************************************************************************)
(* The writers.  A streamer's step is a record of its new state and the    *)
(* commands it sends, computed for the writer's token sequence ts.         *)
(***************************************************************************)

NewStreamer ==
    [last      |-> 0,       \* Stream.last_token
     from      |-> 0,       \* the query under way: above here
     upto      |-> 0,       \* and up to here
     looping   |-> FALSE,   \* is_looping
     pending   |-> FALSE,   \* pending_updates
     announce  |-> FALSE,   \* _should_announce_positions
     connected |-> TRUE,    \* there is a replication connection
     greeting  |-> FALSE]   \* _send_subscribe awaits the publishing of REPLICATE

(* minimal_local_current_token: the last ID this writer used itself. *)
MinimalLocalToken(ts) == Largest({t \in DOMAIN ts : ts[t] # "moved"})

(* Deviation: the announcement claims to cover everything from the start. *)
AnnouncementFromStart(w, s) ==
    IF s.announce THEN <<Position(w, 0, s.last)>> ELSE <<>>

(* The POSITION that tells where the stream stands. *)
Announcement(w, s) ==
    IF s.announce THEN <<Position(w, s.last, s.last)>> ELSE <<>>

(***************************************************************************)
(* _run_notifier_loop from the test of pending_updates to its next await,  *)
(* the query for updates, or to its end.                                   *)
(***************************************************************************)
RunNotifierLoop(w, s, ts) ==
    LET current == Len(ts)
        t == [s EXCEPT !.pending = FALSE, !.announce = FALSE] IN
    CASE ~s.pending ->
            [state |-> [s EXCEPT !.looping = FALSE], sent |-> <<>>]
      [] s.pending /\ s.last = current ->
            [state |-> [t EXCEPT !.looping = FALSE], sent |-> Announcement(w, s)]
      [] s.pending /\ s.last # current /\ s.last >= MinimalLocalToken(ts) ->
            [state |-> [t EXCEPT !.looping = FALSE, !.last = current],
             sent |-> Announcement(w, s) \o <<Position(w, s.last, current)>>]
      [] OTHER ->
            [state |-> [t EXCEPT !.looping = TRUE, !.from = s.last, !.upto = current],
             sent |-> Announcement(w, s)]

(* Deviation: the early return forgets that positions are to be announced. *)
OnNotifierPokeForNews(w, s, ts) ==
    CASE ~s.connected ->
            [state |-> [s EXCEPT !.last = Len(ts)], sent |-> <<>>]
      [] s.connected /\ s.last = Len(ts) ->
            [state |-> s, sent |-> <<>>]
      [] s.connected /\ s.last # Len(ts) /\ s.looping ->
            [state |-> [s EXCEPT !.pending = TRUE], sent |-> <<>>]
      [] OTHER ->
            RunNotifierLoop(w, [s EXCEPT !.pending = TRUE], ts)

(* on_notifier_poke *)
OnNotifierPoke(w, s, ts) ==
    CASE ~s.connected ->
            [state |-> [s EXCEPT !.last = Len(ts)], sent |-> <<>>]
      [] s.connected /\ ~s.announce /\ s.last = Len(ts) ->
            [state |-> s, sent |-> <<>>]
      [] s.connected /\ (s.announce \/ s.last # Len(ts)) /\ s.looping ->
            [state |-> [s EXCEPT !.pending = TRUE], sent |-> <<>>]
      [] OTHER ->
            RunNotifierLoop(w, [s EXCEPT !.pending = TRUE], ts)

(***************************************************************************)
(* The step r of w's streamer s.  send_command drops what is sent without  *)
(* a connection.  History: tokens passed without a command leave a gap,    *)
(* which the next POSITION tells the reader of and the next RDATA hides.   *)
(***************************************************************************)
StreamerStep(w, s, r) ==
    /\ streamer' = [streamer EXCEPT ![w] = r.state]
    /\ out' = IF s.connected THEN [out EXCEPT ![w] = @ \o r.sent] ELSE out
    /\ gap' = IF s.connected
              THEN IF r.sent = <<>> THEN gap ELSE gap \ {w}
              ELSE IF r.sent # <<>> \/ r.state.last # s.last THEN gap \cup {w} ELSE gap
    /\ disturbed' = IF s.connected /\ w \in gap /\ r.sent # <<>>
                         /\ Head(r.sent).type = "RDATA"
                    THEN disturbed \cup {"gap"} ELSE disturbed

(* Everybody is connected and up to date. *)
Init ==
    /\ tokens = [w \in Writers |-> <<>>]
    /\ streamer = [w \in Writers |-> NewStreamer]
    /\ out = [w \in Writers |-> <<>>]
    /\ asked = {}
    /\ pos = [w \in Writers |-> 0]
    /\ online = TRUE
    /\ conn = 1
    /\ connected = {1}
    /\ queue = <<>>
    /\ batch = <<>>
    /\ fetch = {}
    /\ handled = {}
    /\ gap = {}
    /\ positioned = {1} \X Writers
    /\ disturbed = {}
    /\ stranded = {}
    /\ faults = {}

(* A fault of the given kind happens. *)
Fault(kind) ==
    /\ kind \notin faults
    /\ faults' = faults \cup {kind}
    /\ \E F \in FaultSets : faults' \subseteq F

(* The writer's token moves on; a transaction of its own ends with a poke. *)
Write(w, kind) ==
    /\ Len(tokens[w]) < MaxToken[w]
    /\ tokens' = [tokens EXCEPT ![w] = Append(@, kind)]
    /\ IF kind = "moved"
       THEN UNCHANGED <<streamer, out, gap, disturbed>>
       ELSE StreamerStep(w, streamer[w],
                         OnNotifierPoke(w, streamer[w], tokens'[w]))
    /\ UNCHANGED <<asked, link, reader, queue, faults>>

(* The looping call that pokes the events stream every second. *)
Poke(w) ==
    /\ StreamerStep(w, streamer[w], OnNotifierPoke(w, streamer[w], tokens[w]))
    /\ UNCHANGED <<tokens, asked, link, reader, queue, faults>>

(* The query for updates returns: they are sent, and the loop goes on. *)
SendUpdates(w) ==
    LET s == streamer[w]
        u == Updates(tokens[w], s.from, s.upto)
        t == [s EXCEPT !.last = u.upto, !.pending = @ \/ u.limited]
        r == RunNotifierLoop(w, t, tokens[w]) IN
    /\ s.looping
    /\ StreamerStep(w, s,
           [state |-> r.state,
            sent |-> Commands(w, tokens[w], s.from, u.upto) \o r.sent])
    /\ UNCHANGED <<tokens, asked, link, reader, queue, faults>>

(* The query raises: the loop ends, and with it what was pending. *)
UpdatesFail(w) ==
    /\ streamer[w].looping
    /\ Fault("query")
    /\ streamer' = [streamer EXCEPT ![w].looping = FALSE, ![w].pending = FALSE]
    /\ UNCHANGED <<tokens, out, asked, gap, link, reader, queue, disturbed>>

(* send_positions_to_connection *)
AnnouncePositions(w) ==
    LET s == [streamer[w] EXCEPT !.announce = TRUE, !.greeting = FALSE] IN
    StreamerStep(w, s, OnNotifierPoke(w, s, tokens[w]))

(* on_REPLICATE, if the writer has a connection to receive it on. *)
ReplicateArrives(w) ==
    LET s == [streamer[w] EXCEPT !.announce = TRUE] IN
    /\ w \in asked
    /\ asked' = asked \ {w}
    /\ IF s.connected
       THEN StreamerStep(w, s, OnNotifierPoke(w, s, tokens[w]))
       ELSE UNCHANGED <<streamer, out, gap, disturbed>>
    /\ UNCHANGED <<tokens, link, reader, queue, faults>>

(* The writer's connection is lost (lost_connection). *)
WriterLost(w) ==
    /\ streamer[w].connected
    /\ Fault("writer")
    /\ streamer' = [streamer EXCEPT ![w].connected = FALSE]
    /\ UNCHANGED <<tokens, out, asked, gap, link, reader, queue, disturbed>>

(***************************************************************************)
(* The writer dies with what it had not sent, and starts again where the   *)
(* database is.                                                            *)
(***************************************************************************)
WriterCrash(w) ==
    /\ Fault("writer")
    /\ streamer' = [streamer EXCEPT ![w] =
                        [NewStreamer EXCEPT !.last = Len(tokens[w]), !.connected = FALSE]]
    /\ \E n \in 0 .. Len(out[w]) : out' = [out EXCEPT ![w] = SubSeq(@, 1, n)]
    /\ gap' = gap \cup {w}
    /\ UNCHANGED <<tokens, asked, link, reader, queue, disturbed>>

(* _send_subscribe up to the await: subscribed, and REPLICATE is published. *)
WriterConnects(w) ==
    /\ ~streamer[w].connected
    /\ ~streamer[w].greeting
    /\ streamer' = [streamer EXCEPT ![w].connected = TRUE, ![w].greeting = TRUE]
    /\ asked' = Writers
    /\ UNCHANGED <<tokens, out, gap, link, reader, queue, disturbed, faults>>

(* REPLICATE has been published: _send_subscribe announces the positions. *)
Greeted(w) ==
    /\ streamer[w].greeting
    /\ AnnouncePositions(w)
    /\ UNCHANGED <<tokens, asked, link, reader, queue, faults>>

--------------------------------------------------------------------------------
(***************************************************************************)
(* The reader.                                                             *)
(***************************************************************************)

(* A POSITION that tells nothing new on a stream that is connected there. *)
CanDiscardPosition(cmd, c) == cmd.new <= pos[cmd.writer] /\ c \in connected

(* History: a POSITION of w has been dealt with on connection c. *)
Positioned(w, c) ==
    /\ positioned' = positioned \cup {<<c, w>>}
    /\ stranded' = stranded \ {w}

(* The next command of w arrives: on_RDATA, on_POSITION; offline it is lost. *)
Receive(w) ==
    LET cmd == Head(out[w]) IN
    /\ out[w] # <<>>
    /\ out' = [out EXCEPT ![w] = Tail(@)]
    /\ LET dropped == cmd.type = "POSITION" /\ CanDiscardPosition(cmd, conn) IN
       /\ queue' = IF online /\ ~dropped
                   THEN Append(queue, [cmd |-> cmd, conn |-> conn]) ELSE queue
       /\ IF online /\ dropped
          THEN Positioned(w, conn) ELSE UNCHANGED <<positioned, stranded>>
    /\ UNCHANGED <<tokens, streamer, asked, gap, link, pos, connected, batch, fetch,
                   handled, disturbed, faults>>

(* on_rdata: the rows are handed over and the position moves, never back. *)
OnRdata(w, token, rows) ==
    /\ handled' = handled \cup rows
    /\ pos' = [pos EXCEPT ![w] = IF token > @ THEN token ELSE @]

(* _process_rdata discards what it has passed already. *)
IsOld(cmd) == cmd.token <= pos[cmd.writer]

(* is_stream_connected *)
StreamConnected(c) == c \in connected

(* _process_rdata *)
ProcessRdata ==
    LET cmd == Head(queue).cmd
        c == Head(queue).conn
        rows == {batch[i] : i \in DOMAIN batch} \cup {cmd.row} IN
    /\ fetch = {}
    /\ queue # <<>>
    /\ cmd.type = "RDATA"
    /\ queue' = Tail(queue)
    /\ \/ /\ ~StreamConnected(c)
          /\ UNCHANGED <<batch, handled, pos, disturbed>>
       \/ /\ StreamConnected(c)
          /\ cmd.token = None
          /\ batch' = Append(batch, cmd.row)
          /\ disturbed' = IF Foreign(cmd.writer)
                          THEN disturbed \cup {"batch"} ELSE disturbed
          /\ UNCHANGED <<handled, pos>>
       \/ /\ StreamConnected(c)
          /\ cmd.token # None
          /\ batch' = <<>>
          /\ IF IsOld(cmd)
             THEN UNCHANGED <<handled, pos>>
             ELSE OnRdata(cmd.writer, cmd.token, rows)
          /\ disturbed' = disturbed
                \cup (IF Foreign(cmd.writer) THEN {"batch"} ELSE {})
                \cup (IF ~IsOld(cmd) /\ <<c, cmd.writer>> \notin positioned
                      THEN {"connection"} ELSE {})
    /\ UNCHANGED <<tokens, writers, link, connected, fetch, positioned, stranded, faults>>

(* Deviation: only a stream that was reset is fetched again. *)
MissingUpdatesIfReset(cmd) == pos[cmd.writer] > cmd.new

(* The rows between the reader and the POSITION may be missing. *)
MissingUpdates(cmd) == ~(cmd.prev <= pos[cmd.writer] /\ pos[cmd.writer] <= cmd.new)

(* _process_position, nothing new. *)
DiscardPosition ==
    LET cmd == Head(queue).cmd
        c == Head(queue).conn IN
    /\ fetch = {}
    /\ queue # <<>>
    /\ cmd.type = "POSITION"
    /\ CanDiscardPosition(cmd, c)
    /\ queue' = Tail(queue)
    /\ Positioned(cmd.writer, c)
    /\ UNCHANGED <<tokens, writers, link, pos, connected, batch, fetch, handled,
                   disturbed, faults>>

(* on_position: the reader stands at the new position, the stream is connected. *)
CaughtUp(w, c) ==
    /\ connected' = {c}
    /\ Positioned(w, c)
    /\ fetch' = {}

(***************************************************************************)
(* _process_position up to its first query: the stream is disconnected     *)
(* everywhere and the pending batch forgotten.  With nothing missing the   *)
(* POSITION is taken at once.                                              *)
(***************************************************************************)
ProcessPosition ==
    LET cmd == Head(queue).cmd
        c == Head(queue).conn IN
    /\ fetch = {}
    /\ queue # <<>>
    /\ cmd.type = "POSITION"
    /\ ~CanDiscardPosition(cmd, c)
    /\ queue' = Tail(queue)
    /\ batch' = <<>>
    /\ disturbed' = IF Foreign(cmd.writer)
                    THEN disturbed \cup {"batch"} ELSE disturbed
    /\ IF MissingUpdates(cmd)
       THEN /\ connected' = {}
            /\ fetch' = {[writer |-> cmd.writer, from |-> pos[cmd.writer],
                          new |-> cmd.new, conn |-> c]}
            /\ UNCHANGED <<pos, handled, positioned, stranded>>
       ELSE /\ OnRdata(cmd.writer, cmd.new, {})
            /\ CaughtUp(cmd.writer, c)
    /\ UNCHANGED <<tokens, writers, link, faults>>

(* A query for the missing updates returns; more may be left. *)
FetchMissing ==
    \E f \in fetch :
        LET ts == tokens[f.writer]
            u == Updates(ts, f.from, f.new)
            rows == RowsBetween(f.writer, ts, f.from, u.upto) IN
        /\ IF u.limited
           THEN /\ OnRdata(f.writer, Largest(WithRows(ts, f.from, u.upto)), rows)
                /\ fetch' = {[f EXCEPT !.from = u.upto]}
                /\ UNCHANGED <<connected, positioned, stranded>>
           ELSE /\ OnRdata(f.writer, f.new, rows)
                /\ CaughtUp(f.writer, f.conn)
        /\ UNCHANGED <<tokens, writers, link, batch, queue, disturbed, faults>>

(* A query raises: the POSITION is dropped, the stream stays disconnected. *)
FetchFails ==
    /\ fetch # {}
    /\ Fault("fetch")
    /\ fetch' = {}
    /\ positioned' = {}
    /\ stranded' = Writers
    /\ UNCHANGED <<tokens, writers, link, pos, connected, batch, handled, queue, disturbed>>

(* lost_connection *)
ReaderLost ==
    /\ online
    /\ Fault("reader")
    /\ online' = FALSE
    /\ connected' = connected \ {conn}
    /\ positioned' = {p \in positioned : p[1] # conn}
    /\ UNCHANGED <<tokens, writers, conn, pos, batch, fetch, handled,
                   stranded, queue, disturbed>>

(* _send_subscribe: the reader listens again, then asks for the positions. *)
ReaderConnects ==
    /\ ~online
    /\ online' = TRUE
    /\ conn' = conn + 1
    /\ asked' = Writers
    /\ UNCHANGED <<tokens, streamer, out, gap, reader, queue, disturbed, faults>>

--------------------------------------------------------------------------------
WriterStep(w) ==
    \/ Poke(w) \/ SendUpdates(w) \/ ReplicateArrives(w)
    \/ WriterConnects(w) \/ Greeted(w)

ReaderStep ==
    \/ ProcessRdata \/ DiscardPosition \/ ProcessPosition \/ FetchMissing
    \/ ReaderConnects

Next ==
    \/ \E w \in Writers : \E k \in KindsOf[w] : Write(w, k)
    \/ \E w \in Writers :
           \/ WriterStep(w) \/ Receive(w)
           \/ UpdatesFail(w) \/ WriterLost(w) \/ WriterCrash(w)
    \/ ReaderStep \/ FetchFails \/ ReaderLost

Spec == Init /\ [][Next]_vars

(***************************************************************************)
(* Each process goes on with something it can do: the looping call pokes,  *)
(* queries return, connections are made again, the queue is worked off.    *)
(* The network delivers or loses what was sent.                            *)
(***************************************************************************)
Fairness ==
    /\ \A w \in Writers : WF_vars(WriterStep(w)) /\ WF_vars(Receive(w))
    /\ WF_vars(ReaderStep)

FairSpec == Spec /\ Fairness

--------------------------------------------------------------------------------
(* Types of the variables: ReplicationStreamer at the writers, the stream's *)
(* positions in ReplicationCommandHandler at the reader.                    *)
TypeOK ==
    /\ tokens \in [Writers -> Seq(AllKinds)]
    /\ streamer \in [Writers ->
           [last : Nat, from : Nat, upto : Nat,
            looping : BOOLEAN, pending : BOOLEAN, announce : BOOLEAN,
            connected : BOOLEAN, greeting : BOOLEAN]]
    /\ \A w \in Writers : streamer[w].last <= Len(tokens[w])
    /\ asked \subseteq Writers
    /\ pos \in [Writers -> Nat]
    /\ \A w \in Writers : pos[w] <= Len(tokens[w])
    /\ online \in BOOLEAN
    /\ conn \in 1 .. 2
    /\ connected \subseteq 1 .. conn
    /\ Cardinality(fetch) <= 1
    /\ gap \subseteq Writers
    /\ positioned \subseteq (1 .. conn) \X Writers
    /\ disturbed \subseteq Hazards
    /\ stranded \subseteq Writers

(***************************************************************************)
(* As long as none of the hazards below has happened, the reader's         *)
(* position for a writer covers only rows it has been given, whatever is   *)
(* lost with connections and crashes, and however queries are limited:     *)
(*   "batch"      rows of a batch, kept per stream only, met a command of  *)
(*                another writer;                                          *)
(*   "connection" RDATA was taken on a connection where only another       *)
(*                writer's POSITION had been processed;                    *)
(*   "gap"        a writer that had passed tokens in silence went on with  *)
(*                RDATA, before it announced its position.                 *)
(***************************************************************************)
Rows == INSTANCE ReplicatedRows WITH
            Kinds <- AllKinds, broken <- (disturbed # {})

(* The stream implements the abstract reader: see ReplicatedRows. *)
Replicates == Rows!Spec

(* Handling RDATA and POSITION (_process_rdata, _process_position) leaves   *)
(* no row out behind a position, unless a hazard above has happened.        *)
NoRowMissed == disturbed = {} => Rows!Complete

(* The comment of _process_position: clearing the pending batches loses     *)
(* nothing, since "the fetching of the missing updates below will fetch all *)
(* rows in the batch".                                                      *)
NoRowMissedInBatch == disturbed \subseteq {"batch"} => Rows!Complete

(* The comment of _process_rdata: a POSITION on the connection is enough. *)
NoRowMissedOnConnection == disturbed \subseteq {"connection"} => Rows!Complete

(* docs/tcp_replication.md: tokens restart the stream on connection errors. *)
NoRowMissedInGap == disturbed \subseteq {"gap"} => Rows!Complete

(***************************************************************************)
(* For each writer the reader reaches its position and stays there, unless *)
(* a catch-up of _process_position raised and no POSITION of that writer   *)
(* came after it.                                                          *)
(***************************************************************************)
UpToDate(w) == pos[w] = Len(tokens[w])
CatchesUp == \A w \in Writers : <>[](UpToDate(w) \/ w \in stranded)

(* The comment of _process_rdata: a POSITION comes soon after dropped rows. *)
CatchesUpAlways == \A w \in Writers : <>[]UpToDate(w)
================================================================================
