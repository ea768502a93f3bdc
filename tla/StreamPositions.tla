---------------------------- MODULE StreamPositions ----------------------------
(***************************************************************************)
(* The bookkeeping of one MultiWriterIdGenerator object                    *)
(* (synapse/storage/util/id_generators.py) as pure operators on a record.  *)
(* A generator record g holds, under shorter names, the fields of the      *)
(* object:                                                                 *)
(*   positions      _current_positions                                     *)
(*   unfinished     _unfinished_ids                                        *)
(*   inFlight       _in_flight_fetches, each mark tagged with the thread   *)
(*                  that added it (the list may hold one mark twice)       *)
(*   finished       _finished_ids                                          *)
(*   persistedUpto  _persisted_upto_position                               *)
(*   known          _known_persisted_positions (a heap whose duplicates    *)
(*                  are popped together)                                   *)
(*   maxSeen        _max_seen_allocated_stream_id                          *)
(*   maxLocal       _max_position_of_local_instance                        *)
(* Every operator is the body of one `with self._lock` block: the lock     *)
(* makes it one atomic step of the machine that uses it.                   *)
(***************************************************************************)
EXTENDS Naturals, FiniteSets, FiniteSetsExt

CONSTANTS
    Writers,   \* the explicit `writers` list of the stream
    Threads    \* the concurrent users of the generators (get_next blocks)

(* A new sequence is at 1: the first ID it hands out is 2. *)
FirstPosition == 1

(* `stream_positions` has no row for the writer. *)
NoEntry == 0

Generator ==
    [ positions     : [Writers -> Nat],
      unfinished    : SUBSET Nat,
      inFlight      : SUBSET (Threads \X Nat),
      finished      : SUBSET Nat,
      persistedUpto : Nat,
      known         : SUBSET Nat,
      maxSeen       : Nat,
      maxLocal      : Nat ]

(* The larger of two positions: python's two-argument max. *)
Larger(x, y) == IF x >= y THEN x ELSE y

(* The generator has no write in progress. *)
NothingInProgress(g) == g.unfinished = {} /\ g.inFlight = {}

(***************************************************************************)
(* The minimum position across the writers.  Our own position is left out  *)
(* while we have no write in progress, unless we are the only writer.      *)
(***************************************************************************)
MinCurr(g, self) ==
    LET others == Writers \ {self}
        counted == IF NothingInProgress(g) /\ others # {} THEN others ELSE Writers
    IN  Min({g.positions[w] : w \in counted})

(* Deviation: the loop pops whatever is known, gaps or not. *)
SkipAnyKnown(known, upto) == Max({upto} \cup known)

(***************************************************************************)
(* Where the loop at the end of _add_persisted_position stops: upto is     *)
(* moved over the run of known positions that starts right after it.       *)
(***************************************************************************)
SkipForward(known, upto) ==
    CHOOSE n \in {upto} \cup known :
        /\ n >= upto
        /\ (upto + 1) .. n \subseteq known
        /\ n + 1 \notin known

(***************************************************************************)
(* _add_persisted_position, called for the new positions in `new`.  The    *)
(* maximum local position is raised from the persisted-up-to position      *)
(* BEFORE the latter skips forward.                                        *)
(***************************************************************************)
AddPersistedPosition(g, self, new) ==
    LET base == Larger(MinCurr(g, self), g.persistedUpto)
        known == g.known \cup new
        upto == SkipForward(known, base)
        reached == Larger(g.maxLocal, base)
    IN  [g EXCEPT !.persistedUpto = upto,
                  !.known = {k \in known : k > upto},
                  !.maxLocal = IF NothingInProgress(g)
                               THEN Larger(g.maxSeen, reached) ELSE reached]

(***************************************************************************)
(* The calls of _add_persisted_position for several IDs in ascending       *)
(* order.  Only the last call raises the maximum local position by what    *)
(* the earlier ones skipped over.                                          *)
(***************************************************************************)
AddPersistedPositions(g, self, ids) ==
    LET last == Max(ids)
        before == IF ids = {last} THEN g
                  ELSE AddPersistedPosition(g, self, ids \ {last})
    IN  AddPersistedPosition(before, self, {last})

(* Deviation: in-flight fetches do not count as unfinished. *)
UnfinishedFloorIgnoringFetches(g) == g.unfinished

(***************************************************************************)
(* _mark_ids_as_finished: the writer's own position moves to the largest   *)
(* finished ID below everything unfinished, an in-flight fetch counting    *)
(* as unfinished from just above its mark.                                 *)
(***************************************************************************)
UnfinishedFloor(g) == g.unfinished \cup {f[2] + 1 : f \in g.inFlight}

(* The finished IDs the writer's position may move over. *)
Passable(g) ==
    LET floor == UnfinishedFloor(g)
    IN  {s \in g.finished : \A u \in floor : s < u}

MoveOwnPosition(g, self, ids) ==
    LET g1 == [g EXCEPT !.unfinished = @ \ ids, !.finished = @ \cup ids]
        passed == Passable(g1)
        newCur == Max(passed)
    IN  IF passed = {} THEN g1
        ELSE [g1 EXCEPT !.finished = @ \ passed,
                        !.positions[self] = Larger(@, newCur),
                        !.maxLocal = Larger(g1.positions[self], Larger(newCur, @))]

MarkIdsAsFinished(g, self, ids) ==
    AddPersistedPositions(MoveOwnPosition(g, self, ids), self, ids)

(* advance: writer w was announced to be at position p. *)
NotePosition(g, w, p) ==
    [g EXCEPT !.positions[w] = Larger(p, @), !.maxSeen = Larger(@, p)]

AdvancePosition(g, self, w, p) ==
    AddPersistedPosition(NotePosition(g, w, p), self, {p})

(* _load_next_mult_id_txn, its first, second and last lock blocks. *)
BeginFetch(g, t) == [g EXCEPT !.inFlight = @ \cup {<<t, g.maxSeen>>}]

RegisterFetched(g, ids) ==
    LET unfinished == g.unfinished \cup ids
    IN  [g EXCEPT !.unfinished = unfinished,
                  !.maxSeen = Larger(@, Max(unfinished))]

(* Deviation: the mark is not removed. *)
EndFetchLeavingMark(g, t) == g

EndFetch(g, t) == [g EXCEPT !.inFlight = {f \in @ : f[1] # t}]

(* get_current_token_for_writer. *)
CurrentTokenForWriter(g, self, w) ==
    IF w = self THEN g.maxLocal ELSE Larger(g.positions[w], g.persistedUpto)

(***************************************************************************)
(* _load_current_ids and the end of __init__: the record a starting        *)
(* process builds from the stream_positions table, the stream's rows and   *)
(* the sequence's last value.                                              *)
(***************************************************************************)
LoadCurrentIds(self, table, rows, lastValue) ==
    LET loaded == {w \in Writers : table[w] # NoEntry \/ w = self}
        read == [w \in Writers |-> IF w = self THEN lastValue ELSE table[w]]
        minId == Min({read[w] : w \in loaded})
        later == {r \in rows : r[2] >= minId}
        own == {r[2] : r \in {q \in later : q[1] = self}}
        persisted == {r[2] : r \in later}
        upto == IF loaded = {} THEN Max({FirstPosition} \cup {r[2] : r \in rows})
                ELSE SkipForward(persisted, minId)
        positions == [w \in Writers |->
                        IF w \notin loaded THEN upto
                        ELSE IF w = self /\ own # {} THEN Max(own)
                        ELSE read[w]]
        maxSeen == Larger(Max({positions[w] : w \in Writers}), upto)
    IN  [ positions     |-> positions,
          unfinished    |-> {},
          inFlight      |-> {},
          finished      |-> {},
          persistedUpto |-> upto,
          known         |-> IF loaded = {} THEN {} ELSE {k \in persisted : k > upto},
          maxSeen       |-> maxSeen,
          maxLocal      |-> maxSeen ]

(* The record of a process started before anything was ever written. *)
NewGenerator ==
    [ positions     |-> [w \in Writers |-> FirstPosition],
      unfinished    |-> {},
      inFlight      |-> {},
      finished      |-> {},
      persistedUpto |-> FirstPosition,
      known         |-> {},
      maxSeen       |-> FirstPosition,
      maxLocal      |-> FirstPosition ]
================================================================================
