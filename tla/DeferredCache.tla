------------------------------- MODULE DeferredCache -------------------------------
(***************************************************************************)
(* The caches in front of the database (util/caches/deferred_cache.py, as  *)
(* the descriptors of @cached and @cachedList use them).  A lookup that    *)
(* misses starts a fetch and leaves a pending entry; whatever comes of it  *)
(* is cached only if its entry is still the pending one.  A change of the  *)
(* database is followed, some time after its commit, by an invalidation or *)
(* by the prefill of the new value.                                        *)
(*                                                                         *)
(* A second cached function uses the value of the key OuterKey: it gives   *)
(* its own invalidation as a callback (cache_context.invalidate) to the    *)
(* lookup of that key.  Values are versions of the database's rows.        *)
(***************************************************************************)
EXTENDS Naturals, FiniteSets

CONSTANTS
    Keys,
    OuterKey,       \* the key that the outer function looks up
    Fetches,        \* calls of the cached function that may be under way
    MaxVersion      \* bound on the changes of a row

(* The outer function's key is one of them; versions are counted from 0. *)
KeysAssumption == OuterKey \in Keys /\ MaxVersion \in Nat

Absent == MaxVersion + 1
Nobody == [keys |-> {}, read |-> FALSE, values |-> [k \in Keys |-> 0], hooked |-> FALSE]

VARIABLES
    db,             \* the version of each row
    unapplied,      \* versions whose invalidation or prefill is yet to come
    cache,          \* DeferredCache.cache: a version or Absent
    pending,        \* _pending_deferred_cache: the fetch of the entry, if any
    fetch,          \* the fetches: their keys, and what they have read.  hooked:
                    \*   the outer function's callback is on the entry
    nodeHook,       \* the callback is on the LruCache node of OuterKey
    outer,          \* the outer cache: a version or Absent
    outerCall,      \* a call of the outer function: "none", the fetch that it
                    \*   waits for, or the version that it goes by
    outerPending,   \* its entry is still the pending one
    misordered      \* history: keys prefilled after a newer version was applied

vars == <<db, unapplied, cache, pending, fetch, nodeHook, outer, outerCall, outerPending, misordered>>
outerVars == <<outer, outerCall, outerPending>>

NoEntry == [k \in Keys |-> {}]

Init ==
    /\ db = [k \in Keys |-> 0]
    /\ unapplied = [k \in Keys |-> {}]
    /\ cache = [k \in Keys |-> Absent]
    /\ pending = NoEntry
    /\ fetch = [f \in Fetches |-> Nobody]
    /\ nodeHook = FALSE
    /\ outer = Absent
    /\ outerCall = [at |-> "none", fetch |-> {}, version |-> 0]
    /\ outerPending = FALSE
    /\ misordered = {}

(* The callbacks, if they are to be run: the outer cache's invalidate.      *)
RunHook(run) ==
    /\ outer' = IF run THEN Absent ELSE outer
    /\ outerPending' = (outerPending /\ ~run)
------------------------------------------------------------------------------
(* A transaction commits; what follows it comes later (txn.call_after, the  *)
(* caches stream, or code after the transaction).                           *)
Commit(k) ==
    /\ db[k] < MaxVersion
    /\ db' = [db EXCEPT ![k] = @ + 1]
    /\ unapplied' = [unapplied EXCEPT ![k] = @ \cup {db[k] + 1}]
    /\ UNCHANGED <<cache, pending, fetch, nodeHook, outerVars, misordered>>

(* DeferredCache.invalidate: the cached value and the pending entry go.     *)
Invalidate(k, v) ==
    /\ v \in unapplied[k]
    /\ unapplied' = [unapplied EXCEPT ![k] = @ \ {v}]
    /\ cache' = [cache EXCEPT ![k] = Absent]
    /\ pending' = [pending EXCEPT ![k] = {}]
    /\ nodeHook' = (nodeHook /\ k # OuterKey)
    /\ RunHook(k = OuterKey /\ (nodeHook \/ \E f \in pending[k] : fetch[f].hooked))
    /\ UNCHANGED <<db, fetch, outerCall, misordered>>

(* DeferredCache.prefill with what was written.  It runs no callback of a   *)
(* pending entry; no function with a cache_context looks up such a cache.   *)
Prefill(k, v) ==
    /\ v \in unapplied[k]
    /\ k # OuterKey
    /\ unapplied' = [unapplied EXCEPT ![k] = @ \ {v}]
    /\ cache' = [cache EXCEPT ![k] = v]
    /\ pending' = [pending EXCEPT ![k] = {}]
    /\ misordered' = misordered \cup (IF v < db[k] /\ db[k] \notin unapplied[k] THEN {k} ELSE {})
    /\ UNCHANGED <<db, fetch, nodeHook, outerVars>>

(* The LruCache makes room. *)
Evict(k) ==
    /\ cache[k] # Absent
    /\ cache' = [cache EXCEPT ![k] = Absent]
    /\ nodeHook' = (nodeHook /\ k # OuterKey)
    /\ RunHook(k = OuterKey /\ nodeHook)
    /\ UNCHANGED <<db, unapplied, pending, fetch, outerCall, misordered>>
------------------------------------------------------------------------------
Missing(k) == cache[k] = Absent /\ pending[k] = {}

(* The entry of a new fetch: set for one key, start_bulk_input for more.    *)
Enter(f, ks, hooked) ==
    /\ fetch[f] = Nobody
    /\ fetch' = [fetch EXCEPT ![f] = [Nobody EXCEPT !.keys = ks, !.hooked = hooked]]
    /\ pending' = [k \in Keys |-> IF k \in ks THEN {f} ELSE pending[k]]

Lookup(f, ks) ==
    /\ ks # {}
    /\ \A k \in ks : Missing(k)
    /\ Enter(f, ks, FALSE)
    /\ UNCHANGED <<db, unapplied, cache, nodeHook, outerVars, misordered>>

Read(f) ==
    /\ fetch[f].keys # {} /\ ~fetch[f].read
    /\ fetch' = [fetch EXCEPT ![f].read = TRUE, ![f].values = db]
    /\ UNCHANGED <<db, unapplied, cache, pending, nodeHook, outerVars, misordered>>

(* Deviation: whatever was fetched is cached. *)
AllKeys(f) == fetch[f].keys

(* _completed_callback: the keys whose current entry matches. *)
StillCurrent(f) == {k \in fetch[f].keys : pending[k] = {f}}

(* Deviation: the callbacks are not handed on to the cache. *)
HookLost(f) == nodeHook
HookKept(f) == nodeHook \/ (OuterKey \in StillCurrent(f) /\ fetch[f].hooked)

Waits(f) == outerCall.at = "waits" /\ outerCall.fetch = {f}

(* complete_bulk, or the callback of a single entry. *)
Complete(f) ==
    /\ fetch[f].read
    /\ cache' = [k \in Keys |-> IF k \in StillCurrent(f) THEN fetch[f].values[k] ELSE cache[k]]
    /\ pending' = [k \in Keys |-> pending[k] \ {f}]
    /\ nodeHook' = HookKept(f)
    /\ fetch' = [fetch EXCEPT ![f] = Nobody]
    /\ outerCall' = IF Waits(f)
                      THEN [at |-> "got", fetch |-> {}, version |-> fetch[f].values[OuterKey]]
                      ELSE outerCall
    /\ UNCHANGED <<db, unapplied, outer, outerPending, misordered>>

(* error_bulk, or _error_callback: runs the callbacks of the entry if it is *)
(* current; who waits for it fails too.                                     *)
Fail(f) ==
    /\ fetch[f].keys # {}
    /\ pending' = [k \in Keys |-> pending[k] \ {f}]
    /\ fetch' = [fetch EXCEPT ![f] = Nobody]
    /\ RunHook(Waits(f) \/ (OuterKey \in StillCurrent(f) /\ fetch[f].hooked))
    /\ outerCall' = IF Waits(f) THEN [outerCall EXCEPT !.at = "none", !.fetch = {}] ELSE outerCall
    /\ UNCHANGED <<db, unapplied, cache, nodeHook, misordered>>
------------------------------------------------------------------------------
(* A call of the outer function that misses: it looks OuterKey up with its  *)
(* callback, in the pending entries first (DeferredCache.get).              *)
CallOuter ==
    /\ outer = Absent /\ outerCall.at = "none"
    /\ outerPending' = TRUE
    /\ \/ /\ pending[OuterKey] # {}
          /\ fetch' = [f \in Fetches |-> IF f \in pending[OuterKey]
                                           THEN [fetch[f] EXCEPT !.hooked = TRUE] ELSE fetch[f]]
          /\ outerCall' = [outerCall EXCEPT !.at = "waits", !.fetch = pending[OuterKey]]
          /\ UNCHANGED <<pending, nodeHook>>
       \/ /\ pending[OuterKey] = {} /\ cache[OuterKey] # Absent
          /\ nodeHook' = TRUE
          /\ outerCall' = [outerCall EXCEPT !.at = "got", !.version = cache[OuterKey]]
          /\ UNCHANGED <<pending, fetch>>
       \/ /\ Missing(OuterKey)
          /\ \E f \in Fetches : /\ Enter(f, {OuterKey}, TRUE)
                                /\ outerCall' = [outerCall EXCEPT !.at = "waits", !.fetch = {f}]
          /\ UNCHANGED nodeHook
    /\ UNCHANGED <<db, unapplied, cache, outer, misordered>>

(* Its own _completed_callback. *)
OuterDone ==
    /\ outerCall.at = "got"
    /\ outer' = IF outerPending THEN outerCall.version ELSE outer
    /\ outerPending' = FALSE
    /\ outerCall' = [at |-> "none", fetch |-> {}, version |-> 0]
    /\ UNCHANGED <<db, unapplied, cache, pending, fetch, nodeHook, misordered>>

Next ==
    \/ \E k \in Keys : \/ Commit(k) \/ Evict(k)
                       \/ \E v \in unapplied[k] : Invalidate(k, v) \/ Prefill(k, v)
    \/ \E f \in Fetches : \/ \E ks \in SUBSET Keys : Lookup(f, ks)
                          \/ Read(f) \/ Complete(f) \/ Fail(f)
    \/ CallOuter \/ OuterDone

Spec == Init /\ [][Next]_vars
------------------------------------------------------------------------------
FetchRecords == [keys : SUBSET Keys, read : BOOLEAN, values : [Keys -> 0 .. MaxVersion],
                 hooked : BOOLEAN]
CallRecords == [at : {"none", "waits", "got"}, fetch : SUBSET Fetches, version : 0 .. Absent]

(* Types of the variables (DeferredCache); a key has one pending entry at   *)
(* most, of a fetch that is under way: a lookup never waits for ever.       *)
TypeOK ==
    /\ db \in [Keys -> 0 .. MaxVersion]
    /\ unapplied \in [Keys -> SUBSET (1 .. MaxVersion)]
    /\ cache \in [Keys -> 0 .. Absent]
    /\ pending \in [Keys -> SUBSET Fetches]
    /\ fetch \in [Fetches -> FetchRecords]
    /\ \A k \in Keys : \A f, g \in pending[k] : f = g /\ k \in fetch[f].keys
    /\ nodeHook \in BOOLEAN
    /\ outer \in 0 .. Absent
    /\ outerCall \in CallRecords
    /\ outerPending \in BOOLEAN
    /\ misordered \subseteq Keys

(* Once every change has been followed up, what is cached, or will be from  *)
(* a read that has been made, is what the database holds: no fetch that an  *)
(* invalidation overtook brings the old value back ("(a) stop it being      *)
(* returned for future queries and (b) stop it being persisted").  Prefills *)
(* out of order are the exception.                                          *)
NoStale ==
    \A k \in Keys \ misordered :
        unapplied[k] = {} =>
            /\ cache[k] \in {Absent, db[k]}
            /\ \A f \in pending[k] : fetch[f].read => fetch[f].values[k] = db[k]

(* The same for a cached function that used the value of another, through   *)
(* the callbacks that go from the pending entry to the cached value.        *)
OuterNotStale == unapplied[OuterKey] = {} => outer \in {Absent, db[OuterKey]}
==============================================================================
