---------------------------- MODULE Components_proofs ----------------------------
(***************************************************************************)
(* Two components that share no state.                                     *)
(*                                                                         *)
(* The caches (DeferredCache): no value that an invalidation dropped comes *)
(* back, into a cache or into that of a function that used it, for any set *)
(* of keys and any number of fetches and changes.                          *)
(*                                                                         *)
(* The task scheduler (TaskScheduler, from TS on): the end of a task is    *)
(* final, for any set of tasks, any capacity and any number of faults.     *)
(***************************************************************************)
EXTENDS Components, TLAPS

(* Follow-ups are of versions that were written. *)
Written == \A k \in Keys : \A v \in unapplied[k] : v <= db[k]

(* v is what the database holds for k, or the newest version's invalidation *)
(* or prefill is still to come.                                             *)
Fresh(k, v) == k \in misordered \/ v = db[k] \/ db[k] \in unapplied[k]

CacheFresh == \A k \in Keys : cache[k] # Absent => Fresh(k, cache[k])

FetchFresh ==
    \A k \in Keys : \A f \in pending[k] : fetch[f].read => Fresh(k, fetch[f].values[k])

(* A key that is cached has no pending entry. *)
OneOrOther == \A k \in Keys : cache[k] # Absent => pending[k] = {}

(* The outer function goes by the cached value and has its callback there,  *)
(* or by the pending entry and has it on that.                              *)
Hooked(v) == nodeHook /\ cache[OuterKey] = v
CallFollows ==
    \/ outerCall.at = "got" /\ Hooked(outerCall.version)
    \/ /\ outerCall.at = "waits"
       /\ \E f \in pending[OuterKey] : outerCall.fetch = {f} /\ fetch[f].hooked
OuterFollows ==
    /\ OuterKey \notin misordered
    /\ nodeHook => cache[OuterKey] # Absent
    /\ outer # Absent => Hooked(outer)
    /\ outerPending => CallFollows

IInv == TypeOK /\ Written /\ CacheFresh /\ FetchFresh /\ OneOrOther /\ OuterFollows

(* Nothing is cached or being fetched at the start. *)
LEMMA InitIInv == KeysAssumption /\ Init => IInv
<1> SUFFICES ASSUME KeysAssumption, Init PROVE IInv
  OBVIOUS
<1>1. Nobody \in FetchRecords
  BY DEF Nobody, FetchRecords, KeysAssumption
<1>2. outerCall \in CallRecords
  BY DEF Init, CallRecords, Absent, KeysAssumption
<1>3. TypeOK
  <2>1. /\ db \in [Keys -> 0 .. MaxVersion]
        /\ unapplied \in [Keys -> SUBSET (1 .. MaxVersion)]
        /\ outer \in 0 .. Absent
    BY DEF Init, Absent, KeysAssumption
  <2>2. cache \in [Keys -> 0 .. Absent]
    BY DEF Init, Absent, KeysAssumption
  <2>3. /\ pending \in [Keys -> SUBSET Fetches]
        /\ \A k \in Keys : \A f, g \in pending[k] : f = g /\ k \in fetch[f].keys
    BY DEF Init, NoEntry
  <2>4. fetch \in [Fetches -> FetchRecords]
    BY <1>1 DEF Init
  <2>5. QED
    BY <1>2, <2>1, <2>2, <2>3, <2>4 DEF Init, TypeOK
<1>4. Written /\ CacheFresh /\ FetchFresh /\ OneOrOther /\ OuterFollows
  BY DEF Init, NoEntry, Written, CacheFresh, FetchFresh, OneOrOther, OuterFollows, KeysAssumption
<1>5. QED
  BY <1>3, <1>4 DEF IInv

(* A change of a row: the newest version is still to be applied, so        *)
(* everything is fresh.                                                    *)
LEMMA CommitStep ==
    ASSUME KeysAssumption, IInv, NEW k \in Keys, Commit(k)
    PROVE  IInv'
<1> USE DEF IInv
<1>1. /\ db' = [db EXCEPT ![k] = db[k] + 1]
      /\ unapplied' = [unapplied EXCEPT ![k] = unapplied[k] \cup {db[k] + 1}]
      /\ UNCHANGED <<cache, pending, fetch, nodeHook, outer, outerCall, outerPending, misordered>>
      /\ db[k] + 1 \in 1 .. MaxVersion
  BY DEF Commit, outerVars, TypeOK, KeysAssumption
<1>2. TypeOK'
  BY <1>1 DEF TypeOK
<1>3. Written'
  BY <1>1 DEF TypeOK, Written
<1>4. \A j \in Keys : \A v : Fresh(j, v) => Fresh(j, v)'
  BY <1>1 DEF TypeOK, Fresh
<1>5. CacheFresh' /\ FetchFresh'
  BY <1>1, <1>4 DEF CacheFresh, FetchFresh
<1>6. OneOrOther' /\ OuterFollows'
  BY <1>1 DEF OneOrOther, OuterFollows, CallFollows, Hooked
<1>7. QED
  BY <1>2, <1>3, <1>5, <1>6

(* invalidate drops the entry, the pending one too, with the callbacks of  *)
(* both.                                                                   *)
LEMMA InvalidateStep ==
    ASSUME KeysAssumption, IInv, NEW k \in Keys, NEW v, Invalidate(k, v)
    PROVE  IInv'
<1> USE DEF IInv
<1>1. /\ unapplied' = [unapplied EXCEPT ![k] = unapplied[k] \ {v}]
      /\ cache' = [cache EXCEPT ![k] = Absent]
      /\ pending' = [pending EXCEPT ![k] = {}]
      /\ nodeHook' = (nodeHook /\ k # OuterKey)
      /\ UNCHANGED <<db, fetch, outerCall, misordered>>
  BY DEF Invalidate
<1>2. TypeOK'
  BY <1>1 DEF Invalidate, RunHook, TypeOK, Absent, KeysAssumption
<1>3. Written'
  BY <1>1 DEF TypeOK, Written
<1>4. \A j \in Keys \ {k} : \A x : Fresh(j, x) => Fresh(j, x)'
  BY <1>1 DEF TypeOK, Fresh
<1>5. CacheFresh' /\ FetchFresh'
  BY <1>1, <1>4 DEF TypeOK, CacheFresh, FetchFresh
<1>6. OneOrOther'
  BY <1>1 DEF TypeOK, OneOrOther
<1>7. OuterFollows'
  <2>1. CASE k = OuterKey
    <3>1. outer' = Absent /\ outerPending' = FALSE
      BY <2>1 DEF Invalidate, RunHook, OuterFollows, CallFollows, Hooked, TypeOK
    <3> QED
      BY <1>1, <2>1, <3>1 DEF OuterFollows, CallFollows
  <2>2. CASE k # OuterKey
    BY <1>1, <2>2 DEF Invalidate, RunHook, OuterFollows, CallFollows, Hooked, TypeOK, KeysAssumption
  <2> QED
    BY <2>1, <2>2
<1>8. QED
  BY <1>2, <1>3, <1>5, <1>6, <1>7

(* prefill puts a version in; an older one than the newest applied is the  *)
(* exception misordered.                                                   *)
LEMMA PrefillStep ==
    ASSUME KeysAssumption, IInv, NEW k \in Keys, NEW v \in unapplied[k], Prefill(k, v)
    PROVE  IInv'
<1> USE DEF IInv
<1>1. /\ unapplied' = [unapplied EXCEPT ![k] = unapplied[k] \ {v}]
      /\ cache' = [cache EXCEPT ![k] = v]
      /\ pending' = [pending EXCEPT ![k] = {}]
      /\ misordered \subseteq misordered' /\ misordered' \subseteq misordered \cup {k}
      /\ v < db[k] /\ db[k] \notin unapplied[k] => k \in misordered'
      /\ UNCHANGED <<db, fetch, nodeHook, outer, outerCall, outerPending>>
      /\ k # OuterKey
  BY DEF Prefill, outerVars
<1>2. v \in 1 .. MaxVersion /\ v <= db[k] /\ db[k] \in Nat
  BY DEF TypeOK, Written
<1>3. TypeOK'
  BY <1>1, <1>2 DEF TypeOK, Absent, KeysAssumption
<1>4. Written'
  BY <1>1 DEF TypeOK, Written
<1>5. \A j \in Keys \ {k} : \A x : Fresh(j, x) => Fresh(j, x)'
  BY <1>1 DEF TypeOK, Fresh
<1>6. Fresh(k, v)'
  BY <1>1, <1>2 DEF TypeOK, Fresh
<1>7. CacheFresh' /\ FetchFresh'
  BY <1>1, <1>5, <1>6 DEF TypeOK, CacheFresh, FetchFresh
<1>8. OneOrOther' /\ OuterFollows'
  BY <1>1 DEF TypeOK, OneOrOther, OuterFollows, CallFollows, Hooked, KeysAssumption
<1>9. QED
  BY <1>3, <1>4, <1>7, <1>8

(* Eviction of an entry runs its callbacks. *)
LEMMA EvictStep ==
    ASSUME KeysAssumption, IInv, NEW k \in Keys, Evict(k)
    PROVE  IInv'
<1> USE DEF IInv
<1>1. /\ cache' = [cache EXCEPT ![k] = Absent]
      /\ nodeHook' = (nodeHook /\ k # OuterKey)
      /\ UNCHANGED <<db, unapplied, pending, fetch, outerCall, misordered>>
  BY DEF Evict
<1>2. TypeOK'
  BY <1>1 DEF Evict, RunHook, TypeOK, Absent, KeysAssumption
<1>3. Written' /\ CacheFresh' /\ FetchFresh' /\ OneOrOther'
  BY <1>1 DEF TypeOK, Written, CacheFresh, FetchFresh, OneOrOther, Fresh
<1>4. OuterFollows'
  BY <1>1 DEF Evict, RunHook, OuterFollows, CallFollows, Hooked, TypeOK, KeysAssumption, OneOrOther
<1>5. QED
  BY <1>2, <1>3, <1>4

(* A new entry is of a fetch that has read nothing. *)
LEMMA EnterProps ==
    ASSUME KeysAssumption, IInv, NEW f \in Fetches, NEW ks \in SUBSET Keys, NEW h \in BOOLEAN,
           Enter(f, ks, h), \A k \in ks : Missing(k)
    PROVE  /\ pending' \in [Keys -> SUBSET Fetches]
           /\ fetch' \in [Fetches -> FetchRecords]
           /\ \A k \in Keys : f \notin pending[k]
           /\ \A k \in Keys : pending'[k] = IF k \in ks THEN {f} ELSE pending[k]
           /\ fetch'[f].keys = ks /\ ~fetch'[f].read /\ fetch'[f].hooked = h
           /\ \A g \in Fetches \ {f} : fetch'[g] = fetch[g]
           /\ \A k \in Keys : \A a, b \in pending'[k] : a = b /\ k \in fetch'[a].keys
<1> USE DEF IInv
<1>1. \A k \in Keys : f \notin pending[k]
  BY DEF TypeOK, Enter, Nobody
<1>2. Nobody \in FetchRecords
  BY DEF Nobody, FetchRecords, KeysAssumption
<1>3. fetch' = [fetch EXCEPT ![f] = [Nobody EXCEPT !.keys = ks, !.hooked = h]]
  BY DEF Enter
<1>4. /\ pending' \in [Keys -> SUBSET Fetches]
      /\ \A k \in Keys : pending'[k] = IF k \in ks THEN {f} ELSE pending[k]
  BY DEF Enter, TypeOK
<1>5. /\ fetch'[f].keys = ks /\ ~fetch'[f].read /\ fetch'[f].hooked = h
      /\ \A g \in Fetches \ {f} : fetch'[g] = fetch[g]
  BY <1>3 DEF TypeOK, Nobody
<1>6. fetch' \in [Fetches -> FetchRecords]
  <2>1. [Nobody EXCEPT !.keys = ks, !.hooked = h] \in FetchRecords
    BY <1>2 DEF FetchRecords
  <2> QED
    BY <1>3, <2>1 DEF TypeOK
<1>7. \A k \in Keys : \A a, b \in pending'[k] : a = b /\ k \in fetch'[a].keys
  BY <1>1, <1>4, <1>5 DEF TypeOK
<1>8. QED
  BY <1>1, <1>4, <1>5, <1>6, <1>7

(* What a new fetch with a callback enters. *)
LEMMA EnterHooked ==
    ASSUME KeysAssumption, IInv, NEW f \in Fetches, NEW ks \in SUBSET Keys,
           Enter(f, ks, TRUE), \A k \in ks : Missing(k)
    PROVE  /\ pending' \in [Keys -> SUBSET Fetches]
           /\ fetch' \in [Fetches -> FetchRecords]
           /\ \A k \in Keys : f \notin pending[k]
           /\ \A k \in Keys : pending'[k] = IF k \in ks THEN {f} ELSE pending[k]
           /\ ~fetch'[f].read /\ fetch'[f].hooked
           /\ \A g \in Fetches \ {f} : fetch'[g] = fetch[g]
           /\ \A k \in Keys : \A a, b \in pending'[k] : a = b /\ k \in fetch'[a].keys
<1> PICK h \in BOOLEAN : h
  OBVIOUS
<1>1. Enter(f, ks, h)
  BY DEF Enter
<1>2. QED
  BY <1>1, EnterProps

(* A lookup of keys that are neither cached nor pending starts a fetch. *)
LEMMA LookupStep ==
    ASSUME KeysAssumption, IInv, NEW f \in Fetches, NEW ks \in SUBSET Keys, Lookup(f, ks)
    PROVE  IInv'
<1> USE DEF IInv
<1>1. /\ Enter(f, ks, FALSE) /\ \A k \in ks : Missing(k)
      /\ UNCHANGED <<db, unapplied, cache, nodeHook, outer, outerCall, outerPending, misordered>>
  BY DEF Lookup, outerVars
<1>2. /\ pending' \in [Keys -> SUBSET Fetches]
      /\ fetch' \in [Fetches -> FetchRecords]
      /\ \A k \in Keys : f \notin pending[k]
      /\ \A k \in Keys : pending'[k] = IF k \in ks THEN {f} ELSE pending[k]
      /\ ~fetch'[f].read
      /\ \A g \in Fetches \ {f} : fetch'[g] = fetch[g]
      /\ \A k \in Keys : \A a, b \in pending'[k] : a = b /\ k \in fetch'[a].keys
  BY <1>1, EnterProps
<1>3. TypeOK'
  BY <1>1, <1>2 DEF TypeOK
<1>4. Written' /\ CacheFresh' /\ OneOrOther'
  BY <1>1, <1>2 DEF Written, CacheFresh, OneOrOther, Fresh, Missing
<1>5. FetchFresh'
  BY <1>1, <1>2 DEF FetchFresh, Fresh, TypeOK
<1>6. OuterFollows'
  BY <1>1, <1>2 DEF OuterFollows, CallFollows, Hooked, Missing, TypeOK, KeysAssumption
<1>7. QED
  BY <1>3, <1>4, <1>5, <1>6

(* The fetch reads the newest versions. *)
LEMMA ReadStep ==
    ASSUME KeysAssumption, IInv, NEW f \in Fetches, Read(f)
    PROVE  IInv'
<1> USE DEF IInv
<1>1. /\ fetch' = [fetch EXCEPT ![f].read = TRUE, ![f].values = db]
      /\ UNCHANGED <<db, unapplied, cache, pending, nodeHook, outer, outerCall, outerPending,
                     misordered>>
  BY DEF Read, outerVars
<1>2. \A g \in Fetches : /\ fetch'[g].keys = fetch[g].keys /\ fetch'[g].hooked = fetch[g].hooked
                         /\ g # f => fetch'[g] = fetch[g]
                         /\ fetch'[f].values = db
  BY <1>1 DEF TypeOK
<1>3. TypeOK'
  <2>1. [[fetch[f] EXCEPT !.read = TRUE] EXCEPT !.values = db] \in FetchRecords
    <3>1. ASSUME NEW x \in FetchRecords, NEW d \in [Keys -> 0 .. MaxVersion]
          PROVE  [[x EXCEPT !.read = TRUE] EXCEPT !.values = d] \in FetchRecords
      BY DEF FetchRecords
    <3> QED
      BY <3>1 DEF TypeOK
  <2>2. fetch' \in [Fetches -> FetchRecords]
    BY <1>1, <2>1 DEF TypeOK
  <2> QED
    BY <1>1, <1>2, <2>2 DEF TypeOK
<1>4. Written' /\ CacheFresh' /\ OneOrOther'
  BY <1>1 DEF Written, CacheFresh, OneOrOther, Fresh
<1>5. FetchFresh'
  BY <1>1, <1>2 DEF FetchFresh, Fresh, TypeOK
<1>6. OuterFollows'
  BY <1>1, <1>2 DEF OuterFollows, CallFollows, Hooked, TypeOK, KeysAssumption
<1>7. QED
  BY <1>3, <1>4, <1>5, <1>6

(* The end of a fetch takes its entries away and leaves the others. *)
LEMMA EndOfFetch ==
    ASSUME KeysAssumption, IInv, NEW f \in Fetches,
           pending' = [k \in Keys |-> pending[k] \ {f}],
           fetch' = [fetch EXCEPT ![f] = Nobody]
    PROVE  /\ pending' \in [Keys -> SUBSET Fetches]
           /\ fetch' \in [Fetches -> FetchRecords]
           /\ \A g \in Fetches \ {f} : fetch'[g] = fetch[g]
           /\ \A k \in Keys : f \notin pending'[k] /\ pending'[k] \subseteq pending[k]
           /\ \A k \in Keys : \A a, b \in pending'[k] : a = b /\ k \in fetch'[a].keys
<1>1. Nobody \in FetchRecords
  BY DEF Nobody, KeysAssumption, FetchRecords
<1>2. fetch' \in [Fetches -> FetchRecords]
  BY <1>1 DEF IInv, TypeOK
<1>3. QED
  BY <1>2 DEF IInv, TypeOK

(* _completed_callback: a fetch settles the keys whose pending entry is    *)
(* still its own.                                                          *)
LEMMA CompleteStep ==
    ASSUME KeysAssumption, IInv, NEW f \in Fetches, Complete(f)
    PROVE  IInv'
<1> USE DEF IInv
<1>1. /\ cache' = [k \in Keys |-> IF k \in StillCurrent(f) THEN fetch[f].values[k] ELSE cache[k]]
      /\ pending' = [k \in Keys |-> pending[k] \ {f}]
      /\ nodeHook' = (nodeHook \/ (OuterKey \in StillCurrent(f) /\ fetch[f].hooked))
      /\ fetch' = [fetch EXCEPT ![f] = Nobody]
      /\ fetch[f].read
      /\ UNCHANGED <<db, unapplied, outer, outerPending, misordered>>
  BY DEF Complete, HookKept
<1>2. /\ pending' \in [Keys -> SUBSET Fetches]
      /\ fetch' \in [Fetches -> FetchRecords]
      /\ \A g \in Fetches \ {f} : fetch'[g] = fetch[g]
      /\ \A k \in Keys : f \notin pending'[k] /\ pending'[k] \subseteq pending[k]
      /\ \A k \in Keys : \A a, b \in pending'[k] : a = b /\ k \in fetch'[a].keys
  BY <1>1, EndOfFetch
<1>3. \A k \in StillCurrent(f) : k \in Keys /\ pending[k] = {f} /\ pending'[k] = {}
                                 /\ fetch[f].values[k] \in 0 .. MaxVersion
  BY <1>1 DEF StillCurrent, TypeOK, FetchRecords
<1>4. TypeOK'
  <2>1. cache' \in [Keys -> 0 .. Absent]
    BY <1>1, <1>3 DEF TypeOK, Absent, KeysAssumption
  <2>2. outerCall' \in CallRecords
    <3>1. fetch[f].values[OuterKey] \in 0 .. Absent
      BY DEF TypeOK, Absent, KeysAssumption, FetchRecords
    <3> QED
      BY <3>1 DEF Complete, TypeOK, CallRecords
  <2> QED
    BY <1>1, <1>2, <2>1, <2>2 DEF TypeOK
<1>5. Written'
  BY <1>1 DEF Written
<1>6. CacheFresh'
  BY <1>1, <1>3 DEF CacheFresh, FetchFresh, Fresh, TypeOK
<1>7. FetchFresh'
  BY <1>1, <1>2 DEF FetchFresh, Fresh, TypeOK
<1>8. OneOrOther'
  BY <1>1, <1>2, <1>3 DEF OneOrOther, TypeOK
<1>9. OuterFollows'
  <2>1. /\ OuterKey \notin misordered'
        /\ nodeHook' => cache'[OuterKey] # Absent
    BY <1>1, <1>3 DEF OuterFollows, CallFollows, TypeOK, KeysAssumption, Absent
  <2>2. nodeHook => OuterKey \notin StillCurrent(f)
    BY <1>3 DEF OuterFollows, CallFollows, OneOrOther, KeysAssumption
  <2>3. \A v : Hooked(v) => Hooked(v)'
    BY <1>1, <2>2 DEF Hooked, KeysAssumption
  <2>4. ASSUME outerPending, Waits(f) PROVE CallFollows'
    <3>1. pending[OuterKey] = {f} /\ fetch[f].hooked
      BY <2>4 DEF Waits, OuterFollows, CallFollows, TypeOK, KeysAssumption
    <3>2. OuterKey \in StillCurrent(f)
      BY <3>1 DEF StillCurrent, TypeOK, KeysAssumption
    <3>3. outerCall' = [at |-> "got", fetch |-> {}, version |-> fetch[f].values[OuterKey]]
      BY <2>4 DEF Complete
    <3> QED
      BY <1>1, <3>1, <3>2, <3>3 DEF Hooked, CallFollows, KeysAssumption
  <2>5. ASSUME outerPending, ~Waits(f)
        PROVE  CallFollows'
    <3>1. outerCall' = outerCall
      BY <2>5 DEF Complete
    <3>2. CASE outerCall.at = "got" /\ Hooked(outerCall.version)
      BY <3>1, <3>2, <2>3 DEF CallFollows, Hooked
    <3>3. CASE /\ outerCall.at = "waits"
               /\ \E g \in pending[OuterKey] : outerCall.fetch = {g} /\ fetch[g].hooked
      <4>1. PICK g \in pending[OuterKey] : outerCall.fetch = {g} /\ fetch[g].hooked
        BY <3>3
      <4>2. g # f /\ g \in Fetches
        BY <2>5, <3>3, <4>1 DEF Waits, TypeOK, KeysAssumption
      <4> QED
        BY <1>1, <1>2, <3>1, <3>3, <4>1, <4>2 DEF KeysAssumption, CallFollows
    <3> QED
      BY <2>5, <3>2, <3>3 DEF OuterFollows, CallFollows
  <2> QED
    BY <1>1, <2>1, <2>3, <2>4, <2>5 DEF OuterFollows, CallFollows
<1>10. QED
  BY <1>4, <1>5, <1>6, <1>7, <1>8, <1>9

(* A failed fetch removes the entries that are still its own. *)
LEMMA FailStep ==
    ASSUME KeysAssumption, IInv, NEW f \in Fetches, Fail(f)
    PROVE  IInv'
<1> USE DEF IInv
<1>1. /\ pending' = [k \in Keys |-> pending[k] \ {f}]
      /\ fetch' = [fetch EXCEPT ![f] = Nobody]
      /\ UNCHANGED <<db, unapplied, cache, nodeHook, misordered>>
  BY DEF Fail
<1>2. /\ pending' \in [Keys -> SUBSET Fetches]
      /\ fetch' \in [Fetches -> FetchRecords]
      /\ \A g \in Fetches \ {f} : fetch'[g] = fetch[g]
      /\ \A k \in Keys : f \notin pending'[k] /\ pending'[k] \subseteq pending[k]
      /\ \A k \in Keys : \A a, b \in pending'[k] : a = b /\ k \in fetch'[a].keys
  BY <1>1, EndOfFetch
<1>3. TypeOK'
  <2>1. outer' \in 0 .. Absent /\ outerPending' \in BOOLEAN
    BY DEF Fail, RunHook, TypeOK, Absent, KeysAssumption
  <2>2. outerCall' \in CallRecords
    BY DEF Fail, TypeOK, CallRecords
  <2> QED
    BY <1>1, <1>2, <2>1, <2>2 DEF TypeOK
<1>4. Written' /\ CacheFresh'
  BY <1>1 DEF Written, CacheFresh, Fresh
<1>5. FetchFresh'
  BY <1>1, <1>2 DEF FetchFresh, Fresh, TypeOK
<1>6. OneOrOther'
  BY <1>1, <1>2 DEF OneOrOther
<1>7. OuterFollows'
  <2>1. outer' # Absent => outer' = outer
    BY DEF Fail, RunHook
  <2>2. ASSUME outerPending'
        PROVE  CallFollows'
    <3>1. outerPending /\ ~Waits(f) /\ outerCall' = outerCall
      BY <2>2 DEF Fail, RunHook
    <3>2. CASE outerCall.at = "got" /\ Hooked(outerCall.version)
      BY <1>1, <3>1, <3>2 DEF Hooked, CallFollows
    <3>3. CASE /\ outerCall.at = "waits"
               /\ \E g \in pending[OuterKey] : outerCall.fetch = {g} /\ fetch[g].hooked
      <4>1. PICK g \in pending[OuterKey] : outerCall.fetch = {g} /\ fetch[g].hooked
        BY <3>3
      <4>2. g # f /\ g \in Fetches
        BY <3>1, <3>3, <4>1 DEF Waits, TypeOK, KeysAssumption
      <4> QED
        BY <1>1, <1>2, <3>1, <3>3, <4>1, <4>2 DEF KeysAssumption, CallFollows
    <3> QED
      BY <3>1, <3>2, <3>3 DEF OuterFollows, CallFollows
  <2> QED
    BY <1>1, <2>1, <2>2 DEF OuterFollows, CallFollows, Hooked
<1>8. QED
  BY <1>3, <1>4, <1>5, <1>6, <1>7

(* The outer function looks the key up with its callback. *)
LEMMA CallOuterStep ==
    ASSUME KeysAssumption, IInv, CallOuter
    PROVE  IInv'
<1> USE DEF IInv
<1>1. /\ outer = Absent /\ outerCall.at = "none" /\ outerPending'
      /\ UNCHANGED <<db, unapplied, cache, outer, misordered>>
      /\ outerPending' = TRUE
  BY DEF CallOuter
<1>2. CASE /\ pending[OuterKey] # {}
           /\ fetch' = [f \in Fetches |-> IF f \in pending[OuterKey]
                                            THEN [fetch[f] EXCEPT !.hooked = TRUE] ELSE fetch[f]]
           /\ outerCall' = [outerCall EXCEPT !.at = "waits", !.fetch = pending[OuterKey]]
           /\ UNCHANGED <<pending, nodeHook>>
  <2>1. /\ fetch' \in [Fetches -> FetchRecords]
        /\ \A f \in Fetches : /\ fetch'[f].keys = fetch[f].keys
                              /\ fetch'[f].read = fetch[f].read
                              /\ fetch'[f].values = fetch[f].values
                              /\ f \in pending[OuterKey] => fetch'[f].hooked
    <3>1. ASSUME NEW r \in FetchRecords
          PROVE  LET s == [r EXCEPT !.hooked = TRUE]
                 IN  s \in FetchRecords /\ s.keys = r.keys /\ s.read = r.read
                     /\ s.values = r.values /\ s.hooked
      BY DEF FetchRecords
    <3> QED
      BY <1>2, <3>1 DEF TypeOK
  <2>2. PICK f \in Fetches : pending[OuterKey] = {f}
    BY <1>2 DEF TypeOK, KeysAssumption
  <2>3. TypeOK'
    <3>1. outerCall' \in CallRecords
      BY <1>2 DEF TypeOK, CallRecords, KeysAssumption
    <3> QED
      BY <1>1, <1>2, <2>1, <3>1 DEF TypeOK
  <2>4. Written' /\ CacheFresh' /\ OneOrOther'
    BY <1>1, <1>2 DEF Written, CacheFresh, OneOrOther, Fresh
  <2>5. FetchFresh'
    BY <1>1, <1>2, <2>1 DEF FetchFresh, Fresh, TypeOK
  <2>6. outerCall'.at = "waits" /\ outerCall'.fetch = {f}
    BY <1>2, <2>2 DEF TypeOK
  <2>7. OuterFollows'
    BY <1>1, <1>2, <2>1, <2>2, <2>6 DEF OuterFollows, CallFollows, KeysAssumption
  <2> QED
    BY <2>3, <2>4, <2>5, <2>7
<1>3. CASE /\ pending[OuterKey] = {} /\ cache[OuterKey] # Absent
           /\ nodeHook' = TRUE
           /\ outerCall' = [outerCall EXCEPT !.at = "got", !.version = cache[OuterKey]]
           /\ UNCHANGED <<pending, fetch>>
  <2>1. TypeOK'
    <3>1. outerCall' \in CallRecords
      BY <1>3 DEF TypeOK, CallRecords, KeysAssumption
    <3> QED
      BY <1>1, <1>3, <3>1 DEF TypeOK
  <2>2. Written' /\ CacheFresh' /\ OneOrOther' /\ FetchFresh'
    BY <1>1, <1>3 DEF Written, CacheFresh, OneOrOther, FetchFresh, Fresh
  <2>3. outerCall'.at = "got" /\ outerCall'.version = cache[OuterKey]
    BY <1>3 DEF TypeOK
  <2>4. OuterFollows'
    BY <1>1, <1>3, <2>3 DEF OuterFollows, CallFollows, Hooked
  <2> QED
    BY <2>1, <2>2, <2>4
<1>4. ASSUME Missing(OuterKey), UNCHANGED nodeHook, NEW f \in Fetches,
             Enter(f, {OuterKey}, TRUE),
             outerCall' = [outerCall EXCEPT !.at = "waits", !.fetch = {f}]
      PROVE  IInv'
  <2>1. /\ pending' \in [Keys -> SUBSET Fetches]
        /\ fetch' \in [Fetches -> FetchRecords]
        /\ \A k \in Keys : f \notin pending[k]
        /\ \A k \in Keys : pending'[k] = IF k \in {OuterKey} THEN {f} ELSE pending[k]
        /\ ~fetch'[f].read /\ fetch'[f].hooked
        /\ \A g \in Fetches \ {f} : fetch'[g] = fetch[g]
        /\ \A k \in Keys : \A a, b \in pending'[k] : a = b /\ k \in fetch'[a].keys
    <3>1. {OuterKey} \in SUBSET Keys /\ \A k \in {OuterKey} : Missing(k)
      BY <1>4 DEF KeysAssumption
    <3> QED
      BY <1>4, <3>1, EnterHooked
  <2>2. TypeOK'
    <3>1. outerCall' \in CallRecords
      BY <1>4 DEF TypeOK, CallRecords
    <3> QED
      BY <1>1, <1>4, <2>1, <3>1 DEF TypeOK
  <2>3. Written' /\ CacheFresh' /\ OneOrOther'
    BY <1>1, <1>4, <2>1 DEF Written, CacheFresh, OneOrOther, Fresh, Missing
  <2>4. FetchFresh'
    BY <1>1, <2>1 DEF FetchFresh, Fresh, TypeOK
  <2>5. outerCall'.at = "waits" /\ outerCall'.fetch = {f}
    BY <1>4 DEF TypeOK
  <2>6. OuterFollows'
    BY <1>1, <1>4, <2>1, <2>5 DEF OuterFollows, CallFollows, KeysAssumption
  <2> QED
    BY <2>2, <2>3, <2>4, <2>6
<1>5. QED
  BY <1>2, <1>3, <1>4 DEF CallOuter

(* The outer function's value goes into its cache unless it was            *)
(* invalidated meanwhile.                                                  *)
LEMMA OuterDoneStep ==
    ASSUME KeysAssumption, IInv, OuterDone
    PROVE  IInv'
<1> USE DEF IInv
<1>1. UNCHANGED <<db, unapplied, cache, pending, fetch, nodeHook, misordered>>
  BY DEF OuterDone
<1>2. TypeOK'
  <2>1. outerCall' \in CallRecords
    BY DEF OuterDone, CallRecords, Absent, KeysAssumption
  <2>2. outer' \in 0 .. Absent /\ outerPending' \in BOOLEAN
    BY DEF OuterDone, TypeOK, CallRecords
  <2> QED
    BY <1>1, <2>1, <2>2 DEF TypeOK
<1>3. Written' /\ CacheFresh' /\ FetchFresh' /\ OneOrOther'
  BY <1>1 DEF Written, CacheFresh, FetchFresh, OneOrOther, Fresh
<1>4. OuterFollows'
  BY <1>1 DEF OuterDone, OuterFollows, CallFollows, Hooked
<1>5. QED
  BY <1>2, <1>3, <1>4

(* The inductive invariant. *)
LEMMA Invariance == ASSUME KeysAssumption PROVE Spec => []IInv
<1>1. Init => IInv
  BY InitIInv
<1>2. IInv /\ [Next]_vars => IInv'
  <2> SUFFICES ASSUME IInv, [Next]_vars PROVE IInv'
    OBVIOUS
  <2>1. CASE UNCHANGED vars
    BY <2>1 DEF vars, IInv, TypeOK, Written, CacheFresh, FetchFresh, OneOrOther, OuterFollows, CallFollows,
                Fresh, Hooked
  <2>2. ASSUME NEW k \in Keys, Commit(k) \/ Evict(k) PROVE IInv'
    BY <2>2, CommitStep, EvictStep
  <2>3. ASSUME NEW k \in Keys, NEW v \in unapplied[k], Invalidate(k, v) \/ Prefill(k, v)
        PROVE  IInv'
    BY <2>3, InvalidateStep, PrefillStep
  <2>4. ASSUME NEW f \in Fetches, NEW ks \in SUBSET Keys, Lookup(f, ks) PROVE IInv'
    BY <2>4, LookupStep
  <2>5. ASSUME NEW f \in Fetches, Read(f) \/ Complete(f) \/ Fail(f) PROVE IInv'
    BY <2>5, ReadStep, CompleteStep, FailStep
  <2>6. CASE CallOuter \/ OuterDone
    BY <2>6, CallOuterStep, OuterDoneStep
  <2>7. QED
    BY <2>1, <2>2, <2>3, <2>4, <2>5, <2>6 DEF Next
<1>3. QED
  BY <1>1, <1>2, PTL DEF Spec

(* The variables keep their types, and every pending entry is of a fetch   *)
(* that is under way.                                                      *)
THEOREM TypeCorrect == ASSUME KeysAssumption PROVE Spec => []TypeOK
BY Invariance, PTL DEF IInv

(* A fetch that an invalidation overtook does not bring the old value back *)
(* (DeferredCache._completed_callback, CacheMultipleEntries).              *)
THEOREM CacheNotStale == ASSUME KeysAssumption PROVE Spec => []NoStale
<1>1. IInv => NoStale
  BY DEF IInv, NoStale, CacheFresh, FetchFresh, Fresh
<1>2. QED
  BY <1>1, Invariance, PTL

(* Nor does a function that used the value, whose callback goes from the   *)
(* pending entry to the cached node (cache_context.invalidate).            *)
THEOREM OuterCacheNotStale == ASSUME KeysAssumption PROVE Spec => []OuterNotStale
<1>1. KeysAssumption /\ IInv => OuterNotStale
  BY DEF IInv, OuterNotStale, OuterFollows, Hooked, CacheFresh, Fresh, KeysAssumption
<1>2. QED
  BY <1>1, Invariance, PTL

--------------------------------------------------------------------------------
(***************************************************************************)
(* The task scheduler.                                                     *)
(***************************************************************************)

(* The task has ended, and not while the loop had it on its list. *)
EndedInTime(t) == t \in Tasks \ overtaken /\ status[t] \in TS!Ended

(* A task that ended in time is neither running nor about to be launched.  *)
TasksInv ==
    /\ status \in [Tasks -> {"new", "none", "SCHEDULED", "ACTIVE"} \cup TS!Ended]
    /\ stage \in [Tasks -> {"none", "marking", "running", "ending"}]
    /\ launch \in [at : {"idle", "active", "resume", "start"}, list : SUBSET Tasks]
    /\ \A t \in Tasks : EndedInTime(t) => stage[t] = "none" /\ t \notin launch.list

(* What a step may do to the end of a task. *)
EndKept == \A t \in Tasks \ overtaken : status[t] \in TS!Ended => status'[t] \in {status[t], "none"}

(* The invariant holds in the initial states. *)
LEMMA TasksInit ==
    ASSUME TS!Init
    PROVE  TasksInv /\ due \subseteq Tasks
  BY DEF TS!Init, TS!IdleLaunch, TS!Ended, TasksInv, EndedInTime

(* The times that have come are of tasks. *)
LEMMA DueNext ==
    ASSUME due \subseteq Tasks, [TS!Next]_(TS!vars)
    PROVE  due' \subseteq Tasks
<1>1. ASSUME NEW t \in Tasks, TS!ScheduleTask(t) \/ TS!TimeComes(t) PROVE due' \subseteq Tasks
  BY <1>1 DEF TS!ScheduleTask, TS!TimeComes
<1>2. ASSUME NEW t \in Tasks, \/ TS!RegisterAction(t)
                             \/ TS!CheckDelete(t) \/ TS!DeleteTask(t) \/ TS!CleanTask(t)
                             \/ TS!TaskStep(t) \/ TS!MarkFails(t) \/ TS!FinishFails(t)
      PROVE  due' = due
  BY <1>2 DEF TS!RegisterAction, TS!CheckDelete, TS!DeleteTask, TS!CleanTask, TS!TaskStep, TS!MarkFails,
              TS!FinishFails, TS!MarkActive, TS!FunctionEnds, TS!Finish
<1>3. ASSUME TS!LoopStep \/ TS!Restart \/ UNCHANGED TS!vars PROVE due' = due
  BY <1>3 DEF TS!LoopStep, TS!LaunchTasks, TS!ReadActive, TS!ReadScheduled, TS!EndLaunch,
              TS!LaunchTask, TS!Restart, TS!vars
<1>4. QED
  BY <1>1, <1>2, <1>3 DEF TS!Next

(* What a pass over the tasks takes is of the set it looked at. *)
LEMMA ListedIs ==
    ASSUME NEW S, NEW l \in TS!Listed(S)
    PROVE  l \subseteq S
  BY DEF TS!Listed

(* The steps that leave the statuses and the stages alone. *)
LEMMA TasksLoop ==
    ASSUME TasksInv, UNCHANGED <<status, stage, overtaken>>,
           launch' \in [at : {"idle", "active", "resume", "start"}, list : SUBSET Tasks],
           \A t \in launch'.list : t \in launch.list \/ status[t] \notin TS!Ended
    PROVE  TasksInv' /\ EndKept
  BY DEF TasksInv, EndedInTime, EndKept

(* The row of a task is written or deleted, and its stage may change. *)
LEMMA TaskMoves ==
    ASSUME TasksInv, NEW t \in Tasks,
           NEW x \in {"none", "SCHEDULED", "ACTIVE"} \cup TS!Ended,
           status' = [status EXCEPT ![t] = x], launch' = launch,
           NEW y \in {"none", "marking", "running", "ending"},
           stage' = [stage EXCEPT ![t] = y], overtaken \subseteq overtaken',
           x \in TS!Ended => y = "none" /\ (t \in overtaken' \/ t \notin launch.list),
           EndedInTime(t) => x \in {status[t], "none"}
    PROVE  TasksInv' /\ EndKept
<1>1. /\ status' \in [Tasks -> {"new", "none", "SCHEDULED", "ACTIVE"} \cup TS!Ended]
      /\ stage' \in [Tasks -> {"none", "marking", "running", "ending"}]
      /\ status'[t] = x /\ stage'[t] = y
      /\ \A u \in Tasks : u # t => status'[u] = status[u] /\ stage'[u] = stage[u]
  BY DEF TasksInv
<1>2. EndKept
  BY <1>1 DEF EndKept, EndedInTime
<1>3. ASSUME NEW u \in Tasks, EndedInTime(u)'
      PROVE  stage'[u] = "none" /\ u \notin launch'.list
  BY <1>1, <1>3 DEF TasksInv, EndedInTime, TS!Ended
<1>4. QED
  BY <1>1, <1>2, <1>3 DEF TasksInv

(* Every step keeps the invariant and does not undo the end of a task. *)
LEMMA TasksNext ==
    ASSUME TasksInv, due \subseteq Tasks, [TS!Next]_(TS!vars)
    PROVE  TasksInv' /\ EndKept
<1>0. /\ DOMAIN status = Tasks /\ DOMAIN stage = Tasks
      /\ \A t \in Tasks : [stage EXCEPT ![t] = stage[t]] = stage
      /\ \A t \in Tasks : stage[t] \in {"none", "marking", "running", "ending"}
      /\ \A t \in Tasks : status[t] \in {"new", "none", "SCHEDULED", "ACTIVE"} \cup TS!Ended
      /\ launch.list \subseteq Tasks
      /\ \A t \in Tasks : EndedInTime(t) => stage[t] = "none" /\ t \notin launch.list
  BY DEF TasksInv
<1>1. ASSUME NEW t \in Tasks, TS!ScheduleTask(t) PROVE TasksInv' /\ EndKept
  <2>1. /\ status[t] = "new" /\ status' = [status EXCEPT ![t] = "SCHEDULED"]
        /\ stage' = [stage EXCEPT ![t] = stage[t]] /\ launch' = launch /\ overtaken' = overtaken
    BY <1>0, <1>1 DEF TS!ScheduleTask
  <2>2. "SCHEDULED" \notin TS!Ended /\ ~EndedInTime(t)
    BY <2>1 DEF TS!Ended, EndedInTime
  <2> QED
    BY <1>0, <2>1, <2>2, TaskMoves
<1>2. ASSUME NEW t \in Tasks, TS!RegisterAction(t) \/ TS!TimeComes(t) \/ TS!CheckDelete(t)
      PROVE  TasksInv' /\ EndKept
  BY <1>2 DEF TS!RegisterAction, TS!TimeComes, TS!CheckDelete, TasksInv, EndedInTime, EndKept
<1>3. ASSUME NEW t \in Tasks, TS!DeleteTask(t) \/ TS!CleanTask(t) PROVE TasksInv' /\ EndKept
  <2>1. /\ status' = [status EXCEPT ![t] = "none"]
        /\ stage' = [stage EXCEPT ![t] = stage[t]] /\ launch' = launch /\ overtaken' = overtaken
    BY <1>0, <1>3 DEF TS!DeleteTask, TS!CleanTask
  <2>2. "none" \notin TS!Ended
    BY DEF TS!Ended
  <2> QED
    BY <1>0, <2>1, <2>2, TaskMoves
<1>4. ASSUME NEW t \in Tasks, TS!MarkActive(t) PROVE TasksInv' /\ EndKept
  <2> DEFINE x == IF status[t] = "none" THEN "none" ELSE "ACTIVE"
  <2>1. /\ status' = [status EXCEPT ![t] = x] /\ stage' = [stage EXCEPT ![t] = "running"]
        /\ launch' = launch /\ overtaken' = overtaken /\ stage[t] = "marking"
    BY <1>0, <1>4 DEF TS!MarkActive, TS!Update
  <2>2. x \in {"none", "ACTIVE"} /\ x \notin TS!Ended /\ ~EndedInTime(t)
    BY <1>0, <2>1 DEF TS!Ended
  <2> HIDE DEF x
  <2> QED
    BY <2>1, <2>2, TaskMoves
<1>5. ASSUME NEW t \in Tasks, TS!FunctionEnds(t) PROVE TasksInv' /\ EndKept
  <2>1. /\ status' = status /\ stage' = [stage EXCEPT ![t] = "ending"]
        /\ launch' = launch /\ overtaken' = overtaken /\ stage[t] = "running"
    BY <1>5 DEF TS!FunctionEnds
  <2> QED
    BY <1>0, <2>1 DEF TasksInv, EndedInTime, EndKept
<1>6. ASSUME NEW t \in Tasks, NEW s \in TS!Ended, TS!Finish(t, s) PROVE TasksInv' /\ EndKept
  <2> DEFINE x == IF status[t] = "none" THEN "none" ELSE s
  <2>1. /\ status' = [status EXCEPT ![t] = x] /\ stage' = [stage EXCEPT ![t] = "none"]
        /\ launch' = launch /\ overtaken' = overtaken \cup ({t} \cap launch.list)
        /\ stage[t] = "ending"
    BY <1>0, <1>6 DEF TS!Finish, TS!Update
  <2>2. x \in {"none"} \cup TS!Ended /\ ~EndedInTime(t)
    BY <1>0, <2>1
  <2> HIDE DEF x
  <2> QED
    BY <2>1, <2>2, TaskMoves
<1>7. ASSUME NEW t \in Tasks, TS!MarkFails(t) \/ TS!FinishFails(t) PROVE TasksInv' /\ EndKept
  <2>1. /\ status' = status /\ stage' = [stage EXCEPT ![t] = "none"] /\ overtaken' = overtaken
        /\ launch' = launch \/ launch' = TS!IdleLaunch
    BY <1>7 DEF TS!MarkFails, TS!FinishFails
  <2>2. /\ launch' \in [at : {"idle", "active", "resume", "start"}, list : SUBSET Tasks]
        /\ launch'.list \subseteq launch.list
    BY <2>1 DEF TasksInv, TS!IdleLaunch
  <2> QED
    BY <1>0, <2>1, <2>2 DEF TasksInv, EndedInTime, EndKept
<1>8. CASE TS!LoopStep
  <2>1. CASE TS!LaunchTasks \/ TS!EndLaunch
    <3>1. /\ UNCHANGED <<status, stage, overtaken>>
          /\ launch' = [at |-> "active", list |-> {}] \/ launch' = [at |-> "idle", list |-> {}]
      BY <2>1 DEF TS!LaunchTasks, TS!EndLaunch, TS!IdleLaunch
    <3> QED
      BY <3>1, TasksLoop
  <2>2. CASE TS!ReadActive
    <3>1. PICK l \in TS!Listed({t \in Tasks : status[t] = "ACTIVE"}) :
              launch' = [at |-> "resume", list |-> l]
      BY <2>2 DEF TS!ReadActive
    <3>2. l \subseteq {t \in Tasks : status[t] = "ACTIVE"}
      BY ListedIs
    <3>3. launch'.list = l /\ \A t \in l : t \in Tasks /\ status[t] \notin TS!Ended
      BY <3>1, <3>2 DEF TS!Ended
    <3>4. UNCHANGED <<status, stage, overtaken>>
      BY <2>2 DEF TS!ReadActive
    <3> QED
      BY <3>1, <3>3, <3>4, TasksLoop
  <2>3. CASE TS!ReadScheduled
    <3>1. PICK l \in TS!Listed({t \in due : status[t] = "SCHEDULED"}) :
              launch' = [at |-> "start", list |-> l]
      BY <2>3 DEF TS!ReadScheduled
    <3>2. l \subseteq {t \in due : status[t] = "SCHEDULED"}
      BY ListedIs
    <3>3. launch'.list = l /\ \A t \in l : t \in due /\ status[t] \notin TS!Ended
      BY <3>1, <3>2 DEF TS!Ended
    <3>4. UNCHANGED <<status, stage, overtaken>>
      BY <2>3 DEF TS!ReadScheduled
    <3> QED
      BY <3>1, <3>3, <3>4, TasksLoop
  <2>4. ASSUME NEW t \in Tasks, TS!LaunchTask(t) PROVE TasksInv' /\ EndKept
    <3>1. /\ UNCHANGED <<status, overtaken>> /\ t \in launch.list
          /\ launch' = [launch EXCEPT !.list = @ \ {t}] \/ launch' = [at |-> "idle", list |-> {}]
          /\ stage' = stage \/ stage' = [stage EXCEPT ![t] = "marking"]
      BY <2>4 DEF TS!LaunchTask, TS!IdleLaunch
    <3>2. /\ launch' \in [at : {"idle", "active", "resume", "start"}, list : SUBSET Tasks]
          /\ launch'.list \subseteq launch.list
      BY <3>1 DEF TasksInv
    <3> QED
      BY <1>0, <3>1, <3>2 DEF TasksInv, EndedInTime, EndKept
  <2> QED
    BY <1>8, <2>1, <2>2, <2>3, <2>4 DEF TS!LoopStep
<1>9. CASE TS!Restart
  <2>1. /\ UNCHANGED <<status, overtaken>> /\ stage' = [t \in Tasks |-> "none"]
        /\ launch' = [at |-> "idle", list |-> {}]
    BY <1>9 DEF TS!Restart, TS!IdleLaunch
  <2> QED
    BY <2>1 DEF TasksInv, EndedInTime, EndKept
<1>10. CASE UNCHANGED TS!vars
  BY <1>10 DEF TS!vars, TasksInv, EndedInTime, EndKept
<1>11. QED
  BY <1>1, <1>2, <1>3, <1>4, <1>5, <1>6, <1>7, <1>8, <1>9, <1>10 DEF TS!Next, TS!TaskStep

(***************************************************************************)
(* A task that ended does not become ACTIVE again, nor ends once more      *)
(* otherwise (update_task: "terminal statuses"), unless it ended while     *)
(* _launch_scheduled_tasks had it on its list; whatever fails, is deleted  *)
(* or restarted meanwhile.                                                 *)
(***************************************************************************)
THEOREM EndsStay == TS!Spec => EndIsFinal
<1> DEFINE DueInv == due \subseteq Tasks
<1>1. TS!Init => TasksInv /\ DueInv
  BY TasksInit
<1>2. TasksInv /\ DueInv /\ [TS!Next]_(TS!vars)
          => TasksInv' /\ DueInv' /\ [EndKept]_(TS!vars)
  BY TasksNext, DueNext
<1>3. [EndKept]_(TS!vars) <=>
          [\A t \in Tasks \ overtaken :
              status[t] \in TS!Ended => status'[t] \in {status[t], "none"}]_(TS!vars)
  BY DEF EndKept
<1>4. QED
  BY <1>1, <1>2, <1>3, PTL DEF TS!Spec, EndIsFinal, TS!EndIsFinal

================================================================================
