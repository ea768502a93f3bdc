--------------------------- MODULE StateDeletion_proofs ---------------------------
(***************************************************************************)
(* No event refers to a deleted state group and no group is a delta of one,*)
(* for any number of groups, events, purges and failures.                  *)
(***************************************************************************)
EXTENDS StateDeletion, TLAPS

(* The groups that the events being persisted refer to exist. *)
UsedKept == persister.use \subseteq groups

(* A candidate of the deletion that got a reference after the recheck is    *)
(* being persisted, or its row is no longer the one that was selected.      *)
CandidatesWatched ==
    deleter.at \in {"used", "begin", "delete"} =>
        \A g \in referenced : deleter.cand[g] # 0 /\ stamp[g] = deleter.cand[g] => g \in persisting

Safe == referenced \subseteq groups /\ UsedKept /\ CandidatesWatched

IInv == TypeOK /\ DeltasWhole /\ (disturbed # {} \/ Safe)

(* Types that several steps need. *)
LEMMA BoundFacts ==
    /\ MaxGroup \in Nat /\ OldGroups \in Nat /\ OldGroups \in Groups /\ Groups = 1 .. MaxGroup
    /\ MaxUses \in Nat /\ MaxPurges \in Nat /\ MaxFaults \in Nat
    /\ None = 0
BY BoundsAssumption DEF Groups, None

(* A fault that is spent keeps the counter's type. *)
LEMMA SpendTypes ==
    ASSUME spent \in [uses : 0 .. MaxUses, purges : 0 .. MaxPurges, faults : 0 .. MaxFaults],
           Spend("uses", MaxUses) \/ Spend("purges", MaxPurges) \/ Spend("faults", MaxFaults)
    PROVE  spent' \in [uses : 0 .. MaxUses, purges : 0 .. MaxPurges, faults : 0 .. MaxFaults]
BY BoundFacts DEF Spend

(* A row gets the next stamp or stays as it is; candidates do not match the *)
(* new one.                                                                 *)
Restamped(gs) ==
    /\ clock' \in Nat /\ clock <= clock'
    /\ stamp' \in [Groups -> 0 .. clock']
    /\ \A g \in Groups : stamp'[g] = stamp[g] \/ stamp'[g] = 0 \/ stamp'[g] > clock
    /\ \A g \in gs \cap Groups : stamp'[g] = 0 \/ stamp'[g] > clock

(* What a bump of pending deletions does to the stamps. *)
LEMMA BumpFacts ==
    ASSUME TypeOK, NEW gs, BumpDeletion(gs)
    PROVE  Restamped(gs)
<1>1. clock \in Nat /\ clock' \in Nat /\ clock <= clock' /\ stamp \in [Groups -> 0 .. clock]
  BY DEF TypeOK, BumpDeletion
<1>2. gs \cap Pending # {} => clock' = clock + 1
  BY DEF BumpDeletion
<1>3. stamp' = [g \in Groups |-> IF g \in gs \cap Pending THEN clock' ELSE stamp[g]]
  BY DEF BumpDeletion
<1>4. stamp' \in [Groups -> 0 .. clock']
  BY <1>1, <1>3
<1>5. QED
  BY <1>1, <1>2, <1>3, <1>4 DEF Restamped, Pending

(* What marking groups for deletion does to the stamps. *)
LEMMA MarkFacts ==
    ASSUME TypeOK, NEW gs, MarkPendingDeletion(gs)
    PROVE  Restamped({})
<1>1. clock \in Nat /\ clock' \in Nat /\ clock <= clock' /\ stamp \in [Groups -> 0 .. clock]
  BY DEF TypeOK, MarkPendingDeletion
<1>2. gs \ Pending # {} => clock' = clock + 1
  BY DEF MarkPendingDeletion
<1>3. stamp' = [g \in Groups |-> IF g \in gs \ Pending THEN clock' ELSE stamp[g]]
  BY DEF MarkPendingDeletion
<1>4. stamp' \in [Groups -> 0 .. clock']
  BY <1>1, <1>3
<1>5. QED
  BY <1>1, <1>2, <1>3, <1>4 DEF Restamped

(* What clearing the rows of used groups does to the stamps. *)
LEMMA ClearFacts ==
    ASSUME TypeOK, NEW gs, ClearPending(gs)
    PROVE  Restamped(gs)
<1>1. clock \in Nat /\ clock' = clock /\ stamp \in [Groups -> 0 .. clock]
  BY DEF TypeOK, ClearPending
<1>2. stamp' = [g \in Groups |-> IF g \in gs THEN 0 ELSE stamp[g]]
  BY DEF ClearPending
<1>3. QED
  BY <1>1, <1>2 DEF Restamped

(* The types of the deleter's record are kept as the clock moves on. *)
LEMMA DeleterTypes ==
    ASSUME TypeOK, clock' \in Nat, clock <= clock', UNCHANGED deleter
    PROVE  deleter' \in [at : {"idle", "referenced", "used", "begin", "delete"},
                         cand : [Groups -> 0 .. clock'], used : SUBSET Groups,
                         snapshot : Snapshots]
<1>1. clock \in Nat /\ 0 .. clock \subseteq 0 .. clock'
  BY DEF TypeOK
<1>2. QED
  BY <1>1 DEF TypeOK

(* New stamps do not make a row look like the one that was selected. *)
LEMMA WatchKept ==
    ASSUME TypeOK, CandidatesWatched, NEW gs, Restamped(gs), UNCHANGED deleter,
           referenced' \subseteq referenced, persisting \ gs \subseteq persisting'
    PROVE  CandidatesWatched'
<1>1. ASSUME deleter.at \in {"used", "begin", "delete"}, NEW g \in referenced',
             deleter.cand[g] # 0, stamp'[g] = deleter.cand[g]
      PROVE  g \in persisting'
  <2>1. g \in Groups /\ deleter.cand[g] \in 0 .. clock /\ clock \in Nat
    BY <1>1, BoundFacts DEF TypeOK
  <2>2. stamp'[g] = stamp[g] /\ g \notin gs
    BY <1>1, <2>1 DEF Restamped
  <2> QED
    BY <1>1, <2>2 DEF CandidatesWatched
<1>2. QED
  BY <1>1 DEF CandidatesWatched
------------------------------------------------------------------------------
(* The invariant holds at the start. *)
LEMMA InitIInv == Init => IInv
<1> SUFFICES ASSUME Init PROVE IInv
  OBVIOUS
<1> USE BoundFacts
<1>1. /\ groups \subseteq 1 .. allocated /\ allocated \in Groups
      /\ prev \in [Groups -> Groups \cup {None}]
      /\ \A g \in Groups : prev[g] < g
  BY DEF Init
<1>2. /\ referenced \subseteq 1 .. allocated
      /\ clock \in Nat /\ oldUpto \in 0 .. clock
      /\ stamp \in [Groups -> 0 .. clock]
      /\ held \subseteq 1 .. allocated
      /\ persisting \subseteq 1 .. allocated
      /\ disturbed \subseteq {"restart", "snapshot"}
  BY DEF Init
<1>3. spent \in [uses : 0 .. MaxUses, purges : 0 .. MaxPurges, faults : 0 .. MaxFaults]
  BY DEF Init
<1>4. /\ persister \in [at : {"idle", "store", "finish", "down"}, use : SUBSET Groups,
                        failed : BOOLEAN]
      /\ persister.use = {}
  BY DEF Init, IdlePersister
<1>5. /\ purge \in [at : {"idle", "referenced", "previous", "next", "mark"}, seen : SUBSET Groups,
                    search : SUBSET Groups, next : SUBSET Groups, found : SUBSET Groups]
      /\ purge.search \cup purge.next \cup purge.found \subseteq purge.seen
  BY DEF Init, IdlePurge
<1>6. /\ deleter \in [at : {"idle", "referenced", "used", "begin", "delete"},
                      cand : [Groups -> 0 .. clock], used : SUBSET Groups, snapshot : Snapshots]
      /\ deleter.at = "idle"
  BY DEF Init, IdleDeleter, NoSnapshot, Snapshots
<1>7. TypeOK
  BY <1>1, <1>2, <1>3, <1>4, <1>5, <1>6 DEF TypeOK
<1>8. DeltasWhole
  BY DEF Init, DeltasWhole
<1>9. Safe
  BY <1>4, <1>6 DEF Init, Safe, UsedKept, CandidatesWatched
<1>10. QED
  BY <1>7, <1>8, <1>9 DEF IInv

(* Time passes: the stamps that exist become old. *)
LEMMA AgeStep == ASSUME IInv, Age PROVE IInv'
<1>1. oldUpto' \in 0 .. clock'
  BY DEF Age, IInv, TypeOK
<1>2. UNCHANGED <<groups, prev, allocated, referenced, stamp, clock, persisting, held, persister,
                  purge, deleter, disturbed, spent>>
  BY DEF Age
<1>3. TypeOK'
  BY <1>1, <1>2 DEF IInv, TypeOK
<1>4. DeltasWhole' /\ (disturbed' # {} \/ Safe')
  BY <1>2 DEF IInv, DeltasWhole, Safe, UsedKept, CandidatesWatched
<1>5. QED
  BY <1>3, <1>4 DEF IInv

(* check_state_groups_and_bump_deletion: a group that is used gets a new   *)
(* stamp.                                                                  *)
LEMMA HandleEventStep == ASSUME IInv, NEW g \in Groups, HandleEvent(g) PROVE IInv'
<1> USE DEF IInv
<1>1. /\ UNCHANGED <<groups, prev, allocated, referenced, oldUpto, persisting, persister, purge,
                     deleter, disturbed>>
      /\ held' = held \cup {g} /\ g \in groups
  BY DEF HandleEvent
<1>2. Restamped({g})
  BY BumpFacts DEF HandleEvent
<1>3. spent' \in [uses : 0 .. MaxUses, purges : 0 .. MaxPurges, faults : 0 .. MaxFaults]
  BY SpendTypes DEF HandleEvent, TypeOK
<1>4. deleter' \in [at : {"idle", "referenced", "used", "begin", "delete"},
                    cand : [Groups -> 0 .. clock'], used : SUBSET Groups, snapshot : Snapshots]
  BY <1>1, <1>2, DeleterTypes DEF Restamped
<1>5. TypeOK'
  <2>1. oldUpto' \in 0 .. clock'
    BY <1>1, <1>2 DEF Restamped, TypeOK
  <2> QED
    BY <1>1, <1>2, <1>3, <1>4, <2>1 DEF Restamped, TypeOK
<1>6. DeltasWhole'
  BY <1>1 DEF DeltasWhole
<1>7. Safe => Safe'
  <2>1. CandidatesWatched => CandidatesWatched'
    <3>1. Restamped({})
      BY <1>2 DEF Restamped
    <3> QED
      BY <1>1, <3>1, WatchKept
  <2> QED
    BY <1>1, <2>1 DEF Safe, UsedKept
<1>8. QED
  BY <1>1, <1>5, <1>6, <1>7

(* store_state_group: a new group is whole or a delta of one that is       *)
(* there.                                                                  *)
LEMMA StoreGroupStep == ASSUME IInv, NEW p \in Groups \cup {None}, StoreGroup(p) PROVE IInv'
<1> USE BoundFacts DEF IInv
<1>1. /\ UNCHANGED <<referenced, oldUpto, persisting, persister, purge, deleter, disturbed>>
      /\ allocated' = allocated + 1 /\ allocated' \in Groups
      /\ groups' = groups \cup {allocated'}
      /\ prev' = [prev EXCEPT ![allocated'] = p]
      /\ held' = held \cup {allocated'}
      /\ p \in groups \cup {None}
  BY DEF StoreGroup, TypeOK
<1>2. Restamped({p})
  BY BumpFacts DEF StoreGroup
<1>3. spent' \in [uses : 0 .. MaxUses, purges : 0 .. MaxPurges, faults : 0 .. MaxFaults]
  BY SpendTypes DEF StoreGroup, TypeOK
<1>4. deleter' \in [at : {"idle", "referenced", "used", "begin", "delete"},
                    cand : [Groups -> 0 .. clock'], used : SUBSET Groups, snapshot : Snapshots]
  BY <1>1, <1>2, DeleterTypes DEF Restamped
<1>5. TypeOK'
  <2>1. oldUpto' \in 0 .. clock'
    BY <1>1, <1>2 DEF Restamped, TypeOK
  <2>2. /\ groups' \subseteq 1 .. allocated' /\ referenced' \subseteq 1 .. allocated'
        /\ held' \subseteq 1 .. allocated' /\ persisting' \subseteq 1 .. allocated'
    <3>1. allocated \in Nat /\ allocated' \in 1 .. allocated'
      BY <1>1 DEF TypeOK
    <3>2. 1 .. allocated \subseteq 1 .. allocated'
      BY <1>1, <3>1
    <3> QED
      BY <1>1, <3>1, <3>2 DEF TypeOK
  <2>3. /\ prev' \in [Groups -> Groups \cup {None}]
        /\ \A g \in Groups : prev'[g] < g
    BY <1>1 DEF TypeOK
  <2> QED
    BY <1>1, <1>2, <1>3, <1>4, <2>1, <2>2, <2>3 DEF Restamped, TypeOK
<1>6. DeltasWhole'
  <2>1. \A g \in groups : prev'[g] = prev[g]
    BY <1>1 DEF TypeOK
  <2> QED
    BY <1>1, <2>1 DEF DeltasWhole, TypeOK
<1>7. Safe => Safe'
  <2>1. CandidatesWatched => CandidatesWatched'
    <3>1. Restamped({})
      BY <1>2 DEF Restamped
    <3> QED
      BY <1>1, <3>1, WatchKept
  <2> QED
    BY <1>1, <2>1 DEF Safe, UsedKept
<1>8. QED
  BY <1>1, <1>5, <1>6, <1>7
------------------------------------------------------------------------------
(* persisting_state_group_references: the groups are marked before the     *)
(* events are stored.                                                      *)
LEMMA MarkPersistingStep == ASSUME IInv, NEW gs \in SUBSET held, MarkPersisting(gs) PROVE IInv'
<1> USE BoundFacts DEF IInv
<1>1. /\ UNCHANGED <<groups, prev, allocated, referenced, stamp, clock, oldUpto, purge, deleter,
                     disturbed, spent>>
      /\ held' \subseteq held
  BY DEF MarkPersisting
<1>2. CASE gs \subseteq groups
  <2>1. /\ persisting' = persisting \cup gs
        /\ persister' = [at |-> "store", use |-> gs, failed |-> FALSE]
    BY <1>2 DEF MarkPersisting
  <2>2. /\ persister' \in [at : {"idle", "store", "finish", "down"}, use : SUBSET Groups,
                           failed : BOOLEAN]
        /\ persister'.use = gs
    BY <2>1 DEF TypeOK
  <2>3. TypeOK'
    BY <1>1, <2>1, <2>2 DEF TypeOK
  <2> QED
    BY <1>1, <1>2, <2>1, <2>2, <2>3 DEF DeltasWhole, Safe, UsedKept, CandidatesWatched
<1>3. CASE ~(gs \subseteq groups)
  <2>1. UNCHANGED <<persisting, persister>>
    BY <1>3 DEF MarkPersisting
  <2>2. TypeOK'
    BY <1>1, <2>1 DEF TypeOK
  <2> QED
    BY <1>1, <2>1, <2>2 DEF DeltasWhole, Safe, UsedKept, CandidatesWatched
<1>4. QED
  BY <1>2, <1>3

(* The events are stored while their groups are marked. *)
LEMMA StoreStep == ASSUME IInv, StoreEvents \/ StoreFails PROVE IInv'
<1> USE BoundFacts DEF IInv
<1>1. /\ UNCHANGED <<groups, prev, allocated, stamp, clock, oldUpto, persisting, held, purge,
                     deleter, disturbed>>
      /\ referenced' \in {referenced, referenced \cup persister.use}
  BY DEF StoreEvents, StoreFails
<1>2. /\ persister' \in [at : {"idle", "store", "finish", "down"}, use : SUBSET Groups,
                         failed : BOOLEAN]
      /\ persister'.use = persister.use
  BY DEF StoreEvents, StoreFails, TypeOK
<1>3. spent' \in [uses : 0 .. MaxUses, purges : 0 .. MaxPurges, faults : 0 .. MaxFaults]
  BY SpendTypes DEF StoreEvents, StoreFails, TypeOK
<1>4. TypeOK'
  BY <1>1, <1>2, <1>3 DEF TypeOK
<1>5. DeltasWhole'
  BY <1>1 DEF DeltasWhole
<1>6. Safe => Safe'
  BY <1>1, <1>2 DEF Safe, UsedKept, CandidatesWatched, TypeOK
<1>7. QED
  BY <1>1, <1>4, <1>5, <1>6

(* The marks are taken away and the pending deletions bumped. *)
LEMMA FinishPersistingStep == ASSUME IInv, FinishPersisting PROVE IInv'
<1> USE BoundFacts DEF IInv
<1>1. /\ UNCHANGED <<groups, prev, allocated, referenced, oldUpto, held, purge, deleter, disturbed,
                     spent>>
      /\ persister' = IdlePersister
      /\ persisting' = persisting \ persister.use
  BY DEF FinishPersisting
<1>2. Restamped(persister.use)
  BY BumpFacts, ClearFacts DEF FinishPersisting
<1>3. /\ persister' \in [at : {"idle", "store", "finish", "down"}, use : SUBSET Groups,
                         failed : BOOLEAN]
      /\ persister'.use = {}
  BY <1>1 DEF IdlePersister
<1>4. deleter' \in [at : {"idle", "referenced", "used", "begin", "delete"},
                    cand : [Groups -> 0 .. clock'], used : SUBSET Groups, snapshot : Snapshots]
  BY <1>1, <1>2, DeleterTypes DEF Restamped
<1>5. TypeOK'
  <2>1. oldUpto' \in 0 .. clock'
    BY <1>1, <1>2 DEF Restamped, TypeOK
  <2> QED
    BY <1>1, <1>2, <1>3, <1>4, <2>1 DEF Restamped, TypeOK
<1>6. DeltasWhole'
  BY <1>1 DEF DeltasWhole
<1>7. Safe => Safe'
  BY <1>1, <1>2, <1>3, WatchKept DEF Safe, UsedKept
<1>8. QED
  BY <1>1, <1>5, <1>6, <1>7

(* The persister dies, and leaves its marks. *)
LEMMA CrashStep == ASSUME IInv, Crash PROVE IInv'
<1> USE DEF IInv
<1>1. UNCHANGED <<groups, prev, allocated, referenced, stamp, clock, oldUpto, persisting, held,
                  purge, deleter, disturbed>>
  BY DEF Crash, database
<1>2. /\ persister' \in [at : {"idle", "store", "finish", "down"}, use : SUBSET Groups,
                         failed : BOOLEAN]
      /\ persister'.use = {}
  BY DEF Crash, IdlePersister
<1>3. spent' \in [uses : 0 .. MaxUses, purges : 0 .. MaxPurges, faults : 0 .. MaxFaults]
  BY SpendTypes DEF Crash, TypeOK
<1>4. TypeOK'
  BY <1>1, <1>2, <1>3 DEF TypeOK
<1>5. QED
  BY <1>1, <1>2, <1>4 DEF DeltasWhole, Safe, UsedKept, CandidatesWatched

(* A start clears the marks; if a marked group may be deleted, that is the  *)
(* exception of disturbed.                                                  *)
LEMMA RestartStep == ASSUME IInv, Restart PROVE IInv'
<1> USE BoundFacts DEF IInv
<1>1. /\ UNCHANGED <<groups, prev, allocated, referenced, stamp, clock, oldUpto, held, purge,
                     deleter, spent>>
      /\ persister' = IdlePersister
      /\ persisting' = {}
      /\ disturbed \subseteq disturbed' /\ disturbed' \subseteq disturbed \cup {"restart"}
      /\ persisting \cap Pending # {} => "restart" \in disturbed'
  BY DEF Restart
<1>2. /\ persister' \in [at : {"idle", "store", "finish", "down"}, use : SUBSET Groups,
                         failed : BOOLEAN]
      /\ persister'.use = {}
  BY <1>1 DEF IdlePersister
<1>3. TypeOK'
  BY <1>1, <1>2 DEF TypeOK
<1>4. DeltasWhole'
  BY <1>1 DEF DeltasWhole
<1>5. ASSUME disturbed' = {} PROVE Safe'
  <2>1. Safe /\ persisting \cap Pending = {}
    BY <1>1, <1>5
  <2>2. CandidatesWatched'
    <3>1. \A g \in persisting : g \in Groups /\ stamp[g] = 0
      <4>1. persisting \subseteq Groups
        BY DEF TypeOK
      <4> QED
        BY <2>1, <4>1 DEF Pending
    <3> QED
      BY <1>1, <2>1, <3>1 DEF Safe, CandidatesWatched
  <2> QED
    BY <1>1, <1>2, <2>1, <2>2 DEF Safe, UsedKept
<1>6. QED
  BY <1>3, <1>4, <1>5
------------------------------------------------------------------------------
(* Purging events only removes references. *)
LEMMA PurgeEventsStep == ASSUME IInv, NEW from, NEW gone, PurgeEvents(from, gone) PROVE IInv'
<1> USE BoundFacts DEF IInv
<1>1. /\ UNCHANGED <<groups, prev, allocated, stamp, clock, oldUpto, persisting, held, persister,
                     deleter, disturbed>>
      /\ referenced' \subseteq referenced /\ from \subseteq referenced
      /\ purge' = [IdlePurge EXCEPT !.at = "referenced", !.seen = from, !.search = from]
  BY DEF PurgeEvents
<1>2. /\ purge' \in [at : {"idle", "referenced", "previous", "next", "mark"}, seen : SUBSET Groups,
                     search : SUBSET Groups, next : SUBSET Groups, found : SUBSET Groups]
      /\ purge'.search \cup purge'.next \cup purge'.found \subseteq purge'.seen
  <2>1. from \subseteq Groups
    BY <1>1 DEF TypeOK
  <2>2. purge' = [at |-> "referenced", seen |-> from, search |-> from, next |-> {}, found |-> {}]
    BY <1>1 DEF IdlePurge
  <2> QED
    BY <2>1, <2>2
<1>3. spent' \in [uses : 0 .. MaxUses, purges : 0 .. MaxPurges, faults : 0 .. MaxFaults]
  BY SpendTypes DEF PurgeEvents, TypeOK
<1>4. TypeOK'
  BY <1>1, <1>2, <1>3 DEF TypeOK
<1>5. QED
  BY <1>1, <1>4 DEF DeltasWhole, Safe, UsedKept, CandidatesWatched

(* The search for unreferenced groups only reads. *)
LEMMA FindStep == ASSUME IInv, FindReferenced \/ FindPrevious \/ FindNext PROVE IInv'
<1> USE BoundFacts DEF IInv
<1>1. UNCHANGED <<groups, prev, allocated, referenced, stamp, clock, oldUpto, persisting, held,
                  persister, deleter, disturbed, spent>>
  BY DEF FindReferenced, FindPrevious, FindNext, database
<1>2. /\ purge' \in [at : {"idle", "referenced", "previous", "next", "mark"}, seen : SUBSET Groups,
                     search : SUBSET Groups, next : SUBSET Groups, found : SUBSET Groups]
      /\ purge'.search \cup purge'.next \cup purge'.found \subseteq purge'.seen
  <2>1. CASE FindReferenced
    BY <2>1 DEF FindReferenced, TypeOK
  <2>2. CASE FindPrevious
    <3> DEFINE prevs == {prev[g] : g \in purge.search} \ (purge.seen \cup {None})
    <3>1. prevs \subseteq Groups
      BY DEF TypeOK
    <3>2. purge' = [purge EXCEPT !.at = "next", !.next = prevs, !.seen = @ \cup prevs]
      BY <2>2 DEF FindPrevious
    <3> HIDE DEF prevs
    <3> QED
      BY <3>1, <3>2 DEF TypeOK
  <2>3. CASE FindNext
    <3> DEFINE nexts == {g \in groups : prev[g] \in purge.search} \ purge.seen
               more == purge.next \cup nexts
    <3>1. nexts \subseteq Groups /\ more \subseteq purge.seen \cup nexts /\ more \subseteq Groups
      <4>1. groups \subseteq Groups /\ purge.next \subseteq Groups /\ purge.next \subseteq purge.seen
        BY DEF TypeOK
      <4> QED
        BY <4>1
    <3>2. purge' = [purge EXCEPT !.at = IF more = {} THEN "mark" ELSE "referenced",
                                 !.next = {}, !.search = more, !.seen = @ \cup nexts]
      BY <2>3 DEF FindNext
    <3> HIDE DEF nexts, more
    <3> QED
      BY <3>1, <3>2 DEF TypeOK
  <2> QED
    BY <2>1, <2>2, <2>3
<1>3. TypeOK'
  BY <1>1, <1>2 DEF TypeOK
<1>4. QED
  BY <1>1, <1>3 DEF DeltasWhole, Safe, UsedKept, CandidatesWatched

(* Proposing a deletion deletes nothing. *)
LEMMA MarkUnreferencedStep == ASSUME IInv, MarkUnreferenced PROVE IInv'
<1> USE BoundFacts DEF IInv
<1>1. /\ UNCHANGED <<groups, prev, allocated, referenced, oldUpto, persisting, held, persister,
                     deleter, disturbed, spent>>
      /\ purge' = IdlePurge
  BY DEF MarkUnreferenced
<1>2. Restamped({})
  BY MarkFacts DEF MarkUnreferenced
<1>3. /\ purge' \in [at : {"idle", "referenced", "previous", "next", "mark"}, seen : SUBSET Groups,
                     search : SUBSET Groups, next : SUBSET Groups, found : SUBSET Groups]
      /\ purge'.search \cup purge'.next \cup purge'.found \subseteq purge'.seen
  BY <1>1 DEF IdlePurge
<1>4. deleter' \in [at : {"idle", "referenced", "used", "begin", "delete"},
                    cand : [Groups -> 0 .. clock'], used : SUBSET Groups, snapshot : Snapshots]
  BY <1>1, <1>2, DeleterTypes DEF Restamped
<1>5. TypeOK'
  <2>1. oldUpto' \in 0 .. clock'
    BY <1>1, <1>2 DEF Restamped, TypeOK
  <2> QED
    BY <1>1, <1>2, <1>3, <1>4, <2>1 DEF Restamped, TypeOK
<1>6. DeltasWhole' /\ (Safe => Safe')
  BY <1>1, <1>2, WatchKept DEF DeltasWhole, Safe, UsedKept
<1>7. QED
  BY <1>1, <1>5, <1>6
------------------------------------------------------------------------------
(* The deletion picks its candidates and asks again whether they are       *)
(* referenced.                                                             *)
LEMMA SelectStep ==
    ASSUME IInv, RecheckReferenced \/ BeginDelete \/ RetryDelete
                 \/ \E latest \in 1 .. clock : NextCollection(latest)
    PROVE  IInv'
<1> USE BoundFacts DEF IInv
<1>1. UNCHANGED <<groups, prev, allocated, referenced, stamp, clock, oldUpto, persisting, held,
                  persister, purge, disturbed, spent>>
  BY DEF RecheckReferenced, BeginDelete, RetryDelete, NextCollection, database
<1>2. /\ deleter' \in [at : {"idle", "referenced", "used", "begin", "delete"},
                       cand : [Groups -> 0 .. clock], used : SUBSET Groups, snapshot : Snapshots]
      /\ CandidatesWatched => CandidatesWatched'
  <2>1. ASSUME NEW latest \in 1 .. clock, NextCollection(latest)
        PROVE  /\ deleter' \in [at : {"idle", "referenced", "used", "begin", "delete"},
                                cand : [Groups -> 0 .. clock], used : SUBSET Groups,
                                snapshot : Snapshots]
               /\ CandidatesWatched'
    <3> DEFINE c == [g \in Groups |-> IF g \in Deletable /\ stamp[g] <= latest THEN stamp[g] ELSE 0]
    <3>1. c \in [Groups -> 0 .. clock]
      BY DEF TypeOK
    <3>2. deleter' = [deleter EXCEPT !.at = "referenced", !.cand = c]
      BY <2>1 DEF NextCollection
    <3> HIDE DEF c
    <3>3. deleter'.at = "referenced"
      BY <3>2 DEF TypeOK
    <3> QED
      BY <3>1, <3>2, <3>3 DEF TypeOK, CandidatesWatched
  <2>2. CASE RecheckReferenced
    <3> DEFINE used == Candidates \cap referenced
               c == [g \in Groups |-> IF g \in used THEN 0 ELSE deleter.cand[g]]
    <3>1. c \in [Groups -> 0 .. clock] /\ used \subseteq Groups
      BY DEF TypeOK, Candidates
    <3>2. deleter' = [deleter EXCEPT !.at = IF used = {} THEN "begin" ELSE "used",
                                     !.used = used, !.cand = c]
      BY <2>2 DEF RecheckReferenced
    <3>3. \A g \in referenced : c[g] = 0
      BY DEF TypeOK, Candidates
    <3> HIDE DEF c, used
    <3>4. deleter'.cand = c
      BY <3>2 DEF TypeOK
    <3>5. CandidatesWatched'
      BY <1>1, <3>3, <3>4 DEF CandidatesWatched
    <3> QED
      BY <3>1, <3>2, <3>5 DEF TypeOK
  <2>3. CASE BeginDelete
    <3> DEFINE snap == [stamp |-> stamp, persisting |-> persisting, prev |-> prev]
    <3>1. snap \in Snapshots
      BY DEF TypeOK, Snapshots
    <3>2. deleter' = [deleter EXCEPT !.at = "delete", !.snapshot = snap] /\ deleter.at = "begin"
      BY <2>3 DEF BeginDelete
    <3> HIDE DEF snap
    <3>3. deleter'.cand = deleter.cand
      BY <3>2 DEF TypeOK
    <3> QED
      BY <1>1, <3>1, <3>2, <3>3 DEF TypeOK, CandidatesWatched
  <2>4. CASE RetryDelete
    <3>1. NoSnapshot \in Snapshots
      BY DEF NoSnapshot, Snapshots
    <3>2. deleter' = [deleter EXCEPT !.at = "begin", !.snapshot = NoSnapshot] /\ deleter.at = "delete"
      BY <2>4 DEF RetryDelete
    <3>3. deleter'.cand = deleter.cand
      BY <3>2 DEF TypeOK
    <3> QED
      BY <1>1, <3>1, <3>2, <3>3 DEF TypeOK, CandidatesWatched
  <2> QED
    BY <2>1, <2>2, <2>3, <2>4
<1>3. TypeOK'
  BY <1>1, <1>2 DEF TypeOK
<1>4. QED
  BY <1>1, <1>2, <1>3 DEF DeltasWhole, Safe, UsedKept

(* Candidates that turn out to be referenced lose their rows. *)
LEMMA MarkUsedStep == ASSUME IInv, MarkUsed PROVE IInv'
<1> USE BoundFacts DEF IInv
<1>1. UNCHANGED <<groups, prev, allocated, referenced, oldUpto, persisting, held, persister, purge,
                  disturbed, spent>>
  BY DEF MarkUsed
<1>2. clock' = clock /\ Restamped({})
  BY ClearFacts DEF MarkUsed, ClearPending, Restamped
<1>3. \/ deleter' = IdleDeleter
      \/ deleter' = [deleter EXCEPT !.at = "begin", !.used = {}] /\ deleter.at = "used"
  BY DEF MarkUsed
<1>4. /\ deleter' \in [at : {"idle", "referenced", "used", "begin", "delete"},
                       cand : [Groups -> 0 .. clock], used : SUBSET Groups, snapshot : Snapshots]
      /\ deleter'.at = "idle" \/ (deleter.at = "used" /\ deleter'.cand = deleter.cand)
  <2>1. CASE deleter' = IdleDeleter
    BY <2>1 DEF IdleDeleter, NoSnapshot, Snapshots, TypeOK
  <2>2. CASE deleter' = [deleter EXCEPT !.at = "begin", !.used = {}] /\ deleter.at = "used"
    BY <2>2 DEF TypeOK
  <2> QED
    BY <1>3, <2>1, <2>2
<1>5. TypeOK'
  BY <1>1, <1>2, <1>4 DEF Restamped, TypeOK
<1>6. CandidatesWatched => CandidatesWatched'
  <2>1. \A g \in Groups : stamp'[g] = stamp[g] \/ stamp'[g] = 0 \/ stamp'[g] > clock
    BY <1>2 DEF Restamped
  <2>2. ASSUME CandidatesWatched, deleter.at = "used", deleter'.cand = deleter.cand,
               NEW g \in referenced, deleter.cand[g] # 0, stamp'[g] = deleter.cand[g]
        PROVE  g \in persisting
    <3>1. g \in Groups /\ deleter.cand[g] \in 0 .. clock /\ clock \in Nat
      BY DEF TypeOK
    <3>2. stamp[g] = deleter.cand[g]
      BY <2>1, <2>2, <3>1
    <3> QED
      BY <2>2, <3>2 DEF CandidatesWatched
  <2> QED
    BY <1>1, <1>4, <2>2 DEF CandidatesWatched
<1>7. QED
  BY <1>1, <1>5, <1>6 DEF DeltasWhole, Safe, UsedKept

(* What the deleting transaction takes away was selected with its present   *)
(* row and was not being persisted when the transaction began.              *)
LEMMA ReadyFacts ==
    ASSUME TypeOK, ~Conflict, NEW g \in ReadyForDeletion
    PROVE  /\ g \in Groups /\ deleter.cand[g] # 0 /\ stamp[g] = deleter.cand[g]
           /\ g \notin deleter.snapshot.persisting
<1>1. /\ g \in Candidates /\ deleter.snapshot.stamp[g] # 0
      /\ g \notin deleter.snapshot.persisting
      /\ deleter.snapshot.stamp[g] = deleter.cand[g]
  BY DEF ReadyForDeletion
<1>2. stamp[g] = deleter.snapshot.stamp[g]
  BY DEF Conflict
<1>3. QED
  BY <1>1, <1>2 DEF Candidates

(* The deletion, on the strength of its snapshot: what was a delta of a     *)
(* deleted group is whole after it.                                         *)
LEMMA DeleteGroupsStep == ASSUME IInv, DeleteGroups PROVE IInv'
<1> USE BoundFacts DEF IInv
<1> DEFINE gone == ReadyForDeletion
<1>1. /\ UNCHANGED <<allocated, referenced, oldUpto, persisting, held, persister, purge, spent>>
      /\ deleter.at = "delete" /\ deleter' = IdleDeleter
      /\ groups' = groups \ gone
      /\ prev' = DeDelta(gone)
      /\ disturbed \subseteq disturbed' /\ disturbed' \subseteq disturbed \cup {"snapshot"}
      /\ gone \cap (persisting \ deleter.snapshot.persisting) # {} => "snapshot" \in disturbed'
  BY DEF DeleteGroups
<1>2. clock' = clock /\ Restamped({})
  BY ClearFacts DEF DeleteGroups, ClearPending, Restamped
<1>3. \A g \in gone : /\ g \in Groups /\ deleter.cand[g] # 0 /\ stamp[g] = deleter.cand[g]
                      /\ g \notin deleter.snapshot.persisting
  BY ReadyFacts DEF DeleteGroups
<1> HIDE DEF gone
<1>4. /\ deleter' \in [at : {"idle", "referenced", "used", "begin", "delete"},
                       cand : [Groups -> 0 .. clock], used : SUBSET Groups, snapshot : Snapshots]
      /\ deleter'.at = "idle"
  BY <1>1 DEF IdleDeleter, NoSnapshot, Snapshots, TypeOK
<1>5. /\ prev' \in [Groups -> Groups \cup {None}]
      /\ \A g \in Groups : prev'[g] < g
      /\ \A g \in Groups : prev'[g] # None => prev'[g] = prev[g] /\ prev[g] \notin gone
  BY <1>1 DEF DeDelta, TypeOK
<1>6. TypeOK'
  <2>1. disturbed' \subseteq {"restart", "snapshot"}
    BY <1>1 DEF TypeOK
  <2> QED
    <3>1. groups' \subseteq 1 .. allocated'
      BY <1>1 DEF TypeOK
    <3>2. clock' \in Nat /\ oldUpto' \in 0 .. clock' /\ stamp' \in [Groups -> 0 .. clock']
      BY <1>1, <1>2 DEF Restamped, TypeOK
    <3> QED
      BY <1>1, <1>2, <1>4, <1>5, <2>1, <3>1, <3>2 DEF TypeOK
<1>7. DeltasWhole'
  <2>1. groups \subseteq Groups
    BY DEF TypeOK
  <2> QED
    BY <1>1, <1>5, <2>1 DEF DeltasWhole
<1>8. ASSUME disturbed' = {} PROVE Safe'
  <2>1. Safe /\ gone \cap persisting = {}
    BY <1>1, <1>3, <1>8
  <2>2. referenced' \subseteq groups'
    BY <1>1, <1>3, <2>1 DEF Safe, CandidatesWatched
  <2>3. UsedKept'
    BY <1>1, <2>1 DEF Safe, UsedKept, TypeOK
  <2>4. CandidatesWatched'
    BY <1>4 DEF CandidatesWatched
  <2> QED
    BY <2>2, <2>3, <2>4 DEF Safe
<1>9. QED
  BY <1>6, <1>7, <1>8
------------------------------------------------------------------------------
(* The inductive invariant. *)
LEMMA Invariance == Spec => []IInv
<1>1. IInv /\ [Next]_vars => IInv'
  <2> SUFFICES ASSUME IInv, [Next]_vars PROVE IInv'
    OBVIOUS
  <2>1. CASE UNCHANGED vars
    BY <2>1 DEF vars, database, IInv, TypeOK, DeltasWhole, Safe, UsedKept, CandidatesWatched
  <2>2. CASE Age \/ (\E g \in Groups : HandleEvent(g)) \/ \E p \in Groups \cup {None} : StoreGroup(p)
    BY <2>2, AgeStep, HandleEventStep, StoreGroupStep
  <2>3. CASE \/ \E gs \in SUBSET held : MarkPersisting(gs)
             \/ StoreFails \/ Crash \/ PersisterStep
    BY <2>3, MarkPersistingStep, StoreStep, FinishPersistingStep, CrashStep, RestartStep
       DEF PersisterStep
  <2>4. CASE \/ \E from \in SUBSET referenced : \E gone \in SUBSET from : PurgeEvents(from, gone)
             \/ PurgeStep
    BY <2>4, PurgeEventsStep, FindStep, MarkUnreferencedStep DEF PurgeStep
  <2>5. CASE DeleterStep
    BY <2>5, SelectStep, MarkUsedStep, DeleteGroupsStep DEF DeleterStep
  <2>6. QED
    BY <2>1, <2>2, <2>3, <2>4, <2>5 DEF Next
<1>2. QED
  BY <1>1, InitIInv, PTL DEF Spec

(* The variables keep their types, and edges go from newer groups to older. *)
THEOREM TypeCorrect == Spec => []TypeOK
BY Invariance, PTL DEF IInv

(* _purge_unreferenced_state_groups and store_state_group: the group that a *)
(* delta is built on is there.                                             *)
THEOREM DeltasStayWhole == Spec => []DeltasWhole
BY Invariance, PTL DEF IInv

(* The deletion's recheck, its sequence numbers and the persisting table    *)
(* together: a group that an event refers to is not deleted, unless one of  *)
(* the two things they do not protect against has happened.                 *)
THEOREM ReferencedGroupsKept == Spec => []ReferencedKept
<1>1. IInv => ReferencedKept
  BY DEF IInv, Safe, ReferencedKept
<1>2. QED
  BY <1>1, Invariance, PTL
====================================================================================
