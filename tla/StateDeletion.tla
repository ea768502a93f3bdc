------------------------------ MODULE StateDeletion ------------------------------
(***************************************************************************)
(* Deletion of state groups (StateDeletionDataStore, the purge controller  *)
(* and the state group store) beside the persistence of events.            *)
(*                                                                         *)
(* Events refer to state groups in the main database; the groups, their    *)
(* edges and the two tables state_groups_pending_deletion and              *)
(* state_groups_persisting are in the state database, so that no single    *)
(* transaction sees a reference and the group it points to.  Four parties  *)
(* act: handlers of new events, the event persister, an administrator's    *)
(* history purge and the background loop that deletes.                     *)
(*                                                                         *)
(* A transaction that writes pending rows gives them one stamp, which      *)
(* stands for their sequence_number and for their insertion_ts; stamp[g] = *)
(* 0 is "no row".  The rows stamped up to oldUpto are older than           *)
(* DELAY_BEFORE_DELETION_MS.  PostgreSQL runs the transactions under       *)
(* REPEATABLE READ: all are atomic here but the deleting one, whose reads  *)
(* come from the snapshot it started with and whose writes fail when a row *)
(* they touch was changed since.                                           *)
(***************************************************************************)
EXTENDS Naturals, FiniteSets

CONSTANTS
    MaxGroup,       \* state groups are 1 .. MaxGroup
    OldGroups,      \* 1 .. OldGroups exist at the start, each the delta of the one before
    MaxUses,        \* bound on the events handled and the groups stored
    MaxPurges,      \* bound on the history purges
    MaxFaults       \* bound on the failed writes and the crashes of the persister

ASSUME BoundsAssumption ==
    /\ {MaxGroup, OldGroups, MaxUses, MaxPurges, MaxFaults} \subseteq Nat
    /\ OldGroups \in 1 .. MaxGroup

Groups == 1 .. MaxGroup
None == 0

VARIABLES
    groups,         \* the rows of state_groups
    prev,           \* state_group_edges: the group this one is a delta of, or None
    allocated,      \* the last id of the state group sequence
    referenced,     \* the groups in event_to_state_groups (main database)
    stamp,          \* state_groups_pending_deletion
    clock,          \* the last stamp given
    oldUpto,        \* the stamps older than the delay
    persisting,     \* state_groups_persisting
    held,           \* groups in the contexts of events that are not persisted yet
    persister,      \* the event persister: where it is and the groups it works on
    purge,          \* the history purge
    deleter,        \* the deletion loop
    disturbed,      \* history: what the tables do not protect against and that happened
    spent           \* events handled, purges and faults so far

database == <<groups, prev, allocated, referenced, stamp, clock, oldUpto, persisting>>
vars == <<database, held, persister, purge, deleter, disturbed, spent>>

IdlePersister == [at |-> "idle", use |-> {}, failed |-> FALSE]
IdlePurge == [at |-> "idle", seen |-> {}, search |-> {}, next |-> {}, found |-> {}]
NoSnapshot == [stamp |-> [g \in Groups |-> 0], persisting |-> {}, prev |-> [g \in Groups |-> None]]
IdleDeleter == [at |-> "idle", cand |-> [g \in Groups |-> 0], used |-> {},
                snapshot |-> NoSnapshot]

Init ==
    /\ groups = 1 .. OldGroups
    /\ prev = [g \in Groups |-> IF g \in 2 .. OldGroups THEN g - 1 ELSE None]
    /\ allocated = OldGroups
    /\ referenced = 1 .. OldGroups
    /\ stamp = [g \in Groups |-> 0]
    /\ clock = 0
    /\ oldUpto = 0
    /\ persisting = {}
    /\ held = {}
    /\ persister = IdlePersister
    /\ purge = IdlePurge
    /\ deleter = IdleDeleter
    /\ disturbed = {}
    /\ spent = [uses |-> 0, purges |-> 0, faults |-> 0]

Pending == {g \in Groups : stamp[g] # 0}

Spend(what, bound) ==
    /\ spent[what] < bound
    /\ spent' = [spent EXCEPT ![what] = @ + 1]
------------------------------------------------------------------------------
(* Transactions on the pending rows. *)

(* The pending rows of gs get the next sequence number and the time of now. *)
BumpDeletion(gs) ==
    /\ clock' = IF gs \cap Pending = {} THEN clock ELSE clock + 1
    /\ stamp' = [g \in Groups |-> IF g \in gs \cap Pending THEN clock' ELSE stamp[g]]

(* Rows that exist are left as they are. *)
MarkPendingDeletion(gs) ==
    LET new == gs \ Pending
    IN  /\ clock' = IF new = {} THEN clock ELSE clock + 1
        /\ stamp' = [g \in Groups |-> IF g \in new THEN clock' ELSE stamp[g]]

ClearPending(gs) ==
    /\ stamp' = [g \in Groups |-> IF g \in gs THEN 0 ELSE stamp[g]]
    /\ UNCHANGED clock

(* Time passes: one more stamp is older than the delay. *)
Age ==
    /\ oldUpto < clock
    /\ oldUpto' = oldUpto + 1
    /\ UNCHANGED <<groups, prev, allocated, referenced, stamp, clock, persisting>>
    /\ UNCHANGED <<held, persister, purge, deleter, disturbed, spent>>
------------------------------------------------------------------------------
(* Handling of new events. *)

(* compute_event_context: the event's state is an existing group. *)
HandleEvent(g) ==
    /\ g \in groups
    /\ Spend("uses", MaxUses)
    /\ BumpDeletion({g})
    /\ held' = held \cup {g}
    /\ UNCHANGED <<groups, prev, allocated, referenced, oldUpto, persisting>>
    /\ UNCHANGED <<persister, purge, deleter, disturbed>>

(* store_state_group: a new group, as a delta of p or (p = None) in full. *)
StoreGroup(p) ==
    /\ p \in groups \cup {None}
    /\ allocated < MaxGroup
    /\ Spend("uses", MaxUses)
    /\ BumpDeletion({p})
    /\ allocated' = allocated + 1
    /\ groups' = groups \cup {allocated'}
    /\ prev' = [prev EXCEPT ![allocated'] = p]
    /\ held' = held \cup {allocated'}
    /\ UNCHANGED <<referenced, oldUpto, persisting, persister, purge, deleter, disturbed>>
------------------------------------------------------------------------------
(* Persisting events. *)

(* _mark_state_groups_as_persisting_txn, for the groups of one batch. *)
MarkPersisting(gs) ==
    /\ persister.at = "idle"
    /\ gs # {}
    /\ gs \subseteq held
    /\ held' = held \ gs
    /\ IF gs \subseteq groups
         THEN /\ persisting' = persisting \cup gs
              /\ persister' = [at |-> "store", use |-> gs, failed |-> FALSE]
         ELSE UNCHANGED <<persisting, persister>>     \* "state groups have been deleted"
    /\ UNCHANGED <<groups, prev, allocated, referenced, stamp, clock, oldUpto>>
    /\ UNCHANGED <<purge, deleter, disturbed, spent>>

(* _persist_events_and_state_updates: the references are committed. *)
StoreEvents ==
    /\ persister.at = "store"
    /\ persister' = [persister EXCEPT !.at = "finish"]
    /\ referenced' = referenced \cup persister.use
    /\ UNCHANGED <<groups, prev, allocated, stamp, clock, oldUpto, persisting>>
    /\ UNCHANGED <<held, purge, deleter, disturbed, spent>>

(* It raises; the events may have been committed all the same. *)
StoreFails ==
    /\ persister.at = "store"
    /\ Spend("faults", MaxFaults)
    /\ persister' = [persister EXCEPT !.at = "finish", !.failed = TRUE]
    /\ referenced' \in {referenced, referenced \cup persister.use}
    /\ UNCHANGED <<groups, prev, allocated, stamp, clock, oldUpto, persisting>>
    /\ UNCHANGED <<held, purge, deleter, disturbed>>

(* _finish_persisting_txn. *)
FinishPersisting ==
    /\ persister.at = "finish"
    /\ persister' = IdlePersister
    /\ persisting' = persisting \ persister.use
    /\ IF persister.failed THEN BumpDeletion(persister.use) ELSE ClearPending(persister.use)
    /\ UNCHANGED <<groups, prev, allocated, referenced, oldUpto>>
    /\ UNCHANGED <<held, purge, deleter, disturbed, spent>>

Crash ==
    /\ persister.at \in {"store", "finish"}
    /\ Spend("faults", MaxFaults)
    /\ persister' = [IdlePersister EXCEPT !.at = "down"]
    /\ UNCHANGED <<database, held, purge, deleter, disturbed>>

(* _clear_existing_persising: the rows go, and nothing is bumped. *)
Restart ==
    /\ persister.at = "down"
    /\ persister' = IdlePersister
    /\ persisting' = {}
    /\ disturbed' = disturbed \cup (IF persisting \cap Pending # {} THEN {"restart"} ELSE {})
    /\ UNCHANGED <<groups, prev, allocated, referenced, stamp, clock, oldUpto>>
    /\ UNCHANGED <<held, purge, deleter, spent>>
------------------------------------------------------------------------------
(* purge_history: the events before a point go, and with them references. *)

PurgeEvents(from, gone) ==
    /\ purge.at = "idle"
    /\ Spend("purges", MaxPurges)
    /\ from \subseteq referenced /\ from # {}
    /\ gone \subseteq from
    /\ referenced' = referenced \ gone
    /\ purge' = [IdlePurge EXCEPT !.at = "referenced", !.seen = from, !.search = from]
    /\ UNCHANGED <<groups, prev, allocated, stamp, clock, oldUpto, persisting>>
    /\ UNCHANGED <<held, persister, deleter, disturbed>>

(* One query of _find_unreferenced_groups per step: which of the groups     *)
(* searched are referenced, which groups the others are deltas of, and      *)
(* which are deltas of them.                                                *)
FindReferenced ==
    /\ purge.at = "referenced"
    /\ purge' = [purge EXCEPT !.at = "previous",
                              !.found = @ \cup (purge.search \cap referenced),
                              !.search = @ \ referenced]
    /\ UNCHANGED <<database, held, persister, deleter, disturbed, spent>>

FindPrevious ==
    LET prevs == {prev[g] : g \in purge.search} \ (purge.seen \cup {None})
    IN  /\ purge.at = "previous"
        /\ purge' = [purge EXCEPT !.at = "next", !.next = prevs, !.seen = @ \cup prevs]
        /\ UNCHANGED <<database, held, persister, deleter, disturbed, spent>>

FindNext ==
    LET nexts == {g \in groups : prev[g] \in purge.search} \ purge.seen
        more == purge.next \cup nexts
    IN  /\ purge.at = "next"
        /\ purge' = [purge EXCEPT !.at = IF more = {} THEN "mark" ELSE "referenced",
                                  !.next = {}, !.search = more, !.seen = @ \cup nexts]
        /\ UNCHANGED <<database, held, persister, deleter, disturbed, spent>>

MarkUnreferenced ==
    /\ purge.at = "mark"
    /\ purge' = IdlePurge
    /\ MarkPendingDeletion(purge.seen \ purge.found)
    /\ UNCHANGED <<groups, prev, allocated, referenced, oldUpto, persisting>>
    /\ UNCHANGED <<held, persister, deleter, disturbed, spent>>

PurgeStep == FindReferenced \/ FindPrevious \/ FindNext \/ MarkUnreferenced
------------------------------------------------------------------------------
(* The deletion loop. *)

Candidates == {g \in Groups : deleter.cand[g] # 0}

Deletable == {g \in Pending \cap groups : stamp[g] <= oldUpto} \ persisting

(* get_next_state_group_collection_to_delete: the rows with the oldest      *)
(* insertion_ts.  Rows of the stamps up to latest were written in the same  *)
(* millisecond.                                                             *)
NextCollection(latest) ==
    /\ deleter.at = "idle"
    /\ \E g \in Deletable : stamp[g] = latest
    /\ deleter' = [deleter EXCEPT
                     !.at = "referenced",
                     !.cand = [g \in Groups |->
                                 IF g \in Deletable /\ stamp[g] <= latest THEN stamp[g] ELSE 0]]
    /\ UNCHANGED <<database, held, persister, purge, disturbed, spent>>

(* _delete_state_groups: the recheck in the main database ... *)
RecheckReferenced ==
    LET used == Candidates \cap referenced
    IN  /\ deleter.at = "referenced"
        /\ deleter' = [deleter EXCEPT
                         !.at = IF used = {} THEN "begin" ELSE "used",
                         !.used = used,
                         !.cand = [g \in Groups |-> IF g \in used THEN 0 ELSE @[g]]]
        /\ UNCHANGED <<database, held, persister, purge, disturbed, spent>>

(* Deviation: the rows of the groups found in use stay. *)
MarkUsedKeepsRows ==
    /\ deleter.at = "used"
    /\ deleter' = IF Candidates = {} THEN IdleDeleter
                  ELSE [deleter EXCEPT !.at = "begin", !.used = {}]
    /\ UNCHANGED <<database, held, persister, purge, disturbed, spent>>

(* ... and the groups it found in use, which are no longer pending. *)
MarkUsed ==
    /\ deleter.at = "used"
    /\ deleter' = IF Candidates = {} THEN IdleDeleter
                  ELSE [deleter EXCEPT !.at = "begin", !.used = {}]
    /\ ClearPending(deleter.used)
    /\ UNCHANGED <<groups, prev, allocated, referenced, oldUpto, persisting>>
    /\ UNCHANGED <<held, persister, purge, disturbed, spent>>

(* The deleting transaction begins: what it will read. *)
BeginDelete ==
    /\ deleter.at = "begin"
    /\ deleter' = [deleter EXCEPT !.at = "delete",
                     !.snapshot = [stamp |-> stamp, persisting |-> persisting, prev |-> prev]]
    /\ UNCHANGED <<database, held, persister, purge, disturbed, spent>>

(* The groups that those of gs are directly or indirectly deltas of. *)
Ancestors(edges, gs) ==
    LET anc[g \in Groups] ==
          IF edges[g] = None THEN {} ELSE {edges[g]} \cup anc[edges[g]]
    IN  UNION {anc[g] : g \in gs}

(* Deviation: the sequence numbers are not compared. *)
ReadyWhateverSequence ==
    LET snap == deleter.snapshot
    IN  {g \in Candidates : /\ g \notin snap.persisting
                            /\ snap.stamp[g] # 0
                            /\ snap.stamp[g] <= oldUpto}

(* get_state_groups_ready_for_potential_deletion_txn *)
ReadyForDeletion ==
    LET snap == deleter.snapshot
        notReady == {g \in Candidates :
                       \/ g \in snap.persisting
                       \/ /\ snap.stamp[g] # 0
                          /\ snap.stamp[g] # deleter.cand[g] \/ snap.stamp[g] > oldUpto}
        ready == {g \in Candidates : snap.stamp[g] # 0} \ notReady
    IN  IF notReady = {} THEN ready ELSE ready \ Ancestors(snap.prev, Candidates)

(* A row that the transaction deletes was changed since its snapshot: the   *)
(* database refuses, and runInteraction runs the transaction again.         *)
Conflict == \E g \in ReadyForDeletion : stamp[g] # deleter.snapshot.stamp[g]

(* Deviation: only the deleted groups' own edges go. *)
DropEdges(gone) == [g \in Groups |-> IF g \in gone THEN None ELSE prev[g]]

(* Groups that stay and are deltas of deleted ones are stored in full. *)
DeDelta(gone) ==
    [g \in Groups |-> IF g \in gone \/ prev[g] \in gone THEN None ELSE prev[g]]

RetryDelete ==
    /\ deleter.at = "delete"
    /\ Conflict
    /\ deleter' = [deleter EXCEPT !.at = "begin", !.snapshot = NoSnapshot]
    /\ UNCHANGED <<database, held, persister, purge, disturbed, spent>>

(* _purge_unreferenced_state_groups *)
DeleteGroups ==
    LET gone == ReadyForDeletion
    IN  /\ deleter.at = "delete"
        /\ ~Conflict
        /\ deleter' = IdleDeleter
        /\ groups' = groups \ gone
        /\ prev' = DeDelta(gone)
        /\ ClearPending(gone)
        /\ disturbed' = disturbed \cup
             (IF gone \cap (persisting \ deleter.snapshot.persisting) # {}
                THEN {"snapshot"} ELSE {})
        /\ UNCHANGED <<allocated, referenced, oldUpto, persisting, held, persister, purge, spent>>

PersisterStep == StoreEvents \/ FinishPersisting \/ Restart
DeleterStep ==
    \/ \E latest \in 1 .. clock : NextCollection(latest)
    \/ RecheckReferenced \/ MarkUsed \/ BeginDelete \/ RetryDelete \/ DeleteGroups

Next ==
    \/ Age
    \/ \E g \in Groups : HandleEvent(g)
    \/ \E p \in Groups \cup {None} : StoreGroup(p)
    \/ \E gs \in SUBSET held : MarkPersisting(gs)
    \/ StoreFails \/ Crash
    \/ PersisterStep
    \/ \E from \in SUBSET referenced : \E gone \in SUBSET from : PurgeEvents(from, gone)
    \/ PurgeStep
    \/ DeleterStep

Spec == Init /\ [][Next]_vars

(* Time passes, the deletion loop is called every minute, and what the      *)
(* persister began it ends, after a restart if it crashed.                  *)
Fairness == WF_vars(Age) /\ WF_vars(PersisterStep) /\ WF_vars(DeleterStep)

FairSpec == Spec /\ Fairness
------------------------------------------------------------------------------
(* What a transaction of the deletion loop may have read. *)
Snapshots == [stamp : [Groups -> Nat], persisting : SUBSET Groups,
              prev : [Groups -> Groups \cup {None}]]

(* Types of the variables (StateDeletionDataStore and the purge controller). *)
TypeOK ==
    /\ groups \subseteq 1 .. allocated /\ allocated \in Groups
    /\ prev \in [Groups -> Groups \cup {None}]
    /\ \A g \in Groups : prev[g] < g
    /\ referenced \subseteq 1 .. allocated
    /\ clock \in Nat /\ oldUpto \in 0 .. clock
    /\ stamp \in [Groups -> 0 .. clock]
    /\ held \subseteq 1 .. allocated
    /\ persister \in [at : {"idle", "store", "finish", "down"}, use : SUBSET Groups,
                      failed : BOOLEAN]
    /\ persister.use \subseteq persisting /\ persisting \subseteq 1 .. allocated
    /\ purge \in [at : {"idle", "referenced", "previous", "next", "mark"}, seen : SUBSET Groups,
                  search : SUBSET Groups, next : SUBSET Groups, found : SUBSET Groups]
    /\ purge.search \cup purge.next \cup purge.found \subseteq purge.seen
    /\ deleter \in [at : {"idle", "referenced", "used", "begin", "delete"},
                    cand : [Groups -> 0 .. clock], used : SUBSET Groups, snapshot : Snapshots]
    /\ disturbed \subseteq {"restart", "snapshot"}
    /\ spent \in [uses : 0 .. MaxUses, purges : 0 .. MaxPurges, faults : 0 .. MaxFaults]

(* "So long as we check that table before deleting state groups, we can     *)
(* ensure that we never persist events that reference deleted state groups" *)
(* (deletion.py): every group an event refers to exists, through purges,    *)
(* failures and retries, unless the persister restarted with rows of        *)
(* pending groups or marked a group after the deletion's snapshot.          *)
ReferencedKept == disturbed = {} => referenced \subseteq groups

(* No group is a delta of a deleted one (_purge_unreferenced_state_groups   *)
(* stores such groups in full, store_state_group locks the one it builds    *)
(* on), whatever else goes wrong.                                           *)
DeltasWhole == \A g \in groups : prev[g] # None => prev[g] \in groups

(* What the deletion loop looks at goes: a pending group that exists is     *)
(* deleted or found in use, however often its row is bumped and however the *)
(* loop's transaction conflicts (_delete_state_groups_loop).                *)
PendingSettled ==
    \A g \in Groups : g \in Pending \cap groups ~> g \notin Pending \cap groups

(* deletion.py, of the sequence number: "So long as we always bump the      *)
(* sequence number whenever an event may become used the race can never     *)
(* happen".  _clear_existing_persising forgets groups whose events may have *)
(* been stored and bumps nothing.                                           *)
ReferencedKeptOverRestart == "snapshot" \notin disturbed => referenced \subseteq groups

(* deletion.py, of state_groups_persisting, quoted above: under REPEATABLE  *)
(* READ the deleting transaction does not see a row committed after its     *)
(* snapshot.                                                                *)
ReferencedKeptOverSnapshot == "restart" \notin disturbed => referenced \subseteq groups
==============================================================================
