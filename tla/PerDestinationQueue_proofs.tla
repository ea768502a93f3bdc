---------------------- MODULE PerDestinationQueue_proofs ----------------------
(***************************************************************************)
(* The federation sender's queue keeps its types, loses no event that is   *)
(* handled in order (NoLoss) and deletes no to-device message that the     *)
(* destination does not have (MessagesKept), for any rooms, events,        *)
(* messages, limits and numbers of failures, back-offs and crashes.        *)
(***************************************************************************)
EXTENDS PerDestinationQueue, FiniteSetTheorems, SequenceTheorems, TLAPS

(***************************************************************************)
(* What is true of the batch, in any order: an event is handled after the  *)
(* earlier ones of its room, and its entry is the room's from the time it  *)
(* is stored until a later event of the room is.                           *)
(***************************************************************************)
BatchInv ==
    /\ outPos <= persisted /\ lastPoked <= persisted
    /\ batchTo # None => outPos < batchTo /\ batchTo <= persisted
    /\ \A e \in Events : stage[e] # "new" => e <= outPos \/ e <= batchTo
    /\ \A e \in Events : e <= outPos => stage[e] = "handled"
    /\ \A e, f \in Events : e < f /\ RoomOf[e] = RoomOf[f] /\ stage[f] # "new" => stage[e] = "handled"
    /\ \A e \in Events : stage[e] # "new" => destRooms[RoomOf[e]] >= e
    /\ \A e \in Events : stage[e] \in {"stored", "passed"} => destRooms[RoomOf[e]] = e
    /\ \A r \in Rooms : destRooms[r] # None => RoomOf[destRooms[r]] = r /\ destRooms[r] <= persisted

(* The loop's places in and after the catch-up. *)
PlaceInv ==
    /\ pc \in {"query", "decide", "choose", "recordCatchUp"} => catchingUp /\ lastCached # None
    /\ pc \in {"collect", "collecting", "collected", "deleting", "recording"} => ~catchingUp
    /\ pc \in {"choose", "recordCatchUp"} => found # <<>>
    /\ pc \in {"sending", "answered"} /\ catchingUp => found # <<>> /\ lastCached # None
    /\ pc = "recording" => txn # <<>>

(* S, which are events, has the event or a later one of its room. *)
Within(e, S) == \E f \in S : RoomOf[f] = RoomOf[e] /\ f >= e

(* s is the beginning of t. *)
Begins(s, t) == Len(s) <= Len(t) /\ \A i \in 1 .. Len(s) : s[i] = t[i]

(* What the loop holds at each place. *)
LoopInv ==
    /\ pc \in {"sending", "answered"} /\ catchingUp => Within(Head(found), Range(txn))
    /\ pc \in {"sending", "answered"} /\ ~catchingUp => Begins(txn, pending)
    /\ pc \in {"answered", "deleting", "recording"} => Range(txn) \subseteq received
    /\ pc = "recordCatchUp" => Within(Head(found), received)
    /\ \A e \in Range(pending) : stage[e] = "handled"
    /\ pc \in {"deleting", "recording"} => \A e \in Range(txn) : stage[e] = "handled"
    /\ \A e \in Range(found) : e <= persisted

(***************************************************************************)
(* The messages collected are all there are up to upTo, so that no other   *)
(* is deleted with them.                                                   *)
(***************************************************************************)
MessageInv ==
    /\ lastDevice <= messages
    /\ upTo <= messages
    /\ \A m \in outbox : m > lastDevice
    /\ pc \in {"collected", "sending", "answered", "deleting"} /\ ~catchingUp =>
        \A m \in outbox : m <= upTo => m \in edus
    /\ pc \in {"answered", "deleting"} /\ ~catchingUp => edus \subseteq delivered
    /\ MessagesKept
--------------------------------------------------------------------------------
(***************************************************************************)
(* Listings and their beginnings.                                          *)
(***************************************************************************)

Increasing(s) == \A i, j \in DOMAIN s : i < j => s[i] < s[j]

(* An event is a number above Start. *)
LEMMA EventFacts ==
    /\ Events \subseteq Nat
    /\ \A e : e \in Events <=> e \in Nat /\ 1 < e /\ e <= MaxEvent
    /\ \A e \in Events : RoomOf[e] \in Rooms
    /\ None = 0 /\ Start = 1 /\ MaxEvent \in Nat
BY RoomAssumption, BoundsAssumption DEF Events, Start, None

(* ORDER BY returns each member of the set once, in order. *)
LEMMA AscendingFacts ==
    ASSUME NEW n \in Nat, NEW S \in SUBSET (0 .. n), NEW s \in Ascending(S)
    PROVE  /\ s \in Seq(S)
           /\ Range(s) = S
           /\ Increasing(s)
<1> DEFINE k == Cardinality(S)
<1>1. IsFiniteSet(S)
  <2>1. 0 \in Int /\ n \in Int
    OBVIOUS
  <2>2. IsFiniteSet(0 .. n)
    BY <2>1, FS_Interval
  <2> QED
    BY <2>2, FS_Subset
<1>2. k \in Nat
  BY <1>1, FS_CardinalityType
<1>3. s \in [1 .. k -> S]
  BY DEF Ascending, SetToSeqs
<1>4. \A i, j \in 1 .. k : i # j => s[i] # s[j]
  BY DEF Ascending, SetToSeqs
<1>5. ASSUME NEW x \in S, \A i \in 1 .. k : s[i] # x
      PROVE  FALSE
  <2> DEFINE T == S \ {x}
  <2>1. IsFiniteSet(T) /\ Cardinality(T) = k - 1
    BY <1>1, FS_RemoveElement
  <2>2. IsFiniteSet(1 .. k) /\ Cardinality(1 .. k) = k
    BY <1>2, FS_Interval
  <2>3. Cardinality(T) < Cardinality(1 .. k)
    BY <1>2, <2>1, <2>2
  <2>4. s \in [1 .. k -> T]
    BY <1>3, <1>5
  <2>5. \E i, j \in 1 .. k : i # j /\ s[i] = s[j]
    <3> HIDE DEF T, k
    <3> QED
      BY <2>1, <2>2, <2>3, <2>4, FS_PigeonHole
  <2> QED
    BY <2>5, <1>4
<1>6. Range(s) = S
  BY <1>3, <1>5 DEF Range
<1>7. s \in Seq(S)
  BY <1>2, <1>3
<1>8. Increasing(s)
  BY DEF Ascending, Increasing
<1> QED
  BY <1>6, <1>7, <1>8

(* The beginning of a sequence that fits in an answer. *)
LEMMA UpToLimitFacts ==
    ASSUME NEW T, NEW s \in Seq(T), NEW p, p = UpToLimit(s)
    PROVE  /\ p \in Seq(T)
           /\ Begins(p, s)
           /\ Len(p) <= Limit
           /\ Len(p) < Limit => p = s
           /\ s # <<>> => p # <<>>
<1>1. Limit \in Nat /\ Limit > 0 /\ Len(s) \in Nat
  BY BoundsAssumption
<1>2. CASE Len(s) < Limit
  <2>1. p = SubSeq(s, 1, Len(s))
    BY <1>2 DEF UpToLimit
  <2>2. p = s
    BY <1>1, <2>1
  <2> QED
    BY <1>1, <1>2, <2>2 DEF Begins
<1>3. CASE ~(Len(s) < Limit)
  <2>1. p = SubSeq(s, 1, Limit)
    BY <1>3 DEF UpToLimit
  <2>2. p \in Seq(T) /\ Len(p) = Limit /\ \A i \in 1 .. Limit : p[i] = s[i]
    BY <1>1, <1>3, <2>1
  <2> QED
    BY <1>1, <1>3, <2>2 DEF Begins
<1> QED
  BY <1>2, <1>3

(* What a listing has up to the limit: the first, and everything below them. *)
LEMMA OldestFacts ==
    ASSUME NEW n \in Nat, NEW S \in SUBSET (0 .. n), NEW s \in Ascending(S),
           NEW p, p = UpToLimit(s)
    PROVE  /\ p \in Seq(S)
           /\ Increasing(p)
           /\ Len(p) < Limit => Range(p) = S
           /\ p = <<>> => S = {}
           /\ \A i \in DOMAIN p, x \in S : x <= p[i] => x \in Range(p)
<1>1. s \in Seq(S) /\ Range(s) = S /\ Increasing(s)
  BY AscendingFacts
<1>2. p \in Seq(S) /\ Begins(p, s) /\ Len(p) <= Limit /\ (Len(p) < Limit => p = s) /\ (s # <<>> => p # <<>>)
  BY <1>1, UpToLimitFacts
<1>3. DOMAIN p = 1 .. Len(p) /\ DOMAIN s = 1 .. Len(s) /\ Len(p) \in Nat /\ Len(s) \in Nat
  BY <1>1, <1>2
<1>4. Increasing(p)
  BY <1>1, <1>2, <1>3 DEF Increasing, Begins
<1>5. p = <<>> => S = {}
  BY <1>1, <1>2, <1>3 DEF Range
<1>6. ASSUME NEW i \in DOMAIN p, NEW x \in S, x <= p[i]
      PROVE  x \in Range(p)
  <2>1. PICK j \in DOMAIN s : s[j] = x
    BY <1>1 DEF Range
  <2>2. s[i] = p[i] /\ i \in DOMAIN s
    BY <1>2, <1>3 DEF Begins
  <2>3. s[i] \in Nat /\ s[j] \in Nat
    <3>1. s[i] \in S /\ s[j] \in S
      BY <1>1, <2>2
    <3>2. \A y \in S : y \in Nat
      OBVIOUS
    <3> QED
      BY <3>1, <3>2
  <2>4. ~(i < j)
    BY <1>1, <1>6, <2>1, <2>2, <2>3 DEF Increasing
  <2>5. j \in DOMAIN p /\ p[j] = x
    BY <1>2, <1>3, <2>1, <2>4 DEF Begins
  <2> QED
    BY <2>5 DEF Range
<1> QED
  BY <1>1, <1>2, <1>4, <1>5, <1>6
--------------------------------------------------------------------------------
(***************************************************************************)
(* Types and places.                                                       *)
(***************************************************************************)

(* Counting a fault keeps the type of the counters. *)
LEMMA FaultsType ==
    ASSUME NEW f \in [failures : 0 .. MaxFailures, backoffs : 0 .. MaxBackoffs, crashes : 0 .. MaxCrashes],
           NEW g,
           \/ f.failures < MaxFailures /\ g = [f EXCEPT !.failures = @ + 1]
           \/ f.backoffs < MaxBackoffs /\ g = [f EXCEPT !.backoffs = @ + 1]
           \/ f.crashes < MaxCrashes /\ g = [f EXCEPT !.crashes = @ + 1]
    PROVE  g \in [failures : 0 .. MaxFailures, backoffs : 0 .. MaxBackoffs, crashes : 0 .. MaxCrashes]
BY BoundsAssumption

(* Events and messages handled keep the types. *)
LEMMA TypeKeptHandling ==
    ASSUME TypeOK, BatchInv,
           \/ Persist \/ NotifyOther \/ AddMessage \/ Poke \/ WakeDestination
           \/ Handle \/ BackoffGrows \/ BackoffClears \/ TimePasses \/ Crash
    PROVE  TypeOK'
<1> USE DEF TypeOK, tables, sender, catchUp, transaction, remote, history
<1>1. CASE Persist
  <2>1. persisted' \in Start .. MaxEvent /\ lastPoked' \in None .. MaxEvent
    BY <1>1, BoundsAssumption DEF Persist, Start, None
  <2> QED
    BY <1>1, <2>1 DEF Persist
<1>15. CASE NotifyOther
  <2>1. lastPoked' \in None .. MaxEvent
    BY <1>15, BoundsAssumption DEF NotifyOther, Start, None
  <2> QED
    BY <1>15, <2>1 DEF NotifyOther
<1>2. CASE AddMessage
  <2>1. messages' \in 0 .. MaxMessage /\ messages' \in Messages
    BY <1>2, BoundsAssumption DEF AddMessage, Messages
  <2> QED
    BY <1>2, <2>1 DEF AddMessage
<1>3. CASE Poke
  <2>1. pc' \in PcValues /\ newData' \in BOOLEAN
    BY <1>3 DEF Poke, AttemptNewTransaction, PcValues
  <2> QED
    BY <1>3, <2>1 DEF Poke
<1>4. CASE WakeDestination
  <2>1. pc' \in PcValues /\ newData' \in BOOLEAN
    BY <1>4 DEF WakeDestination, AttemptNewTransaction, PcValues
  <2> QED
    BY <1>4, <2>1 DEF WakeDestination
<1>5. CASE StartBatch
  <2>1. batchTo' \in Events
    BY <1>5, BoundsAssumption DEF StartBatch, Events, Start, None
  <2> QED
    BY <1>5, <2>1 DEF StartBatch
<1>6. CASE FinishBatch
  <2>1. outPos' \in Start .. MaxEvent
    BY <1>6, BoundsAssumption DEF FinishBatch, Events, Start
  <2> QED
    BY <1>6, <2>1 DEF FinishBatch
<1>7. ASSUME NEW e \in Events, StoreEntry(e)
      PROVE  TypeOK'
  BY <1>7 DEF StoreEntry, Stages
<1>8. ASSUME NEW e \in Events, Pass(e)
      PROVE  TypeOK'
  BY <1>8 DEF Pass, Stages
<1>9. ASSUME NEW e \in Events, FilterOut(e)
      PROVE  TypeOK'
  BY <1>9 DEF FilterOut, Stages
<1>10. ASSUME NEW e \in Events, SendPdu(e)
       PROVE  TypeOK'
  <2>1. pc' \in PcValues /\ newData' \in BOOLEAN
    BY <1>10 DEF SendPdu, AttemptNewTransaction, PcValues
  <2>2. pending' \in Seq(Events) /\ lastSkipped' \in Events \cup {None}
    <3>1. Append(pending, e) \in Seq(Events)
      OBVIOUS
    <3>2. \/ pending' = Append(pending, e) /\ lastSkipped' = lastSkipped
          \/ pending' = pending /\ lastSkipped' = e
      BY <1>10 DEF SendPdu
    <3> QED
      BY <3>1, <3>2
  <2>3. stage' \in [Events -> Stages] /\ inOrder' \in BOOLEAN
    BY <1>10 DEF SendPdu, Stages
  <2> QED
    BY <1>10, <2>1, <2>2, <2>3 DEF SendPdu
<1>11. CASE BackoffGrows
  <2>1. backoff' \in Backoffs
    BY <1>11 DEF BackoffGrows, Backoffs
  <2>2. faults' \in [failures : 0 .. MaxFailures, backoffs : 0 .. MaxBackoffs, crashes : 0 .. MaxCrashes]
    BY <1>11, FaultsType DEF BackoffGrows
  <2> QED
    BY <1>11, <2>1, <2>2 DEF BackoffGrows
<1>12. CASE BackoffClears
  BY <1>12 DEF BackoffClears, Backoffs
<1>13. CASE TimePasses
  <2>1. backoff' \in Backoffs
    <3>1. CASE backoff.due = "later"
      <4>1. backoff \in [interval : {"long"}, due : {"later", "soon", "over"}]
        BY <3>1 DEF Backoffs, NoBackoff
      <4> QED
        BY <1>13, <3>1, <4>1 DEF TimePasses, Backoffs
    <3>2. CASE backoff.due # "later"
      BY <1>13, <3>2 DEF TimePasses, Backoffs, NoBackoff
    <3> QED
      BY <3>1, <3>2
  <2> QED
    BY <1>13, <2>1 DEF TimePasses
<1>14. CASE Crash
  <2>1. stage' \in [Events -> Stages]
    BY <1>14 DEF Crash, Stages
  <2>2. faults' \in [failures : 0 .. MaxFailures, backoffs : 0 .. MaxBackoffs, crashes : 0 .. MaxCrashes]
    BY <1>14, FaultsType DEF Crash
  <2>3. /\ lastPoked' = None /\ batchTo' = None /\ catchingUp' = TRUE /\ lastSkipped' = None /\ lastCached' = None
        /\ pending' = <<>> /\ newData' = FALSE /\ lastDevice' = 0 /\ pc' = "off"
        /\ first' = FALSE /\ found' = <<>> /\ txn' = <<>> /\ edus' = {} /\ upTo' = 0
    BY <1>14 DEF Crash, LoopEnds
  <2>4. lastDevice' \in 0 .. MaxMessage /\ upTo' \in 0 .. MaxMessage /\ pc' \in PcValues
    BY <2>3, BoundsAssumption DEF PcValues
  <2>6. lastPoked' \in None .. MaxEvent
    BY <2>3, BoundsAssumption DEF None, Start
  <2>5. pending' \in Seq(Events) /\ found' \in Seq(Events) /\ txn' \in Seq(Events)
    BY <2>3
  <2> QED
    BY <1>14, <2>1, <2>2, <2>3, <2>4, <2>5, <2>6 DEF Crash
<1> QED
  BY <1>1, <1>2, <1>3, <1>4, <1>5, <1>6, <1>7, <1>8, <1>9, <1>10, <1>11, <1>12, <1>13, <1>14, <1>15 DEF Handle

(* The empty list is a list of events. *)
LEMMA NoEvents == <<>> \in Seq(Events)
OBVIOUS

(* The loop's variables are of their types when it ends. *)
LEMMA LoopEndsType ==
    ASSUME LoopEnds
    PROVE  /\ pc' \in PcValues /\ first' \in BOOLEAN /\ found' \in Seq(Events) /\ txn' \in Seq(Events)
           /\ edus' \subseteq Messages /\ upTo' \in 0 .. MaxMessage
<1>1. upTo' \in 0 .. MaxMessage /\ pc' \in PcValues
  BY BoundsAssumption DEF LoopEnds, PcValues
<1> QED
  BY <1>1, NoEvents DEF LoopEnds

(* A catch-up query returns entries of rooms, oldest first. *)
LEMMA QueryFacts ==
    ASSUME TypeOK, Query
    PROVE  LET U == {destRooms[r] : r \in {q \in Rooms : destRooms[q] > lastCached}} IN
           /\ U \subseteq Events
           /\ found' \in Seq(Events)
           /\ \A e \in Range(found') : e \in U
           /\ Increasing(found')
           /\ found' = <<>> => U = {}
           /\ \A h \in Range(found'), x \in U : x <= h => x \in Range(found')
<1> DEFINE U == {destRooms[r] : r \in {q \in Rooms : destRooms[q] > lastCached}}
<1>1. U \subseteq Events
  <2>1. \A r \in Rooms : destRooms[r] \in Events \cup {0}
    BY DEF TypeOK, None
  <2>2. lastCached \in Nat
    BY EventFacts DEF TypeOK
  <2> QED
    BY <2>1, <2>2
<1>2. MaxEvent \in Nat /\ U \in SUBSET (0 .. MaxEvent)
  BY <1>1, EventFacts
<1>3. PICK s \in Ascending(U) : found' = UpToLimit(s)
  BY DEF Query
<1> HIDE DEF U
<1>4. /\ found' \in Seq(U)
      /\ Increasing(found')
      /\ found' = <<>> => U = {}
      /\ \A i \in DOMAIN found', x \in U : x <= found'[i] => x \in Range(found')
  BY <1>2, <1>3, OldestFacts
<1>5. found' \in Seq(Events)
  BY <1>1, <1>4
<1>6. \A e \in Range(found') : e \in U
  BY <1>4 DEF Range
<1>7. \A h \in Range(found'), x \in U : x <= h => x \in Range(found')
  BY <1>4 DEF Range
<1>8. QED
  BY <1>1, <1>4, <1>5, <1>6, <1>7 DEF U

(* The messages read for a transaction are the oldest of the outbox. *)
LEMMA ReadFacts ==
    ASSUME TypeOK, NEW new \in NewMessages
    PROVE  LET U == {m \in outbox : lastDevice < m /\ m <= upTo} IN
           /\ new \in Seq(U)
           /\ Range(new) \subseteq U
           /\ Len(new) < Limit => Range(new) = U
           /\ new = <<>> => U = {}
           /\ Len(new) = Limit => new # <<>> /\ Last(new) \in U /\ \A m \in U : m <= Last(new) => m \in Range(new)
           /\ Len(new) <= Limit /\ Len(new) \in Nat
<1> DEFINE U == {m \in outbox : lastDevice < m /\ m <= upTo}
<1>1. MaxMessage \in Nat /\ U \in SUBSET (0 .. MaxMessage)
  <2>1. MaxMessage \in Nat /\ Messages \subseteq 0 .. MaxMessage
    BY BoundsAssumption DEF Messages
  <2>2. U \subseteq Messages
    BY DEF TypeOK
  <2> QED
    BY <2>1, <2>2
<1>2. PICK s \in Ascending(U) : new = UpToLimit(s)
  BY DEF NewMessages
<1> HIDE DEF U
<1>3. /\ new \in Seq(U)
      /\ Len(new) < Limit => Range(new) = U
      /\ new = <<>> => U = {}
      /\ \A i \in DOMAIN new, x \in U : x <= new[i] => x \in Range(new)
  BY <1>1, <1>2, OldestFacts
<1>4. s \in Seq(U)
  BY <1>1, <1>2, AscendingFacts
<1>5. Len(new) <= Limit /\ Len(new) \in Nat /\ DOMAIN new = 1 .. Len(new)
  BY <1>2, <1>3, <1>4, UpToLimitFacts
<1>6. Range(new) \subseteq U
  BY <1>3 DEF Range
<1>7. ASSUME Len(new) = Limit
      PROVE  new # <<>> /\ Last(new) \in U /\ \A m \in U : m <= Last(new) => m \in Range(new)
  <2>1. Limit \in Nat /\ Limit > 0
    BY BoundsAssumption
  <2>2. Last(new) = new[Limit] /\ Limit \in DOMAIN new
    BY <1>5, <1>7, <2>1 DEF Last
  <2>3. new # <<>>
    BY <1>7, <2>1
  <2> QED
    BY <1>3, <2>2, <2>3
<1>8. QED
  BY <1>3, <1>5, <1>6, <1>7 DEF U

(* The transmission loop keeps the types. *)
LEMMA TypeKeptLoop ==
    ASSUME TypeOK, PlaceInv, Loop \/ LoopFails
    PROVE  TypeOK'
<1> USE DEF TypeOK, tables, sender, catchUp, transaction, remote, history
<1>1. CASE NotRetrying
  <2>1. catchingUp' \in BOOLEAN /\ pending' \in Seq(Events)
    BY <1>1, NoEvents DEF NotRetrying, StartCatchingUp
  <2> QED
    BY <1>1, <2>1, LoopEndsType DEF NotRetrying
<1>2. CASE Allowed
  <2>1. pc' \in PcValues /\ first' \in BOOLEAN
    BY <1>2 DEF Allowed, PcValues
  <2> QED
    BY <1>2, <2>1 DEF Allowed
<1>3. CASE LoadLastSent
  <2>1. pc' \in PcValues /\ first' \in BOOLEAN /\ catchingUp' \in BOOLEAN
    BY <1>3 DEF LoadLastSent, PcValues
  <2> QED
    BY <1>3, <2>1 DEF LoadLastSent
<1>4. CASE Query
  <2>1. pc' \in PcValues /\ found' \in Seq(Events)
    BY <1>4, QueryFacts DEF Query, PcValues
  <2> QED
    BY <1>4, <2>1 DEF Query
<1>5. CASE QueryAgain
  BY <1>5 DEF QueryAgain, PcValues
<1>6. CASE CaughtUp
  BY <1>6 DEF CaughtUp, PcValues
<1>7. CASE Behind
  <2>1. pc' \in PcValues /\ catchingUp' \in BOOLEAN /\ pending' \in Seq(Events)
    BY <1>7, NoEvents DEF Behind, PcValues, StartCatchingUp
  <2> QED
    BY <1>7, <2>1 DEF Behind
<1>8. CASE ChooseCatchUpPdus
  <2>1. found # <<>>
    BY <1>8 DEF ChooseCatchUpPdus, PlaceInv
  <2>2. Head(found) \in Events
    BY <2>1
  <2>3. pc' \in PcValues /\ txn' \in Seq(Events)
    BY <1>8, <2>2 DEF ChooseCatchUpPdus, PcValues, Newest
  <2> QED
    BY <1>8, <2>3 DEF ChooseCatchUpPdus
<1>9. CASE CatchUpSent
  <2>1. found # <<>>
    BY <1>9 DEF CatchUpSent, PlaceInv
  <2>2. Head(found) \in Events
    BY <2>1
  <2>3. pc' \in PcValues /\ txn' \in Seq(Events)
    BY <1>9 DEF CatchUpSent, PcValues
  <2> QED
    BY <1>9, <2>2, <2>3 DEF CatchUpSent
<1>10. CASE RecordCatchUp
  <2>1. found # <<>>
    BY <1>10 DEF RecordCatchUp, PlaceInv
  <2>2. Tail(found) \in Seq(Events)
    BY <2>1
  <2>3. pc' \in PcValues
    BY <1>10 DEF RecordCatchUp, PcValues
  <2> QED
    BY <1>10, <2>2, <2>3 DEF RecordCatchUp
<1>11. CASE Collect
  BY <1>11 DEF Collect, PcValues
<1>12. CASE ReadMessages
  <2>1. PICK new \in NewMessages :
          /\ edus' = Range(new)
          /\ upTo' = IF Len(new) = Limit THEN Last(new) ELSE upTo
          /\ lastDevice' = IF new = <<>> THEN upTo ELSE lastDevice
    BY <1>12 DEF ReadMessages
  <2>2. Range(new) \subseteq outbox /\ (Len(new) = Limit => Last(new) \in outbox)
    BY ReadFacts
  <2>3. edus' \subseteq Messages /\ upTo' \in 0 .. MaxMessage
    <3>1. Messages \subseteq 0 .. MaxMessage
      BY DEF Messages
    <3> QED
      BY <2>1, <2>2, <3>1
  <2>4. lastDevice' \in 0 .. MaxMessage
    BY <2>1
  <2> QED
    BY <1>12, <2>3, <2>4 DEF ReadMessages, PcValues
<1>13. CASE NothingToSend
  <2>1. CASE newData
    BY <1>13, <2>1 DEF NothingToSend, PcValues
  <2>2. CASE ~newData
    BY <1>13, <2>2, LoopEndsType DEF NothingToSend
  <2> QED
    BY <2>1, <2>2
<1>14. CASE SendTransaction
  <2>1. pc' \in PcValues /\ txn' \in Seq(Events)
    BY <1>14, UpToLimitFacts DEF SendTransaction, PcValues
  <2> QED
    BY <1>14, <2>1 DEF SendTransaction
<1>15. CASE Deliver
  <2>1. Range(txn) \subseteq Events
    BY DEF Range
  <2> QED
    BY <1>15, <2>1 DEF Deliver, PcValues
<1>16. CASE TransactionSent
  <2>1. Len(txn) \in Nat /\ Len(pending) \in Nat
    OBVIOUS
  <2>2. SubSeq(pending, Len(txn) + 1, Len(pending)) \in Seq(Events)
    BY <2>1
  <2>3. pc' \in PcValues
    BY <1>16 DEF TransactionSent, PcValues, AfterMessages
  <2> QED
    BY <1>16, <2>2, <2>3 DEF TransactionSent
<1>17. CASE DeleteMessages
  <2>1. pc' \in PcValues /\ outbox' \subseteq Messages
    BY <1>17 DEF DeleteMessages, PcValues, AfterMessages
  <2> QED
    BY <1>17, <2>1 DEF DeleteMessages
<1>18. CASE RecordSent
  <2>1. txn # <<>>
    BY <1>18 DEF RecordSent, PlaceInv
  <2>2. Len(txn) \in 1 .. Len(txn)
    BY <2>1
  <2>3. Last(txn) \in Events
    BY <2>2 DEF Last
  <2> QED
    BY <1>18, <2>3 DEF RecordSent, PcValues
<1>19. CASE LoopFails
  <2>1. faults' \in [failures : 0 .. MaxFailures, backoffs : 0 .. MaxBackoffs, crashes : 0 .. MaxCrashes]
    BY <1>19, FaultsType DEF LoopFails
  <2> QED
    BY <1>19, <2>1, LoopEndsType DEF LoopFails
<1> QED
  BY <1>1, <1>2, <1>3, <1>4, <1>5, <1>6, <1>7, <1>8, <1>9, <1>10, <1>11, <1>12, <1>13, <1>14,
     <1>15, <1>16, <1>17, <1>18, <1>19 DEF Loop

(* The loop's places stay what they are. *)
LEMMA PlaceKept ==
    ASSUME TypeOK, PlaceInv, [Next]_vars
    PROVE  PlaceInv'
<1> DEFINE place == <<pc, catchingUp, lastCached, found, txn>>
<1>0. catchingUp \in BOOLEAN /\ newData \in BOOLEAN /\ first \in BOOLEAN
  BY DEF TypeOK
<1>1. CASE UNCHANGED place
  BY <1>1 DEF PlaceInv
<1>2. CASE UNCHANGED <<catchingUp, lastCached, found, txn>> /\ AttemptNewTransaction
  BY <1>2 DEF PlaceInv, AttemptNewTransaction
<1>3. CASE LoopEnds
  BY <1>3 DEF PlaceInv, LoopEnds
<1> USE DEF tables, sender, catchUp, transaction, remote, history
<1>4. CASE Persist \/ NotifyOther \/ AddMessage \/ BackoffGrows \/ BackoffClears \/ TimePasses \/ StartBatch \/ FinishBatch
  BY <1>4, <1>1 DEF Persist, NotifyOther, AddMessage, BackoffGrows, BackoffClears, TimePasses, StartBatch, FinishBatch
<1>5. ASSUME NEW e \in Events, StoreEntry(e) \/ Pass(e) \/ FilterOut(e)
      PROVE  PlaceInv'
  BY <1>5, <1>1 DEF StoreEntry, Pass, FilterOut
<1>6. ASSUME NEW e \in Events, SendPdu(e)
      PROVE  PlaceInv'
  BY <1>6, <1>2 DEF SendPdu
<1>7. CASE Poke \/ WakeDestination
  BY <1>7, <1>2 DEF Poke, WakeDestination
<1>8. CASE NotRetrying \/ LoopFails \/ Crash
  BY <1>8, <1>3 DEF NotRetrying, LoopFails, Crash
<1>9. CASE Allowed
  BY <1>9, <1>0 DEF Allowed, PlaceInv
<1>10. CASE LoadLastSent
  BY <1>10, <1>0 DEF LoadLastSent, PlaceInv
<1>11. CASE Query
  BY <1>11, <1>0 DEF Query, PlaceInv
<1>12. CASE QueryAgain
  BY <1>12, <1>0 DEF QueryAgain, PlaceInv
<1>13. CASE CaughtUp
  BY <1>13, <1>0 DEF CaughtUp, PlaceInv
<1>14. CASE Behind
  BY <1>14, <1>0 DEF Behind, StartCatchingUp, PlaceInv
<1>15. CASE ChooseCatchUpPdus
  BY <1>15, <1>0 DEF ChooseCatchUpPdus, PlaceInv
<1>16. CASE CatchUpSent
  <2>1. Head(found) \in Events
    BY <1>16 DEF CatchUpSent, PlaceInv, TypeOK
  <2>2. lastCached' # None
    BY <1>16, <2>1, EventFacts DEF CatchUpSent
  <2> QED
    BY <1>16, <1>0, <2>2 DEF CatchUpSent, PlaceInv
<1>17. CASE RecordCatchUp
  BY <1>17, <1>0 DEF RecordCatchUp, PlaceInv
<1>18. CASE Collect
  BY <1>18, <1>0 DEF Collect, PlaceInv
<1>19. CASE ReadMessages
  BY <1>19, <1>0 DEF ReadMessages, PlaceInv
<1>20. CASE NothingToSend
  <2>1. CASE newData
    BY <1>20, <1>0, <2>1 DEF NothingToSend, PlaceInv
  <2>2. CASE ~newData
    BY <1>20, <1>3, <2>2 DEF NothingToSend
  <2> QED
    BY <2>1, <2>2
<1>21. CASE SendTransaction
  BY <1>21, <1>0 DEF SendTransaction, PlaceInv
<1>22. CASE Deliver
  BY <1>22, <1>0 DEF Deliver, PlaceInv
<1>23. CASE TransactionSent
  BY <1>23, <1>0 DEF TransactionSent, AfterMessages, PlaceInv
<1>24. CASE DeleteMessages
  BY <1>24, <1>0 DEF DeleteMessages, AfterMessages, PlaceInv
<1>25. CASE RecordSent
  BY <1>25, <1>0 DEF RecordSent, PlaceInv
<1>26. CASE UNCHANGED vars
  BY <1>26, <1>1 DEF vars
<1> HIDE DEF place
<1>27. CASE Loop
  BY <1>27, <1>8, <1>9, <1>10, <1>11, <1>12, <1>13, <1>14, <1>15, <1>16, <1>17, <1>18, <1>19,
     <1>20, <1>21, <1>22, <1>23, <1>24, <1>25 DEF Loop
<1> QED
  BY <1>4, <1>5, <1>6, <1>7, <1>8, <1>26, <1>27 DEF Next, Handle
--------------------------------------------------------------------------------
(***************************************************************************)
(* The batch.                                                              *)
(***************************************************************************)

(* The types the arguments about the batch use. *)
LEMMA BatchTypes ==
    ASSUME TypeOK
    PROVE  /\ persisted \in Nat /\ outPos \in Nat /\ batchTo \in Nat /\ lastPoked \in Nat
           /\ outPos >= 1 /\ persisted <= MaxEvent
           /\ \A r \in Rooms : destRooms[r] \in Nat /\ (destRooms[r] # 0 => destRooms[r] \in Events)
           /\ DOMAIN destRooms = Rooms /\ DOMAIN stage = Events
           /\ \A e \in Events : stage[e] \in Stages
<1>1. \A r \in Rooms : destRooms[r] \in Events \cup {0}
  BY DEF TypeOK, None
<1> QED
  BY <1>1, EventFacts DEF TypeOK, None

(* Storing e's entry: the earlier events of its room have been handled. *)
LEMMA BatchStore ==
    ASSUME TypeOK, BatchInv, NEW e \in Events, StoreEntry(e)
    PROVE  BatchInv'
<1> USE EventFacts, BatchTypes DEF tables
<1> DEFINE r == RoomOf[e]
<1>1. /\ stage[e] = "new" /\ stage' = [stage EXCEPT ![e] = "stored"]
      /\ destRooms' = [destRooms EXCEPT ![r] = e]
      /\ UNCHANGED <<persisted, lastPoked, outPos, batchTo>>
  BY DEF StoreEntry
<1>2. outPos < e /\ e <= batchTo /\ \A f \in Events : outPos < f /\ f < e /\ RoomOf[f] = r => stage[f] = "handled"
  BY DEF StoreEntry, IsNext
<1>3. batchTo # None
  BY <1>2
<1>4. stage'[e] = "stored" /\ \A f \in Events : f # e => stage'[f] = stage[f]
  BY <1>1
<1>5. destRooms'[r] = e /\ \A q \in Rooms : q # r => destRooms'[q] = destRooms[q]
  BY <1>1
<1>6. \A f \in Events : f < e /\ RoomOf[f] = r => stage[f] = "handled"
  BY <1>2 DEF BatchInv
<1>7. \A f \in Events : e < f /\ RoomOf[f] = r => stage[f] = "new"
  BY <1>1 DEF BatchInv
<1>8. \A f, g \in Events : f < g /\ RoomOf[f] = RoomOf[g] /\ stage'[g] # "new" => stage'[f] = "handled"
  BY <1>4, <1>6, <1>7 DEF BatchInv
<1>9. \A f \in Events : stage'[f] # "new" => destRooms'[RoomOf[f]] >= f
  BY <1>4, <1>5, <1>7 DEF BatchInv
<1>10. \A f \in Events : stage'[f] \in {"stored", "passed"} => destRooms'[RoomOf[f]] = f
  BY <1>4, <1>5, <1>6, <1>7 DEF BatchInv
<1>11. \A q \in Rooms : destRooms'[q] # None => RoomOf[destRooms'[q]] = q /\ destRooms'[q] <= persisted
  BY <1>2, <1>3, <1>5 DEF BatchInv
<1>12. \A f \in Events : stage'[f] # "new" => f <= outPos \/ f <= batchTo
  BY <1>2, <1>4 DEF BatchInv
<1>13. \A f \in Events : f <= outPos => stage'[f] = "handled"
  BY <1>2, <1>4 DEF BatchInv
<1> HIDE DEF r
<1> QED
  BY <1>1, <1>8, <1>9, <1>10, <1>11, <1>12, <1>13 DEF BatchInv

(* A stage that advances: handled at the end, the entry as it was. *)
LEMMA BatchAdvance ==
    ASSUME TypeOK, BatchInv, NEW e \in Events, NEW s \in {"passed", "handled"},
           stage[e] \in {"stored", "passed"},
           stage' = [stage EXCEPT ![e] = s],
           UNCHANGED <<persisted, lastPoked, outPos, destRooms, batchTo>>
    PROVE  BatchInv'
<1> USE EventFacts, BatchTypes
<1>1. stage'[e] = s /\ \A f \in Events : f # e => stage'[f] = stage[f]
  OBVIOUS
<1>2. \A f \in Events : (stage'[f] # "new") = (stage[f] # "new")
  BY <1>1
<1>3. \A f \in Events : stage[f] = "handled" => stage'[f] = "handled"
  BY <1>1
<1>4. \A f \in Events : stage'[f] \in {"stored", "passed"} => stage[f] \in {"stored", "passed"}
  BY <1>1
<1> QED
  BY <1>2, <1>3, <1>4 DEF BatchInv

(* The batch stays what it is. *)
LEMMA BatchKept ==
    ASSUME TypeOK, BatchInv, [Next]_vars
    PROVE  BatchInv'
<1> DEFINE batch == <<persisted, lastPoked, outPos, destRooms, batchTo, stage>>
<1>1. CASE UNCHANGED batch
  BY <1>1 DEF BatchInv
<1> USE DEF tables, sender
<1>2. CASE Persist
  BY <1>2, EventFacts, BatchTypes DEF Persist, BatchInv
<1>10. CASE NotifyOther
  BY <1>10, EventFacts, BatchTypes DEF NotifyOther, BatchInv
<1>3. CASE StartBatch
  BY <1>3, EventFacts, BatchTypes DEF StartBatch, BatchInv
<1>4. CASE FinishBatch
  <2>1. outPos' = batchTo /\ batchTo' = None /\ UNCHANGED <<persisted, lastPoked, destRooms, stage>> /\ batchTo # None
    BY <1>4 DEF FinishBatch
  <2>2. \A e \in Events : outPos < e /\ e <= batchTo => stage[e] = "handled"
    BY <1>4, EventFacts, BatchTypes DEF FinishBatch
  <2>3. \A e \in Events : e <= batchTo => stage[e] = "handled"
    BY <2>2, EventFacts, BatchTypes DEF BatchInv
  <2> QED
    BY <2>1, <2>3, EventFacts, BatchTypes DEF BatchInv
<1>5. ASSUME NEW e \in Events, StoreEntry(e) \/ Pass(e) \/ FilterOut(e) \/ SendPdu(e)
      PROVE  BatchInv'
  <2>1. CASE StoreEntry(e)
    BY <2>1, BatchStore
  <2>2. CASE Pass(e)
    BY <2>2, BatchAdvance DEF Pass
  <2>3. CASE FilterOut(e)
    BY <2>3, BatchAdvance DEF FilterOut
  <2>4. CASE SendPdu(e)
    BY <2>4, BatchAdvance DEF SendPdu
  <2> QED
    BY <1>5, <2>1, <2>2, <2>3, <2>4
<1>6. CASE Crash
  <2>1. /\ batchTo' = None /\ lastPoked' = None /\ UNCHANGED <<persisted, outPos, destRooms>>
        /\ \A e \in Events : stage'[e] = IF e <= outPos THEN stage[e] ELSE "new"
    BY <1>6 DEF Crash
  <2> QED
    BY <2>1, EventFacts, BatchTypes DEF BatchInv
<1>7. CASE AddMessage \/ Poke \/ WakeDestination \/ BackoffGrows \/ BackoffClears \/ TimePasses \/ LoopFails
  BY <1>7, <1>1 DEF AddMessage, Poke, WakeDestination, BackoffGrows, BackoffClears, TimePasses, LoopFails
<1>8. CASE Loop
  <2>1. UNCHANGED batch
    BY <1>8 DEF Loop, NotRetrying, Allowed, LoadLastSent, Query, QueryAgain, CaughtUp, Behind,
                ChooseCatchUpPdus, CatchUpSent, RecordCatchUp, Collect, ReadMessages, NothingToSend,
                SendTransaction, Deliver, TransactionSent, DeleteMessages, RecordSent
  <2> QED
    BY <2>1, <1>1
<1>9. CASE UNCHANGED vars
  BY <1>9, <1>1 DEF vars
<1> HIDE DEF batch
<1> QED
  BY <1>2, <1>3, <1>4, <1>5, <1>6, <1>7, <1>8, <1>9, <1>10 DEF Next, Handle
--------------------------------------------------------------------------------
(***************************************************************************)
(* What the loop holds.                                                    *)
(***************************************************************************)

(* Steps outside the loop take nothing from what it holds. *)
LEMMA LoopStill ==
    ASSUME TypeOK, LoopInv, UNCHANGED <<catchingUp, found, txn, pending, received>>,
           pc' = pc \/ (pc = "off" /\ pc' = "limiter"),
           persisted' \in Nat, persisted <= persisted',
           \A e \in Events : stage[e] = "handled" => stage'[e] = "handled"
    PROVE  LoopInv'
<1>1. Range(found) \subseteq Events /\ Range(txn) \subseteq Events /\ Range(pending) \subseteq Events
  BY DEF TypeOK, Range
<1>2. Range(found)' = Range(found) /\ Range(txn)' = Range(txn) /\ Range(pending)' = Range(pending)
  BY DEF Range
<1>3. \A e \in Range(pending)' : stage'[e] = "handled"
  BY <1>1, <1>2 DEF LoopInv
<1>4. pc' \in {"deleting", "recording"} => \A e \in Range(txn)' : stage'[e] = "handled"
  BY <1>1, <1>2 DEF LoopInv
<1>5. \A e \in Range(found)' : e <= persisted'
  BY <1>1, <1>2, EventFacts, BatchTypes DEF LoopInv
<1>6. (pc \in {"sending", "answered"} /\ catchingUp => Within(Head(found), Range(txn)))'
  BY <1>2 DEF LoopInv, Within
<1>7. (pc \in {"sending", "answered"} /\ ~catchingUp => Begins(txn, pending))'
  BY DEF LoopInv, Begins
<1>8. (pc \in {"answered", "deleting", "recording"} => Range(txn) \subseteq received)'
  BY <1>2 DEF LoopInv
<1>9. (pc = "recordCatchUp" => Within(Head(found), received))'
  BY DEF LoopInv, Within
<1> QED
  BY <1>3, <1>4, <1>5, <1>6, <1>7, <1>8, <1>9 DEF LoopInv

(* The loop ends: it holds only the queue. *)
LEMMA LoopOver ==
    ASSUME TypeOK, LoopEnds, \A e \in Range(pending)' : stage'[e] = "handled"
    PROVE  LoopInv'
<1>1. Range(found)' = {}
  BY DEF LoopEnds, Range
<1> QED
  BY <1>1 DEF LoopEnds, LoopInv

(* What is left of a sequence after its first n. *)
LEMMA DropFacts ==
    ASSUME NEW T, NEW s \in Seq(T), NEW n \in Nat, n <= Len(s),
           NEW t, t = SubSeq(s, n + 1, Len(s))
    PROVE  /\ t \in Seq(T)
           /\ Len(t) = Len(s) - n
           /\ \A i \in 1 .. Len(t) : t[i] = s[i + n]
OBVIOUS

(* The sequence without its first n. *)
After(s, n) == SubSeq(s, n + 1, Len(s))

(* The queue, after a transaction: what was sent, and what is left. *)
LEMMA QueueSplit ==
    ASSUME NEW T, NEW s \in Seq(T), NEW p \in Seq(T), Begins(p, s),
           NEW t, t = After(s, Len(p))
    PROVE  /\ t \in Seq(T)
           /\ Range(p) \subseteq Range(s)
           /\ Range(t) \subseteq Range(s)
           /\ Range(s) \subseteq Range(p) \cup Range(t)
           /\ \A i \in DOMAIN t : i + Len(p) \in DOMAIN s /\ t[i] = s[i + Len(p)]
           /\ \A i \in DOMAIN p : i \in DOMAIN s /\ i <= Len(p) /\ p[i] = s[i]
<1> DEFINE n == Len(p)
           k == Len(s)
           l == Len(t)
<1>1. n \in Nat /\ k \in Nat /\ n <= k /\ \A i \in 1 .. n : p[i] = s[i]
  BY DEF Begins
<1>2. t \in Seq(T) /\ l = k - n /\ \A i \in 1 .. l : t[i] = s[i + n]
  BY <1>1, DropFacts DEF After
<1>3. DOMAIN s = 1 .. k /\ DOMAIN p = 1 .. n /\ DOMAIN t = 1 .. l /\ l \in Nat
  BY <1>2
<1> HIDE DEF n, k, l
<1>4. \A i \in DOMAIN t : i + n \in DOMAIN s /\ t[i] = s[i + n]
  BY <1>1, <1>2, <1>3
<1>5. \A i \in DOMAIN p : i \in DOMAIN s /\ i <= n /\ p[i] = s[i]
  BY <1>1, <1>3
<1>6. Range(p) \subseteq Range(s)
  BY <1>5 DEF Range
<1>7. Range(t) \subseteq Range(s)
  BY <1>4 DEF Range
<1>8. ASSUME NEW i \in DOMAIN s
      PROVE  s[i] \in Range(p) \cup Range(t)
  <2>1. CASE i <= n
    <3>1. i \in DOMAIN p /\ p[i] = s[i]
      BY <1>1, <1>3, <2>1
    <3> QED
      BY <3>1 DEF Range
  <2>2. CASE i > n
    <3>1. i - n \in 1 .. l /\ (i - n) + n = i
      BY <1>1, <1>2, <1>3, <2>2
    <3>2. i - n \in DOMAIN t /\ t[i - n] = s[i]
      BY <1>2, <1>3, <3>1
    <3> QED
      BY <3>2 DEF Range
  <2> QED
    BY <1>1, <1>3, <2>1, <2>2
<1>9. Range(s) \subseteq Range(p) \cup Range(t)
  BY <1>8 DEF Range
<1> QED
  BY <1>2, <1>4, <1>5, <1>6, <1>7, <1>9 DEF n

(* The events of a sequence of events are events. *)
LEMMA RangeEvents ==
    ASSUME NEW s \in Seq(Events)
    PROVE  /\ Range(s) \subseteq Events
           /\ \A i \in DOMAIN s : s[i] \in Range(s)
           /\ s # <<>> => Head(s) \in Range(s) /\ Last(s) \in Range(s)
           /\ s # <<>> => Head(s) = s[1] /\ 1 \in DOMAIN s /\ Last(s) = s[Len(s)] /\ Len(s) \in DOMAIN s
<1>1. \A i \in DOMAIN s : s[i] \in Range(s) /\ s[i] \in Events
  BY DEF Range
<1>2. s # <<>> => Head(s) = s[1] /\ 1 \in DOMAIN s /\ Last(s) = s[Len(s)] /\ Len(s) \in DOMAIN s
  BY DEF Last
<1>3. Range(s) \subseteq Events
  BY <1>1 DEF Range
<1> QED
  BY <1>1, <1>2, <1>3

(* Handling a stage keeps what is handled. *)
LEMMA HandledKept ==
    ASSUME TypeOK, NEW e \in Events, StoreEntry(e) \/ Pass(e) \/ FilterOut(e) \/ SendPdu(e)
    PROVE  /\ \A f \in Events : stage[f] = "handled" => stage'[f] = "handled"
           /\ SendPdu(e) => stage'[e] = "handled"
<1>1. \A f \in Events : stage[f] = "handled" => stage'[f] = "handled"
  BY DEF StoreEntry, Pass, FilterOut, SendPdu, TypeOK
<1>2. SendPdu(e) => stage'[e] = "handled"
  BY DEF SendPdu, TypeOK
<1> QED
  BY <1>1, <1>2

(* An event is queued or skipped: the queue holds what is handled. *)
LEMMA LoopSendPdu ==
    ASSUME TypeOK, TypeOK', LoopInv, NEW e \in Events, SendPdu(e)
    PROVE  LoopInv'
<1>1. /\ \A f \in Events : stage[f] = "handled" => stage'[f] = "handled"
      /\ stage'[e] = "handled"
  BY HandledKept
<1>2. persisted' = persisted /\ persisted \in Nat
  BY BatchTypes DEF SendPdu, tables
<1>3. CASE pending' = pending
  <2>1. UNCHANGED <<catchingUp, found, txn, pending, received>>
    BY <1>3 DEF SendPdu, transaction, remote
  <2>2. pc' = pc \/ (pc = "off" /\ pc' = "limiter")
    BY DEF SendPdu, AttemptNewTransaction
  <2> QED
    BY <1>1, <1>2, <2>1, <2>2, LoopStill
<1>4. CASE pending' = Append(pending, e)
  <2>1. UNCHANGED <<catchingUp, found, txn, received>>
    BY DEF SendPdu, transaction, remote
  <2>2. pc' = pc \/ (pc = "off" /\ pc' = "limiter")
    BY DEF SendPdu, AttemptNewTransaction
  <2>3. Range(found) \subseteq Events /\ Range(txn) \subseteq Events /\ Range(pending) \subseteq Events
    BY RangeEvents DEF TypeOK
  <2>4. /\ Len(pending') = Len(pending) + 1 /\ Len(pending) \in Nat /\ Len(txn) \in Nat
        /\ \A i \in 1 .. Len(pending) : pending'[i] = pending[i]
        /\ pending'[Len(pending) + 1] = e
    <3>1. pending \in Seq(Events)
      BY DEF TypeOK
    <3>2. Len(txn) \in Nat
      BY DEF TypeOK
    <3> QED
      BY <1>4, <3>1, <3>2, AppendProperties
  <2>5. Range(found)' = Range(found) /\ Range(txn)' = Range(txn)
    BY <2>1 DEF Range
  <2>6. \A f \in Range(pending)' : stage'[f] = "handled"
    <3>1. \A f \in Range(pending) : stage'[f] = "handled"
      BY <1>1, <2>3 DEF LoopInv
    <3>2. Range(pending)' \subseteq Range(pending) \cup {e}
      <4>1. DOMAIN pending' = 1 .. (Len(pending) + 1) /\ DOMAIN pending = 1 .. Len(pending)
        BY <2>4 DEF TypeOK
      <4>2. \A i \in DOMAIN pending' : pending'[i] \in Range(pending) \cup {e}
        BY <2>4, <4>1 DEF Range
      <4> QED
        BY <4>2 DEF Range
    <3> QED
      BY <1>1, <3>1, <3>2
  <2>7. (pc \in {"sending", "answered"} /\ ~catchingUp => Begins(txn, pending))'
    BY <2>1, <2>2, <2>4 DEF LoopInv, Begins
  <2>8. pc' \in {"deleting", "recording"} => \A f \in Range(txn)' : stage'[f] = "handled"
    BY <1>1, <2>2, <2>3, <2>5 DEF LoopInv
  <2>9. (pc \in {"sending", "answered"} /\ catchingUp => Within(Head(found), Range(txn)))'
    BY <2>1, <2>2, <2>5 DEF LoopInv, Within
  <2>10. (pc \in {"answered", "deleting", "recording"} => Range(txn) \subseteq received)'
    BY <2>1, <2>2, <2>5 DEF LoopInv
  <2>11. (pc = "recordCatchUp" => Within(Head(found), received))'
    BY <2>1, <2>2 DEF LoopInv, Within
  <2>12. \A f \in Range(found)' : f <= persisted'
    BY <1>2, <2>5 DEF LoopInv
  <2> QED
    BY <2>6, <2>7, <2>8, <2>9, <2>10, <2>11, <2>12 DEF LoopInv
<1> QED
  BY <1>3, <1>4 DEF SendPdu

(* A place where the loop holds nothing but the queue and what it found. *)
LEMMA LoopAtPlace ==
    ASSUME TypeOK, LoopInv, UNCHANGED <<persisted, stage>>,
           pc' \in {"load", "query", "decide", "choose", "collect", "collecting", "collected"},
           Range(pending)' \subseteq Range(pending),
           \A e \in Range(found)' : e <= persisted
    PROVE  LoopInv'
BY DEF LoopInv

(* Steps of the catch-up. *)
LEMMA LoopCatchUp ==
    ASSUME TypeOK, TypeOK', BatchInv, PlaceInv, LoopInv,
           \/ LoadLastSent \/ Query \/ QueryAgain \/ CaughtUp \/ Behind
           \/ ChooseCatchUpPdus \/ CatchUpSent \/ RecordCatchUp
    PROVE  LoopInv'
<1> USE DEF tables, sender, catchUp, transaction, remote
<1>1. CASE LoadLastSent
  <2>1. /\ UNCHANGED <<persisted, stage, pending, found>>
        /\ pc' \in {"load", "query", "collect"}
    BY <1>1 DEF LoadLastSent
  <2> QED
    BY <2>1, LoopAtPlace DEF LoopInv
<1>2. CASE Query
  <2>1. UNCHANGED <<persisted, stage, pending>> /\ pc' = "decide"
    BY <1>2 DEF Query
  <2>2. \A e \in Range(found') : e <= persisted
    BY <1>2, QueryFacts, EventFacts DEF BatchInv
  <2> QED
    BY <2>1, <2>2, LoopAtPlace
<1>3. CASE QueryAgain \/ CaughtUp
  <2>1. UNCHANGED <<persisted, stage, pending, found>> /\ pc' \in {"query", "collect"}
    BY <1>3 DEF QueryAgain, CaughtUp
  <2> QED
    BY <2>1, LoopAtPlace DEF LoopInv
<1>4. CASE Behind
  <2>1. UNCHANGED <<persisted, stage, found>> /\ pc' = "choose" /\ (pending' = pending \/ pending' = <<>>)
    BY <1>4 DEF Behind, StartCatchingUp
  <2>2. Range(pending)' \subseteq Range(pending)
    BY <2>1 DEF Range
  <2> QED
    BY <2>1, <2>2, LoopAtPlace DEF LoopInv
<1>5. CASE ChooseCatchUpPdus
  <2>1. UNCHANGED <<persisted, stage, found, pending, catchingUp>> /\ pc' = "sending" /\ pc = "choose"
    BY <1>5 DEF ChooseCatchUpPdus
  <2>2. catchingUp /\ found # <<>>
    BY <2>1 DEF PlaceInv
  <2>3. Head(found) \in Events /\ Head(found) <= persisted
    BY <2>2, RangeEvents DEF TypeOK, LoopInv
  <2>4. PICK f \in Events : txn' = <<f>> /\ f >= Head(found) /\ RoomOf[f] = RoomOf[Head(found)]
    BY <1>5, <2>3, EventFacts DEF ChooseCatchUpPdus, Newest
  <2>5. f \in Range(txn)'
    BY <2>4 DEF Range
  <2>6. Within(Head(found), Range(txn))'
    BY <2>1, <2>4, <2>5 DEF Within
  <2> QED
    BY <2>1, <2>2, <2>6 DEF LoopInv
<1>6. CASE CatchUpSent
  <2>1. UNCHANGED <<persisted, stage, found, pending, received>> /\ pc' = "recordCatchUp" /\ pc = "answered" /\ catchingUp
    BY <1>6 DEF CatchUpSent
  <2>2. Within(Head(found), received)
    BY <2>1 DEF LoopInv, Within
  <2>3. Within(Head(found), received)'
    BY <2>1, <2>2 DEF Within
  <2> QED
    BY <2>1, <2>3 DEF LoopInv
<1>7. CASE RecordCatchUp
  <2>1. UNCHANGED <<persisted, stage, pending>> /\ pc' \in {"query", "choose"} /\ pc = "recordCatchUp" /\ found' = Tail(found)
    BY <1>7 DEF RecordCatchUp
  <2>2. found # <<>>
    BY <2>1 DEF PlaceInv
  <2>3. Range(found)' \subseteq Range(found)
    <3>1. \A i \in DOMAIN Tail(found) : i + 1 \in DOMAIN found /\ Tail(found)[i] = found[i + 1]
      <4>1. found \in Seq(Events)
        BY DEF TypeOK
      <4>2. /\ Tail(found) \in Seq(Events) /\ Len(Tail(found)) = Len(found) - 1
            /\ \A i \in 1 .. Len(Tail(found)) : Tail(found)[i] = found[i + 1]
        BY <2>2, <4>1, HeadTailProperties
      <4>3. DOMAIN Tail(found) = 1 .. Len(Tail(found)) /\ DOMAIN found = 1 .. Len(found) /\ Len(found) \in Nat
        BY <4>1, <4>2
      <4> QED
        BY <4>2, <4>3
    <3> QED
      BY <2>1, <3>1 DEF Range
  <2> QED
    BY <2>1, <2>3, LoopAtPlace DEF LoopInv
<1> QED
  BY <1>1, <1>2, <1>3, <1>4, <1>5, <1>6, <1>7

(* Steps of the loop proper. *)
LEMMA LoopProper ==
    ASSUME TypeOK, TypeOK', PlaceInv, LoopInv,
           \/ NotRetrying \/ Allowed \/ Collect \/ ReadMessages \/ NothingToSend \/ SendTransaction
           \/ Deliver \/ TransactionSent \/ DeleteMessages \/ RecordSent \/ LoopFails
    PROVE  LoopInv'
<1> USE DEF tables, sender, catchUp, transaction, remote
<1>1. CASE NotRetrying
  <2>1. UNCHANGED stage /\ (pending' = pending \/ pending' = <<>>) /\ LoopEnds
    BY <1>1 DEF NotRetrying, StartCatchingUp
  <2>2. Range(pending)' \subseteq Range(pending)
    BY <2>1 DEF Range
  <2> QED
    BY <2>1, <2>2, LoopOver DEF LoopInv
<1>2. CASE LoopFails
  <2>1. UNCHANGED <<stage, pending>> /\ LoopEnds
    BY <1>2 DEF LoopFails
  <2> QED
    BY <2>1, LoopOver DEF LoopInv
<1>3. CASE NothingToSend
  <2>1. CASE newData
    <3>1. UNCHANGED <<persisted, stage, pending, found>> /\ pc' = "collect"
      BY <1>3, <2>1 DEF NothingToSend
    <3> QED
      BY <3>1, LoopAtPlace DEF LoopInv
  <2>2. CASE ~newData
    <3>1. UNCHANGED <<stage, pending>> /\ LoopEnds
      BY <1>3, <2>2 DEF NothingToSend
    <3> QED
      BY <3>1, LoopOver DEF LoopInv
  <2> QED
    BY <2>1, <2>2
<1>4. CASE Allowed \/ Collect \/ ReadMessages
  <2>1. UNCHANGED <<persisted, stage, pending, found>> /\ pc' \in {"collect", "load", "query", "collecting", "collected"}
    BY <1>4 DEF Allowed, Collect, ReadMessages
  <2> QED
    BY <2>1, LoopAtPlace DEF LoopInv
<1>5. CASE SendTransaction
  <2>1. /\ UNCHANGED <<persisted, stage, pending, found, catchingUp>>
        /\ pc' = "sending" /\ pc = "collected" /\ txn' = UpToLimit(pending)
    BY <1>5 DEF SendTransaction
  <2>2. ~catchingUp
    BY <2>1 DEF PlaceInv
  <2>3. Begins(txn', pending)
    BY <2>1, UpToLimitFacts DEF TypeOK
  <2>4. Begins(txn, pending)'
    BY <2>1, <2>3 DEF Begins
  <2> QED
    BY <2>1, <2>2, <2>4 DEF LoopInv
<1>6. CASE Deliver
  <2>1. /\ UNCHANGED <<persisted, stage, pending, found, catchingUp, txn>>
        /\ pc' = "answered" /\ pc = "sending" /\ received' = received \cup Range(txn)
    BY <1>6 DEF Deliver
  <2>2. Range(txn)' = Range(txn) /\ Range(found)' = Range(found)
    BY <2>1 DEF Range
  <2>3. (catchingUp => Within(Head(found), Range(txn)))'
    BY <2>1, <2>2 DEF LoopInv, Within
  <2>4. (~catchingUp => Begins(txn, pending))'
    BY <2>1 DEF LoopInv, Begins
  <2> QED
    BY <2>1, <2>2, <2>3, <2>4 DEF LoopInv
<1>7. CASE TransactionSent
  <2>1. /\ UNCHANGED <<persisted, stage, found, received, txn>>
        /\ pending' = SubSeq(pending, Len(txn) + 1, Len(pending))
        /\ pc = "answered" /\ ~catchingUp /\ pc' \in {"collect", "recording", "deleting"}
    BY <1>7 DEF TransactionSent, AfterMessages
  <2>2. Begins(txn, pending) /\ Range(txn) \subseteq received
    BY <2>1 DEF LoopInv
  <2>3. Range(txn) \subseteq Range(pending) /\ Range(pending') \subseteq Range(pending)
    <3>1. pending \in Seq(Events) /\ txn \in Seq(Events)
      BY DEF TypeOK
    <3>2. pending' = After(pending, Len(txn))
      BY <2>1 DEF After
    <3> QED
      BY <2>2, <3>1, <3>2, QueueSplit
  <2>4. Range(txn)' = Range(txn) /\ Range(found)' = Range(found)
    BY <2>1 DEF Range
  <2> QED
    BY <2>1, <2>2, <2>3, <2>4 DEF LoopInv
<1>8. CASE DeleteMessages
  <2>1. /\ UNCHANGED <<persisted, stage, found, received, txn, pending>>
        /\ pc = "deleting" /\ pc' \in {"collect", "recording"}
    BY <1>8 DEF DeleteMessages, AfterMessages
  <2>2. Range(txn)' = Range(txn) /\ Range(found)' = Range(found) /\ Range(pending)' = Range(pending)
    BY <2>1 DEF Range
  <2> QED
    BY <2>1, <2>2 DEF LoopInv
<1>9. CASE RecordSent
  <2>1. UNCHANGED <<persisted, stage, pending, found>> /\ pc' = "collect"
    BY <1>9 DEF RecordSent
  <2> QED
    BY <2>1, LoopAtPlace DEF LoopInv
<1> QED
  BY <1>1, <1>2, <1>3, <1>4, <1>5, <1>6, <1>7, <1>8, <1>9

(* The loop goes on holding what it should. *)
LEMMA LoopKept ==
    ASSUME TypeOK, TypeOK', BatchInv, PlaceInv, LoopInv, [Next]_vars
    PROVE  LoopInv'
<1> USE DEF tables, sender, catchUp, transaction, remote
<1>1. persisted \in Nat /\ persisted' \in Nat
  BY EventFacts DEF TypeOK
<1>2. CASE Loop \/ LoopFails
  BY <1>2, LoopCatchUp, LoopProper DEF Loop
<1>3. CASE Persist
  <2>1. persisted' = persisted + 1
    BY <1>3 DEF Persist
  <2>2. persisted <= persisted'
    BY <1>1, <2>1
  <2> QED
    BY <1>1, <1>3, <2>2, LoopStill DEF Persist
<1>4. CASE NotifyOther \/ AddMessage \/ BackoffGrows \/ BackoffClears \/ TimePasses \/ StartBatch \/ FinishBatch
  BY <1>1, <1>4, LoopStill DEF NotifyOther, AddMessage, BackoffGrows, BackoffClears, TimePasses, StartBatch, FinishBatch
<1>5. CASE Poke \/ WakeDestination
  BY <1>1, <1>5, LoopStill DEF Poke, WakeDestination, AttemptNewTransaction
<1>6. ASSUME NEW e \in Events, StoreEntry(e) \/ Pass(e) \/ FilterOut(e)
      PROVE  LoopInv'
  <2>1. \A f \in Events : stage[f] = "handled" => stage'[f] = "handled"
    BY <1>6, HandledKept
  <2>2. UNCHANGED <<persisted, catchingUp, found, txn, pending, received, pc>>
    BY <1>6 DEF StoreEntry, Pass, FilterOut
  <2> QED
    BY <1>1, <2>1, <2>2, LoopStill
<1>7. ASSUME NEW e \in Events, SendPdu(e)
      PROVE  LoopInv'
  BY <1>7, LoopSendPdu
<1>8. CASE Crash
  <2>1. LoopEnds /\ pending' = <<>>
    BY <1>8 DEF Crash
  <2>2. Range(pending)' = {}
    BY <2>1 DEF Range
  <2> QED
    BY <2>1, <2>2, LoopOver
<1>9. CASE UNCHANGED vars
  <2>1. UNCHANGED <<persisted, catchingUp, found, txn, pending, received, pc, stage>>
    BY <1>9 DEF vars
  <2> QED
    BY <1>1, <2>1, LoopStill
<1> QED
  BY <1>2, <1>3, <1>4, <1>5, <1>6, <1>7, <1>8, <1>9 DEF Next, Handle
--------------------------------------------------------------------------------
(***************************************************************************)
(* To-device messages.                                                     *)
(***************************************************************************)

(* The types the arguments about messages use. *)
LEMMA MessageTypes ==
    ASSUME TypeOK
    PROVE  /\ messages \in Nat /\ lastDevice \in Nat /\ upTo \in Nat
           /\ outbox \subseteq Nat
           /\ catchingUp \in BOOLEAN
<1>1. outbox \subseteq Messages /\ Messages \subseteq Nat
  BY DEF TypeOK, Messages
<1> QED
  BY <1>1 DEF TypeOK

(* A step that leaves the messages alone, and ends or does not move the loop. *)
LEMMA MessageStill ==
    ASSUME TypeOK, MessageInv,
           UNCHANGED <<messages, lastDevice, outbox, delivered>>,
           \/ UNCHANGED <<pc, catchingUp, edus, upTo>>
           \/ upTo' = upTo /\ pc' \notin {"collected", "sending", "answered", "deleting"}
           \/ upTo' = upTo /\ catchingUp'
           \/ LoopEnds
    PROVE  MessageInv'
<1>1. upTo' <= messages'
  BY MessageTypes DEF MessageInv, LoopEnds
<1>2. MessagesKept'
  BY DEF MessagesKept, MessageInv
<1>3. (pc \in {"collected", "sending", "answered", "deleting"} /\ ~catchingUp =>
          \A m \in outbox : m <= upTo => m \in edus)'
  BY DEF MessageInv, LoopEnds
<1>4. (pc \in {"answered", "deleting"} /\ ~catchingUp => edus \subseteq delivered)'
  BY DEF MessageInv, LoopEnds
<1> QED
  BY <1>1, <1>2, <1>3, <1>4 DEF MessageInv

(* The messages stay until they are delivered. *)
LEMMA MessageKept ==
    ASSUME TypeOK, TypeOK', PlaceInv, MessageInv, [Next]_vars
    PROVE  MessageInv'
<1> USE DEF tables, sender, catchUp, transaction, remote
<1>1. CASE AddMessage
  <2>1. /\ messages' = messages + 1 /\ outbox' = outbox \cup {messages + 1}
        /\ UNCHANGED <<lastDevice, upTo, edus, delivered, pc, catchingUp>>
    BY <1>1 DEF AddMessage
  <2>2. lastDevice <= messages' /\ upTo <= messages' /\ \A m \in outbox' : m > lastDevice
    BY <2>1, MessageTypes DEF MessageInv
  <2>3. \A m \in outbox' : m <= upTo => m \in outbox
    BY <2>1, MessageTypes DEF MessageInv
  <2>4. MessagesKept'
    <3>1. \A m \in 1 .. (messages + 1) : m \in 1 .. messages \/ m = messages + 1
      BY MessageTypes
    <3> QED
      BY <2>1, <3>1 DEF MessagesKept, MessageInv
  <2>5. (pc \in {"collected", "sending", "answered", "deleting"} /\ ~catchingUp =>
            \A m \in outbox : m <= upTo => m \in edus)'
    BY <2>1, <2>3 DEF MessageInv
  <2> QED
    BY <2>1, <2>2, <2>4, <2>5 DEF MessageInv
<1>2. CASE Collect
  <2>1. pc' = "collecting" /\ upTo' = messages /\ UNCHANGED <<messages, lastDevice, outbox, delivered>>
    BY <1>2 DEF Collect
  <2>2. MessagesKept'
    BY <2>1 DEF MessagesKept, MessageInv
  <2> QED
    BY <2>1, <2>2, MessageTypes DEF MessageInv
<1>3. CASE ReadMessages
  <2>1. PICK new \in NewMessages :
          /\ edus' = Range(new)
          /\ upTo' = IF Len(new) = Limit THEN Last(new) ELSE upTo
          /\ lastDevice' = IF new = <<>> THEN upTo ELSE lastDevice
    BY <1>3 DEF ReadMessages
  <2>2. pc' = "collected" /\ UNCHANGED <<messages, outbox, delivered, catchingUp>>
    BY <1>3 DEF ReadMessages
  <2> DEFINE U == {m \in outbox : lastDevice < m /\ m <= upTo}
  <2>3. /\ Range(new) \subseteq U
        /\ Len(new) < Limit => Range(new) = U
        /\ new = <<>> => U = {}
        /\ Len(new) = Limit => new # <<>> /\ Last(new) \in U /\ \A m \in U : m <= Last(new) => m \in Range(new)
        /\ Len(new) <= Limit /\ Len(new) \in Nat
    BY ReadFacts
  <2>4. Limit \in Nat
    BY BoundsAssumption
  <2>5. upTo' <= upTo
    BY <2>1, <2>3, MessageTypes
  <2>6. \A m \in outbox : m <= upTo => m \in U
    BY DEF MessageInv
  <2>7. \A m \in outbox : m > lastDevice'
    BY <2>1, <2>3, <2>6, MessageTypes DEF MessageInv
  <2>8. \A m \in outbox : m <= upTo' => m \in edus'
    <3>1. CASE Len(new) = Limit
      <4>1. upTo' = Last(new) /\ Last(new) \in U
        BY <2>1, <2>3, <3>1
      <4>2. \A m \in outbox : m <= Last(new) => m \in U
        BY <2>6, <4>1, MessageTypes
      <4> QED
        BY <2>1, <2>3, <3>1, <4>1, <4>2
    <3>2. CASE Len(new) < Limit
      BY <2>1, <2>3, <2>4, <2>6, <3>2
    <3> QED
      BY <2>3, <2>4, <3>1, <3>2
  <2>9. lastDevice' <= messages /\ upTo' <= messages
    <3>1. upTo' \in Nat
      BY MessageTypes, <2>1, <2>3
    <3> QED
      BY <2>1, <2>5, <3>1, MessageTypes DEF MessageInv
  <2>10. MessagesKept'
    BY <2>2 DEF MessagesKept, MessageInv
  <2> HIDE DEF U
  <2> QED
    BY <2>2, <2>7, <2>8, <2>9, <2>10 DEF MessageInv
<1>4. CASE SendTransaction
  <2>1. pc = "collected" /\ pc' = "sending" /\ UNCHANGED <<messages, lastDevice, outbox, delivered, edus, upTo, catchingUp>>
    BY <1>4 DEF SendTransaction
  <2>2. MessagesKept'
    BY <2>1 DEF MessagesKept, MessageInv
  <2> QED
    BY <2>1, <2>2 DEF MessageInv
<1>5. CASE Deliver
  <2>1. /\ pc = "sending" /\ pc' = "answered" /\ delivered' = delivered \cup edus
        /\ UNCHANGED <<messages, lastDevice, outbox, edus, upTo, catchingUp>>
    BY <1>5 DEF Deliver
  <2>2. MessagesKept'
    BY <2>1 DEF MessagesKept, MessageInv
  <2> QED
    BY <2>1, <2>2 DEF MessageInv
<1>6. CASE TransactionSent
  <2>1. /\ pc = "answered" /\ pc' \in {"collect", "recording", "deleting"}
        /\ UNCHANGED <<messages, lastDevice, outbox, delivered, edus, upTo, catchingUp>>
    BY <1>6 DEF TransactionSent, AfterMessages
  <2>2. MessagesKept'
    BY <2>1 DEF MessagesKept, MessageInv
  <2> QED
    BY <2>1, <2>2 DEF MessageInv
<1>7. CASE DeleteMessages
  <2>1. /\ pc = "deleting" /\ pc' \in {"collect", "recording"}
        /\ outbox' = {m \in outbox : m > upTo} /\ lastDevice' = upTo
        /\ UNCHANGED <<messages, delivered, upTo, catchingUp>>
    BY <1>7 DEF DeleteMessages, AfterMessages
  <2>2. ~catchingUp
    BY <2>1 DEF PlaceInv
  <2>3. \A m \in outbox : m <= upTo => m \in delivered
    BY <2>1, <2>2 DEF MessageInv
  <2>4. MessagesKept'
    <3>1. \A m \in outbox : m \in outbox' \/ m \in delivered
      BY <2>1, <2>3, MessageTypes
    <3> QED
      BY <2>1, <3>1 DEF MessagesKept, MessageInv
  <2> QED
    BY <2>1, <2>4, MessageTypes DEF MessageInv
<1>8. CASE NothingToSend
  <2>1. CASE newData
    BY <1>8, <2>1, MessageStill DEF NothingToSend
  <2>2. CASE ~newData
    BY <1>8, <2>2, MessageStill DEF NothingToSend
  <2> QED
    BY <2>1, <2>2
<1>9. CASE NotRetrying \/ LoopFails
  BY <1>9, MessageStill DEF NotRetrying, LoopFails
<1>10. CASE Crash
  <2>1. LoopEnds /\ lastDevice' = 0 /\ UNCHANGED <<messages, outbox, delivered>>
    BY <1>10 DEF Crash
  <2>2. MessagesKept'
    BY <2>1 DEF MessagesKept, MessageInv
  <2>3. \A m \in outbox : m > 0
    BY MessageTypes DEF MessageInv
  <2> QED
    BY <2>1, <2>2, <2>3, MessageTypes DEF MessageInv, LoopEnds
<1>11. CASE Allowed \/ LoadLastSent \/ Query \/ QueryAgain \/ CaughtUp \/ Behind \/ CatchUpSent \/ RecordCatchUp \/ RecordSent
  BY <1>11, MessageStill DEF Allowed, LoadLastSent, Query, QueryAgain, CaughtUp, Behind, CatchUpSent, RecordCatchUp, RecordSent
<1>12. CASE ChooseCatchUpPdus
  <2>1. catchingUp' /\ upTo' = upTo /\ UNCHANGED <<messages, lastDevice, outbox, delivered>>
    BY <1>12 DEF ChooseCatchUpPdus, PlaceInv
  <2> QED
    BY <2>1, MessageStill
<1>13. CASE Persist \/ NotifyOther \/ BackoffGrows \/ BackoffClears \/ TimePasses \/ StartBatch \/ FinishBatch
  BY <1>13, MessageStill DEF Persist, NotifyOther, BackoffGrows, BackoffClears, TimePasses, StartBatch, FinishBatch
<1>14. CASE Poke \/ WakeDestination
  BY <1>14, MessageStill DEF Poke, WakeDestination, AttemptNewTransaction
<1>15. ASSUME NEW e \in Events, StoreEntry(e) \/ Pass(e) \/ FilterOut(e) \/ SendPdu(e)
       PROVE  MessageInv'
  <2>1. /\ UNCHANGED <<messages, lastDevice, outbox, delivered, catchingUp, edus, upTo>>
        /\ pc' = pc \/ pc' = "limiter"
    BY <1>15 DEF StoreEntry, Pass, FilterOut, SendPdu, AttemptNewTransaction
  <2> QED
    BY <2>1, MessageStill
<1>16. CASE UNCHANGED vars
  BY <1>16, MessageStill DEF vars
<1> QED
  BY <1>1, <1>2, <1>3, <1>4, <1>5, <1>6, <1>7, <1>8, <1>9, <1>10, <1>11, <1>12, <1>13, <1>14, <1>15, <1>16
     DEF Next, Handle, Loop
--------------------------------------------------------------------------------
(***************************************************************************)
(* The order of the events, while none has overtaken another: they are     *)
(* stored and handled in order, across the rooms, and so are they queued.  *)
(***************************************************************************)
StageOrder ==
    /\ \A e, f \in Events : e < f /\ stage[f] # "new" => stage[e] # "new"
    /\ \A e, f \in Events : e < f /\ stage[f] = "handled" => stage[e] = "handled"

(* An event below some room's entry is below its own room's. *)
Ordered(entries) ==
    \A r \in Rooms, e \in Events : e <= entries[r] => e <= entries[RoomOf[e]]

QueueOrder ==
    /\ Increasing(pending)
    /\ pc \in {"deleting", "recording"} => \A e \in Range(txn), f \in Range(pending) : e < f

OrderInv == StageOrder /\ Ordered(destRooms) /\ QueueOrder

(* Only the handling of an event finds that the order is lost. *)
LEMMA InOrderKept ==
    ASSUME [Next]_vars
    PROVE  /\ inOrder' => inOrder
           /\ known' = known
<1> USE DEF history
<1>1. CASE Persist \/ NotifyOther \/ AddMessage \/ Poke \/ WakeDestination \/ LoopFails \/ BackoffGrows \/ BackoffClears \/ TimePasses \/ Crash
  BY <1>1 DEF Persist, NotifyOther, AddMessage, Poke, WakeDestination, LoopFails, BackoffGrows, BackoffClears, TimePasses, Crash
<1>2. CASE Handle
  <2>1. CASE StartBatch \/ FinishBatch
    BY <2>1 DEF StartBatch, FinishBatch
  <2>2. ASSUME NEW e \in Events, Pass(e)
        PROVE  (inOrder' => inOrder) /\ known' = known
    BY <2>2 DEF Pass
  <2>3. ASSUME NEW e \in Events, StoreEntry(e)
        PROVE  (inOrder' => inOrder) /\ known' = known
    BY <2>3 DEF StoreEntry
  <2>4. ASSUME NEW e \in Events, FilterOut(e)
        PROVE  (inOrder' => inOrder) /\ known' = known
    BY <2>4 DEF FilterOut
  <2>5. ASSUME NEW e \in Events, SendPdu(e)
        PROVE  (inOrder' => inOrder) /\ known' = known
    BY <2>5 DEF SendPdu
  <2> QED
    BY <1>2, <2>1, <2>2, <2>3, <2>4, <2>5 DEF Handle
<1>3. CASE Loop
  BY <1>3 DEF Loop, NotRetrying, Allowed, LoadLastSent, Query, QueryAgain, CaughtUp, Behind,
              ChooseCatchUpPdus, CatchUpSent, RecordCatchUp, Collect, ReadMessages, NothingToSend,
              SendTransaction, Deliver, TransactionSent, DeleteMessages, RecordSent
<1>4. CASE UNCHANGED vars
  BY <1>4 DEF vars
<1> QED
  BY <1>1, <1>2, <1>3, <1>4 DEF Next

(* What the order of the step says: the earlier events are as far. *)
LEMMA EarlierFacts ==
    ASSUME TypeOK, BatchInv, NEW e \in Events, NEW S, "handled" \in S, EarlierIn(e, S)
    PROVE  \A f \in Events : f < e => stage[f] \in S
BY EventFacts, BatchTypes DEF EarlierIn, BatchInv

(* Storing an entry in order. *)
LEMMA OrderStore ==
    ASSUME TypeOK, BatchInv, StageOrder, Ordered(destRooms), NEW e \in Events, StoreEntry(e), inOrder'
    PROVE  StageOrder' /\ Ordered(destRooms')
<1> USE EventFacts, BatchTypes
<1>1. /\ stage[e] = "new" /\ stage' = [stage EXCEPT ![e] = "stored"]
      /\ destRooms' = [destRooms EXCEPT ![RoomOf[e]] = e]
  BY DEF StoreEntry
<1>2. stage'[e] = "stored" /\ \A f \in Events : f # e => stage'[f] = stage[f]
  BY <1>1
<1>3. destRooms'[RoomOf[e]] = e /\ \A q \in Rooms : q # RoomOf[e] => destRooms'[q] = destRooms[q]
  BY <1>1
<1>4. /\ EarlierIn(e, Stages \ {"new"})
      /\ \A q \in Rooms : destRooms[RoomOf[e]] > e /\ q # RoomOf[e] => destRooms[q] <= e
  BY DEF StoreEntry
<1>5. \A f \in Events : f < e => stage[f] # "new"
  <2>1. "handled" \in Stages \ {"new"}
    BY DEF Stages
  <2> QED
    BY <1>4, <2>1, EarlierFacts
<1>6. StageOrder'
  BY <1>1, <1>2, <1>5 DEF StageOrder
<1>7. \A f \in Events : f <= e => f <= destRooms'[RoomOf[f]]
  <2>1. \A f \in Events : f < e => f <= destRooms[RoomOf[f]]
    BY <1>5 DEF BatchInv
  <2> QED
    BY <1>3, <2>1
<1>8. ASSUME NEW q \in Rooms, NEW f \in Events, f <= destRooms'[q]
      PROVE  f <= destRooms'[RoomOf[f]]
  <2>1. CASE f <= e
    BY <1>7, <2>1
  <2>2. CASE f > e
    <3>1. q # RoomOf[e] /\ destRooms'[q] = destRooms[q]
      BY <1>3, <1>8, <2>2
    <3>2. destRooms[RoomOf[e]] <= e
      BY <1>4, <1>8, <2>2, <3>1
    <3>3. f <= destRooms[RoomOf[f]]
      BY <1>8, <3>1 DEF Ordered
    <3>4. RoomOf[f] # RoomOf[e]
      BY <2>2, <3>2, <3>3
    <3> QED
      BY <1>3, <3>3, <3>4
  <2> QED
    BY <2>1, <2>2
<1>9. Ordered(destRooms')
  BY <1>8 DEF Ordered
<1> QED
  BY <1>6, <1>9

(* The order of the stages and of the entries is kept. *)
LEMMA StageOrderKept ==
    ASSUME TypeOK, BatchInv, StageOrder, Ordered(destRooms), [Next]_vars, inOrder'
    PROVE  StageOrder' /\ Ordered(destRooms')
<1> USE DEF tables, sender
<1>1. CASE UNCHANGED <<stage, destRooms>>
  BY <1>1 DEF StageOrder
<1>2. ASSUME NEW e \in Events, StoreEntry(e)
      PROVE  StageOrder' /\ Ordered(destRooms')
  BY <1>2, OrderStore
<1>3. ASSUME NEW e \in Events, Pass(e)
      PROVE  StageOrder' /\ Ordered(destRooms')
  <2>1. stage[e] = "stored" /\ stage' = [stage EXCEPT ![e] = "passed"] /\ UNCHANGED destRooms
    BY <1>3 DEF Pass
  <2>2. stage'[e] = "passed" /\ \A f \in Events : f # e => stage'[f] = stage[f]
    BY <2>1, BatchTypes
  <2> QED
    BY <2>1, <2>2 DEF StageOrder
<1>4. ASSUME NEW e \in Events, FilterOut(e) \/ SendPdu(e)
      PROVE  StageOrder' /\ Ordered(destRooms')
  <2>1. stage' = [stage EXCEPT ![e] = "handled"] /\ UNCHANGED destRooms /\ EarlierIn(e, {"handled"})
    BY <1>4 DEF FilterOut, SendPdu
  <2>2. stage'[e] = "handled" /\ \A f \in Events : f # e => stage'[f] = stage[f]
    BY <2>1, BatchTypes
  <2>3. \A f \in Events : f < e => stage[f] = "handled"
    BY <2>1, EarlierFacts
  <2> QED
    BY <2>1, <2>2, <2>3, EventFacts DEF StageOrder
<1>5. CASE Crash
  <2>1. /\ UNCHANGED destRooms
        /\ \A e \in Events : stage'[e] = IF e <= outPos THEN stage[e] ELSE "new"
    BY <1>5 DEF Crash
  <2> QED
    BY <2>1, EventFacts, BatchTypes DEF StageOrder, BatchInv
<1>6. CASE Persist \/ NotifyOther \/ AddMessage \/ Poke \/ WakeDestination \/ LoopFails \/ BackoffGrows \/ BackoffClears \/ TimePasses
  BY <1>6, <1>1 DEF Persist, NotifyOther, AddMessage, Poke, WakeDestination, LoopFails, BackoffGrows, BackoffClears, TimePasses
<1>7. CASE StartBatch \/ FinishBatch
  BY <1>7, <1>1 DEF StartBatch, FinishBatch
<1>8. CASE Loop
  <2>1. UNCHANGED <<stage, destRooms>>
    BY <1>8 DEF Loop, NotRetrying, Allowed, LoadLastSent, Query, QueryAgain, CaughtUp, Behind,
                ChooseCatchUpPdus, CatchUpSent, RecordCatchUp, Collect, ReadMessages, NothingToSend,
                SendTransaction, Deliver, TransactionSent, DeleteMessages, RecordSent
  <2> QED
    BY <2>1, <1>1
<1>9. CASE UNCHANGED vars
  BY <1>9, <1>1 DEF vars
<1> QED
  BY <1>2, <1>3, <1>4, <1>5, <1>6, <1>7, <1>8, <1>9 DEF Next, Handle

(* A step that leaves the queue alone or empties it. *)
LEMMA QueueStill ==
    ASSUME TypeOK, QueueOrder,
           pending' = pending \/ pending' = <<>>,
           \/ pc' = pc /\ txn' = txn
           \/ pc' \notin {"deleting", "recording"}
           \/ pc = "deleting" /\ txn' = txn
    PROVE  QueueOrder'
<1>1. CASE pending' = pending
  <2>1. Range(pending)' = Range(pending) /\ (txn' = txn => Range(txn)' = Range(txn))
    BY <1>1 DEF Range
  <2>2. Increasing(pending)'
    BY <1>1 DEF QueueOrder, Increasing
  <2> QED
    BY <2>1, <2>2 DEF QueueOrder
<1>2. CASE pending' = <<>>
  <2>1. Range(pending)' = {}
    BY <1>2 DEF Range
  <2>2. Increasing(pending)'
    BY <1>2 DEF Increasing
  <2> QED
    BY <2>1, <2>2 DEF QueueOrder
<1> QED
  BY <1>1, <1>2

(* An event that is queued is later than what is handled. *)
LEMMA QueueSendPdu ==
    ASSUME TypeOK, TypeOK', LoopInv, StageOrder, QueueOrder, NEW e \in Events, SendPdu(e)
    PROVE  QueueOrder'
<1> USE EventFacts
<1>1. CASE pending' = pending
  <2>1. txn' = txn /\ (pc' = pc \/ pc' = "limiter")
    BY DEF SendPdu, AttemptNewTransaction, transaction
  <2> QED
    BY <1>1, <2>1, QueueStill
<1>2. CASE pending' = Append(pending, e)
  <2>1. txn' = txn /\ (pc' = pc \/ pc' = "limiter") /\ stage[e] = "passed"
    BY DEF SendPdu, AttemptNewTransaction, transaction
  <2>2. \A f \in Events : stage[f] = "handled" => f < e
    BY <2>1 DEF StageOrder
  <2>3. Range(pending) \subseteq Events /\ \A i \in DOMAIN pending : pending[i] \in Range(pending)
    BY RangeEvents DEF TypeOK
  <2>4. \A f \in Range(pending) : f < e
    BY <2>2, <2>3 DEF LoopInv
  <2> DEFINE n == Len(pending)
  <2>5. /\ n \in Nat /\ Len(pending') = n + 1
        /\ \A i \in 1 .. n : pending'[i] = pending[i]
        /\ pending'[n + 1] = e
    <3>1. pending \in Seq(Events)
      BY DEF TypeOK
    <3> QED
      BY <1>2, <3>1, AppendProperties
  <2>6. DOMAIN pending = 1 .. n /\ DOMAIN pending' = 1 .. (n + 1)
    BY <2>5 DEF TypeOK
  <2> HIDE DEF n
  <2>7. Range(pending)' \subseteq Range(pending) \cup {e}
    <3>1. \A i \in DOMAIN pending' : pending'[i] \in Range(pending) \cup {e}
      BY <2>3, <2>5, <2>6
    <3> QED
      BY <3>1 DEF Range
  <2>8. Increasing(pending')
    <3>1. \A i \in 1 .. n : pending[i] < e
      BY <2>3, <2>4, <2>6
    <3>2. \A i, j \in 1 .. n : i < j => pending[i] < pending[j]
      BY <2>6 DEF QueueOrder, Increasing
    <3>3. ASSUME NEW i \in 1 .. (n + 1), NEW j \in 1 .. (n + 1), i < j
          PROVE  pending'[i] < pending'[j]
      <4>1. i \in 1 .. n /\ (j \in 1 .. n \/ j = n + 1)
        BY <2>5, <3>3
      <4> QED
        BY <2>5, <3>1, <3>2, <3>3, <4>1
    <3> QED
      BY <2>6, <3>3 DEF Increasing
  <2>9. ASSUME pc' \in {"deleting", "recording"}
        PROVE  \A f \in Range(txn)', g \in Range(pending)' : f < g
    <3>1. pc \in {"deleting", "recording"}
      BY <2>1, <2>9
    <3>2. Range(txn)' = Range(txn) /\ Range(txn) \subseteq Events
      BY <2>1, RangeEvents DEF TypeOK
    <3>3. \A f \in Range(txn) : f < e
      BY <2>2, <3>1, <3>2 DEF LoopInv
    <3> QED
      BY <2>7, <3>1, <3>2, <3>3 DEF QueueOrder
  <2> QED
    BY <2>8, <2>9 DEF QueueOrder, Increasing
<1> QED
  BY <1>1, <1>2 DEF SendPdu

(* What is left of the queue is later than what was sent. *)
LEMMA QueueSent ==
    ASSUME TypeOK, TypeOK', LoopInv, QueueOrder, TransactionSent
    PROVE  QueueOrder'
<1>1. pending \in Seq(Events) /\ txn \in Seq(Events)
  BY DEF TypeOK
<1>2. pending' = After(pending, Len(txn)) /\ Begins(txn, pending) /\ txn' = txn
  BY DEF TransactionSent, After, LoopInv, transaction
<1> DEFINE n == Len(txn)
<1>3. /\ \A i \in DOMAIN pending' : i + n \in DOMAIN pending /\ pending'[i] = pending[i + n]
      /\ \A i \in DOMAIN txn : i \in DOMAIN pending /\ i <= n /\ txn[i] = pending[i]
  BY <1>1, <1>2, QueueSplit
<1>4. /\ n \in Nat /\ \A i \in DOMAIN pending' : i \in Nat /\ i > 0
      /\ \A i \in DOMAIN txn : i \in Nat
  <2>1. DOMAIN pending' = 1 .. Len(pending') /\ Len(pending') \in Nat
    BY DEF TypeOK
  <2>2. DOMAIN txn = 1 .. Len(txn) /\ Len(txn) \in Nat
    BY DEF TypeOK
  <2> QED
    BY <2>1, <2>2
<1> HIDE DEF n
<1>5. ASSUME NEW i \in DOMAIN pending', NEW j \in DOMAIN pending', i < j
      PROVE  pending'[i] < pending'[j]
  <2>1. i + n < j + n
    BY <1>4, <1>5
  <2>2. pending[i + n] < pending[j + n]
    BY <1>3, <2>1 DEF QueueOrder, Increasing
  <2> QED
    BY <1>3, <2>2
<1>6. ASSUME NEW i \in DOMAIN txn, NEW j \in DOMAIN pending'
      PROVE  txn[i] < pending'[j]
  <2>1. i < j + n
    BY <1>3, <1>4
  <2>2. pending[i] < pending[j + n]
    BY <1>3, <2>1 DEF QueueOrder, Increasing
  <2> QED
    BY <1>3, <2>2
<1>7. \A e \in Range(txn), f \in Range(pending)' : e < f
  BY <1>6 DEF Range
<1>8. Range(txn)' = Range(txn)
  BY <1>2
<1> QED
  BY <1>5, <1>7, <1>8 DEF QueueOrder, Increasing

(* The order of the queue is kept. *)
LEMMA QueueOrderKept ==
    ASSUME TypeOK, TypeOK', LoopInv, StageOrder, QueueOrder, [Next]_vars
    PROVE  QueueOrder'
<1> USE DEF tables, sender, catchUp, transaction
<1>1. CASE Persist \/ NotifyOther \/ AddMessage \/ BackoffGrows \/ BackoffClears \/ TimePasses \/ StartBatch \/ FinishBatch
  BY <1>1, QueueStill DEF Persist, NotifyOther, AddMessage, BackoffGrows, BackoffClears, TimePasses, StartBatch, FinishBatch
<1>2. CASE Poke \/ WakeDestination
  BY <1>2, QueueStill DEF Poke, WakeDestination, AttemptNewTransaction
<1>3. ASSUME NEW e \in Events, StoreEntry(e) \/ Pass(e) \/ FilterOut(e)
      PROVE  QueueOrder'
  BY <1>3, QueueStill DEF StoreEntry, Pass, FilterOut
<1>4. ASSUME NEW e \in Events, SendPdu(e)
      PROVE  QueueOrder'
  BY <1>4, QueueSendPdu
<1>5. CASE NotRetrying \/ LoopFails \/ Crash
  <2>1. (pending' = pending \/ pending' = <<>>) /\ pc' = "off"
    BY <1>5 DEF NotRetrying, LoopFails, Crash, StartCatchingUp, LoopEnds
  <2> QED
    BY <2>1, QueueStill
<1>6. CASE Allowed \/ LoadLastSent \/ Query \/ QueryAgain \/ CaughtUp \/ ChooseCatchUpPdus \/ CatchUpSent
  <2>1. pending' = pending /\ pc' \notin {"deleting", "recording"}
    BY <1>6 DEF Allowed, LoadLastSent, Query, QueryAgain, CaughtUp, ChooseCatchUpPdus, CatchUpSent
  <2> QED
    BY <2>1, QueueStill
<1>7. CASE RecordCatchUp \/ Collect \/ ReadMessages \/ NothingToSend \/ SendTransaction \/ Deliver \/ RecordSent
  <2>1. pending' = pending /\ pc' \notin {"deleting", "recording"}
    BY <1>7 DEF RecordCatchUp, Collect, ReadMessages, NothingToSend, SendTransaction, Deliver, RecordSent, LoopEnds
  <2> QED
    BY <2>1, QueueStill
<1>8. CASE Behind
  <2>1. (pending' = pending \/ pending' = <<>>) /\ pc' = "choose"
    BY <1>8 DEF Behind, StartCatchingUp
  <2> QED
    BY <2>1, QueueStill
<1>9. CASE TransactionSent
  BY <1>9, QueueSent
<1>10. CASE DeleteMessages
  BY <1>10, QueueStill DEF DeleteMessages
<1>11. CASE UNCHANGED vars
  BY <1>11, QueueStill DEF vars
<1> QED
  BY <1>1, <1>2, <1>3, <1>4, <1>5, <1>6, <1>7, <1>8, <1>9, <1>10, <1>11 DEF Next, Handle, Loop
--------------------------------------------------------------------------------
(***************************************************************************)
(* Positions that are safe to resume from.                                 *)
(***************************************************************************)

(***************************************************************************)
(* A catch-up from x, with the events H still to be sent, misses nothing:  *)
(* an event up to x is done with (it is in D, or a later one of its room   *)
(* is), its room has an entry above x, or H has it.                        *)
(***************************************************************************)
Covered(x, H, entries, D) ==
    /\ x \in Events => x \in H \/ Within(x, D)
    /\ \A e \in Events : e <= x =>
        \/ Within(e, D)
        \/ entries[RoomOf[e]] > x
        \/ \E h \in H : h <= x /\ h >= e /\ RoomOf[h] = RoomOf[e]

EntryMaps == [Rooms -> Events \cup {None}]

(* What the lemmas use of destination_rooms. *)
LEMMA EntryTypes ==
    ASSUME NEW entries \in EntryMaps
    PROVE  \A r \in Rooms : entries[r] \in Nat /\ entries[r] <= MaxEvent
<1>1. \A r \in Rooms : entries[r] \in Events \cup {0}
  BY EventFacts DEF EntryMaps
<1> QED
  BY <1>1, EventFacts

(* It stays so when more is done. *)
LEMMA CoveredMore ==
    ASSUME NEW x \in Nat, NEW H, NEW entries, NEW D, NEW D2, D \subseteq D2,
           Covered(x, H, entries, D)
    PROVE  Covered(x, H, entries, D2)
<1>1. \A e : Within(e, D) => Within(e, D2)
  BY DEF Within
<1> QED
  BY <1>1 DEF Covered

(* It stays so when an entry is stored in order, be it a lower one. *)
LEMMA CoveredStore ==
    ASSUME NEW x \in Nat, NEW H, H \subseteq Events, NEW entries \in EntryMaps, NEW D, D \subseteq Events,
           NEW f \in Events,
           Covered(x, H, entries, D), Ordered(entries),
           \A r \in Rooms : entries[RoomOf[f]] > f /\ r # RoomOf[f] => entries[r] <= f,
           NEW entries2, entries2 = [entries EXCEPT ![RoomOf[f]] = f]
    PROVE  Covered(x, H, entries2, D)
<1> USE EventFacts, EntryTypes
<1>1. entries2[RoomOf[f]] = f /\ \A r \in Rooms : r # RoomOf[f] => entries2[r] = entries[r]
  BY DEF EntryMaps
<1>2. ASSUME NEW e \in Events, e <= x,
             ~Within(e, D),
             ~ \E h \in H : h <= x /\ h >= e /\ RoomOf[h] = RoomOf[e]
      PROVE  entries2[RoomOf[e]] > x
  <2>1. entries[RoomOf[e]] > x
    BY <1>2 DEF Covered
  <2>2. CASE RoomOf[e] # RoomOf[f]
    BY <1>1, <2>1, <2>2
  <2>3. CASE RoomOf[e] = RoomOf[f] /\ f > x
    BY <1>1, <2>3
  <2>4. CASE RoomOf[e] = RoomOf[f] /\ f <= x
    <3>1. x \in Events
      BY <2>1, <2>4
    <3>2. RoomOf[x] # RoomOf[e]
      <4>1. ASSUME RoomOf[x] = RoomOf[e], Within(x, D)
            PROVE  Within(e, D)
        <5>1. PICK g \in D : RoomOf[g] = RoomOf[x] /\ g >= x
          BY <4>1 DEF Within
        <5>2. g \in Nat /\ g >= e
          BY <1>2, <5>1
        <5> QED
          BY <4>1, <5>1, <5>2 DEF Within
      <4>2. x \in H \/ Within(x, D)
        BY <3>1 DEF Covered
      <4> QED
        BY <1>2, <4>1, <4>2
    <3>3. x <= entries[RoomOf[x]]
      BY <2>1, <2>4, <3>1 DEF Ordered
    <3>4. entries[RoomOf[f]] > f
      BY <2>1, <2>4
    <3>5. entries[RoomOf[x]] <= f /\ entries[RoomOf[x]] \in Nat
      BY <2>4, <3>1, <3>2, <3>4
    <3>6. x = f
      BY <2>4, <3>3, <3>5
    <3> QED
      BY <2>4, <3>2, <3>6
  <2> QED
    BY <2>2, <2>3, <2>4
<1> QED
  BY <1>2 DEF Covered

(* Who has a later event of the room is done with the earlier one. *)
LEMMA WithinUp ==
    ASSUME NEW e \in Events, NEW h \in Events, NEW D, D \subseteq Events,
           Within(h, D), h >= e, RoomOf[h] = RoomOf[e]
    PROVE  Within(e, D)
<1>1. PICK g \in D : RoomOf[g] = RoomOf[h] /\ g >= h
  BY DEF Within
<1>2. g \in Nat /\ h \in Nat /\ e \in Nat /\ g >= e
  BY <1>1, EventFacts
<1> QED
  BY <1>1, <1>2 DEF Within

(* What a catch-up from a covered position finds covers the events found. *)
LEMMA CoveredQuery ==
    ASSUME NEW x \in Nat, NEW entries \in EntryMaps, NEW D,
           Covered(x, {}, entries, D), Ordered(entries),
           \A r \in Rooms : entries[r] # None => RoomOf[entries[r]] = r,
           NEW U, U = {entries[r] : r \in {q \in Rooms : entries[q] > x}},
           NEW H, H \subseteq U, \A h \in H, u \in U : u <= h => u \in H,
           NEW h \in H
    PROVE  Covered(h, H, entries, D)
<1> USE EventFacts, EntryTypes
<1>1. PICK r \in Rooms : h = entries[r] /\ entries[r] > x
  OBVIOUS
<1>2. h \in Nat
  BY <1>1
<1>3. ASSUME NEW e \in Events, e <= h, ~Within(e, D), ~(entries[RoomOf[e]] > h)
      PROVE  \E g \in H : g <= h /\ g >= e /\ RoomOf[g] = RoomOf[e]
  <2> DEFINE g == entries[RoomOf[e]]
  <2>1. g >= e
    BY <1>1, <1>3 DEF Ordered
  <2>2. g > x
    <3>1. CASE e <= x
      BY <1>3, <3>1 DEF Covered
    <3>2. CASE e > x
      BY <2>1, <3>2
    <3> QED
      BY <3>1, <3>2
  <2>3. g \in U
    BY <2>2
  <2>4. g <= h
    BY <1>2, <1>3
  <2>5. g \in H
    BY <2>3, <2>4
  <2>6. RoomOf[g] = RoomOf[e]
    BY <2>2
  <2> HIDE DEF g
  <2> QED
    BY <2>1, <2>4, <2>5, <2>6
<1> QED
  BY <1>3 DEF Covered

(* The first event found is a covered position once it is sent ... *)
LEMMA CoveredHead ==
    ASSUME NEW H, H \subseteq Events, NEW h \in H, NEW entries, NEW D, D \subseteq Events,
           Covered(h, H, entries, D), \A g \in H : g >= h, Within(h, D)
    PROVE  Covered(h, {}, entries, D)
<1>1. \A g \in H : g <= h => g = h
  BY EventFacts
<1>2. \A e \in Events : e <= h /\ RoomOf[h] = RoomOf[e] => Within(e, D)
  BY WithinUp, EventFacts
<1> QED
  BY <1>1, <1>2 DEF Covered

(* ... and the others no longer need it. *)
LEMMA CoveredTail ==
    ASSUME NEW H, H \subseteq Events, NEW h \in H, NEW entries, NEW D, D \subseteq Events,
           NEW H2, H2 \subseteq H, H \subseteq H2 \cup {h}, Within(h, D),
           NEW x \in H2, Covered(x, H, entries, D)
    PROVE  Covered(x, H2, entries, D)
<1>1. \A e \in Events : e <= h /\ RoomOf[h] = RoomOf[e] => Within(e, D)
  BY WithinUp, EventFacts
<1>2. \A e, g \in Events : g = h /\ g >= e => e <= h
  BY EventFacts
<1> QED
  BY <1>1, <1>2 DEF Covered
--------------------------------------------------------------------------------
(***************************************************************************)
(* Nothing is lost.                                                        *)
(***************************************************************************)

(* The events that need nothing more: received, or left out. *)
Ended == received \cup leftOut

PositionsCovered ==
    /\ Covered(lastSent, {}, destRooms, Ended)
    /\ lastCached # None => Covered(lastCached, {}, destRooms, Ended)
    /\ \A h \in Range(found) : Covered(h, Range(found), destRooms, Ended)

(* A query that finds nothing leaves only what is skipped after it. *)
NothingMissing ==
    pc = "decide" /\ found = <<>> =>
        \A e \in Events : stage[e] = "handled" =>
            Within(e, Ended) \/ (lastCached < e /\ e <= lastSkipped)

(* Out of the catch-up, what is handled is queued. *)
QueueComplete ==
    ~catchingUp =>
        \A e \in Events : stage[e] = "handled" => Within(e, Ended) \/ Within(e, Range(pending))

SafeInv == PositionsCovered /\ NothingMissing /\ QueueComplete

IInv ==
    /\ TypeOK
    /\ BatchInv
    /\ PlaceInv
    /\ LoopInv
    /\ Increasing(found)
    /\ MessageInv
    /\ known => lastSent # None
    /\ inOrder => OrderInv
    /\ known /\ inOrder => SafeInv

(* The types the arguments use. *)
LEMMA SafeTypes ==
    ASSUME TypeOK
    PROVE  /\ lastSent \in Nat /\ lastCached \in Nat /\ lastSkipped \in Nat
           /\ destRooms \in EntryMaps /\ stage \in [Events -> Stages]
           /\ Ended \subseteq Events
           /\ catchingUp \in BOOLEAN /\ newData \in BOOLEAN
           /\ found \in Seq(Events) /\ txn \in Seq(Events) /\ pending \in Seq(Events)
           /\ Range(found) \subseteq Events /\ Range(txn) \subseteq Events /\ Range(pending) \subseteq Events
<1>1. /\ found \in Seq(Events) /\ txn \in Seq(Events) /\ pending \in Seq(Events)
      /\ destRooms \in EntryMaps /\ stage \in [Events -> Stages]
      /\ catchingUp \in BOOLEAN /\ newData \in BOOLEAN
  BY DEF TypeOK, EntryMaps
<1>2. Range(found) \subseteq Events /\ Range(txn) \subseteq Events /\ Range(pending) \subseteq Events
  BY <1>1, RangeEvents
<1>3. lastSent \in Nat /\ lastCached \in Nat /\ lastSkipped \in Nat
  BY EventFacts DEF TypeOK
<1>4. Ended \subseteq Events
  BY DEF TypeOK, Ended
<1> QED
  BY <1>1, <1>2, <1>3, <1>4

(* New positions that were covered are covered, as long as no entry changes. *)
LEMMA PositionsStill ==
    ASSUME TypeOK, TypeOK',
           destRooms' = destRooms, Ended \subseteq Ended',
           Covered(lastSent', {}, destRooms, Ended),
           lastCached' # None => Covered(lastCached', {}, destRooms, Ended),
           \A h \in Range(found') : Covered(h, Range(found'), destRooms, Ended)
    PROVE  PositionsCovered'
<1>1. lastSent' \in Nat /\ lastCached' \in Nat /\ Range(found') \subseteq Nat
  <2>1. lastSent' \in Nat /\ lastCached' \in Nat
    <3>1. \A x \in Events \cup {None, Start} : x \in Nat
      BY EventFacts
    <3>2. lastSent' \in Events \cup {None, Start} /\ lastCached' \in Events \cup {None, Start}
      BY DEF TypeOK
    <3> QED
      BY <3>1, <3>2
  <2>2. found' \in Seq(Events)
    BY DEF TypeOK
  <2> QED
    BY <2>1, <2>2, RangeEvents, EventFacts
<1>2. Covered(lastSent', {}, destRooms, Ended')
  BY <1>1, CoveredMore
<1>3. lastCached' # None => Covered(lastCached', {}, destRooms, Ended')
  BY <1>1, CoveredMore
<1>4. \A h \in Range(found') : Covered(h, Range(found'), destRooms, Ended')
  BY <1>1, CoveredMore
<1> QED
  BY <1>2, <1>3, <1>4 DEF PositionsCovered

(* Nothing becomes missing as long as no event is handled and the loop does *)
(* not get to its decision.                                                *)
LEMMA NothingMissingStill ==
    ASSUME TypeOK, NothingMissing, Ended \subseteq Ended',
           pc' # "decide" \/ UNCHANGED <<pc, found, lastCached, lastSkipped>>,
           \A e \in Events : stage'[e] = "handled" => stage[e] = "handled"
    PROVE  NothingMissing'
<1>1. \A e \in Events : Within(e, Ended) => Within(e, Ended')
  BY DEF Within
<1> QED
  BY <1>1 DEF NothingMissing

(* The queue stays complete as long as no event is handled and what leaves  *)
(* it has reached the destination.                                         *)
LEMMA QueueCompleteStill ==
    ASSUME TypeOK, QueueComplete, Ended \subseteq Ended',
           catchingUp' \/ (~catchingUp /\ Range(pending) \subseteq Range(pending') \cup Ended'),
           \A e \in Events : stage'[e] = "handled" => stage[e] = "handled"
    PROVE  QueueComplete'
<1>1. \A e \in Events : Within(e, Ended) => Within(e, Ended')
  BY DEF Within
<1>2. ASSUME ~catchingUp'
      PROVE  \A e \in Events : Within(e, Range(pending)) => Within(e, Ended') \/ Within(e, Range(pending'))
  BY <1>2 DEF Within
<1> QED
  BY <1>1, <1>2 DEF QueueComplete

(* A step that adds to what is done, and at most forgets what was found. *)
LEMMA SafeQuiet ==
    ASSUME TypeOK, TypeOK', SafeInv,
           UNCHANGED <<destRooms, stage, lastSent, lastCached, lastSkipped>>,
           found' = found \/ found' = <<>>,
           Ended \subseteq Ended',
           pc' # "decide" \/ UNCHANGED <<pc, found>>,
           catchingUp' \/ UNCHANGED <<catchingUp, pending>>
    PROVE  SafeInv'
<1>1. \A h \in Range(found') : Covered(h, Range(found'), destRooms, Ended)
  BY DEF SafeInv, PositionsCovered, Range
<1>2. PositionsCovered'
  BY <1>1, PositionsStill DEF SafeInv, PositionsCovered
<1>3. NothingMissing'
  BY NothingMissingStill DEF SafeInv
<1>4. QueueComplete'
  <2>1. catchingUp' \/ ~catchingUp
    BY SafeTypes
  <2>2. UNCHANGED pending => Range(pending) \subseteq Range(pending')
    OBVIOUS
  <2> QED
    BY <2>1, <2>2, QueueCompleteStill DEF SafeInv
<1> QED
  BY <1>2, <1>3, <1>4 DEF SafeInv

(* Storing an entry in order. *)
LEMMA SafeStore ==
    ASSUME TypeOK, TypeOK', Ordered(destRooms), SafeInv, NEW e \in Events, StoreEntry(e), inOrder'
    PROVE  SafeInv'
<1>1. /\ stage[e] = "new" /\ stage' = [stage EXCEPT ![e] = "stored"]
      /\ destRooms' = [destRooms EXCEPT ![RoomOf[e]] = e]
      /\ \A r \in Rooms : destRooms[RoomOf[e]] > e /\ r # RoomOf[e] => destRooms[r] <= e
  BY DEF StoreEntry
<1>2. UNCHANGED <<lastSent, lastCached, lastSkipped, found, pc, catchingUp, pending, received, leftOut>>
  BY DEF StoreEntry, catchUp, remote
<1>3. Ended' = Ended
  BY <1>2 DEF Ended
<1>4. \A f \in Events : stage'[f] = "handled" => stage[f] = "handled"
  BY <1>1, SafeTypes
<1>5. Covered(lastSent, {}, destRooms', Ended)
  BY <1>1, SafeTypes, CoveredStore DEF SafeInv, PositionsCovered
<1>6. lastCached # None => Covered(lastCached, {}, destRooms', Ended)
  BY <1>1, SafeTypes, CoveredStore DEF SafeInv, PositionsCovered
<1>7. ASSUME NEW h \in Range(found)
      PROVE  Covered(h, Range(found), destRooms', Ended)
  <2>1. h \in Nat
    BY SafeTypes, EventFacts
  <2>2. Covered(h, Range(found), destRooms, Ended)
    BY DEF SafeInv, PositionsCovered
  <2> QED
    BY <1>1, <2>1, <2>2, SafeTypes, CoveredStore
<1>8. PositionsCovered'
  BY <1>2, <1>3, <1>5, <1>6, <1>7 DEF PositionsCovered
<1>9. NothingMissing'
  BY <1>2, <1>3, <1>4, NothingMissingStill DEF SafeInv
<1>10. QueueComplete'
  <2>1. catchingUp' \/ ~catchingUp
    BY <1>2, SafeTypes
  <2> QED
    BY <1>2, <1>3, <1>4, <2>1, QueueCompleteStill DEF SafeInv
<1> QED
  BY <1>8, <1>9, <1>10 DEF SafeInv

(* The event that is handled is, or it is queued, or it was skipped. *)
LEMMA SafeHandle ==
    ASSUME TypeOK, TypeOK', BatchInv, PlaceInv, StageOrder, SafeInv, NEW e \in Events, FilterOut(e) \/ SendPdu(e)
    PROVE  SafeInv'
<1> USE EventFacts
<1>1. /\ stage[e] \in {"stored", "passed"} /\ stage' = [stage EXCEPT ![e] = "handled"]
      /\ UNCHANGED <<lastSent, lastCached, found, catchingUp, received, destRooms>>
      /\ pc' = pc \/ (pc = "off" /\ pc' = "limiter")
  BY DEF FilterOut, SendPdu, AttemptNewTransaction, catchUp, remote, tables
<1>2. stage'[e] = "handled" /\ \A f \in Events : f # e => stage'[f] = stage[f]
  BY <1>1, SafeTypes
<1>3. leftOut \subseteq leftOut'
  BY DEF FilterOut, SendPdu
<1>4. Ended \subseteq Ended'
  BY <1>1, <1>3 DEF Ended
<1>5. PositionsCovered'
  BY <1>1, <1>4, PositionsStill DEF SafeInv, PositionsCovered
<1>6. \A f \in Events : Within(f, Ended) => Within(f, Ended')
  BY <1>4 DEF Within
<1>7. NothingMissing'
  <2> SUFFICES ASSUME pc' = "decide", found' = <<>>
               PROVE  \A f \in Events : stage'[f] = "handled" =>
                        Within(f, Ended') \/ (lastCached' < f /\ f <= lastSkipped')
    BY DEF NothingMissing
  <2>1. pc = "decide" /\ found = <<>> /\ catchingUp /\ lastCached # None
    BY <1>1 DEF PlaceInv
  <2>2. \A f \in Events : stage[f] = "handled" => f < e
    BY <1>1 DEF StageOrder
  <2>3. CASE FilterOut(e)
    <3>1. e \in leftOut' /\ lastSkipped' = lastSkipped
      BY <2>1, <2>3 DEF FilterOut, catchUp
    <3>2. Within(e, Ended')
      BY <3>1 DEF Within, Ended
    <3> QED
      BY <1>1, <1>2, <1>6, <2>1, <3>1, <3>2 DEF SafeInv, NothingMissing
  <2>4. CASE SendPdu(e)
    <3>1. lastSkipped' = e
      BY <2>1, <2>4 DEF SendPdu
    <3>2. ASSUME e <= lastCached
          PROVE  Within(e, Ended)
      <4>1. destRooms[RoomOf[e]] = e
        BY <1>1 DEF BatchInv
      <4>2. Covered(lastCached, {}, destRooms, Ended)
        BY <2>1 DEF SafeInv, PositionsCovered
      <4>3. stage[e] # "new" /\ ~(destRooms[RoomOf[e]] > lastCached)
        BY <1>1, <3>2, <4>1, SafeTypes
      <4> QED
        BY <3>2, <4>2, <4>3 DEF Covered
    <3>3. Within(e, Ended') \/ lastCached < e
      BY <1>6, <3>2, SafeTypes
    <3>4. ASSUME NEW f \in Events, stage[f] = "handled"
          PROVE  Within(f, Ended') \/ (lastCached < f /\ f <= e)
      <4>1. Within(f, Ended) \/ lastCached < f
        BY <2>1, <3>4 DEF SafeInv, NothingMissing
      <4>2. f <= e
        BY <2>2, <3>4
      <4> QED
        BY <1>6, <4>1, <4>2
    <3> QED
      BY <1>1, <1>2, <3>1, <3>3, <3>4
  <2> QED
    BY <2>3, <2>4
<1>8. QueueComplete'
  <2> SUFFICES ASSUME ~catchingUp'
               PROVE  \A f \in Events : stage'[f] = "handled" =>
                        Within(f, Ended') \/ Within(f, Range(pending'))
    BY DEF QueueComplete
  <2>1. ~catchingUp
    BY <1>1
  <2>2. CASE FilterOut(e)
    <3>1. e \in leftOut' /\ pending' = pending
      BY <2>1, <2>2 DEF FilterOut
    <3>2. Within(e, Ended')
      BY <3>1 DEF Within, Ended
    <3> QED
      BY <1>2, <1>6, <2>1, <3>1, <3>2 DEF SafeInv, QueueComplete
  <2>3. CASE SendPdu(e)
    <3>1. pending' = Append(pending, e) /\ pending \in Seq(Events)
      BY <2>1, <2>3, SafeTypes DEF SendPdu
    <3>2. /\ Len(pending') = Len(pending) + 1 /\ Len(pending) \in Nat
          /\ \A i \in 1 .. Len(pending) : pending'[i] = pending[i]
          /\ pending'[Len(pending) + 1] = e
      BY <3>1, AppendProperties
    <3>3. DOMAIN pending' = 1 .. (Len(pending) + 1) /\ DOMAIN pending = 1 .. Len(pending)
      BY <3>1, <3>2
    <3>4. Range(pending) \subseteq Range(pending') /\ e \in Range(pending')
      BY <3>2, <3>3 DEF Range
    <3>5. Within(e, Range(pending'))
      BY <3>4 DEF Within
    <3>6. \A f \in Events : Within(f, Range(pending)) => Within(f, Range(pending'))
      BY <3>4 DEF Within
    <3> QED
      BY <1>2, <1>6, <2>1, <3>5, <3>6 DEF SafeInv, QueueComplete
  <2> QED
    BY <2>2, <2>3
<1> QED
  BY <1>5, <1>7, <1>8 DEF SafeInv

(* The sender dies: what it had in memory is where a catch-up finds it. *)
LEMMA SafeCrash ==
    ASSUME TypeOK, TypeOK', SafeInv, Crash
    PROVE  SafeInv'
<1>1. /\ \A e \in Events : stage'[e] = IF e <= outPos THEN stage[e] ELSE "new"
      /\ UNCHANGED <<lastSent, destRooms, received, leftOut>>
      /\ lastCached' = None /\ catchingUp' = TRUE /\ pc' = "off" /\ found' = <<>>
  BY DEF Crash, LoopEnds, tables, remote, history
<1>2. Ended' = Ended
  BY <1>1 DEF Ended
<1>3. Range(found') = {}
  BY <1>1 DEF Range
<1>4. PositionsCovered'
  BY <1>1, <1>2, <1>3, PositionsStill DEF SafeInv, PositionsCovered
<1> QED
  BY <1>1, <1>4 DEF SafeInv, NothingMissing, QueueComplete

(* The position is loaded from the database. *)
LEMMA SafeLoad ==
    ASSUME TypeOK, TypeOK', lastSent # None, SafeInv, LoadLastSent
    PROVE  SafeInv'
<1>1. /\ UNCHANGED <<destRooms, stage, received, leftOut, lastSent, lastSkipped, found, pending>>
      /\ lastCached' = lastSent /\ catchingUp' = TRUE /\ pc' # "decide"
  BY DEF LoadLastSent, tables, sender, remote, history
<1>2. Ended' = Ended
  BY <1>1 DEF Ended
<1>3. PositionsCovered'
  BY <1>1, <1>2, PositionsStill DEF SafeInv, PositionsCovered
<1> QED
  BY <1>1, <1>3 DEF SafeInv, NothingMissing, QueueComplete

(* A query finds what is above a covered position. *)
LEMMA SafeQuery ==
    ASSUME TypeOK, TypeOK', BatchInv, PlaceInv, Ordered(destRooms), SafeInv, Query
    PROVE  SafeInv'
<1> DEFINE U == {destRooms[r] : r \in {q \in Rooms : destRooms[q] > lastCached}}
<1>1. /\ UNCHANGED <<destRooms, stage, received, leftOut, lastSent, lastCached, lastSkipped, pending, catchingUp>>
      /\ pc = "query" /\ pc' = "decide"
  BY DEF Query, tables, sender, remote, history
<1>2. catchingUp /\ lastCached # None /\ Covered(lastCached, {}, destRooms, Ended)
  BY <1>1 DEF PlaceInv, SafeInv, PositionsCovered
<1>3. Ended' = Ended
  BY <1>1 DEF Ended
<1>4. /\ Range(found') \subseteq U
      /\ found' = <<>> => U = {}
      /\ \A h \in Range(found'), u \in U : u <= h => u \in Range(found')
  BY QueryFacts
<1>5. \A r \in Rooms : destRooms[r] # None => RoomOf[destRooms[r]] = r
  BY DEF BatchInv
<1>6. PICK V : V = U
  OBVIOUS
<1>7. \A h \in Range(found') : Covered(h, Range(found'), destRooms, Ended)
  BY <1>2, <1>4, <1>5, <1>6, CoveredQuery, SafeTypes
<1>8. PositionsCovered'
  BY <1>1, <1>3, <1>7, PositionsStill DEF SafeInv, PositionsCovered
<1>9. ASSUME found' = <<>>, NEW e \in Events, stage[e] = "handled"
      PROVE  Within(e, Ended)
  <2>1. U = {} /\ destRooms[RoomOf[e]] \in Nat /\ RoomOf[e] \in Rooms
    BY <1>4, <1>9, EventFacts, BatchTypes
  <2>2. ~(destRooms[RoomOf[e]] > lastCached)
    BY <2>1
  <2>3. destRooms[RoomOf[e]] >= e
    BY <1>9 DEF BatchInv
  <2>4. e <= lastCached
    BY <2>1, <2>2, <2>3, SafeTypes, EventFacts
  <2> QED
    BY <1>2, <1>9, <2>2, <2>4 DEF Covered
<1>10. NothingMissing'
  BY <1>1, <1>3, <1>9 DEF NothingMissing
<1> HIDE DEF U
<1> QED
  BY <1>1, <1>2, <1>8, <1>10 DEF SafeInv, QueueComplete

(* Nothing was found and nothing skipped since: the queue takes over. *)
LEMMA SafeCaughtUp ==
    ASSUME TypeOK, TypeOK', SafeInv, CaughtUp
    PROVE  SafeInv'
<1>1. /\ UNCHANGED <<destRooms, stage, received, leftOut, lastSent, lastCached, lastSkipped, pending, found>>
      /\ pc = "decide" /\ pc' = "collect" /\ found = <<>> /\ lastSkipped <= lastCached
  BY DEF CaughtUp, tables, sender, remote, history
<1>2. Ended' = Ended
  BY <1>1 DEF Ended
<1>3. PositionsCovered'
  BY <1>1, <1>2, PositionsStill DEF SafeInv, PositionsCovered
<1>4. \A e \in Events : stage[e] = "handled" => Within(e, Ended)
  BY <1>1, SafeTypes, EventFacts DEF SafeInv, NothingMissing
<1> QED
  BY <1>1, <1>2, <1>3, <1>4 DEF SafeInv, NothingMissing, QueueComplete

(* The first event of the catch-up has reached the destination ... *)
LEMMA SafeCatchUpSent ==
    ASSUME TypeOK, TypeOK', PlaceInv, LoopInv, Increasing(found), SafeInv, CatchUpSent
    PROVE  SafeInv'
<1>1. /\ UNCHANGED <<destRooms, stage, received, leftOut, lastSent, lastSkipped, pending, found, catchingUp>>
      /\ pc = "answered" /\ pc' = "recordCatchUp" /\ catchingUp /\ lastCached' = Head(found)
  BY DEF CatchUpSent, tables, sender, remote, history
<1>2. Ended' = Ended
  BY <1>1 DEF Ended
<1>3. found # <<>>
  BY <1>1 DEF PlaceInv
<1>4. Head(found) \in Range(found) /\ Range(found) \subseteq Events /\ Head(found) = found[1] /\ 1 \in DOMAIN found
  BY <1>3, RangeEvents, SafeTypes
<1>5. Within(Head(found), Ended)
  BY <1>1 DEF LoopInv, Within, Ended
<1>6. \A g \in Range(found) : g >= Head(found)
  <2>1. \A i \in DOMAIN found : i \in Nat /\ i >= 1 /\ found[i] \in Nat
    <3>1. DOMAIN found = 1 .. Len(found) /\ Len(found) \in Nat
      BY DEF TypeOK
    <3>2. \A i \in DOMAIN found : found[i] \in Events
      BY SafeTypes, RangeEvents
    <3> QED
      BY <3>1, <3>2, EventFacts
  <2>2. \A i \in DOMAIN found : found[i] >= found[1]
    BY <1>4, <2>1 DEF Increasing
  <2> QED
    BY <1>4, <2>2 DEF Range
<1>7. Covered(Head(found), {}, destRooms, Ended)
  BY <1>4, <1>5, <1>6, CoveredHead, SafeTypes DEF SafeInv, PositionsCovered
<1>8. PositionsCovered'
  BY <1>1, <1>2, <1>7, PositionsStill DEF SafeInv, PositionsCovered
<1> QED
  BY <1>1, <1>8 DEF SafeInv, NothingMissing, QueueComplete

(* ... and its position is recorded. *)
LEMMA SafeRecordCatchUp ==
    ASSUME TypeOK, TypeOK', PlaceInv, LoopInv, SafeInv, RecordCatchUp
    PROVE  SafeInv'
<1>1. /\ UNCHANGED <<destRooms, stage, received, leftOut, lastSkipped, lastCached, pending, catchingUp>>
      /\ pc = "recordCatchUp" /\ pc' # "decide" /\ lastSent' = lastCached /\ found' = Tail(found)
  BY DEF RecordCatchUp, sender, remote, history
<1>2. Ended' = Ended
  BY <1>1 DEF Ended
<1>3. found # <<>> /\ catchingUp /\ lastCached # None
  BY <1>1 DEF PlaceInv
<1>4. Within(Head(found), Ended)
  BY <1>1 DEF LoopInv, Within, Ended
<1>5. Head(found) \in Range(found) /\ Range(found) \subseteq Events /\ Head(found) = found[1]
  BY <1>3, RangeEvents, SafeTypes
<1>6. Range(Tail(found)) \subseteq Range(found) /\ Range(found) \subseteq Range(Tail(found)) \cup {Head(found)}
  <2> DEFINE n == Len(found)
             t == Tail(found)
  <2>1. found \in Seq(Events)
    BY DEF TypeOK
  <2>2. t \in Seq(Events) /\ Len(t) = n - 1 /\ \A i \in 1 .. Len(t) : t[i] = found[i + 1]
    BY <1>3, <2>1, HeadTailProperties
  <2>3. n \in Nat /\ DOMAIN found = 1 .. n /\ DOMAIN t = 1 .. (n - 1) /\ \A i \in 1 .. (n - 1) : t[i] = found[i + 1]
    BY <2>1, <2>2
  <2> HIDE DEF n, t
  <2>4. \A i \in DOMAIN t : i + 1 \in DOMAIN found /\ t[i] = found[i + 1]
    BY <2>3
  <2>5. \A i \in DOMAIN found : i = 1 \/ (i - 1 \in DOMAIN t /\ t[i - 1] = found[i])
    BY <2>3
  <2>6. Range(t) \subseteq Range(found)
    BY <2>4 DEF Range
  <2>7. Range(found) \subseteq Range(t) \cup {Head(found)}
    BY <1>5, <2>5 DEF Range
  <2> QED
    BY <2>6, <2>7 DEF t
<1>7. \A h \in Range(found') : Covered(h, Range(found'), destRooms, Ended)
  BY <1>1, <1>4, <1>5, <1>6, CoveredTail, SafeTypes DEF SafeInv, PositionsCovered
<1>8. PositionsCovered'
  BY <1>1, <1>2, <1>3, <1>7, PositionsStill DEF SafeInv, PositionsCovered
<1> QED
  BY <1>1, <1>3, <1>8 DEF SafeInv, NothingMissing, QueueComplete

(* A transaction is off the queue: the destination has its events. *)
LEMMA SafeSent ==
    ASSUME TypeOK, TypeOK', LoopInv, SafeInv, TransactionSent
    PROVE  SafeInv'
<1>1. /\ UNCHANGED <<destRooms, stage, received, leftOut, lastSent, lastSkipped, lastCached, found, catchingUp>>
      /\ pc = "answered" /\ pc' # "decide" /\ ~catchingUp /\ pending' = After(pending, Len(txn))
  BY DEF TransactionSent, AfterMessages, After, tables, sender, catchUp, remote, history
<1>2. Ended' = Ended
  BY <1>1 DEF Ended
<1>3. Begins(txn, pending) /\ Range(txn) \subseteq received
  BY <1>1 DEF LoopInv
<1>4. Range(pending) \subseteq Range(txn) \cup Range(pending')
  <2>1. pending \in Seq(Events) /\ txn \in Seq(Events)
    BY DEF TypeOK
  <2> QED
    BY <1>1, <1>3, <2>1, QueueSplit
<1>5. Range(pending) \subseteq Range(pending') \cup Ended'
  BY <1>2, <1>3, <1>4 DEF Ended
<1>6. PositionsCovered'
  BY <1>1, <1>2, PositionsStill DEF SafeInv, PositionsCovered
<1>7. QueueComplete'
  BY <1>1, <1>2, <1>5, QueueCompleteStill DEF SafeInv
<1> QED
  BY <1>1, <1>6, <1>7 DEF SafeInv, NothingMissing

(* What is up to the last event sent has been sent or is queued behind it. *)
LEMMA SafeRecordSent ==
    ASSUME TypeOK, TypeOK', BatchInv, PlaceInv, LoopInv, OrderInv, SafeInv, RecordSent
    PROVE  SafeInv'
<1> USE EventFacts
<1>1. /\ UNCHANGED <<destRooms, stage, received, leftOut, lastSkipped, lastCached, pending, found, catchingUp>>
      /\ pc = "recording" /\ pc' = "collect" /\ lastSent' = Last(txn)
  BY DEF RecordSent, sender, catchUp, remote, history
<1>2. Ended' = Ended
  BY <1>1 DEF Ended
<1>3. ~catchingUp /\ txn # <<>>
  BY <1>1 DEF PlaceInv
<1>4. PICK t \in Events : t = Last(txn) /\ t \in Range(txn)
  BY <1>3, RangeEvents, SafeTypes
<1>5. stage[t] = "handled" /\ t \in received /\ \A f \in Range(pending) : t < f
  BY <1>1, <1>4 DEF LoopInv, OrderInv, QueueOrder
<1>6. Within(t, Ended)
  BY <1>5 DEF Within, Ended
<1>7. ASSUME NEW e \in Events, e <= t, ~Within(e, Ended)
      PROVE  destRooms[RoomOf[e]] > t
  <2>1. stage[e] = "handled"
    BY <1>5, <1>7 DEF OrderInv, StageOrder
  <2>2. PICK f \in Range(pending) : RoomOf[f] = RoomOf[e] /\ f >= e
    BY <1>3, <1>7, <2>1 DEF SafeInv, QueueComplete, Within
  <2>3. f \in Events /\ stage[f] = "handled" /\ t < f
    BY <1>5, <2>2, SafeTypes DEF LoopInv
  <2>4. destRooms[RoomOf[f]] >= f
    BY <2>3 DEF BatchInv
  <2>5. destRooms[RoomOf[e]] \in Nat /\ destRooms[RoomOf[e]] >= f
    BY <2>2, <2>4, BatchTypes
  <2> QED
    BY <2>3, <2>5
<1>8. Covered(t, {}, destRooms, Ended)
  BY <1>6, <1>7 DEF Covered
<1>9. PositionsCovered'
  BY <1>1, <1>2, <1>4, <1>8, PositionsStill DEF SafeInv, PositionsCovered
<1>10. QueueComplete'
  BY <1>1, <1>2, <1>3 DEF SafeInv, QueueComplete
<1> QED
  BY <1>1, <1>9, <1>10 DEF SafeInv, NothingMissing

(* A step of the handling or of the loop keeps what is safe. *)
LEMMA SafeKept ==
    ASSUME TypeOK, TypeOK', BatchInv, PlaceInv, LoopInv, Increasing(found), OrderInv, SafeInv,
           lastSent # None, [Next]_vars, inOrder'
    PROVE  SafeInv'
<1> USE DEF tables, sender, catchUp, transaction, remote, history
<1>1. CASE Persist \/ NotifyOther \/ AddMessage \/ BackoffGrows \/ BackoffClears \/ TimePasses \/ StartBatch \/ FinishBatch
  <2>1. UNCHANGED <<destRooms, stage, lastSent, lastCached, lastSkipped, found, received, leftOut, pc, catchingUp, pending>>
    BY <1>1 DEF Persist, NotifyOther, AddMessage, BackoffGrows, BackoffClears, TimePasses, StartBatch, FinishBatch
  <2> QED
    BY <2>1, SafeQuiet DEF Ended
<1>2. CASE Poke \/ WakeDestination
  <2>1. /\ UNCHANGED <<destRooms, stage, lastSent, lastCached, lastSkipped, found, received, leftOut, catchingUp, pending>>
        /\ pc' = pc \/ pc' = "limiter"
    BY <1>2 DEF Poke, WakeDestination, AttemptNewTransaction
  <2> QED
    BY <2>1, SafeQuiet DEF Ended
<1>3. ASSUME NEW e \in Events, StoreEntry(e)
      PROVE  SafeInv'
  BY <1>3, SafeStore DEF OrderInv
<1>4. ASSUME NEW e \in Events, Pass(e)
      PROVE  SafeInv'
  <2>1. /\ UNCHANGED <<destRooms, lastSent, lastCached, lastSkipped, found, received, leftOut, pc, catchingUp, pending>>
        /\ stage[e] = "stored" /\ stage' = [stage EXCEPT ![e] = "passed"]
    BY <1>4 DEF Pass
  <2>2. \A f \in Events : stage'[f] = "handled" => stage[f] = "handled"
    BY <2>1, SafeTypes
  <2>3. Ended' = Ended
    BY <2>1 DEF Ended
  <2>4. PositionsCovered'
    BY <2>1, <2>2, <2>3, PositionsStill DEF SafeInv, PositionsCovered
  <2>5. NothingMissing'
    BY <2>1, <2>2, <2>3, NothingMissingStill DEF SafeInv
  <2>6. QueueComplete'
    BY <2>1, <2>2, <2>3, SafeTypes, QueueCompleteStill DEF SafeInv
  <2> QED
    BY <2>4, <2>5, <2>6 DEF SafeInv
<1>5. ASSUME NEW e \in Events, FilterOut(e) \/ SendPdu(e)
      PROVE  SafeInv'
  BY <1>5, SafeHandle DEF OrderInv
<1>6. CASE Crash
  BY <1>6, SafeCrash
<1>7. CASE NotRetrying
  <2>1. /\ UNCHANGED <<destRooms, stage, lastSent, lastCached, lastSkipped, received, leftOut>>
        /\ found' = <<>> /\ pc' = "off" /\ (catchingUp' \/ UNCHANGED <<catchingUp, pending>>)
    BY <1>7 DEF NotRetrying, StartCatchingUp, LoopEnds
  <2> QED
    BY <2>1, SafeQuiet DEF Ended
<1>8. CASE LoopFails
  <2>1. /\ UNCHANGED <<destRooms, stage, lastSent, lastCached, lastSkipped, received, leftOut, catchingUp, pending>>
        /\ found' = <<>> /\ pc' = "off"
    BY <1>8 DEF LoopFails, LoopEnds
  <2> QED
    BY <2>1, SafeQuiet DEF Ended
<1>9. CASE Allowed \/ QueryAgain \/ ChooseCatchUpPdus \/ Collect \/ ReadMessages \/ SendTransaction \/ DeleteMessages
  <2>1. /\ UNCHANGED <<destRooms, stage, lastSent, lastCached, lastSkipped, found, received, leftOut, catchingUp, pending>>
        /\ pc' # "decide"
    BY <1>9 DEF Allowed, QueryAgain, ChooseCatchUpPdus, Collect, ReadMessages, SendTransaction, DeleteMessages, AfterMessages
  <2> QED
    BY <2>1, SafeQuiet DEF Ended
<1>10. CASE NothingToSend
  <2>1. /\ UNCHANGED <<destRooms, stage, lastSent, lastCached, lastSkipped, received, leftOut, catchingUp, pending>>
        /\ (found' = found \/ found' = <<>>) /\ pc' # "decide"
    BY <1>10 DEF NothingToSend, LoopEnds
  <2> QED
    BY <2>1, SafeQuiet DEF Ended
<1>11. CASE Deliver
  <2>1. /\ UNCHANGED <<destRooms, stage, lastSent, lastCached, lastSkipped, found, leftOut, catchingUp, pending>>
        /\ pc' # "decide" /\ received \subseteq received'
    BY <1>11 DEF Deliver
  <2>2. Ended \subseteq Ended'
    BY <2>1 DEF Ended
  <2> QED
    BY <2>1, <2>2, SafeQuiet
<1>12. CASE Behind
  <2>1. /\ UNCHANGED <<destRooms, stage, lastSent, lastCached, lastSkipped, found, received, leftOut>>
        /\ pc' # "decide" /\ (catchingUp' \/ UNCHANGED <<catchingUp, pending>>)
    BY <1>12 DEF Behind, StartCatchingUp
  <2> QED
    BY <2>1, SafeQuiet DEF Ended
<1>13. CASE LoadLastSent
  BY <1>13, SafeLoad
<1>14. CASE Query
  BY <1>14, SafeQuery DEF OrderInv
<1>15. CASE CaughtUp
  BY <1>15, SafeCaughtUp
<1>16. CASE CatchUpSent
  BY <1>16, SafeCatchUpSent
<1>17. CASE RecordCatchUp
  BY <1>17, SafeRecordCatchUp
<1>18. CASE TransactionSent
  BY <1>18, SafeSent
<1>19. CASE RecordSent
  BY <1>19, SafeRecordSent
<1>20. CASE UNCHANGED vars
  <2>1. UNCHANGED <<destRooms, stage, lastSent, lastCached, lastSkipped, found, received, leftOut, pc, catchingUp, pending>>
    BY <1>20 DEF vars
  <2> QED
    BY <2>1, SafeQuiet DEF Ended
<1> QED
  BY <1>1, <1>2, <1>3, <1>4, <1>5, <1>6, <1>7, <1>8, <1>9, <1>10, <1>11, <1>12, <1>13, <1>14, <1>15,
     <1>16, <1>17, <1>18, <1>19, <1>20 DEF Next, Handle, Loop

(* What a query found stays in order, and a known destination stays known. *)
LEMMA FoundKept ==
    ASSUME TypeOK, PlaceInv, Increasing(found), known => lastSent # None, [Next]_vars
    PROVE  Increasing(found)' /\ (known => lastSent # None)'
<1> USE DEF tables, catchUp, history, transaction
<1>0. known' = known
  BY InOrderKept
<1>1. CASE (found' = found \/ found' = <<>>) /\ lastSent' = lastSent
  BY <1>0, <1>1 DEF Increasing
<1>2. CASE Query
  <2>1. Increasing(found') /\ lastSent' = lastSent
    BY <1>2, QueryFacts DEF Query
  <2> QED
    BY <1>0, <2>1 DEF Increasing
<1>3. CASE RecordCatchUp
  <2>1. lastSent' # None /\ found # <<>> /\ found' = Tail(found)
    BY <1>3 DEF RecordCatchUp, PlaceInv
  <2> DEFINE n == Len(found)
  <2>2. found \in Seq(Events)
    BY DEF TypeOK
  <2>3. found' \in Seq(Events) /\ Len(found') = n - 1 /\ \A i \in 1 .. Len(found') : found'[i] = found[i + 1]
    BY <2>1, <2>2, HeadTailProperties
  <2>4. n \in Nat /\ DOMAIN found = 1 .. n /\ DOMAIN found' = 1 .. (n - 1) /\ \A i \in 1 .. (n - 1) : found'[i] = found[i + 1]
    BY <2>2, <2>3
  <2> HIDE DEF n
  <2>5. Increasing(found')
    <3>1. ASSUME NEW i \in DOMAIN found', NEW j \in DOMAIN found', i < j
          PROVE  found'[i] < found'[j]
      <4>1. i + 1 \in DOMAIN found /\ j + 1 \in DOMAIN found /\ i + 1 < j + 1
        BY <2>4, <3>1
      <4>2. found'[i] = found[i + 1] /\ found'[j] = found[j + 1]
        BY <2>4
      <4> QED
        BY <4>1, <4>2 DEF Increasing
    <3> QED
      BY <3>1 DEF Increasing
  <2> QED
    BY <2>1, <2>5 DEF Increasing
<1>4. CASE RecordSent
  <2>1. txn # <<>> /\ txn \in Seq(Events) /\ lastSent' = Last(txn) /\ found' = found
    BY <1>4 DEF RecordSent, PlaceInv, TypeOK
  <2>2. Last(txn) \in Events
    BY <2>1, RangeEvents
  <2>3. lastSent' # None
    BY <2>1, <2>2, EventFacts
  <2> QED
    BY <2>1, <2>3 DEF Increasing
<1>5. CASE Persist \/ NotifyOther \/ AddMessage \/ Poke \/ WakeDestination \/ LoopFails \/ BackoffGrows \/ BackoffClears \/ TimePasses \/ Crash
  <2>1. (found' = found \/ found' = <<>>) /\ lastSent' = lastSent
    BY <1>5 DEF Persist, NotifyOther, AddMessage, Poke, WakeDestination, LoopFails, BackoffGrows, BackoffClears, TimePasses, Crash, LoopEnds
  <2> QED
    BY <1>1, <2>1
<1>6. CASE Handle
  <2>1. found' = found /\ lastSent' = lastSent
    BY <1>6 DEF Handle, StartBatch, FinishBatch, StoreEntry, Pass, FilterOut, SendPdu
  <2> QED
    BY <1>1, <2>1
<1>7. CASE \/ NotRetrying \/ Allowed \/ LoadLastSent \/ QueryAgain \/ CaughtUp \/ Behind \/ ChooseCatchUpPdus \/ CatchUpSent
           \/ Collect \/ ReadMessages \/ NothingToSend \/ SendTransaction \/ Deliver \/ TransactionSent \/ DeleteMessages
  <2>1. (found' = found \/ found' = <<>>) /\ lastSent' = lastSent
    BY <1>7 DEF NotRetrying, Allowed, LoadLastSent, QueryAgain, CaughtUp, Behind, ChooseCatchUpPdus, CatchUpSent,
           Collect, ReadMessages, NothingToSend, SendTransaction, Deliver, TransactionSent, DeleteMessages, LoopEnds
  <2> QED
    BY <1>1, <2>1
<1>8. CASE UNCHANGED vars
  BY <1>1, <1>8 DEF vars
<1> QED
  BY <1>2, <1>3, <1>4, <1>5, <1>6, <1>7, <1>8 DEF Next, Loop
--------------------------------------------------------------------------------
(***************************************************************************)
(* The theorems.                                                           *)
(***************************************************************************)

(* The invariant holds at the start. *)
LEMMA InitIInv == Init => IInv
<1> SUFFICES ASSUME Init
             PROVE  IInv
  OBVIOUS
<1> USE EventFacts, BoundsAssumption
<1>1. TypeOK
  <2>1. /\ persisted \in Start .. MaxEvent /\ outPos \in Start .. MaxEvent
        /\ messages \in 0 .. MaxMessage /\ lastDevice \in 0 .. MaxMessage /\ upTo \in 0 .. MaxMessage
    BY DEF Init
  <2>2. lastSent \in Events \cup {None, Start}
    BY StartAssumption DEF Init
  <2>3. pending \in Seq(Events) /\ found \in Seq(Events) /\ txn \in Seq(Events)
    BY NoEvents DEF Init
  <2>4. faults \in [failures : 0 .. MaxFailures, backoffs : 0 .. MaxBackoffs, crashes : 0 .. MaxCrashes]
    BY DEF Init
  <2>5. backoff \in Backoffs /\ pc \in PcValues /\ stage \in [Events -> Stages]
    BY DEF Init, Backoffs, PcValues, Stages
  <2>6. destRooms \in [Rooms -> Events \cup {None}] /\ known \in BOOLEAN
    BY DEF Init
  <2>7. lastPoked \in None .. MaxEvent
    BY <2>1 DEF Init, None, Start
  <2> QED
    BY <2>1, <2>2, <2>3, <2>4, <2>5, <2>6, <2>7 DEF Init, TypeOK
<1>2. BatchInv
  BY DEF Init, BatchInv
<1>3. PlaceInv
  BY DEF Init, PlaceInv
<1>4. Range(found) = {} /\ Range(pending) = {}
  BY DEF Init, Range
<1>5. LoopInv
  BY <1>4 DEF Init, LoopInv
<1>6. MessageInv
  BY DEF Init, MessageInv, MessagesKept
<1>7. Increasing(found) /\ Increasing(pending)
  BY DEF Init, Increasing
<1>8. OrderInv
  <2>1. Ordered(destRooms)
    BY DEF Init, Ordered
  <2> QED
    BY <1>7, <2>1 DEF Init, OrderInv, StageOrder, QueueOrder
<1>9. SafeInv
  <2>1. lastSent \in {0, 1}
    BY StartAssumption DEF Init
  <2>2. Covered(lastSent, {}, destRooms, Ended)
    BY <2>1 DEF Covered
  <2> QED
    BY <1>4, <2>2 DEF Init, SafeInv, PositionsCovered, NothingMissing, QueueComplete
<1>10. known => lastSent # None
  BY DEF Init
<1> QED
  BY <1>1, <1>2, <1>3, <1>5, <1>6, <1>7, <1>8, <1>9, <1>10 DEF IInv

(* Every step keeps the invariant. *)
LEMMA NextIInv == IInv /\ [Next]_vars => IInv'
<1> SUFFICES ASSUME IInv, [Next]_vars
             PROVE  IInv'
  OBVIOUS
<1>1. TypeOK /\ BatchInv /\ PlaceInv /\ LoopInv /\ MessageInv
  BY DEF IInv
<1>2. TypeOK'
  <2>1. CASE UNCHANGED vars
    BY <1>1, <2>1 DEF vars, TypeOK, tables, sender, catchUp, transaction, remote, history
  <2>2. CASE Loop \/ LoopFails
    BY <1>1, <2>2, TypeKeptLoop
  <2>3. CASE Next /\ ~(Loop \/ LoopFails)
    BY <1>1, <2>3, TypeKeptHandling DEF Next
  <2> QED
    BY <2>1, <2>2, <2>3
<1>3. BatchInv' /\ PlaceInv' /\ LoopInv' /\ MessageInv'
  BY <1>1, <1>2, BatchKept, PlaceKept, LoopKept, MessageKept
<1>4. Increasing(found)' /\ (known => lastSent # None)'
  BY <1>1, FoundKept DEF IInv
<1>5. (inOrder' => inOrder) /\ known' = known
  BY InOrderKept
<1>6. ASSUME inOrder'
      PROVE  OrderInv'
  <2>1. OrderInv
    BY <1>5, <1>6 DEF IInv
  <2> QED
    BY <1>1, <1>2, <1>6, <2>1, StageOrderKept, QueueOrderKept DEF OrderInv
<1>7. ASSUME known', inOrder'
      PROVE  SafeInv'
  <2>1. OrderInv /\ SafeInv /\ lastSent # None /\ Increasing(found)
    BY <1>5, <1>7 DEF IInv
  <2> QED
    BY <1>1, <1>2, <1>7, <2>1, SafeKept
<1> QED
  BY <1>2, <1>3, <1>4, <1>6, <1>7 DEF IInv

(***************************************************************************)
(* The variables keep their types: the batch ends at an event that exists, *)
(* and what is recorded as sent is one.                                    *)
(***************************************************************************)
THEOREM TypeCorrect == Spec => []TypeOK
<1>1. IInv => TypeOK
  BY DEF IInv
<1> QED
  BY <1>1, InitIInv, NextIInv, PTL DEF Spec

(***************************************************************************)
(* _TransactionQueueManager deletes no to-device message from the outbox   *)
(* that the destination does not have, whatever is added meanwhile.        *)
(***************************************************************************)
THEOREM MessagesStay == Spec => []MessagesKept
<1>1. IInv => MessagesKept
  BY DEF IInv, MessageInv
<1> QED
  BY <1>1, InitIInv, NextIInv, PTL DEF Spec

(***************************************************************************)
(* No event that is handled in order is lost: it has reached the           *)
(* destination, is queued, or its room has an entry above the position     *)
(* that the next catch-up starts from.                                     *)
(***************************************************************************)
THEOREM NothingLost == Spec => []NoLoss
<1>1. IInv => NoLoss
  <2> SUFFICES ASSUME IInv, known, inOrder, NEW e \in Events, e <= outPos
               PROVE  Accounted(e) \/ Missed(e)
    BY DEF NoLoss
  <2> USE EventFacts
  <2>1. TypeOK /\ BatchInv /\ SafeInv /\ lastSent # None
    BY DEF IInv
  <2>2. stage[e] = "handled" /\ destRooms[RoomOf[e]] >= e
    BY <2>1 DEF BatchInv
  <2>3. destRooms[RoomOf[e]] \in Nat
    BY <2>1, BatchTypes
  <2>4. Within(e, Ended) => Reached(e) \/ Missed(e)
    BY DEF Within, Ended, Reached, Missed
  <2>5. CASE ~catchingUp
    <3>1. Within(e, Ended) \/ Queued(e)
      BY <2>1, <2>2, <2>5 DEF SafeInv, QueueComplete, Within, Queued
    <3> QED
      BY <2>4, <3>1 DEF Accounted
  <2>6. CASE catchingUp
    <3> DEFINE x == IF lastCached = None THEN lastSent ELSE lastCached
    <3>1. Covered(x, {}, destRooms, Ended) /\ x \in Nat
      BY <2>1, SafeTypes DEF SafeInv, PositionsCovered
    <3>2. Within(e, Ended) \/ destRooms[RoomOf[e]] > x
      BY <2>2, <2>3, <3>1 DEF Covered
    <3> QED
      BY <2>2, <2>4, <2>6, <3>2 DEF Accounted, Findable
  <2> QED
    BY <2>5, <2>6
<1> QED
  BY <1>1, InitIInv, NextIInv, PTL DEF Spec
================================================================================
