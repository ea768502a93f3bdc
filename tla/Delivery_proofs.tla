----------------------------- MODULE Delivery_proofs -----------------------------
(***************************************************************************)
(* Two components that share no state.                                     *)
(*                                                                         *)
(* Delayed events (DelayedEvents): a delayed event has one outcome, a      *)
(* change of its state cancels it, and a timer is set for what waits, for  *)
(* any number of events, requests and senders.                             *)
(*                                                                         *)
(* The application services (AppServiceScheduler, from AppInv on): every   *)
(* event is delivered, stored in a transaction or in memory, a stored      *)
(* transaction is looked after, and no service gets events out of order,   *)
(* for any set of services, any batch size and any number of events and    *)
(* faults.                                                                 *)
(***************************************************************************)
EXTENDS Delivery, FiniteSetTheorems, SequenceTheorems, WellFoundedInduction, TLAPS

Processes == Clients \cup Senders
Sending == {"send", "timeout", "initial"}

(* The places in the list of c whose event is yet to be sent. *)
Undone(c) ==
    {i \in DOMAIN c.list : /\ c.op \in Sending
                           /\ c.pc # "idle"
                           /\ c.pc \in {"delete", "purge"} => i > 1}
Holds(c) == {c.list[i] : i \in Undone(c)}

(* A process that sends has a list, in which nothing occurs twice. *)
Working(c) ==
    /\ c.pc \in {"send", "delete", "purge"} => c.op \in Sending /\ c.list # <<>>
    /\ \A i, j \in DOMAIN c.list : c.list[i] = c.list[j] => i = j

AllWorking == \A p \in Processes : Working(proc[p])

(* An event is sent by one process. *)
OneHolder ==
    \A p, q \in Processes : p # q => Holds(proc[p]) \cap Holds(proc[q]) \subseteq again

Held(e) == \E p \in Processes : e \in Holds(proc[p])

(* What has become of an event, by the status of its row. *)
Ledger ==
    \A e \in Events \ again :
        /\ sent[e] <= 1
        /\ Held(e) => sent[e] = 0 /\ e \notin cancelled /\ row[e].status \in {"processed", "gone"}
        /\ row[e].status \in {"none", "waiting"} => sent[e] = 0
        /\ e \in cancelled => row[e].status = "gone" /\ sent[e] = 0

(* The deltas whose victims have been cancelled. *)
Handled ==
    CASE watch.pc = "txn"   -> watch.i - 1
      [] watch.pc = "reply" -> watch.i
      [] OTHER              -> eventPos

Watched ==
    /\ watch.pc \in {"txn", "reply"} => eventPos < watch.i
    /\ \A e \in WithStatus(row, "waiting") \ again :
         \A i \in (born[e] + 1) .. Handled : ~Hits(deltas[i], e)

IInv == TypeOK /\ AllWorking /\ OneHolder /\ Ledger /\ Watched

Rows == [Events -> [status : {"none", "waiting", "processed", "gone"}, ts : Times]]
--------------------------------------------------------------------------------
(***************************************************************************)
(* What the transactions return.                                           *)
(***************************************************************************)

NatLess == {ss \in Nat \X Nat : ss[1] < ss[2]}

(* The usual order of the naturals, as a relation, is well-founded. *)
LEMMA NatLessWellFounded == IsWellFoundedOn(NatLess, Nat)
<1>1. OpToRel(<, Nat) = NatLess
  BY Zenon DEF OpToRel, NatLess
<1>2. QED
  BY <1>1, NatLessThanWellFounded, Zenon

(* Min chooses an element of a non-empty set of naturals. *)
LEMMA MinElement ==
    ASSUME NEW S, S \subseteq Nat, S # {}
    PROVE  Min(S) \in S
<1>1. PICK x \in S : \A y \in S : ~(<<y, x>> \in NatLess)
  BY NatLessWellFounded, WFMin, Zenon
<1>2. \A y \in S : x <= y
  <2>1. \A y, z \in Nat : y < z => <<y, z>> \in NatLess
    BY DEF NatLess
  <2>2. \A y \in S : ~(y < x)
    BY <1>1, <2>1
  <2> QED
    BY <2>2
<1> QED
  BY <1>2 DEF Min

(* The next send time is a time of the clock, or None. *)
LEMMA NextSendTsType ==
    ASSUME EventsAssumption, NEW r \in Rows
    PROVE  NextSendTs(r) \in Times
<1> DEFINE W == WithStatus(r, "waiting")
           S == {r[e].ts : e \in W}
<1>1. W \subseteq Events
  BY DEF WithStatus
<1>2. None \in Times
  BY DEF None, Times, EventsAssumption
<1>3. ASSUME W # {}
      PROVE  Min(S) \in Times
  <2>1. S # {}
    BY <1>3
  <2>2. \A e \in W : r[e].ts \in Times
    BY <1>1 DEF Rows
  <2>3. S \subseteq Times
    BY <2>2
  <2>4. S \subseteq Nat
    BY <2>3 DEF Times, EventsAssumption
  <2> QED
    BY <2>1, <2>3, <2>4, MinElement
<1> QED
  BY <1>2, <1>3 DEF NextSendTs

(* A listing of a finite set of events holds each of them once. *)
LEMMA ListingFacts ==
    ASSUME EventsAssumption, NEW S \in SUBSET Events, NEW list \in SetToSeqs(S)
    PROVE  /\ list \in Seq(Events)
           /\ \A i \in DOMAIN list : list[i] \in S
           /\ \A i, j \in DOMAIN list : list[i] = list[j] => i = j
<1>1. IsFiniteSet(S)
  BY FS_Subset DEF EventsAssumption
<1>2. Cardinality(S) \in Nat
  BY <1>1, FS_CardinalityType
<1>3. list \in [1 .. Cardinality(S) -> S]
  BY DEF SetToSeqs, IsInjective
<1>4. \A i, j \in DOMAIN list : list[i] = list[j] => i = j
  BY DEF SetToSeqs, IsInjective
<1>5. list \in Seq(Events)
  BY <1>2, <1>3
<1> QED
  BY <1>3, <1>4, <1>5
--------------------------------------------------------------------------------
(***************************************************************************)
(* The conjuncts, under what a step changes.                               *)
(***************************************************************************)

(* A process that does nothing holds nothing. *)
LEMMA IdleFacts ==
    ASSUME EventsAssumption
    PROVE  /\ IdleProc \in Procs
           /\ Working(IdleProc)
           /\ Holds(IdleProc) = {}
<1>1. IdleProc \in Procs
  BY DEF IdleProc, Procs, Times, None, EventsAssumption
<1>2. Working(IdleProc)
  BY DEF IdleProc, Working
<1>3. Undone(IdleProc) = {}
  BY DEF IdleProc, Undone
<1> QED
  BY <1>1, <1>2, <1>3 DEF Holds

(***************************************************************************)
(* One process goes on, and takes only events that nobody holds.           *)
(***************************************************************************)
LEMMA ProcChange ==
    ASSUME TypeOK, AllWorking, OneHolder,
           NEW p \in Processes, NEW c \in Procs,
           proc' = [proc EXCEPT ![p] = c],
           again \subseteq again',
           Working(c),
           \A e \in Holds(c) : e \in Holds(proc[p]) \/ ~Held(e) \/ e \in again
    PROVE  /\ proc' \in [Processes -> Procs]
           /\ AllWorking'
           /\ OneHolder'
           /\ \A e : Held(e)' => Held(e) \/ e \in Holds(c)
<1>1. proc \in [Processes -> Procs]
  BY DEF TypeOK, Processes
<1>2. proc' \in [Processes -> Procs]
  BY <1>1
<1>3. proc'[p] = c /\ \A q \in Processes : q # p => proc'[q] = proc[q]
  BY <1>1
<1>4. AllWorking'
  BY <1>3 DEF AllWorking
<1>5. ASSUME NEW q \in Processes, q # p
      PROVE  Holds(c) \cap Holds(proc[q]) \subseteq again
  BY <1>5 DEF OneHolder, Held
<1>6. OneHolder'
  BY <1>3, <1>5 DEF OneHolder
<1>7. \A e : Held(e)' => Held(e) \/ e \in Holds(c)
  BY <1>3 DEF Held
<1> QED
  BY <1>2, <1>4, <1>6, <1>7

(* The table of outcomes holds when rows stay, or go once they are processed. *)
LEMMA LedgerKept ==
    ASSUME Ledger, again \subseteq again', sent' = sent, cancelled' = cancelled,
           \A e \in Events : Held(e)' => Held(e),
           \A e \in Events :
              \/ e \in again'
              \/ row'[e].status = row[e].status
              \/ row[e].status = "processed" /\ row'[e].status = "gone"
    PROVE  Ledger'
<1> SUFFICES ASSUME NEW e \in Events, e \notin again'
             PROVE  /\ sent'[e] <= 1
                    /\ Held(e)' => /\ sent'[e] = 0 /\ e \notin cancelled'
                                   /\ row'[e].status \in {"processed", "gone"}
                    /\ row'[e].status \in {"none", "waiting"} => sent'[e] = 0
                    /\ e \in cancelled' => row'[e].status = "gone" /\ sent'[e] = 0
  BY DEF Ledger
<1>1. e \notin again
  OBVIOUS
<1> QED
  BY <1>1 DEF Ledger

(* No more is handled than was, and no event waits that did not. *)
LEMMA WatchedKept ==
    ASSUME TypeOK, Watched, again \subseteq again',
           \A e \in WithStatus(row', "waiting") \ again' :
               e \in WithStatus(row, "waiting") /\ born'[e] = born[e],
           \A i \in 1 .. Len(deltas) : deltas'[i] = deltas[i],
           Handled' \in Nat, Handled' <= Handled,
           watch'.pc \in {"txn", "reply"} => eventPos' < watch'.i
    PROVE  Watched'
<1>1. Handled \in 0 .. Len(deltas)
  BY DEF TypeOK, Handled, Watches, Watched
<1> SUFFICES ASSUME NEW e \in WithStatus(row', "waiting") \ again',
                    NEW i \in (born'[e] + 1) .. Handled'
             PROVE  ~Hits(deltas'[i], e)
  BY DEF Watched
<1>2. e \in WithStatus(row, "waiting") \ again /\ born'[e] = born[e]
  OBVIOUS
<1>3. born[e] \in Nat /\ Len(deltas) \in Nat
  BY <1>2 DEF TypeOK, WithStatus
<1>4. i \in (born[e] + 1) .. Handled /\ i \in 1 .. Len(deltas)
  BY <1>1, <1>2, <1>3
<1> QED
  BY <1>2, <1>4 DEF Watched

(* What has been handled has been persisted. *)
LEMMA HandledFacts ==
    ASSUME TypeOK, Watched
    PROVE  Handled \in 0 .. Len(deltas)
  BY DEF TypeOK, Handled, Watches, Watched

(* The same, where the watcher stands still. *)
LEMMA WatcherStill ==
    ASSUME TypeOK, Watched, again \subseteq again',
           \A e \in WithStatus(row', "waiting") \ again' :
               e \in WithStatus(row, "waiting") /\ born'[e] = born[e],
           \A i \in 1 .. Len(deltas) : deltas'[i] = deltas[i],
           watch' = watch, eventPos' = eventPos
    PROVE  Watched'
<1>1. Handled' = Handled
  BY DEF Handled
<1>2. Handled \in Nat /\ Handled <= Handled
  BY HandledFacts DEF TypeOK
<1>3. watch'.pc \in {"txn", "reply"} => eventPos' < watch'.i
  BY DEF Watched
<1> QED
  BY <1>1, <1>2, <1>3, WatchedKept

(***************************************************************************)
(* The types, where only the table, the timer, the processes and the       *)
(* history of events change.                                               *)
(***************************************************************************)
LEMMA TypeKept ==
    ASSUME TypeOK,
           row' \in Rows, now' = now, timer' \in Times,
           proc' \in [Processes -> Procs],
           startup' \in {"deltas", "unprocess", "timeout", "reading", "done", "failed",
                         "unregistered"},
           UNCHANGED <<deltas, watcher, notified, born>>,
           sent' \in [Events -> Nat],
           cancelled' \subseteq Events, marked' = marked, again' \subseteq Events,
           abandoned' \subseteq Events,
           stale' \in BOOLEAN, incidents' \in 0 .. MaxIncidents
    PROVE  TypeOK'
  BY DEF TypeOK, watcher, Processes, Rows

(* An incident is counted. *)
LEMMA IncidentType ==
    ASSUME EventsAssumption, TypeOK, Incident
    PROVE  incidents' \in 0 .. MaxIncidents
  BY DEF EventsAssumption, TypeOK, Incident

(* A result for p: it holds what a sending process has marked. *)
LEMMA ResultFacts ==
    ASSUME EventsAssumption, TypeOK, Ledger, row' \in Rows,
           NEW p \in Processes, proc[p].pc = "idle",
           NEW op \in {"add", "restart", "cancel", "send", "timeout", "initial"},
           NEW list \in Seq(Events),
           \A i, j \in DOMAIN list : list[i] = list[j] => i = j,
           op \in Sending => \A i \in DOMAIN list : row[list[i]].status = "waiting",
           NEW c, c = [IdleProc EXCEPT !.pc = "reply", !.op = op, !.list = list,
                                       !.next = NextSendTs(row')]
    PROVE  /\ c \in Procs
           /\ Working(c)
           /\ op \notin Sending => Holds(c) = {}
           /\ op \in Sending => Holds(c) = {list[i] : i \in DOMAIN list}
           /\ \A e \in Holds(c) : e \in Events /\ (~Held(e) \/ e \in again)
<1>1. NextSendTs(row') \in Times
  BY NextSendTsType
<1>2. c = [pc |-> "reply", op |-> op, next |-> NextSendTs(row'), list |-> list, keys |-> {}]
  BY DEF IdleProc
<1>3. c \in Procs
  BY <1>1, <1>2 DEF Procs
<1>4. Working(c)
  BY <1>2 DEF Working
<1>5. op \notin Sending => Holds(c) = {}
  BY <1>2 DEF Holds, Undone
<1>6. op \in Sending => Holds(c) = {list[i] : i \in DOMAIN list}
  BY <1>2 DEF Holds, Undone
<1>7. ASSUME NEW e \in Holds(c)
      PROVE  e \in Events /\ (~Held(e) \/ e \in again)
  <2>1. op \in Sending
    BY <1>5, <1>7
  <2>2. PICK i \in DOMAIN list : e = list[i]
    BY <2>1, <1>6, <1>7
  <2>3. e \in Events
    BY <2>2
  <2>4. row[e].status = "waiting"
    BY <2>1, <2>2
  <2> QED
    BY <2>3, <2>4 DEF Ledger
<1> QED
  BY <1>3, <1>4, <1>5, <1>6, <1>7
--------------------------------------------------------------------------------
(***************************************************************************)
(* The actions.                                                            *)
(***************************************************************************)

(* A client's call changes one row. *)
LEMMA CallKeeps ==
    ASSUME EventsAssumption, IInv, NEW p \in Clients, NEW e \in Events,
           NEW op \in {"add", "restart", "cancel", "send"}, Call(p, op, e)
    PROVE  IInv'
<1> USE DEF IInv
<1> DEFINE c == [IdleProc EXCEPT !.pc = "reply", !.op = op, !.list = <<e>>,
                                 !.next = NextSendTs(row')]
<1>0. p \in Processes /\ proc[p].pc = "idle"
  BY DEF Call, Processes
<1>1. row \in Rows /\ now \in Nat /\ DelayOf[e] \in Nat /\ MaxTime \in Nat
  BY DEF TypeOK, Rows, EventsAssumption
<1>2. Written(op, e) \in [status : {"waiting", "processed", "gone"}, ts : Times]
  <2>1. CASE op \in {"add", "restart"}
    <3>1. now + DelayOf[e] \in Times
      BY <1>1, <2>1 DEF Call, Times
    <3> QED
      BY <2>1, <3>1 DEF Written
  <2>2. CASE op = "cancel"
    BY <2>2 DEF Written, Gone, Times, None, EventsAssumption
  <2>3. CASE op = "send"
    <3>1. row[e] \in [status : {"none", "waiting", "processed", "gone"}, ts : Times]
      BY <1>1 DEF Rows
    <3> QED
      BY <2>3, <3>1 DEF Written
  <2> QED
    BY <2>1, <2>2, <2>3
<1>3. Written(op, e).status = IF op \in {"add", "restart"} THEN "waiting"
                              ELSE IF op = "cancel" THEN "gone" ELSE "processed"
  <2>1. row[e] = [status |-> row[e].status, ts |-> row[e].ts]
    BY <1>1 DEF Rows
  <2> QED
    BY <2>1 DEF Written, Gone
<1>4. /\ row' = [row EXCEPT ![e] = Written(op, e)]
      /\ row[e].status = IF op = "add" THEN "none" ELSE "waiting"
      /\ proc' = [proc EXCEPT ![p] = c]
      /\ UNCHANGED <<sent, again, watch, eventPos, deltas>>
      /\ cancelled' = IF op = "cancel" THEN cancelled \cup {e} ELSE cancelled
      /\ born' = IF op = "add" THEN [born EXCEPT ![e] = Len(deltas)] ELSE born
  BY DEF Call, Found, Result, watcher, stream
<1>5. row' \in Rows
  BY <1>1, <1>2, <1>4 DEF Rows
<1>6. /\ <<e>> \in Seq(Events)
      /\ \A i, j \in DOMAIN <<e>> : <<e>>[i] = <<e>>[j] => i = j
      /\ op \in Sending => \A i \in DOMAIN <<e>> : row[<<e>>[i]].status = "waiting"
  BY <1>4 DEF Sending
<1>7. /\ c \in Procs
      /\ Working(c)
      /\ op \notin Sending => Holds(c) = {}
      /\ op \in Sending => Holds(c) = {<<e>>[i] : i \in DOMAIN <<e>>}
      /\ \A x \in Holds(c) : x \in Events /\ (~Held(x) \/ x \in again)
  <2> HIDE DEF c
  <2>1. op \in {"add", "restart", "cancel", "send", "timeout", "initial"}
    OBVIOUS
  <2>2. c = [IdleProc EXCEPT !.pc = "reply", !.op = op, !.list = <<e>>,
                             !.next = NextSendTs(row')]
    BY DEF c
  <2> QED
    BY <1>0, <1>5, <1>6, <2>1, <2>2, ResultFacts
<1> HIDE DEF c
<1>8. Holds(c) = IF op = "send" THEN {e} ELSE {}
  BY <1>7 DEF Sending
<1>9. /\ proc' \in [Processes -> Procs]
      /\ AllWorking'
      /\ OneHolder'
      /\ \A x : Held(x)' => Held(x) \/ x \in Holds(c)
  BY <1>0, <1>4, <1>7, ProcChange
<1>10. born' \in [Events -> 0 .. Len(deltas)]
  <2>1. born \in [Events -> 0 .. Len(deltas)] /\ Len(deltas) \in 0 .. Len(deltas)
    BY DEF TypeOK
  <2> QED
    BY <1>4, <2>1
<1>11. TypeOK'
  BY <1>4, <1>5, <1>9, <1>10 DEF TypeOK, Call, clock, watcher, stream, Processes, Rows
<1>12. Ledger'
  <2> SUFFICES ASSUME NEW x \in Events, x \notin again
               PROVE  /\ sent[x] <= 1
                      /\ Held(x)' => /\ sent[x] = 0 /\ x \notin cancelled'
                                     /\ row'[x].status \in {"processed", "gone"}
                      /\ row'[x].status \in {"none", "waiting"} => sent[x] = 0
                      /\ x \in cancelled' => row'[x].status = "gone" /\ sent[x] = 0
    BY <1>4 DEF Ledger
  <2>1. CASE x # e
    <3>1. row'[x] = row[x] /\ (Held(x)' => Held(x)) /\ (x \in cancelled' => x \in cancelled)
      BY <1>1, <1>4, <1>8, <1>9, <2>1 DEF Rows
    <3> QED
      BY <3>1 DEF Ledger
  <2>2. CASE x = e
    <3>1. row'[e] = Written(op, e)
      BY <1>1, <1>4 DEF Rows
    <3>2. sent[e] = 0 /\ e \notin cancelled /\ ~Held(e)
      BY <1>4, <2>2 DEF Ledger
    <3> QED
      BY <1>3, <1>4, <1>8, <1>9, <2>2, <3>1, <3>2
  <2> QED
    BY <2>1, <2>2
<1>13. Watched'
  <2>1. Handled' = Handled /\ Handled \in 0 .. Len(deltas)
    BY <1>4, HandledFacts DEF Handled
  <2> SUFFICES ASSUME NEW x \in WithStatus(row', "waiting") \ again,
                      NEW i \in (born'[x] + 1) .. Handled
               PROVE  ~Hits(deltas[i], x)
    BY <1>4, <2>1 DEF Watched
  <2>2. x \in Events /\ row'[x].status = "waiting"
    BY DEF WithStatus
  <2>3. CASE op = "add" /\ x = e
    <3>1. born'[x] = Len(deltas) /\ Len(deltas) \in Nat
      BY <1>4, <2>3 DEF TypeOK
    <3> QED
      BY <2>1, <3>1
  <2>4. CASE ~(op = "add" /\ x = e)
    <3>1. born'[x] = born[x]
      BY <1>4, <2>2, <2>4 DEF TypeOK
    <3>2. row[x].status = "waiting"
      BY <1>1, <1>4, <2>2, <2>4 DEF Rows
    <3> QED
      BY <2>2, <3>1, <3>2 DEF Watched, WithStatus
  <2> QED
    BY <2>3, <2>4
<1> QED
  BY <1>9, <1>11, <1>12, <1>13

(* What is due is marked and taken by one process. *)
LEMMA ProcessTimeoutKeeps ==
    ASSUME EventsAssumption, IInv, NEW p \in Processes, NEW op \in {"timeout", "initial"},
           ProcessTimeout(p, op),
           UNCHANGED <<watcher, deltas, notified, history>>,
           now' = now, timer' \in Times, stale' \in BOOLEAN, incidents' = incidents,
           startup' \in {"deltas", "unprocess", "timeout", "reading", "done", "failed",
                         "unregistered"}
    PROVE  IInv'
<1> USE DEF IInv
<1>1. row \in Rows
  BY DEF TypeOK, Rows
<1>2. /\ row' = [e \in Events |->
                   IF e \in Due THEN [row[e] EXCEPT !.status = "processed"] ELSE row[e]]
      /\ born' = born
      /\ UNCHANGED <<sent, again, cancelled, marked, abandoned, watch, eventPos>>
  BY DEF ProcessTimeout, history, watcher
<1>3. ASSUME NEW e \in Events
      PROVE  /\ row'[e] \in [status : {"none", "waiting", "processed", "gone"}, ts : Times]
             /\ e \in Due => row[e].status = "waiting" /\ row'[e].status = "processed"
             /\ e \notin Due => row'[e] = row[e]
  BY <1>1, <1>2 DEF Rows, Due, WithStatus
<1>4. row' \in Rows
  BY <1>2, <1>3 DEF Rows
<1>5. PICK list \in SetToSeqs(Due) : Result(p, op, list)
  BY DEF ProcessTimeout
<1>6. Due \subseteq Events
  BY DEF Due, WithStatus
<1>7. /\ list \in Seq(Events)
      /\ \A i \in DOMAIN list : list[i] \in Due
      /\ \A i, j \in DOMAIN list : list[i] = list[j] => i = j
  BY <1>6, ListingFacts
<1>8. PICK c : /\ c = [IdleProc EXCEPT !.pc = "reply", !.op = op, !.list = list,
                                       !.next = NextSendTs(row')]
               /\ proc' = [proc EXCEPT ![p] = c]
  BY <1>5 DEF Result
<1>9. /\ c \in Procs
      /\ Working(c)
      /\ op \in Sending => Holds(c) = {list[i] : i \in DOMAIN list}
      /\ \A x \in Holds(c) : x \in Events /\ (~Held(x) \/ x \in again)
  <2>1. op \in {"add", "restart", "cancel", "send", "timeout", "initial"}
    OBVIOUS
  <2>2. proc[p].pc = "idle"
    BY DEF ProcessTimeout
  <2>3. \A i \in DOMAIN list : row[list[i]].status = "waiting"
    BY <1>3, <1>6, <1>7
  <2> QED
    BY <1>4, <1>7, <1>8, <2>1, <2>2, <2>3, ResultFacts
<1>10. Holds(c) \subseteq Due
  BY <1>7, <1>9 DEF Sending
<1>11. /\ proc' \in [Processes -> Procs]
       /\ AllWorking'
       /\ OneHolder'
       /\ \A x : Held(x)' => Held(x) \/ x \in Holds(c)
  BY <1>2, <1>8, <1>9, ProcChange
<1>12. TypeOK'
  <2>1. /\ sent' \in [Events -> Nat] /\ cancelled' \subseteq Events
        /\ again' \subseteq Events /\ abandoned' \subseteq Events
        /\ incidents' \in 0 .. MaxIncidents
    BY <1>2 DEF TypeOK
  <2> QED
    BY <1>2, <1>4, <1>11, <2>1, TypeKept
<1>13. Ledger'
  <2> SUFFICES ASSUME NEW x \in Events, x \notin again
               PROVE  /\ sent[x] <= 1
                      /\ Held(x)' => /\ sent[x] = 0 /\ x \notin cancelled
                                     /\ row'[x].status \in {"processed", "gone"}
                      /\ row'[x].status \in {"none", "waiting"} => sent[x] = 0
                      /\ x \in cancelled => row'[x].status = "gone" /\ sent[x] = 0
    BY <1>2 DEF Ledger
  <2>1. CASE x \in Due
    BY <1>3, <2>1 DEF Ledger
  <2>2. CASE x \notin Due
    <3>1. row'[x] = row[x] /\ (Held(x)' => Held(x))
      BY <1>3, <1>10, <1>11, <2>2
    <3> QED
      BY <3>1 DEF Ledger
  <2> QED
    BY <2>1, <2>2
<1>14. Watched'
  <2>1. \A x \in WithStatus(row', "waiting") \ again' :
           x \in WithStatus(row, "waiting") /\ born'[x] = born[x]
    BY <1>2, <1>3 DEF WithStatus
  <2> QED
    BY <1>2, <2>1, WatcherStill
<1> QED
  BY <1>11, <1>12, <1>13, <1>14

(* _send_on_timeout: what is due goes to an idle sender. *)
LEMMA TimerFiresKeeps ==
    ASSUME EventsAssumption, IInv, NEW p \in Senders, TimerFires(p)
    PROVE  IInv'
<1>1. p \in Processes /\ ProcessTimeout(p, "timeout")
  BY DEF TimerFires, Processes
<1>2. /\ UNCHANGED <<watcher, deltas, notified, history, now, stale, incidents, startup>>
      /\ timer' = None
  BY DEF TimerFires, stream
<1>3. None \in Times
  BY DEF None, Times, EventsAssumption
<1> QED
  BY <1>1, <1>2, <1>3, ProcessTimeoutKeeps DEF IInv, TypeOK

(* _schedule_db_events: what fell due while the process was down. *)
LEMMA InitialTimeoutKeeps ==
    ASSUME EventsAssumption, IInv, NEW p \in Senders, InitialTimeout(p)
    PROVE  IInv'
<1>1. p \in Processes /\ ProcessTimeout(p, "initial")
  BY DEF InitialTimeout, Processes
<1>2. /\ UNCHANGED <<watcher, deltas, notified, history, now, stale, incidents, timer>>
      /\ startup' = "reading"
  BY DEF InitialTimeout, stream, clock
<1> QED
  BY <1>1, <1>2, ProcessTimeoutKeeps DEF IInv, TypeOK

(* The times a timer is set to. *)
LEMMA ScheduleType ==
    ASSUME EventsAssumption, TypeOK, NEW ts \in Times
    PROVE  ScheduleNextAtOrNone(ts) \in Times
  BY DEF ScheduleNextAtOrNone, TypeOK, Times, EventsAssumption

(***************************************************************************)
(* A step of one process that takes nothing, changes no outcome and at     *)
(* most removes rows that are processed.                                   *)
(***************************************************************************)
LEMMA ProcStepKeeps ==
    ASSUME IInv, NEW p \in Processes, NEW c \in Procs,
           proc' = [proc EXCEPT ![p] = c],
           Working(c),
           Holds(c) \subseteq Holds(proc[p]),
           UNCHANGED <<watcher, deltas, notified, born, sent, cancelled, marked, again, now>>,
           row' \in Rows,
           \A e \in Events : \/ row'[e].status = row[e].status
                             \/ row[e].status = "processed" /\ row'[e].status = "gone",
           timer' \in Times, stale' \in BOOLEAN, abandoned' \subseteq Events,
           startup' \in {"deltas", "unprocess", "timeout", "reading", "done", "failed",
                         "unregistered"},
           incidents' \in 0 .. MaxIncidents
    PROVE  IInv'
<1> USE DEF IInv
<1>1. /\ proc' \in [Processes -> Procs]
      /\ AllWorking'
      /\ OneHolder'
      /\ \A x : Held(x)' => Held(x) \/ x \in Holds(c)
  BY ProcChange
<1>2. \A x : Held(x)' => Held(x)
  BY <1>1 DEF Held
<1>3. TypeOK'
  <2>1. /\ sent' \in [Events -> Nat] /\ cancelled' \subseteq Events
        /\ again' \subseteq Events
    BY DEF TypeOK
  <2> QED
    BY <1>1, <2>1, TypeKept
<1>4. Ledger'
  BY <1>2, LedgerKept
<1>5. Watched'
  <2>1. \A x \in WithStatus(row', "waiting") \ again' :
           x \in WithStatus(row, "waiting") /\ born'[x] = born[x]
    BY DEF WithStatus
  <2>2. watch' = watch /\ eventPos' = eventPos
    BY DEF watcher
  <2> QED
    BY <2>1, <2>2, WatcherStill
<1> QED
  BY <1>1, <1>3, <1>4, <1>5

(* The records of processes after an update of their fields. *)
LEMMA FieldsWhenApplied ==
    ASSUME NEW a \in Procs, NEW c, None \in Times,
           c = [a EXCEPT !.pc = "send", !.next = None]
    PROVE  /\ c \in Procs
           /\ c.pc = "send" /\ c.op = a.op /\ c.list = a.list
  BY DEF Procs

(* The fields of a process that goes on to the rest of its list. *)
LEMMA FieldsGoneOn ==
    ASSUME NEW a \in Procs, NEW c, Tail(a.list) \in Seq(Events),
           c = [a EXCEPT !.pc = "send", !.list = Tail(@)]
    PROVE  /\ c \in Procs
           /\ c.pc = "send" /\ c.op = a.op /\ c.list = Tail(a.list)
  BY DEF Procs

(* The fields of a process that goes on to another step. *)
LEMMA FieldsWithPc ==
    ASSUME NEW a \in Procs, NEW c, NEW x \in {"delete", "purge"},
           c = [a EXCEPT !.pc = x]
    PROVE  /\ c \in Procs
           /\ c.pc = x /\ c.op = a.op /\ c.list = a.list
  BY DEF Procs

(* The fields of a process whose event was sent. *)
LEMMA FieldsWhenSent ==
    ASSUME NEW a \in Procs, NEW c, NEW k \in Keys,
           c = [a EXCEPT !.pc = "delete", !.keys = @ \cup {k}]
    PROVE  /\ c \in Procs
           /\ c.pc = "delete" /\ c.op = a.op /\ c.list = a.list
  BY DEF Procs

(* The result of a transaction arrives. *)
LEMMA ApplyKeeps ==
    ASSUME EventsAssumption, IInv, NEW p \in Processes, Apply(p)
    PROVE  IInv'
<1> USE DEF IInv
<1> DEFINE a == proc[p]
           c == [a EXCEPT !.pc = "send", !.next = None]
<1>1. a \in Procs /\ Working(a) /\ a.pc = "reply"
  BY DEF TypeOK, AllWorking, Apply, Processes
<1>2. a.next \in Times /\ None \in Times
  BY <1>1 DEF Procs, None, Times, EventsAssumption
<1>3. timer' \in Times
  BY <1>2, ScheduleType DEF Apply, TypeOK
<1>4. /\ UNCHANGED <<row, born, now, watcher, deltas, notified, sent, cancelled, marked, again,
                     abandoned, incidents>>
      /\ stale' \in BOOLEAN
  BY DEF Apply, table, stream, history
<1>5. startup' \in {"deltas", "unprocess", "timeout", "reading", "done", "failed",
                    "unregistered"}
  BY DEF Apply, TypeOK
<1>6. /\ row' \in Rows /\ abandoned' \subseteq Events /\ incidents' \in 0 .. MaxIncidents
  BY <1>4 DEF TypeOK, Rows
<1>7. CASE (ToMany(a) \/ a.op = "send") /\ a.list # <<>>
  <2>1. proc' = [proc EXCEPT ![p] = c]
    BY <1>7 DEF Apply
  <2>2. c \in Procs /\ c.pc = "send" /\ c.op = a.op /\ c.list = a.list
    BY <1>1, <1>2, FieldsWhenApplied
  <2> HIDE DEF c
  <2>3. a.op \in Sending
    BY <1>7 DEF ToMany, Sending
  <2>4. Working(c)
    BY <1>1, <1>7, <2>2, <2>3 DEF Working
  <2>5. Holds(c) = Holds(a)
    BY <1>1, <2>2 DEF Holds, Undone
  <2> QED
    BY <1>3, <1>4, <1>5, <1>6, <2>1, <2>2, <2>4, <2>5, ProcStepKeeps
<1>8. CASE ~((ToMany(a) \/ a.op = "send") /\ a.list # <<>>)
  <2>1. proc' = [proc EXCEPT ![p] = IdleProc]
    BY <1>8 DEF Apply
  <2> QED
    BY <1>3, <1>4, <1>5, <1>6, <2>1, IdleFacts, ProcStepKeeps
<1> QED
  BY <1>7, <1>8

(* What a process holds after the head of its list is done with. *)
LEMMA GoOnFacts ==
    ASSUME EventsAssumption, IInv, NEW p \in Processes, GoOn(p, proc[p]),
           proc[p].pc \in {"send", "purge"}
    PROVE  \E c \in Procs : /\ proc' = [proc EXCEPT ![p] = c]
                            /\ Working(c)
                            /\ Holds(c) \subseteq Holds(proc[p])
<1> USE DEF IInv
<1> DEFINE a == proc[p]
           c == [a EXCEPT !.pc = "send", !.list = Tail(@)]
<1>1. a \in Procs /\ Working(a) /\ a.op \in Sending /\ a.list # <<>>
  BY DEF TypeOK, AllWorking, Processes, Working
<1>2. a.list \in Seq(Events)
  BY <1>1 DEF Procs
<1>3. CASE Len(a.list) > 1
  <2>1. proc' = [proc EXCEPT ![p] = c]
    BY <1>3 DEF GoOn
  <2>2. /\ Tail(a.list) \in Seq(Events)
        /\ Len(Tail(a.list)) = Len(a.list) - 1
        /\ \A i \in DOMAIN Tail(a.list) : /\ i + 1 \in DOMAIN a.list
                                          /\ i \in Nat /\ i + 1 > 1
                                          /\ Tail(a.list)[i] = a.list[i + 1]
    BY <1>1, <1>2, HeadTailProperties
  <2>3. Tail(a.list) # <<>>
    <3>1. Len(Tail(a.list)) > 0
      BY <1>2, <1>3, <2>2
    <3> QED
      BY <2>2, <3>1, EmptySeq
  <2>4. c \in Procs /\ c.pc = "send" /\ c.op = a.op /\ c.list = Tail(a.list)
    BY <1>1, <2>2, FieldsGoneOn
  <2> HIDE DEF c
  <2>5. \A i, j \in DOMAIN Tail(a.list) : Tail(a.list)[i] = Tail(a.list)[j] => i = j
    <3> SUFFICES ASSUME NEW i \in DOMAIN Tail(a.list), NEW j \in DOMAIN Tail(a.list),
                        Tail(a.list)[i] = Tail(a.list)[j]
                 PROVE  i = j
      OBVIOUS
    <3>1. i + 1 = j + 1
      BY <1>1, <2>2 DEF Working
    <3> QED
      BY <2>2, <3>1
  <2>6. Working(c)
    BY <1>1, <2>3, <2>4, <2>5 DEF Working
  <2>7. ASSUME NEW x \in Holds(c)
        PROVE  x \in Holds(a)
    <3>1. PICK i \in DOMAIN Tail(a.list) : x = Tail(a.list)[i]
      BY <2>4, <2>7 DEF Holds, Undone
    <3>2. i + 1 \in Undone(a)
      BY <1>1, <2>2, <3>1 DEF Undone
    <3> QED
      BY <2>2, <3>1, <3>2 DEF Holds
  <2> QED
    BY <2>1, <2>4, <2>6, <2>7
<1>4. CASE ~(Len(a.list) > 1)
  BY <1>4, IdleFacts DEF GoOn
<1> QED
  BY <1>3, <1>4

(* _send_events: an event that an earlier one of the list supersedes is    *)
(* left out.                                                               *)
LEMMA SkipKeeps ==
    ASSUME EventsAssumption, IInv, NEW p \in Processes, Skip(p)
    PROVE  IInv'
<1>1. PICK c \in Procs : /\ proc' = [proc EXCEPT ![p] = c]
                         /\ Working(c)
                         /\ Holds(c) \subseteq Holds(proc[p])
  BY GoOnFacts DEF Skip
<1>2. /\ UNCHANGED <<row, timer, stale, watcher, deltas, notified, born, sent, cancelled, marked,
                     again, now, abandoned, startup, incidents>>
  BY DEF Skip, table, clock, stream, history
<1>3. row' \in Rows
  BY <1>2 DEF IInv, TypeOK, Rows
<1> QED
  BY <1>1, <1>2, <1>3, ProcStepKeeps DEF IInv, TypeOK

(* Once the head of the list is dealt with, it is no longer held. *)
LEMMA HeadDone ==
    ASSUME NEW a \in Procs, Working(a), a.pc = "send",
           NEW c \in Procs, c.pc \in {"delete", "purge"}, c.op = a.op, c.list = a.list
    PROVE  /\ Working(c)
           /\ Holds(c) \subseteq Holds(a)
           /\ Head(a.list) \in Events
           /\ Head(a.list) \in Holds(a)
           /\ Head(a.list) \notin Holds(c)
<1>1. a.list \in Seq(Events) /\ a.list # <<>> /\ a.op \in Sending
  BY DEF Procs, Working
<1>2. Head(a.list) = a.list[1] /\ 1 \in DOMAIN a.list /\ Head(a.list) \in Events
  <2>1. Len(a.list) \in Nat \ {0}
    BY <1>1, EmptySeq
  <2> QED
    BY <1>1, <2>1, HeadTailProperties
<1>3. Working(c)
  BY DEF Working
<1>4. Undone(a) = DOMAIN a.list /\ Undone(c) = {i \in DOMAIN a.list : i > 1}
  BY <1>1 DEF Undone
<1>5. Holds(c) \subseteq Holds(a)
  BY <1>4 DEF Holds
<1>6. Head(a.list) \in Holds(a)
  BY <1>2, <1>4 DEF Holds
<1>7. ASSUME Head(a.list) \in Holds(c)
      PROVE  FALSE
  <2>1. PICK i \in DOMAIN a.list : i > 1 /\ a.list[i] = a.list[1]
    BY <1>2, <1>4, <1>7 DEF Holds
  <2>2. i = 1
    BY <1>2, <2>1 DEF Working
  <2> QED
    BY <2>1, <2>2
<1> QED
  BY <1>2, <1>3, <1>5, <1>6, <1>7

(* The head of the list of a process that sends or deletes is an event. *)
LEMMA HeadType ==
    ASSUME IInv, NEW p \in Processes, proc[p].pc \in {"send", "delete", "purge"}
    PROVE  /\ Head(proc[p].list) \in Events
           /\ {proc[p].list[i] : i \in DOMAIN proc[p].list} \subseteq Events
<1>1. proc[p] \in Procs /\ Working(proc[p])
  BY DEF IInv, TypeOK, AllWorking, Processes
<1>2. proc[p].list \in Seq(Events) /\ proc[p].list # <<>>
  BY <1>1 DEF Procs, Working
<1> QED
  BY <1>2, HeadTailProperties

(* Where a process is after an event was sent, deleted or given up. *)
LEMMA AfterDeleteFacts ==
    ASSUME EventsAssumption, IInv, NEW p \in Processes,
           proc[p].pc \in {"send", "delete"}, AfterDelete(p, proc[p])
    PROVE  \E c \in Procs : /\ proc' = [proc EXCEPT ![p] = c]
                            /\ Working(c)
                            /\ Holds(c) \subseteq Holds(proc[p])
<1> DEFINE a == proc[p]
           c == [a EXCEPT !.pc = "purge"]
<1>1. a \in Procs /\ Working(a) /\ proc \in [Processes -> Procs]
  BY DEF IInv, TypeOK, AllWorking, Processes
<1>2. CASE a.op = "send"
  BY <1>2, IdleFacts DEF AfterDelete
<1>3. CASE a.op # "send"
  <2>1. proc' = [proc EXCEPT ![p] = c]
    BY <1>1, <1>3 DEF AfterDelete
  <2>2. c \in Procs /\ c.pc = "purge" /\ c.op = a.op /\ c.list = a.list
    BY <1>1, FieldsWithPc
  <2> HIDE DEF c
  <2>3. Working(c)
    BY <1>1, <2>2 DEF Working
  <2>4. CASE a.pc = "send"
    BY <1>1, <2>1, <2>2, <2>4, HeadDone
  <2>5. CASE a.pc = "delete"
    <3>1. Holds(c) = Holds(a)
      BY <2>2, <2>5 DEF Holds, Undone
    <3> QED
      BY <2>1, <2>2, <2>3, <3>1
  <2> QED
    BY <2>4, <2>5
<1> QED
  BY <1>2, <1>3

(* A new delta leaves the ones before it where they are. *)
LEMMA DeltaFacts ==
    ASSUME TypeOK, NEW d \in Deltas, deltas' = Append(deltas, d)
    PROVE  /\ deltas' \in Seq(Deltas)
           /\ Len(deltas') = Len(deltas) + 1
           /\ \A i \in 1 .. Len(deltas) : deltas'[i] = deltas[i]
<1>1. deltas \in Seq(Deltas)
  BY DEF TypeOK
<1> QED
  BY <1>1, AppendProperties

(* An event is sent, by the one process that holds it. *)
LEMMA SendEventKeeps ==
    ASSUME EventsAssumption, IInv, NEW p \in Processes, SendEvent(p)
    PROVE  IInv'
<1> USE DEF IInv
<1> DEFINE a == proc[p]
           e == Head(a.list)
<1>1. a \in Procs /\ Working(a) /\ a.pc = "send" /\ proc \in [Processes -> Procs]
  BY DEF TypeOK, AllWorking, Processes, SendEvent
<1>2. e \in Events
  BY <1>1, HeadType
<1>3. /\ UNCHANGED <<row, born, now, timer, stale, startup, watch, eventPos, storedPos,
                     unwatched, cancelled, marked, again, abandoned, incidents>>
      /\ sent' = [sent EXCEPT ![e] = @ + 1]
  BY DEF SendEvent, table, clock, watcher
<1>4. /\ deltas' \in Seq(Deltas)
      /\ Len(deltas') >= Len(deltas)
      /\ \A i \in 1 .. Len(deltas) : deltas'[i] = deltas[i]
      /\ notified' \in BOOLEAN
  <2>1. CASE KeyOf[e] # NoKey
    <3> DEFINE d == [key |-> KeyOf[e], by |-> OwnerOf[e]]
    <3>1. d \in Deltas
      BY <1>2, <2>1 DEF Deltas, Keys
    <3>2. deltas' = Append(deltas, d) /\ notified' = TRUE
      BY <2>1 DEF SendEvent
    <3>3. Len(deltas) \in Nat
      BY DEF TypeOK
    <3> HIDE DEF d
    <3> QED
      BY <3>1, <3>2, <3>3, DeltaFacts
  <2>2. CASE KeyOf[e] = NoKey
    <3>1. deltas' = deltas /\ notified' = notified
      BY <2>2 DEF SendEvent, stream
    <3> QED
      BY <3>1 DEF TypeOK
  <2> QED
    BY <2>1, <2>2
<1>5. PICK c \in Procs : /\ proc' = [proc EXCEPT ![p] = c]
                         /\ c.pc = "delete" /\ c.op = a.op /\ c.list = a.list
  <2>1. CASE KeyOf[e] # NoKey
    <3> DEFINE c == [a EXCEPT !.pc = "delete", !.keys = @ \cup {KeyOf[e]}]
    <3>1. proc' = [proc EXCEPT ![p] = c]
      BY <1>1, <2>1 DEF SendEvent
    <3>2. KeyOf[e] \in Keys
      BY <1>2, <2>1 DEF Keys
    <3> QED
      BY <1>1, <3>1, <3>2, FieldsWhenSent
  <2>2. CASE KeyOf[e] = NoKey
    <3> DEFINE c == [a EXCEPT !.pc = "delete"]
    <3>1. proc' = [proc EXCEPT ![p] = c]
      BY <1>1, <2>2 DEF SendEvent
    <3> QED
      BY <1>1, <3>1, FieldsWithPc
  <2> QED
    BY <2>1, <2>2
<1>6. Working(c) /\ Holds(c) \subseteq Holds(a) /\ e \in Holds(a) /\ e \notin Holds(c)
  BY <1>1, <1>5, HeadDone
<1>7. /\ proc' \in [Processes -> Procs]
      /\ AllWorking'
      /\ OneHolder'
      /\ \A x : Held(x)' => Held(x) \/ x \in Holds(c)
  BY <1>3, <1>5, <1>6, ProcChange
<1>8. TypeOK'
  <2>1. sent' \in [Events -> Nat]
    BY <1>2, <1>3 DEF TypeOK
  <2>2. born' \in [Events -> 0 .. Len(deltas')]
    <3>1. born \in [Events -> 0 .. Len(deltas)] /\ Len(deltas) \in Nat /\ Len(deltas') \in Nat
      BY <1>4 DEF TypeOK
    <3>2. 0 .. Len(deltas) \subseteq 0 .. Len(deltas')
      BY <1>4, <3>1
    <3> QED
      BY <1>3, <3>1, <3>2
  <2>3. /\ watch' \in Watches /\ watch'.i <= watch'.upto /\ watch'.upto <= Len(deltas')
        /\ eventPos' \in 0 .. Len(deltas') /\ storedPos' \in 0 .. eventPos'
    BY <1>3, <1>4 DEF TypeOK, Watches
  <2> QED
    BY <1>3, <1>4, <1>7, <2>1, <2>2, <2>3 DEF TypeOK, Processes
<1>9. Ledger'
  <2> SUFFICES ASSUME NEW x \in Events, x \notin again
               PROVE  /\ sent'[x] <= 1
                      /\ Held(x)' => /\ sent'[x] = 0 /\ x \notin cancelled
                                     /\ row[x].status \in {"processed", "gone"}
                      /\ row[x].status \in {"none", "waiting"} => sent'[x] = 0
                      /\ x \in cancelled => row[x].status = "gone" /\ sent'[x] = 0
    BY <1>3 DEF Ledger
  <2>1. CASE x # e
    <3>1. sent'[x] = sent[x] /\ (Held(x)' => Held(x))
      BY <1>2, <1>3, <1>6, <1>7, <2>1 DEF TypeOK, Held
    <3> QED
      BY <3>1 DEF Ledger
  <2>2. CASE x = e
    <3>1. Held(x)
      BY <1>6, <2>2 DEF Held
    <3>2. sent'[x] = 1 /\ x \notin cancelled /\ row[x].status \in {"processed", "gone"}
      BY <1>2, <1>3, <2>2, <3>1 DEF Ledger, TypeOK
    <3>3. ~Held(x)'
      <4>1. \A q \in Processes : q # p => x \notin Holds(proc[q])
        BY <1>6, <2>2 DEF OneHolder
      <4>2. \A q \in Processes : proc'[q] = IF q = p THEN c ELSE proc[q]
        BY <1>1, <1>5
      <4> QED
        BY <1>6, <2>2, <4>1, <4>2 DEF Held
    <3> QED
      BY <3>2, <3>3
  <2> QED
    BY <2>1, <2>2
<1>10. Watched'
  BY <1>3, <1>4, WatcherStill
<1> QED
  BY <1>7, <1>8, <1>9, <1>10

(* Sending, the check of the user or a deletion fails. *)
LEMMA FailureKeeps ==
    ASSUME EventsAssumption, IInv, NEW p \in Processes,
           SendFails(p) \/ GuestCheckFails(p) \/ DeleteFails(p)
    PROVE  IInv'
<1> DEFINE a == proc[p]
<1>1. a \in Procs /\ Working(a) /\ a.pc \in {"send", "delete"} /\ proc \in [Processes -> Procs]
  BY DEF IInv, TypeOK, AllWorking, Processes, SendFails, GuestCheckFails, DeleteFails
<1>2. /\ UNCHANGED <<row, born, now, timer, stale, startup, watcher, deltas, notified,
                     sent, cancelled, marked, again>>
      /\ Incident
  BY DEF SendFails, GuestCheckFails, DeleteFails, table, clock, stream, history
<1>3. abandoned' \subseteq Events
  <2>1. abandoned \subseteq Events /\ Head(a.list) \in Events
    BY <1>1, HeadType DEF IInv, TypeOK
  <2>2. abandoned' = abandoned \/ abandoned' = abandoned \cup {Head(a.list)}
    BY DEF SendFails, GuestCheckFails, DeleteFails, history
  <2> QED
    BY <2>1, <2>2
<1>4. PICK c \in Procs : /\ proc' = [proc EXCEPT ![p] = c]
                         /\ Working(c)
                         /\ Holds(c) \subseteq Holds(a)
  <2>1. CASE SendFails(p)
    <3> DEFINE c == [a EXCEPT !.pc = "delete"]
    <3>1. proc' = [proc EXCEPT ![p] = c] /\ a.pc = "send"
      BY <1>1, <2>1 DEF SendFails
    <3>2. c \in Procs /\ c.pc = "delete" /\ c.op = a.op /\ c.list = a.list
      BY <1>1, FieldsWithPc
    <3> QED
      BY <1>1, <3>1, <3>2, HeadDone
  <2>2. CASE GuestCheckFails(p) \/ DeleteFails(p)
    BY <1>1, <2>2, AfterDeleteFacts DEF GuestCheckFails, DeleteFails
  <2> QED
    BY <2>1, <2>2
<1>5. row' \in Rows /\ incidents' \in 0 .. MaxIncidents
  BY <1>2, IncidentType DEF IInv, TypeOK, Rows
<1> QED
  BY <1>2, <1>3, <1>4, <1>5, ProcStepKeeps DEF IInv, TypeOK

(* The row of an event that was sent is removed. *)
LEMMA DeleteSentKeeps ==
    ASSUME EventsAssumption, IInv, NEW p \in Processes, DeleteSent(p)
    PROVE  IInv'
<1> DEFINE e == Head(proc[p].list)
<1>1. e \in Events
  BY HeadType DEF DeleteSent
<1>2. PICK c \in Procs : /\ proc' = [proc EXCEPT ![p] = c]
                         /\ Working(c)
                         /\ Holds(c) \subseteq Holds(proc[p])
  BY AfterDeleteFacts DEF DeleteSent
<1>3. /\ UNCHANGED <<born, now, timer, stale, startup, watcher, deltas, notified,
                     sent, cancelled, marked, again, abandoned, incidents>>
      /\ row' = IF row[e].status = "processed" THEN [row EXCEPT ![e] = Gone] ELSE row
  BY DEF DeleteSent, clock, stream, history
<1>4. row \in Rows
  BY DEF IInv, TypeOK, Rows
<1>5. Gone \in [status : {"none", "waiting", "processed", "gone"}, ts : Times] /\ Gone.status = "gone"
  BY DEF Gone, None, Times, EventsAssumption
<1>6. /\ row' \in Rows
      /\ \A x \in Events : \/ row'[x].status = row[x].status
                           \/ row[x].status = "processed" /\ row'[x].status = "gone"
  BY <1>1, <1>3, <1>4, <1>5 DEF Rows
<1> QED
  BY <1>2, <1>3, <1>6, ProcStepKeeps DEF IInv, TypeOK

(* Processed rows for the same piece of state are removed. *)
LEMMA PurgeKeeps ==
    ASSUME EventsAssumption, IInv, NEW p \in Processes, Purge(p)
    PROVE  IInv'
<1>1. PICK c \in Procs : /\ proc' = [proc EXCEPT ![p] = c]
                         /\ Working(c)
                         /\ Holds(c) \subseteq Holds(proc[p])
  BY GoOnFacts DEF Purge
<1>2. /\ UNCHANGED <<born, now, timer, stale, startup, watcher, deltas, notified,
                     sent, cancelled, marked, again, abandoned, incidents>>
      /\ row' = [e \in Events |-> IF e \in ToPurge(proc[p]) THEN Gone ELSE row[e]]
  BY DEF Purge, clock, stream, history
<1>3. row \in Rows
  BY DEF IInv, TypeOK, Rows
<1>4. Gone \in [status : {"none", "waiting", "processed", "gone"}, ts : Times] /\ Gone.status = "gone"
  BY DEF Gone, None, Times, EventsAssumption
<1>5. \A e \in ToPurge(proc[p]) : row[e].status = "processed"
  BY DEF ToPurge, WithStatus
<1>6. row' \in Rows
  BY <1>2, <1>3, <1>4 DEF Rows
<1>7. \A x \in Events : \/ row'[x].status = row[x].status
                        \/ row[x].status = "processed" /\ row'[x].status = "gone"
  BY <1>2, <1>4, <1>5
<1> QED
  BY <1>1, <1>2, <1>6, <1>7, ProcStepKeeps DEF IInv, TypeOK

(* The last step of _send_events raises. *)
LEMMA PurgeFailsKeeps ==
    ASSUME EventsAssumption, IInv, NEW p \in Processes, PurgeFails(p)
    PROVE  IInv'
<1>1. /\ UNCHANGED <<row, born, now, timer, stale, startup, watcher, deltas, notified,
                     sent, cancelled, marked, again>>
      /\ Incident
      /\ proc' = [proc EXCEPT ![p] = IdleProc]
  BY DEF PurgeFails, table, clock, stream
<1>2. abandoned' \subseteq Events
  <2>1. ToPurge(proc[p]) \subseteq Events
    BY DEF ToPurge, WithStatus
  <2>2. {proc[p].list[i] : i \in DOMAIN proc[p].list} \subseteq Events
    BY HeadType DEF PurgeFails
  <2>3. abandoned \subseteq Events
    BY DEF IInv, TypeOK
  <2> QED
    BY <2>1, <2>2, <2>3 DEF PurgeFails
<1>3. row' \in Rows /\ incidents' \in 0 .. MaxIncidents
  BY <1>1, IncidentType DEF IInv, TypeOK, Rows
<1> QED
  BY <1>1, <1>2, <1>3, IdleFacts, ProcStepKeeps DEF IInv, TypeOK

(* A worker's call to on_added fails after its transaction. *)
LEMMA ReplyLostKeeps ==
    ASSUME EventsAssumption, IInv, NEW p \in Processes, ReplyLost(p)
    PROVE  IInv'
<1>1. /\ UNCHANGED <<row, born, now, timer, startup, watcher, deltas, notified,
                     sent, cancelled, marked, again, abandoned>>
      /\ Incident /\ stale' = TRUE
      /\ proc' = [proc EXCEPT ![p] = IdleProc]
  BY DEF ReplyLost, table, stream, history
<1>2. row' \in Rows /\ incidents' \in 0 .. MaxIncidents
  BY <1>1, IncidentType DEF IInv, TypeOK, Rows
<1> QED
  BY <1>1, <1>2, IdleFacts, ProcStepKeeps DEF IInv, TypeOK

(* Who holds what is not touched by steps of the watcher and of others. *)
LEMMA ProcStill ==
    ASSUME AllWorking, OneHolder, proc' = proc, again \subseteq again'
    PROVE  /\ AllWorking'
           /\ OneHolder'
           /\ \A e : Held(e)' <=> Held(e)
<1>1. AllWorking'
  BY DEF AllWorking
<1>2. OneHolder'
  BY DEF OneHolder
<1>3. \A e : Held(e)' <=> Held(e)
  BY DEF Held
<1> QED
  BY <1>1, <1>2, <1>3

(* Somebody else changes the state. *)
LEMMA StateChangeKeeps ==
    ASSUME EventsAssumption, IInv, NEW u \in Others, NEW k \in Keys, StateChange(u, k)
    PROVE  IInv'
<1> USE DEF IInv
<1> DEFINE d == [key |-> k, by |-> u]
<1>1. /\ UNCHANGED <<row, born, now, timer, stale, proc, startup, watch, eventPos, storedPos,
                     unwatched, sent, cancelled, marked, again, abandoned>>
      /\ deltas' = Append(deltas, d) /\ notified' = TRUE
      /\ Incident
  BY DEF StateChange, table, clock, watcher, history
<1>2. d \in Deltas
  BY DEF Deltas
<1> HIDE DEF d
<1>3. /\ deltas' \in Seq(Deltas)
      /\ Len(deltas') = Len(deltas) + 1
      /\ \A i \in 1 .. Len(deltas) : deltas'[i] = deltas[i]
  BY <1>1, <1>2, DeltaFacts
<1>4. AllWorking' /\ OneHolder' /\ \A e : Held(e)' <=> Held(e)
  BY <1>1, ProcStill
<1>5. TypeOK'
  <2>1. born' \in [Events -> 0 .. Len(deltas')]
    <3>1. born \in [Events -> 0 .. Len(deltas)] /\ Len(deltas) \in Nat
      BY DEF TypeOK
    <3>2. 0 .. Len(deltas) \subseteq 0 .. Len(deltas')
      BY <1>3, <3>1
    <3> QED
      BY <1>1, <3>1, <3>2
  <2>2. /\ watch' \in Watches /\ watch'.i <= watch'.upto /\ watch'.upto <= Len(deltas')
        /\ eventPos' \in 0 .. Len(deltas') /\ storedPos' \in 0 .. eventPos'
    BY <1>1, <1>3 DEF TypeOK, Watches
  <2>3. incidents' \in 0 .. MaxIncidents
    BY <1>1, IncidentType
  <2> QED
    BY <1>1, <1>3, <2>1, <2>2, <2>3 DEF TypeOK
<1>6. Ledger'
  BY <1>1, <1>4, LedgerKept
<1>7. Watched'
  BY <1>1, <1>3, WatcherStill
<1> QED
  BY <1>4, <1>5, <1>6, <1>7

(***************************************************************************)
(* A step of the watcher, or of the process that starts, that handles no   *)
(* further delta and leaves the table alone.                               *)
(***************************************************************************)
LEMMA WatcherStepKeeps ==
    ASSUME IInv,
           UNCHANGED <<row, born, proc, deltas, sent, cancelled, again>>,
           watch' \in Watches, watch'.i <= watch'.upto, watch'.upto <= Len(deltas),
           eventPos' \in 0 .. Len(deltas), storedPos' \in 0 .. eventPos',
           watch'.pc \in {"txn", "reply"} => eventPos' < watch'.i,
           Handled' \in Nat, Handled' <= Handled,
           now' \in 1 .. MaxTime, timer' \in Times,
           startup' \in {"deltas", "unprocess", "timeout", "reading", "done", "failed",
                         "unregistered"},
           marked' \subseteq Events, abandoned' \subseteq Events,
           notified' \in BOOLEAN, stale' \in BOOLEAN, unwatched' \in BOOLEAN,
           incidents' \in 0 .. MaxIncidents
    PROVE  IInv'
<1> USE DEF IInv
<1>1. AllWorking' /\ OneHolder' /\ \A e : Held(e)' <=> Held(e)
  BY ProcStill
<1>2. TypeOK'
  BY DEF TypeOK
<1>3. Ledger'
  BY <1>1, LedgerKept
<1>4. Watched'
  BY WatchedKept
<1> QED
  BY <1>1, <1>2, <1>3, <1>4

(* The watcher's states. *)
LEMMA WatchRecords ==
    ASSUME EventsAssumption
    PROVE  /\ IdleWatch \in Watches /\ IdleWatch.pc = "idle"
           /\ IdleWatch.i = 0 /\ IdleWatch.upto = 0
           /\ Starting \in Watches /\ Starting.pc = "check"
           /\ Starting.i = 0 /\ Starting.upto = 0
           /\ [IdleWatch EXCEPT !.pc = "store"] \in Watches
           /\ [IdleWatch EXCEPT !.pc = "store"].pc = "store"
           /\ [IdleWatch EXCEPT !.pc = "store"].i = 0
           /\ [IdleWatch EXCEPT !.pc = "store"].upto = 0
  BY DEF IdleWatch, Starting, Watches, Times, None, EventsAssumption

(* What the watcher has handled, by where it is. *)
LEMMA HandledBy ==
    ASSUME TypeOK, Watched
    PROVE  /\ watch.pc = "txn" => Handled = watch.i - 1 /\ eventPos <= Handled
           /\ watch.pc = "reply" => Handled = watch.i /\ eventPos < Handled
           /\ watch.pc \notin {"txn", "reply"} => Handled = eventPos
           /\ Handled \in Nat /\ eventPos \in Nat /\ eventPos <= Handled
           /\ storedPos \in Nat /\ storedPos <= eventPos /\ Len(deltas) \in Nat
  BY DEF TypeOK, Watched, Handled, Watches

(* notify_new_event starts the watcher. *)
LEMMA NotifyKeeps ==
    ASSUME EventsAssumption, IInv, NotifyNewEvent
    PROVE  IInv'
<1> USE DEF IInv
<1>1. /\ UNCHANGED <<row, born, now, timer, stale, proc, startup, eventPos, storedPos, deltas,
                     sent, cancelled, marked, again, abandoned, incidents>>
      /\ notified' = FALSE
      /\ \/ watch.pc = "idle" /\ watch' = Starting /\ unwatched' = FALSE
         \/ watch' = watch /\ unwatched' = unwatched
  BY DEF NotifyNewEvent, table, clock, history
<1>2. /\ watch' \in Watches /\ watch'.i <= watch'.upto /\ watch'.upto <= Len(deltas)
      /\ watch'.pc \in {"txn", "reply"} => eventPos' < watch'.i
      /\ Handled' = Handled
  <2>1. CASE watch.pc = "idle" /\ watch' = Starting
    BY <1>1, <2>1, WatchRecords, HandledBy DEF Handled
  <2>2. CASE watch' = watch
    BY <1>1, <2>2 DEF TypeOK, Watched, Handled
  <2> QED
    BY <1>1, <2>1, <2>2
<1>3. Handled' \in Nat /\ Handled' <= Handled
  BY <1>2, HandledBy
<1>4. /\ eventPos' \in 0 .. Len(deltas) /\ storedPos' \in 0 .. eventPos'
      /\ now' \in 1 .. MaxTime /\ timer' \in Times
      /\ marked' \subseteq Events /\ abandoned' \subseteq Events
      /\ notified' \in BOOLEAN /\ stale' \in BOOLEAN /\ unwatched' \in BOOLEAN
      /\ incidents' \in 0 .. MaxIncidents
  BY <1>1 DEF TypeOK
<1>5. startup' \in {"deltas", "unprocess", "timeout", "reading", "done", "failed",
                    "unregistered"}
  BY <1>1 DEF TypeOK
<1> QED
  BY <1>1, <1>2, <1>3, <1>4, <1>5, WatcherStepKeeps

(* The watcher reads the deltas that are new. *)
LEMMA WatchCheckKeeps ==
    ASSUME EventsAssumption, IInv, WatchCheck
    PROVE  IInv'
<1> USE DEF IInv
<1> DEFINE w == [IdleWatch EXCEPT !.pc = "txn", !.i = eventPos + 1, !.upto = Len(deltas)]
<1>1. /\ UNCHANGED <<row, born, now, timer, stale, proc, storedPos, unwatched, deltas,
                     sent, cancelled, marked, again, abandoned, incidents>>
      /\ watch.pc = "check"
      /\ eventPos' = eventPos
      /\ IF eventPos = Len(deltas) THEN watch' = IdleWatch ELSE watch' = w
  BY DEF WatchCheck, table, clock, history, SeenSoFar
<1>2. /\ startup' \in {"deltas", "unprocess", "timeout", "reading", "done", "failed",
                       "unregistered"}
      /\ notified' \in BOOLEAN
  BY DEF WatchCheck, TypeOK
<1>3. eventPos \in 0 .. Len(deltas) /\ Len(deltas) \in Nat /\ None \in Times
  BY DEF TypeOK, None, Times, EventsAssumption
<1>4. /\ w \in Watches /\ w.pc = "txn" /\ w.i = eventPos + 1 /\ w.upto = Len(deltas)
  <2>1. PICK j \in Nat : j = eventPos + 1
    BY <1>3
  <2>2. PICK u \in Nat : u = Len(deltas)
    BY <1>3
  <2>3. w = [IdleWatch EXCEPT !.pc = "txn", !.i = j, !.upto = u]
    BY <2>1, <2>2
  <2> HIDE DEF w
  <2>4. w \in Watches /\ w.pc = "txn" /\ w.i = j /\ w.upto = u
    BY <1>3, <2>3 DEF IdleWatch, Watches
  <2> QED
    BY <2>1, <2>2, <2>4
<1> HIDE DEF w
<1>5. /\ watch' \in Watches /\ watch'.i <= watch'.upto /\ watch'.upto <= Len(deltas)
      /\ watch'.pc \in {"txn", "reply"} => eventPos' < watch'.i
      /\ Handled' = eventPos
  <2>1. CASE eventPos = Len(deltas)
    BY <1>1, <1>3, <2>1, WatchRecords DEF Handled
  <2>2. CASE eventPos # Len(deltas)
    BY <1>1, <1>3, <1>4, <2>2 DEF Handled
  <2> QED
    BY <2>1, <2>2
<1>6. Handled' \in Nat /\ Handled' <= Handled
  BY <1>1, <1>5, HandledBy
<1>7. /\ eventPos' \in 0 .. Len(deltas) /\ storedPos' \in 0 .. eventPos'
      /\ now' \in 1 .. MaxTime /\ timer' \in Times
      /\ marked' \subseteq Events /\ abandoned' \subseteq Events
      /\ stale' \in BOOLEAN /\ unwatched' \in BOOLEAN
      /\ incidents' \in 0 .. MaxIncidents
  BY <1>1 DEF TypeOK
<1> QED
  BY <1>1, <1>2, <1>5, <1>6, <1>7, WatcherStepKeeps

(* The result of a cancellation is applied, and the next delta is looked   *)
(* at.                                                                     *)
LEMMA WatchApplyKeeps ==
    ASSUME EventsAssumption, IInv, WatchApply
    PROVE  IInv'
<1> USE DEF IInv
<1> DEFINE w == [watch EXCEPT !.pc = "txn", !.i = @ + 1, !.next = None]
           v == [IdleWatch EXCEPT !.pc = "store"]
<1>1. /\ UNCHANGED <<row, born, now, proc, startup, storedPos, unwatched, deltas, notified,
                     sent, cancelled, marked, again, abandoned, incidents>>
      /\ watch.pc = "reply"
      /\ timer' = ScheduleNextAtOrNone(watch.next)
      /\ stale' \in BOOLEAN
      /\ IF watch.i < watch.upto THEN watch' = w /\ eventPos' = eventPos
                                 ELSE watch' = v /\ eventPos' = watch.upto
  BY DEF WatchApply, table, stream, history
<1>2. /\ watch \in Watches /\ watch.i \in Nat /\ watch.upto \in Nat /\ watch.next \in Times
      /\ watch.i <= watch.upto /\ watch.upto <= Len(deltas) /\ Len(deltas) \in Nat
  BY DEF TypeOK, Watches
<1>3. timer' \in Times
  BY <1>1, <1>2, ScheduleType
<1>4. /\ w \in Watches /\ w.pc = "txn" /\ w.i = watch.i + 1 /\ w.upto = watch.upto
  <2>1. None \in Times
    BY DEF None, Times, EventsAssumption
  <2>2. ASSUME NEW r \in Watches, NEW z,
               z = [r EXCEPT !.pc = "txn", !.i = @ + 1, !.next = None]
        PROVE  z \in Watches /\ z.pc = "txn" /\ z.i = r.i + 1 /\ z.upto = r.upto
    <3>1. r.i + 1 \in Nat
      BY DEF Watches
    <3> QED
      BY <2>1, <2>2, <3>1 DEF Watches
  <2> QED
    BY <1>2, <2>2
<1>5. v \in Watches /\ v.pc = "store" /\ v.i = 0 /\ v.upto = 0
  BY WatchRecords
<1> HIDE DEF w, v
<1>6. /\ watch' \in Watches /\ watch'.i <= watch'.upto /\ watch'.upto <= Len(deltas)
      /\ watch'.pc \in {"txn", "reply"} => eventPos' < watch'.i
      /\ eventPos' \in 0 .. Len(deltas) /\ storedPos' \in 0 .. eventPos'
      /\ Handled' = watch.i
  <2>1. CASE watch.i < watch.upto
    BY <1>1, <1>2, <1>4, <2>1, HandledBy DEF Handled
  <2>2. CASE ~(watch.i < watch.upto)
    BY <1>1, <1>2, <1>5, <2>2, HandledBy DEF Handled
  <2> QED
    BY <2>1, <2>2
<1>7. Handled' \in Nat /\ Handled' <= Handled
  BY <1>1, <1>2, <1>6, HandledBy
<1>8. /\ now' \in 1 .. MaxTime
      /\ marked' \subseteq Events /\ abandoned' \subseteq Events
      /\ notified' \in BOOLEAN /\ unwatched' \in BOOLEAN
      /\ incidents' \in 0 .. MaxIncidents
  BY <1>1 DEF TypeOK
<1>9. startup' \in {"deltas", "unprocess", "timeout", "reading", "done", "failed",
                    "unregistered"}
  BY <1>1 DEF TypeOK
<1> QED
  BY <1>1, <1>3, <1>6, <1>7, <1>8, <1>9, WatcherStepKeeps

(* The position is stored once all deltas have been handled. *)
LEMMA WatchStoreKeeps ==
    ASSUME EventsAssumption, IInv, WatchStore
    PROVE  IInv'
<1> USE DEF IInv
<1>1. /\ UNCHANGED <<row, born, now, timer, stale, proc, startup, eventPos, unwatched, deltas,
                     notified, sent, cancelled, marked, again, abandoned, incidents>>
      /\ watch.pc = "store" /\ watch' = Starting /\ storedPos' = eventPos
  BY DEF WatchStore, table, clock, stream, history
<1>2. Handled' = eventPos
  BY <1>1, WatchRecords DEF Handled
<1>3. /\ Handled' \in Nat /\ Handled' <= Handled
      /\ eventPos' \in 0 .. Len(deltas) /\ storedPos' \in 0 .. eventPos'
  BY <1>1, <1>2, HandledBy DEF TypeOK
<1>4. /\ watch' \in Watches /\ watch'.i <= watch'.upto /\ watch'.upto <= Len(deltas)
      /\ watch'.pc \in {"txn", "reply"} => eventPos' < watch'.i
  BY <1>1, WatchRecords, HandledBy
<1>5. /\ now' \in 1 .. MaxTime /\ timer' \in Times
      /\ marked' \subseteq Events /\ abandoned' \subseteq Events
      /\ notified' \in BOOLEAN /\ stale' \in BOOLEAN /\ unwatched' \in BOOLEAN
      /\ incidents' \in 0 .. MaxIncidents
  BY <1>1 DEF TypeOK
<1>6. startup' \in {"deltas", "unprocess", "timeout", "reading", "done", "failed",
                    "unregistered"}
  BY <1>1 DEF TypeOK
<1> QED
  BY <1>1, <1>3, <1>4, <1>5, <1>6, WatcherStepKeeps

(* The watcher raises: the deltas are handled again. *)
LEMMA WatchFailsKeeps ==
    ASSUME EventsAssumption, IInv, WatchFails
    PROVE  IInv'
<1> USE DEF IInv
<1>1. /\ UNCHANGED <<row, born, now, timer, proc, eventPos, storedPos, deltas, notified,
                     sent, cancelled, marked, again>>
      /\ watch' = IdleWatch /\ unwatched' = TRUE /\ Incident
      /\ startup' \in {startup, "unregistered"} /\ stale' \in BOOLEAN
      /\ abandoned' \subseteq abandoned \cup WithStatus(row, "processed")
  BY DEF WatchFails, table, stream, TypeOK
<1>2. Handled' = eventPos
  BY <1>1, WatchRecords DEF Handled
<1>3. /\ Handled' \in Nat /\ Handled' <= Handled
      /\ eventPos' \in 0 .. Len(deltas) /\ storedPos' \in 0 .. eventPos'
  BY <1>1, <1>2, HandledBy DEF TypeOK
<1>4. /\ watch' \in Watches /\ watch'.i <= watch'.upto /\ watch'.upto <= Len(deltas)
      /\ watch'.pc \in {"txn", "reply"} => eventPos' < watch'.i
  BY <1>1, WatchRecords, HandledBy
<1>5. /\ now' \in 1 .. MaxTime /\ timer' \in Times
      /\ marked' \subseteq Events /\ abandoned' \subseteq Events
      /\ notified' \in BOOLEAN /\ unwatched' \in BOOLEAN
      /\ incidents' \in 0 .. MaxIncidents
  BY <1>1, IncidentType DEF TypeOK, WithStatus
<1>6. startup' \in {"deltas", "unprocess", "timeout", "reading", "done", "failed",
                    "unregistered"}
  BY <1>1 DEF TypeOK
<1> QED
  BY <1>1, <1>3, <1>4, <1>5, <1>6, WatcherStepKeeps

(* Failures at startup and of the timer, and the clock. *)
LEMMA OthersKeep ==
    ASSUME EventsAssumption, IInv, StartupFails \/ TimeoutFails \/ Tick
    PROVE  IInv'
<1> USE DEF IInv
<1>1. /\ UNCHANGED <<row, born, proc, watch, eventPos, storedPos, unwatched, deltas,
                     notified, sent, cancelled, marked, again>>
      /\ startup' \in {startup, "failed"}
      /\ timer' \in {timer, None}
      /\ abandoned' \subseteq abandoned \cup WithStatus(row, "processed")
      /\ Incident \/ incidents' = incidents
      /\ now' = now \/ (now < MaxTime /\ now' = now + 1)
  BY DEF StartupFails, TimeoutFails, Tick, table, clock, watcher, stream, history
<1>2. stale' \in BOOLEAN
  BY DEF StartupFails, TimeoutFails, Tick, TypeOK
<1>3. Handled' = Handled
  BY <1>1 DEF Handled
<1>4. /\ Handled' \in Nat /\ Handled' <= Handled
      /\ eventPos' \in 0 .. Len(deltas) /\ storedPos' \in 0 .. eventPos'
      /\ watch' \in Watches /\ watch'.i <= watch'.upto /\ watch'.upto <= Len(deltas)
      /\ watch'.pc \in {"txn", "reply"} => eventPos' < watch'.i
  BY <1>1, <1>3, HandledBy DEF TypeOK, Watched
<1>5. now' \in 1 .. MaxTime
  BY <1>1 DEF TypeOK, EventsAssumption
<1>6. timer' \in Times
  BY <1>1 DEF TypeOK, None, Times, EventsAssumption
<1>7. /\ marked' \subseteq Events /\ abandoned' \subseteq Events
      /\ notified' \in BOOLEAN /\ unwatched' \in BOOLEAN
      /\ incidents' \in 0 .. MaxIncidents
  BY <1>1, IncidentType DEF TypeOK, WithStatus
<1>8. startup' \in {"deltas", "unprocess", "timeout", "reading", "done", "failed",
                    "unregistered"}
  BY <1>1 DEF TypeOK
<1> QED
  BY <1>1, <1>2, <1>4, <1>5, <1>6, <1>7, <1>8, WatcherStepKeeps

(* A delta cancels what it hits among the events that wait. *)
LEMMA WatchCancelKeeps ==
    ASSUME EventsAssumption, IInv, WatchCancel
    PROVE  IInv'
<1> USE DEF IInv
<1> DEFINE V == Victims(row, deltas[watch.i])
           w == [watch EXCEPT !.pc = "reply", !.next = NextSendTs(row')]
<1>1. /\ UNCHANGED <<born, now, timer, stale, proc, startup, eventPos, storedPos, unwatched,
                     deltas, notified, sent, marked, again, abandoned, incidents>>
      /\ watch.pc = "txn" /\ watch' = w
      /\ row' = [e \in Events |-> IF e \in V THEN Gone ELSE row[e]]
      /\ cancelled' = cancelled \cup V
  BY DEF WatchCancel, clock, stream
<1>2. \A e \in V : e \in Events /\ row[e].status = "waiting"
  BY DEF Victims, WithStatus
<1>3. \A e \in Events : row[e].status = "waiting" /\ e \notin V => ~Hits(deltas[watch.i], e)
  BY DEF Victims, WithStatus
<1> HIDE DEF V
<1>4. row \in Rows
  BY DEF TypeOK, Rows
<1>5. Gone \in [status : {"none", "waiting", "processed", "gone"}, ts : Times] /\ Gone.status = "gone"
  BY DEF Gone, None, Times, EventsAssumption
<1>6. /\ row' \in Rows
      /\ \A e \in Events : /\ e \in V => row'[e].status = "gone"
                           /\ e \notin V => row'[e] = row[e]
  BY <1>1, <1>4, <1>5 DEF Rows
<1>7. w \in Watches /\ w.pc = "reply" /\ w.i = watch.i /\ w.upto = watch.upto
  <2>1. PICK n \in Times : n = NextSendTs(row')
    BY <1>6, NextSendTsType
  <2>2. w = [watch EXCEPT !.pc = "reply", !.next = n]
    BY <2>1
  <2> HIDE DEF w
  <2>3. watch \in Watches
    BY DEF TypeOK
  <2> QED
    BY <2>2, <2>3 DEF Watches
<1> HIDE DEF w
<1>8. AllWorking' /\ OneHolder' /\ \A e : Held(e)' <=> Held(e)
  BY <1>1, ProcStill
<1>9. TypeOK'
  <2>1. cancelled' \subseteq Events
    BY <1>1, <1>2 DEF TypeOK
  <2>2. watch' \in Watches /\ watch'.i <= watch'.upto /\ watch'.upto <= Len(deltas')
    BY <1>1, <1>7 DEF TypeOK
  <2> QED
    BY <1>1, <1>6, <2>1, <2>2 DEF TypeOK, Rows
<1>10. Ledger'
  <2> SUFFICES ASSUME NEW x \in Events, x \notin again
               PROVE  /\ sent[x] <= 1
                      /\ Held(x) => /\ sent[x] = 0 /\ x \notin cancelled'
                                    /\ row'[x].status \in {"processed", "gone"}
                      /\ row'[x].status \in {"none", "waiting"} => sent[x] = 0
                      /\ x \in cancelled' => row'[x].status = "gone" /\ sent[x] = 0
    BY <1>1, <1>8 DEF Ledger
  <2>1. CASE x \in V
    <3>1. sent[x] = 0 /\ ~Held(x) /\ row'[x].status = "gone"
      BY <1>2, <1>6, <2>1 DEF Ledger
    <3> QED
      BY <3>1
  <2>2. CASE x \notin V
    <3>1. row'[x] = row[x] /\ (x \in cancelled' <=> x \in cancelled)
      BY <1>1, <1>6, <2>2
    <3> QED
      BY <3>1 DEF Ledger
  <2> QED
    BY <2>1, <2>2
<1>11. Watched'
  <2>1. Handled' = watch.i /\ Handled = watch.i - 1 /\ eventPos < watch.i /\ watch.i \in Nat
    BY <1>1, <1>7 DEF Handled, Watched, TypeOK, Watches
  <2> SUFFICES ASSUME NEW x \in WithStatus(row', "waiting") \ again,
                      NEW i \in (born[x] + 1) .. watch.i
               PROVE  ~Hits(deltas[i], x)
    BY <1>1, <1>7, <2>1 DEF Watched
  <2>2. x \in Events /\ x \notin V /\ row[x].status = "waiting"
    BY <1>6 DEF WithStatus
  <2>3. born[x] \in Nat
    BY <2>2 DEF TypeOK
  <2>4. CASE i = watch.i
    BY <1>3, <2>2, <2>4
  <2>5. CASE i # watch.i
    <3>1. i \in (born[x] + 1) .. Handled
      BY <2>1, <2>3, <2>5
    <3> QED
      BY <2>2, <3>1 DEF Watched, WithStatus
  <2> QED
    BY <2>4, <2>5
<1> QED
  BY <1>8, <1>9, <1>10, <1>11

(* Processed events wait again, and are known to have been unmarked. *)
LEMMA UnprocessKeeps ==
    ASSUME EventsAssumption, IInv, Unprocess
    PROVE  IInv'
<1> USE DEF IInv
<1>1. /\ UNCHANGED <<born, now, timer, stale, proc, watcher, deltas, notified, sent, cancelled,
                     marked, abandoned, incidents>>
      /\ startup' = "timeout"
      /\ row' = [e \in Events |-> IF row[e].status = "processed"
                                  THEN [row[e] EXCEPT !.status = "waiting"] ELSE row[e]]
      /\ again' = again \cup WithStatus(row, "processed")
  BY DEF Unprocess, Unprocessed, clock, stream
<1>2. row \in Rows
  BY DEF TypeOK, Rows
<1>3. row' \in Rows
  BY <1>1, <1>2 DEF Rows
<1>4. \A e \in Events : e \in again' \/ row'[e] = row[e]
  BY <1>1 DEF WithStatus
<1>5. again \subseteq again' /\ again' \subseteq Events
  BY <1>1 DEF TypeOK, WithStatus
<1>6. AllWorking' /\ OneHolder' /\ \A e : Held(e)' <=> Held(e)
  BY <1>1, <1>5, ProcStill
<1>7. TypeOK'
  <2>1. /\ sent' \in [Events -> Nat] /\ cancelled' \subseteq Events
        /\ abandoned' \subseteq Events /\ timer' \in Times
        /\ stale' \in BOOLEAN /\ incidents' \in 0 .. MaxIncidents
        /\ proc' \in [Processes -> Procs]
    BY <1>1 DEF TypeOK, Processes
  <2> QED
    BY <1>1, <1>3, <1>5, <2>1, TypeKept
<1>8. Ledger'
  BY <1>1, <1>4, <1>5, <1>6, LedgerKept
<1>9. Watched'
  <2>1. \A x \in WithStatus(row', "waiting") \ again' :
           x \in WithStatus(row, "waiting") /\ born'[x] = born[x]
    BY <1>1, <1>4 DEF WithStatus
  <2>2. watch' = watch /\ eventPos' = eventPos /\ deltas' = deltas
    BY <1>1 DEF watcher
  <2> QED
    BY <1>5, <2>1, <2>2, WatcherStill
<1> QED
  BY <1>6, <1>7, <1>8, <1>9

(* A crash ends what was being sent; the watcher goes back to what it stored. *)
LEMMA CrashKeeps ==
    ASSUME EventsAssumption, IInv, Crash
    PROVE  IInv'
<1> USE DEF IInv
<1>1. /\ UNCHANGED <<row, born, now, stale, storedPos, deltas, sent, cancelled, again>>
      /\ timer' = None /\ startup' = "deltas" /\ watch' = Starting
      /\ eventPos' = storedPos /\ notified' = FALSE /\ unwatched' = FALSE
      /\ abandoned' = {} /\ marked' = marked \cup WithStatus(row, "processed")
      /\ Incident
      /\ proc' = [p \in DOMAIN proc |->
                    IF proc[p].op = "add" THEN proc[p] ELSE IdleProc]
  BY DEF Crash, table
<1>2. proc \in [Processes -> Procs]
  BY DEF TypeOK, Processes
<1>3. ASSUME NEW p \in Processes
      PROVE  /\ proc'[p] \in Procs
             /\ Working(proc'[p])
             /\ Holds(proc'[p]) = {}
  <2>1. CASE proc[p].op = "add"
    <3>1. proc'[p] = proc[p] /\ Undone(proc[p]) = {}
      BY <1>1, <1>2, <2>1 DEF Undone, Sending
    <3> QED
      BY <1>2, <3>1 DEF Holds, AllWorking
  <2>2. CASE proc[p].op # "add"
    BY <1>1, <1>2, <2>2, IdleFacts
  <2> QED
    BY <2>1, <2>2
<1>4. proc' \in [Processes -> Procs]
  BY <1>1, <1>2, <1>3
<1>5. AllWorking' /\ OneHolder' /\ \A e : ~Held(e)'
  BY <1>3 DEF AllWorking, OneHolder, Held
<1>6. TypeOK'
  <2>1. /\ watch' \in Watches /\ watch'.i <= watch'.upto /\ watch'.upto <= Len(deltas')
        /\ eventPos' \in 0 .. Len(deltas') /\ storedPos' \in 0 .. eventPos'
    BY <1>1, WatchRecords, HandledBy DEF TypeOK
  <2>2. incidents' \in 0 .. MaxIncidents
    BY <1>1, IncidentType
  <2>3. timer' \in Times
    BY <1>1 DEF None, Times, EventsAssumption
  <2>4. marked' \subseteq Events
    BY <1>1 DEF TypeOK, WithStatus
  <2> QED
    BY <1>1, <1>4, <2>1, <2>2, <2>3, <2>4 DEF TypeOK, Processes
<1>7. Ledger'
  BY <1>1, <1>5, LedgerKept
<1>8. Watched'
  <2>1. Handled' = storedPos
    BY <1>1, WatchRecords DEF Handled
  <2>2. Handled' \in Nat /\ Handled' <= Handled
    BY <2>1, HandledBy
  <2>3. ~(watch'.pc \in {"txn", "reply"})
    BY <1>1, WatchRecords
  <2> QED
    BY <1>1, <2>2, <2>3, WatchedKept
<1> QED
  BY <1>5, <1>6, <1>7, <1>8
--------------------------------------------------------------------------------
(***************************************************************************)
(* The results.                                                            *)
(***************************************************************************)

(* The invariant holds at the start. *)
LEMMA InitIInv ==
    ASSUME EventsAssumption, Init
    PROVE  IInv
<1>1. TypeOK
  <2>1. NoRow \in [status : {"none", "waiting", "processed", "gone"}, ts : Times]
    BY DEF NoRow, None, Times, EventsAssumption
  <2>2. deltas \in Seq(Deltas) /\ Len(deltas) = 0
    BY EmptySeq DEF Init
  <2>3. None \in Times
    BY DEF None, Times, EventsAssumption
  <2>4. /\ watch \in Watches /\ watch.i <= watch.upto /\ watch.upto <= Len(deltas)
    BY <2>2, WatchRecords DEF Init
  <2>5. now \in 1 .. MaxTime /\ incidents \in 0 .. MaxIncidents
    BY DEF Init, EventsAssumption
  <2>6. born \in [Events -> 0 .. Len(deltas)] /\ eventPos \in 0 .. Len(deltas)
        /\ storedPos \in 0 .. eventPos
    BY <2>2 DEF Init
  <2> QED
    BY <2>1, <2>2, <2>3, <2>4, <2>5, <2>6, IdleFacts DEF Init, TypeOK
<1>2. \A p \in Processes : proc[p] = IdleProc
  BY DEF Init, Processes
<1>3. AllWorking /\ OneHolder /\ \A e : ~Held(e)
  BY <1>2, IdleFacts DEF AllWorking, OneHolder, Held
<1>4. Ledger
  BY <1>3 DEF Ledger, Init, NoRow
<1>5. Watched
  BY WatchRecords DEF Watched, Init, WithStatus, NoRow
<1> QED
  BY <1>1, <1>3, <1>4, <1>5 DEF IInv

(* A step that changes nothing keeps the invariant. *)
LEMMA StutterKeeps ==
    ASSUME IInv, UNCHANGED vars
    PROVE  IInv'
<1> USE DEF IInv
<1>1. /\ UNCHANGED <<row, born, now, timer, stale, proc, startup, watch, eventPos, storedPos,
                     unwatched, deltas, notified, sent, cancelled, marked, again, abandoned,
                     incidents>>
  BY DEF vars, table, clock, watcher, stream, history
<1>2. TypeOK'
  BY <1>1 DEF TypeOK
<1>3. AllWorking' /\ OneHolder' /\ \A e : Held(e)' <=> Held(e)
  BY <1>1, ProcStill
<1>4. Ledger'
  BY <1>1, <1>3, LedgerKept
<1>5. Watched'
  BY <1>1, WatcherStill
<1> QED
  BY <1>2, <1>3, <1>4, <1>5

(* Every step keeps the invariant. *)
LEMMA NextKeeps ==
    ASSUME EventsAssumption, IInv, [Next]_vars
    PROVE  IInv'
<1>1. ASSUME NEW p \in Processes, ProcStep(p)
      PROVE  IInv'
  BY <1>1, ApplyKeeps, SkipKeeps, SendEventKeeps, DeleteSentKeeps, PurgeKeeps DEF ProcStep
<1>2. ASSUME NEW p \in Processes,
             SendFails(p) \/ GuestCheckFails(p) \/ DeleteFails(p) \/ PurgeFails(p)
               \/ ReplyLost(p)
      PROVE  IInv'
  BY <1>2, FailureKeeps, PurgeFailsKeeps, ReplyLostKeeps
<1>3. ASSUME WatchStep
      PROVE  IInv'
  BY <1>3, WatchCheckKeeps, WatchCancelKeeps, WatchApplyKeeps, WatchStoreKeeps DEF WatchStep
<1>4. ASSUME NEW u \in Others, NEW k \in {KeyOf[e] : e \in Events} \ {NoKey}, StateChange(u, k)
      PROVE  IInv'
  BY <1>4, StateChangeKeeps DEF Keys
<1> QED
  BY <1>1, <1>2, <1>3, <1>4, CallKeeps, TimerFiresKeeps, InitialTimeoutKeeps, NotifyKeeps,
     WatchFailsKeeps, UnprocessKeeps, OthersKeep, CrashKeeps, StutterKeeps
  DEF Next, Processes

(* The inductive invariant. *)
LEMMA Invariance ==
    ASSUME EventsAssumption
    PROVE  Spec => []IInv
<1>1. Init => IInv
  BY InitIInv
<1>2. IInv /\ [Next]_vars => IInv'
  BY NextKeeps
<1> QED
  BY <1>1, <1>2, PTL DEF Spec

(***************************************************************************)
(* The handler's and the store's state keeps its types: in particular a    *)
(* process works on a sequence of events, and the watcher's positions stay *)
(* within the deltas.                                                      *)
(***************************************************************************)
THEOREM TypeCorrect ==
    ASSUME EventsAssumption
    PROVE  Spec => []TypeOK
<1>1. IInv => TypeOK
  BY DEF IInv
<1> QED
  BY <1>1, Invariance, PTL

(***************************************************************************)
(* However calls, the timer, the watcher, failures and restarts            *)
(* interleave, an event is sent once or cancelled, not both, unless        *)
(* unprocess_delayed_events unmarked it.                                   *)
(***************************************************************************)
THEOREM EachEventHasOneOutcome ==
    ASSUME EventsAssumption
    PROVE  Spec => []OneOutcome
<1>1. ASSUME IInv
      PROVE  OneOutcome
  <2> SUFFICES ASSUME NEW e \in Events, e \notin again
               PROVE  Outcomes(e) <= 1
    BY DEF OneOutcome
  <2>1. sent[e] \in Nat /\ sent[e] <= 1 /\ (e \in cancelled => sent[e] = 0)
    BY <1>1 DEF IInv, TypeOK, Ledger
  <2> QED
    BY <2>1 DEF Outcomes
<1> QED
  BY <1>1, Invariance, PTL

(***************************************************************************)
(* A delta up to _event_pos has cancelled what it hits of the events that  *)
(* were added before it, also when the watcher failed in between or the    *)
(* process crashed and went back to the position it had stored.            *)
(***************************************************************************)
THEOREM ChangesOfStateWin ==
    ASSUME EventsAssumption
    PROVE  Spec => []StateWins
<1>1. ASSUME IInv
      PROVE  StateWins
  <2> SUFFICES ASSUME NEW e \in WithStatus(row, "waiting") \ again,
                      NEW i \in (born[e] + 1) .. eventPos
               PROVE  ~Hits(deltas[i], e)
    BY DEF StateWins
  <2>1. eventPos \in Nat /\ Handled \in Nat /\ eventPos <= Handled
    BY <1>1, HandledBy DEF IInv
  <2>2. born[e] \in Nat
    BY <1>1 DEF IInv, TypeOK, WithStatus
  <2>3. i \in (born[e] + 1) .. Handled
    BY <2>1, <2>2
  <2> QED
    BY <1>1, <2>3 DEF IInv, Watched
<1> QED
  BY <1>1, Invariance, PTL
--------------------------------------------------------------------------------
(***************************************************************************)
(* The timer.  A row that waits, or may wait again, has a send time after  *)
(* None, so that NextSendTs is None only when nothing waits.               *)
(***************************************************************************)
Timed == \A e \in Events : row[e].status \in {"waiting", "processed"} => row[e].ts # None

TInv == Timed /\ TimerCovers

(* The rows that wait, and when, determine the next send time. *)
SameWaiting ==
    /\ WithStatus(row', "waiting") = WithStatus(row, "waiting")
    /\ \A e \in WithStatus(row, "waiting") : row'[e].ts = row[e].ts

(* If the same events wait, with the same times, the next send time is     *)
(* the same.                                                               *)
LEMMA SameNext ==
    ASSUME SameWaiting
    PROVE  NextSendTs(row') = NextSendTs(row)
<1>1. {row'[e].ts : e \in WithStatus(row, "waiting")}
        = {row[e].ts : e \in WithStatus(row, "waiting")}
  BY DEF SameWaiting
<1> QED
  BY <1>1 DEF SameWaiting, NextSendTs

(* Nothing that the timer depends on is disturbed. *)
LEMMA TimerStill ==
    ASSUME TypeOK, TimerCovers, SameWaiting, timer' = timer,
           now' \in Nat, now <= now', ~stale' => ~stale, Quiet' => Quiet
    PROVE  TimerCovers'
<1>1. NextSendTs(row') = NextSendTs(row)
  BY SameNext
<1> SUFFICES ASSUME Quiet, ~stale, WithStatus(row, "waiting") # {}
             PROVE  timer # None /\ (timer <= now' \/ timer <= NextSendTs(row))
  BY <1>1 DEF TimerCovers, TimerSet, SameWaiting
<1>2. timer # None /\ (timer <= now \/ timer <= NextSendTs(row))
  BY DEF TimerCovers, TimerSet
<1>3. timer \in Nat /\ now \in Nat
  BY DEF TypeOK, Times
<1> QED
  BY <1>2, <1>3

(* The next send time is that of a row that waits. *)
LEMMA NextOfWaiting ==
    ASSUME EventsAssumption, TypeOK, WithStatus(row, "waiting") # {}
    PROVE  \E e \in WithStatus(row, "waiting") : NextSendTs(row) = row[e].ts
<1> DEFINE S == {row[e].ts : e \in WithStatus(row, "waiting")}
<1>1. \A e \in WithStatus(row, "waiting") : row[e].ts \in Times
  BY DEF TypeOK, WithStatus
<1>2. S \subseteq Nat /\ S # {}
  BY <1>1 DEF Times, EventsAssumption
<1>3. NextSendTs(row) = Min(S)
  BY DEF NextSendTs
<1> HIDE DEF S
<1>4. NextSendTs(row) \in S
  BY <1>2, <1>3, MinElement
<1> QED
  BY <1>4 DEF S

(* The result of the last transaction sets the timer. *)
LEMMA TimerIsSet ==
    ASSUME EventsAssumption, TypeOK, Timed,
           NEW ts, ts = NextSendTs(row), WithStatus(row, "waiting") # {},
           timer' = ScheduleNextAtOrNone(ts)
    PROVE  timer' # None /\ (timer' <= now \/ timer' <= NextSendTs(row))
<1>1. PICK e \in WithStatus(row, "waiting") : ts = row[e].ts
  BY NextOfWaiting
<1>2. ts # None /\ ts \in Nat /\ now \in Nat /\ now # None
  BY <1>1 DEF Timed, WithStatus, TypeOK, Times, EventsAssumption, None
<1> QED
  BY <1>2 DEF ScheduleNextAtOrNone

(* An unchanged table. *)
LEMMA SameTable ==
    ASSUME Timed, row' = row
    PROVE  Timed' /\ SameWaiting
  BY DEF Timed, SameWaiting

(* Processed rows go, and nothing else. *)
LEMMA ProcessedGo ==
    ASSUME Timed,
           \A e \in Events : \/ row'[e] = row[e]
                             \/ row[e].status = "processed" /\ row'[e].status = "gone"
    PROVE  Timed' /\ SameWaiting
<1>1. Timed'
  BY DEF Timed
<1>2. \A e \in Events : row'[e].status = "waiting" <=> row[e].status = "waiting"
  OBVIOUS
<1>3. WithStatus(row', "waiting") = WithStatus(row, "waiting")
  BY <1>2 DEF WithStatus
<1>4. \A e \in WithStatus(row, "waiting") : row'[e].ts = row[e].ts
  BY DEF WithStatus
<1> QED
  BY <1>1, <1>3, <1>4 DEF SameWaiting

(* Where p stops working, all was quiet before. *)
LEMMA QuietBefore ==
    ASSUME TypeOK, NEW p \in Processes, NEW c, proc' = [proc EXCEPT ![p] = c],
           proc[p].pc # "reply", watch' = watch, startup' = startup, Quiet'
    PROVE  Quiet
<1>1. DOMAIN proc = Processes /\ DOMAIN proc' = Processes
  BY DEF TypeOK, Processes
<1>2. \A q \in Processes : q # p => proc'[q] = proc[q]
  BY <1>1
<1> QED
  BY <1>1, <1>2 DEF Quiet

(* After a transaction a result is on its way. *)
LEMMA TransactionTimed ==
    ASSUME EventsAssumption, TypeOK, Timed, NEW p \in Processes,
           \/ \E e \in Events, op \in {"add", "restart", "cancel", "send"} : Call(p, op, e)
           \/ TimerFires(p)
           \/ InitialTimeout(p)
    PROVE  Timed' /\ ~Quiet'
<1>1. row \in Rows /\ DOMAIN proc = Processes
  BY DEF TypeOK, Rows, Processes
<1>2. ASSUME NEW c, c.pc = "reply", proc' = [proc EXCEPT ![p] = c]
      PROVE  ~Quiet'
  <2>1. p \in DOMAIN proc' /\ proc'[p].pc = "reply"
    BY <1>1, <1>2
  <2> QED
    BY <2>1 DEF Quiet
<1>3. ASSUME NEW op, NEW list, Result(p, op, list)
      PROVE  ~Quiet'
  <2> DEFINE c == [IdleProc EXCEPT !.pc = "reply", !.op = op, !.list = list,
                                   !.next = NextSendTs(row')]
  <2>1. proc' = [proc EXCEPT ![p] = c]
    BY <1>3 DEF Result
  <2>2. c.pc = "reply"
    BY DEF IdleProc
  <2> HIDE DEF c
  <2> QED
    BY <1>2, <2>1, <2>2
<1>4. ASSUME NEW e \in Events, NEW op \in {"add", "restart", "cancel", "send"}, Call(p, op, e)
      PROVE  Timed' /\ ~Quiet'
  <2>1. row' = [row EXCEPT ![e] = Written(op, e)] /\ Result(p, op, <<e>>) /\ Found(op, e)
    BY <1>4 DEF Call
  <2>2. Written(op, e).status \in {"waiting", "processed"} => Written(op, e).ts # None
    <3>1. CASE op \in {"add", "restart"}
      <4>1. now \in Nat \ {0} /\ DelayOf[e] \in Nat
        BY DEF TypeOK, EventsAssumption
      <4> QED
        BY <3>1, <4>1 DEF Written, None
    <3>2. CASE op = "cancel"
      BY <3>2 DEF Written, Gone
    <3>3. CASE op = "send"
      <4>1. row[e] \in [status : {"none", "waiting", "processed", "gone"}, ts : Times]
        BY <1>1 DEF Rows
      <4>2. row[e].status = "waiting"
        BY <2>1, <3>3 DEF Found
      <4>3. Written(op, e).ts = row[e].ts
        BY <3>3, <4>1 DEF Written
      <4> QED
        BY <4>2, <4>3 DEF Timed
    <3> QED
      BY <3>1, <3>2, <3>3
  <2>3. \A x \in Events : row'[x] = IF x = e THEN Written(op, e) ELSE row[x]
    BY <1>1, <2>1 DEF Rows
  <2> QED
    BY <1>3, <2>1, <2>2, <2>3 DEF Timed
<1>5. ASSUME NEW op, ProcessTimeout(p, op)
      PROVE  Timed' /\ ~Quiet'
  <2>1. ~Quiet'
    BY <1>3, <1>5 DEF ProcessTimeout
  <2>2. ASSUME NEW x \in Events, row'[x].status \in {"waiting", "processed"}
        PROVE  row'[x].ts # None
    <3>1. row[x] \in [status : {"none", "waiting", "processed", "gone"}, ts : Times]
      BY <1>1 DEF Rows
    <3>2. row'[x] = IF x \in Due THEN [row[x] EXCEPT !.status = "processed"] ELSE row[x]
      BY <1>5 DEF ProcessTimeout
    <3>3. x \in Due => row[x].status = "waiting"
      BY DEF Due, WithStatus
    <3>4. row'[x].ts = row[x].ts
      BY <3>1, <3>2
    <3>5. row[x].status \in {"waiting", "processed"}
      BY <2>2, <3>2, <3>3
    <3> QED
      BY <3>4, <3>5 DEF Timed
  <2> QED
    BY <2>1, <2>2 DEF Timed
<1> QED
  BY <1>4, <1>5 DEF TimerFires, InitialTimeout

(* The result arrives, and the timer is set to it. *)
LEMMA ApplyTimed ==
    ASSUME EventsAssumption, TypeOK, Timed, NEW p \in Processes, Apply(p)
    PROVE  Timed' /\ TimerCovers'
<1>1. row' = row /\ now' = now
  BY DEF Apply, table
<1>2. ASSUME ~stale', WithStatus(row, "waiting") # {}
      PROVE  timer' # None /\ (timer' <= now \/ timer' <= NextSendTs(row))
  <2>1. proc[p].next = NextSendTs(row)
    BY <1>2 DEF Apply
  <2>2. NextSendTs(row) # None
    <3>2. PICK e \in WithStatus(row, "waiting") : NextSendTs(row) = row[e].ts
      BY <1>2, NextOfWaiting
    <3> QED
      BY <3>2 DEF Timed, WithStatus
  <2>3. timer' = ScheduleNextAtOrNone(NextSendTs(row))
    BY <2>1, <2>2 DEF Apply
  <2> QED
    BY <1>2, <2>3, TimerIsSet
<1> QED
  BY <1>1, <1>2, SameTable DEF TimerCovers, TimerSet

(* The watcher's result sets the timer, or is stale. *)
LEMMA WatchApplyTimed ==
    ASSUME EventsAssumption, TypeOK, Timed, WatchApply
    PROVE  Timed' /\ TimerCovers'
<1>1. /\ row' = row /\ now' = now
      /\ timer' = ScheduleNextAtOrNone(watch.next)
      /\ ~stale' => watch.next = NextSendTs(row)
  BY DEF WatchApply, table
<1>2. ASSUME ~stale', WithStatus(row, "waiting") # {}
      PROVE  timer' # None /\ (timer' <= now \/ timer' <= NextSendTs(row))
  BY <1>1, <1>2, TimerIsSet
<1> QED
  BY <1>1, <1>2, SameTable DEF TimerCovers, TimerSet

(* Sending and deleting leave the rows that wait alone. *)
LEMMA SendingTimed ==
    ASSUME EventsAssumption, IInv, TInv, NEW p \in Processes,
           \/ Skip(p) \/ SendEvent(p) \/ DeleteSent(p) \/ Purge(p)
           \/ SendFails(p) \/ GuestCheckFails(p) \/ DeleteFails(p) \/ PurgeFails(p)
    PROVE  TInv'
<1>0. TypeOK /\ proc \in [Processes -> Procs] /\ now \in Nat
  BY DEF IInv, TypeOK, Processes
<1>1. PICK c : proc' = [proc EXCEPT ![p] = c]
  <2>1. \A x : [proc EXCEPT ![p].pc = x] = [proc EXCEPT ![p] = [proc[p] EXCEPT !.pc = x]]
    BY <1>0
  <2>2. \A x, y : [proc EXCEPT ![p].pc = x, ![p].keys = @ \cup y]
                    = [proc EXCEPT ![p] = [proc[p] EXCEPT !.pc = x, !.keys = @ \cup y]]
    BY <1>0
  <2> QED
    BY <2>1, <2>2
    DEF Skip, SendEvent, DeleteSent, Purge, SendFails, GuestCheckFails, DeleteFails,
        PurgeFails, GoOn, AfterDelete
<1>2. /\ proc[p].pc \in {"send", "delete", "purge"}
      /\ UNCHANGED <<now, timer, stale, startup, watch>>
  BY DEF Skip, SendEvent, DeleteSent, Purge, SendFails, GuestCheckFails, DeleteFails,
         PurgeFails, clock, watcher
<1>3. \A e \in Events : \/ row'[e] = row[e]
                        \/ row[e].status = "processed" /\ row'[e].status = "gone"
  <2>1. Gone.status = "gone" /\ row \in Rows
    BY <1>0 DEF Gone, TypeOK, Rows
  <2>2. CASE DeleteSent(p)
    BY <2>1, <2>2 DEF DeleteSent, Rows
  <2>3. CASE Purge(p)
    BY <2>1, <2>3 DEF Purge, ToPurge, WithStatus
  <2>4. CASE ~DeleteSent(p) /\ ~Purge(p)
    BY <2>4 DEF Skip, SendEvent, SendFails, GuestCheckFails, DeleteFails, PurgeFails, table
  <2> QED
    BY <2>2, <2>3, <2>4
<1>4. Timed' /\ SameWaiting
  BY <1>3, ProcessedGo DEF TInv
<1>5. Quiet' => Quiet
  BY <1>0, <1>1, <1>2, QuietBefore
<1>6. now' \in Nat /\ now <= now'
  BY <1>0, <1>2
<1>7. TimerCovers'
  BY <1>0, <1>2, <1>4, <1>5, <1>6, TimerStill DEF TInv
<1> QED
  BY <1>4, <1>7 DEF TInv

(* The table stays, and either all was quiet or it is not yet. *)
LEMMA StillTimed ==
    ASSUME IInv, TInv, row' = row,
           timer' = timer \/ stale', now' = now \/ now' = now + 1,
           ~stale' => ~stale, Quiet' /\ ~stale' => Quiet
    PROVE  TInv'
<1>1. Timed' /\ SameWaiting
  BY SameTable DEF TInv
<1>2. CASE stale' \/ ~Quiet'
  BY <1>1, <1>2 DEF TInv, TimerCovers
<1>3. CASE ~stale' /\ Quiet'
  <2>1. now' \in Nat /\ now <= now'
    BY DEF IInv, TypeOK
  <2>2. timer' = timer /\ TypeOK
    BY <1>3 DEF IInv
  <2>3. TimerCovers'
    BY <1>1, <1>3, <2>1, <2>2, TimerStill DEF TInv
  <2> QED
    BY <1>1, <2>3 DEF TInv
<1> QED
  BY <1>2, <1>3

(* Everything else. *)
LEMMA OthersTimed ==
    ASSUME EventsAssumption, IInv, TInv,
           \/ \E p \in Processes : ReplyLost(p)
           \/ \E u \in Others, k \in Keys : StateChange(u, k)
           \/ NotifyNewEvent \/ WatchCheck \/ WatchStore \/ WatchFails
           \/ StartupFails \/ TimeoutFails \/ Tick \/ Crash \/ UNCHANGED vars
    PROVE  TInv'
<1>1. CASE \E p \in Processes : ReplyLost(p)
  BY <1>1, StillTimed DEF ReplyLost, table
<1>2. CASE \E u \in Others, k \in Keys : StateChange(u, k)
  BY <1>2, StillTimed DEF StateChange, table, clock, watcher, Quiet
<1>3. CASE NotifyNewEvent
  BY <1>3, StillTimed DEF NotifyNewEvent, table, clock, Quiet
<1>4. CASE WatchCheck
  BY <1>4, StillTimed DEF WatchCheck, table, clock, Quiet
<1>5. CASE WatchStore
  BY <1>5, StillTimed DEF WatchStore, table, clock, Quiet
<1>6. CASE WatchFails
  BY <1>6, StillTimed DEF WatchFails, table, Quiet
<1>7. CASE StartupFails \/ TimeoutFails
  BY <1>7, StillTimed DEF StartupFails, TimeoutFails, table
<1>8. CASE Tick
  BY <1>8, StillTimed DEF Tick, table, watcher, Quiet
<1>9. CASE Crash
  <2>1. row' = row /\ ~Quiet'
    BY <1>9 DEF Crash, table, Quiet
  <2> QED
    BY <2>1, SameTable DEF TInv, TimerCovers
<1>10. CASE UNCHANGED vars
  BY <1>10, StillTimed DEF vars, table, clock, watcher, Quiet
<1> QED
  BY <1>1, <1>2, <1>3, <1>4, <1>5, <1>6, <1>7, <1>8, <1>9, <1>10

(* The watcher's transaction has a result on its way; startup is not over. *)
LEMMA CancelOrUnprocessTimed ==
    ASSUME EventsAssumption, IInv, TInv, WatchCancel \/ Unprocess
    PROVE  TInv'
<1>1. row \in Rows
  BY DEF IInv, TypeOK, Rows
<1>2. CASE WatchCancel
  <2>1. ~Quiet'
    <3>1. watch \in Watches
      BY DEF IInv, TypeOK
    <3>2. watch'.pc = "reply"
      BY <1>2, <3>1 DEF WatchCancel, Watches
    <3> QED
      BY <3>2 DEF Quiet
  <2>2. \A e \in Events : row'[e] = row[e] \/ row'[e].status = "gone"
    BY <1>2 DEF WatchCancel, Gone
  <2> QED
    BY <2>1, <2>2 DEF TInv, Timed, TimerCovers
<1>3. CASE Unprocess
  <2>1. ~Quiet'
    BY <1>3 DEF Unprocess, Quiet
  <2>2. ASSUME NEW e \in Events
        PROVE  row'[e].ts = row[e].ts /\ (row'[e].status = "waiting" => row[e].status \in {"waiting", "processed"})
               /\ (row'[e].status # "processed")
    <3>1. row[e] \in [status : {"none", "waiting", "processed", "gone"}, ts : Times]
      BY <1>1 DEF Rows
    <3>2. row'[e] = IF row[e].status = "processed" THEN [row[e] EXCEPT !.status = "waiting"]
                                                   ELSE row[e]
      BY <1>3 DEF Unprocess, Unprocessed
    <3> QED
      BY <3>1, <3>2
  <2> QED
    BY <2>1, <2>2 DEF TInv, Timed, TimerCovers
<1> QED
  BY <1>2, <1>3

(* Nothing waits at the start. *)
LEMMA InitTimed ==
    ASSUME EventsAssumption, Init
    PROVE  TInv
  BY DEF Init, TInv, Timed, TimerCovers, TimerSet, WithStatus, NoRow

(* Every step keeps the timer in front of the events that wait. *)
LEMMA NextTimed ==
    ASSUME EventsAssumption, IInv, TInv, [Next]_vars
    PROVE  TInv'
<1>1. TypeOK /\ Timed
  BY DEF IInv, TInv
<1>2. ASSUME NEW p \in Processes,
             \/ \E e \in Events, op \in {"add", "restart", "cancel", "send"} : Call(p, op, e)
             \/ TimerFires(p)
             \/ InitialTimeout(p)
      PROVE  TInv'
  BY <1>1, <1>2, TransactionTimed DEF TInv, TimerCovers
<1>3. ASSUME NEW p \in Processes, ProcStep(p)
      PROVE  TInv'
  BY <1>1, <1>3, ApplyTimed, SendingTimed DEF ProcStep, TInv
<1>4. ASSUME NEW p \in Processes,
             SendFails(p) \/ GuestCheckFails(p) \/ DeleteFails(p) \/ PurgeFails(p)
               \/ ReplyLost(p)
      PROVE  TInv'
  BY <1>4, SendingTimed, OthersTimed
<1>5. ASSUME WatchStep
      PROVE  TInv'
  BY <1>1, <1>5, OthersTimed, WatchApplyTimed, CancelOrUnprocessTimed DEF WatchStep, TInv
<1>6. ASSUME NEW u \in Others, NEW k \in {KeyOf[e] : e \in Events} \ {NoKey}, StateChange(u, k)
      PROVE  TInv'
  BY <1>6, OthersTimed DEF Keys
<1> QED
  BY <1>2, <1>3, <1>4, <1>5, <1>6, OthersTimed, CancelOrUnprocessTimed DEF Next, Processes

(***************************************************************************)
(* The one timer stands for the earliest event that waits, whenever no     *)
(* result is on its way, unless the last result applied had been overtaken *)
(* or was lost (_next_send_ts_changed, _schedule_next_at_or_none).         *)
(***************************************************************************)
THEOREM TimerCoversWaiting ==
    ASSUME EventsAssumption
    PROVE  Spec => []TimerCovers
<1>1. Init => TInv
  BY InitTimed
<1>2. IInv /\ TInv /\ [Next]_vars => TInv'
  BY NextTimed
<1>3. TInv => TimerCovers
  BY DEF TInv
<1> QED
  BY <1>1, <1>2, <1>3, Invariance, PTL DEF Spec
--------------------------------------------------------------------------------
(***************************************************************************)
(* The application service scheduler.  What is invariant about a service   *)
(* is said of the values of its variables: G, the events it has got; T,    *)
(* its transactions; x, its sender; q, its queue; r, its recoverer; up,    *)
(* its state; f and a, the tasks about to mark it DOWN and UP.             *)
(***************************************************************************)

EventNumbers == Nat \ {0}
Batches == Seq(EventNumbers)
Txns == [id : Nat, events : Batches]
Pollers == [due : BOOLEAN, busy : BOOLEAN, upto : Nat, todo : Batches]
SenderStates == [at : {"none", "check", "create", "send", "complete"},
            events : Batches, up : BOOLEAN, txn : Nat]
Recoverers == [at : {"none", "wait", "get", "send", "complete"}, txn : Nat, popped : BOOLEAN]
Ledgers == [got : SUBSET EventNumbers, late : SUBSET EventNumbers]

AppTypes ==
    /\ lastEvent \in Nat /\ pos \in Nat /\ pos <= lastEvent
    /\ poller \in Pollers
    /\ started \in {"no", "reading", "done"}
    /\ queue \in [Services -> Batches]
    /\ sender \in [Services -> SenderStates]
    /\ state \in [Services -> BOOLEAN]
    /\ txns \in [Services -> SUBSET Txns]
    /\ lastTxn \in Nat
    /\ failing \in [Services -> Nat]
    /\ recoverer \in [Services -> Recoverers]
    /\ raising \in [Services -> Nat]
    /\ delivered \in [Services -> Ledgers]

(* The last event that the scheduler was handed; those the poller still has *)
(* follow it.                                                               *)
Handed == IF poller.busy THEN poller.upto - Len(poller.todo) ELSE pos
PollerInv ==
    poller.busy =>
        /\ poller.upto <= lastEvent
        /\ pos + Len(poller.todo) <= poller.upto
        /\ \A i \in DOMAIN poller.todo : poller.todo[i] = Handed + i

(* Transaction ids are given out once and in ascending order (n is the last *)
(* one); what the sender or the recoverer is about to delete was delivered. *)
HasTxn(x) == x.at \in {"send", "complete"}
TxnOk(G, T, x, q, r, n) ==
    /\ \A t \in T : t.id <= n
    /\ \A t, u \in T : t.id = u.id => t = u
    /\ x.at = "none" => q = <<>>
    /\ HasTxn(x) =>
         /\ x.txn <= n
         /\ \A t \in T : t.id = x.txn => t.events = x.events
    /\ x.at = "complete" => AS!EventsOf(x.events) \subseteq G
    /\ r.at \in {"send", "complete"} => r.txn <= n /\ \A t \in T : r.txn <= t.id
    /\ r.at = "complete" => \A t \in T : t.id = r.txn => AS!EventsOf(t.events) \subseteq G

(* A transaction that is not with the sender, and a service that is DOWN,   *)
(* have somebody to care for them.                                          *)
LeftOf(T, x) == {t \in T : HasTxn(x) => t.id # x.txn}
Cared(f, r) == f > 0 \/ r.at # "none"
CareOk(T, x, up, f, r, a, st) ==
    /\ LeftOf(T, x) # {} => Cared(f, r) \/ (~up /\ st # "done" /\ a = 0)
    /\ ~up => Cared(f, r) \/ a > 0 \/ st # "done"

(* What the service has got or will get. *)
EventsIn(T) == UNION {AS!EventsOf(t.events) : t \in T}
TakenOf(x) == IF x.at \in {"check", "create"} THEN AS!EventsOf(x.events) ELSE {}
AllOf(G, T, x, q) == G \cup EventsIn(T) \cup AS!EventsOf(q) \cup TakenOf(x)

(* A batch whose service was found UP is sent while nothing else is, and    *)
(* nothing was left unsent before it.                                       *)
StatusOk(T, x, up, f, r, a) ==
    /\ r.at # "none" \/ a > 0 => ~up
    /\ (x.at = "create" /\ x.up) \/ HasTxn(x) =>
         /\ up /\ ~Cared(f, r) /\ a = 0
         /\ LeftOf(T, x) = {}
         /\ x.at = "send" => \E t \in T : t.id = x.txn

(* What precedes an event is in base or before it in the sequence. *)
Follows(events, base) ==
    \A i \in DOMAIN events : \A d \in 1 .. events[i] - 1 :
        d \in base \/ \E j \in 1 .. i - 1 : events[j] = d
Closed(G) == \A e \in G : 1 .. e - 1 \subseteq G
Ordered(T, G) == \A t \in T : Follows(t.events, G \cup EventsIn({u \in T : u.id < t.id}))
InSequence(G, T, x, q) ==
    /\ Closed(G)
    /\ Ordered(T, G)
    /\ x.at \in {"check", "create"} => Follows(x.events, G \cup EventsIn(T))
    /\ Follows(q, G \cup EventsIn(T) \cup TakenOf(x))

ServiceInv(s) ==
    LET G == delivered[s].got
        T == txns[s]
        x == sender[s]
        r == recoverer[s]
    IN  /\ TxnOk(G, T, x, queue[s], r, lastTxn)
        /\ s \notin stranded => CareOk(T, x, state[s], failing[s], r, raising[s], started)
        /\ "lost" \notin disturbed => 1 .. Handed \subseteq AllOf(G, T, x, queue[s])
        /\ disturbed = {} /\ s \notin stranded =>
             /\ StatusOk(T, x, state[s], failing[s], r, raising[s])
             /\ InSequence(G, T, x, queue[s])
             /\ delivered[s].late = {}

AppInv == AppTypes /\ PollerInv /\ \A s \in Services : ServiceInv(s)

(***************************************************************************)
(* Batches and transactions.                                               *)
(***************************************************************************)

(* The events of a batch. *)
LEMMA EventsOfIs ==
    ASSUME NEW b
    PROVE  \A e : e \in AS!EventsOf(b) <=> \E i \in DOMAIN b : b[i] = e
  BY DEF AS!EventsOf

(* The events of a set of transactions. *)
LEMMA EventsInIs ==
    ASSUME NEW T
    PROVE  \A e : e \in EventsIn(T) <=> \E t \in T : e \in AS!EventsOf(t.events)
  BY DEF EventsIn

(* The loop of _send_request takes the head of the queue. *)
LEMMA BatchProps ==
    ASSUME AS!SchedulerAssumption, NEW q \in Batches
    PROVE  LET x == AS!NextBatch(q)
               rest == AS!AfterBatch(q)
           IN  /\ x \in SenderStates /\ rest \in Batches
               /\ x.at \in {"none", "check"}
               /\ x.at = "none" => rest = <<>>
               /\ AS!EventsOf(x.events) \cup AS!EventsOf(rest) = AS!EventsOf(q)
               /\ x.at = "none" => x.events = <<>>
               /\ \A base : Follows(q, base) =>
                    /\ Follows(x.events, base)
                    /\ Follows(rest, base \cup AS!EventsOf(x.events))
<1> DEFINE x == AS!NextBatch(q)
           rest == AS!AfterBatch(q)
<1>0. PerTransaction \in Nat /\ PerTransaction > 0 /\ Len(q) \in Nat /\ DOMAIN q = 1 .. Len(q)
      /\ \A i \in DOMAIN q : q[i] \in EventNumbers
  BY DEF AS!SchedulerAssumption, Batches
<1>1. CASE Len(q) <= PerTransaction
  <2>1. rest = <<>> /\ x.events = q /\ x \in SenderStates /\ x.at \in {"none", "check"}
    BY <1>1 DEF AS!NextBatch, AS!AfterBatch, AS!NoSender, SenderStates, Batches
  <2>2. x.at = "none" => q = <<>>
    BY DEF AS!NextBatch, AS!NoSender
  <2>3. AS!EventsOf(<<>>) = {} /\ rest \in Batches
    BY <2>1 DEF AS!EventsOf, Batches
  <2>4. \A base : Follows(<<>>, base)
    BY DEF Follows
  <2> QED
    BY <2>1, <2>2, <2>3, <2>4
<1>2. CASE Len(q) > PerTransaction
  <2> PICK n : n = PerTransaction
    OBVIOUS
  <2> DEFINE b == SubSeq(q, 1, n)
             c == SubSeq(q, n + 1, Len(q))
  <2>0. /\ \A i \in 1 .. n : q[i] \in EventNumbers
        /\ \A i \in n + 1 .. Len(q) : q[i] \in EventNumbers
        /\ n \in Int /\ 1 \in Int /\ n + 1 \in Int /\ Len(q) \in Int
    BY <1>0, <1>2
  <2>1. /\ b \in Batches /\ Len(b) = n /\ DOMAIN b = 1 .. n
        /\ \A i \in 1 .. n : b[i] = q[i]
    <3>1. /\ b \in Seq(EventNumbers) /\ Len(b) = IF 1 <= n THEN n - 1 + 1 ELSE 0
          /\ \A i \in 1 .. n - 1 + 1 : b[i] = q[1 + i - 1]
      BY <2>0, SubSeqProperties
    <3> HIDE DEF b
    <3> QED
      BY <1>0, <1>2, <3>1 DEF Batches
  <2>2. /\ c \in Batches /\ Len(c) = Len(q) - n /\ DOMAIN c = 1 .. Len(q) - n
        /\ \A i \in 1 .. Len(q) - n : c[i] = q[n + i]
    <3>1. /\ c \in Seq(EventNumbers) /\ Len(c) = IF n + 1 <= Len(q) THEN Len(q) - (n + 1) + 1 ELSE 0
          /\ \A i \in 1 .. Len(q) - (n + 1) + 1 : c[i] = q[n + 1 + i - 1]
      BY <2>0, SubSeqProperties
    <3> HIDE DEF c
    <3>2. n \in Nat /\ n < Len(q)
      BY <1>0, <1>2
    <3>3. Len(c) = Len(q) - n /\ Len(q) - (n + 1) + 1 = Len(q) - n
      <4>1. n + 1 <= Len(q) /\ Len(q) - (n + 1) + 1 = Len(q) - n
        BY <1>0, <3>2
      <4> QED
        BY <3>1, <4>1
    <3>4. \A i \in 1 .. Len(q) - n : c[i] = q[n + i]
      <4>1. \A i \in 1 .. Len(q) - n : n + 1 + i - 1 = n + i
        BY <1>0, <3>2
      <4> QED
        BY <3>1, <3>3, <4>1
    <3>5. DOMAIN c = 1 .. Len(c)
      BY <3>1
    <3> QED
      BY <3>1, <3>3, <3>4, <3>5 DEF Batches
  <2>3. q # <<>>
    BY <1>0, <1>2
  <2>4. rest = c /\ x.events = b /\ x.at = "check" /\ x \in SenderStates
    <3>1. AS!NextBatch(q) = [AS!NoSender EXCEPT !.at = "check", !.events = b]
      <4>1. ~(Len(q) <= PerTransaction)
        BY <1>0, <1>2
      <4> QED
        BY <2>3, <4>1, Zenon DEF AS!NextBatch
    <3>2. AS!AfterBatch(q) = c
      BY <1>0, <1>2 DEF AS!AfterBatch
    <3> HIDE DEF b, c
    <3>3. x = [at |-> "check", events |-> b, up |-> FALSE, txn |-> 0]
      BY <3>1 DEF AS!NoSender
    <3> QED
      BY <2>1, <3>2, <3>3 DEF SenderStates
  <2> HIDE DEF x, rest, b, c
  <2>5. ASSUME NEW e PROVE e \in AS!EventsOf(b) \/ e \in AS!EventsOf(c) <=> e \in AS!EventsOf(q)
    <3>1. ASSUME NEW i \in DOMAIN q PROVE q[i] \in AS!EventsOf(b) \/ q[i] \in AS!EventsOf(c)
      <4>1. CASE i <= n
        BY <1>0, <2>1, <4>1, EventsOfIs
      <4>2. CASE i > n
        <5>1. i - n \in DOMAIN c /\ c[i - n] = q[i]
          BY <1>0, <2>2, <4>2
        <5> QED
          BY <5>1, EventsOfIs
      <4> QED
        BY <1>0, <4>1, <4>2
    <3>2. ASSUME NEW i \in DOMAIN b PROVE b[i] \in AS!EventsOf(q)
      BY <1>0, <1>2, <2>1, EventsOfIs
    <3>3. ASSUME NEW i \in DOMAIN c PROVE c[i] \in AS!EventsOf(q)
      <4>1. n + i \in DOMAIN q /\ q[n + i] = c[i]
        BY <1>0, <1>2, <2>2
      <4> QED
        BY <4>1, EventsOfIs
    <3> QED
      BY <3>1, <3>2, <3>3, EventsOfIs
  <2>6. ASSUME NEW base, Follows(q, base)
        PROVE  Follows(b, base) /\ Follows(c, base \cup AS!EventsOf(b))
    <3>1. Follows(b, base)
      <4> SUFFICES ASSUME NEW i \in DOMAIN b, NEW d \in 1 .. b[i] - 1
                   PROVE  d \in base \/ \E j \in 1 .. i - 1 : b[j] = d
        BY DEF Follows
      <4>1. d \in base \/ \E j \in 1 .. i - 1 : q[j] = d
        BY <1>0, <1>2, <2>1, <2>6 DEF Follows
      <4> QED
        BY <1>0, <2>1, <4>1
    <3>2. Follows(c, base \cup AS!EventsOf(b))
      <4> SUFFICES ASSUME NEW i \in DOMAIN c, NEW d \in 1 .. c[i] - 1,
                          d \notin base, d \notin AS!EventsOf(b)
                   PROVE  \E j \in 1 .. i - 1 : c[j] = d
        BY DEF Follows
      <4>1. n + i \in DOMAIN q /\ q[n + i] = c[i]
        BY <1>0, <1>2, <2>2
      <4>2. PICK j \in 1 .. n + i - 1 : q[j] = d
        BY <1>0, <2>2, <2>6, <4>1 DEF Follows
      <4>3. j > n
        BY <1>0, <1>2, <2>1, <4>2, EventsOfIs
      <4>4. j - n \in 1 .. i - 1 /\ c[j - n] = d
        BY <1>0, <1>2, <2>2, <4>1, <4>2, <4>3
      <4> QED
        BY <4>4
    <3> QED
      BY <3>1, <3>2
  <2> QED
    BY <2>2, <2>4, <2>5, <2>6 DEF x, rest
<1> QED
  BY <1>0, <1>1, <1>2

(* A batch that follows some events follows more of them. *)
LEMMA FollowsMore ==
    ASSUME NEW b, NEW B, NEW C, B \subseteq C, Follows(b, B)
    PROVE  Follows(b, C)
  BY DEF Follows

(* What follows what the service has got comes in order and leaves no gap. *)
LEMMA DeliverProps ==
    ASSUME NEW G, G \subseteq EventNumbers, NEW b \in Batches, Closed(G), Follows(b, G)
    PROVE  /\ Closed(G \cup AS!EventsOf(b))
           /\ \A i \in DOMAIN b : \A e \in G \cup {b[j] : j \in 1 .. i - 1} :
                e > b[i] => b[i] \in G \cup {b[j] : j \in 1 .. i - 1}
<1>0. DOMAIN b = 1 .. Len(b) /\ Len(b) \in Nat /\ \A i \in DOMAIN b : b[i] \in EventNumbers
  BY DEF Batches
<1>1. ASSUME NEW e \in G \cup AS!EventsOf(b), NEW d \in 1 .. e - 1
      PROVE  d \in G \cup AS!EventsOf(b)
  <2>1. CASE e \in G
    BY <2>1 DEF Closed
  <2>2. CASE e \in AS!EventsOf(b)
    <3>1. PICK i \in DOMAIN b : b[i] = e
      BY <2>2, EventsOfIs
    <3>2. d \in G \/ \E j \in 1 .. i - 1 : b[j] = d
      BY <3>1 DEF Follows
    <3>3. 1 .. i - 1 \subseteq DOMAIN b
      BY <1>0
    <3> QED
      BY <3>2, <3>3, EventsOfIs
  <2> QED
    BY <2>1, <2>2
<1>2. ASSUME NEW i \in DOMAIN b, NEW e \in G \cup {b[j] : j \in 1 .. i - 1}, e > b[i]
      PROVE  b[i] \in G \cup {b[j] : j \in 1 .. i - 1}
  <2>0. b[i] \in EventNumbers
    BY <1>0
  <2>1. CASE e \in G
    <3>1. b[i] \in 1 .. e - 1
      BY <1>2, <2>0, <2>1 DEF EventNumbers
    <3> QED
      BY <2>1, <3>1 DEF Closed
  <2>2. CASE e \in {b[j] : j \in 1 .. i - 1}
    <3>1. PICK k \in 1 .. i - 1 : b[k] = e
      BY <2>2
    <3>2. k \in DOMAIN b /\ b[i] \in 1 .. b[k] - 1
      BY <1>0, <1>2, <2>0, <3>1 DEF EventNumbers
    <3>3. b[i] \in G \/ \E j \in 1 .. k - 1 : b[j] = b[i]
      BY <3>2 DEF Follows
    <3>4. 1 .. k - 1 \subseteq 1 .. i - 1
      BY <1>0
    <3> QED
      BY <3>3, <3>4
  <2> QED
    BY <2>1, <2>2
<1> QED
  BY <1>1, <1>2 DEF Closed

(* More events that it has got do no harm. *)
LEMMA OrderedMore ==
    ASSUME NEW T, NEW G, NEW H, G \subseteq H, Ordered(T, G)
    PROVE  Ordered(T, H)
<1> SUFFICES ASSUME NEW t \in T
             PROVE  Follows(t.events, H \cup EventsIn({u \in T : u.id < t.id}))
  BY DEF Ordered
<1>1. Follows(t.events, G \cup EventsIn({u \in T : u.id < t.id}))
  BY DEF Ordered
<1> QED
  BY <1>1, FollowsMore

(* The transaction with the least id follows what the service has got. *)
LEMMA OrderedFirst ==
    ASSUME NEW T \in SUBSET Txns, NEW G, Ordered(T, G), NEW t \in T, \A u \in T : t.id <= u.id
    PROVE  Follows(t.events, G)
<1>1. {u \in T : u.id < t.id} = {}
  <2>1. \A u \in T : u.id \in Nat
    BY DEF Txns
  <2> QED
    BY <2>1
<1>2. EventsIn({}) = {}
  BY DEF EventsIn
<1>3. Follows(t.events, G \cup EventsIn({u \in T : u.id < t.id}))
  BY DEF Ordered
<1> QED
  BY <1>1, <1>2, <1>3

Plus(T, n, b) == T \cup {[id |-> n, events |-> b]}
Minus(T, n) == {t \in T : t.id # n}

(* A new transaction adds its batch to what is stored. *)
LEMMA EventsInPlus ==
    ASSUME NEW T, NEW n, NEW b
    PROVE  EventsIn(Plus(T, n, b)) = EventsIn(T) \cup AS!EventsOf(b)
<1> DEFINE t == [id |-> n, events |-> b]
<1>1. t.events = b
  OBVIOUS
<1> HIDE DEF t
<1>2. Plus(T, n, b) = T \cup {t}
  BY DEF Plus, t
<1> QED
  BY <1>1, <1>2, EventsInIs

(* A deleted transaction whose events were delivered takes only those with it. *)
LEMMA EventsInMinus ==
    ASSUME NEW T, NEW n, NEW G, \A t \in T : t.id = n => AS!EventsOf(t.events) \subseteq G
    PROVE  /\ EventsIn(Minus(T, n)) \subseteq EventsIn(T)
           /\ EventsIn(T) \subseteq G \cup EventsIn(Minus(T, n))
  BY EventsInIs DEF Minus

(* A new transaction has the greatest id. *)
LEMMA OrderedPlus ==
    ASSUME NEW T \in SUBSET Txns, NEW G, Ordered(T, G), NEW n \in Nat, \A t \in T : t.id < n,
           NEW b, Follows(b, G \cup EventsIn(T))
    PROVE  Ordered(Plus(T, n, b), G)
<1> DEFINE v == [id |-> n, events |-> b]
<1>0. v.id = n /\ v.events = b
  OBVIOUS
<1> HIDE DEF v
<1>1. Plus(T, n, b) = T \cup {v}
  BY DEF Plus, v
<1>2. \A t \in T : t.id \in Nat /\ t.id < n
  BY DEF Txns
<1>3. ASSUME NEW t \in T
      PROVE  Follows(t.events, G \cup EventsIn({u \in T \cup {v} : u.id < t.id}))
  <2>1. {u \in T \cup {v} : u.id < t.id} = {u \in T : u.id < t.id}
    BY <1>0, <1>2
  <2> QED
    BY <2>1 DEF Ordered
<1>4. {u \in T \cup {v} : u.id < v.id} = T
  BY <1>0, <1>2
<1> QED
  BY <1>0, <1>1, <1>3, <1>4 DEF Ordered

(* A transaction that was delivered may go. *)
LEMMA OrderedMinus ==
    ASSUME NEW T, NEW G, Ordered(T, G), NEW n,
           \A t \in T : t.id = n => AS!EventsOf(t.events) \subseteq G
    PROVE  Ordered(Minus(T, n), G)
<1> SUFFICES ASSUME NEW t \in Minus(T, n)
             PROVE  Follows(t.events, G \cup EventsIn({u \in Minus(T, n) : u.id < t.id}))
  BY DEF Ordered
<1> DEFINE E == {u \in T : u.id < t.id}
           F == {u \in Minus(T, n) : u.id < t.id}
<1>1. t \in T
  BY DEF Minus
<1>2. Follows(t.events, G \cup EventsIn(E))
  BY <1>1 DEF Ordered
<1>3. G \cup EventsIn(E) \subseteq G \cup EventsIn(F)
  <2>1. \A u \in E : u \in F \/ AS!EventsOf(u.events) \subseteq G
    BY DEF Minus
  <2> HIDE DEF E, F
  <2> QED
    BY <2>1, EventsInIs
<1> QED
  BY <1>2, <1>3, FollowsMore

(* get_oldest_unsent_txn, ORDER BY txn_id ASC LIMIT 1: the oldest           *)
(* transaction is one of them and no other has a smaller id.                *)
LEMMA OldestProps ==
    ASSUME NEW s, txns[s] \subseteq Txns, txns[s] # {}
    PROVE  AS!Oldest(s) \in txns[s] /\ \A u \in txns[s] : AS!Oldest(s).id <= u.id
<1>1. IsWellFoundedOn(NatLess, Nat)
  BY NatLessWellFounded
<1> DEFINE I == {t.id : t \in txns[s]}
<1>2. I \subseteq Nat /\ I # {}
  BY DEF Txns
<1>3. PICK x \in I : \A y \in I : ~(<<y, x>> \in NatLess)
  <2> HIDE DEF I
  <2> QED
    BY <1>1, <1>2, WFMin, Zenon
<1>4. \A y \in I : x <= y
  <2> HIDE DEF I
  <2>1. \A y, z \in Nat : y < z => <<y, z>> \in NatLess
    BY DEF NatLess
  <2>2. \A y \in I : ~(y < x)
    BY <1>2, <1>3, <2>1
  <2> QED
    BY <1>2, <2>2
<1>5. \E t \in txns[s] : \A u \in txns[s] : t.id <= u.id
  BY <1>4
<1> QED
  BY <1>5, Zenon DEF AS!Oldest

(***************************************************************************)
(* What happens to a service, one change at a time.                        *)
(***************************************************************************)

(* What deliver() of a batch does. *)
LEMMA LateNone ==
    ASSUME NEW s \in Services, delivered \in [Services -> Ledgers], NEW b \in Batches,
           Closed(delivered[s].got), Follows(b, delivered[s].got)
    PROVE  AS!Late(s, b) = {}
<1>1. \A i \in DOMAIN b :
        \A e \in delivered[s].got \cup {b[j] : j \in 1 .. i - 1} :
            e > b[i] => b[i] \in delivered[s].got \cup {b[j] : j \in 1 .. i - 1}
  <2>1. delivered[s].got \subseteq EventNumbers
    BY DEF Ledgers
  <2> QED
    BY <2>1, DeliverProps
<1> QED
  BY <1>1 DEF AS!Late, AS!Before, AS!Got

(* A delivery adds the batch to what its service has got, and touches no other. *)
LEMMA DeliverEffect ==
    ASSUME NEW s \in Services, delivered \in [Services -> Ledgers], NEW b \in Batches,
           AS!Deliver(s, b)
    PROVE  /\ delivered' \in [Services -> Ledgers]
           /\ delivered'[s].got = delivered[s].got \cup AS!EventsOf(b)
           /\ delivered'[s].late = delivered[s].late \cup AS!Late(s, b)
           /\ \A u \in Services : u # s => delivered'[u] = delivered[u]
<1>1. AS!EventsOf(b) \subseteq EventNumbers
  BY DEF AS!EventsOf, Batches
<1>2. AS!Late(s, b) \subseteq EventNumbers
  BY DEF AS!Late, Batches
<1> DEFINE v == [got |-> delivered[s].got \cup AS!EventsOf(b),
                 late |-> delivered[s].late \cup AS!Late(s, b)]
<1>3. v \in Ledgers
  BY <1>1, <1>2 DEF Ledgers
<1>4. delivered' = [delivered EXCEPT ![s] = v]
  BY DEF AS!Deliver
<1>5. v.got = delivered[s].got \cup AS!EventsOf(b) /\ v.late = delivered[s].late \cup AS!Late(s, b)
  OBVIOUS
<1> HIDE DEF v
<1> QED
  BY <1>3, <1>4, <1>5

(* The service has got more. *)
LEMMA MoreGot ==
    ASSUME NEW G, NEW H, G \subseteq H, NEW T, NEW x, NEW q, NEW r, NEW n, TxnOk(G, T, x, q, r, n)
    PROVE  /\ TxnOk(H, T, x, q, r, n)
           /\ AllOf(G, T, x, q) \subseteq AllOf(H, T, x, q)
           /\ InSequence(G, T, x, q) /\ Closed(H) => InSequence(H, T, x, q)
<1>1. TxnOk(H, T, x, q, r, n)
  BY DEF TxnOk
<1>2. AllOf(G, T, x, q) \subseteq AllOf(H, T, x, q)
  BY DEF AllOf
<1>3. ASSUME InSequence(G, T, x, q), Closed(H) PROVE InSequence(H, T, x, q)
  <2>1. Ordered(T, H)
    BY <1>3, OrderedMore DEF InSequence
  <2>2. x.at \in {"check", "create"} => Follows(x.events, H \cup EventsIn(T))
    <3>1. G \cup EventsIn(T) \subseteq H \cup EventsIn(T)
      OBVIOUS
    <3> QED
      BY <1>3, <3>1, FollowsMore DEF InSequence
  <2>3. Follows(q, H \cup EventsIn(T) \cup TakenOf(x))
    <3>1. G \cup EventsIn(T) \cup TakenOf(x) \subseteq H \cup EventsIn(T) \cup TakenOf(x)
      OBVIOUS
    <3> QED
      BY <1>3, <3>1, FollowsMore DEF InSequence
  <2> QED
    BY <1>3, <2>1, <2>2, <2>3 DEF InSequence
<1> QED
  BY <1>1, <1>2, <1>3

(* send() has returned: the loop goes on with what is queued. *)
LEMMA Looped ==
    ASSUME AS!SchedulerAssumption, NEW q \in Batches,
           NEW G, NEW T, NEW x, NEW r, NEW n, TxnOk(G, T, x, q, r, n),
           NEW y, y = AS!NextBatch(q), NEW p, p = AS!AfterBatch(q)
    PROVE  /\ y \in SenderStates /\ p \in Batches /\ y.at \in {"none", "check"}
           /\ TxnOk(G, T, y, p, r, n)
           /\ ~(x.at \in {"check", "create"}) => AllOf(G, T, x, q) \subseteq AllOf(G, T, y, p)
           /\ ~(x.at \in {"check", "create"}) /\ InSequence(G, T, x, q) => InSequence(G, T, y, p)
<1>1. /\ y \in SenderStates /\ p \in Batches
      /\ y.at \in {"none", "check"}
      /\ y.at = "none" => p = <<>>
      /\ AS!EventsOf(y.events) \cup AS!EventsOf(p) = AS!EventsOf(q)
      /\ y.at = "none" => y.events = <<>>
      /\ \A base : Follows(q, base) =>
           Follows(y.events, base) /\ Follows(p, base \cup AS!EventsOf(y.events))
  BY BatchProps
<1>2. TakenOf(y) = AS!EventsOf(y.events)
  <2>1. AS!EventsOf(<<>>) = {}
    BY DEF AS!EventsOf
  <2> QED
    BY <1>1, <2>1 DEF TakenOf
<1>3. TxnOk(G, T, y, p, r, n)
  BY <1>1 DEF TxnOk, HasTxn
<1>4. ASSUME ~(x.at \in {"check", "create"})
      PROVE  /\ AllOf(G, T, x, q) \subseteq AllOf(G, T, y, p)
             /\ InSequence(G, T, x, q) => InSequence(G, T, y, p)
  <2>1. TakenOf(x) = {}
    BY <1>4 DEF TakenOf
  <2>2. AllOf(G, T, x, q) \subseteq AllOf(G, T, y, p)
    BY <1>1, <1>2, <2>1 DEF AllOf
  <2>3. ASSUME InSequence(G, T, x, q) PROVE InSequence(G, T, y, p)
    <3>1. Follows(q, G \cup EventsIn(T))
      BY <2>1, <2>3 DEF InSequence
    <3> QED
      BY <1>1, <1>2, <2>3, <3>1 DEF InSequence
  <2> QED
    BY <2>2, <2>3
<1> QED
  BY <1>1, <1>3, <1>4

(* A transaction that was delivered is deleted. *)
LEMMA Dropped ==
    ASSUME NEW T, NEW G, NEW x, NEW q, NEW r, NEW n, TxnOk(G, T, x, q, r, n),
           NEW i, \A t \in T : t.id = i => AS!EventsOf(t.events) \subseteq G
    PROVE  /\ TxnOk(G, Minus(T, i), x, q, r, n)
           /\ AllOf(G, T, x, q) \subseteq AllOf(G, Minus(T, i), x, q)
           /\ InSequence(G, T, x, q) => InSequence(G, Minus(T, i), x, q)
<1> DEFINE M == Minus(T, i)
<1>1. M \subseteq T
  BY DEF Minus
<1>2. EventsIn(M) \subseteq EventsIn(T) /\ EventsIn(T) \subseteq G \cup EventsIn(M)
  BY EventsInMinus
<1>3. Ordered(T, G) => Ordered(M, G)
  BY OrderedMinus
<1> HIDE DEF M
<1>4. TxnOk(G, M, x, q, r, n)
  BY <1>1 DEF TxnOk
<1>5. AllOf(G, T, x, q) \subseteq AllOf(G, M, x, q)
  BY <1>2 DEF AllOf
<1>6. ASSUME InSequence(G, T, x, q) PROVE InSequence(G, M, x, q)
  <2>1. G \cup EventsIn(T) \subseteq G \cup EventsIn(M)
    BY <1>2
  <2>2. G \cup EventsIn(T) \cup TakenOf(x) \subseteq G \cup EventsIn(M) \cup TakenOf(x)
    BY <1>2
  <2>3. x.at \in {"check", "create"} => Follows(x.events, G \cup EventsIn(M))
    BY <1>6, <2>1, FollowsMore DEF InSequence
  <2>4. Follows(q, G \cup EventsIn(M) \cup TakenOf(x))
    BY <1>6, <2>2, FollowsMore DEF InSequence
  <2> QED
    BY <1>3, <1>6, <2>3, <2>4 DEF InSequence
<1> QED
  BY <1>4, <1>5, <1>6 DEF M

(* The transactions P, with the sender at y, instead of T and x. *)
CreatedFrom(G, T, x, q, r, P, y, m) ==
    /\ P \in SUBSET Txns
    /\ TxnOk(G, P, y, q, r, m)
    /\ AllOf(G, T, x, q) \subseteq AllOf(G, P, y, q)
    /\ InSequence(G, T, x, q) => InSequence(G, P, y, q)
    /\ LeftOf(P, y) = T /\ LeftOf(T, x) = T

(* A batch becomes a transaction, to be sent or to be left. *)
LEMMA Created ==
    ASSUME NEW T \in SUBSET Txns, NEW G, NEW x \in SenderStates, NEW q, NEW r \in Recoverers, NEW n \in Nat,
           NEW m \in Nat, m = n + 1,
           TxnOk(G, T, x, q, r, n), x.at = "create",
           NEW y \in SenderStates, y.at = "send", y.events = x.events, y.txn = m,
           NEW P, P = Plus(T, m, x.events)
    PROVE  CreatedFrom(G, T, x, q, r, P, y, m)
<1> DEFINE v == [id |-> m, events |-> x.events]
<1>0. v.id = m /\ v.events = x.events /\ v \in Txns
  BY DEF Txns, SenderStates
<1> HIDE DEF v
<1>1. P = T \cup {v}
  BY DEF Plus, v
<1>2. \A t \in T : t.id \in Nat /\ t.id <= n
  BY DEF Txns, TxnOk
<1>3. EventsIn(P) = EventsIn(T) \cup AS!EventsOf(x.events)
  BY EventsInPlus
<1>4. ASSUME InSequence(G, T, x, q) PROVE Ordered(P, G)
  <2>1. \A t \in T : t.id < m
    BY <1>2
  <2>2. Follows(x.events, G \cup EventsIn(T)) /\ Ordered(T, G)
    BY <1>4 DEF InSequence
  <2> QED
    BY <2>1, <2>2, OrderedPlus
<1>5. TxnOk(G, P, y, q, r, m)
  <2>1. \A t, u \in P : t.id = u.id => t = u
    BY <1>0, <1>1, <1>2 DEF TxnOk
  <2>2. \A t \in P : t.id <= m /\ (t.id = m => t.events = x.events)
    BY <1>0, <1>1, <1>2
  <2>3. r.at \in {"send", "complete"} => r.txn <= m /\ \A t \in P : r.txn <= t.id
    BY <1>0, <1>1 DEF TxnOk, Recoverers
  <2>4. r.at = "complete" => \A t \in P : t.id = r.txn => AS!EventsOf(t.events) \subseteq G
    BY <1>0, <1>1 DEF TxnOk, Recoverers
  <2> QED
    BY <2>1, <2>2, <2>3, <2>4 DEF TxnOk, HasTxn
<1>6. TakenOf(x) = AS!EventsOf(x.events) /\ TakenOf(y) = {}
  BY DEF TakenOf
<1>7. AllOf(G, T, x, q) \subseteq AllOf(G, P, y, q)
  BY <1>3, <1>6 DEF AllOf
<1>8. ASSUME InSequence(G, T, x, q) PROVE InSequence(G, P, y, q)
  <2>1. G \cup EventsIn(P) \cup TakenOf(y) = G \cup EventsIn(T) \cup TakenOf(x)
    BY <1>3, <1>6
  <2>2. Follows(q, G \cup EventsIn(P) \cup TakenOf(y))
    BY <1>8, <2>1 DEF InSequence
  <2> QED
    BY <1>4, <1>8, <2>2 DEF InSequence
<1>9. LeftOf(P, y) = T /\ LeftOf(T, x) = T
  BY <1>0, <1>1, <1>2 DEF LeftOf, HasTxn
<1>10. P \in SUBSET Txns
  BY <1>0, <1>1
<1> QED
  BY <1>5, <1>7, <1>8, <1>9, <1>10 DEF CreatedFrom

Same(u) ==
    /\ delivered'[u] = delivered[u] /\ txns'[u] = txns[u] /\ sender'[u] = sender[u]
    /\ queue'[u] = queue[u] /\ recoverer'[u] = recoverer[u] /\ state'[u] = state[u]
    /\ failing'[u] = failing[u] /\ raising'[u] = raising[u]

Onward == lastTxn <= lastTxn' /\ stranded \subseteq stranded' /\ disturbed \subseteq disturbed'

(* What the scheduler was handed lies between the stored position and the stream. *)
LEMMA HandedNat ==
    ASSUME AppTypes, PollerInv
    PROVE  Handed \in Nat /\ pos <= Handed /\ Handed <= lastEvent
  BY DEF AppTypes, PollerInv, Handed, Pollers, Batches

(* A service to which nothing happens. *)
LEMMA ServiceFrame ==
    ASSUME AppInv, NEW u \in Services, Same(u), Onward, lastTxn' \in Nat, started' = started,
           1 .. Handed' \subseteq 1 .. Handed
    PROVE  ServiceInv(u)'
<1> PICK G, T, x, q, r, n : /\ G = delivered[u].got /\ T = txns[u] /\ x = sender[u]
                            /\ q = queue[u] /\ r = recoverer[u] /\ n = lastTxn
  OBVIOUS
<1> PICK m : m = lastTxn'
  OBVIOUS
<1>1. TxnOk(G, T, x, q, r, n)
  BY DEF AppInv, ServiceInv
<1>2. T \in SUBSET Txns /\ n \in Nat /\ m \in Nat /\ x \in SenderStates /\ r \in Recoverers /\ n <= m
  BY DEF AppInv, AppTypes, Onward
<1>3. TxnOk(G, T, x, q, r, m)
  <2>1. \A t \in T : t.id \in Nat
    BY <1>2 DEF Txns
  <2>2. x.txn \in Nat /\ r.txn \in Nat
    BY <1>2 DEF SenderStates, Recoverers
  <2> QED
    BY <1>1, <1>2, <2>1, <2>2 DEF TxnOk
<1>4. TxnOk(delivered'[u].got, txns'[u], sender'[u], queue'[u], recoverer'[u], lastTxn')
  BY <1>3 DEF Same
<1>5. u \notin stranded' =>
          CareOk(txns'[u], sender'[u], state'[u], failing'[u], recoverer'[u], raising'[u], started')
  BY DEF AppInv, ServiceInv, Same, Onward
<1>6. "lost" \notin disturbed' =>
          1 .. Handed' \subseteq AllOf(delivered'[u].got, txns'[u], sender'[u], queue'[u])
  BY DEF AppInv, ServiceInv, Same, Onward
<1>7. disturbed' = {} /\ u \notin stranded' =>
        /\ StatusOk(txns'[u], sender'[u], state'[u], failing'[u], recoverer'[u], raising'[u])
        /\ InSequence(delivered'[u].got, txns'[u], sender'[u], queue'[u])
        /\ delivered'[u].late = {}
  BY DEF AppInv, ServiceInv, Same, Onward
<1> QED
  BY <1>4, <1>5, <1>6, <1>7 DEF ServiceInv

(* A step of one service. *)
LEMMA OneService ==
    ASSUME AppInv, AppTypes', NEW s \in Services, AS!Unchanged, Onward,
           \A u \in Services \ {s} : Same(u), ServiceInv(s)'
    PROVE  AppInv'
<1>1. Handed' = Handed /\ PollerInv'
  BY DEF AS!Unchanged, AppInv, PollerInv, Handed
<1>2. ASSUME NEW u \in Services PROVE ServiceInv(u)'
  <2>1. CASE u = s
    BY <2>1
  <2>2. CASE u # s
    <3>1. 1 .. Handed' \subseteq 1 .. Handed
      BY <1>1
    <3> QED
      BY <2>2, <3>1, ServiceFrame DEF AS!Unchanged, AppTypes
  <2> QED
    BY <2>1, <2>2
<1> QED
  BY <1>1, <1>2 DEF AppInv

(* The sender looks at the service's state before it makes a transaction. *)
LEMMA CheckUpStep ==
    ASSUME AppInv, NEW s \in Services, AS!CheckUp(s)
    PROVE  AppInv'
<1> PICK G, T, x, q, r, n : /\ G = delivered[s].got /\ T = txns[s] /\ x = sender[s]
                            /\ q = queue[s] /\ r = recoverer[s] /\ n = lastTxn
  OBVIOUS
<1> PICK up, f, a : up = state[s] /\ f = failing[s] /\ a = raising[s]
  OBVIOUS
<1> PICK y : y = [x EXCEPT !.at = "create", !.up = up]
  OBVIOUS
<1>1. /\ x \in SenderStates /\ up \in BOOLEAN /\ x.at = "check" /\ f \in Nat /\ a \in Nat
      /\ sender' = [sender EXCEPT ![s] = y]
  BY DEF AS!CheckUp, AppInv, AppTypes
<1>2. y \in SenderStates /\ y.at = "create" /\ y.events = x.events /\ y.up = up
  BY <1>1 DEF SenderStates
<1>3. AppTypes' /\ Onward /\ sender'[s] = y /\ \A u \in Services \ {s} : Same(u)
  BY <1>1, <1>2 DEF AS!CheckUp, AS!Unchanged, AppInv, AppTypes, Onward, Same
<1>4. TxnOk(G, T, y, q, r, n)
  BY <1>1, <1>2 DEF AppInv, ServiceInv, TxnOk, HasTxn
<1>5. LeftOf(T, y) = LeftOf(T, x) /\ LeftOf(T, x) = T /\ TakenOf(y) = TakenOf(x)
  BY <1>1, <1>2 DEF LeftOf, HasTxn, TakenOf
<1>6. s \notin stranded => CareOk(T, x, up, f, r, a, started) /\ CareOk(T, y, up, f, r, a, started)
  BY <1>5 DEF AppInv, ServiceInv, CareOk
<1>7. AllOf(G, T, y, q) = AllOf(G, T, x, q)
  BY <1>5 DEF AllOf
<1>8. InSequence(G, T, x, q) => InSequence(G, T, y, q)
  BY <1>1, <1>2, <1>5 DEF InSequence
<1>9. ASSUME disturbed' = {}, s \notin stranded PROVE StatusOk(T, y, up, f, r, a)
  <2>1. disturbed = {} /\ (up => ~(f > 0))
    BY <1>9 DEF AS!CheckUp
  <2>2. StatusOk(T, x, up, f, r, a)
    BY <1>9, <2>1 DEF AppInv, ServiceInv
  <2> QED
    BY <1>1, <1>2, <1>5, <1>6, <1>9, <2>1, <2>2 DEF StatusOk, CareOk, Cared, HasTxn
<1>10. /\ delivered' = delivered /\ txns' = txns /\ queue' = queue /\ recoverer' = recoverer
       /\ lastTxn' = lastTxn /\ state' = state /\ failing' = failing /\ raising' = raising
       /\ stranded' = stranded /\ started' = started /\ Handed' = Handed
  BY DEF AS!CheckUp, AS!Unchanged, Handed
<1>11. ServiceInv(s)'
  BY <1>3, <1>4, <1>6, <1>7, <1>8, <1>9, <1>10 DEF AppInv, ServiceInv, Onward
<1> QED
  BY <1>3, <1>11, OneService DEF AS!CheckUp

(* The batch becomes a transaction, the one with the largest id. *)
LEMMA CreateTxnStep ==
    ASSUME AS!SchedulerAssumption, AppInv, NEW s \in Services, AS!CreateTxn(s)
    PROVE  AppInv'
<1> PICK G, T, x, q, r, n : /\ G = delivered[s].got /\ T = txns[s] /\ x = sender[s]
                            /\ q = queue[s] /\ r = recoverer[s] /\ n = lastTxn
  OBVIOUS
<1> PICK up, f, a : up = state[s] /\ f = failing[s] /\ a = raising[s]
  OBVIOUS
<1>m. PICK m : m = lastTxn + 1
  OBVIOUS
<1>y. PICK y : y = [x EXCEPT !.at = "send", !.txn = m]
  OBVIOUS
<1>P. PICK P : P = Plus(T, m, x.events)
  OBVIOUS
<1>1. /\ x \in SenderStates /\ x.at = "create" /\ T \in SUBSET Txns /\ n \in Nat /\ r \in Recoverers
      /\ q \in Batches /\ TxnOk(G, T, x, q, r, n) /\ up \in BOOLEAN /\ f \in Nat /\ a \in Nat
      /\ m \in Nat /\ m = n + 1
  BY <1>m DEF AS!CreateTxn, AppInv, AppTypes, ServiceInv
<1>2. y \in SenderStates /\ y.at = "send" /\ y.events = x.events /\ y.txn = m
  <2>1. y = [at |-> "send", events |-> x.events, up |-> x.up, txn |-> m]
    BY <1>1, <1>y DEF SenderStates
  <2>2. x.events \in Batches /\ x.up \in BOOLEAN
    BY <1>1 DEF SenderStates
  <2> QED
    BY <1>1, <2>1, <2>2 DEF SenderStates
<1>3. /\ P \in SUBSET Txns
      /\ TxnOk(G, P, y, q, r, m)
      /\ AllOf(G, T, x, q) \subseteq AllOf(G, P, y, q)
      /\ InSequence(G, T, x, q) => InSequence(G, P, y, q)
      /\ LeftOf(P, y) = T /\ LeftOf(T, x) = T
  <2>1. P = Plus(T, m, x.events) /\ m = n + 1
    BY <1>1, <1>P
  <2>2. x \in SenderStates /\ x.at = "create" /\ T \in SUBSET Txns /\ TxnOk(G, T, x, q, r, n)
    BY <1>1
  <2>3. n \in Nat /\ m \in Nat /\ r \in Recoverers
    BY <1>1
  <2>4. CreatedFrom(G, T, x, q, r, P, y, m)
    BY <1>2, <2>1, <2>2, <2>3, Created
  <2> QED
    BY <2>4 DEF CreatedFrom
<1>4. \E t \in P : t.id = y.txn
  <2> DEFINE v == [id |-> m, events |-> x.events]
  <2>1. v \in P /\ v.id = m
    BY <1>P DEF Plus
  <2> QED
    BY <1>2, <2>1
<1>5. /\ delivered' = delivered /\ recoverer' = recoverer /\ lastTxn' = m
      /\ state' = state /\ failing' = failing /\ raising' = raising /\ disturbed' = disturbed
      /\ AS!Unchanged /\ txns' = [txns EXCEPT ![s] = P]
  BY <1>P, <1>m DEF AS!CreateTxn, Plus
<1>6. started' = started /\ Handed' = Handed
  BY <1>5 DEF AS!Unchanged, Handed
<1>7. txns' \in [Services -> SUBSET Txns] /\ txns'[s] = P /\ \A u \in Services : u # s => txns'[u] = txns[u]
  BY <1>3, <1>5 DEF AppInv, AppTypes
<1>8. CASE x.up
  <2>1. sender' = [sender EXCEPT ![s] = y] /\ queue' = queue /\ stranded' = stranded
    BY <1>5, <1>8, <1>y, <1>m DEF AS!CreateTxn
  <2>2. AppTypes' /\ Onward /\ sender'[s] = y /\ \A u \in Services \ {s} : Same(u)
    BY <1>1, <1>2, <1>5, <1>7, <2>1 DEF AS!Unchanged, AppInv, AppTypes, Onward, Same
  <2>3. CareOk(T, x, up, f, r, a, started) => CareOk(P, y, up, f, r, a, started)
    BY <1>3 DEF CareOk
  <2>4. StatusOk(T, x, up, f, r, a) => StatusOk(P, y, up, f, r, a)
    BY <1>1, <1>2, <1>3, <1>4, <1>8 DEF StatusOk, HasTxn
  <2>5. ServiceInv(s)'
    BY <1>3, <1>5, <1>6, <1>7, <2>1, <2>2, <2>3, <2>4 DEF AppInv, ServiceInv
  <2> QED
    BY <1>5, <2>2, <2>5, OneService
<1>9. CASE ~x.up
  <2> PICK z, p : z = AS!NextBatch(q) /\ p = AS!AfterBatch(q)
    OBVIOUS
  <2>1. /\ z \in SenderStates /\ p \in Batches /\ z.at \in {"none", "check"}
        /\ TxnOk(G, P, z, p, r, m)
        /\ AllOf(G, P, y, q) \subseteq AllOf(G, P, z, p)
        /\ InSequence(G, P, y, q) => InSequence(G, P, z, p)
    <3>1. y.at \notin {"check", "create"}
      BY <1>2
    <3> QED
      BY <1>1, <1>3, <3>1, Looped
  <2>2. /\ sender' = [sender EXCEPT ![s] = z] /\ queue' = [queue EXCEPT ![s] = p]
        /\ stranded' = stranded \cup (IF r.at = "none" /\ (up \/ a > 0) THEN {s} ELSE {})
    BY <1>9 DEF AS!CreateTxn, AS!LoopOn
  <2>3. /\ AppTypes' /\ Onward /\ sender'[s] = z /\ queue'[s] = p
        /\ \A u \in Services \ {s} : Same(u)
    BY <1>1, <1>5, <1>7, <2>1, <2>2 DEF AS!Unchanged, AppInv, AppTypes, Onward, Same
  <2>4. s \notin stranded' =>
            s \notin stranded /\ (CareOk(T, x, up, f, r, a, started) => CareOk(P, z, up, f, r, a, started))
    BY <1>1, <2>1, <2>2 DEF CareOk, Cared
  <2>5. StatusOk(T, x, up, f, r, a) => StatusOk(P, z, up, f, r, a)
    BY <2>1 DEF StatusOk, HasTxn
  <2>6. ServiceInv(s)'
    BY <1>3, <1>5, <1>6, <1>7, <2>1, <2>3, <2>4, <2>5 DEF AppInv, ServiceInv
  <2> QED
    BY <1>5, <2>3, <2>6, OneService
<1> QED
  BY <1>8, <1>9

(* A transaction that the sender delivers comes in order. *)
LEMMA SendProps ==
    ASSUME AppInv, NEW s \in Services, sender[s].at = "send", AS!Deliver(s, sender[s].events)
    PROVE  /\ delivered' \in [Services -> Ledgers]
           /\ \A u \in Services : u # s => delivered'[u] = delivered[u]
           /\ delivered'[s].got = delivered[s].got \cup AS!EventsOf(sender[s].events)
           /\ disturbed = {} /\ s \notin stranded =>
                Closed(delivered'[s].got) /\ delivered'[s].late = {}
<1> PICK G, T, x, q, r : /\ G = delivered[s].got /\ T = txns[s] /\ x = sender[s]
                         /\ q = queue[s] /\ r = recoverer[s]
  OBVIOUS
<1>1. /\ x.at = "send" /\ x \in SenderStates /\ x.events \in Batches /\ G \subseteq EventNumbers
      /\ T \in SUBSET Txns /\ delivered \in [Services -> Ledgers] /\ TxnOk(G, T, x, q, r, lastTxn)
  BY DEF AppInv, AppTypes, SenderStates, Ledgers, ServiceInv
<1>2. /\ delivered' \in [Services -> Ledgers]
      /\ delivered'[s].got = G \cup AS!EventsOf(x.events)
      /\ delivered'[s].late = delivered[s].late \cup AS!Late(s, x.events)
      /\ \A u \in Services : u # s => delivered'[u] = delivered[u]
  BY <1>1, DeliverEffect
<1>3. ASSUME disturbed = {}, s \notin stranded
      PROVE  Closed(delivered'[s].got) /\ delivered'[s].late = {}
  <2>1. /\ StatusOk(T, x, state[s], failing[s], r, raising[s])
        /\ InSequence(G, T, x, q) /\ delivered[s].late = {}
    BY <1>3 DEF AppInv, ServiceInv
  <2>2. LeftOf(T, x) = {} /\ \E t \in T : t.id = x.txn
    BY <1>1, <2>1 DEF StatusOk, TxnOk, HasTxn
  <2>3. PICK t \in T : t.id = x.txn
    BY <2>2
  <2>4. t.events = x.events /\ \A u \in T : t.id <= u.id
    <3>1. \A u \in T : u.id = x.txn /\ u.id \in Nat
      BY <1>1, <2>2 DEF LeftOf, HasTxn, Txns
    <3> QED
      BY <1>1, <2>3, <3>1 DEF TxnOk, HasTxn
  <2>5. Follows(x.events, G) /\ Closed(G)
    BY <1>1, <2>1, <2>3, <2>4, OrderedFirst DEF InSequence
  <2>6. AS!Late(s, x.events) = {}
    BY <1>1, <2>5, LateNone
  <2>7. Closed(G \cup AS!EventsOf(x.events))
    BY <1>1, <2>5, DeliverProps
  <2> QED
    BY <1>2, <2>1, <2>6, <2>7
<1> QED
  BY <1>2, <1>3

(* The sender's request is answered, refused, or its answer is lost. *)
LEMMA SendStep ==
    ASSUME AppInv, NEW s \in Services, AS!Send(s)
    PROVE  AppInv'
<1> PICK G, T, x, q, r, n : /\ G = delivered[s].got /\ T = txns[s] /\ x = sender[s]
                            /\ q = queue[s] /\ r = recoverer[s] /\ n = lastTxn
  OBVIOUS
<1> PICK up, f, a : up = state[s] /\ f = failing[s] /\ a = raising[s]
  OBVIOUS
<1>y. PICK y : y = [x EXCEPT !.at = "complete"]
  OBVIOUS
<1>H. PICK H : H = delivered'[s].got
  OBVIOUS
<1>1. /\ x \in SenderStates /\ x.at = "send" /\ TxnOk(G, T, x, q, r, n)
      /\ sender' = [sender EXCEPT ![s] = y] /\ AS!Deliver(s, x.events)
  BY <1>y DEF AS!Send, AppInv, AppTypes, ServiceInv
<1>2. /\ y \in SenderStates /\ y.at = "complete" /\ y.events = x.events /\ y.up = x.up /\ y.txn = x.txn
  BY <1>1, <1>y DEF SenderStates
<1>3. /\ delivered' \in [Services -> Ledgers]
      /\ \A u \in Services : u # s => delivered'[u] = delivered[u]
      /\ H = G \cup AS!EventsOf(x.events)
      /\ disturbed = {} /\ s \notin stranded => Closed(H) /\ delivered'[s].late = {}
  <2>1. sender[s].at = "send" /\ AS!Deliver(s, sender[s].events)
    BY DEF AS!Send
  <2>2. /\ delivered' \in [Services -> Ledgers]
        /\ \A u \in Services : u # s => delivered'[u] = delivered[u]
        /\ delivered'[s].got = delivered[s].got \cup AS!EventsOf(sender[s].events)
        /\ disturbed = {} /\ s \notin stranded =>
             Closed(delivered'[s].got) /\ delivered'[s].late = {}
    BY <2>1, SendProps
  <2> QED
    BY <2>2, <1>H
<1>4. AppTypes' /\ Onward /\ sender'[s] = y /\ \A u \in Services \ {s} : Same(u)
  <2>1. /\ sender' \in [Services -> SenderStates] /\ sender'[s] = y
        /\ \A u \in Services : u # s => sender'[u] = sender[u]
    BY <1>1, <1>2 DEF AppInv, AppTypes
  <2> QED
    BY <1>3, <2>1 DEF AS!Send, AS!Unchanged, AppInv, AppTypes, Onward, Same
<1>5. /\ TxnOk(H, T, x, q, r, n)
      /\ AllOf(G, T, x, q) \subseteq AllOf(H, T, x, q)
      /\ InSequence(G, T, x, q) /\ Closed(H) => InSequence(H, T, x, q)
  <2>1. G \subseteq H
    BY <1>3
  <2> QED
    BY <1>1, <2>1, MoreGot
<1>6. TxnOk(H, T, y, q, r, n)
  BY <1>1, <1>2, <1>3, <1>5 DEF TxnOk, HasTxn
<1>7. LeftOf(T, y) = LeftOf(T, x) /\ TakenOf(y) = TakenOf(x)
  BY <1>1, <1>2 DEF LeftOf, HasTxn, TakenOf
<1>8. AllOf(H, T, y, q) = AllOf(H, T, x, q)
  BY <1>7 DEF AllOf
<1>9. InSequence(H, T, x, q) => InSequence(H, T, y, q)
  BY <1>2, <1>7 DEF InSequence
<1>10. /\ CareOk(T, x, up, f, r, a, started) => CareOk(T, y, up, f, r, a, started)
       /\ StatusOk(T, x, up, f, r, a) => StatusOk(T, y, up, f, r, a)
  BY <1>1, <1>2, <1>7 DEF CareOk, StatusOk, HasTxn
<1>11. /\ txns' = txns /\ queue' = queue /\ recoverer' = recoverer /\ lastTxn' = lastTxn
       /\ state' = state /\ failing' = failing /\ raising' = raising
       /\ stranded' = stranded /\ disturbed' = disturbed /\ started' = started /\ Handed' = Handed
  BY DEF AS!Send, AS!Unchanged, Handed
<1>12. ServiceInv(s)'
  BY <1>3, <1>4, <1>5, <1>6, <1>8, <1>9, <1>10, <1>11, <1>H DEF AppInv, ServiceInv
<1> QED
  BY <1>4, <1>12, OneService DEF AS!Send

(* push_bulk has failed, with or without effect. *)
LEMMA SendFailsStep ==
    ASSUME AS!SchedulerAssumption, AppInv, NEW s \in Services, AS!SendFails(s)
    PROVE  AppInv'
<1> PICK G, T, x, q, r, n : /\ G = delivered[s].got /\ T = txns[s] /\ x = sender[s]
                            /\ q = queue[s] /\ r = recoverer[s] /\ n = lastTxn
  OBVIOUS
<1> PICK up, f, a : up = state[s] /\ f = failing[s] /\ a = raising[s]
  OBVIOUS
<1>H. PICK H : H = delivered'[s].got
  OBVIOUS
<1>y. PICK y, p : y = AS!NextBatch(q) /\ p = AS!AfterBatch(q)
  OBVIOUS
<1>1. /\ x.at = "send" /\ TxnOk(G, T, x, q, r, n) /\ q \in Batches /\ f \in Nat
      /\ sender' = [sender EXCEPT ![s] = y] /\ queue' = [queue EXCEPT ![s] = p]
      /\ failing' = [failing EXCEPT ![s] = f + 1]
  BY <1>y DEF AS!SendFails, AS!LoopOn, AS!OnTxnFail, AppInv, AppTypes, ServiceInv
<1>2. /\ delivered' \in [Services -> Ledgers]
      /\ \A u \in Services : u # s => delivered'[u] = delivered[u]
      /\ G \subseteq H
      /\ disturbed = {} /\ s \notin stranded => Closed(H) /\ delivered'[s].late = {}
  <2>1. CASE AS!Deliver(s, sender[s].events)
    <3>1. /\ delivered' \in [Services -> Ledgers]
          /\ \A u \in Services : u # s => delivered'[u] = delivered[u]
          /\ delivered'[s].got = delivered[s].got \cup AS!EventsOf(sender[s].events)
          /\ disturbed = {} /\ s \notin stranded =>
               Closed(delivered'[s].got) /\ delivered'[s].late = {}
      BY <1>1, <2>1, SendProps
    <3> QED
      BY <3>1, <1>H
  <2>2. CASE delivered' = delivered
    BY <2>2, <1>H DEF AppInv, AppTypes, ServiceInv, InSequence
  <2> QED
    BY <2>1, <2>2 DEF AS!SendFails
<1>3. /\ TxnOk(H, T, x, q, r, n)
      /\ AllOf(G, T, x, q) \subseteq AllOf(H, T, x, q)
      /\ InSequence(G, T, x, q) /\ Closed(H) => InSequence(H, T, x, q)
  BY <1>1, <1>2, MoreGot
<1>4. /\ y \in SenderStates /\ p \in Batches /\ y.at \in {"none", "check"}
      /\ TxnOk(H, T, y, p, r, n)
      /\ AllOf(H, T, x, q) \subseteq AllOf(H, T, y, p)
      /\ InSequence(H, T, x, q) => InSequence(H, T, y, p)
  <2>1. x.at \notin {"check", "create"}
    BY <1>1
  <2> QED
    BY <1>1, <1>3, <1>y, <2>1, Looped
<1>5. /\ txns' = txns /\ recoverer' = recoverer /\ lastTxn' = lastTxn
      /\ state' = state /\ raising' = raising
      /\ stranded' = stranded /\ disturbed' = disturbed /\ started' = started /\ Handed' = Handed
      /\ AS!Unchanged
  BY DEF AS!SendFails, AS!Unchanged, Handed
<1>6. /\ AppTypes' /\ Onward /\ sender'[s] = y /\ queue'[s] = p /\ failing'[s] = f + 1
      /\ \A u \in Services \ {s} : Same(u)
  <2>1. /\ sender' \in [Services -> SenderStates] /\ sender'[s] = y
        /\ queue' \in [Services -> Batches] /\ queue'[s] = p
        /\ \A u \in Services : u # s => sender'[u] = sender[u] /\ queue'[u] = queue[u]
    BY <1>1, <1>4 DEF AppInv, AppTypes
  <2>2. /\ failing' \in [Services -> Nat] /\ failing'[s] = f + 1
        /\ \A u \in Services : u # s => failing'[u] = failing[u]
    BY <1>1 DEF AppInv, AppTypes
  <2> QED
    BY <1>2, <1>5, <2>1, <2>2 DEF AS!Unchanged, AppInv, AppTypes, Onward, Same
<1>7. CareOk(T, y, up, f + 1, r, a, started)
  BY <1>1 DEF CareOk, Cared
<1>8. StatusOk(T, x, up, f, r, a) => StatusOk(T, y, up, f + 1, r, a)
  BY <1>4 DEF StatusOk, HasTxn
<1>9. ServiceInv(s)'
  BY <1>2, <1>3, <1>4, <1>5, <1>6, <1>7, <1>8, <1>H DEF AppInv, ServiceInv
<1> QED
  BY <1>5, <1>6, <1>9, OneService

(* The sender deletes the transaction that it has delivered. *)
LEMMA CompleteTxnStep ==
    ASSUME AS!SchedulerAssumption, AppInv, NEW s \in Services, AS!Complete(s)
    PROVE  AppInv'
<1> PICK G, T, x, q, r, n : /\ G = delivered[s].got /\ T = txns[s] /\ x = sender[s]
                            /\ q = queue[s] /\ r = recoverer[s] /\ n = lastTxn
  OBVIOUS
<1> PICK up, f, a : up = state[s] /\ f = failing[s] /\ a = raising[s]
  OBVIOUS
<1>y. PICK y, p : y = AS!NextBatch(q) /\ p = AS!AfterBatch(q)
  OBVIOUS
<1>M. PICK M : M = Minus(T, x.txn)
  OBVIOUS
<1>1. /\ x.at = "complete" /\ TxnOk(G, T, x, q, r, n) /\ q \in Batches /\ T \in SUBSET Txns
      /\ sender' = [sender EXCEPT ![s] = y] /\ queue' = [queue EXCEPT ![s] = p]
      /\ txns' = [txns EXCEPT ![s] = M]
  BY <1>y, <1>M DEF AS!Complete, AS!LoopOn, AS!WithoutTxn, Minus, AppInv, AppTypes, ServiceInv
<1>2. /\ TxnOk(G, M, x, q, r, n)
      /\ AllOf(G, T, x, q) \subseteq AllOf(G, M, x, q)
      /\ InSequence(G, T, x, q) => InSequence(G, M, x, q)
  <2>1. \A t \in T : t.id = x.txn => AS!EventsOf(t.events) \subseteq G
    BY <1>1 DEF TxnOk, HasTxn
  <2> QED
    BY <1>1, <1>M, <2>1, Dropped
<1>3. /\ y \in SenderStates /\ p \in Batches /\ y.at \in {"none", "check"}
      /\ TxnOk(G, M, y, p, r, n)
      /\ AllOf(G, M, x, q) \subseteq AllOf(G, M, y, p)
      /\ InSequence(G, M, x, q) => InSequence(G, M, y, p)
  <2>1. x.at \notin {"check", "create"}
    BY <1>1
  <2> QED
    BY <1>1, <1>2, <1>y, <2>1, Looped
<1>4. M \in SUBSET Txns /\ LeftOf(M, y) = LeftOf(T, x)
  BY <1>1, <1>3, <1>M DEF LeftOf, HasTxn, Minus
<1>5. /\ delivered' = delivered /\ recoverer' = recoverer /\ lastTxn' = lastTxn
      /\ state' = state /\ raising' = raising /\ failing' = failing
      /\ stranded' = stranded /\ disturbed' = disturbed /\ started' = started /\ Handed' = Handed
      /\ AS!Unchanged
  BY DEF AS!Complete, AS!Unchanged, Handed
<1>6. /\ AppTypes' /\ Onward /\ sender'[s] = y /\ queue'[s] = p /\ txns'[s] = M
      /\ \A u \in Services \ {s} : Same(u)
  BY <1>1, <1>3, <1>4, <1>5 DEF AS!Unchanged, AppInv, AppTypes, Onward, Same
<1>7. CareOk(T, x, up, f, r, a, started) => CareOk(M, y, up, f, r, a, started)
  BY <1>4 DEF CareOk
<1>8. StatusOk(T, x, up, f, r, a) => StatusOk(M, y, up, f, r, a)
  BY <1>3 DEF StatusOk, HasTxn
<1>9. ServiceInv(s)'
  BY <1>2, <1>3, <1>5, <1>6, <1>7, <1>8 DEF AppInv, ServiceInv
<1> QED
  BY <1>5, <1>6, <1>9, OneService

(* An exception ends the sender's batch, before its insert or at its deletion. *)
LEMMA SenderFailsStep ==
    ASSUME AS!SchedulerAssumption, AppInv, NEW s \in Services, AS!SenderFails(s)
    PROVE  AppInv'
<1> PICK G, T, x, q, r, n : /\ G = delivered[s].got /\ T = txns[s] /\ x = sender[s]
                            /\ q = queue[s] /\ r = recoverer[s] /\ n = lastTxn
  OBVIOUS
<1> PICK up, f, a : up = state[s] /\ f = failing[s] /\ a = raising[s]
  OBVIOUS
<1>y. PICK y, p : y = AS!NextBatch(q) /\ p = AS!AfterBatch(q)
  OBVIOUS
<1>1. /\ TxnOk(G, T, x, q, r, n) /\ q \in Batches /\ f \in Nat
      /\ sender' = [sender EXCEPT ![s] = y] /\ queue' = [queue EXCEPT ![s] = p]
      /\ failing' = [failing EXCEPT ![s] = f + 1]
      /\ x.at # "complete" => "lost" \in disturbed'
  BY <1>y DEF AS!SenderFails, AS!LoopOn, AS!OnTxnFail, AppInv, AppTypes, ServiceInv
<1>2. /\ y \in SenderStates /\ p \in Batches /\ y.at \in {"none", "check"}
      /\ TxnOk(G, T, y, p, r, n)
      /\ x.at = "complete" => AllOf(G, T, x, q) \subseteq AllOf(G, T, y, p)
      /\ x.at = "complete" /\ InSequence(G, T, x, q) => InSequence(G, T, y, p)
  <2>1. x.at = "complete" => x.at \notin {"check", "create"}
    OBVIOUS
  <2> QED
    BY <1>1, <1>y, <2>1, Looped
<1>3. /\ delivered' = delivered /\ txns' = txns /\ recoverer' = recoverer /\ lastTxn' = lastTxn
      /\ state' = state /\ raising' = raising
      /\ stranded' = stranded /\ disturbed \subseteq disturbed' /\ started' = started
      /\ Handed' = Handed /\ AS!Unchanged
  BY DEF AS!SenderFails, AS!Unchanged, Handed
<1>4. /\ AppTypes' /\ Onward /\ sender'[s] = y /\ queue'[s] = p /\ failing'[s] = f + 1
      /\ \A u \in Services \ {s} : Same(u)
  BY <1>1, <1>2, <1>3 DEF AS!Unchanged, AppInv, AppTypes, Onward, Same
<1>5. CareOk(T, y, up, f + 1, r, a, started)
  BY <1>1 DEF CareOk, Cared
<1>6. StatusOk(T, x, up, f, r, a) => StatusOk(T, y, up, f + 1, r, a)
  BY <1>2 DEF StatusOk, HasTxn
<1>7. ServiceInv(s)'
  BY <1>1, <1>2, <1>3, <1>4, <1>5, <1>6 DEF AppInv, ServiceInv
<1> QED
  BY <1>3, <1>4, <1>7, OneService

(* A step that concerns only who cares for the service. *)
LEMMA StatusStep ==
    ASSUME AppInv, AppTypes', NEW s \in Services, Onward, AS!Unchanged,
           UNCHANGED <<delivered, txns, lastTxn, queue, sender>>,
           \A u \in Services \ {s} : /\ recoverer'[u] = recoverer[u] /\ state'[u] = state[u]
                                     /\ failing'[u] = failing[u] /\ raising'[u] = raising[u],
           \/ recoverer'[s] = recoverer[s]
           \/ recoverer'[s].at \in {"none", "wait", "get"}
           \/ /\ recoverer'[s].at = "send" /\ recoverer'[s].txn <= lastTxn
              /\ \A t \in txns[s] : recoverer'[s].txn <= t.id,
           s \notin stranded' =>
               /\ CareOk(txns[s], sender[s], state[s], failing[s], recoverer[s], raising[s], started)
                  => CareOk(txns[s], sender[s], state'[s], failing'[s], recoverer'[s], raising'[s], started)
               /\ disturbed' = {} /\ StatusOk(txns[s], sender[s], state[s], failing[s], recoverer[s], raising[s])
                  => StatusOk(txns[s], sender[s], state'[s], failing'[s], recoverer'[s], raising'[s])
    PROVE  AppInv'
<1>1. TxnOk(delivered[s].got, txns[s], sender[s], queue[s], recoverer'[s], lastTxn)
  <2>1. TxnOk(delivered[s].got, txns[s], sender[s], queue[s], recoverer[s], lastTxn)
    BY DEF AppInv, ServiceInv
  <2> QED
    BY <2>1 DEF TxnOk
<1>2. Handed' = Handed /\ started' = started
  BY DEF AS!Unchanged, Handed
<1>3. ServiceInv(s)'
  BY <1>1, <1>2 DEF AppInv, ServiceInv, Onward
<1> QED
  BY <1>3, OneService DEF Same

(* The service is marked DOWN and its recoverer starts. *)
LEMMA MarkDownStep ==
    ASSUME AppInv, NEW s \in Services, AS!MarkDown(s)
    PROVE  AppInv'
<1> PICK T, x, up, f, r, a : /\ T = txns[s] /\ x = sender[s] /\ up = state[s]
                             /\ f = failing[s] /\ r = recoverer[s] /\ a = raising[s]
  OBVIOUS
<1>1. /\ f \in Nat /\ f > 0 /\ failing' = [failing EXCEPT ![s] = f - 1]
      /\ state' = [state EXCEPT ![s] = FALSE]
      /\ \/ r.at # "none" /\ recoverer' = recoverer
         \/ recoverer' = [recoverer EXCEPT ![s] = AS!Waiting]
      /\ AS!Unchanged /\ UNCHANGED <<delivered, txns, lastTxn, queue, sender, raising, stranded, disturbed>>
  BY DEF AS!MarkDown, AS!HasRecoverer, AppInv, AppTypes
<1>2. AS!Waiting \in Recoverers /\ AS!Waiting.at = "wait"
  BY DEF AS!Waiting, AS!NoRecoverer, Recoverers
<1>3. /\ failing' \in [Services -> Nat] /\ state' \in [Services -> BOOLEAN]
      /\ recoverer' \in [Services -> Recoverers] /\ state'[s] = FALSE
      /\ recoverer'[s].at # "none" /\ (recoverer'[s] = r \/ recoverer'[s].at = "wait")
      /\ \A u \in Services \ {s} : /\ recoverer'[u] = recoverer[u] /\ state'[u] = state[u]
                                   /\ failing'[u] = failing[u] /\ raising'[u] = raising[u]
  BY <1>1, <1>2 DEF AppInv, AppTypes
<1>4. AppTypes' /\ Onward
  BY <1>1, <1>3 DEF AS!Unchanged, AppInv, AppTypes, Onward
<1>5. CareOk(T, x, state'[s], failing'[s], recoverer'[s], raising'[s], started)
  BY <1>3 DEF CareOk, Cared
<1>6. StatusOk(T, x, up, f, r, a) => StatusOk(T, x, state'[s], failing'[s], recoverer'[s], raising'[s])
  BY <1>1, <1>3 DEF StatusOk, Cared
<1> QED
  BY <1>1, <1>3, <1>4, <1>5, <1>6, StatusStep

(* The service cannot be marked DOWN: it is stranded. *)
LEMMA MarkDownFailsStep ==
    ASSUME AppInv, NEW s \in Services, AS!MarkDownFails(s)
    PROVE  AppInv'
<1>1. /\ AppTypes' /\ Onward /\ AS!Unchanged /\ s \in stranded'
      /\ UNCHANGED <<delivered, txns, lastTxn, queue, sender, state, recoverer, raising, disturbed>>
      /\ \A u \in Services \ {s} : failing'[u] = failing[u]
  BY DEF AS!MarkDownFails, AS!Unchanged, AppInv, AppTypes, Onward
<1> QED
  BY <1>1, StatusStep

(* The back-off is over and the recoverer wakes. *)
LEMMA RetryStep ==
    ASSUME AppInv, NEW s \in Services, AS!Retry(s)
    PROVE  AppInv'
<1> PICK T, x, up, f, r, a : /\ T = txns[s] /\ x = sender[s] /\ up = state[s]
                             /\ f = failing[s] /\ r = recoverer[s] /\ a = raising[s]
  OBVIOUS
<1>y. PICK y : y = [r EXCEPT !.at = "get"]
  OBVIOUS
<1>1. /\ r \in Recoverers /\ r.at = "wait" /\ recoverer' = [recoverer EXCEPT ![s] = y]
      /\ AS!Unchanged
      /\ UNCHANGED <<delivered, txns, lastTxn, queue, sender, state, failing, raising, stranded, disturbed>>
  BY <1>y DEF AS!Retry, AppInv, AppTypes
<1>2. y \in Recoverers /\ y.at = "get"
  BY <1>1, <1>y DEF Recoverers
<1>3. /\ recoverer' \in [Services -> Recoverers] /\ recoverer'[s] = y
      /\ \A u \in Services \ {s} : recoverer'[u] = recoverer[u]
  BY <1>1, <1>2 DEF AppInv, AppTypes
<1>4. AppTypes' /\ Onward
  BY <1>1, <1>3 DEF AS!Unchanged, AppInv, AppTypes, Onward
<1>5. /\ CareOk(T, x, up, f, r, a, started) => CareOk(T, x, up, f, y, a, started)
      /\ StatusOk(T, x, up, f, r, a) => StatusOk(T, x, up, f, y, a)
  BY <1>1, <1>2 DEF CareOk, StatusOk, Cared
<1> QED
  BY <1>1, <1>2, <1>3, <1>4, <1>5, StatusStep

(* The recoverer reads the oldest transaction, or finds none left. *)
LEMMA GetOldestStep ==
    ASSUME AppInv, NEW s \in Services, AS!GetOldest(s)
    PROVE  AppInv'
<1> PICK T, x, up, f, r, a : /\ T = txns[s] /\ x = sender[s] /\ up = state[s]
                             /\ f = failing[s] /\ r = recoverer[s] /\ a = raising[s]
  OBVIOUS
<1>1. /\ r \in Recoverers /\ r.at = "get" /\ a \in Nat /\ T \in SUBSET Txns /\ lastTxn \in Nat
      /\ AS!Unchanged
      /\ UNCHANGED <<delivered, txns, lastTxn, queue, sender, state, failing, stranded, disturbed>>
  BY DEF AS!GetOldest, AppInv, AppTypes
<1>2. CASE T = {} /\ AS!HasRecoverer(s)
  <2>1. /\ recoverer' = [recoverer EXCEPT ![s] = AS!NoRecoverer]
        /\ raising' = [raising EXCEPT ![s] = a + 1]
    BY <1>2 DEF AS!GetOldest
  <2>2. AS!NoRecoverer \in Recoverers /\ AS!NoRecoverer.at = "none"
    BY DEF AS!NoRecoverer, Recoverers
  <2>3. /\ recoverer' \in [Services -> Recoverers] /\ recoverer'[s].at = "none"
        /\ raising' \in [Services -> Nat] /\ raising'[s] = a + 1
        /\ \A u \in Services \ {s} : recoverer'[u] = recoverer[u] /\ raising'[u] = raising[u]
    BY <1>1, <2>1, <2>2 DEF AppInv, AppTypes
  <2>4. AppTypes' /\ Onward
    BY <1>1, <2>3 DEF AS!Unchanged, AppInv, AppTypes, Onward
  <2>5. CareOk(T, x, up, f, recoverer'[s], raising'[s], started)
    BY <1>1, <1>2, <2>3 DEF CareOk, LeftOf
  <2>6. StatusOk(T, x, up, f, r, a) => StatusOk(T, x, up, f, recoverer'[s], raising'[s])
    BY <1>1, <2>3 DEF StatusOk, Cared
  <2> QED
    BY <1>1, <2>3, <2>4, <2>5, <2>6, StatusStep
<1>3. CASE ~(T = {} /\ AS!HasRecoverer(s))
  <2>y. PICK y : y = IF T = {} THEN [r EXCEPT !.at = "wait"]
                     ELSE [r EXCEPT !.at = "send", !.txn = AS!Oldest(s).id]
    OBVIOUS
  <2>1. recoverer' = [recoverer EXCEPT ![s] = y] /\ raising' = raising
    BY <1>3, <2>y DEF AS!GetOldest
  <2>2. /\ y \in Recoverers
        /\ \/ y.at = "wait"
           \/ y.at = "send" /\ y.txn <= lastTxn /\ \A t \in T : y.txn <= t.id
    <3>1. CASE T = {}
      BY <1>1, <2>y, <3>1 DEF Recoverers
    <3>2. CASE T # {}
      <4>1. AS!Oldest(s) \in T /\ \A u \in T : AS!Oldest(s).id <= u.id
        BY <1>1, <3>2, OldestProps
      <4> PICK i : i = AS!Oldest(s).id
        OBVIOUS
      <4>2. i \in Nat /\ i <= lastTxn
        BY <1>1, <4>1 DEF Txns, AppInv, ServiceInv, TxnOk
      <4>3. y = [at |-> "send", txn |-> i, popped |-> r.popped]
        BY <1>1, <2>y, <3>2 DEF Recoverers
      <4>4. r.popped \in BOOLEAN
        BY <1>1 DEF Recoverers
      <4> QED
        BY <4>1, <4>2, <4>3, <4>4 DEF Recoverers
    <3> QED
      BY <3>1, <3>2
  <2>3. /\ recoverer' \in [Services -> Recoverers] /\ recoverer'[s] = y
        /\ \A u \in Services \ {s} : recoverer'[u] = recoverer[u]
    BY <2>1, <2>2 DEF AppInv, AppTypes
  <2>4. AppTypes' /\ Onward
    BY <1>1, <2>1, <2>3 DEF AS!Unchanged, AppInv, AppTypes, Onward
  <2>5. /\ CareOk(T, x, up, f, r, a, started) => CareOk(T, x, up, f, y, a, started)
        /\ StatusOk(T, x, up, f, r, a) => StatusOk(T, x, up, f, y, a)
    BY <1>1, <2>2 DEF CareOk, StatusOk, Cared
  <2> QED
    BY <1>1, <2>1, <2>2, <2>3, <2>4, <2>5, StatusStep
<1> QED
  BY <1>2, <1>3

(* With nothing left, the service is marked UP and the recoverer goes. *)
LEMMA MarkUpStep ==
    ASSUME AppInv, NEW s \in Services, AS!MarkUp(s)
    PROVE  AppInv'
<1> PICK T, x, up, f, r, a : /\ T = txns[s] /\ x = sender[s] /\ up = state[s]
                             /\ f = failing[s] /\ r = recoverer[s] /\ a = raising[s]
  OBVIOUS
<1>1. /\ a \in Nat /\ a > 0 /\ raising' = [raising EXCEPT ![s] = a - 1]
      /\ state' = [state EXCEPT ![s] = TRUE]
      /\ disturbed \subseteq disturbed' /\ (disturbed' = {} => r.at = "none" /\ ~(a > 1))
      /\ AS!Unchanged /\ UNCHANGED <<delivered, txns, lastTxn, queue, sender, failing, recoverer, stranded>>
  BY DEF AS!MarkUp, AppInv, AppTypes
<1>2. /\ raising' \in [Services -> Nat] /\ state' \in [Services -> BOOLEAN]
      /\ raising'[s] = a - 1 /\ state'[s] = TRUE
      /\ \A u \in Services \ {s} : state'[u] = state[u] /\ raising'[u] = raising[u]
  BY <1>1 DEF AppInv, AppTypes
<1>3. AppTypes' /\ Onward
  BY <1>1, <1>2 DEF AS!Unchanged, AppInv, AppTypes, Onward
<1>4. CareOk(T, x, up, f, r, a, started) => CareOk(T, x, state'[s], f, r, raising'[s], started)
  BY <1>1, <1>2 DEF CareOk
<1>5. disturbed' = {} /\ StatusOk(T, x, up, f, r, a) => StatusOk(T, x, state'[s], f, r, raising'[s])
  BY <1>1, <1>2 DEF StatusOk
<1> QED
  BY <1>1, <1>2, <1>3, <1>4, <1>5, StatusStep

(* The service cannot be marked UP: the recoverer tries on, out of the controller's sight. *)
LEMMA MarkUpFailsStep ==
    ASSUME AppInv, NEW s \in Services, AS!MarkUpFails(s)
    PROVE  AppInv'
<1> PICK T, x, up, f, r, a : /\ T = txns[s] /\ x = sender[s] /\ up = state[s]
                             /\ f = failing[s] /\ r = recoverer[s] /\ a = raising[s]
  OBVIOUS
<1>y. PICK y : y = [AS!Waiting EXCEPT !.popped = TRUE]
  OBVIOUS
<1>1. /\ a \in Nat /\ a > 0 /\ raising' = [raising EXCEPT ![s] = a - 1]
      /\ \/ r.at # "none" /\ recoverer' = recoverer
         \/ recoverer' = [recoverer EXCEPT ![s] = y]
      /\ AS!Unchanged /\ UNCHANGED <<delivered, txns, lastTxn, queue, sender, failing, state, stranded, disturbed>>
  BY <1>y DEF AS!MarkUpFails, AS!HasRecoverer, AppInv, AppTypes
<1>2. y \in Recoverers /\ y.at = "wait"
  BY <1>y DEF AS!Waiting, AS!NoRecoverer, Recoverers
<1>3. /\ raising' \in [Services -> Nat] /\ raising'[s] = a - 1
      /\ recoverer' \in [Services -> Recoverers]
      /\ recoverer'[s].at # "none" /\ (recoverer'[s] = r \/ recoverer'[s].at = "wait")
      /\ \A u \in Services \ {s} : recoverer'[u] = recoverer[u] /\ raising'[u] = raising[u]
  BY <1>1, <1>2 DEF AppInv, AppTypes
<1>4. AppTypes' /\ Onward
  BY <1>1, <1>3 DEF AS!Unchanged, AppInv, AppTypes, Onward
<1>5. CareOk(T, x, up, f, recoverer'[s], raising'[s], started)
  BY <1>3 DEF CareOk, Cared
<1>6. StatusOk(T, x, up, f, r, a) => StatusOk(T, x, up, f, recoverer'[s], raising'[s])
  BY <1>1, <1>3 DEF StatusOk, Cared
<1> QED
  BY <1>1, <1>3, <1>4, <1>5, <1>6, StatusStep

(* The transaction that the recoverer delivers is the oldest one, so it     *)
(* comes in order.                                                          *)
LEMMA RedeliverProps ==
    ASSUME AppInv, NEW s \in Services, recoverer[s].at = "send", AS!Redeliver(s)
    PROVE  /\ delivered' \in [Services -> Ledgers]
           /\ \A u \in Services : u # s => delivered'[u] = delivered[u]
           /\ delivered[s].got \subseteq delivered'[s].got
           /\ \A t \in txns[s] : t.id = recoverer[s].txn =>
                AS!EventsOf(t.events) \subseteq delivered'[s].got
           /\ disturbed = {} /\ s \notin stranded =>
                Closed(delivered'[s].got) /\ delivered'[s].late = {}
<1> PICK G, T, x, q, r : /\ G = delivered[s].got /\ T = txns[s] /\ x = sender[s]
                         /\ q = queue[s] /\ r = recoverer[s]
  OBVIOUS
<1>1. /\ r.at = "send" /\ G \subseteq EventNumbers
      /\ T \in SUBSET Txns /\ delivered \in [Services -> Ledgers] /\ TxnOk(G, T, x, q, r, lastTxn)
  BY DEF AppInv, AppTypes, Ledgers, ServiceInv
<1>2. CASE \E t \in T : t.id = r.txn
  <2>1. PICK t \in T : t.id = r.txn /\ AS!Deliver(s, t.events)
    BY <1>2 DEF AS!Redeliver
  <2>2. t.events \in Batches
    BY <1>1 DEF Txns
  <2>3. /\ delivered' \in [Services -> Ledgers]
        /\ delivered'[s].got = G \cup AS!EventsOf(t.events)
        /\ delivered'[s].late = delivered[s].late \cup AS!Late(s, t.events)
        /\ \A u \in Services : u # s => delivered'[u] = delivered[u]
    BY <1>1, <2>1, <2>2, DeliverEffect
  <2>4. \A u \in T : u.id = r.txn => AS!EventsOf(u.events) \subseteq delivered'[s].got
    <3>1. \A u \in T : u.id = r.txn => u = t
      BY <1>1, <2>1 DEF TxnOk
    <3> QED
      BY <2>3, <3>1
  <2>5. ASSUME disturbed = {}, s \notin stranded
        PROVE  Closed(delivered'[s].got) /\ delivered'[s].late = {}
    <3>1. InSequence(G, T, x, q) /\ delivered[s].late = {}
      BY <2>5 DEF AppInv, ServiceInv
    <3>2. \A u \in T : t.id <= u.id
      BY <1>1, <2>1 DEF TxnOk
    <3>3. Follows(t.events, G) /\ Closed(G)
      BY <1>1, <3>1, <3>2, OrderedFirst DEF InSequence
    <3>4. AS!Late(s, t.events) = {}
      BY <1>1, <2>2, <3>3, LateNone
    <3>5. Closed(G \cup AS!EventsOf(t.events))
      BY <1>1, <2>2, <3>3, DeliverProps
    <3> QED
      BY <2>3, <3>1, <3>4, <3>5
  <2> QED
    BY <2>3, <2>4, <2>5
<1>3. CASE ~\E t \in T : t.id = r.txn
  <2>1. delivered' = delivered
    BY <1>3 DEF AS!Redeliver
  <2> QED
    BY <1>1, <1>3, <2>1 DEF AppInv, ServiceInv, InSequence
<1> QED
  BY <1>2, <1>3

(* The recoverer has sent, or has tried to. *)
LEMMA ResendStep ==
    ASSUME AppInv, NEW s \in Services, AS!Resend(s) \/ AS!RetryFails(s)
    PROVE  AppInv'
<1> PICK G, T, x, q, r, n : /\ G = delivered[s].got /\ T = txns[s] /\ x = sender[s]
                            /\ q = queue[s] /\ r = recoverer[s] /\ n = lastTxn
  OBVIOUS
<1> PICK up, f, a : up = state[s] /\ f = failing[s] /\ a = raising[s]
  OBVIOUS
<1>H. PICK H : H = delivered'[s].got
  OBVIOUS
<1>z. PICK z : z = recoverer'[s]
  OBVIOUS
<1>1. /\ TxnOk(G, T, x, q, r, n) /\ r \in Recoverers /\ r.at \in {"get", "send", "complete"}
      /\ AS!Unchanged
      /\ UNCHANGED <<txns, lastTxn, queue, sender, state, failing, raising, stranded, disturbed>>
      /\ (r.at = "send" /\ AS!Redeliver(s)) \/ delivered' = delivered
      /\ AS!Resend(s) => r.at = "send" /\ AS!Redeliver(s)
  BY DEF AS!Resend, AS!RetryFails, AppInv, AppTypes, ServiceInv
<1>2. /\ recoverer' \in [Services -> Recoverers] /\ z \in Recoverers
      /\ \A u \in Services : u # s => recoverer'[u] = recoverer[u]
      /\ z.at = "wait" \/ (AS!Resend(s) /\ z.at = "complete" /\ z.txn = r.txn)
  <2>1. CASE AS!Resend(s)
    <3> PICK y : y = [r EXCEPT !.at = "complete"]
      OBVIOUS
    <3>1. recoverer' = [recoverer EXCEPT ![s] = y]
      BY <2>1 DEF AS!Resend
    <3>2. y \in Recoverers /\ y.at = "complete" /\ y.txn = r.txn
      BY <1>1 DEF Recoverers
    <3> QED
      BY <2>1, <3>1, <3>2, <1>z DEF AppInv, AppTypes
  <2>2. CASE AS!RetryFails(s)
    <3>y. PICK y : y = [r EXCEPT !.at = "wait", !.txn = 0]
      OBVIOUS
    <3>1. recoverer' = [recoverer EXCEPT ![s] = y]
      BY <2>2, <3>y DEF AS!RetryFails
    <3>2. y = [at |-> "wait", txn |-> 0, popped |-> r.popped]
      BY <1>1, <3>y DEF Recoverers
    <3>3. y \in Recoverers /\ y.at = "wait"
      BY <1>1, <3>2 DEF Recoverers
    <3> QED
      BY <3>1, <3>3, <1>z DEF AppInv, AppTypes
  <2> QED
    BY <2>1, <2>2
<1>3. /\ delivered' \in [Services -> Ledgers]
      /\ \A u \in Services : u # s => delivered'[u] = delivered[u]
      /\ G \subseteq H
      /\ AS!Resend(s) => \A t \in T : t.id = r.txn => AS!EventsOf(t.events) \subseteq H
      /\ disturbed = {} /\ s \notin stranded => Closed(H) /\ delivered'[s].late = {}
  <2>1. CASE recoverer[s].at = "send" /\ AS!Redeliver(s)
    <3>1. /\ delivered' \in [Services -> Ledgers]
          /\ \A u \in Services : u # s => delivered'[u] = delivered[u]
          /\ delivered[s].got \subseteq delivered'[s].got
          /\ \A t \in txns[s] : t.id = recoverer[s].txn =>
               AS!EventsOf(t.events) \subseteq delivered'[s].got
          /\ disturbed = {} /\ s \notin stranded =>
               Closed(delivered'[s].got) /\ delivered'[s].late = {}
      BY <2>1, RedeliverProps
    <3> QED
      BY <3>1, <1>H
  <2>2. CASE ~(recoverer[s].at = "send" /\ AS!Redeliver(s))
    <3>1. delivered' = delivered /\ ~AS!Resend(s)
      BY <1>1, <2>2
    <3> QED
      BY <3>1, <1>H DEF AppInv, AppTypes, ServiceInv, InSequence
  <2> QED
    BY <2>1, <2>2
<1>4. AppTypes' /\ Onward /\ \A u \in Services \ {s} : Same(u)
  BY <1>1, <1>2, <1>3 DEF AS!Unchanged, AppInv, AppTypes, Onward, Same
<1>5. /\ TxnOk(H, T, x, q, r, n)
      /\ AllOf(G, T, x, q) \subseteq AllOf(H, T, x, q)
      /\ InSequence(G, T, x, q) /\ Closed(H) => InSequence(H, T, x, q)
  BY <1>1, <1>3, MoreGot
<1>6. TxnOk(H, T, x, q, z, n)
  BY <1>1, <1>2, <1>3, <1>5 DEF TxnOk
<1>7. /\ CareOk(T, x, up, f, z, a, started)
      /\ StatusOk(T, x, up, f, r, a) => StatusOk(T, x, up, f, z, a)
  BY <1>1, <1>2 DEF CareOk, StatusOk, Cared
<1>8. started' = started /\ Handed' = Handed
  BY <1>1 DEF AS!Unchanged, Handed
<1>9. ServiceInv(s)'
  BY <1>1, <1>3, <1>5, <1>6, <1>7, <1>8, <1>H, <1>z DEF AppInv, ServiceInv
<1> QED
  BY <1>1, <1>4, <1>9, OneService

(* The recoverer deletes the transaction that it has delivered. *)
LEMMA CompleteResentStep ==
    ASSUME AppInv, NEW s \in Services, AS!CompleteResent(s)
    PROVE  AppInv'
<1> PICK G, T, x, q, r, n : /\ G = delivered[s].got /\ T = txns[s] /\ x = sender[s]
                            /\ q = queue[s] /\ r = recoverer[s] /\ n = lastTxn
  OBVIOUS
<1> PICK up, f, a : up = state[s] /\ f = failing[s] /\ a = raising[s]
  OBVIOUS
<1>z. PICK z : z = [r EXCEPT !.at = "get"]
  OBVIOUS
<1>M. PICK M : M = Minus(T, r.txn)
  OBVIOUS
<1>1. /\ TxnOk(G, T, x, q, r, n) /\ r \in Recoverers /\ r.at = "complete" /\ T \in SUBSET Txns
      /\ AS!Unchanged
      /\ UNCHANGED <<delivered, lastTxn, queue, sender, state, failing, raising, stranded, disturbed>>
      /\ recoverer' = [recoverer EXCEPT ![s] = z] /\ txns' = [txns EXCEPT ![s] = M]
  BY <1>z, <1>M DEF AS!CompleteResent, AS!WithoutTxn, Minus, AppInv, AppTypes, ServiceInv
<1>2. z \in Recoverers /\ z.at = "get"
  BY <1>1, <1>z DEF Recoverers
<1>3. /\ TxnOk(G, M, x, q, r, n)
      /\ AllOf(G, T, x, q) \subseteq AllOf(G, M, x, q)
      /\ InSequence(G, T, x, q) => InSequence(G, M, x, q)
  <2>1. \A t \in T : t.id = r.txn => AS!EventsOf(t.events) \subseteq G
    BY <1>1 DEF TxnOk
  <2> QED
    BY <1>1, <1>M, <2>1, Dropped
<1>4. TxnOk(G, M, x, q, z, n)
  BY <1>2, <1>3 DEF TxnOk
<1>5. M \in SUBSET Txns
  BY <1>1, <1>M DEF Minus
<1>6. /\ CareOk(M, x, up, f, z, a, started)
      /\ StatusOk(T, x, up, f, r, a) => StatusOk(M, x, up, f, z, a)
  BY <1>1, <1>2 DEF CareOk, StatusOk, Cared
<1>7. /\ AppTypes' /\ Onward /\ txns'[s] = M /\ recoverer'[s] = z
      /\ \A u \in Services \ {s} : Same(u)
  <2>1. /\ txns' \in [Services -> SUBSET Txns] /\ txns'[s] = M
        /\ \A u \in Services : u # s => txns'[u] = txns[u]
    BY <1>1, <1>5 DEF AppInv, AppTypes
  <2>2. /\ recoverer' \in [Services -> Recoverers] /\ recoverer'[s] = z
        /\ \A u \in Services : u # s => recoverer'[u] = recoverer[u]
    BY <1>1, <1>2 DEF AppInv, AppTypes
  <2> QED
    BY <1>1, <2>1, <2>2 DEF AS!Unchanged, AppInv, AppTypes, Onward, Same
<1>8. started' = started /\ Handed' = Handed
  BY <1>1 DEF AS!Unchanged, Handed
<1>9. ServiceInv(s)'
  BY <1>1, <1>3, <1>4, <1>6, <1>7, <1>8 DEF AppInv, ServiceInv
<1> QED
  BY <1>1, <1>7, <1>9, OneService

(* Steps of the poller that hand nothing over. *)
LEMMA PollerStepInv ==
    ASSUME AppInv,
           AS!PersistEvent \/ AS!FetchEvents \/ AS!SavePosition \/ AS!PollerFails
    PROVE  AppInv'
<1>0. Handed \in Nat /\ pos <= Handed /\ Handed <= lastEvent
  BY HandedNat DEF AppInv
<1>1. /\ UNCHANGED <<delivered, txns, lastTxn, queue, sender, state, failing, recoverer, raising>>
      /\ UNCHANGED <<started, stranded, disturbed>>
  BY DEF AS!PersistEvent, AS!FetchEvents, AS!SavePosition, AS!PollerFails, AS!storage, AS!service
<1>2. /\ lastEvent' \in Nat /\ pos' \in Nat /\ pos' <= lastEvent' /\ poller' \in Pollers
      /\ PollerInv' /\ 1 .. Handed' \subseteq 1 .. Handed
  <2>0. /\ lastEvent \in Nat /\ pos \in Nat /\ pos <= lastEvent /\ poller \in Pollers
        /\ poller.todo \in Seq(EventNumbers) /\ Len(poller.todo) \in Nat /\ poller.upto \in Nat
        /\ poller.due \in BOOLEAN /\ PollerInv
    BY DEF AppInv, AppTypes, Pollers, Batches
  <2>1. CASE AS!PersistEvent
    <3> PICK y : y = [poller EXCEPT !.due = TRUE]
      OBVIOUS
    <3>1. poller' = y /\ lastEvent' = lastEvent + 1 /\ pos' = pos
      BY <2>1 DEF AS!PersistEvent
    <3>2. y \in Pollers /\ y.busy = poller.busy /\ y.upto = poller.upto /\ y.todo = poller.todo
      BY <2>0 DEF Pollers
    <3>3. Handed' = Handed
      BY <3>1, <3>2 DEF Handed
    <3>4. PollerInv'
      BY <2>0, <3>1, <3>2, <3>3 DEF PollerInv
    <3> QED
      BY <2>0, <3>1, <3>2, <3>3, <3>4
  <2>2. CASE AS!FetchEvents
    <3>b. PICK b : b = [i \in 1 .. lastEvent - pos |-> pos + i]
      OBVIOUS
    <3>1. /\ poller' = [due |-> FALSE, busy |-> TRUE, upto |-> lastEvent, todo |-> b]
          /\ ~poller.busy /\ lastEvent' = lastEvent /\ pos' = pos
      BY <2>2, <3>b DEF AS!FetchEvents, AS!Fetched, AS!storage
    <3>2. /\ b \in Seq(EventNumbers) /\ Len(b) = lastEvent - pos /\ DOMAIN b = 1 .. lastEvent - pos
          /\ \A i \in 1 .. lastEvent - pos : b[i] = pos + i
      <4>1. lastEvent - pos \in Nat /\ \A i \in 1 .. lastEvent - pos : pos + i \in EventNumbers
        BY <2>0 DEF EventNumbers
      <4> QED
        BY <3>b, <4>1
    <3>3. poller' \in Pollers
      BY <2>0, <3>1, <3>2 DEF Pollers, Batches
    <3>4. Handed = pos /\ Handed' = pos
      BY <2>0, <3>1, <3>2 DEF Handed
    <3>5. PollerInv'
      BY <2>0, <3>1, <3>2, <3>4 DEF PollerInv
    <3> QED
      BY <2>0, <3>1, <3>3, <3>4, <3>5
  <2>3. CASE AS!SavePosition \/ AS!PollerFails
    <3>d. PICK d : d = poller'.due
      OBVIOUS
    <3>1. /\ poller.busy /\ poller' = [due |-> d, busy |-> FALSE, upto |-> 0, todo |-> <<>>]
          /\ d \in BOOLEAN /\ lastEvent' = lastEvent
          /\ pos' = pos \/ (pos' = poller.upto /\ poller.todo = <<>>)
      <4>1. CASE AS!SavePosition
        <5>1. poller' = [due |-> poller.due, busy |-> FALSE, upto |-> 0, todo |-> <<>>]
          BY <4>1 DEF AS!SavePosition, AS!IdlePoller
        <5>2. d = poller.due
          BY <5>1, <3>d
        <5> QED
          BY <2>0, <4>1, <5>1, <5>2 DEF AS!SavePosition
      <4>2. CASE AS!PollerFails
        <5>1. poller' = [due |-> FALSE, busy |-> FALSE, upto |-> 0, todo |-> <<>>]
          BY <4>2 DEF AS!PollerFails, AS!IdlePoller
        <5>2. d = FALSE
          BY <5>1, <3>d
        <5> QED
          BY <2>0, <4>2, <5>1, <5>2 DEF AS!PollerFails, AS!storage
      <4> QED
        BY <2>3, <4>1, <4>2
    <3>2. poller' \in Pollers /\ ~poller'.busy
      BY <3>1 DEF Pollers, Batches
    <3>3. Handed' = pos' /\ PollerInv'
      BY <3>2 DEF Handed, PollerInv
    <3>4. pos' \in Nat /\ pos' <= Handed /\ pos' <= lastEvent
      BY <1>0, <2>0, <3>1 DEF Handed, PollerInv
    <3> QED
      BY <1>0, <2>0, <3>1, <3>2, <3>3, <3>4
  <2> QED
    BY <2>1, <2>2, <2>3
<1>3. AppTypes' /\ Onward /\ \A u \in Services : Same(u)
  BY <1>1, <1>2 DEF AppInv, AppTypes, Onward, Same
<1>4. \A u \in Services : ServiceInv(u)'
  BY <1>1, <1>2, <1>3, ServiceFrame DEF AppTypes
<1> QED
  BY <1>2, <1>3, <1>4 DEF AppInv

(* An event appended to a queue: its events, and that it still follows the rest. *)
LEMMA AppendProps ==
    ASSUME NEW q \in Batches, NEW e \in EventNumbers
    PROVE  /\ Append(q, e) \in Batches
           /\ AS!EventsOf(Append(q, e)) = AS!EventsOf(q) \cup {e}
           /\ \A B : Follows(q, B) /\ 1 .. e - 1 \subseteq B \cup AS!EventsOf(q)
                        => Follows(Append(q, e), B)
<1> DEFINE p == Append(q, e)
<1>0. Len(q) \in Nat /\ DOMAIN q = 1 .. Len(q)
  BY DEF Batches
<1>1. /\ p \in Batches /\ DOMAIN p = 1 .. Len(q) + 1 /\ p[Len(q) + 1] = e
      /\ \A i \in 1 .. Len(q) : p[i] = q[i]
  BY DEF Batches
<1> HIDE DEF p
<1>2. AS!EventsOf(p) = AS!EventsOf(q) \cup {e}
  <2>1. ASSUME NEW d PROVE d \in AS!EventsOf(p) <=> d \in AS!EventsOf(q) \cup {e}
    <3>1. ASSUME d \in AS!EventsOf(p) PROVE d \in AS!EventsOf(q) \cup {e}
      <4>1. PICK i \in DOMAIN p : p[i] = d
        BY <3>1, EventsOfIs
      <4>2. i \in 1 .. Len(q) \/ i = Len(q) + 1
        BY <1>0, <1>1
      <4> QED
        BY <1>0, <1>1, <4>1, <4>2, EventsOfIs
    <3>2. d \in AS!EventsOf(q) => d \in AS!EventsOf(p)
      BY <1>0, <1>1, EventsOfIs
    <3>3. e \in AS!EventsOf(p)
      <4>1. Len(q) + 1 \in DOMAIN p
        BY <1>0, <1>1
      <4> QED
        BY <1>1, <4>1, EventsOfIs
    <3> QED
      BY <3>1, <3>2, <3>3
  <2> QED
    BY <2>1
<1>3. ASSUME NEW B, Follows(q, B), 1 .. e - 1 \subseteq B \cup AS!EventsOf(q)
      PROVE  Follows(p, B)
  <2> SUFFICES ASSUME NEW i \in DOMAIN p, NEW d \in 1 .. p[i] - 1, d \notin B
               PROVE  \E j \in 1 .. i - 1 : p[j] = d
    BY DEF Follows
  <2>1. CASE i \in 1 .. Len(q)
    <3>1. PICK j \in 1 .. i - 1 : q[j] = d
      BY <1>0, <1>1, <1>3, <2>1 DEF Follows
    <3>2. j \in 1 .. Len(q)
      BY <1>0, <2>1
    <3> QED
      BY <1>1, <3>1, <3>2
  <2>2. CASE i = Len(q) + 1
    <3>1. d \in AS!EventsOf(q)
      BY <1>1, <1>3, <2>2
    <3>2. PICK j \in DOMAIN q : q[j] = d
      BY <3>1, EventsOfIs
    <3>3. j \in 1 .. i - 1 /\ p[j] = d
      BY <1>0, <1>1, <2>2, <3>2
    <3> QED
      BY <3>3
  <2> QED
    BY <1>0, <1>1, <2>1, <2>2
<1> QED
  BY <1>1, <1>2, <1>3 DEF p

(* An event is handed over: a service gets it queued, or at once. *)
LEMMA EventQueued ==
    ASSUME NEW G, NEW T, NEW x \in SenderStates, NEW q \in Batches, NEW r, NEW n, TxnOk(G, T, x, q, r, n),
           NEW e \in EventNumbers, NEW p, p = Append(q, e), x.at # "none"
    PROVE  /\ p \in Batches
           /\ TxnOk(G, T, x, p, r, n)
           /\ 1 .. e - 1 \subseteq AllOf(G, T, x, q) =>
                /\ 1 .. e \subseteq AllOf(G, T, x, p)
                /\ InSequence(G, T, x, q) => InSequence(G, T, x, p)
<1> DEFINE B == G \cup EventsIn(T) \cup TakenOf(x)
<1>1. /\ p \in Batches /\ AS!EventsOf(p) = AS!EventsOf(q) \cup {e}
      /\ Follows(q, B) /\ 1 .. e - 1 \subseteq B \cup AS!EventsOf(q) => Follows(p, B)
  BY AppendProps
<1>2. TxnOk(G, T, x, p, r, n)
  BY DEF TxnOk
<1>3. ASSUME 1 .. e - 1 \subseteq AllOf(G, T, x, q)
      PROVE  1 .. e \subseteq AllOf(G, T, x, p)
  <2>1. \A d \in 1 .. e : d \in 1 .. e - 1 \/ d = e
    BY DEF EventNumbers
  <2> QED
    BY <1>1, <1>3, <2>1 DEF AllOf
<1>4. ASSUME 1 .. e - 1 \subseteq AllOf(G, T, x, q), InSequence(G, T, x, q)
      PROVE  InSequence(G, T, x, p)
  <2>1. 1 .. e - 1 \subseteq B \cup AS!EventsOf(q)
    BY <1>4 DEF AllOf
  <2> QED
    BY <1>1, <1>4, <2>1 DEF InSequence
<1> QED
  BY <1>1, <1>2, <1>3, <1>4

(* An idle sender takes a single event as its whole batch. *)
LEMMA FirstBatch ==
    ASSUME AS!SchedulerAssumption, NEW e \in EventNumbers
    PROVE  /\ AS!NextBatch(<<e>>) \in SenderStates
           /\ AS!NextBatch(<<e>>).at = "check" /\ AS!NextBatch(<<e>>).events = <<e>>
<1>1. <<e>> # <<>> /\ Len(<<e>>) <= PerTransaction
  BY DEF AS!SchedulerAssumption
<1>b. PICK b : b = <<e>>
  OBVIOUS
<1>2. b \in Batches
  BY <1>b DEF Batches
<1>3. AS!NextBatch(b) = [AS!NoSender EXCEPT !.at = "check", !.events = b]
  BY <1>1, <1>b, Zenon DEF AS!NextBatch
<1>4. AS!NextBatch(b) = [at |-> "check", events |-> b, up |-> FALSE, txn |-> 0]
  BY <1>3 DEF AS!NoSender
<1>5. AS!NextBatch(b) \in SenderStates /\ AS!NextBatch(b).at = "check" /\ AS!NextBatch(b).events = b
  BY <1>2, <1>4 DEF SenderStates
<1> QED
  BY <1>5, <1>b

(* An idle sender takes the next event: nothing stored changes, no gap opens. *)
LEMMA EventTaken ==
    ASSUME AS!SchedulerAssumption,
           NEW G, NEW T, NEW x \in SenderStates, NEW q, NEW r, NEW n, TxnOk(G, T, x, q, r, n),
           NEW e \in EventNumbers, NEW y, y = AS!NextBatch(<<e>>), x.at = "none"
    PROVE  /\ y \in SenderStates /\ y.at = "check"
           /\ TxnOk(G, T, y, q, r, n)
           /\ 1 .. e - 1 \subseteq AllOf(G, T, x, q) =>
                /\ 1 .. e \subseteq AllOf(G, T, y, q)
                /\ InSequence(G, T, x, q) => InSequence(G, T, y, q)
<1>2. y \in SenderStates /\ y.at = "check" /\ y.events = <<e>>
  BY FirstBatch
<1>3. q = <<>> /\ AS!EventsOf(<<>>) = {} /\ AS!EventsOf(<<e>>) = {e}
  BY DEF TxnOk, AS!EventsOf
<1>4. TakenOf(x) = {} /\ TakenOf(y) = {e}
  BY <1>2, <1>3 DEF TakenOf
<1>5. TxnOk(G, T, y, q, r, n)
  BY <1>2 DEF TxnOk, HasTxn
<1>6. ASSUME 1 .. e - 1 \subseteq AllOf(G, T, x, q)
      PROVE  1 .. e \subseteq AllOf(G, T, y, q)
  <2>1. \A d \in 1 .. e : d \in 1 .. e - 1 \/ d = e
    BY DEF EventNumbers
  <2> QED
    BY <1>3, <1>4, <1>6, <2>1 DEF AllOf
<1>7. ASSUME 1 .. e - 1 \subseteq AllOf(G, T, x, q), InSequence(G, T, x, q)
      PROVE  InSequence(G, T, y, q)
  <2>1. 1 .. e - 1 \subseteq G \cup EventsIn(T)
    BY <1>3, <1>4, <1>7 DEF AllOf
  <2>2. Follows(<<e>>, G \cup EventsIn(T))
    BY <2>1 DEF Follows
  <2>3. Follows(q, G \cup EventsIn(T) \cup TakenOf(y))
    BY <1>3 DEF Follows
  <2> QED
    BY <1>2, <1>7, <2>2, <2>3 DEF InSequence
<1> QED
  BY <1>2, <1>5, <1>6, <1>7

(* The poller hands the next event to every interested service. *)
LEMMA HandleEventStep ==
    ASSUME AS!SchedulerAssumption, AppInv, AS!HandleEvent
    PROVE  AppInv'
<1>e. PICK e : e = Handed + 1
  OBVIOUS
<1>y. PICK y : y = [poller EXCEPT !.todo = Tail(poller.todo)]
  OBVIOUS
<1>0. /\ Handed \in Nat /\ pos <= Handed /\ Handed <= lastEvent /\ lastEvent \in Nat /\ pos \in Nat
      /\ poller \in Pollers /\ poller.todo \in Seq(EventNumbers) /\ poller.todo # <<>>
      /\ poller.upto \in Nat /\ poller.busy /\ PollerInv
  BY HandedNat DEF AppInv, AppTypes, Pollers, Batches, AS!HandleEvent
<1>1. /\ Tail(poller.todo) \in Seq(EventNumbers) /\ Len(Tail(poller.todo)) = Len(poller.todo) - 1
      /\ \A i \in 1 .. Len(Tail(poller.todo)) : Tail(poller.todo)[i] = poller.todo[i + 1]
      /\ Len(poller.todo) \in Nat /\ Len(poller.todo) > 0
      /\ DOMAIN Tail(poller.todo) = 1 .. Len(Tail(poller.todo))
      /\ DOMAIN poller.todo = 1 .. Len(poller.todo)
  BY <1>0, HeadTailProperties
<1>2. e \in EventNumbers /\ Head(poller.todo) = e /\ e - 1 = Handed
  <2>1. Head(poller.todo) = poller.todo[1] /\ 1 \in DOMAIN poller.todo
    BY <1>0, <1>1
  <2> QED
    BY <1>0, <2>1, <1>e DEF PollerInv, EventNumbers
<1>3. /\ y \in Pollers /\ y.busy = poller.busy /\ y.upto = poller.upto /\ y.todo = Tail(poller.todo)
  BY <1>0, <1>1, <1>y DEF Pollers, Batches
<1>4. /\ poller' = y
      /\ UNCHANGED <<lastEvent, pos, delivered, txns, lastTxn, state, failing, recoverer, raising>>
      /\ UNCHANGED <<stranded, disturbed>>
      /\ started' \in {"no", "reading", "done"} /\ (started' = "done" <=> started = "done")
      /\ sender' = [s \in Services |-> IF sender[s].at = "none" THEN AS!NextBatch(<<e>>) ELSE sender[s]]
      /\ queue' = [s \in Services |-> IF sender[s].at = "none" THEN queue[s] ELSE Append(queue[s], e)]
  BY <1>2, <1>y DEF AS!HandleEvent, AS!storage, AppInv, AppTypes
<1>5. Handed' = e /\ PollerInv'
  <2>1. Handed' = e
    <3>1. Handed = poller.upto - Len(poller.todo)
      BY <1>0 DEF Handed
    <3>2. Handed' = poller.upto - Len(Tail(poller.todo))
      BY <1>0, <1>3, <1>4 DEF Handed
    <3> QED
      BY <1>0, <1>1, <3>1, <3>2, <1>e
  <2>2. \A i \in DOMAIN y.todo : y.todo[i] = e + i
    <3>1. ASSUME NEW i \in 1 .. Len(Tail(poller.todo)) PROVE Tail(poller.todo)[i] = e + i
      <4>1. i + 1 \in DOMAIN poller.todo /\ i \in Nat
        BY <1>1
      <4>2. poller.todo[i + 1] = Handed + (i + 1)
        BY <1>0, <4>1 DEF PollerInv
      <4> QED
        BY <1>0, <1>1, <4>1, <4>2, <1>e
    <3> QED
      BY <1>1, <1>3, <3>1
  <2>3. y.upto <= lastEvent /\ pos + Len(y.todo) <= y.upto
    BY <1>0, <1>1, <1>3 DEF PollerInv
  <2> QED
    BY <1>4, <2>1, <2>2, <2>3 DEF PollerInv
<1>6. ASSUME NEW u \in Services
      PROVE  sender'[u] \in SenderStates /\ queue'[u] \in Batches /\ ServiceInv(u)'
  <2> PICK G, T, x, q, r, n : /\ G = delivered[u].got /\ T = txns[u] /\ x = sender[u]
                              /\ q = queue[u] /\ r = recoverer[u] /\ n = lastTxn
    OBVIOUS
  <2> PICK up, f, a : up = state[u] /\ f = failing[u] /\ a = raising[u]
    OBVIOUS
  <2>z. PICK z, p : z = sender'[u] /\ p = queue'[u]
    OBVIOUS
  <2>1. /\ x \in SenderStates /\ q \in Batches /\ TxnOk(G, T, x, q, r, n)
        /\ "lost" \notin disturbed => 1 .. e - 1 \subseteq AllOf(G, T, x, q)
    BY <1>2 DEF AppInv, AppTypes, ServiceInv
  <2>2. /\ z \in SenderStates /\ p \in Batches
        /\ z = x \/ (x.at = "none" /\ z.at = "check")
        /\ TxnOk(G, T, z, p, r, n)
        /\ "lost" \notin disturbed =>
             /\ 1 .. e \subseteq AllOf(G, T, z, p)
             /\ InSequence(G, T, x, q) => InSequence(G, T, z, p)
    <3>1. CASE x.at = "none"
      <4>1. z = AS!NextBatch(<<e>>) /\ p = q
        BY <1>4, <3>1, <2>z
      <4> QED
        BY <1>2, <2>1, <3>1, <4>1, EventTaken
    <3>2. CASE x.at # "none"
      <4>1. z = x /\ p = Append(q, e)
        BY <1>4, <3>2, <2>z
      <4> QED
        BY <1>2, <2>1, <3>2, <4>1, EventQueued
    <3> QED
      BY <3>1, <3>2
  <2>3. LeftOf(T, z) = LeftOf(T, x)
    BY <2>2 DEF LeftOf, HasTxn
  <2>4. CareOk(T, x, up, f, r, a, started) => CareOk(T, z, up, f, r, a, started')
    BY <1>4, <2>3 DEF CareOk
  <2>5. StatusOk(T, x, up, f, r, a) => StatusOk(T, z, up, f, r, a)
    BY <2>2 DEF StatusOk, HasTxn
  <2>6. ServiceInv(u)'
    BY <1>4, <1>5, <2>2, <2>4, <2>5, <2>z DEF AppInv, ServiceInv
  <2> QED
    BY <2>2, <2>6, <2>z
<1>7. AppTypes'
  <2>1. sender' \in [Services -> SenderStates] /\ queue' \in [Services -> Batches]
    BY <1>4, <1>6
  <2> QED
    BY <1>3, <1>4, <2>1 DEF AppInv, AppTypes
<1> QED
  BY <1>5, <1>6, <1>7 DEF AppInv

(* start() has begun the recoverers, or has failed. *)
LEMMA StartStep ==
    ASSUME AppInv, NEW begun \in SUBSET Services,
           AS!StartRecoverers(begun) \/ (begun = {} /\ AS!StartFails)
    PROVE  AppInv'
<1>1. /\ UNCHANGED <<lastEvent, pos, poller, delivered, txns, lastTxn, queue, sender, state, failing>>
      /\ UNCHANGED <<raising, disturbed>> /\ started' = "done" /\ stranded \subseteq stranded'
      /\ \A u \in begun : ~state[u]
      /\ \A u \in Services : state[u] \/ u \in begun \/ recoverer[u].at # "none" \/ u \in stranded'
  BY DEF AS!StartRecoverers, AS!StartFails, AS!storage, AS!service, AS!HasRecoverer
<1>2. AS!Waiting \in Recoverers /\ AS!Waiting.at = "wait"
  BY DEF AS!Waiting, AS!NoRecoverer, Recoverers
<1>3. recoverer' = [u \in Services |-> IF u \in begun THEN AS!Waiting ELSE recoverer[u]]
  <2>1. CASE AS!StartRecoverers(begun)
    BY <2>1 DEF AS!StartRecoverers
  <2>2. CASE begun = {} /\ AS!StartFails
    BY <2>2 DEF AS!StartFails, AS!service, AppInv, AppTypes
  <2> QED
    BY <2>1, <2>2
<1>4. /\ recoverer' \in [Services -> Recoverers]
      /\ \A u \in Services : recoverer'[u] = IF u \in begun THEN AS!Waiting ELSE recoverer[u]
  BY <1>2, <1>3 DEF AppInv, AppTypes
<1>5. AppTypes' /\ PollerInv' /\ Handed' = Handed
  BY <1>1, <1>4 DEF AppInv, AppTypes, PollerInv, Handed
<1>6. ASSUME NEW u \in Services PROVE ServiceInv(u)'
  <2> PICK G, T, x, q, r, n : /\ G = delivered[u].got /\ T = txns[u] /\ x = sender[u]
                              /\ q = queue[u] /\ r = recoverer[u] /\ n = lastTxn
    OBVIOUS
  <2> PICK up, f, a : up = state[u] /\ f = failing[u] /\ a = raising[u]
    OBVIOUS
  <2>z. PICK z : z = recoverer'[u]
    OBVIOUS
  <2>1. /\ z = r \/ (z.at = "wait" /\ ~up)
        /\ up \/ z.at # "none" \/ u \in stranded'
    BY <1>1, <1>2, <1>4, <2>z
  <2>2. TxnOk(G, T, x, q, r, n) => TxnOk(G, T, x, q, z, n)
    BY <2>1 DEF TxnOk
  <2>3. u \notin stranded' /\ CareOk(T, x, up, f, r, a, started) => CareOk(T, x, up, f, z, a, "done")
    BY <2>1 DEF CareOk, Cared
  <2>4. StatusOk(T, x, up, f, r, a) => StatusOk(T, x, up, f, z, a)
    BY <2>1 DEF StatusOk
  <2> QED
    BY <1>1, <1>5, <2>2, <2>3, <2>4, <2>z DEF AppInv, ServiceInv
<1> QED
  BY <1>5, <1>6 DEF AppInv

(* The process starts again: what memory held is lost. *)
LEMMA RestartStep ==
    ASSUME AppInv, AS!Restart
    PROVE  AppInv'
<1>0. Handed \in Nat /\ pos \in Nat /\ pos <= Handed
  BY HandedNat DEF AppInv, AppTypes
<1>1. /\ UNCHANGED <<lastEvent, pos, delivered, txns, lastTxn, state>>
      /\ started' = "no" /\ stranded \subseteq stranded' /\ disturbed \subseteq disturbed'
      /\ \A u \in Services : state[u] /\ txns[u] # {} => u \in stranded'
      /\ "lost" \notin disturbed' => \A u \in Services : \A e \in AS!InMemory(u) : ~(e <= pos)
      /\ poller' = [due |-> FALSE, busy |-> FALSE, upto |-> 0, todo |-> <<>>]
  BY DEF AS!Restart, AS!storage, AS!IdlePoller
<1>2. /\ queue' = [u \in Services |-> <<>>] /\ sender' = [u \in Services |-> AS!NoSender]
      /\ failing' = [u \in Services |-> 0] /\ recoverer' = [u \in Services |-> AS!NoRecoverer]
      /\ raising' = [u \in Services |-> 0]
  BY DEF AS!Restart
<1>3. <<>> \in Batches /\ AS!EventsOf(<<>>) = {} /\ \A B : Follows(<<>>, B)
  BY DEF Batches, AS!EventsOf, Follows
<1>4. /\ AS!NoSender \in SenderStates /\ AS!NoSender.at = "none"
      /\ AS!NoRecoverer \in Recoverers /\ AS!NoRecoverer.at = "none"
  BY <1>3 DEF AS!NoSender, AS!NoRecoverer, SenderStates, Recoverers
<1>5. poller' \in Pollers /\ ~poller'.busy
  BY <1>1, <1>3 DEF Pollers
<1>6. AppTypes' /\ PollerInv' /\ Handed' = pos
  BY <1>1, <1>2, <1>3, <1>4, <1>5 DEF AppInv, AppTypes, PollerInv, Handed
<1>7. ASSUME NEW u \in Services PROVE ServiceInv(u)'
  <2> PICK G, T, x, q, r, n : /\ G = delivered[u].got /\ T = txns[u] /\ x = sender[u]
                              /\ q = queue[u] /\ r = recoverer[u] /\ n = lastTxn
    OBVIOUS
  <2> PICK up, f, a : up = state[u] /\ f = failing[u] /\ a = raising[u]
    OBVIOUS
  <2>y. PICK y, z : y = AS!NoSender /\ z = AS!NoRecoverer
    OBVIOUS
  <2>1. /\ sender'[u] = y /\ queue'[u] = <<>> /\ failing'[u] = 0 /\ raising'[u] = 0
        /\ recoverer'[u] = z /\ y.at = "none" /\ z.at = "none"
    BY <1>2, <1>4, <2>y
  <2>2. TxnOk(G, T, x, q, r, n) => TxnOk(G, T, y, <<>>, z, n)
    BY <2>1 DEF TxnOk, HasTxn
  <2>3. u \notin stranded' => CareOk(T, y, up, 0, z, 0, "no")
    <3>1. up => (T = {} \/ u \in stranded')
      BY <1>1
    <3> QED
      BY <2>1, <3>1 DEF CareOk, LeftOf
  <2>4. ASSUME "lost" \notin disturbed' PROVE 1 .. pos \subseteq AllOf(G, T, y, <<>>)
    <3>1. 1 .. Handed \subseteq AllOf(G, T, x, q)
      BY <1>1, <2>4 DEF AppInv, ServiceInv
    <3>2. AllOf(G, T, x, q) = G \cup EventsIn(T) \cup AS!InMemory(u)
      BY DEF AllOf, AS!InMemory, TakenOf
    <3>3. 1 .. pos \subseteq 1 .. Handed /\ \A e \in 1 .. pos : e <= pos
      BY <1>0
    <3> QED
      BY <1>1, <2>4, <3>1, <3>2, <3>3 DEF AllOf
  <2>5. StatusOk(T, y, up, 0, z, 0)
    BY <2>1 DEF StatusOk, HasTxn
  <2>6. InSequence(G, T, x, q) => InSequence(G, T, y, <<>>)
    BY <1>3, <2>1 DEF InSequence
  <2> QED
    BY <1>1, <1>6, <2>1, <2>2, <2>3, <2>4, <2>5, <2>6 DEF AppInv, ServiceInv
<1> QED
  BY <1>6, <1>7 DEF AppInv

(* The invariant holds in the initial states. *)
LEMMA AppInit ==
    ASSUME AS!Init
    PROVE  AppInv
<1>1. <<>> \in Batches /\ AS!EventsOf(<<>>) = {} /\ \A B : Follows(<<>>, B)
  BY DEF Batches, AS!EventsOf, Follows
<1>2. /\ AS!NoSender \in SenderStates /\ AS!NoSender.at = "none"
      /\ AS!NoRecoverer \in Recoverers /\ AS!NoRecoverer.at = "none"
  BY <1>1 DEF AS!NoSender, AS!NoRecoverer, SenderStates, Recoverers
<1>3. poller \in Pollers /\ ~poller.busy
  BY <1>1 DEF AS!Init, AS!IdlePoller, Pollers
<1>4. delivered \in [Services -> Ledgers] /\ \A u \in Services : delivered[u].got = {} /\ delivered[u].late = {}
  BY DEF AS!Init, Ledgers
<1>5. AppTypes /\ PollerInv /\ Handed = 0
  BY <1>1, <1>2, <1>3, <1>4 DEF AS!Init, AppTypes, PollerInv, Handed
<1>6. ASSUME NEW u \in Services PROVE ServiceInv(u)
  <2>1. /\ sender[u].at = "none" /\ queue[u] = <<>> /\ txns[u] = {} /\ recoverer[u].at = "none"
        /\ state[u] = TRUE /\ raising[u] = 0
    BY <1>2 DEF AS!Init
  <2>2. TxnOk(delivered[u].got, txns[u], sender[u], queue[u], recoverer[u], lastTxn)
    BY <2>1 DEF TxnOk, HasTxn
  <2>3. CareOk(txns[u], sender[u], state[u], failing[u], recoverer[u], raising[u], started)
    BY <2>1 DEF CareOk, LeftOf
  <2>4. StatusOk(txns[u], sender[u], state[u], failing[u], recoverer[u], raising[u])
    BY <2>1 DEF StatusOk, HasTxn
  <2>5. InSequence(delivered[u].got, txns[u], sender[u], queue[u])
    BY <1>1, <1>4, <2>1 DEF InSequence, Closed, Ordered
  <2> QED
    BY <1>4, <1>5, <2>2, <2>3, <2>4, <2>5 DEF ServiceInv
<1> QED
  BY <1>5, <1>6 DEF AppInv

(* The invariant depends on the scheduler's variables only. *)
LEMMA AppStutters ==
    ASSUME AppInv, UNCHANGED AS!vars
    PROVE  AppInv'
<1>1. /\ UNCHANGED <<lastEvent, pos, poller, delivered, txns, lastTxn, queue, sender, state, failing>>
      /\ UNCHANGED <<recoverer, raising, started, stranded, disturbed>>
  BY DEF AS!vars, AS!storage, AS!service
<1>2. AppTypes' /\ PollerInv' /\ Handed' = Handed
  BY <1>1 DEF AppInv, AppTypes, PollerInv, Handed
<1>3. \A u \in Services : ServiceInv(u)'
  BY <1>1, <1>2 DEF AppInv, ServiceInv
<1> QED
  BY <1>2, <1>3 DEF AppInv

(* Every step keeps the invariant. *)
LEMMA AppNext ==
    ASSUME AS!SchedulerAssumption, AppInv, [AS!Next]_(AS!vars)
    PROVE  AppInv'
<1>1. ASSUME NEW s \in Services, AS!ServiceStep(s) PROVE AppInv'
  BY <1>1, CheckUpStep, CreateTxnStep, SendStep, CompleteTxnStep, MarkDownStep, RetryStep,
     GetOldestStep, ResendStep, CompleteResentStep, MarkUpStep DEF AS!ServiceStep
<1>2. ASSUME NEW s \in Services, AS!ServiceFault(s) PROVE AppInv'
  BY <1>2, SendFailsStep, SenderFailsStep, MarkDownFailsStep, ResendStep, MarkUpFailsStep
     DEF AS!ServiceFault
<1>3. CASE AS!PollerStep
  BY <1>3, PollerStepInv, HandleEventStep, StartStep DEF AS!PollerStep
<1>4. CASE AS!PersistEvent \/ AS!PollerFails
  BY <1>4, PollerStepInv
<1>5. CASE AS!StartFails
  <2>1. {} \in SUBSET Services
    OBVIOUS
  <2> QED
    BY <1>5, <2>1, StartStep
<1>6. CASE AS!Restart
  BY <1>6, RestartStep
<1>7. CASE UNCHANGED AS!vars
  BY <1>7, AppStutters
<1> QED
  BY <1>1, <1>2, <1>3, <1>4, <1>5, <1>6, <1>7 DEF AS!Next, AS!Step

(* The invariant holds throughout. *)
LEMMA AppInvariance == ASSUME AS!SchedulerAssumption PROVE AS!Spec => []AppInv
<1>1. AS!Init => AppInv
  BY AppInit
<1>2. AppInv /\ [AS!Next]_(AS!vars) => AppInv'
  BY AppNext
<1> QED
  BY <1>1, <1>2, PTL DEF AS!Spec

(***************************************************************************)
(* Every event below the stored position has been delivered to each        *)
(* service, is in a transaction or in memory (set_appservice_last_pos is   *)
(* called after the events were queued), for any number of services and    *)
(* events, unless a restart or a failed insert lost one.                   *)
(***************************************************************************)
THEOREM EventsAccounted == ASSUME AS!SchedulerAssumption PROVE AS!Spec => []Accounted
<1>1. AppInv => Accounted
  <2> SUFFICES ASSUME AppInv, "lost" \notin disturbed, NEW s \in Services
               PROVE  1 .. pos \subseteq AS!Got(s) \cup AS!InTxns(s) \cup AS!InMemory(s)
    BY DEF Accounted, AS!Accounted
  <2>1. 1 .. Handed \subseteq AllOf(delivered[s].got, txns[s], sender[s], queue[s])
    BY DEF AppInv, ServiceInv
  <2>2. AllOf(delivered[s].got, txns[s], sender[s], queue[s])
            = AS!Got(s) \cup AS!InTxns(s) \cup AS!InMemory(s)
    BY DEF AllOf, AS!Got, AS!InTxns, EventsIn, AS!InMemory, TakenOf
  <2>3. 1 .. pos \subseteq 1 .. Handed
    BY HandedNat DEF AppInv, AppTypes
  <2> QED
    BY <2>1, <2>2, <2>3
<1> QED
  BY <1>1, AppInvariance, PTL

(***************************************************************************)
(* A transaction in the database is being sent, a failure is being dealt   *)
(* with, a recoverer runs or start() will start one ("Marked AS as DOWN    *)
(* and start Recoverer"), for any number of services, failures and         *)
(* restarts, unless the service was stranded.                              *)
(***************************************************************************)
THEOREM TransactionsLookedAfter == ASSUME AS!SchedulerAssumption PROVE AS!Spec => []LookedAfter
<1>1. AppInv => LookedAfter
  <2> SUFFICES ASSUME AppInv, NEW s \in Services \ stranded, txns[s] # {},
                      ~(sender[s].at \in {"send", "complete"})
               PROVE  failing[s] > 0 \/ recoverer[s].at # "none" \/ (~state[s] /\ started # "done")
    BY DEF LookedAfter, AS!LookedAfter
  <2>1. CareOk(txns[s], sender[s], state[s], failing[s], recoverer[s], raising[s], started)
    BY DEF AppInv, ServiceInv
  <2>2. LeftOf(txns[s], sender[s]) = txns[s]
    BY DEF LeftOf, HasTxn
  <2> QED
    BY <2>1, <2>2 DEF CareOk, Cared
<1> QED
  BY <1>1, AppInvariance, PTL

(***************************************************************************)
(* No service gets an event that is new to it after a later one (the       *)
(* recoverer sends the oldest transaction first, and nothing is sent       *)
(* beside it), through any failures, recoveries and restarts, unless one   *)
(* of the two races happened, an event was lost or the service stranded.   *)
(***************************************************************************)
THEOREM EventsInOrder == ASSUME AS!SchedulerAssumption PROVE AS!Spec => []InOrder
<1>1. AppInv => InOrder
  BY DEF AppInv, ServiceInv, InOrder, AS!InOrder
<1> QED
  BY <1>1, AppInvariance, PTL
================================================================================
