------------------------- MODULE EventPersistence_proofs -------------------------
(***************************************************************************)
(* The tables of a room stay consistent, for any graph of the room, any    *)
(* number of events, any sizes of the chunks, and however calls, failures  *)
(* and restarts interleave.                                                *)
(***************************************************************************)
EXTENDS EventPersistence, FiniteSetTheorems, SequenceTheorems, WellFoundedInduction, TLAPS

------------------------------------------------------------------------------
(* The graph of the room *)

(* The order of the naturals as a set of pairs. *)
NatLess == {nm \in Nat \X Nat : nm[1] < nm[2]}

(* That order is well founded. *)
LEMMA NatLessWellFounded == IsWellFoundedOn(NatLess, Nat)
<1>1. OpToRel(<, Nat) = NatLess
  BY Zenon DEF OpToRel, NatLess
<1>2. QED
  BY <1>1, NatLessThanWellFounded, Zenon

(* A set of naturals that has an element has a least one. *)
LEMMA LeastElement ==
    ASSUME NEW S, S \subseteq Nat, S # {}
    PROVE  \E x \in S : \A y \in S : x <= y
<1>1. PICK x \in S : \A y \in S : ~(<<y, x>> \in NatLess)
  BY NatLessWellFounded, WFMin, Zenon
<1>2. \A y, z \in Nat : y < z => <<y, z>> \in NatLess
  BY DEF NatLess
<1>3. \A y \in S : ~(y < x)
  BY <1>1, <1>2
<1> QED
  BY <1>3

(* A set of events that has an element has a greatest one. *)
LEMMA GreatestEvent ==
    ASSUME NEW S, S \subseteq Events, S # {}
    PROVE  \E x \in S : \A y \in S : y <= x
<1>0. MaxEvent \in Nat /\ \A x \in S : x \in Nat /\ x <= MaxEvent
  BY RoomAssumption DEF Events
<1> DEFINE T == {MaxEvent - x : x \in S}
<1>1. T \subseteq Nat
  BY <1>0
<1>2. T # {}
  OBVIOUS
<1>3. PICK t \in T : \A u \in T : t <= u
  BY <1>1, <1>2, LeastElement, Zenon
<1>4. PICK x \in S : t = MaxEvent - x
  OBVIOUS
<1>5. \A y \in S : t <= MaxEvent - y
  BY <1>3
<1> QED
  BY <1>0, <1>4, <1>5
(* The prev events of an event are events before it, in number. *)
LEMMA PrevBelow ==
    ASSUME prev \in Graphs, NEW e \in Events
    PROVE  /\ prev[e] \subseteq Events
           /\ \A p \in prev[e] : p < e
BY RoomAssumption DEF Events

(* f is what BeforeIn[e] is, for the first n events of a graph g.  *)
BeforeUpTo(f, g, n) == f = [e \in 1 .. n |-> g[e] \cup UNION {f[p] : p \in g[e]}]

(* Before, for a graph that is given: a primed graph can be put in. *)
BeforeIn(g) == CHOOSE f : f = [e \in Events |-> g[e] \cup UNION {f[p] : p \in g[e]}]

(* It is the model's Before for the room's graph. *)
LEMMA BeforeIsBeforeIn == Before = BeforeIn(prev)
BY DEF Before, BeforeIn

(* The recursion that defines Before has a solution, since prev events have *)
(* lower numbers.                                                           *)
LEMMA BeforeExists ==
    ASSUME NEW g \in Graphs
    PROVE  \E f : BeforeUpTo(f, g, MaxEvent)
<1> DEFINE S == {n \in 0 .. MaxEvent : ~ \E f : BeforeUpTo(f, g, n)}
<1>0. MaxEvent \in Nat
  BY RoomAssumption
<1>1. SUFFICES ASSUME S # {} PROVE FALSE
  BY <1>0
<1>2. S \subseteq Nat
  BY <1>0
<1>3. PICK n \in S : \A m \in S : n <= m
  BY <1>1, <1>2, LeastElement, Zenon
<1>4. CASE n = 0
  <2> DEFINE f == [e \in 1 .. 0 |-> {}]
  <2>1. BeforeUpTo(f, g, 0)
    BY DEF BeforeUpTo
  <2> QED
    BY <1>3, <1>4, <2>1
<1>5. CASE n # 0
  <2>1. n \in Nat /\ n - 1 \in 0 .. MaxEvent /\ n <= MaxEvent
    BY <1>0, <1>5
  <2>2. PICK f : BeforeUpTo(f, g, n - 1)
    BY <1>3, <2>1
  <2>3. PICK h : h = [e \in 1 .. n |-> IF e = n THEN g[n] \cup UNION {f[p] : p \in g[n]} ELSE f[e]]
    OBVIOUS
  <2>4. ASSUME NEW e \in 1 .. n
        PROVE  h[e] = g[e] \cup UNION {h[p] : p \in g[e]}
    <3>1. g[e] \subseteq 1 .. e - 1
      BY <2>1, RoomAssumption DEF Events
    <3>2. \A p \in g[e] : h[p] = f[p]
      BY <2>1, <2>3, <3>1
    <3>3. UNION {h[p] : p \in g[e]} = UNION {f[p] : p \in g[e]}
      BY <3>2
    <3>4. CASE e = n
      BY <2>3, <3>3, <3>4
    <3>5. CASE e # n
      <4>1. e \in 1 .. (n - 1)
        BY <2>1, <3>5
      <4>2. f[e] = g[e] \cup UNION {f[p] : p \in g[e]}
        BY <2>2, <4>1 DEF BeforeUpTo
      <4> QED
        BY <2>3, <3>3, <3>5, <4>2
    <3> QED
      BY <3>4, <3>5
  <2>5. BeforeUpTo(h, g, n)
    BY <2>3, <2>4 DEF BeforeUpTo
  <2> QED
    BY <1>3, <2>5
<1> QED
  BY <1>4, <1>5

(* What Before is. *)
LEMMA BeforeIs ==
    ASSUME prev \in Graphs
    PROVE  \A e \in Events : Before[e] = prev[e] \cup UNION {Before[p] : p \in prev[e]}
<1>1. \E f : f = [e \in Events |-> prev[e] \cup UNION {f[p] : p \in prev[e]}]
  BY BeforeExists DEF BeforeUpTo, Events
<1>2. PICK b : b = BeforeIn(prev)
  OBVIOUS
<1>3. b = [e \in Events |-> prev[e] \cup UNION {b[p] : p \in prev[e]}]
  BY <1>1, <1>2, Zenon DEF BeforeIn
<1>4. \A e \in Events : b[e] = prev[e] \cup UNION {b[p] : p \in prev[e]}
  BY <1>3
<1> QED
  BY <1>2, <1>4, BeforeIsBeforeIn
(* An event comes before e if it is a prev event of e or before one.        *)
LEMMA BeforeStep ==
    ASSUME prev \in Graphs, NEW e \in Events, NEW x
    PROVE  x \in Before[e] <=> x \in prev[e] \/ \E p \in prev[e] : x \in Before[p]
<1>1. Before[e] = prev[e] \cup UNION {Before[p] : p \in prev[e]}
  BY BeforeIs
<1> QED
  BY <1>1

(* Among events, one can argue by the least exception. *)
LEMMA LeastEvent ==
    ASSUME NEW S, S \subseteq Events, S # {}
    PROVE  \E x \in S : \A y \in Events : y < x => y \notin S
<1>0. \A x \in Events : x \in Nat
  BY RoomAssumption DEF Events
<1>1. S \subseteq Nat
  BY <1>0
<1>2. PICK x \in S : \A y \in S : x <= y
  BY <1>1, LeastElement, Zenon
<1> QED
  BY <1>0, <1>2

(* If the prev events of e are in a set that holds the prev events of its   *)
(* members, so is everything before e.                                      *)
LEMMA BeforeClosed ==
    ASSUME prev \in Graphs, NEW C, \A c \in C \cap Events : prev[c] \subseteq C,
           NEW e \in Events, prev[e] \subseteq C
    PROVE  Before[e] \subseteq C
<1> DEFINE S == {d \in Events : prev[d] \subseteq C /\ ~(Before[d] \subseteq C)}
<1>1. SUFFICES ASSUME S # {} PROVE FALSE
  OBVIOUS
<1>2. PICK d \in S : \A y \in Events : y < d => y \notin S
  <2>1. S \subseteq Events
    OBVIOUS
  <2> QED
    BY <1>1, <2>1, LeastEvent, Zenon
<1>3. PICK x \in Before[d] : x \notin C
  OBVIOUS
<1>4. PICK p \in prev[d] : x \in Before[p]
  BY <1>3, BeforeStep
<1>5. p \in Events /\ p < d /\ p \in C
  BY PrevBelow
<1>6. p \in S
  BY <1>3, <1>4, <1>5
<1> QED
  BY <1>2, <1>5, <1>6

(* What comes before e are events with lower numbers. *)
LEMMA BeforeBelow ==
    ASSUME prev \in Graphs, NEW e \in Events, NEW x \in Before[e]
    PROVE  x \in Events /\ x < e
<1> DEFINE C == {y \in Events : y < e}
<1>0. \A y \in Events : y \in Nat
  BY RoomAssumption DEF Events
<1>1. \A c \in C \cap Events : prev[c] \subseteq C
  <2> SUFFICES ASSUME NEW c \in C, NEW p \in prev[c]
               PROVE  p \in C
    OBVIOUS
  <2>1. p \in Events /\ p < c
    BY PrevBelow
  <2> QED
    BY <1>0, <2>1
<1>2. prev[e] \subseteq C
  BY PrevBelow
<1>3. Before[e] \subseteq C
  <2> HIDE DEF C
  <2> QED
    BY <1>1, <1>2, BeforeClosed, Zenon
<1> QED
  BY <1>3

(* What comes before an event before e comes before e. *)
LEMMA BeforeTrans ==
    ASSUME prev \in Graphs, NEW e \in Events, NEW d \in Before[e], NEW c \in Before[d]
    PROVE  c \in Before[e]
<1>1. \A y \in Before[e] \cap Events : prev[y] \subseteq Before[e]
  <2> DEFINE S == {u \in Events : \E y \in Before[u] \cap Events : ~(prev[y] \subseteq Before[u])}
  <2>1. SUFFICES ASSUME S # {} PROVE FALSE
    OBVIOUS
  <2>2. PICK u \in S : \A y \in Events : y < u => y \notin S
    <3>1. S \subseteq Events
      OBVIOUS
    <3> QED
      BY <2>1, <3>1, LeastEvent, Zenon
  <2>3. PICK y \in Before[u] \cap Events : ~(prev[y] \subseteq Before[u])
    OBVIOUS
  <2>4. PICK z \in prev[y] : z \notin Before[u]
    BY <2>3
  <2>5. CASE y \in prev[u]
    <3>1. z \in Before[y]
      BY BeforeStep
    <3> QED
      BY <2>4, <2>5, <3>1, BeforeStep
  <2>6. ASSUME NEW p \in prev[u], y \in Before[p]
        PROVE  FALSE
    <3>1. p \in Events /\ p < u
      BY PrevBelow
    <3>2. p \notin S
      BY <2>2, <3>1
    <3>3. z \in Before[p]
      BY <2>6, <3>1, <3>2
    <3> QED
      BY <2>4, <3>3, BeforeStep
  <2> QED
    BY <2>3, <2>5, <2>6, BeforeStep
<1>2. d \in Events
  BY BeforeBelow
<1>3. prev[d] \subseteq Before[e]
  BY <1>1, <1>2
<1>4. Before[d] \subseteq Before[e]
  BY <1>1, <1>2, <1>3, BeforeClosed, Zenon
<1> QED
  BY <1>4
------------------------------------------------------------------------------
(* _get_prevs_before_rejected *)

FollowingIn(g, es) == UNION {g[e] : e \in es}

(* f is the search from es up to its n-th step. *)
SeenUpTo(f, g, bad, es, n) ==
    f = [m \in 0 .. n |-> IF m = 0 THEN es ELSE f[m - 1] \cup FollowingIn(g, f[m - 1] \cap bad)]

(* What the search of _get_prevs_before_rejected has seen after so many rounds. *)
SeenFrom(g, bad, es) ==
    CHOOSE f : f = [m \in 0 .. MaxEvent |->
                      IF m = 0 THEN es ELSE f[m - 1] \cup FollowingIn(g, f[m - 1] \cap bad)]

(* The events that the search goes through: rejected or soft-failed ones with edges. *)
Bad == edges \cap InGraph \cap (rejections \cup softFailed)

(* The search returns what the bad events it has seen follow. *)
LEMMA PbrIsSeen ==
    ASSUME NEW es
    PROVE  PrevsBeforeRejected(es) = FollowingIn(prev, SeenFrom(prev, Bad, es)[MaxEvent] \cap Bad)
BY DEF PrevsBeforeRejected, SeenFrom, FollowingIn, Following, Bad

(* The recursion of the search has a solution. *)
LEMMA SeenExists ==
    ASSUME NEW g, NEW bad, NEW es
    PROVE  \E f : SeenUpTo(f, g, bad, es, MaxEvent)
<1> DEFINE S == {n \in 0 .. MaxEvent : ~ \E f : SeenUpTo(f, g, bad, es, n)}
<1>0. MaxEvent \in Nat
  BY RoomAssumption
<1>1. SUFFICES ASSUME S # {} PROVE FALSE
  BY <1>0
<1>2. S \subseteq Nat
  BY <1>0
<1>3. PICK n \in S : \A m \in S : n <= m
  BY <1>1, <1>2, LeastElement, Zenon
<1>4. CASE n = 0
  <2> DEFINE f == [e \in 0 .. 0 |-> es]
  <2>1. SeenUpTo(f, g, bad, es, 0)
    BY DEF SeenUpTo
  <2> QED
    BY <1>3, <1>4, <2>1
<1>5. CASE n # 0
  <2>1. n \in Nat /\ n - 1 \in 0 .. MaxEvent /\ n <= MaxEvent
    BY <1>0, <1>5
  <2>2. PICK f : SeenUpTo(f, g, bad, es, n - 1)
    BY <1>3, <2>1
  <2>3. PICK h : h = [m \in 0 .. n |-> IF m = n THEN f[n - 1] \cup FollowingIn(g, f[n - 1] \cap bad)
                                                ELSE f[m]]
    OBVIOUS
  <2>4. ASSUME NEW m \in 0 .. n
        PROVE  h[m] = IF m = 0 THEN es ELSE h[m - 1] \cup FollowingIn(g, h[m - 1] \cap bad)
    <3>1. m \in Nat /\ (m # 0 => m - 1 \in 0 .. n - 1 /\ m - 1 \in 0 .. n)
      BY <2>1
    <3>2. m # 0 => h[m - 1] = f[m - 1]
      BY <2>1, <2>3, <3>1
    <3>3. CASE m = n
      BY <1>5, <2>3, <3>2, <3>3
    <3>4. CASE m # n
      <4>1. m \in 0 .. n - 1
        BY <2>1, <3>4
      <4>2. f[m] = IF m = 0 THEN es ELSE f[m - 1] \cup FollowingIn(g, f[m - 1] \cap bad)
        BY <2>2, <4>1 DEF SeenUpTo
      <4> QED
        BY <2>3, <3>2, <3>4, <4>2
    <3> QED
      BY <3>3, <3>4
  <2>5. SeenUpTo(h, g, bad, es, n)
    BY <2>3, <2>4 DEF SeenUpTo
  <2> QED
    BY <1>3, <2>5
<1> QED
  BY <1>4, <1>5

(* The search starts from the events given and each round adds what the bad ones follow. *)
LEMMA SeenIs ==
    ASSUME NEW g, NEW bad, NEW es
    PROVE  /\ SeenFrom(g, bad, es)[0] = es
           /\ \A n \in 1 .. MaxEvent :
                SeenFrom(g, bad, es)[n] = SeenFrom(g, bad, es)[n - 1]
                    \cup FollowingIn(g, SeenFrom(g, bad, es)[n - 1] \cap bad)
<1>0. MaxEvent \in Nat
  BY RoomAssumption
<1>1. \E f : f = [m \in 0 .. MaxEvent |->
                   IF m = 0 THEN es ELSE f[m - 1] \cup FollowingIn(g, f[m - 1] \cap bad)]
  <2>1. \E f : SeenUpTo(f, g, bad, es, MaxEvent)
    BY SeenExists, Zenon
  <2> QED
    BY <2>1, Zenon DEF SeenUpTo
<1>2. PICK f : f = SeenFrom(g, bad, es)
  OBVIOUS
<1>3. f = [m \in 0 .. MaxEvent |->
             IF m = 0 THEN es ELSE f[m - 1] \cup FollowingIn(g, f[m - 1] \cap bad)]
  BY <1>1, <1>2, Zenon DEF SeenFrom
<1>4. f[0] = es
  BY <1>0, <1>3
<1>5. \A n \in 1 .. MaxEvent : f[n] = f[n - 1] \cup FollowingIn(g, f[n - 1] \cap bad)
  <2> SUFFICES ASSUME NEW n \in 1 .. MaxEvent
               PROVE  f[n] = f[n - 1] \cup FollowingIn(g, f[n - 1] \cap bad)
    OBVIOUS
  <2>1. n \in 0 .. MaxEvent /\ n # 0
    BY <1>0
  <2> QED
    BY <1>3, <2>1
<1> QED
  BY <1>2, <1>4, <1>5

(* S is what a search from es is to find: the prev events of its bad        *)
(* members are in it, and nothing but the events the search starts from and *)
(* what is before them.                                                     *)
Found(es, S) ==
    /\ es \subseteq S
    /\ S \subseteq Events
    /\ PrevsBeforeRejected(es) = Following(S \cap Bad)
    /\ Following(S \cap Bad) \subseteq S
    /\ \A z \in S : \E p \in es : z = p \/ z \in Before[p]

(* The search of _get_prevs_before_rejected finds it. *)
LEMMA PbrIs ==
    ASSUME prev \in Graphs, NEW es, es \subseteq Events
    PROVE  \E S : Found(es, S)
<1>0. MaxEvent \in Nat /\ \A e \in Events : e \in Nat /\ e >= 1 /\ e <= MaxEvent
  BY RoomAssumption DEF Events
<1>1. PICK f : f = SeenFrom(prev, Bad, es)
  OBVIOUS
<1>2. f[0] = es /\ \A n \in 1 .. MaxEvent : f[n] = f[n - 1] \cup Following(f[n - 1] \cap Bad)
  <2>1. \A X : FollowingIn(prev, X) = Following(X)
    BY DEF FollowingIn, Following
  <2> QED
    BY <1>1, <2>1, SeenIs
<1>3. PrevsBeforeRejected(es) = Following(f[MaxEvent] \cap Bad)
  BY <1>1, PbrIsSeen DEF FollowingIn, Following
<1> DEFINE From(n) == /\ f[n] \subseteq Events
                      /\ es \subseteq f[n]
                      /\ \A z \in f[n] : \E p \in es : z = p \/ z \in Before[p]
                      /\ n > 0 => \A z \in f[n] : z \in f[n - 1] \/ z <= MaxEvent - n
<1>4. ASSUME NEW n \in 1 .. MaxEvent, From(n - 1)
      PROVE  From(n)
  <2>1. n \in Nat /\ n - 1 \in Nat /\ n <= MaxEvent /\ n >= 1
    BY <1>0
  <2>2. f[n] = f[n - 1] \cup Following(f[n - 1] \cap Bad)
    BY <1>2
  <2>3. ASSUME NEW z \in f[n], z \notin f[n - 1]
        PROVE  /\ z \in Events
               /\ \E p \in es : z = p \/ z \in Before[p]
               /\ z <= MaxEvent - n
    <3>1. PICK w \in f[n - 1] \cap Bad : z \in prev[w]
      BY <2>2, <2>3 DEF Following
    <3>2. w \in Events
      BY <1>4
    <3>3. z \in Events /\ z < w
      BY <3>1, <3>2, PrevBelow
    <3>4. PICK p \in es : w = p \/ w \in Before[p]
      BY <1>4, <3>1
    <3>5. z \in Before[p]
      <4>1. z \in Before[w]
        BY <3>1, <3>2, BeforeStep
      <4> QED
        BY <3>4, <4>1, BeforeTrans
    <3>6. CASE n = 1
      BY <1>0, <3>2, <3>3, <3>5, <3>6
    <3>7. CASE n > 1
      <4>1. n - 1 \in 1 .. MaxEvent
        BY <2>1, <3>7, <1>0
      <4>2. f[n - 1] = f[n - 1 - 1] \cup Following(f[n - 1 - 1] \cap Bad)
        BY <1>2, <4>1
      <4>3. w \notin f[n - 1 - 1]
        BY <2>3, <3>1, <4>2 DEF Following
      <4>4. w <= MaxEvent - (n - 1)
        BY <1>4, <2>1, <3>1, <3>7, <4>3
      <4> QED
        BY <1>0, <2>1, <3>2, <3>3, <3>5, <4>4
    <3> QED
      BY <2>1, <3>6, <3>7
  <2> QED
    BY <1>4, <2>2, <2>3
<1>5. From(0)
  BY <1>2
<1>6. From(MaxEvent)
  <2> DEFINE N == {n \in 0 .. MaxEvent : ~From(n)}
  <2>1. SUFFICES ASSUME N # {} PROVE FALSE
    BY <1>0
  <2>2. N \subseteq Nat
    BY <1>0
  <2> HIDE DEF From
  <2>3. PICK n \in N : \A m \in N : n <= m
    <3> HIDE DEF N
    <3> QED
      BY <2>1, <2>2, LeastElement, Zenon
  <2>4. n # 0 /\ n \in 1 .. MaxEvent /\ n - 1 \in 0 .. MaxEvent /\ n - 1 < n
    BY <1>0, <1>5
  <2>5. From(n - 1)
    BY <2>3, <2>4
  <2> QED
    BY <1>4, <2>4, <2>5
<1>7. Following(f[MaxEvent] \cap Bad) \subseteq f[MaxEvent]
  <2>1. CASE MaxEvent = 0
    BY <1>0, <1>6, <2>1 DEF Following
  <2>2. CASE MaxEvent # 0
    <3>1. MaxEvent \in 1 .. MaxEvent /\ MaxEvent > 0
      BY <1>0, <2>2
    <3>2. \A z \in f[MaxEvent] : z \in f[MaxEvent - 1]
      BY <1>0, <1>6, <3>1
    <3>3. f[MaxEvent] = f[MaxEvent - 1] \cup Following(f[MaxEvent - 1] \cap Bad)
      BY <1>2, <3>1
    <3>4. f[MaxEvent] = f[MaxEvent - 1]
      BY <3>2, <3>3
    <3> QED
      BY <3>3, <3>4
  <2> QED
    BY <2>1, <2>2
<1> QED
  BY <1>3, <1>6, <1>7 DEF Found
------------------------------------------------------------------------------
(* _calculate_new_extremities *)

(* Events of the graph in good standing. *)
Good == (edges \cap InGraph) \ (rejections \cup softFailed)

(* The event e is at or before one of X. *)
Covered(e, X) == \E f \in X : e = f \/ e \in Before[f]

(* The extremities after new events. *)
Extremities(new) ==
    (((forward \cup new) \ Following(new)) \ PrevsOfExisting) \ PrevsBeforeRejected(Following(new))

(* Whatever the old extremities and the new events are, what is taken out   *)
(* of them is before something that stays, if the extremities follow all    *)
(* events in good standing.                                                 *)
LEMMA ExtremitiesCover ==
    ASSUME prev \in Graphs, forward \subseteq Events, NEW new, new \subseteq Events,
           \A g \in Good : Covered(g, forward)
    PROVE  \A y : Covered(y, forward \cup new) => Covered(y, Extremities(new))
<1> DEFINE all == forward \cup new
           lost == {y \in all : ~Covered(y, Extremities(new))}
<1>0. \A e \in Events : e \in Nat
  BY RoomAssumption DEF Events
<1>1. ASSUME NEW y \in all, y \notin Extremities(new)
      PROVE  \E z \in all : y \in Before[z] /\ y < z
  <2>1. SUFFICES \E z \in all : y \in Before[z]
    BY BeforeBelow
  <2>2. CASE y \in Following(new)
    <3>1. PICK z \in new : y \in prev[z]
      BY <2>2 DEF Following
    <3> QED
      BY <3>1, BeforeStep
  <2>3. CASE y \in PrevsOfExisting
    <3>1. PICK g \in Good : y \in prev[g]
      BY <2>3 DEF PrevsOfExisting, Following, Good
    <3>2. g \in Events
      BY <3>1 DEF Good, InGraph
    <3>3. y \in Before[g]
      BY <3>1, <3>2, BeforeStep
    <3>4. PICK z \in forward : g = z \/ g \in Before[z]
      BY <3>1 DEF Covered
    <3>5. y \in Before[z]
      BY <3>3, <3>4, BeforeTrans
    <3> QED
      BY <3>5
  <2>4. CASE y \in PrevsBeforeRejected(Following(new))
    <3>1. Following(new) \subseteq Events
      BY PrevBelow DEF Following
    <3>2. PICK S : Found(Following(new), S)
      BY <3>1, PbrIs
    <3>3. PICK z \in S : y \in prev[z]
      BY <2>4, <3>2 DEF Following, Found
    <3>4. PICK p \in Following(new) : z = p \/ z \in Before[p]
      BY <3>2, <3>3 DEF Found
    <3>5. PICK n \in new : p \in prev[n]
      BY <3>4 DEF Following
    <3>6. y \in Before[z] /\ z \in Events
      BY <3>2, <3>3, BeforeStep DEF Found
    <3>7. z \in Before[n]
      BY <3>4, <3>5, BeforeStep
    <3>8. y \in Before[n]
      BY <3>6, <3>7, BeforeTrans
    <3> QED
      BY <3>8
  <2> QED
    BY <1>1, <2>2, <2>3, <2>4 DEF Extremities
<1>2. ASSUME lost # {}
      PROVE  FALSE
  <2>1. lost \subseteq Events
    OBVIOUS
  <2>2. PICK y \in lost : \A z \in lost : z <= y
    <3> HIDE DEF lost
    <3> QED
      BY <1>2, <2>1, GreatestEvent, Zenon
  <2>3. y \notin Extremities(new)
    BY <2>2 DEF Covered
  <2>4. PICK z \in all : y \in Before[z] /\ y < z
    BY <1>1, <2>3
  <2>5. z \notin lost
    BY <1>0, <2>2, <2>4
  <2>6. PICK f \in Extremities(new) : z = f \/ z \in Before[f]
    BY <2>5 DEF Covered
  <2>7. f \in Events
    BY <2>6 DEF Extremities
  <2>8. y \in Before[f]
    BY <2>4, <2>6, <2>7, BeforeTrans
  <2> QED
    BY <2>2, <2>6, <2>8 DEF Covered
<1>3. TAKE y
<1>4. HAVE Covered(y, all)
<1>5. PICK z \in all : y = z \/ y \in Before[z]
  BY <1>4 DEF Covered
<1>6. Covered(z, Extremities(new))
  BY <1>2
<1>7. PICK f \in Extremities(new) : z = f \/ z \in Before[f]
  BY <1>6 DEF Covered
<1>8. f \in Events
  BY <1>7 DEF Extremities
<1>9. y = f \/ y \in Before[f]
  BY <1>5, <1>7, <1>8, BeforeTrans
<1> QED
  BY <1>7, <1>9 DEF Covered

(* If events arrive in order and none is rejected, the new extremities are  *)
(* not before anything in good standing: the search goes past as many       *)
(* soft-failed events as there are.                                         *)
LEMMA ExtremitiesLast ==
    ASSUME prev \in Graphs, NEW new, new \subseteq Events,
           forward \subseteq InGraph, softFailed \subseteq InGraph, InGraph \subseteq edges,
           \A e \in InGraph : prev[e] \subseteq InGraph,
           \A e \in new : prev[e] \subseteq InGraph /\ e \notin InGraph,
           \A e \in forward : \A g \in InGraph \ softFailed : e \notin Before[g]
    PROVE  \A e \in Extremities(new) : \A g \in new \cup (InGraph \ softFailed) : e \notin Before[g]
<1>0. InGraph \subseteq Events
  BY DEF InGraph
<1> SUFFICES ASSUME NEW e \in Extremities(new), NEW g \in new \cup (InGraph \ softFailed),
                    e \in Before[g]
             PROVE  FALSE
  OBVIOUS
<1>1. g \in Events /\ prev[g] \subseteq InGraph
  BY <1>0
<1>2. e \in InGraph
  <2>1. Before[g] \subseteq InGraph
    BY <1>1, BeforeClosed
  <2> QED
    BY <2>1
<1>3. e \in forward
  BY <1>2 DEF Extremities
<1>4. g \in new
  BY <1>3
<1>5. PICK S : /\ Following(new) \subseteq S
               /\ S \subseteq Events
               /\ PrevsBeforeRejected(Following(new)) = Following(S \cap Bad)
               /\ Following(S \cap Bad) \subseteq S
  <2>1. Following(new) \subseteq Events
    BY PrevBelow DEF Following
  <2>2. PICK S : Found(Following(new), S)
    BY <2>1, PbrIs
  <2> QED
    BY <2>2 DEF Found
<1> DEFINE P == {p \in S \cap InGraph : e \in Before[p]}
<1>6. e \notin prev[g]
  BY <1>4 DEF Extremities, Following
<1>7. PICK p \in prev[g] : e \in Before[p]
  BY <1>1, <1>6, BeforeStep
<1>8. p \in P
  BY <1>1, <1>4, <1>5, <1>7 DEF Following
<1>9. PICK q \in P : \A y \in Events : y < q => y \notin P
  <2>1. P \subseteq Events /\ P # {}
    BY <1>0, <1>8
  <2> HIDE DEF P
  <2> QED
    BY <2>1, LeastEvent, Zenon
<1>10. q \in softFailed
  BY <1>3, <1>9
<1>11. q \in S \cap Bad
  BY <1>9, <1>10 DEF Bad
<1>12. prev[q] \subseteq Following(S \cap Bad)
  BY <1>11 DEF Following
<1>13. e \notin prev[q]
  BY <1>5, <1>12 DEF Extremities
<1>14. PICK r \in prev[q] : e \in Before[r]
  BY <1>0, <1>9, <1>13, BeforeStep
<1>15. r \in Events /\ r < q /\ r \in InGraph
  BY <1>0, <1>9, PrevBelow
<1>16. r \in P
  BY <1>5, <1>12, <1>14, <1>15
<1> QED
  BY <1>9, <1>15, <1>16
------------------------------------------------------------------------------
(* The inductive invariant *)

Items == [event : Events, as : {"new", "backfilled", "outlier"}, soft : BOOLEAN]

(* A task, in the queue or taken by a loop. *)
Entries == [at : {"idle", "check", "calculate", "write", "state", "next"},
            task : {"none", "persist", "state"}, backfilled : BOOLEAN,
            items : Seq(Items), calls : Nat, extremities : SUBSET Events]

(* The types that the proof needs. *)
Types ==
    /\ prev \in Graphs /\ sends \in Sends /\ chunkSize \in ChunkSizes
    /\ stored \in [Events -> {"none", "outlier", "event"}]
    /\ rejections \in SUBSET Events /\ softFailed \in SUBSET Events /\ edges \in SUBSET Events
    /\ forward \in SUBSET Events /\ live \in SUBSET Events
    /\ queue \in Seq(Entries) /\ loop \in [Loops -> Entries]
    /\ persisting \in BOOLEAN /\ gaps \in BOOLEAN /\ astray \in BOOLEAN

(* One loop at a time. *)
OneLoop ==
    /\ \A l, m \in Loops : loop[l] # Idle /\ loop[m] # Idle => l = m
    /\ ~persisting => \A l \in Loops : loop[l] = Idle

(* A task is for new events or for others; only new events soft-fail; a new *)
(* event is in a task once.                                                 *)
Shape(t) ==
    /\ \A k \in DOMAIN t.items : /\ t.items[k].as = "new" <=> ~t.backfilled
                                 /\ t.items[k].soft => ~t.backfilled
    /\ ~t.backfilled =>
         \A j, k \in DOMAIN t.items : t.items[j].event = t.items[k].event => j = k

(* Two tasks have no new event in common. *)
Apart(t, u) ==
    ~t.backfilled /\ ~u.backfilled =>
      \A j \in DOMAIN t.items : \A k \in DOMAIN u.items : t.items[j].event # u.items[k].event

(* The events of a task are outliers, or new, and nothing is missing before *)
(* them; g is the graph of the room, G the events of it that are there.     *)
ReadyIn(t, g, G) ==
    \A k \in DOMAIN t.items :
      \/ t.items[k].as = "outlier"
      \/ /\ t.items[k].as = "new"
         /\ g[t.items[k].event] \subseteq G
         /\ t.items[k].event \notin G

(* A queue of such tasks; ready says that their events are ready. *)
QueueOk(q, g, G, ready) ==
    /\ \A a \in DOMAIN q : Shape(q[a]) /\ (ready => ReadyIn(q[a], g, G))
    /\ \A a, b \in DOMAIN q : a # b => Apart(q[a], q[b])

(* The tasks in the queue, and the loops' against them: no event twice, and what a task follows is there. *)
TasksOk ==
    /\ QueueOk(queue, prev, InGraph, ~gaps)
    /\ \A l \in Loops : /\ Shape(loop[l])
                        /\ ~gaps => ReadyIn(loop[l], prev, InGraph)
                        /\ \A a \in DOMAIN queue : Apart(loop[l], queue[a])

(* Of the events of one transaction ID, at most one is about to be written, *)
(* and none if one is there.                                                *)
SentOnce(items, sd, G) ==
    /\ \A j, k \in DOMAIN items : items[j].event \in sd /\ items[k].event \in sd => j = k
    /\ \A k \in DOMAIN items : items[k].event \in sd => sd \cap G = {}

(* What a loop is about to write was worked out from what is there now. *)
LoopOk(l) ==
    /\ loop[l].at \in {"calculate", "write"} => SentOnce(loop[l].items, sends, InGraph)
    /\ loop[l].at = "write" =>
         IF loop[l].backfilled THEN loop[l].extremities = {}
         ELSE NewExtremities(Chunk(l)) =
                IF loop[l].extremities = {} THEN forward ELSE loop[l].extremities
    /\ loop[l].at = "state" => loop[l].extremities = forward

(* What a loop may rely on at the step it is at. *)
LoopsOk == \A l \in Loops : LoopOk(l)

(* The events that the events table has. *)
Stored == {e \in Events : stored[e] # "none"}

(* How the tables go together: who has edges, a rejection or a place in the graph. *)
Tables ==
    /\ edges = Stored \ rejects /\ rejections = Stored \cap rejects
    /\ softFailed \subseteq InGraph /\ forward \subseteq InGraph
    /\ \A e, f \in sends \cap InGraph : e = f

(* Every new event that was accepted is at or before a forward extremity. *)
Tips == ~astray => \A e \in live \cup Good : Covered(e, forward)

(* The graph has what its events follow, unless an event came with a gap. *)
Closed == ~gaps => \A e \in InGraph : prev[e] \subseteq InGraph

(* No event in good standing comes after an extremity. *)
ForwardLast ==
    ~gaps /\ ~astray /\ rejections = {} =>
      /\ forward \cap softFailed = {}
      /\ \A e \in forward : \A g \in InGraph \ softFailed : e \notin Before[g]

(* The inductive invariant. *)
IInv ==
    /\ Types /\ OneLoop /\ TasksOk /\ LoopsOk /\ Tables
    /\ StateMatches /\ BackwardExact /\ Tips /\ Closed /\ ForwardLast
------------------------------------------------------------------------------
(* Tasks *)

(* The items of u are some of those of s. *)
Within(u, s) ==
    \E m \in [DOMAIN u -> DOMAIN s] :
      /\ \A k \in DOMAIN u : u[k] = s[m[k]]
      /\ \A j, k \in DOMAIN u : m[j] = m[k] => j = k

(* A part of a task is as fit as the task. *)
LEMMA WithinShape ==
    ASSUME NEW t, NEW u, Shape(t), u.backfilled = t.backfilled, Within(u.items, t.items)
    PROVE  Shape(u)
<1>1. PICK m \in [DOMAIN u.items -> DOMAIN t.items] :
        /\ \A k \in DOMAIN u.items : u.items[k] = t.items[m[k]]
        /\ \A j, k \in DOMAIN u.items : m[j] = m[k] => j = k
  BY DEF Within
<1>2. \A k \in DOMAIN u.items : m[k] \in DOMAIN t.items
  BY <1>1
<1> QED
  BY <1>1, <1>2 DEF Shape

(* Tasks that have no event in common have none after one of them has lost items. *)
LEMMA WithinApart ==
    ASSUME NEW t, NEW u, NEW v, Apart(t, v), u.backfilled = t.backfilled, Within(u.items, t.items)
    PROVE  Apart(u, v)
BY DEF Within, Apart

(* What the events of a task follow is there after the task has lost items. *)
LEMMA WithinReady ==
    ASSUME NEW t, NEW u, NEW g, NEW G, ReadyIn(t, g, G), Within(u.items, t.items)
    PROVE  ReadyIn(u, g, G)
BY DEF Within, ReadyIn

(* One event for each transaction ID: still so after items were lost. *)
LEMMA WithinSentOnce ==
    ASSUME NEW s, NEW u, NEW sd, NEW G, SentOnce(s, sd, G), Within(u, s)
    PROVE  SentOnce(u, sd, G)
<1>1. PICK m \in [DOMAIN u -> DOMAIN s] :
        /\ \A k \in DOMAIN u : u[k] = s[m[k]]
        /\ \A j, k \in DOMAIN u : m[j] = m[k] => j = k
  BY DEF Within
<1>2. \A k \in DOMAIN u : m[k] \in DOMAIN s
  BY <1>1
<1> QED
  BY <1>1, <1>2 DEF SentOnce

(* A task without items is fit. *)
LEMMA EmptyTask ==
    ASSUME NEW t, t.items = <<>>, NEW v, NEW g, NEW G
    PROVE  Shape(t) /\ Apart(t, v) /\ Apart(v, t) /\ ReadyIn(t, g, G)
BY DEF Shape, Apart, ReadyIn

(* Having no event in common is symmetric. *)
LEMMA ApartSymmetric ==
    ASSUME NEW t, NEW u, Apart(t, u)
    PROVE  Apart(u, t)
BY DEF Apart
(* An item of two sequences put together is one of either. *)
LEMMA ConcatItem ==
    ASSUME NEW S, NEW s \in Seq(S), NEW u \in Seq(S), NEW k \in DOMAIN (s \o u)
    PROVE  \/ k \in DOMAIN s /\ (s \o u)[k] = s[k]
           \/ k - Len(s) \in DOMAIN u /\ (s \o u)[k] = u[k - Len(s)]
<1>1. /\ DOMAIN s = 1 .. Len(s) /\ Len(s) \in Nat
      /\ DOMAIN u = 1 .. Len(u) /\ Len(u) \in Nat
      /\ k \in 1 .. (Len(s) + Len(u))
  OBVIOUS
<1>2. CASE k <= Len(s)
  BY <1>1, <1>2
<1>3. CASE k > Len(s)
  <2>1. k - Len(s) \in 1 .. Len(u)
    BY <1>1, <1>3
  <2>2. (s \o u)[k] = u[k - Len(s)]
    BY <1>1, <1>3
  <2> QED
    BY <1>1, <2>1, <2>2
<1> QED
  BY <1>1, <1>2, <1>3

(* Two tasks that are apart can be merged (try_merge). *)
LEMMA MergedTask ==
    ASSUME NEW t \in Entries, NEW u \in Entries, t.backfilled = u.backfilled
    PROVE  /\ Merged(t, u) \in Entries
           /\ Merged(t, u).backfilled = t.backfilled
           /\ \A k \in DOMAIN Merged(t, u).items :
                \/ k \in DOMAIN t.items /\ Merged(t, u).items[k] = t.items[k]
                \/ /\ k - Len(t.items) \in DOMAIN u.items
                   /\ Merged(t, u).items[k] = u.items[k - Len(t.items)]
<1>1. t.items \in Seq(Items) /\ u.items \in Seq(Items) /\ t.calls \in Nat /\ u.calls \in Nat
  BY DEF Entries
<1>2. PICK i : i = t.items \o u.items
  OBVIOUS
<1>3. PICK c : c = t.calls + u.calls
  OBVIOUS
<1>4. i \in Seq(Items) /\ c \in Nat
  BY <1>1, <1>2, <1>3
<1>5. Merged(t, u) = [t EXCEPT !.items = i, !.calls = c]
  BY <1>2, <1>3 DEF Merged, Entries
<1>6. PICK s : s = [t EXCEPT !.items = i]
  OBVIOUS
<1>7. s \in Entries /\ s.items = i /\ s.backfilled = t.backfilled
  BY <1>4, <1>6 DEF Entries
<1>8. PICK v : v = [s EXCEPT !.calls = c]
  OBVIOUS
<1>9. v \in Entries /\ v.items = i /\ v.backfilled = t.backfilled
  BY <1>4, <1>7, <1>8 DEF Entries
<1>10. Merged(t, u) = v
  BY <1>5, <1>6, <1>8
<1>11. ASSUME NEW k \in DOMAIN i
       PROVE  \/ k \in DOMAIN t.items /\ i[k] = t.items[k]
              \/ k - Len(t.items) \in DOMAIN u.items /\ i[k] = u.items[k - Len(t.items)]
  BY <1>1, <1>2, ConcatItem
<1> QED
  BY <1>9, <1>10, <1>11

(* Two tasks merged (try_merge) keep what holds of both. *)
LEMMA MergedFit ==
    ASSUME NEW t \in Entries, NEW u \in Entries, t.backfilled = u.backfilled,
           Shape(t), Shape(u), Apart(t, u)
    PROVE  /\ Shape(Merged(t, u))
           /\ \A w : Apart(w, t) /\ Apart(w, u) => Apart(w, Merged(t, u))
           /\ \A g, G : ReadyIn(t, g, G) /\ ReadyIn(u, g, G) => ReadyIn(Merged(t, u), g, G)
<1>0. t.items \in Seq(Items) /\ u.items \in Seq(Items)
  BY DEF Entries
<1>1. PICK v : v = Merged(t, u)
  OBVIOUS
<1>2. /\ v \in Entries /\ v.backfilled = t.backfilled
      /\ \A k \in DOMAIN v.items :
           \/ k \in DOMAIN t.items /\ v.items[k] = t.items[k]
           \/ /\ k - Len(t.items) \in DOMAIN u.items
              /\ v.items[k] = u.items[k - Len(t.items)]
  BY <1>1, MergedTask
<1>3. \A k \in DOMAIN v.items : k \in Nat
  BY <1>2 DEF Entries
<1>4. Shape(v)
  <2>1. ASSUME NEW k \in DOMAIN v.items
        PROVE  /\ v.items[k].as = "new" <=> ~v.backfilled
               /\ v.items[k].soft => ~v.backfilled
    BY <1>2 DEF Shape
  <2>2. ASSUME ~v.backfilled, NEW j \in DOMAIN v.items, NEW k \in DOMAIN v.items,
               v.items[j].event = v.items[k].event
        PROVE  j = k
    <3>1. CASE j \in DOMAIN t.items /\ v.items[j] = t.items[j]
               /\ k \in DOMAIN t.items /\ v.items[k] = t.items[k]
      BY <1>2, <2>2, <3>1 DEF Shape
    <3>2. CASE j - Len(t.items) \in DOMAIN u.items /\ v.items[j] = u.items[j - Len(t.items)]
               /\ k - Len(t.items) \in DOMAIN u.items /\ v.items[k] = u.items[k - Len(t.items)]
      <4>1. j - Len(t.items) = k - Len(t.items)
        BY <1>2, <2>2, <3>2 DEF Shape
      <4> QED
        BY <1>0, <1>3, <4>1
    <3>3. CASE j \in DOMAIN t.items /\ v.items[j] = t.items[j]
               /\ k - Len(t.items) \in DOMAIN u.items /\ v.items[k] = u.items[k - Len(t.items)]
      BY <1>2, <2>2, <3>3 DEF Apart
    <3>4. CASE j - Len(t.items) \in DOMAIN u.items /\ v.items[j] = u.items[j - Len(t.items)]
               /\ k \in DOMAIN t.items /\ v.items[k] = t.items[k]
      BY <1>2, <2>2, <3>4 DEF Apart
    <3> QED
      BY <1>2, <3>1, <3>2, <3>3, <3>4
  <2> QED
    BY <2>1, <2>2 DEF Shape
<1>5. ASSUME NEW w, Apart(w, t), Apart(w, u)
      PROVE  Apart(w, v)
  BY <1>2, <1>5 DEF Apart
<1>6. ASSUME NEW g, NEW G, ReadyIn(t, g, G), ReadyIn(u, g, G)
      PROVE  ReadyIn(v, g, G)
  BY <1>2, <1>6 DEF ReadyIn
<1> QED
  BY <1>1, <1>4, <1>5, <1>6

(* The queue after add_to_queue. *)
Longer(q, t) ==
    IF q # <<>> /\ Merges(Last(q), t)
      THEN [q EXCEPT ![Len(q)] = Merged(@, t)]
      ELSE Append(q, t)

(* The queue after add_to_queue keeps what holds of the queue and the task. *)
LEMMA LongerOk ==
    ASSUME NEW q \in Seq(Entries), NEW t \in Entries, NEW g, NEW G, NEW ready \in BOOLEAN,
           QueueOk(q, g, G, ready), Shape(t), ready => ReadyIn(t, g, G),
           \A a \in DOMAIN q : Apart(t, q[a])
    PROVE  /\ Longer(q, t) \in Seq(Entries) /\ Longer(q, t) # <<>>
           /\ QueueOk(Longer(q, t), g, G, ready)
           /\ \A w : (\A a \in DOMAIN q : Apart(w, q[a])) /\ Apart(w, t)
                       => \A a \in DOMAIN Longer(q, t) : Apart(w, Longer(q, t)[a])
<1>1. PICK r : r = Longer(q, t)
  OBVIOUS
<1>2. CASE q # <<>> /\ Merges(Last(q), t)
  <2>1. Len(q) \in DOMAIN q /\ q[Len(q)] \in Entries /\ Last(q) = q[Len(q)]
    BY <1>2 DEF Last
  <2>2. PICK n : n = Len(q)
    OBVIOUS
  <2>3. PICK v : v = Merged(q[n], t)
    OBVIOUS
  <2>4. r = [q EXCEPT ![n] = v]
    BY <1>1, <1>2, <2>2, <2>3, Zenon DEF Longer
  <2>5. q[n].backfilled = t.backfilled
    BY <1>2, <2>1, <2>2 DEF Merges
  <2>6. v \in Entries
    BY <2>1, <2>2, <2>3, <2>5, MergedTask
  <2>7. Shape(q[n]) /\ Apart(q[n], t)
    BY <2>1, <2>2, ApartSymmetric DEF QueueOk
  <2>8. /\ Shape(v)
        /\ \A w : Apart(w, q[n]) /\ Apart(w, t) => Apart(w, v)
        /\ ReadyIn(q[n], g, G) /\ ReadyIn(t, g, G) => ReadyIn(v, g, G)
    BY <2>1, <2>2, <2>3, <2>5, <2>7, MergedFit
  <2>9. /\ r \in Seq(Entries) /\ DOMAIN r = DOMAIN q /\ r # <<>>
        /\ \A a \in DOMAIN q : r[a] = IF a = n THEN v ELSE q[a]
    BY <1>2, <2>1, <2>2, <2>4, <2>6
  <2>10. \A a \in DOMAIN q : Apart(q[a], t)
    BY ApartSymmetric
  <2>11. \A a \in DOMAIN q : a # n => Apart(q[a], v) /\ Apart(v, q[a])
    <3> SUFFICES ASSUME NEW a \in DOMAIN q, a # n
                 PROVE  Apart(q[a], v) /\ Apart(v, q[a])
      OBVIOUS
    <3>1. Apart(q[a], q[n]) /\ Apart(q[a], t)
      BY <2>1, <2>2, <2>10 DEF QueueOk
    <3> QED
      BY <2>8, <3>1, ApartSymmetric
  <2>12. ASSUME NEW a \in DOMAIN r, NEW b \in DOMAIN r, a # b
         PROVE  Apart(r[a], r[b])
    <3>1. CASE a = n
      BY <2>9, <2>11, <2>12, <3>1
    <3>2. CASE b = n
      BY <2>9, <2>11, <2>12, <3>2
    <3>3. CASE a # n /\ b # n
      BY <2>9, <2>12, <3>3 DEF QueueOk
    <3> QED
      BY <3>1, <3>2, <3>3
  <2>13. ASSUME NEW a \in DOMAIN r
         PROVE  Shape(r[a]) /\ (ready => ReadyIn(r[a], g, G))
    <3>1. ready => ReadyIn(q[n], g, G)
      BY <2>1, <2>2 DEF QueueOk
    <3> QED
      BY <2>8, <2>9, <3>1 DEF QueueOk
  <2>14. QueueOk(r, g, G, ready)
    BY <2>12, <2>13 DEF QueueOk
  <2>15. ASSUME NEW w, \A a \in DOMAIN q : Apart(w, q[a]), Apart(w, t)
         PROVE  \A a \in DOMAIN r : Apart(w, r[a])
    BY <2>1, <2>2, <2>8, <2>9, <2>15
  <2> QED
    BY <1>1, <2>9, <2>14, <2>15
<1>3. CASE ~(q # <<>> /\ Merges(Last(q), t))
  <2>1. r = Append(q, t)
    BY <1>1, <1>3 DEF Longer
  <2>2. /\ r \in Seq(Entries) /\ r # <<>> /\ DOMAIN r = 1 .. (Len(q) + 1) /\ DOMAIN q = 1 .. Len(q)
        /\ Len(q) \in Nat
        /\ \A a \in DOMAIN q : r[a] = q[a]
        /\ r[Len(q) + 1] = t
    BY <2>1
  <2>3. \A a \in DOMAIN r : a # Len(q) + 1 => a \in DOMAIN q
    BY <2>2
  <2>4. \A a \in DOMAIN q : Apart(q[a], t)
    BY ApartSymmetric
  <2>5. QueueOk(r, g, G, ready)
    <3>1. ASSUME NEW a \in DOMAIN r
          PROVE  Shape(r[a]) /\ (ready => ReadyIn(r[a], g, G))
      BY <2>2, <2>3 DEF QueueOk
    <3>2. ASSUME NEW a \in DOMAIN r, NEW b \in DOMAIN r, a # b
          PROVE  Apart(r[a], r[b])
      BY <2>2, <2>3, <2>4, <3>2 DEF QueueOk
    <3> QED
      BY <3>1, <3>2 DEF QueueOk
  <2>6. ASSUME NEW w, \A a \in DOMAIN q : Apart(w, q[a]), Apart(w, t)
        PROVE  \A a \in DOMAIN r : Apart(w, r[a])
    BY <2>2, <2>3, <2>6
  <2> QED
    BY <1>1, <2>2, <2>5, <2>6
<1> QED
  BY <1>2, <1>3
------------------------------------------------------------------------------
(* Steps that leave the tables alone *)

(* What comes before what does not change. *)
LEMMA BeforeStays ==
    ASSUME prev' = prev
    PROVE  Before' = Before
<1>1. Before' = BeforeIn(prev')
  BY DEF Before, BeforeIn
<1> QED
  BY <1>1, BeforeIsBeforeIn

(* The new extremities, as a function of the tables. *)
ExtremitiesFrom(g, fw, ed, G, br, new) ==
    (((fw \cup new) \ FollowingIn(g, new)) \ FollowingIn(g, (ed \cap G) \ br))
      \ FollowingIn(g, SeenFrom(g, ed \cap G \cap br, FollowingIn(g, new))[MaxEvent]
                         \cap (ed \cap G \cap br))

(* The extremities are worked out from the tables and the chunk. *)
LEMMA SameChunkExtremities ==
    ASSUME UNCHANGED <<prev, rejects, chunkSize>>, UNCHANGED tables, NEW l,
           loop'[l].items = loop[l].items
    PROVE  NewExtremities(Chunk(l))' = NewExtremities(Chunk(l))
<1>1. Accepted(Chunk(l))' = Accepted(Chunk(l))
  BY DEF Accepted, Chunk
<1>2. NewExtremities(Chunk(l))
        = ExtremitiesFrom(prev, forward, edges, InGraph, rejections \cup softFailed,
                          Accepted(Chunk(l)))
  BY DEF NewExtremities, ExtremitiesFrom, PrevsOfExisting, PrevsBeforeRejected, SeenFrom,
         FollowingIn, Following
<1>3. NewExtremities(Chunk(l))'
        = ExtremitiesFrom(prev', forward', edges', InGraph', rejections' \cup softFailed',
                          Accepted(Chunk(l))')
  BY DEF NewExtremities, ExtremitiesFrom, PrevsOfExisting, PrevsBeforeRejected, SeenFrom,
         FollowingIn, Following
<1>4. InGraph' = InGraph
  BY DEF InGraph, tables
<1> QED
  BY <1>1, <1>2, <1>3, <1>4 DEF tables

(* What the tables have to satisfy. *)
TablesInv == Tables /\ StateMatches /\ BackwardExact /\ Tips /\ Closed /\ ForwardLast

(* A step that writes no table keeps what holds of the tables. *)
LEMMA SameTables ==
    ASSUME TablesInv, UNCHANGED <<prev, rejects, sends, tables, live, astray>>, gaps => gaps'
    PROVE  InGraph' = InGraph /\ TablesInv'
<1>1. Before' = Before
  BY BeforeStays
<1>2. InGraph' = InGraph /\ Stored' = Stored /\ Good' = Good
  BY DEF InGraph, Stored, Good, tables
<1>3. Tables' /\ StateMatches' /\ Closed'
  BY <1>2 DEF TablesInv, Tables, StateMatches, Closed, tables
<1>4. BackwardExact'
  BY <1>2 DEF TablesInv, BackwardExact, Following, HavePrev, tables
<1>5. Tips'
  BY <1>1, <1>2 DEF TablesInv, Tips, Covered, tables
<1>6. ForwardLast'
  BY <1>1, <1>2 DEF TablesInv, ForwardLast, tables
<1> QED
  BY <1>2, <1>3, <1>4, <1>5, <1>6 DEF TablesInv

(* A loop that does nothing holds an empty task. *)
LEMMA IdleEntry == Idle \in Entries /\ Idle.items = <<>> /\ Idle.at = "idle"
<1>1. <<>> \in Seq(Items)
  OBVIOUS
<1> QED
  BY <1>1 DEF Idle, Entries

(* A loop that stays where it is has what it needs. *)
LEMMA SameLoop ==
    ASSUME UNCHANGED <<world, tables>>, NEW l \in Loops, loop'[l] = loop[l], LoopOk(l)
    PROVE  LoopOk(l)'
<1>1. UNCHANGED <<prev, rejects, sends, chunkSize>> /\ UNCHANGED tables
  BY DEF world
<1>2. InGraph' = InGraph /\ forward' = forward
  BY <1>1 DEF InGraph, tables
<1>3. NewExtremities(Chunk(l))' = NewExtremities(Chunk(l))
  BY <1>1, SameChunkExtremities
<1> QED
  BY <1>1, <1>2, <1>3 DEF LoopOk

(* A loop with nothing to write needs nothing. *)
LEMMA NothingToWrite ==
    ASSUME NEW l \in Loops, loop'[l].at \notin {"calculate", "write", "state"}
    PROVE  LoopOk(l)'
BY DEF LoopOk

(* A task joins the queue (add_to_queue, _handle_queue). *)
LEMMA SubmitStep ==
    ASSUME IInv, NEW t \in Entries, AddToQueue(t), UNCHANGED <<world, tables, live, astray>>,
           gaps' \in BOOLEAN, gaps => gaps', ~gaps' => ReadyIn(t, prev, InGraph), Shape(t),
           \A a \in DOMAIN queue : Apart(t, queue[a]), \A l \in Loops : Apart(t, loop[l])
    PROVE  IInv'
<1>0. Types /\ OneLoop /\ TasksOk /\ LoopsOk /\ TablesInv
  BY DEF IInv, TablesInv
<1>1. UNCHANGED <<prev, rejects, sends, chunkSize>> /\ UNCHANGED tables
  BY DEF world
<1>2. InGraph' = InGraph /\ TablesInv'
  BY <1>0, <1>1, SameTables
<1>3. PICK r : r = Longer(queue, t)
  OBVIOUS
<1>4. QueueOk(queue, prev, InGraph, ~gaps')
  BY <1>0 DEF TasksOk, QueueOk
<1>5. queue \in Seq(Entries) /\ loop \in [Loops -> Entries] /\ persisting \in BOOLEAN
  BY <1>0 DEF Types
<1>6. /\ r \in Seq(Entries) /\ r # <<>>
      /\ QueueOk(r, prev, InGraph, ~gaps')
      /\ \A w : (\A a \in DOMAIN queue : Apart(w, queue[a])) /\ Apart(w, t)
                  => \A a \in DOMAIN r : Apart(w, r[a])
  BY <1>3, <1>4, <1>5, LongerOk
<1>7. IF ~persisting
        THEN LET l == CHOOSE k \in Loops : loop[k] = Idle
             IN  /\ loop' = [loop EXCEPT ![l] = [Head(r) EXCEPT !.at = "check"]]
                 /\ queue' = Tail(r)
                 /\ persisting' = TRUE
        ELSE queue' = r /\ UNCHANGED <<loop, persisting>>
  BY <1>3 DEF AddToQueue, MayStart, Longer
<1>8. CASE persisting
  <2>1. queue' = r /\ loop' = loop /\ persisting' = persisting
    BY <1>7, <1>8
  <2>2. Types'
    BY <1>0, <1>1, <1>6, <2>1 DEF Types, tables
  <2>3. OneLoop'
    BY <1>0, <2>1 DEF OneLoop
  <2>4. TasksOk'
    <3>1. ASSUME NEW l \in Loops
          PROVE  /\ Shape(loop[l])
                 /\ ~gaps' => ReadyIn(loop[l], prev, InGraph)
                 /\ \A a \in DOMAIN r : Apart(loop[l], r[a])
      BY <1>0, <1>6, ApartSymmetric DEF TasksOk
    <3> QED
      BY <1>1, <1>2, <1>6, <2>1, <3>1 DEF TasksOk
  <2>5. LoopsOk'
    BY <1>0, <2>1, SameLoop DEF LoopsOk
  <2> QED
    BY <1>2, <2>2, <2>3, <2>4, <2>5 DEF IInv, TablesInv
<1>9. CASE ~persisting
  <2>1. \A k \in Loops : loop[k] = Idle
    BY <1>0, <1>9 DEF OneLoop
  <2>2. PICK l \in Loops : /\ loop' = [loop EXCEPT ![l] = [Head(r) EXCEPT !.at = "check"]]
                           /\ queue' = Tail(r)
                           /\ persisting' = TRUE
    <3>1. \E k \in Loops : loop[k] = Idle
      BY <2>1 DEF Loops
    <3> QED
      BY <1>7, <1>9, <3>1
  <2>3. PICK h : h = Head(r)
    OBVIOUS
  <2>4. h \in Entries /\ h = r[1] /\ 1 \in DOMAIN r
    BY <1>6, <2>3
  <2>5. PICK u : u = [h EXCEPT !.at = "check"]
    OBVIOUS
  <2>6. u \in Entries /\ u.items = h.items /\ u.backfilled = h.backfilled /\ u.at = "check"
    BY <2>4, <2>5 DEF Entries
  <2>7. loop' = [k \in Loops |-> IF k = l THEN u ELSE Idle]
    BY <1>5, <2>1, <2>2, <2>3, <2>5
  <2>8. /\ Tail(r) \in Seq(Entries)
        /\ \A a \in DOMAIN Tail(r) : a + 1 \in DOMAIN r /\ Tail(r)[a] = r[a + 1] /\ a + 1 # 1 /\ a \in Nat
    BY <1>6
  <2>9. Types'
    BY <1>0, <1>1, <2>2, <2>6, <2>7, <2>8, IdleEntry DEF Types, tables
  <2>10. OneLoop'
    BY <2>2, <2>7 DEF OneLoop
  <2>11. TasksOk'
    <3>1. QueueOk(Tail(r), prev, InGraph, ~gaps')
      BY <1>6, <2>8 DEF QueueOk
    <3>2. Shape(u) /\ (~gaps' => ReadyIn(u, prev, InGraph))
      BY <1>6, <2>4, <2>6 DEF QueueOk, Shape, ReadyIn
    <3>3. \A a \in DOMAIN Tail(r) : Apart(u, Tail(r)[a])
      BY <1>6, <2>4, <2>6, <2>8 DEF QueueOk, Apart
    <3>4. ASSUME NEW k \in Loops
          PROVE  /\ Shape(loop'[k])
                 /\ ~gaps' => ReadyIn(loop'[k], prev, InGraph)
                 /\ \A a \in DOMAIN Tail(r) : Apart(loop'[k], Tail(r)[a])
      <4>1. CASE k = l
        BY <2>7, <3>2, <3>3, <4>1
      <4>2. CASE k # l
        BY <2>7, <4>2, IdleEntry, EmptyTask
      <4> QED
        BY <4>1, <4>2
    <3> QED
      BY <1>1, <1>2, <2>2, <3>1, <3>4 DEF TasksOk
  <2>12. LoopsOk'
    BY <2>6, <2>7, IdleEntry, NothingToWrite DEF LoopsOk
  <2> QED
    BY <1>2, <2>9, <2>10, <2>11, <2>12 DEF IInv, TablesInv
<1> QED
  BY <1>5, <1>8, <1>9
(* The task of a call is for one event. *)
LEMMA PersistEntry ==
    ASSUME NEW i \in Items, NEW bf \in BOOLEAN
    PROVE  /\ Persist(i, bf) \in Entries
           /\ Persist(i, bf).items = <<i>>
           /\ Persist(i, bf).backfilled = bf
<1>1. <<i>> \in Seq(Items)
  OBVIOUS
<1>2. PICK u : u = [[Idle EXCEPT !.task = "persist"] EXCEPT !.backfilled = bf]
  OBVIOUS
<1>3. u \in Entries /\ u.backfilled = bf
  BY <1>2, IdleEntry DEF Entries
<1>4. PICK v : v = [u EXCEPT !.items = <<i>>]
  OBVIOUS
<1>5. v \in Entries /\ v.backfilled = bf /\ v.items = <<i>>
  BY <1>1, <1>3, <1>4 DEF Entries
<1>6. Persist(i, bf) = [v EXCEPT !.calls = 1]
  BY <1>2, <1>4 DEF Persist
<1> QED
  BY <1>5, <1>6 DEF Entries

(* The events of tasks for new events are pending as new. *)
LEMMA PendingNew ==
    ASSUME IInv, NEW t, \/ \E a \in DOMAIN queue : t = queue[a]
                        \/ \E l \in Loops : t = loop[l],
           ~t.backfilled, NEW k \in DOMAIN t.items
    PROVE  t.items[k] \in Pending /\ t.items[k].as = "new"
<1>1. t.items[k] \in ToSet(t.items)
  BY DEF ToSet
<1>2. t \in ToSet(queue) \cup {loop[l] : l \in Loops}
  BY DEF ToSet
<1>3. Shape(t)
  BY DEF IInv, TasksOk, QueueOk
<1> QED
  BY <1>1, <1>2, <1>3 DEF Pending, Shape

(* A task for an event that is not pending as new fits in. *)
LEMMA NewFits ==
    ASSUME IInv, NEW i \in Items, NEW bf \in BOOLEAN,
           i.as = "new" <=> ~bf, i.soft => ~bf,
           ~bf => \A j \in Pending : j.event = i.event => j.as # "new"
    PROVE  /\ Shape(Persist(i, bf))
           /\ \A a \in DOMAIN queue : Apart(Persist(i, bf), queue[a])
           /\ \A l \in Loops : Apart(Persist(i, bf), loop[l])
<1>1. PICK t : t = Persist(i, bf)
  OBVIOUS
<1>2. t.items = <<i>> /\ t.backfilled = bf /\ DOMAIN t.items = {1} /\ t.items[1] = i
  BY <1>1, PersistEntry
<1>3. Shape(t)
  BY <1>2 DEF Shape
<1>4. ASSUME NEW a \in DOMAIN queue
      PROVE  Apart(t, queue[a])
  BY <1>2, PendingNew DEF Apart
<1>5. ASSUME NEW l \in Loops
      PROVE  Apart(t, loop[l])
  BY <1>2, PendingNew DEF Apart
<1> QED
  BY <1>1, <1>3, <1>4, <1>5

(* A new event from federation (persist_events with one event). *)
LEMMA SubmitNewInv ==
    ASSUME IInv, NEW e \in Events, NEW soft \in BOOLEAN, SubmitNew(e, soft)
    PROVE  IInv'
<1>1. PICK i : i = [event |-> e, as |-> "new", soft |-> soft]
  OBVIOUS
<1>2. i \in Items /\ i.as = "new" /\ i.event = e
  BY <1>1 DEF Items
<1>3. PICK t : t = Persist(i, FALSE)
  OBVIOUS
<1>4. AddToQueue(t)
  BY <1>1, <1>3 DEF SubmitNew
<1>5. t \in Entries /\ t.items = <<i>>
  BY <1>2, <1>3, PersistEntry
<1>6. /\ Shape(t)
      /\ \A a \in DOMAIN queue : Apart(t, queue[a])
      /\ \A l \in Loops : Apart(t, loop[l])
  BY <1>2, <1>3, NewFits DEF SubmitNew
<1>7. /\ gaps' \in BOOLEAN /\ (gaps => gaps')
      /\ ~gaps' => ReadyIn(t, prev, InGraph)
  <2>1. gaps' = (gaps \/ ~(prev[e] \subseteq InGraph)) /\ e \notin InGraph
    BY DEF SubmitNew, NoteGap
  <2>2. prev[e] \subseteq InGraph => ReadyIn(t, prev, InGraph)
    BY <1>2, <1>5, <2>1 DEF ReadyIn
  <2> QED
    BY <2>1, <2>2
<1>8. UNCHANGED <<world, tables, live, astray>>
  BY DEF SubmitNew
<1> QED
  BY <1>4, <1>5, <1>6, <1>7, <1>8, SubmitStep

(* A new event of a client, which follows the forward extremities. *)
LEMMA SubmitLocalInv ==
    ASSUME IInv, NEW e \in Events, SubmitLocal(e)
    PROVE  IInv'
<1>1. PICK i : i = [event |-> e, as |-> "new", soft |-> FALSE]
  OBVIOUS
<1>2. i \in Items /\ i.as = "new" /\ i.event = e /\ ~i.soft
  BY <1>1 DEF Items
<1>3. PICK t : t = Persist(i, FALSE)
  OBVIOUS
<1>4. AddToQueue(t)
  BY <1>1, <1>3 DEF SubmitLocal
<1>5. t \in Entries /\ t.items = <<i>>
  BY <1>2, <1>3, PersistEntry
<1>6. /\ Shape(t)
      /\ \A a \in DOMAIN queue : Apart(t, queue[a])
      /\ \A l \in Loops : Apart(t, loop[l])
  BY <1>2, <1>3, NewFits DEF SubmitLocal
<1>7. gaps' = gaps /\ gaps \in BOOLEAN
  BY DEF SubmitLocal, history, IInv, Types
<1>8. ReadyIn(t, prev, InGraph)
  BY <1>2, <1>5 DEF SubmitLocal, ReadyIn, IInv, Tables
<1>9. UNCHANGED <<world, tables, live, astray>>
  BY DEF SubmitLocal, history
<1> QED
  BY <1>4, <1>5, <1>6, <1>7, <1>8, <1>9, SubmitStep

(* Without gaps nothing is missing that could be backfilled. *)
LEMMA SubmitBackfilledInv ==
    ASSUME IInv, NEW e \in Events, SubmitBackfilled(e)
    PROVE  IInv'
<1>1. PICK i : i = [event |-> e, as |-> "backfilled", soft |-> FALSE]
  OBVIOUS
<1>2. i \in Items /\ i.as = "backfilled" /\ i.event = e /\ ~i.soft
  BY <1>1 DEF Items
<1>3. PICK t : t = Persist(i, TRUE)
  OBVIOUS
<1>4. AddToQueue(t)
  BY <1>1, <1>3 DEF SubmitBackfilled
<1>5. t \in Entries /\ t.items = <<i>>
  BY <1>2, <1>3, PersistEntry
<1>6. /\ Shape(t)
      /\ \A a \in DOMAIN queue : Apart(t, queue[a])
      /\ \A l \in Loops : Apart(t, loop[l])
  BY <1>2, <1>3, NewFits
<1>7. gaps' \in BOOLEAN /\ (gaps => gaps')
  BY DEF SubmitBackfilled, NoteGap
<1>8. gaps
  <2>1. PICK f \in InGraph : e \in Before[f]
    BY DEF SubmitBackfilled
  <2>2. f \in Events /\ prev \in Graphs
    BY <2>1 DEF InGraph, IInv, Types
  <2>3. ~gaps => Before[f] \subseteq InGraph
    BY <2>1, <2>2, BeforeClosed DEF IInv, Closed
  <2> QED
    BY <2>1, <2>3 DEF SubmitBackfilled
<1>9. UNCHANGED <<world, tables, live, astray>>
  BY DEF SubmitBackfilled
<1> QED
  BY <1>4, <1>5, <1>6, <1>7, <1>8, <1>9, SubmitStep

(* An outlier. *)
LEMMA SubmitOutlierInv ==
    ASSUME IInv, NEW e \in Events, SubmitOutlier(e)
    PROVE  IInv'
<1>1. PICK i : i = [event |-> e, as |-> "outlier", soft |-> FALSE]
  OBVIOUS
<1>2. i \in Items /\ i.as = "outlier" /\ i.event = e /\ ~i.soft
  BY <1>1 DEF Items
<1>3. PICK t : t = Persist(i, TRUE)
  OBVIOUS
<1>4. AddToQueue(t)
  BY <1>1, <1>3 DEF SubmitOutlier
<1>5. t \in Entries /\ t.items = <<i>>
  BY <1>2, <1>3, PersistEntry
<1>6. /\ Shape(t)
      /\ \A a \in DOMAIN queue : Apart(t, queue[a])
      /\ \A l \in Loops : Apart(t, loop[l])
  BY <1>2, <1>3, NewFits
<1>7. gaps' = gaps /\ gaps \in BOOLEAN
  BY DEF SubmitOutlier, history, IInv, Types
<1>8. ReadyIn(t, prev, InGraph)
  BY <1>2, <1>5 DEF ReadyIn
<1>9. UNCHANGED <<world, tables, live, astray>>
  BY DEF SubmitOutlier, history
<1> QED
  BY <1>4, <1>5, <1>6, <1>7, <1>8, <1>9, SubmitStep

(* update_current_state is called. *)
LEMMA SubmitStateUpdateInv ==
    ASSUME IInv, SubmitStateUpdate
    PROVE  IInv'
<1>1. PICK t : t = [Idle EXCEPT !.task = "state", !.calls = 1]
  OBVIOUS
<1>2. t = [at |-> "idle", task |-> "state", backfilled |-> FALSE, items |-> <<>>,
           calls |-> 1, extremities |-> {}]
  BY <1>1 DEF Idle
<1>3. <<>> \in Seq(Items)
  OBVIOUS
<1>4. t \in Entries /\ t.items = <<>>
  BY <1>2, <1>3 DEF Entries
<1>5. AddToQueue(t)
  BY <1>1 DEF SubmitStateUpdate
<1>6. gaps' = gaps /\ gaps \in BOOLEAN
  BY DEF SubmitStateUpdate, history, IInv, Types
<1>7. UNCHANGED <<world, tables, live, astray>>
  BY DEF SubmitStateUpdate, history
<1> QED
  BY <1>4, <1>5, <1>6, <1>7, EmptyTask, SubmitStep
------------------------------------------------------------------------------
(* get_already_persisted_events *)

(* The rank of an element of a set of naturals. *)
Rank(S, k) == Cardinality({j \in S : j <= k})

(* In a finite set of naturals there is an element of every rank. *)
LEMMA RankExists ==
    ASSUME NEW S, S \subseteq Nat, IsFiniteSet(S), NEW n \in 1 .. Cardinality(S)
    PROVE  \E k \in S : Rank(S, k) = n
<1>0. Cardinality(S) \in Nat
  BY FS_CardinalityType
<1> DEFINE N == {i \in 1 .. Cardinality(S) : ~ \E k \in S : Rank(S, k) = i}
<1>1. SUFFICES ASSUME N # {} PROVE FALSE
  OBVIOUS
<1>2. N \subseteq Nat
  BY <1>0
<1>3. PICK i \in N : \A j \in N : i <= j
  <2> HIDE DEF N
  <2> QED
    BY <1>1, <1>2, LeastElement, Zenon
<1>4. i \in Nat /\ i >= 1 /\ i <= Cardinality(S)
  BY <1>0
(* The elements with a rank below i, and the rest. *)
<1>5. PICK L : /\ L \subseteq S /\ IsFiniteSet(L) /\ Cardinality(L) = i - 1
               /\ \A x \in L : \A y \in S \ L : x < y
  <2>1. CASE i = 1
    <3>1. IsFiniteSet({}) /\ Cardinality({}) = 0
      BY FS_EmptySet
    <3> QED
      BY <2>1, <3>1
  <2>2. CASE i # 1
    <3>1. i - 1 \in 1 .. Cardinality(S) /\ i - 1 < i
      BY <1>0, <1>4, <2>2
    <3>2. i - 1 \notin N
      BY <1>3, <1>4, <3>1
    <3>3. PICK k \in S : Rank(S, k) = i - 1
      BY <3>1, <3>2
    <3>4. PICK L : L = {j \in S : j <= k}
      OBVIOUS
    <3>5. L \subseteq S /\ IsFiniteSet(L) /\ Cardinality(L) = i - 1
      BY <3>3, <3>4, FS_Subset DEF Rank
    <3>6. \A x \in L : \A y \in S \ L : x < y
      BY <3>4
    <3> QED
      BY <3>5, <3>6
  <2> QED
    BY <2>1, <2>2
<1>6. S \ L # {} /\ S \ L \subseteq Nat
  <2>1. S \ L = {} => L = S
    BY <1>5
  <2> QED
    BY <1>0, <1>4, <1>5, <2>1
<1>7. PICK k \in S \ L : \A y \in S \ L : k <= y
  BY <1>6, LeastElement, Zenon
<1>8. {j \in S : j <= k} = L \cup {k}
  <2>1. \A j \in S : j \in Nat /\ k \in Nat
    BY <1>7
  <2>2. ASSUME NEW j \in S
        PROVE  j <= k <=> j \in L \/ j = k
    BY <1>5, <1>7, <2>1
  <2>3. k \in S /\ L \subseteq S
    BY <1>5, <1>7
  <2> QED
    BY <2>2, <2>3
<1>9. Cardinality(L \cup {k}) = i
  <2>1. Cardinality(L \cup {k}) = Cardinality(L) + 1
    BY <1>5, <1>7, FS_AddElement
  <2> QED
    BY <1>4, <1>5, <2>1
<1> QED
  BY <1>3, <1>7, <1>8, <1>9 DEF Rank

(* The events that are kept are those of the task that repeat nothing. *)
LEMMA KeptIs ==
    ASSUME NEW items \in Seq(Items)
    PROVE  /\ Kept(items) \in Seq(Items)
           /\ Within(Kept(items), items)
           /\ SentOnce(Kept(items), sends, InGraph)
<1> DEFINE keep == (1 .. Len(items)) \ Replaced(items)
<1>0. Len(items) \in Nat /\ DOMAIN items = 1 .. Len(items)
  OBVIOUS
<1>1. keep \subseteq Nat /\ keep \subseteq DOMAIN items /\ IsFiniteSet(keep) /\ Cardinality(keep) \in Nat
  <2>1. IsFiniteSet(1 .. Len(items))
    BY <1>0, FS_Interval
  <2>2. keep \subseteq 1 .. Len(items)
    OBVIOUS
  <2>3. IsFiniteSet(keep)
    <3> HIDE DEF keep
    <3> QED
      BY <2>1, <2>2, FS_Subset, Zenon
  <2>4. Cardinality(keep) \in Nat
    <3> HIDE DEF keep
    <3> QED
      BY <2>3, FS_CardinalityType, Zenon
  <2> QED
    BY <1>0, <2>2, <2>3, <2>4
<1>2. PICK K : K = keep
  OBVIOUS
<1>3. PICK c : c = Cardinality(K)
  OBVIOUS
<1>4. K \subseteq Nat /\ K \subseteq DOMAIN items /\ IsFiniteSet(K) /\ c \in Nat
  BY <1>1, <1>2, <1>3
<1>5. PICK m : m = [n \in 1 .. c |-> CHOOSE k \in K : Rank(K, k) = n]
  OBVIOUS
<1>6. ASSUME NEW n \in 1 .. c
      PROVE  m[n] \in K /\ Rank(K, m[n]) = n
  <2>1. \E k \in K : Rank(K, k) = n
    BY <1>3, <1>4, RankExists
  <2>2. m[n] = CHOOSE k \in K : Rank(K, k) = n
    BY <1>5
  <2> QED
    BY <2>1, <2>2
<1>7. Kept(items) = [n \in 1 .. c |-> items[m[n]]]
  <2>1. Kept(items) = [n \in 1 .. c |-> items[CHOOSE k \in K : Rank(K, k) = n]]
    BY <1>2, <1>3 DEF Kept, Rank
  <2> QED
    BY <1>5, <2>1
<1>8. PICK s : s = Kept(items)
  OBVIOUS
<1>9. DOMAIN s = 1 .. c /\ \A n \in 1 .. c : s[n] = items[m[n]]
  BY <1>7, <1>8
<1>10. \A j, k \in 1 .. c : m[j] = m[k] => j = k
  BY <1>6
<1>11. s \in Seq(Items)
  <2>1. ASSUME NEW n \in 1 .. c
        PROVE  items[m[n]] \in Items
    <3>1. m[n] \in 1 .. Len(items)
      BY <1>0, <1>4, <1>6
    <3> QED
      BY <3>1
  <2>2. PICK f : f = [n \in 1 .. c |-> items[m[n]]]
    OBVIOUS
  <2>3. f \in [1 .. c -> Items]
    BY <2>1, <2>2
  <2>4. f \in Seq(Items)
    BY <1>4, <2>3
  <2> QED
    BY <1>7, <1>8, <2>2, <2>4
<1>12. Within(s, items)
  <2>1. m \in [DOMAIN s -> DOMAIN items]
    BY <1>4, <1>5, <1>6, <1>9
  <2> QED
    BY <1>9, <1>10, <2>1 DEF Within
<1>13. \A k \in K : items[k].event \in sends =>
         /\ sends \cap InGraph = {}
         /\ \A j \in 1 .. (k - 1) : items[j].event \notin sends
  BY <1>0, <1>2 DEF Replaced, Sent
<1>14. SentOnce(s, sends, InGraph)
  <2>1. ASSUME NEW j \in 1 .. c, NEW k \in 1 .. c,
               items[m[j]].event \in sends, items[m[k]].event \in sends
        PROVE  m[j] = m[k]
    <3>1. m[j] \in K /\ m[k] \in K /\ m[j] \in 1 .. Len(items) /\ m[k] \in 1 .. Len(items)
      BY <1>0, <1>4, <1>6
    <3>2. m[j] \notin 1 .. (m[k] - 1) /\ m[k] \notin 1 .. (m[j] - 1)
      BY <1>13, <2>1, <3>1
    <3> QED
      BY <1>0, <3>1, <3>2
  <2> QED
    BY <1>6, <1>9, <1>10, <1>13, <2>1 DEF SentOnce
<1> QED
  BY <1>8, <1>11, <1>12, <1>14
------------------------------------------------------------------------------
(* Steps of the loop *)

LEMMA WithinItself ==
    ASSUME NEW s \in Seq(Items)
    PROVE  Within(s, s)
<1>1. PICK m : m = [k \in DOMAIN s |-> k]
  OBVIOUS
<1>2. m \in [DOMAIN s -> DOMAIN s]
  BY <1>1
<1> QED
  BY <1>1, <1>2 DEF Within

(* The loop that runs is the only one. *)
LEMMA OtherLoops ==
    ASSUME IInv, NEW l \in Loops, loop[l].at # "idle"
    PROVE  /\ persisting /\ loop[l] # Idle /\ loop \in [Loops -> Entries]
           /\ loop[l] \in Entries /\ loop[l].items \in Seq(Items)
           /\ \A m \in Loops : m # l => loop[m] = Idle
<1>1. loop[l] # Idle
  BY IdleEntry
<1>2. loop \in [Loops -> Entries]
  BY DEF IInv, Types
<1>3. loop[l] \in Entries
  BY <1>2
<1> QED
  BY <1>1, <1>2, <1>3 DEF IInv, OneLoop, Types, Entries

(* A step of a loop that leaves the tables alone. *)
LEMMA LoopMoves ==
    ASSUME IInv, NEW l \in Loops, loop[l].at # "idle", NEW u \in Entries, u.at # "idle",
           loop' = [loop EXCEPT ![l] = u],
           UNCHANGED <<world, tables, queue, persisting, history>>,
           \/ u.items = <<>>
           \/ u.backfilled = loop[l].backfilled /\ Within(u.items, loop[l].items),
           LoopOk(l)'
    PROVE  IInv'
<1>0. Types /\ OneLoop /\ TasksOk /\ LoopsOk /\ TablesInv
  BY DEF IInv, TablesInv
<1>1. /\ persisting /\ loop[l] # Idle /\ loop \in [Loops -> Entries]
      /\ \A m \in Loops : m # l => loop[m] = Idle
  BY OtherLoops
<1>2. /\ UNCHANGED <<prev, rejects, sends, chunkSize>> /\ UNCHANGED tables
      /\ gaps' = gaps /\ live' = live /\ astray' = astray
  BY DEF world, history
<1>3. InGraph' = InGraph /\ TablesInv'
  BY <1>0, <1>2, SameTables
<1>4. loop'[l] = u /\ \A m \in Loops : m # l => loop'[m] = Idle
  BY <1>1
<1>5. Types'
  BY <1>0, <1>2 DEF Types, tables
<1>6. OneLoop'
  BY <1>1, <1>4, IdleEntry DEF OneLoop
<1>7. TasksOk'
  <2>1. /\ Shape(loop[l])
        /\ ~gaps => ReadyIn(loop[l], prev, InGraph)
        /\ \A a \in DOMAIN queue : Apart(loop[l], queue[a])
    BY <1>0 DEF TasksOk
  <2>2. /\ Shape(u)
        /\ ~gaps => ReadyIn(u, prev, InGraph)
        /\ \A a \in DOMAIN queue : Apart(u, queue[a])
    <3>1. CASE u.items = <<>>
      BY <3>1, EmptyTask
    <3>2. CASE u.backfilled = loop[l].backfilled /\ Within(u.items, loop[l].items)
      BY <2>1, <3>2, WithinShape, WithinReady, WithinApart
    <3> QED
      BY <3>1, <3>2
  <2>3. ASSUME NEW m \in Loops
        PROVE  /\ Shape(loop'[m])
               /\ ~gaps => ReadyIn(loop'[m], prev, InGraph)
               /\ \A a \in DOMAIN queue : Apart(loop'[m], queue[a])
    <3>1. CASE m = l
      BY <1>4, <2>2, <3>1
    <3>2. CASE m # l
      BY <1>4, <3>2, IdleEntry, EmptyTask
    <3> QED
      BY <3>1, <3>2
  <2>4. QueueOk(queue, prev, InGraph, ~gaps)
    BY <1>0 DEF TasksOk
  <2> QED
    BY <1>2, <1>3, <2>3, <2>4 DEF TasksOk
<1>8. LoopsOk'
  <2>1. ASSUME NEW m \in Loops, m # l
        PROVE  LoopOk(m)'
    BY <1>4, <2>1, IdleEntry, NothingToWrite
  <2> QED
    BY <2>1 DEF LoopsOk
<1> QED
  BY <1>3, <1>5, <1>6, <1>7, <1>8 DEF IInv, TablesInv

(* The end of an item. *)
LEMMA AnswerEntry ==
    LET u == [Idle EXCEPT !.at = "next"]
    IN  u \in Entries /\ u.items = <<>> /\ u.at = "next"
BY IdleEntry DEF Entries

(* A task ends: its callers are answered and the loop goes on to the next. *)
LEMMA AnswerInv ==
    ASSUME IInv, NEW l \in Loops, loop[l].at # "idle", Answer(l),
           UNCHANGED <<world, tables, queue, persisting, history>>
    PROVE  IInv'
<1>1. PICK u : u = [Idle EXCEPT !.at = "next"]
  OBVIOUS
<1>2. u \in Entries /\ u.items = <<>> /\ u.at = "next"
  BY <1>1, AnswerEntry
<1>3. loop' = [loop EXCEPT ![l] = u]
  BY <1>1 DEF Answer
<1>4. loop'[l] = u
  BY <1>3, OtherLoops
<1>5. LoopOk(l)'
  BY <1>2, <1>4, NothingToWrite
<1> QED
  BY <1>2, <1>3, <1>5, LoopMoves

(* The check for a transaction ID that is already used, at the start of a persist task. *)
LEMMA CheckReplacedInv ==
    ASSUME IInv, NEW l \in Loops, CheckReplaced(l)
    PROVE  IInv'
<1>1. /\ loop[l].at = "check"
      /\ UNCHANGED <<world, tables, queue, persisting, history>>
  BY DEF CheckReplaced
<1>2. loop \in [Loops -> Entries] /\ loop[l] \in Entries /\ loop[l].items \in Seq(Items)
  BY <1>1, OtherLoops
<1>3. PICK s : s = Kept(loop[l].items)
  OBVIOUS
<1>4. s \in Seq(Items) /\ Within(s, loop[l].items) /\ SentOnce(s, sends, InGraph)
  BY <1>2, <1>3, KeptIs
<1>5. CASE s = <<>>
  <2>1. Answer(l)
    BY <1>3, <1>5 DEF CheckReplaced
  <2> QED
    BY <1>1, <2>1, AnswerInv
<1>6. CASE s # <<>>
  <2>1. loop' = [loop EXCEPT ![l].at = "calculate", ![l].items = s]
    BY <1>3, <1>6 DEF CheckReplaced
  <2>2. PICK v : v = [loop[l] EXCEPT !.at = "calculate"]
    OBVIOUS
  <2>3. v \in Entries /\ v.at = "calculate" /\ v.backfilled = loop[l].backfilled
    BY <1>2, <2>2 DEF Entries
  <2>4. PICK u : u = [v EXCEPT !.items = s]
    OBVIOUS
  <2>5. u \in Entries /\ u.at = "calculate" /\ u.backfilled = loop[l].backfilled /\ u.items = s
    BY <1>4, <2>3, <2>4 DEF Entries
  <2>6. loop' = [loop EXCEPT ![l] = u]
    BY <1>2, <2>1, <2>2, <2>4
  <2>7. loop'[l] = u
    BY <1>2, <2>6
  <2>8. LoopOk(l)'
    <3>1. sends' = sends /\ InGraph' = InGraph
      BY <1>1 DEF world, tables, InGraph
    <3> QED
      BY <1>4, <2>5, <2>7, <3>1 DEF LoopOk
  <2> QED
    BY <1>1, <1>4, <2>5, <2>6, <2>8, LoopMoves
<1> QED
  BY <1>5, <1>6
(* The extremities that are written next follow from the tables. *)
LEMMA CalculateInv ==
    ASSUME IInv, NEW l \in Loops, Calculate(l)
    PROVE  IInv'
<1>1. /\ loop[l].at = "calculate"
      /\ UNCHANGED <<world, tables, queue, persisting, history>>
  BY DEF Calculate
<1>2. loop \in [Loops -> Entries] /\ loop[l] \in Entries /\ loop[l].items \in Seq(Items)
  BY <1>1, OtherLoops
<1>3. PICK new : new = NewExtremities(Chunk(l))
  OBVIOUS
<1>4. new \subseteq Events
  <2>1. Chunk(l) \in Seq(Items)
    <3>1. chunkSize \in Nat \ {0}
      BY RoomAssumption DEF IInv, Types
    <3> QED
      BY <1>2, <3>1 DEF Chunk
  <2>2. Accepted(Chunk(l)) \subseteq Events
    <3>1. PICK c : c = Chunk(l)
      OBVIOUS
    <3>2. \A k \in DOMAIN c : c[k] \in Items
      BY <2>1, <3>1
    <3>3. \A i \in ToSet(c) : i.event \in Events
      BY <3>2 DEF ToSet, Items
    <3> QED
      BY <3>1, <3>3 DEF Accepted
  <2> QED
    BY <1>3, <2>2 DEF NewExtremities, IInv, Types
<1>5. ASSUME NEW x \in SUBSET Events, loop' = [loop EXCEPT ![l].at = "write", ![l].extremities = x],
             IF loop[l].backfilled THEN x = {} ELSE new = IF x = {} THEN forward ELSE x
      PROVE  IInv'
  <2>1. PICK v : v = [loop[l] EXCEPT !.at = "write"]
    OBVIOUS
  <2>2. v \in Entries /\ v.at = "write" /\ v.backfilled = loop[l].backfilled
        /\ v.items = loop[l].items
    BY <1>2, <2>1 DEF Entries
  <2>3. PICK u : u = [v EXCEPT !.extremities = x]
    OBVIOUS
  <2>4. u \in Entries /\ u.at = "write" /\ u.backfilled = loop[l].backfilled
        /\ u.items = loop[l].items /\ u.extremities = x
    BY <2>2, <2>3 DEF Entries
  <2>5. loop' = [loop EXCEPT ![l] = u]
    BY <1>2, <1>5, <2>1, <2>3
  <2>6. loop'[l] = u
    BY <1>2, <2>5
  <2>7. LoopOk(l)'
    <3>1. UNCHANGED <<prev, rejects, sends, chunkSize>> /\ UNCHANGED tables
      BY <1>1 DEF world
    <3>2. sends' = sends /\ InGraph' = InGraph /\ forward' = forward
      BY <3>1 DEF tables, InGraph
    <3>3. NewExtremities(Chunk(l))' = new
      BY <1>3, <2>4, <2>6, <3>1, SameChunkExtremities
    <3>4. SentOnce(loop[l].items, sends, InGraph)
      BY <1>1 DEF IInv, LoopsOk, LoopOk
    <3> QED
      BY <1>5, <2>4, <2>6, <3>2, <3>3, <3>4 DEF LoopOk
  <2>8. Within(u.items, loop[l].items)
    BY <1>2, <2>4, WithinItself
  <2> QED
    BY <1>1, <2>4, <2>5, <2>7, <2>8, LoopMoves
<1>6. CASE loop[l].backfilled \/ new = forward
  <2>1. loop' = [loop EXCEPT ![l].at = "write", ![l].extremities = {}]
    BY <1>3, <1>6 DEF Calculate
  <2>2. IF loop[l].backfilled THEN {} = {} ELSE new = IF {} = {} THEN forward ELSE {}
    BY <1>6
  <2> QED
    <3>1. {} \in SUBSET Events
      OBVIOUS
    <3> QED
      BY <1>5, <2>1, <2>2, <3>1, Zenon
<1>7. CASE ~(loop[l].backfilled \/ new = forward) /\ new = {}
  <2>1. Answer(l)
    BY <1>3, <1>7 DEF Calculate
  <2> QED
    BY <1>1, <2>1, AnswerInv
<1>8. CASE ~(loop[l].backfilled \/ new = forward) /\ new # {}
  <2>1. loop' = [loop EXCEPT ![l].at = "write", ![l].extremities = new]
    BY <1>3, <1>8 DEF Calculate
  <2> QED
    BY <1>4, <1>5, <1>8, <2>1
<1> QED
  BY <1>6, <1>7, <1>8

(* The transaction of _persist_events_and_state_updates fails. *)
LEMMA WriteFailsInv ==
    ASSUME IInv, NEW l \in Loops, WriteFails(l)
    PROVE  IInv'
BY AnswerInv DEF WriteFails

(* The new state is worked out from the extremities. *)
LEMMA CalculateStateInv ==
    ASSUME IInv, NEW l \in Loops, CalculateState(l)
    PROVE  IInv'
<1>1. /\ loop[l].at = "check"
      /\ UNCHANGED <<world, tables, queue, persisting, history>>
      /\ loop' = [loop EXCEPT ![l].at = "state", ![l].extremities = forward]
  BY DEF CalculateState
<1>2. loop \in [Loops -> Entries] /\ loop[l] \in Entries /\ loop[l].items \in Seq(Items)
  BY <1>1, OtherLoops
<1>3. forward \in SUBSET Events
  BY DEF IInv, Types
<1>4. PICK v : v = [loop[l] EXCEPT !.at = "state"]
  OBVIOUS
<1>5. v \in Entries /\ v.at = "state" /\ v.backfilled = loop[l].backfilled /\ v.items = loop[l].items
  BY <1>2, <1>4 DEF Entries
<1>6. PICK u : u = [v EXCEPT !.extremities = forward]
  OBVIOUS
<1>7. u \in Entries /\ u.at = "state" /\ u.backfilled = loop[l].backfilled
      /\ u.items = loop[l].items /\ u.extremities = forward
  BY <1>3, <1>5, <1>6 DEF Entries
<1>8. loop' = [loop EXCEPT ![l] = u]
  BY <1>1, <1>2, <1>4, <1>6
<1>9. loop'[l] = u /\ forward' = forward
  BY <1>1, <1>2, <1>8 DEF tables
<1>10. LoopOk(l)'
  BY <1>7, <1>9 DEF LoopOk
<1>11. Within(u.items, loop[l].items)
  BY <1>2, <1>7, WithinItself
<1> QED
  BY <1>1, <1>7, <1>8, <1>10, <1>11, LoopMoves

(* The state that is written follows from the extremities that are there. *)
LEMMA WriteStateInv ==
    ASSUME IInv, NEW l \in Loops, WriteState(l)
    PROVE  IInv'
<1>1. loop[l].at = "state" /\ Answer(l)
  BY DEF WriteState
<1>2. stateAt' = stateAt
  BY <1>1 DEF WriteState, IInv, LoopsOk, LoopOk, StateMatches
<1>3. UNCHANGED <<world, tables, queue, persisting, history>>
  BY <1>2 DEF WriteState, tables
<1> QED
  BY <1>1, <1>3, AnswerInv

(* The loop takes the next task, or ends. *)
LEMMA NextItemInv ==
    ASSUME IInv, NEW l \in Loops, NextItem(l)
    PROVE  IInv'
<1>0. Types /\ OneLoop /\ TasksOk /\ LoopsOk /\ TablesInv
  BY DEF IInv, TablesInv
<1>1. /\ loop[l].at = "next"
      /\ UNCHANGED <<world, tables, history>>
  BY DEF NextItem
<1>2. /\ persisting /\ loop \in [Loops -> Entries]
      /\ \A m \in Loops : m # l => loop[m] = Idle
  BY <1>1, OtherLoops
<1>3. /\ UNCHANGED <<prev, rejects, sends, chunkSize>> /\ UNCHANGED tables
      /\ gaps' = gaps /\ live' = live /\ astray' = astray
  BY <1>1 DEF world, history
<1>4. InGraph' = InGraph /\ TablesInv'
  BY <1>0, <1>3, SameTables
<1>5. queue \in Seq(Entries) /\ QueueOk(queue, prev, InGraph, ~gaps)
  BY <1>0 DEF Types, TasksOk
<1>6. CASE queue = <<>>
  <2>1. persisting' = FALSE /\ loop' = [loop EXCEPT ![l] = Idle] /\ queue' = queue
    BY <1>6 DEF NextItem
  <2>2. \A m \in Loops : loop'[m] = Idle
    BY <1>2, <2>1
  <2>3. Types'
    BY <1>0, <1>3, <2>1, IdleEntry DEF Types, tables
  <2>4. OneLoop' /\ LoopsOk'
    BY <2>2, IdleEntry, NothingToWrite DEF OneLoop, LoopsOk
  <2>5. TasksOk'
    BY <1>3, <1>4, <1>5, <2>1, <2>2, IdleEntry, EmptyTask DEF TasksOk
  <2> QED
    BY <1>4, <2>3, <2>4, <2>5 DEF IInv, TablesInv
<1>7. CASE queue # <<>>
  <2>1. PICK h : h = Head(queue)
    OBVIOUS
  <2>2. h \in Entries /\ h = queue[1] /\ 1 \in DOMAIN queue
    BY <1>5, <1>7, <2>1
  <2>3. PICK u : u = [h EXCEPT !.at = "check"]
    OBVIOUS
  <2>4. u \in Entries /\ u.items = h.items /\ u.backfilled = h.backfilled /\ u.at = "check"
    BY <2>2, <2>3 DEF Entries
  <2>5. loop' = [loop EXCEPT ![l] = u] /\ queue' = Tail(queue) /\ persisting' = persisting
    BY <1>7, <2>1, <2>3 DEF NextItem
  <2>6. loop'[l] = u /\ \A m \in Loops : m # l => loop'[m] = Idle
    BY <1>2, <2>5
  <2>7. /\ Tail(queue) \in Seq(Entries)
        /\ \A a \in DOMAIN Tail(queue) : /\ a + 1 \in DOMAIN queue /\ Tail(queue)[a] = queue[a + 1]
                                         /\ a + 1 # 1 /\ a \in Nat
    BY <1>5, <1>7
  <2>8. Types'
    BY <1>0, <1>3, <2>4, <2>5, <2>7 DEF Types, tables
  <2>9. OneLoop'
    BY <1>2, <2>5, <2>6 DEF OneLoop
  <2>10. TasksOk'
    <3>1. QueueOk(Tail(queue), prev, InGraph, ~gaps)
      BY <1>5, <2>7 DEF QueueOk
    <3>2. Shape(u) /\ (~gaps => ReadyIn(u, prev, InGraph))
      BY <1>5, <2>2, <2>4 DEF QueueOk, Shape, ReadyIn
    <3>3. \A a \in DOMAIN Tail(queue) : Apart(u, Tail(queue)[a])
      BY <1>5, <2>2, <2>4, <2>7 DEF QueueOk, Apart
    <3>4. ASSUME NEW k \in Loops
          PROVE  /\ Shape(loop'[k])
                 /\ ~gaps => ReadyIn(loop'[k], prev, InGraph)
                 /\ \A a \in DOMAIN Tail(queue) : Apart(loop'[k], Tail(queue)[a])
      <4>1. CASE k = l
        BY <2>6, <3>2, <3>3, <4>1
      <4>2. CASE k # l
        BY <2>6, <4>2, IdleEntry, EmptyTask
      <4> QED
        BY <4>1, <4>2
    <3> QED
      BY <1>3, <1>4, <2>5, <3>1, <3>4 DEF TasksOk
  <2>11. LoopsOk'
    <3>1. ASSUME NEW k \in Loops
          PROVE  LoopOk(k)'
      BY <2>4, <2>6, IdleEntry, NothingToWrite
    <3> QED
      BY <3>1 DEF LoopsOk
  <2> QED
    BY <1>4, <2>8, <2>9, <2>10, <2>11 DEF IInv, TablesInv
<1> QED
  BY <1>6, <1>7

(* A restart loses the queue; the tables stay. *)
LEMMA RestartInv ==
    ASSUME IInv, Restart
    PROVE  IInv'
<1>0. Types /\ TablesInv
  BY DEF IInv, TablesInv
<1>1. /\ UNCHANGED <<prev, rejects, sends, chunkSize>> /\ UNCHANGED tables
      /\ gaps' = gaps /\ live' = live /\ astray' = astray
      /\ queue' = <<>> /\ persisting' = FALSE /\ loop' = [l \in Loops |-> Idle]
  BY DEF Restart, world, history
<1>2. InGraph' = InGraph /\ TablesInv'
  BY <1>0, <1>1, SameTables
<1>3. \A m \in Loops : loop'[m] = Idle
  BY <1>1
<1>4. Types'
  <2>1. queue' \in Seq(Entries) /\ loop' \in [Loops -> Entries]
    BY <1>1, IdleEntry
  <2> QED
    BY <1>0, <1>1, <2>1 DEF Types, tables
<1>5. OneLoop' /\ LoopsOk'
  BY <1>3, IdleEntry, NothingToWrite DEF OneLoop, LoopsOk
<1>6. TasksOk'
  BY <1>1, <1>3, IdleEntry, EmptyTask DEF TasksOk, QueueOk
<1> QED
  BY <1>2, <1>4, <1>5, <1>6 DEF IInv, TablesInv
------------------------------------------------------------------------------
(* _persist_events_txn *)

(* A chunk is the beginning of the task, the rest is what follows. *)
LEMMA ChunkIs ==
    ASSUME IInv, NEW l \in Loops, loop[l].at # "idle"
    PROVE  /\ Chunk(l) \in Seq(Items)
           /\ \A k \in DOMAIN Chunk(l) : k \in DOMAIN loop[l].items /\ Chunk(l)[k] = loop[l].items[k]
           /\ Rest(l) \in Seq(Items)
           /\ Within(Rest(l), loop[l].items)
           /\ \A k \in DOMAIN Rest(l) :
                \E j \in DOMAIN loop[l].items : /\ Rest(l)[k] = loop[l].items[j]
                                                /\ j \notin DOMAIN Chunk(l)
<1>1. chunkSize \in Nat \ {0}
  BY RoomAssumption DEF IInv, Types
<1>2. loop[l].items \in Seq(Items)
  BY OtherLoops
<1>3. PICK s : s = loop[l].items
  OBVIOUS
<1>4. PICK n : n = IF Len(s) < chunkSize THEN Len(s) ELSE chunkSize
  OBVIOUS
<1>5. s \in Seq(Items) /\ Len(s) \in Nat /\ DOMAIN s = 1 .. Len(s) /\ n \in Nat /\ n <= Len(s)
  BY <1>1, <1>2, <1>3, <1>4
<1>6. PICK c : c = SubSeq(s, 1, n)
  OBVIOUS
<1>7. c = Chunk(l)
  BY <1>3, <1>4, <1>6 DEF Chunk
<1>8. /\ c \in Seq(Items) /\ Len(c) = n /\ DOMAIN c = 1 .. n
      /\ \A k \in DOMAIN c : k \in DOMAIN s /\ c[k] = s[k]
  BY <1>5, <1>6
<1>9. PICK r : r = SubSeq(s, n + 1, Len(s))
  OBVIOUS
<1>10. r = Rest(l)
  BY <1>3, <1>7, <1>8, <1>9 DEF Rest
<1>11. r \in Seq(Items) /\ Len(r) = Len(s) - n /\ DOMAIN r = 1 .. (Len(s) - n)
  <2>1. \A i \in n + 1 .. Len(s) : s[i] \in Items
    BY <1>5
  <2>2. r \in Seq(Items) /\ Len(r) = IF n + 1 <= Len(s) THEN Len(s) - (n + 1) + 1 ELSE 0
    BY <1>5, <1>9, <2>1, SubSeqProperties
  <2>3. \A x, y \in Nat : x <= y => (IF x + 1 <= y THEN y - (x + 1) + 1 ELSE 0) = y - x
    OBVIOUS
  <2>4. Len(r) = Len(s) - n
    BY <1>5, <2>2, <2>3
  <2> QED
    BY <2>2, <2>4
<1>12. ASSUME NEW k \in DOMAIN r
       PROVE  k \in Nat /\ k + n \in DOMAIN s /\ r[k] = s[k + n] /\ k + n \notin DOMAIN c
  <2>1. k \in 1 .. (Len(s) - n)
    BY <1>11
  <2>2. r[k] = s[n + 1 + k - 1]
    BY <1>5, <1>9, <2>1
  <2>3. n + 1 + k - 1 = k + n /\ k + n \in 1 .. Len(s) /\ k + n \notin 1 .. n
    BY <1>5, <2>1
  <2> QED
    BY <1>5, <1>8, <2>1, <2>2, <2>3
<1>13. Within(r, s)
  <2>1. PICK m : m = [k \in DOMAIN r |-> k + n]
    OBVIOUS
  <2>2. m \in [DOMAIN r -> DOMAIN s] /\ \A k \in DOMAIN r : m[k] = k + n
    BY <1>12, <2>1
  <2>3. \A j, k \in DOMAIN r : j + n = k + n => j = k
    BY <1>5, <1>12
  <2> QED
    BY <1>12, <2>2, <2>3 DEF Within
<1> QED
  BY <1>3, <1>7, <1>8, <1>10, <1>11, <1>12, <1>13

(* What the sets of a chunk have to do with each other. *)
LEMMA ChunkSets ==
    ASSUME Types, NEW c \in Seq(Items)
    PROVE  /\ Inside(c) \subseteq Events /\ Fresh(c) \subseteq Events
           /\ Fresh(c) \cap Stored = {}
           /\ ExOutliers(c) = {e \in (Inside(c) \cap Stored) \ rejects : e \notin InGraph}
           /\ Soft(c) \subseteq Inside(c)
           /\ Accepted(c) \subseteq Inside(c) \ rejects
           /\ Accepted(c) \subseteq Graph(c)
           /\ Inside(c) \subseteq Fresh(c) \cup Stored
           /\ InGraph \subseteq Stored /\ Stored \subseteq Events
<1>0. \A e \in Events : stored[e] \in {"none", "outlier", "event"}
  BY DEF Types
<1>1. \A k \in DOMAIN c : c[k] \in Items
  OBVIOUS
<1>2. \A i \in ToSet(c) : i.event \in Events
  BY <1>1 DEF ToSet, Items
<1>3. Inside(c) \subseteq Events /\ Fresh(c) \subseteq Events /\ Inside(c) \subseteq {i.event : i \in ToSet(c)}
  BY <1>2 DEF Inside, Fresh
<1>4. Fresh(c) \cap Stored = {} /\ Inside(c) \subseteq Fresh(c) \cup Stored
  BY <1>3 DEF Fresh, Stored
<1>5. ExOutliers(c) = {e \in (Inside(c) \cap Stored) \ rejects : e \notin InGraph}
  BY <1>0, <1>3 DEF ExOutliers, Stored, InGraph
<1>6. Soft(c) \subseteq Inside(c)
  BY DEF Soft
<1>7. Accepted(c) \subseteq Inside(c) \ rejects
  BY DEF Accepted, Inside
<1>8. InGraph \subseteq Stored /\ Stored \subseteq Events
  BY DEF InGraph, Stored
<1>9. Accepted(c) \subseteq Graph(c)
  BY <1>4, <1>5, <1>7 DEF Graph
<1> QED
  BY <1>3, <1>4, <1>5, <1>6, <1>7, <1>8, <1>9

(* The tables after a chunk. *)
Written(l, c) ==
    /\ c \in Seq(Items)
    /\ \A k \in DOMAIN c : k \in DOMAIN loop[l].items /\ c[k] = loop[l].items[k]
    /\ stored' \in [Events -> {"none", "outlier", "event"}]
    /\ InGraph' = InGraph \cup ExOutliers(c) \cup (Fresh(c) \cap Inside(c))
    /\ Stored' = Stored \cup Fresh(c)
    /\ rejections' = rejections \cup (Fresh(c) \cap rejects)
    /\ softFailed' = softFailed \cup (Fresh(c) \cap Soft(c))
    /\ edges' = edges \cup (Fresh(c) \ rejects)
    /\ backward' = Backward(c)
    /\ forward' = IF loop[l].backfilled THEN forward ELSE Extremities(Accepted(c))
    /\ stateAt' = forward'
    /\ live' = live \cup (IF loop[l].backfilled THEN {} ELSE Accepted(c))
    /\ astray' = (astray \/ GoesAstray(c, loop[l].backfilled))
    /\ UNCHANGED <<prev, rejects, sends, chunkSize, queue, persisting, gaps>>

(* The transaction of a chunk, as what it does to each table. *)
LEMMA WriteIs ==
    ASSUME IInv, NEW l \in Loops, Write(l)
    PROVE  Written(l, Chunk(l))
<1>0. loop[l].at = "write" /\ Types
  BY DEF Write, IInv
<1>1. PICK c : c = Chunk(l)
  OBVIOUS
<1>2. /\ c \in Seq(Items)
      /\ \A k \in DOMAIN c : k \in DOMAIN loop[l].items /\ c[k] = loop[l].items[k]
  BY <1>0, <1>1, ChunkIs
<1>3. PICK new : new = loop[l].extremities
  OBVIOUS
<1>4. /\ stored' = [e \in Events |-> IF e \in Graph(c) THEN "event"
                                     ELSE IF e \in Fresh(c) THEN "outlier"
                                     ELSE stored[e]]
      /\ rejections' = rejections \cup (Fresh(c) \cap rejects)
      /\ softFailed' = softFailed \cup (Fresh(c) \cap Soft(c))
      /\ edges' = edges \cup (Fresh(c) \ rejects)
      /\ backward' = Backward(c)
      /\ forward' = IF new = {} THEN forward ELSE new
      /\ stateAt' = IF new = {} THEN stateAt ELSE new
      /\ live' = live \cup (IF loop[l].backfilled THEN {} ELSE Accepted(c) \cap Graph(c))
      /\ astray' = (astray \/ GoesAstray(c, loop[l].backfilled))
      /\ UNCHANGED <<world, queue, persisting, gaps>>
  BY <1>1, <1>3 DEF Write
<1>5. UNCHANGED <<prev, rejects, sends, chunkSize, queue, persisting, gaps>>
  BY <1>4 DEF world
<1>6. /\ Graph(c) = InGraph \cup ExOutliers(c) \cup (Fresh(c) \cap Inside(c))
      /\ Graph(c) \subseteq Events /\ InGraph \subseteq Graph(c)
      /\ Graph(c) \subseteq Stored \cup Fresh(c) /\ Fresh(c) \subseteq Events
      /\ Accepted(c) \cap Graph(c) = Accepted(c)
  BY <1>0, <1>2, ChunkSets DEF Graph
<1>7. \A e \in Events : stored[e] \in {"none", "outlier", "event"}
  BY <1>0 DEF Types
<1>8. stored' \in [Events -> {"none", "outlier", "event"}]
  BY <1>4, <1>7
<1>9. InGraph' = Graph(c)
  BY <1>4, <1>6 DEF InGraph
<1>10. Stored' = Stored \cup Fresh(c)
  BY <1>4, <1>6 DEF Stored
<1>11. NewExtremities(c) = Extremities(Accepted(c))
  BY DEF NewExtremities, Extremities
<1>12. forward' = IF loop[l].backfilled THEN forward ELSE Extremities(Accepted(c))
  <2>1. IF loop[l].backfilled THEN new = {}
        ELSE NewExtremities(c) = IF new = {} THEN forward ELSE new
    BY <1>0, <1>1, <1>3 DEF IInv, LoopsOk, LoopOk
  <2> QED
    BY <1>4, <1>11, <2>1
<1>13. stateAt' = forward'
  BY <1>4 DEF IInv, StateMatches
<1> QED
  BY <1>1, <1>2, <1>4, <1>5, <1>6, <1>8, <1>9, <1>10, <1>12, <1>13 DEF Written
(* The rows of a chunk. *)
LEMMA WrittenTables ==
    ASSUME IInv, NEW l \in Loops, NEW c, Written(l, c)
    PROVE  /\ edges' = Stored' \ rejects' /\ rejections' = Stored' \cap rejects'
           /\ softFailed' \subseteq InGraph' /\ forward' \subseteq InGraph'
<1>0. Types /\ Tables /\ c \in Seq(Items)
  BY DEF IInv, Written
<1>1. /\ edges' = edges \cup (Fresh(c) \ rejects)
      /\ rejections' = rejections \cup (Fresh(c) \cap rejects)
      /\ Stored' = Stored \cup Fresh(c)
      /\ softFailed' = softFailed \cup (Fresh(c) \cap Soft(c))
      /\ InGraph' = InGraph \cup ExOutliers(c) \cup (Fresh(c) \cap Inside(c))
      /\ InGraph' = Graph(c)
      /\ rejects' = rejects
      /\ forward' = IF loop[l].backfilled THEN forward ELSE Extremities(Accepted(c))
  BY DEF Written, Graph
<1>2. Soft(c) \subseteq Inside(c) /\ Accepted(c) \subseteq Graph(c)
  BY <1>0, ChunkSets
<1>3. edges' = Stored' \ rejects' /\ rejections' = Stored' \cap rejects'
  BY <1>0, <1>1 DEF Tables
<1>4. softFailed' \subseteq InGraph'
  BY <1>0, <1>1, <1>2 DEF Tables
<1>5. Extremities(Accepted(c)) \subseteq forward \cup Accepted(c)
  BY DEF Extremities
<1>6. forward' \subseteq InGraph'
  BY <1>0, <1>1, <1>2, <1>5 DEF Tables
<1> QED
  BY <1>3, <1>4, <1>6

(* _update_backward_extremeties *)
LEMMA WrittenBackward ==
    ASSUME IInv, NEW l \in Loops, NEW c, Written(l, c)
    PROVE  BackwardExact'
<1>0. Types /\ Tables /\ BackwardExact /\ c \in Seq(Items)
  BY DEF IInv, Written
<1>1. PICK was : was = ExOutliers(c)
  OBVIOUS
<1>2. PICK in : in = Fresh(c) \cap Inside(c)
  OBVIOUS
<1>3. PICK good : good = in \ rejects
  OBVIOUS
<1>4. /\ InGraph' = InGraph \cup was \cup in
      /\ Stored' = Stored \cup Fresh(c)
      /\ edges' = Stored' \ rejects /\ rejections' = Stored' \cap rejects
      /\ edges = Stored \ rejects /\ rejections = Stored \cap rejects
      /\ in \subseteq Fresh(c) /\ Fresh(c) \cap Stored = {}
      /\ InGraph \subseteq Stored /\ was \subseteq Stored \ rejects
  BY <1>0, <1>1, <1>2, ChunkSets, WrittenTables DEF Written, Tables
<1>5. PICK mid : mid = (backward \cup {e \in Following(was) \ InGraph :
                             e \in was => \E d \in was : e \in prev[d] /\ Earlier(c, d, e)})
                         \ HavePrev(was)
  OBVIOUS
<1>15. PICK roots : roots = (Fresh(c) \ rejects) \ HavePrev(Fresh(c) \ rejects)
  OBVIOUS
<1>16. /\ good = (Fresh(c) \ rejects) \cap Inside(c)
       /\ Graph(c) = InGraph \cup was \cup in
       /\ was = ExOutliers(c)
  BY <1>1, <1>2, <1>3 DEF Graph
<1>17. backward' = IF HavePrev(good) = {} THEN mid
                   ELSE (mid \cup (Following(good) \ (InGraph \cup was \cup in))) \ (good \cup roots)
  BY <1>5, <1>15, <1>16 DEF Written, Backward
<1>6. edges' \cap InGraph' = (edges \cap InGraph) \cup was \cup good
  BY <1>3, <1>4
<1>7. PICK old : old = edges \cap InGraph
  OBVIOUS
<1>8. Following(edges' \cap InGraph') = Following(old) \cup Following(was) \cup Following(good)
  BY <1>6, <1>7 DEF Following
<1>9. PICK F : F = Following(old)
  OBVIOUS
<1>10. PICK W : W = Following(was)
  OBVIOUS
<1>11. PICK H : H = Following(good)
  OBVIOUS
<1>12. /\ backward \subseteq F
       /\ HavePrev(backward) \ rejections = HavePrev(F) \ (InGraph \cup rejections)
  BY <1>0, <1>7, <1>9 DEF BackwardExact
<1>18. HavePrev(good) = {} => H = {}
  BY <1>11 DEF HavePrev, Following
<1>13. /\ backward' \subseteq F \cup W \cup H
       /\ HavePrev(backward') \ rejections' = HavePrev(F \cup W \cup H) \ (InGraph' \cup rejections')
  <2>1. \A x : x \in mid <=>
          /\ ~(x \in was /\ prev[x] # {})
          /\ \/ x \in backward
             \/ /\ x \in W /\ x \notin InGraph
                /\ x \in was => \E d \in was : x \in prev[d] /\ Earlier(c, d, x)
    BY <1>5, <1>10 DEF HavePrev
  <2>2. \A x : prev[x] # {} /\ x \notin rejections => (x \in backward <=> x \in F /\ x \notin InGraph)
    BY <1>12 DEF HavePrev
  <2>3. \A x : x \notin rejections' => (x \in in <=> x \in good) /\ x \notin rejections
    BY <1>3, <1>4
  <2>4. \A x : x \in InGraph' <=> x \in InGraph \/ x \in was \/ x \in in
    BY <1>4
  <2>5. \A x : prev[x] # {} => (x \in mid <=> x \notin was /\ (x \in backward \/ (x \in W /\ x \notin InGraph)))
    BY <2>1
  <2>6. \A x : prev[x] # {} => x \notin roots
    BY <1>15 DEF HavePrev
  <2>7. \A x : prev[x] # {} => (x \in backward' <=>
          /\ x \notin good
          /\ \/ x \notin was /\ (x \in backward \/ (x \in W /\ x \notin InGraph))
             \/ x \in H /\ x \notin InGraph /\ x \notin was /\ x \notin in)
    <3>1. CASE HavePrev(good) = {}
      <4>1. backward' = mid /\ H = {}
        BY <3>1, <1>17, <1>18
      <4>2. \A x : prev[x] # {} => x \notin good
        BY <3>1 DEF HavePrev
      <4> QED
        BY <4>1, <4>2, <2>5
    <3>2. CASE HavePrev(good) # {}
      BY <3>2, <1>17, <1>11, <2>5, <2>6
    <3> QED
      BY <3>1, <3>2
  <2>8. \A x : prev[x] # {} /\ x \notin rejections' =>
          (x \in backward' <=> (x \in F \/ x \in W \/ x \in H) /\ x \notin InGraph')
    BY <2>7, <2>2, <2>3, <2>4
  <2>9. HavePrev(backward') \ rejections' = HavePrev(F \cup W \cup H) \ (InGraph' \cup rejections')
    BY <2>8 DEF HavePrev
  <2>10. mid \subseteq F \cup W
    BY <2>1, <1>12
  <2>11. backward' \subseteq F \cup W \cup H
    BY <2>10, <1>17, <1>11
  <2> QED
    BY <2>9, <2>11
<1>14. Following(edges \cap InGraph)' = F \cup W \cup H
  <2>1. prev' = prev
    BY DEF Written
  <2>2. Following(edges \cap InGraph)' = UNION {prev'[e] : e \in edges' \cap InGraph'}
    BY DEF Following
  <2>3. Following(edges' \cap InGraph') = UNION {prev[e] : e \in edges' \cap InGraph'}
    BY DEF Following
  <2> QED
    BY <1>8, <1>9, <1>10, <1>11, <2>1, <2>2, <2>3
<1>19. \A S, T : S = T => {e \in S : prev'[e] # {}} = HavePrev(T)
  <2>1. prev' = prev
    BY DEF Written
  <2> QED
    BY <2>1 DEF HavePrev
<1>20. HavePrev(backward)' = HavePrev(backward')
  <2>1. HavePrev(backward)' = {e \in backward' : prev'[e] # {}}
    BY DEF HavePrev
  <2> QED
    BY <2>1, <1>19
<1>21. HavePrev(Following(edges \cap InGraph))' = HavePrev(F \cup W \cup H)
  <2>1. HavePrev(Following(edges \cap InGraph))' = {e \in Following(edges \cap InGraph)' : prev'[e] # {}}
    BY DEF HavePrev
  <2> QED
    BY <2>1, <1>14, <1>19
<1> QED
  BY <1>13, <1>14, <1>20, <1>21 DEF BackwardExact

(* What a chunk brings into the graph are events of its items. *)
LEMMA WrittenItems ==
    ASSUME IInv, NEW l \in Loops, NEW c, Written(l, c), NEW x \in InGraph', x \notin InGraph
    PROVE  /\ x \in Inside(c)
           /\ \E k \in DOMAIN c : /\ k \in DOMAIN loop[l].items
                                  /\ loop[l].items[k] = c[k]
                                  /\ c[k].event = x /\ c[k].as # "outlier"
<1>1. Types /\ c \in Seq(Items)
  BY DEF IInv, Written
<1>2. x \in Inside(c)
  BY <1>1, ChunkSets DEF Written
<1>3. PICK k \in DOMAIN c : c[k].event = x /\ c[k].as # "outlier"
  BY <1>2 DEF Inside, ToSet
<1> QED
  BY <1>2, <1>3 DEF Written

(* One event of a transaction ID at most. *)
LEMMA WrittenSends ==
    ASSUME IInv, NEW l \in Loops, loop[l].at = "write", NEW c, Written(l, c)
    PROVE  /\ \A e, f \in sends' \cap InGraph' : e = f
           /\ \A r : /\ Within(r, loop[l].items)
                     /\ \A k \in DOMAIN r :
                          \E j \in DOMAIN loop[l].items : r[k] = loop[l].items[j] /\ j \notin DOMAIN c
                     => SentOnce(r, sends', InGraph')
<1>1. SentOnce(loop[l].items, sends, InGraph)
  BY DEF IInv, LoopsOk, LoopOk
<1>2. sends' = sends
  BY DEF Written
<1>3. PICK s : s = loop[l].items
  OBVIOUS
<1>4. ASSUME NEW x \in sends \cap InGraph', x \notin InGraph
      PROVE  \E k \in DOMAIN c : k \in DOMAIN s /\ s[k].event = x
  BY <1>3, <1>4, WrittenItems
<1>5. ASSUME NEW e \in sends \cap InGraph', NEW f \in sends \cap InGraph'
      PROVE  e = f
  <2>1. CASE e \in InGraph /\ f \in InGraph
    BY <2>1 DEF IInv, Tables
  <2>2. CASE e \notin InGraph
    <3>1. PICK k \in DOMAIN c : k \in DOMAIN s /\ s[k].event = e
      BY <1>4, <2>2
    <3>2. sends \cap InGraph = {}
      BY <1>1, <1>3, <3>1 DEF SentOnce
    <3>3. PICK j \in DOMAIN c : j \in DOMAIN s /\ s[j].event = f
      BY <1>4, <3>2
    <3> QED
      BY <1>1, <1>3, <3>1, <3>3 DEF SentOnce
  <2>3. CASE f \notin InGraph
    <3>1. PICK k \in DOMAIN c : k \in DOMAIN s /\ s[k].event = f
      BY <1>4, <2>3
    <3>2. sends \cap InGraph = {}
      BY <1>1, <1>3, <3>1 DEF SentOnce
    <3>3. PICK j \in DOMAIN c : j \in DOMAIN s /\ s[j].event = e
      BY <1>4, <3>2
    <3> QED
      BY <1>1, <1>3, <3>1, <3>3 DEF SentOnce
  <2> QED
    BY <2>1, <2>2, <2>3
<1>6. ASSUME NEW r, Within(r, s),
             \A k \in DOMAIN r : \E j \in DOMAIN s : r[k] = s[j] /\ j \notin DOMAIN c
      PROVE  SentOnce(r, sends, InGraph')
  <2>1. SentOnce(r, sends, InGraph)
    BY <1>1, <1>3, <1>6, WithinSentOnce
  <2>2. ASSUME NEW k \in DOMAIN r, r[k].event \in sends, NEW x \in sends \cap InGraph'
        PROVE  FALSE
    <3>1. x \notin InGraph
      BY <2>1, <2>2 DEF SentOnce
    <3>2. PICK i \in DOMAIN c : i \in DOMAIN s /\ s[i].event = x
      BY <1>4, <3>1
    <3>3. PICK j \in DOMAIN s : r[k] = s[j] /\ j \notin DOMAIN c
      BY <1>6
    <3>4. i = j
      BY <1>1, <1>3, <2>2, <3>2, <3>3 DEF SentOnce
    <3> QED
      BY <3>2, <3>3, <3>4
  <2>3. \A k \in DOMAIN r : r[k].event \in sends => sends \cap InGraph' = {}
    BY <2>2
  <2> QED
    BY <2>1, <2>3 DEF SentOnce
<1> QED
  BY <1>2, <1>3, <1>5, <1>6
(* A chunk of new events has each once: it soft-failed or it did not. *)
LEMMA ChunkOfNew ==
    ASSUME IInv, NEW l \in Loops, NEW c, Written(l, c), ~loop[l].backfilled
    PROVE  /\ Accepted(c) \cap Soft(c) = {}
           /\ Inside(c) \ (rejects \cup Soft(c)) \subseteq Accepted(c)
<1>1. c \in Seq(Items)
  BY DEF Written
<1>2. /\ \A k \in DOMAIN c : c[k].as = "new"
      /\ \A j, k \in DOMAIN c : c[j].event = c[k].event => j = k
  BY DEF Written, IInv, TasksOk, Shape
<1>3. DOMAIN c = 1 .. Len(c) /\ Len(c) \in Nat
  BY <1>1
<1>4. ASSUME NEW e \in Accepted(c), e \in Soft(c)
      PROVE  FALSE
  <2>1. PICK j \in DOMAIN c : c[j].event = e /\ ~c[j].soft
    BY <1>4 DEF Accepted, ToSet
  <2>2. PICK k \in DOMAIN c : c[k].event = e /\ c[k].soft
    BY <1>3, <1>4 DEF Soft
  <2> QED
    BY <1>2, <2>1, <2>2
<1>5. ASSUME NEW e \in Inside(c), e \notin rejects, e \notin Soft(c)
      PROVE  e \in Accepted(c)
  <2>1. PICK k \in DOMAIN c : c[k].event = e
    BY DEF Inside, ToSet
  <2>2. \A j \in 1 .. (k - 1) : c[j].event # e
    <3> SUFFICES ASSUME NEW j \in 1 .. (k - 1), c[j].event = e
                 PROVE  FALSE
      OBVIOUS
    <3>1. k \in Nat /\ j \in DOMAIN c /\ j # k
      BY <1>3
    <3> QED
      BY <1>2, <2>1, <3>1
  <2>3. ~c[k].soft
    BY <1>3, <1>5, <2>1, <2>2 DEF Soft
  <2>4. c[k] \in ToSet(c) /\ c[k].as # "outlier"
    BY <1>2 DEF ToSet
  <2> QED
    BY <1>5, <2>1, <2>3, <2>4 DEF Accepted
<1> QED
  BY <1>4, <1>5

(* Without gaps, what a chunk brings into the graph follows what is there. *)
LEMMA ChunkReady ==
    ASSUME IInv, NEW l \in Loops, NEW c, Written(l, c), ~gaps
    PROVE  /\ \A e \in Inside(c) : e \in Events /\ prev[e] \subseteq InGraph /\ e \notin InGraph
           /\ loop[l].backfilled => Inside(c) = {}
<1>1. ReadyIn(loop[l], prev, InGraph) /\ Shape(loop[l]) /\ Types
  BY DEF IInv, TasksOk
<1>2. c \in Seq(Items)
  BY DEF Written
<1>3. Inside(c) \subseteq Events
  BY <1>1, <1>2, ChunkSets
<1>4. ASSUME NEW e \in Inside(c)
      PROVE  prev[e] \subseteq InGraph /\ e \notin InGraph /\ ~loop[l].backfilled
  <2>1. PICK k \in DOMAIN c : c[k].event = e /\ c[k].as # "outlier"
    BY DEF Inside, ToSet
  <2>2. k \in DOMAIN loop[l].items /\ c[k] = loop[l].items[k]
    BY DEF Written
  <2> QED
    BY <1>1, <2>1, <2>2 DEF ReadyIn, Shape
<1> QED
  BY <1>3, <1>4

(* The graph stays closed when a chunk is written. *)
LEMMA WrittenClosed ==
    ASSUME IInv, NEW l \in Loops, NEW c, Written(l, c)
    PROVE  Closed'
<1>1. prev' = prev /\ gaps' = gaps /\ InGraph \subseteq InGraph'
  BY DEF Written
<1>2. ASSUME ~gaps, NEW e \in InGraph'
      PROVE  prev[e] \subseteq InGraph'
  <2>1. CASE e \in InGraph
    BY <1>1, <1>2, <2>1 DEF IInv, Closed
  <2>2. CASE e \notin InGraph
    BY <1>1, <1>2, <2>2, WrittenItems, ChunkReady
  <2> QED
    BY <2>1, <2>2
<1> QED
  BY <1>1, <1>2 DEF Closed

(* Good standing after a chunk. *)
LEMMA WrittenGood ==
    ASSUME IInv, NEW l \in Loops, NEW c, Written(l, c), ~astray', NEW x \in Good', x \notin Good
    PROVE  IF loop[l].backfilled THEN Covered(x, forward) ELSE x \in Accepted(c)
<1>0. Types /\ Tables /\ c \in Seq(Items)
  BY DEF IInv, Written
<1>1. x \in InGraph' /\ x \in edges' /\ x \notin rejections' /\ x \notin softFailed'
  BY DEF Good
<1>2. edges' = Stored' \ rejects /\ edges = Stored \ rejects /\ rejections = Stored \cap rejects
  BY <1>0, WrittenTables DEF Tables, Written
<1>3. softFailed' = softFailed \cup (Fresh(c) \cap Soft(c)) /\ x \notin rejects
  BY <1>1, <1>2 DEF Written
<1>4. x \notin InGraph
  <2>1. InGraph \subseteq Stored
    BY DEF InGraph, Stored
  <2> QED
    BY <1>1, <1>2, <1>3, <2>1 DEF Good
<1>5. x \in (ExOutliers(c) \cup Fresh(c)) \cap Inside(c)
  BY <1>0, <1>1, <1>4, ChunkSets DEF Written
<1>6. ~GoesAstray(c, loop[l].backfilled)
  BY DEF Written
<1>7. x \notin Soft(c)
  BY <1>1, <1>3, <1>5, <1>6 DEF GoesAstray
<1>8. CASE loop[l].backfilled
  BY <1>3, <1>5, <1>6, <1>8 DEF GoesAstray, Covered
<1>9. CASE ~loop[l].backfilled
  BY <1>3, <1>5, <1>7, <1>9, ChunkOfNew
<1> QED
  BY <1>8, <1>9

(* No branch is lost when a chunk is written with the extremities worked out before. *)
LEMMA WrittenTips ==
    ASSUME IInv, NEW l \in Loops, NEW c, Written(l, c)
    PROVE  Tips'
<1>0. Types /\ Tips /\ c \in Seq(Items)
  BY DEF IInv, Written
<1>1. /\ live' = live \cup (IF loop[l].backfilled THEN {} ELSE Accepted(c))
      /\ forward' = IF loop[l].backfilled THEN forward ELSE Extremities(Accepted(c))
      /\ prev' = prev
      /\ ~astray' => ~astray
  BY DEF Written
<1>2. Before' = Before
  BY <1>1, BeforeStays
<1>3. SUFFICES ASSUME ~astray', NEW e \in live' \cup Good'
               PROVE  Covered(e, forward')
  BY <1>2 DEF Tips, Covered
<1>4. \A g \in live \cup Good : Covered(g, forward)
  BY <1>0, <1>1, <1>3 DEF Tips
<1>5. CASE loop[l].backfilled
  BY <1>1, <1>3, <1>4, <1>5, WrittenGood
<1>6. CASE ~loop[l].backfilled
  <2>1. e \in live \cup Good \cup Accepted(c)
    BY <1>1, <1>3, <1>6, WrittenGood
  <2>2. Covered(e, forward \cup Accepted(c))
    BY <1>4, <2>1 DEF Covered
  <2>3. Accepted(c) \subseteq Events /\ forward \subseteq Events /\ prev \in Graphs
    BY <1>0, ChunkSets DEF Types
  <2>4. PICK A : A = Accepted(c)
    OBVIOUS
  <2>5. Covered(e, Extremities(A))
    BY <1>4, <2>2, <2>3, <2>4, ExtremitiesCover
  <2> QED
    BY <1>1, <1>6, <2>4, <2>5
<1> QED
  BY <1>5, <1>6

(* The extremities written are followed by no accepted event of the graph. *)
LEMMA WrittenLast ==
    ASSUME IInv, NEW l \in Loops, NEW c, Written(l, c)
    PROVE  ForwardLast'
<1>0. Types /\ Tables /\ Closed /\ c \in Seq(Items)
  BY DEF IInv, Written
<1>1. /\ forward' = IF loop[l].backfilled THEN forward ELSE Extremities(Accepted(c))
      /\ InGraph' = InGraph \cup ExOutliers(c) \cup (Fresh(c) \cap Inside(c))
      /\ softFailed' = softFailed \cup (Fresh(c) \cap Soft(c))
      /\ prev' = prev /\ gaps' = gaps
      /\ ~astray' => ~astray
      /\ rejections' = {} => rejections = {}
  BY DEF Written
<1>2. Before' = Before
  BY <1>1, BeforeStays
<1>3. SUFFICES ASSUME ~gaps, ~astray', rejections' = {}
               PROVE  /\ forward' \cap softFailed' = {}
                      /\ \A e \in forward' : \A g \in InGraph' \ softFailed' : e \notin Before[g]
  BY <1>1, <1>2 DEF ForwardLast
<1>4. /\ forward \cap softFailed = {}
      /\ \A e \in forward : \A g \in InGraph \ softFailed : e \notin Before[g]
      /\ \A e \in InGraph : prev[e] \subseteq InGraph
  BY <1>0, <1>1, <1>3 DEF IInv, ForwardLast, Closed
<1>5. /\ \A e \in Inside(c) : e \in Events /\ prev[e] \subseteq InGraph /\ e \notin InGraph
      /\ loop[l].backfilled => Inside(c) = {}
  BY <1>3, ChunkReady
<1>6. /\ Soft(c) \subseteq Inside(c) /\ ExOutliers(c) \subseteq Inside(c)
      /\ Accepted(c) \subseteq Inside(c)
      /\ InGraph \subseteq Stored /\ Fresh(c) \cap Stored = {}
  BY <1>0, ChunkSets
<1>7. CASE loop[l].backfilled
  <2>1. InGraph' = InGraph /\ softFailed' = softFailed /\ forward' = forward
    BY <1>1, <1>5, <1>6, <1>7
  <2> QED
    BY <1>4, <2>1
<1>8. CASE ~loop[l].backfilled
  <2>1. Accepted(c) \cap Soft(c) = {}
    BY <1>8, ChunkOfNew
  <2>2. PICK A : A = Accepted(c)
    OBVIOUS
  <2>3. Extremities(A) \subseteq forward \cup A
    BY DEF Extremities
  <2>4. /\ forward \subseteq InGraph /\ softFailed \subseteq InGraph
        /\ A \subseteq Inside(c)
    BY <1>0, <1>6, <2>2 DEF Tables
  <2>5. forward' \cap softFailed' = {}
    <3>1. forward \cap Soft(c) = {} /\ A \cap softFailed = {}
      BY <1>5, <1>6, <2>4
    <3> QED
      BY <1>1, <1>4, <1>8, <2>1, <2>2, <2>3, <3>1
  <2>6. InGraph' \ softFailed' \subseteq A \cup (InGraph \ softFailed)
    <3> SUFFICES ASSUME NEW g \in InGraph', g \notin softFailed', g \notin InGraph
                 PROVE  g \in A
      BY <1>1
    <3>1. g \in Good'
      <4>1. edges' = Stored' \ rejects' /\ rejections' = Stored' \cap rejects'
        BY WrittenTables
      <4>2. InGraph' \subseteq Stored'
        BY DEF InGraph, Stored
      <4> QED
        BY <1>3, <4>1, <4>2 DEF Good
    <3>2. g \notin Good
      BY DEF Good
    <3> QED
      BY <1>3, <1>8, <2>2, <3>1, <3>2, WrittenGood
  <2>7. InGraph \subseteq edges
    BY <1>0, <1>1, <1>3, <1>6 DEF Tables
  <2>8. A \subseteq Events /\ \A e \in A : prev[e] \subseteq InGraph /\ e \notin InGraph
    BY <1>5, <2>4
  <2>9. prev \in Graphs
    BY <1>0 DEF Types
  <2>10. \A e \in Extremities(A) : \A g \in A \cup (InGraph \ softFailed) : e \notin Before[g]
    BY <1>4, <2>4, <2>7, <2>8, <2>9, ExtremitiesLast
  <2> QED
    BY <1>1, <1>8, <2>2, <2>5, <2>6, <2>10
<1> QED
  BY <1>7, <1>8
(* The tasks that are left, and what is left of this one, are as fit. *)
LEMMA WrittenReady ==
    ASSUME IInv, NEW l \in Loops, NEW c, Written(l, c), ~gaps,
           NEW t, Shape(t), ReadyIn(t, prev, InGraph),
           ~t.backfilled /\ ~loop[l].backfilled =>
             \A k \in DOMAIN t.items : \A j \in DOMAIN c : t.items[k].event # c[j].event
    PROVE  ReadyIn(t, prev', InGraph')
<1>1. prev' = prev /\ InGraph \subseteq InGraph'
  BY DEF Written
<1>2. ASSUME NEW k \in DOMAIN t.items, t.items[k].as = "new", t.items[k].event \notin InGraph
      PROVE  t.items[k].event \notin InGraph'
  <2> SUFFICES ASSUME t.items[k].event \in InGraph'
               PROVE  FALSE
    OBVIOUS
  <2>1. PICK j \in DOMAIN c : c[j].event = t.items[k].event
    BY <1>2, WrittenItems
  <2>2. t.items[k].event \in Inside(c)
    BY <1>2, WrittenItems
  <2>3. ~loop[l].backfilled
    BY <2>2, ChunkReady
  <2>4. ~t.backfilled
    BY <1>2 DEF Shape
  <2> QED
    BY <2>1, <2>3, <2>4
<1> QED
  BY <1>1, <1>2 DEF ReadyIn

(* The transaction of a chunk keeps the invariant. *)
LEMMA WriteInv ==
    ASSUME IInv, NEW l \in Loops, Write(l)
    PROVE  IInv'
<1>0. Types /\ OneLoop /\ TasksOk /\ LoopsOk /\ loop[l].at = "write"
  BY DEF IInv, Write
<1>1. PICK c : c = Chunk(l)
  OBVIOUS
<1>2. Written(l, c)
  BY <1>1, WriteIs
<1>3. /\ persisting /\ loop[l] # Idle /\ loop \in [Loops -> Entries]
      /\ loop[l] \in Entries /\ loop[l].items \in Seq(Items)
      /\ \A m \in Loops : m # l => loop[m] = Idle
  BY <1>0, OtherLoops
<1>4. PICK r : r = Rest(l)
  OBVIOUS
<1>5. /\ r \in Seq(Items) /\ Within(r, loop[l].items)
      /\ \A k \in DOMAIN r : \E j \in DOMAIN loop[l].items : r[k] = loop[l].items[j] /\ j \notin DOMAIN c
  BY <1>0, <1>1, <1>4, ChunkIs
<1>6. PICK u \in Entries :
        /\ loop' = [loop EXCEPT ![l] = u]
        /\ \/ u.items = <<>> /\ u.at = "next"
           \/ u.items = r /\ u.backfilled = loop[l].backfilled /\ u.at = "calculate"
  <2>1. CASE r = <<>>
    <3>1. loop' = [loop EXCEPT ![l] = [Idle EXCEPT !.at = "next"]]
      BY <1>4, <2>1 DEF Write, Answer
    <3> QED
      BY <3>1, AnswerEntry
  <2>2. CASE r # <<>>
    <3>1. loop' = [loop EXCEPT ![l].at = "calculate", ![l].items = r]
      BY <1>4, <2>2 DEF Write
    <3>2. PICK v : v = [loop[l] EXCEPT !.at = "calculate"]
      OBVIOUS
    <3>3. v \in Entries /\ v.at = "calculate" /\ v.backfilled = loop[l].backfilled
      BY <1>3, <3>2 DEF Entries
    <3>4. PICK w : w = [v EXCEPT !.items = r]
      OBVIOUS
    <3>5. w \in Entries /\ w.at = "calculate" /\ w.backfilled = loop[l].backfilled /\ w.items = r
      BY <1>5, <3>3, <3>4 DEF Entries
    <3>6. loop' = [loop EXCEPT ![l] = w]
      BY <1>3, <3>1, <3>2, <3>4
    <3> QED
      BY <3>5, <3>6
  <2> QED
    BY <2>1, <2>2
<1>7. loop'[l] = u /\ \A m \in Loops : m # l => loop'[m] = Idle
  BY <1>3, <1>6
<1>8. /\ UNCHANGED <<prev, rejects, sends, chunkSize, queue, persisting, gaps>>
      /\ stored' \in [Events -> {"none", "outlier", "event"}]
      /\ InGraph \subseteq InGraph'
  BY <1>2 DEF Written
<1>9. Tables' /\ StateMatches' /\ BackwardExact' /\ Tips' /\ Closed' /\ ForwardLast'
  <2>1. \A e, f \in sends' \cap InGraph' : e = f
    BY <1>0, <1>2, WrittenSends
  <2>2. Tables'
    BY <1>2, <2>1, WrittenTables DEF Tables
  <2>3. StateMatches'
    BY <1>2 DEF Written, StateMatches
  <2> QED
    BY <1>2, <2>2, <2>3, WrittenBackward, WrittenTips, WrittenClosed, WrittenLast
<1>10. Types'
  <2>1. InGraph' \subseteq Events /\ Stored' \subseteq Events
    BY DEF InGraph, Stored
  <2>2. /\ rejections' \in SUBSET Events /\ softFailed' \in SUBSET Events
        /\ edges' \in SUBSET Events /\ forward' \in SUBSET Events
    BY <1>9, <2>1 DEF Tables
  <2>3. live' \in SUBSET Events
    <3>1. Accepted(c) \subseteq Events
      BY <1>0, <1>2, ChunkSets DEF Written
    <3> QED
      BY <1>0, <1>2, <3>1 DEF Written, Types
  <2>4. astray' \in BOOLEAN
    BY <1>2 DEF Written
  <2>5. loop' \in [Loops -> Entries]
    BY <1>3, <1>6
  <2> QED
    BY <1>0, <1>8, <2>2, <2>3, <2>4, <2>5 DEF Types
<1>11. OneLoop'
  BY <1>3, <1>7, <1>8 DEF OneLoop
<1>12. TasksOk'
  <2>1. /\ Shape(loop[l])
        /\ ~gaps => ReadyIn(loop[l], prev, InGraph)
        /\ \A a \in DOMAIN queue : Apart(loop[l], queue[a])
        /\ QueueOk(queue, prev, InGraph, ~gaps)
    BY <1>0 DEF TasksOk
  <2>2. \A k \in DOMAIN c : k \in DOMAIN loop[l].items /\ c[k] = loop[l].items[k]
    BY <1>2 DEF Written
  <2>3. ASSUME ~gaps, NEW a \in DOMAIN queue
        PROVE  ReadyIn(queue[a], prev', InGraph')
    <3>1. Shape(queue[a]) /\ ReadyIn(queue[a], prev, InGraph) /\ Apart(loop[l], queue[a])
      BY <2>1, <2>3 DEF QueueOk
    <3>2. ~queue[a].backfilled /\ ~loop[l].backfilled =>
            \A k \in DOMAIN queue[a].items : \A j \in DOMAIN c : queue[a].items[k].event # c[j].event
      BY <2>2, <3>1 DEF Apart
    <3>3. PICK t : t = queue[a]
      OBVIOUS
    <3> QED
      BY <1>2, <2>3, <3>1, <3>2, <3>3, WrittenReady
  <2>4. QueueOk(queue', prev', InGraph', ~gaps')
    BY <1>8, <2>1, <2>3 DEF QueueOk
  <2>5. /\ Shape(u)
        /\ ~gaps => ReadyIn(u, prev', InGraph')
        /\ \A a \in DOMAIN queue : Apart(u, queue[a])
    <3>1. CASE u.items = <<>>
      BY <3>1, EmptyTask
    <3>2. CASE u.items = r /\ u.backfilled = loop[l].backfilled
      <4>1. /\ Shape(u) /\ (~gaps => ReadyIn(u, prev, InGraph))
            /\ \A a \in DOMAIN queue : Apart(u, queue[a])
        BY <1>5, <2>1, <3>2, WithinShape, WithinReady, WithinApart
      <4>2. ASSUME ~u.backfilled, NEW k \in DOMAIN u.items, NEW j \in DOMAIN c
            PROVE  u.items[k].event # c[j].event
        <5>1. PICK i \in DOMAIN loop[l].items : u.items[k] = loop[l].items[i] /\ i \notin DOMAIN c
          BY <1>5, <3>2
        <5>2. j \in DOMAIN loop[l].items /\ c[j] = loop[l].items[j] /\ i # j
          BY <2>2, <5>1
        <5> QED
          BY <2>1, <3>2, <4>2, <5>1, <5>2 DEF Shape
      <4>3. ~gaps => ReadyIn(u, prev', InGraph')
        BY <1>2, <4>1, <4>2, WrittenReady
      <4> QED
        BY <4>1, <4>3
    <3> QED
      BY <1>6, <3>1, <3>2
  <2>6. ASSUME NEW m \in Loops
        PROVE  /\ Shape(loop'[m])
               /\ ~gaps' => ReadyIn(loop'[m], prev', InGraph')
               /\ \A a \in DOMAIN queue' : Apart(loop'[m], queue'[a])
    <3>1. CASE m = l
      BY <1>7, <1>8, <2>5, <3>1
    <3>2. CASE m # l
      BY <1>7, <3>2, IdleEntry, EmptyTask
    <3> QED
      BY <3>1, <3>2
  <2> QED
    BY <2>4, <2>6 DEF TasksOk
<1>13. LoopsOk'
  <2>1. LoopOk(l)'
    <3>1. CASE u.at = "next"
      BY <1>7, <3>1, NothingToWrite
    <3>2. CASE u.items = r /\ u.at = "calculate"
      <4>1. SentOnce(r, sends', InGraph')
        BY <1>0, <1>2, <1>5, WrittenSends
      <4> QED
        BY <1>7, <3>2, <4>1 DEF LoopOk
    <3> QED
      BY <1>6, <3>1, <3>2
  <2>2. ASSUME NEW m \in Loops, m # l
        PROVE  LoopOk(m)'
    BY <1>7, <2>2, IdleEntry, NothingToWrite
  <2> QED
    BY <2>1, <2>2 DEF LoopsOk
<1> QED
  BY <1>9, <1>10, <1>11, <1>12, <1>13 DEF IInv
------------------------------------------------------------------------------
(* The theorems *)

LEMMA InitInv == Init => IInv
<1> SUFFICES ASSUME Init PROVE IInv
  OBVIOUS
<1>1. /\ prev \in Graphs /\ sends \in Sends /\ chunkSize \in ChunkSizes
      /\ Known \subseteq Events /\ rejects \subseteq Events \ Known /\ sends \cap Known = {}
      /\ \A e \in Known : prev[e] = {}
  BY RoomAssumption DEF Init
<1>2. InGraph = Known /\ Stored = Known
  BY <1>1 DEF Init, InGraph, Stored
<1>3. Types
  <2>1. queue \in Seq(Entries) /\ loop \in [Loops -> Entries]
    BY IdleEntry DEF Init
  <2> QED
    BY <1>1, <2>1 DEF Init, Types
<1>4. \A l \in Loops : loop[l] = Idle
  BY DEF Init
<1>5. OneLoop /\ LoopsOk
  BY <1>4, IdleEntry DEF OneLoop, LoopsOk, LoopOk
<1>6. TasksOk
  BY <1>4, IdleEntry, EmptyTask DEF Init, TasksOk, QueueOk
<1>7. Tables
  BY <1>1, <1>2 DEF Init, Tables
<1>8. StateMatches /\ Closed
  BY <1>1, <1>2 DEF Init, StateMatches, Closed
<1>9. BackwardExact
  BY <1>1, <1>2 DEF Init, BackwardExact, Following, HavePrev
<1>10. Tips
  BY <1>2 DEF Init, Tips, Covered, Good
<1>11. ForwardLast
  <2>1. \A e \in Known : Before[e] = {}
    <3> SUFFICES ASSUME NEW e \in Known
                 PROVE  Before[e] \subseteq {}
      OBVIOUS
    <3>1. e \in Events /\ prev[e] \subseteq {}
      BY <1>1
    <3> QED
      BY <1>1, <3>1, BeforeClosed
  <2> QED
    BY <1>2, <2>1 DEF Init, ForwardLast
<1> QED
  BY <1>3, <1>5, <1>6, <1>7, <1>8, <1>9, <1>10, <1>11 DEF IInv

(* Every step keeps the invariant. *)
LEMMA NextInv == IInv /\ [Next]_vars => IInv'
<1> SUFFICES ASSUME IInv, [Next]_vars PROVE IInv'
  OBVIOUS
<1>1. CASE Submit
  BY <1>1, SubmitNewInv, SubmitLocalInv, SubmitBackfilledInv, SubmitOutlierInv,
     SubmitStateUpdateInv DEF Submit
<1>2. CASE \E l \in Loops : LoopStep(l) \/ WriteFails(l)
  BY <1>2, NextItemInv, CheckReplacedInv, CalculateInv, WriteInv, CalculateStateInv,
     WriteStateInv, WriteFailsInv DEF LoopStep
<1>3. CASE Restart
  BY <1>3, RestartInv
<1>4. CASE UNCHANGED vars
  <2>1. /\ UNCHANGED <<world, tables>> /\ UNCHANGED <<prev, rejects, sends, chunkSize>>
        /\ UNCHANGED tables
        /\ UNCHANGED <<queue, persisting, loop, live, gaps, astray>>
    BY <1>4 DEF vars, world, history
  <2>2. InGraph' = InGraph /\ TablesInv'
    BY <2>1, SameTables DEF IInv, TablesInv
  <2>3. Types' /\ OneLoop' /\ TasksOk'
    BY <2>1, <2>2 DEF IInv, Types, OneLoop, TasksOk, tables
  <2>4. LoopsOk'
    BY <2>1, SameLoop DEF IInv, LoopsOk
  <2> QED
    BY <2>2, <2>3, <2>4 DEF IInv, TablesInv
<1> QED
  BY <1>1, <1>2, <1>3, <1>4 DEF Next

(* The invariant holds in every state that can be reached. *)
LEMMA InvHolds == Spec => []IInv
BY InitInv, NextInv, PTL DEF Spec
(* No branch of the room is forgotten: whatever the server accepted as new  *)
(* is at or before a forward extremity (_calculate_new_extremities), for    *)
(* any graph and any order of calls, unless the database came to hold an    *)
(* accepted event that no extremity follows.                                *)
THEOREM BranchesKept == Spec => []TipsKept
<1>1. IInv => TipsKept
  BY DEF IInv, Tips, Covered, TipsKept
<1> QED
  BY <1>1, InvHolds, PTL

(* While events arrive in order and none is rejected, no extremity comes    *)
(* before another, past any number of events that soft-failed               *)
(* (_get_prevs_before_rejected).                                            *)
THEOREM ExtremitiesAreLast == Spec => []NoDangling
<1>1. IInv => NoDangling
  <2> SUFFICES ASSUME IInv, ~gaps, ~astray, rejections = {}, NEW e \in forward, NEW f \in forward
               PROVE  e \notin Before[f]
    BY DEF NoDangling
  <2>1. f \in InGraph \ softFailed
    BY DEF IInv, Tables, ForwardLast
  <2> QED
    BY <2>1 DEF IInv, ForwardLast
<1> QED
  BY <1>1, InvHolds, PTL

(* Of the events a client makes with one transaction ID, one is persisted   *)
(* at most (get_already_persisted_events: "Checking here isn't racey").     *)
THEOREM TransactionsPersistOnce == Spec => []OncePerTransaction
<1>1. IInv => OncePerTransaction
  <2> SUFFICES ASSUME IInv
               PROVE  Cardinality(sends \cap InGraph) <= 1
    BY DEF OncePerTransaction
  <2>1. \A e, f \in sends \cap InGraph : e = f
    BY DEF IInv, Tables
  <2>2. CASE sends \cap InGraph = {}
    BY <2>2, FS_EmptySet
  <2>3. ASSUME NEW e \in sends \cap InGraph
        PROVE  Cardinality(sends \cap InGraph) <= 1
    <3>1. sends \cap InGraph = {e}
      BY <2>1
    <3> QED
      BY <3>1, FS_Singleton
  <2> QED
    BY <2>2, <2>3
<1> QED
  BY <1>1, InvHolds, PTL

(* The current state is that of the current extremities ("we are only       *)
(* persisting events for one room at a time").                              *)
THEOREM StateFollowsExtremities == Spec => []StateMatches
<1>1. IInv => StateMatches
  BY DEF IInv
<1> QED
  BY <1>1, InvHolds, PTL

(* The backward extremities are the missing events that an event of the     *)
(* graph follows (_update_backward_extremeties), apart from rejected ones   *)
(* and from events without prev events.                                     *)
THEOREM BackwardExtremitiesExact == Spec => []BackwardExact
<1>1. IInv => BackwardExact
  BY DEF IInv
<1> QED
  BY <1>1, InvHolds, PTL
------------------------------------------------------------------------------
(* The calls that wait *)

(* n calls wait for the tasks of q. *)
Total(q, n) ==
    \E f \in [0 .. Len(q) -> Int] :
      /\ f[0] = 0 /\ f[Len(q)] = n
      /\ \A k \in 1 .. Len(q) : f[k] = f[k - 1] + q[k].calls

(* No tasks, no calls. *)
LEMMA TotalEmpty == Total(<<>>, 0)
<1>1. PICK f : f = [k \in 0 .. 0 |-> 0]
  OBVIOUS
<1>2. f \in [0 .. Len(<<>>) -> Int] /\ f[0] = 0 /\ f[Len(<<>>)] = 0
  BY <1>1
<1>3. \A k \in 1 .. Len(<<>>) : f[k] = f[k - 1] + <<>>[k].calls
  OBVIOUS
<1> QED
  BY <1>2, <1>3 DEF Total

(* What is known of the entries of a queue. *)
LEMMA EntriesOf ==
    ASSUME NEW q \in Seq(Entries)
    PROVE  /\ Len(q) \in Nat /\ DOMAIN q = 1 .. Len(q)
           /\ q # <<>> => Len(q) >= 1
           /\ \A k \in 1 .. Len(q) : q[k] \in Entries /\ q[k].calls \in Nat
<1>1. Len(q) \in Nat /\ DOMAIN q = 1 .. Len(q) /\ (q # <<>> => Len(q) >= 1)
  OBVIOUS
<1>2. \A k \in 1 .. Len(q) : q[k] \in Entries
  OBVIOUS
<1>3. \A t \in Entries : t.calls \in Nat
  BY DEF Entries
<1> QED
  BY <1>1, <1>2, <1>3

(* The calls of a queue are a natural number. *)
LEMMA TotalNat ==
    ASSUME NEW q \in Seq(Entries), NEW n, Total(q, n)
    PROVE  n \in Nat
<1>0. Len(q) \in Nat /\ \A k \in 1 .. Len(q) : q[k].calls \in Nat
  BY EntriesOf
<1>1. PICK f \in [0 .. Len(q) -> Int] :
        /\ f[0] = 0 /\ f[Len(q)] = n
        /\ \A k \in 1 .. Len(q) : f[k] = f[k - 1] + q[k].calls
  BY DEF Total
<1> DEFINE N == {k \in 0 .. Len(q) : f[k] \notin Nat}
<1>2. N = {}
  <2>1. SUFFICES ASSUME N # {} PROVE FALSE
    OBVIOUS
  <2>2. N \subseteq Nat
    BY <1>0
  <2>3. PICK k \in N : \A j \in N : k <= j
    <3> HIDE DEF N
    <3> QED
      BY <2>1, <2>2, LeastElement, Zenon
  <2>4. k # 0 /\ k \in 1 .. Len(q) /\ k - 1 \in 0 .. Len(q) /\ k - 1 < k
    BY <1>0, <1>1
  <2>5. k - 1 \notin N
    BY <2>2, <2>3, <2>4
  <2>6. f[k - 1] \in Nat
    BY <2>4, <2>5
  <2> QED
    BY <1>0, <1>1, <2>4, <2>6
<1> QED
  BY <1>0, <1>1, <1>2

(* A task brings its own calls, merged or not. *)
LEMMA TotalLonger ==
    ASSUME NEW q \in Seq(Entries), NEW t \in Entries, NEW n, Total(q, n)
    PROVE  Total(Longer(q, t), n + t.calls)
<1>0. Len(q) \in Nat /\ DOMAIN q = 1 .. Len(q) /\ t.calls \in Nat /\ n \in Nat
  <2>1. \A u \in Entries : u.calls \in Nat
    BY DEF Entries
  <2> QED
    BY <2>1, TotalNat, EntriesOf
<1>1. PICK f \in [0 .. Len(q) -> Int] :
        /\ f[0] = 0 /\ f[Len(q)] = n
        /\ \A k \in 1 .. Len(q) : f[k] = f[k - 1] + q[k].calls
  BY DEF Total
<1>2. CASE q # <<>> /\ Merges(Last(q), t)
  <2>1. PICK m : m = Len(q)
    OBVIOUS
  <2>2. m \in 1 .. Len(q) /\ m \in Nat /\ q[m] \in Entries /\ m - 1 \in 0 .. Len(q) /\ m # m - 1
    <3>1. m \in Nat /\ m >= 1
      BY <1>2, <2>1, EntriesOf
    <3>2. m \in 1 .. Len(q) /\ m - 1 \in 0 .. Len(q) /\ m # m - 1
      BY <2>1, <3>1
    <3> QED
      BY <3>1, <3>2, EntriesOf
  <2>3. PICK v : v = Merged(q[m], t)
    OBVIOUS
  <2>4. v.calls = q[m].calls + t.calls /\ q[m].calls \in Nat
    BY <2>2, <2>3 DEF Merged, Entries
  <2>5. Longer(q, t) = [q EXCEPT ![m] = v]
    BY <1>2, <2>1, <2>3, Zenon DEF Longer
  <2>6. PICK r : r = Longer(q, t)
    OBVIOUS
  <2>7. Len(r) = Len(q) /\ \A k \in 1 .. Len(q) : r[k] = IF k = m THEN v ELSE q[k]
    BY <1>0, <2>2, <2>5, <2>6
  <2>8. PICK g : g = [f EXCEPT ![m] = n + t.calls]
    OBVIOUS
  <2>9. /\ g \in [0 .. Len(q) -> Int] /\ g[m] = n + t.calls
        /\ \A k \in 0 .. Len(q) : k # m => g[k] = f[k]
    BY <1>0, <2>2, <2>8
  <2>10. g[0] = 0
    BY <1>1, <2>2, <2>9
  <2>11. ASSUME NEW k \in 1 .. Len(q)
         PROVE  g[k] = g[k - 1] + r[k].calls
    <3>1. k \in Nat /\ k - 1 \in 0 .. Len(q) /\ k \in 0 .. Len(q) /\ k - 1 # m
      BY <1>0, <2>1
    <3>2. f[k] = f[k - 1] + q[k].calls /\ g[k - 1] = f[k - 1] /\ f[k - 1] \in Int
      BY <1>1, <2>9, <3>1
    <3>3. CASE k = m
      <4>1. g[k] = n + t.calls /\ f[k] = n /\ r[k] = v /\ n = f[k - 1] + q[m].calls
        BY <1>1, <2>1, <2>7, <2>9, <3>2, <3>3
      <4>2. \A a, b, d, e \in Int : a = b + d => a + e = b + (d + e)
        OBVIOUS
      <4> QED
        BY <1>0, <2>4, <3>2, <4>1, <4>2
    <3>4. CASE k # m
      BY <2>7, <2>9, <3>1, <3>2, <3>4
    <3> QED
      BY <3>3, <3>4
  <2> QED
    BY <2>1, <2>6, <2>7, <2>9, <2>10, <2>11 DEF Total
<1>3. CASE ~(q # <<>> /\ Merges(Last(q), t))
  <2>1. PICK r : r = Append(q, t)
    OBVIOUS
  <2>2. r = Longer(q, t)
    BY <1>3, <2>1, Zenon DEF Longer
  <2>3. PICK m : m = Len(q) + 1
    OBVIOUS
  <2>4. /\ Len(r) = m /\ m \in Nat /\ r[m] = t
        /\ \A k \in 1 .. Len(q) : r[k] = q[k]
    BY <1>0, <2>1, <2>3
  <2>5. PICK g : g = [k \in 0 .. m |-> IF k = m THEN n + t.calls ELSE f[k]]
    OBVIOUS
  <2>6. \A k \in 0 .. m : k # m => k \in 0 .. Len(q)
    BY <1>0, <2>3
  <2>7. g \in [0 .. m -> Int] /\ g[0] = 0 /\ g[m] = n + t.calls
    BY <1>0, <1>1, <2>3, <2>4, <2>5, <2>6
  <2>8. ASSUME NEW k \in 1 .. m
        PROVE  g[k] = g[k - 1] + r[k].calls
    <3>1. k - 1 \in 0 .. m /\ k \in 0 .. m /\ k - 1 # m /\ k \in Nat
      BY <2>4
    <3>2. g[k - 1] = f[k - 1]
      BY <2>5, <3>1
    <3>3. CASE k = m
      <4>1. k - 1 = Len(q)
        BY <1>0, <2>3, <3>3
      <4> QED
        BY <1>1, <2>4, <2>7, <3>2, <3>3, <4>1
    <3>4. CASE k # m
      <4>1. k \in 1 .. Len(q)
        BY <1>0, <2>3, <3>1, <3>4
      <4>2. g[k] = f[k]
        BY <2>5, <3>1, <3>4
      <4> QED
        BY <1>1, <2>4, <3>2, <4>1, <4>2
    <3> QED
      BY <3>3, <3>4
  <2> QED
    BY <2>2, <2>4, <2>7, <2>8 DEF Total
<1> QED
  BY <1>2, <1>3

(* The first task takes its calls along. *)
LEMMA TotalTail ==
    ASSUME NEW q \in Seq(Entries), q # <<>>, NEW n, Total(q, n)
    PROVE  Total(Tail(q), n - Head(q).calls)
<1>0. /\ Len(q) \in Nat /\ Len(q) >= 1 /\ n \in Nat
      /\ q[1].calls \in Nat /\ Head(q) = q[1] /\ 1 \in 1 .. Len(q)
  <2>1. Len(q) \in Nat /\ Len(q) >= 1 /\ 1 \in 1 .. Len(q) /\ Head(q) = q[1] /\ q[1] \in Entries
    OBVIOUS
  <2> QED
    BY <2>1, TotalNat DEF Entries
<1>1. PICK f \in [0 .. Len(q) -> Int] :
        /\ f[0] = 0 /\ f[Len(q)] = n
        /\ \A k \in 1 .. Len(q) : f[k] = f[k - 1] + q[k].calls
  BY DEF Total
<1>2. PICK r : r = Tail(q)
  OBVIOUS
<1>3. PICK m : m = Len(q) - 1
  OBVIOUS
<1>4. m \in Nat /\ Len(r) = m /\ m + 1 = Len(q)
  BY <1>0, <1>2, <1>3
<1>5. \A k \in 1 .. m : r[k] = q[k + 1]
  BY <1>0, <1>2, <1>3
<1>6. PICK h : h = q[1].calls
  OBVIOUS
<1>7. PICK g : g = [k \in 0 .. m |-> f[k + 1] - h]
  OBVIOUS
<1>8. \A k \in 0 .. m : k + 1 \in 0 .. Len(q) /\ k + 1 \in 1 .. Len(q)
  BY <1>4
<1>9. g \in [0 .. m -> Int]
  BY <1>0, <1>6, <1>7, <1>8
<1>10. f[1] = h
  BY <1>0, <1>1, <1>6
<1>11. g[0] = 0 /\ g[m] = n - h
  BY <1>0, <1>1, <1>4, <1>6, <1>7, <1>10
<1>12. ASSUME NEW k \in 1 .. m
       PROVE  g[k] = g[k - 1] + r[k].calls
  <2>1. k \in 0 .. m /\ k - 1 \in 0 .. m /\ k + 1 \in 1 .. Len(q) /\ k \in 0 .. Len(q) /\ k \in Nat
    BY <1>4
  <2>2. f[k + 1] = f[k + 1 - 1] + q[k + 1].calls
    BY <1>1, <2>1
  <2>3. k + 1 - 1 = k /\ k - 1 + 1 = k /\ f[k] \in Int /\ q[k + 1].calls \in Nat
    BY <1>1, <2>1, EntriesOf
  <2>4. g[k] = f[k + 1] - h /\ g[k - 1] = f[k] - h
    BY <1>7, <2>1, <2>3
  <2> QED
    BY <1>0, <1>5, <1>6, <2>2, <2>3, <2>4
<1> QED
  BY <1>0, <1>2, <1>4, <1>6, <1>9, <1>11, <1>12 DEF Total
(* Everyone who waits, waits for a task that is in the queue or in the loop *)
(* that runs; nobody is counted twice.                                      *)
Waiting == \E n : Total(queue, n) /\ waiting = n + (loop[1].calls + loop[2].calls)

(* The second invariant: every call that waits is counted in a task, and a queue has its loop. *)
CallsInv ==
    /\ rejects \subseteq Events /\ backward \subseteq Events
    /\ persisting => \E l \in Loops : loop[l] # Idle
    /\ ~persisting => queue = <<>>
    /\ submitted \in 0 .. MaxSubmitted /\ faults \in 0 .. MaxFaults
    /\ waiting <= submitted
    /\ \A l \in Loops : loop[l].at = "next" => loop[l].calls = 0
    /\ Waiting

(* The loop that runs has all the calls of the loops. *)
LEMMA LoopCalls ==
    ASSUME NEW f \in [Loops -> Entries], NEW l \in Loops, \A m \in Loops : m # l => f[m] = Idle
    PROVE  f[1].calls + f[2].calls = f[l].calls /\ f[l].calls \in Nat
<1>1. Idle.calls = 0
  BY DEF Idle
<1>2. \A m \in Loops : f[m].calls \in Nat
  BY DEF Entries
<1>3. 1 \in Loops /\ 2 \in Loops /\ (l = 1 \/ l = 2)
  BY DEF Loops
<1>4. CASE l = 1
  BY <1>1, <1>2, <1>3, <1>4
<1>5. CASE l = 2
  BY <1>1, <1>2, <1>3, <1>5
<1> QED
  BY <1>2, <1>3, <1>4, <1>5

(* A step of the loop keeps its task, or answers. *)
LEMMA LoopCounted ==
    ASSUME IInv, CallsInv, NEW l \in Loops, loop[l].at # "idle", NEW u \in Entries, u.at # "idle",
           u.at = "next" => u.calls = 0,
           loop' = [loop EXCEPT ![l] = u], UNCHANGED <<queue, persisting, submitted, rejects>>,
           backward' \subseteq Events, faults' \in 0 .. MaxFaults,
           \/ u.calls = loop[l].calls /\ waiting' = waiting
           \/ u.calls = 0 /\ waiting' = waiting - loop[l].calls
    PROVE  CallsInv'
<1>1. /\ loop \in [Loops -> Entries] /\ loop[l] \in Entries
      /\ \A m \in Loops : m # l => loop[m] = Idle
  BY OtherLoops
<1>2. /\ loop' \in [Loops -> Entries] /\ loop'[l] = u
      /\ \A m \in Loops : m # l => loop'[m] = Idle
  BY <1>1
<1>3. loop[1].calls + loop[2].calls = loop[l].calls /\ loop[l].calls \in Nat
  BY <1>1, LoopCalls
<1>4. PICK g : g = loop'
  OBVIOUS
<1>5. g[1].calls + g[2].calls = g[l].calls /\ g[l].calls \in Nat
  BY <1>2, <1>4, LoopCalls
<1>6. PICK n : Total(queue, n) /\ waiting = n + (loop[1].calls + loop[2].calls)
  BY DEF CallsInv, Waiting
<1>7. n \in Nat
  BY <1>6, TotalNat DEF IInv, Types
<1>8. waiting' = n + (loop'[1].calls + loop'[2].calls)
  BY <1>2, <1>3, <1>4, <1>5, <1>6, <1>7
<1>9. Waiting'
  BY <1>6, <1>8 DEF Waiting
<1>10. waiting' <= submitted'
  <2>1. waiting \in Int /\ submitted \in Int /\ waiting <= submitted /\ waiting' <= waiting
    BY <1>3, <1>6, <1>7, RoomAssumption DEF CallsInv
  <2>2. waiting' \in Int
    BY <1>3, <2>1
  <2> QED
    BY <2>1, <2>2
<1>11. /\ loop'[l] # Idle
       /\ \A m \in Loops : loop'[m].at = "next" => loop'[m].calls = 0
  BY <1>2, IdleEntry
<1> QED
  BY <1>9, <1>10, <1>11 DEF CallsInv

(* A task that ends takes its calls from those that wait. *)
LEMMA AnswerCounted ==
    ASSUME IInv, CallsInv, NEW l \in Loops, loop[l].at # "idle", Answer(l),
           UNCHANGED <<queue, persisting, submitted, rejects>>,
           backward' \subseteq Events, faults' \in 0 .. MaxFaults
    PROVE  CallsInv'
<1>1. PICK u : u = [Idle EXCEPT !.at = "next"]
  OBVIOUS
<1>2. u \in Entries /\ u.at = "next"
  BY <1>1, AnswerEntry
<1>3. u.calls = 0
  BY <1>1 DEF Idle
<1>4. loop' = [loop EXCEPT ![l] = u] /\ waiting' = waiting - loop[l].calls
  BY <1>1 DEF Answer
<1> QED
  BY <1>2, <1>3, <1>4, LoopCounted

(* A step that moves the loop on with its task. *)
LEMMA MoveCounted ==
    ASSUME IInv, CallsInv, NEW l \in Loops, loop[l].at # "idle", waiting' = waiting,
           \/ \E a \in {"calculate", "write", "state"} : \E s \in Seq(Items) :
                loop' = [loop EXCEPT ![l].at = a, ![l].items = s]
           \/ \E a \in {"calculate", "write", "state"} : \E x \in SUBSET Events :
                loop' = [loop EXCEPT ![l].at = a, ![l].extremities = x],
           UNCHANGED <<queue, persisting, submitted, rejects>>,
           backward' \subseteq Events, faults' \in 0 .. MaxFaults
    PROVE  CallsInv'
<1>1. loop \in [Loops -> Entries] /\ loop[l] \in Entries
  BY OtherLoops
<1>2. ASSUME NEW a \in {"calculate", "write", "state"}
      PROVE  LET v == [loop[l] EXCEPT !.at = a]
             IN  v \in Entries /\ v.at = a /\ v.calls = loop[l].calls
  BY <1>1 DEF Entries
<1>3. ASSUME NEW a \in {"calculate", "write", "state"}, NEW s \in Seq(Items),
             loop' = [loop EXCEPT ![l].at = a, ![l].items = s]
      PROVE  CallsInv'
  <2>1. PICK v : v = [loop[l] EXCEPT !.at = a]
    OBVIOUS
  <2>2. v \in Entries /\ v.at = a /\ v.calls = loop[l].calls
    BY <1>2, <2>1
  <2>3. PICK u : u = [v EXCEPT !.items = s]
    OBVIOUS
  <2>4. u \in Entries /\ u.at = a /\ u.calls = loop[l].calls
    BY <2>2, <2>3 DEF Entries
  <2>5. loop' = [loop EXCEPT ![l] = u]
    BY <1>1, <1>3, <2>1, <2>3
  <2> QED
    BY <2>4, <2>5, LoopCounted
<1>4. ASSUME NEW a \in {"calculate", "write", "state"}, NEW x \in SUBSET Events,
             loop' = [loop EXCEPT ![l].at = a, ![l].extremities = x]
      PROVE  CallsInv'
  <2>1. PICK v : v = [loop[l] EXCEPT !.at = a]
    OBVIOUS
  <2>2. v \in Entries /\ v.at = a /\ v.calls = loop[l].calls
    BY <1>2, <2>1
  <2>3. PICK u : u = [v EXCEPT !.extremities = x]
    OBVIOUS
  <2>4. u \in Entries /\ u.at = a /\ u.calls = loop[l].calls
    BY <2>2, <2>3 DEF Entries
  <2>5. loop' = [loop EXCEPT ![l] = u]
    BY <1>1, <1>4, <2>1, <2>3
  <2> QED
    BY <2>4, <2>5, LoopCounted
<1> QED
  BY <1>3, <1>4

(* The check for a used transaction ID answers or goes on. *)
LEMMA CheckReplacedCounted ==
    ASSUME IInv, CallsInv, NEW l \in Loops, CheckReplaced(l)
    PROVE  CallsInv'
<1>1. /\ loop[l].at = "check" /\ UNCHANGED <<queue, persisting, submitted, rejects, backward, faults>>
  BY DEF CheckReplaced, world, tables
<1>2. backward' \subseteq Events /\ faults' \in 0 .. MaxFaults
  BY <1>1 DEF CallsInv
<1>3. PICK s : s = Kept(loop[l].items)
  OBVIOUS
<1>4. s \in Seq(Items)
  BY <1>1, <1>3, OtherLoops, KeptIs
<1>5. \/ Answer(l)
      \/ waiting' = waiting /\ loop' = [loop EXCEPT ![l].at = "calculate", ![l].items = s]
  BY <1>3 DEF CheckReplaced
<1>6. CASE Answer(l)
  BY <1>1, <1>2, <1>6, AnswerCounted
<1>7. CASE waiting' = waiting /\ loop' = [loop EXCEPT ![l].at = "calculate", ![l].items = s]
  BY <1>1, <1>2, <1>4, <1>7, MoveCounted
<1> QED
  BY <1>5, <1>6, <1>7

(* Working out the extremities answers no call. *)
LEMMA CalculateCounted ==
    ASSUME IInv, CallsInv, NEW l \in Loops, Calculate(l)
    PROVE  CallsInv'
<1>1. /\ loop[l].at = "calculate"
      /\ UNCHANGED <<queue, persisting, submitted, rejects, backward, faults>>
  BY DEF Calculate, world, tables
<1>2. backward' \subseteq Events /\ faults' \in 0 .. MaxFaults
  BY <1>1 DEF CallsInv
<1>3. PICK new : new = NewExtremities(Chunk(l))
  OBVIOUS
<1>4. new \in SUBSET Events /\ {} \in SUBSET Events
  <2>1. PICK c : c = Chunk(l)
    OBVIOUS
  <2>2. c \in Seq(Items) /\ Types
    BY <1>1, <2>1, ChunkIs DEF IInv
  <2>3. Accepted(c) \subseteq Events
    BY <2>2, ChunkSets
  <2> QED
    BY <1>3, <2>1, <2>2, <2>3 DEF NewExtremities, Types
<1>5. \/ Answer(l)
      \/ waiting' = waiting /\ loop' = [loop EXCEPT ![l].at = "write", ![l].extremities = {}]
      \/ waiting' = waiting /\ loop' = [loop EXCEPT ![l].at = "write", ![l].extremities = new]
  BY <1>3 DEF Calculate
<1>6. CASE Answer(l)
  BY <1>1, <1>2, <1>6, AnswerCounted
<1>7. ASSUME NEW x \in SUBSET Events, waiting' = waiting,
             loop' = [loop EXCEPT ![l].at = "write", ![l].extremities = x]
      PROVE  CallsInv'
  BY <1>1, <1>2, <1>7, MoveCounted
<1> QED
  BY <1>4, <1>5, <1>6, <1>7

(* The last chunk of a task answers its calls; the others answer none. *)
LEMMA WriteCounted ==
    ASSUME IInv, CallsInv, NEW l \in Loops, Write(l)
    PROVE  CallsInv'
<1>1. /\ loop[l].at = "write" /\ UNCHANGED <<queue, persisting, submitted, rejects, faults>>
  BY DEF Write, world
<1>2. faults' \in 0 .. MaxFaults
  BY <1>1 DEF CallsInv
<1>3. backward' \subseteq Events
  <2>1. PICK c : c = Chunk(l)
    OBVIOUS
  <2>2. c \in Seq(Items) /\ Types /\ backward' = Backward(c)
    BY <2>1, WriteIs DEF Written, IInv
  <2>3. \A X : X \subseteq Events => Following(X) \subseteq Events
    BY <2>2, PrevBelow DEF Types, Following
  <2>4. ExOutliers(c) \subseteq Events /\ (Fresh(c) \cap Inside(c)) \ rejects \subseteq Events
    BY <2>2, ChunkSets
  <2>5. Following(ExOutliers(c)) \subseteq Events /\ Following((Fresh(c) \cap Inside(c)) \ rejects) \subseteq Events
    BY <2>3, <2>4
  <2> QED
    BY <2>2, <2>5 DEF Backward, CallsInv
<1>4. Rest(l) \in Seq(Items)
  BY <1>1, ChunkIs
<1>5. \/ Answer(l)
      \/ waiting' = waiting /\ loop' = [loop EXCEPT ![l].at = "calculate", ![l].items = Rest(l)]
  BY DEF Write
<1>6. CASE Answer(l)
  BY <1>1, <1>2, <1>3, <1>6, AnswerCounted
<1>7. CASE waiting' = waiting /\ loop' = [loop EXCEPT ![l].at = "calculate", ![l].items = Rest(l)]
  BY <1>1, <1>2, <1>3, <1>4, <1>7, MoveCounted
<1> QED
  BY <1>5, <1>6, <1>7

(* A failure is counted up to its bound. *)
LEMMA FaultCounted ==
    ASSUME CallsInv, Fault
    PROVE  faults' \in 0 .. MaxFaults
BY RoomAssumption DEF CallsInv, Fault

(* A failed transaction answers with an error, and so does a state update that ends. *)
LEMMA OtherLoopStepsCounted ==
    ASSUME IInv, CallsInv, NEW l \in Loops, WriteFails(l) \/ CalculateState(l) \/ WriteState(l)
    PROVE  CallsInv'
<1>1. CASE WriteFails(l)
  <2>1. /\ loop[l].at = "write" /\ Answer(l) /\ Fault
        /\ UNCHANGED <<queue, persisting, submitted, rejects, backward>>
    BY <1>1 DEF WriteFails, world, tables
  <2>2. backward' \subseteq Events /\ faults' \in 0 .. MaxFaults
    BY <2>1, FaultCounted DEF CallsInv
  <2> QED
    BY <2>1, <2>2, AnswerCounted
<1>2. CASE CalculateState(l)
  <2>1. /\ loop[l].at = "check" /\ waiting' = waiting
        /\ loop' = [loop EXCEPT ![l].at = "state", ![l].extremities = forward]
        /\ UNCHANGED <<queue, persisting, submitted, rejects, backward, faults>>
    BY <1>2 DEF CalculateState, world, tables
  <2>2. backward' \subseteq Events /\ faults' \in 0 .. MaxFaults /\ forward \in SUBSET Events
    BY <2>1 DEF CallsInv, IInv, Types
  <2> QED
    BY <2>1, <2>2, MoveCounted
<1>3. CASE WriteState(l)
  <2>1. /\ loop[l].at = "state" /\ Answer(l)
        /\ UNCHANGED <<queue, persisting, submitted, rejects, backward, faults>>
    BY <1>3 DEF WriteState, world
  <2>2. backward' \subseteq Events /\ faults' \in 0 .. MaxFaults
    BY <2>1 DEF CallsInv
  <2> QED
    BY <2>1, <2>2, AnswerCounted
<1> QED
  BY <1>1, <1>2, <1>3

(* The loop takes the next task with its calls, or ends when there is none. *)
LEMMA NextItemCounted ==
    ASSUME IInv, CallsInv, NEW l \in Loops, NextItem(l)
    PROVE  CallsInv'
<1>1. /\ loop[l].at = "next"
      /\ UNCHANGED <<waiting, submitted, rejects, backward, faults>>
  BY DEF NextItem, world, tables
<1>2. /\ persisting /\ loop \in [Loops -> Entries]
      /\ \A m \in Loops : m # l => loop[m] = Idle
  BY <1>1, OtherLoops
<1>3. loop[1].calls + loop[2].calls = 0
  BY <1>1, <1>2, LoopCalls DEF CallsInv
<1>4. queue \in Seq(Entries)
  BY DEF IInv, Types
<1>5. PICK n : Total(queue, n) /\ waiting = n
  <2>1. PICK n : Total(queue, n) /\ waiting = n + (loop[1].calls + loop[2].calls)
    BY DEF CallsInv, Waiting
  <2>2. n \in Nat
    BY <1>4, <2>1, TotalNat
  <2> QED
    BY <1>3, <2>1, <2>2
<1>6. n \in Nat
  BY <1>4, <1>5, TotalNat
<1>7. CASE queue = <<>>
  <2>1. persisting' = FALSE /\ loop' = [loop EXCEPT ![l] = Idle] /\ queue' = queue
    BY <1>7 DEF NextItem
  <2>2. \A m \in Loops : loop'[m] = Idle
    BY <1>2, <2>1
  <2>3. loop'[1].calls + loop'[2].calls = 0
    BY <2>2 DEF Loops, Idle
  <2>4. Waiting'
    BY <1>1, <1>5, <1>6, <2>1, <2>3 DEF Waiting
  <2>5. \A m \in Loops : loop'[m].at # "next"
    BY <2>2, IdleEntry
  <2> QED
    BY <1>1, <1>7, <2>1, <2>4, <2>5 DEF CallsInv
<1>8. CASE queue # <<>>
  <2>1. PICK h : h = Head(queue)
    OBVIOUS
  <2>2. h \in Entries
    BY <1>4, <1>8, <2>1
  <2>3. PICK u : u = [h EXCEPT !.at = "check"]
    OBVIOUS
  <2>4. u \in Entries /\ u.calls = h.calls /\ u.at = "check" /\ h.calls \in Nat
    BY <2>2, <2>3 DEF Entries
  <2>5. loop' = [loop EXCEPT ![l] = u] /\ queue' = Tail(queue) /\ persisting' = persisting
    BY <1>8, <2>1, <2>3 DEF NextItem
  <2>6. /\ loop' \in [Loops -> Entries] /\ loop'[l] = u
        /\ \A m \in Loops : m # l => loop'[m] = Idle
    BY <1>2, <2>4, <2>5
  <2>7. PICK g : g = loop'
    OBVIOUS
  <2>8. g[1].calls + g[2].calls = h.calls
    BY <2>4, <2>6, <2>7, LoopCalls
  <2>9. Total(queue', n - h.calls)
    BY <1>4, <1>5, <1>8, <2>1, <2>5, TotalTail
  <2>10. waiting' = (n - h.calls) + (loop'[1].calls + loop'[2].calls)
    BY <1>1, <1>5, <1>6, <2>4, <2>7, <2>8
  <2>11. Waiting'
    BY <2>9, <2>10 DEF Waiting
  <2>12. /\ \A m \in Loops : loop'[m].at # "next"
         /\ loop'[l] # Idle
    BY <2>4, <2>6, IdleEntry
  <2> QED
    BY <1>1, <1>2, <2>5, <2>11, <2>12 DEF CallsInv
<1> QED
  BY <1>7, <1>8

(* A restart forgets the calls with the queue. *)
LEMMA RestartCounted ==
    ASSUME CallsInv, Restart
    PROVE  CallsInv'
<1>1. /\ UNCHANGED <<submitted, rejects, backward>> /\ Fault
      /\ queue' = <<>> /\ persisting' = FALSE /\ waiting' = 0
      /\ loop' = [l \in Loops |-> Idle]
  BY DEF Restart, world, tables
<1>2. \A m \in Loops : loop'[m] = Idle
  BY <1>1
<1>3. loop'[1].calls + loop'[2].calls = 0
  BY <1>2 DEF Loops, Idle
<1>4. Waiting'
  BY <1>1, <1>3, TotalEmpty DEF Waiting
<1>5. \A m \in Loops : loop'[m].at # "next"
  BY <1>2, IdleEntry
<1>6. waiting' <= submitted'
  BY <1>1, RoomAssumption DEF CallsInv
<1>7. faults' \in 0 .. MaxFaults
  BY <1>1, FaultCounted
<1> QED
  BY <1>1, <1>4, <1>5, <1>6, <1>7 DEF CallsInv

(* A call is counted with its task. *)
LEMMA SubmitCounted ==
    ASSUME IInv, CallsInv, NEW t \in Entries, t.calls = 1, AddToQueue(t),
           UNCHANGED <<rejects, backward, faults>>
    PROVE  CallsInv'
<1>0. /\ queue \in Seq(Entries) /\ loop \in [Loops -> Entries] /\ persisting \in BOOLEAN
      /\ waiting' = waiting + 1 /\ submitted' = submitted + 1 /\ submitted < MaxSubmitted
  BY DEF IInv, Types, AddToQueue
<1>1. PICK n : Total(queue, n) /\ waiting = n + (loop[1].calls + loop[2].calls)
  BY DEF CallsInv, Waiting
<1>2. PICK r : r = Longer(queue, t)
  OBVIOUS
<1>3. Total(r, n + 1)
  BY <1>0, <1>1, <1>2, TotalLonger
<1>4. n \in Nat /\ loop[1].calls \in Nat /\ loop[2].calls \in Nat
  <2>1. n \in Nat
    BY <1>0, <1>1, TotalNat
  <2>2. \A u \in Entries : u.calls \in Nat
    BY DEF Entries
  <2>3. loop[1] \in Entries /\ loop[2] \in Entries
    BY <1>0 DEF Loops
  <2> QED
    BY <2>1, <2>2, <2>3
<1>5. submitted' \in 0 .. MaxSubmitted /\ waiting' <= submitted'
  BY <1>0, <1>1, <1>4, RoomAssumption DEF CallsInv
<1>6. IF ~persisting
        THEN LET l == CHOOSE k \in Loops : loop[k] = Idle
             IN  /\ loop' = [loop EXCEPT ![l] = [Head(r) EXCEPT !.at = "check"]]
                 /\ queue' = Tail(r)
                 /\ persisting' = TRUE
        ELSE queue' = r /\ UNCHANGED <<loop, persisting>>
  BY <1>2 DEF AddToQueue, MayStart, Longer
<1>7. CASE persisting
  <2>1. queue' = r /\ loop' = loop /\ persisting' = persisting
    BY <1>6, <1>7
  <2>2. waiting' = (n + 1) + (loop'[1].calls + loop'[2].calls)
    BY <1>0, <1>1, <1>4, <2>1
  <2>3. Waiting'
    BY <1>3, <2>1, <2>2 DEF Waiting
  <2> QED
    BY <1>5, <1>7, <2>1, <2>3 DEF CallsInv
<1>8. CASE ~persisting
  <2>1. queue = <<>> /\ \A k \in Loops : loop[k] = Idle
    BY <1>8 DEF CallsInv, IInv, OneLoop
  <2>2. r = <<t>>
    BY <1>2, <2>1 DEF Longer
  <2>3. Head(r) = t /\ Tail(r) = <<>>
    BY <2>2
  <2>4. PICK l \in Loops : /\ loop' = [loop EXCEPT ![l] = [t EXCEPT !.at = "check"]]
                           /\ queue' = <<>>
                           /\ persisting' = TRUE
    <3>1. \E k \in Loops : loop[k] = Idle
      BY <2>1 DEF Loops
    <3> QED
      BY <1>6, <1>8, <2>3, <3>1
  <2>5. PICK u : u = [t EXCEPT !.at = "check"]
    OBVIOUS
  <2>6. u \in Entries /\ u.calls = 1 /\ u.at = "check"
    BY <2>5 DEF Entries
  <2>7. /\ loop' \in [Loops -> Entries] /\ loop'[l] = u
        /\ \A m \in Loops : m # l => loop'[m] = Idle
    BY <1>0, <2>1, <2>4, <2>5, <2>6
  <2>8. PICK g : g = loop'
    OBVIOUS
  <2>9. g[1].calls + g[2].calls = 1
    BY <2>6, <2>7, <2>8, LoopCalls
  <2>10. waiting = 0
    <3>1. n = 0
      BY <1>1, <2>1 DEF Total
    <3>2. loop[1].calls = 0 /\ loop[2].calls = 0
      BY <2>1 DEF Loops, Idle
    <3> QED
      BY <1>1, <3>1, <3>2
  <2>11. waiting' = 0 + (loop'[1].calls + loop'[2].calls)
    BY <1>0, <2>8, <2>9, <2>10
  <2>12. Waiting'
    BY <2>4, <2>11, TotalEmpty DEF Waiting
  <2>13. /\ \A m \in Loops : loop'[m].at # "next"
         /\ loop'[l] # Idle
    BY <2>6, <2>7, IdleEntry
  <2> QED
    BY <1>5, <2>4, <2>12, <2>13 DEF CallsInv
<1> QED
  BY <1>0, <1>7, <1>8

(* A call that is made is counted in the task that it adds or that it is merged into. *)
LEMMA SubmitActionsCounted ==
    ASSUME IInv, CallsInv, Submit
    PROVE  CallsInv'
<1>1. ASSUME NEW i \in Items, NEW bf \in BOOLEAN
      PROVE  Persist(i, bf) \in Entries /\ Persist(i, bf).calls = 1
  BY <1>1, PersistEntry DEF Persist, Idle
<1>2. ASSUME NEW e \in Events, NEW soft \in BOOLEAN, NEW a \in {"new", "backfilled", "outlier"}
      PROVE  [event |-> e, as |-> a, soft |-> soft] \in Items
  BY DEF Items
<1>3. ASSUME NEW e \in Events, NEW soft \in BOOLEAN, SubmitNew(e, soft)
      PROVE  CallsInv'
  <2>1. PICK i : i = [event |-> e, as |-> "new", soft |-> soft]
    OBVIOUS
  <2>2. i \in Items /\ AddToQueue(Persist(i, FALSE)) /\ UNCHANGED <<rejects, backward, faults>>
    BY <1>2, <1>3, <2>1 DEF SubmitNew, world, tables
  <2> QED
    BY <1>1, <2>2, SubmitCounted
<1>4. ASSUME NEW e \in Events, SubmitLocal(e)
      PROVE  CallsInv'
  <2>1. PICK i : i = [event |-> e, as |-> "new", soft |-> FALSE]
    OBVIOUS
  <2>2. i \in Items /\ AddToQueue(Persist(i, FALSE)) /\ UNCHANGED <<rejects, backward, faults>>
    BY <1>2, <1>4, <2>1 DEF SubmitLocal, world, tables
  <2> QED
    BY <1>1, <2>2, SubmitCounted
<1>5. ASSUME NEW e \in Events, SubmitBackfilled(e)
      PROVE  CallsInv'
  <2>1. PICK i : i = [event |-> e, as |-> "backfilled", soft |-> FALSE]
    OBVIOUS
  <2>2. i \in Items /\ AddToQueue(Persist(i, TRUE)) /\ UNCHANGED <<rejects, backward, faults>>
    BY <1>2, <1>5, <2>1 DEF SubmitBackfilled, world, tables
  <2> QED
    BY <1>1, <2>2, SubmitCounted
<1>6. ASSUME NEW e \in Events, SubmitOutlier(e)
      PROVE  CallsInv'
  <2>1. PICK i : i = [event |-> e, as |-> "outlier", soft |-> FALSE]
    OBVIOUS
  <2>2. i \in Items /\ AddToQueue(Persist(i, TRUE)) /\ UNCHANGED <<rejects, backward, faults>>
    BY <1>2, <1>6, <2>1 DEF SubmitOutlier, world, tables
  <2> QED
    BY <1>1, <2>2, SubmitCounted
<1>7. ASSUME SubmitStateUpdate
      PROVE  CallsInv'
  <2>1. PICK t : t = [Idle EXCEPT !.task = "state", !.calls = 1]
    OBVIOUS
  <2>2. PICK v : v = [Idle EXCEPT !.task = "state"]
    OBVIOUS
  <2>3. v \in Entries
    BY <2>2, IdleEntry DEF Entries
  <2>4. t = [v EXCEPT !.calls = 1]
    BY <2>1, <2>2
  <2>5. t \in Entries /\ t.calls = 1
    BY <2>3, <2>4 DEF Entries
  <2>6. AddToQueue(t) /\ UNCHANGED <<rejects, backward, faults>>
    BY <1>7, <2>1 DEF SubmitStateUpdate, world, tables
  <2> QED
    BY <2>5, <2>6, SubmitCounted
<1> QED
  BY <1>3, <1>4, <1>5, <1>6, <1>7 DEF Submit

(* At the start no call waits. *)
LEMMA InitCounted == Init => CallsInv
<1> SUFFICES ASSUME Init PROVE CallsInv
  OBVIOUS
<1>1. \A m \in Loops : loop[m] = Idle
  BY DEF Init
<1>2. loop[1].calls + loop[2].calls = 0 /\ \A m \in Loops : loop[m].at # "next"
  BY <1>1, IdleEntry DEF Loops, Idle
<1>3. Waiting
  BY <1>2, TotalEmpty DEF Waiting, Init
<1> QED
  BY <1>2, <1>3, RoomAssumption DEF CallsInv, Init

(* Every step keeps the second invariant. *)
LEMMA NextCounted == IInv /\ CallsInv /\ [Next]_vars => CallsInv'
<1> SUFFICES ASSUME IInv, CallsInv, [Next]_vars PROVE CallsInv'
  OBVIOUS
<1>1. CASE Submit
  BY <1>1, SubmitActionsCounted
<1>2. CASE \E l \in Loops : LoopStep(l) \/ WriteFails(l)
  BY <1>2, NextItemCounted, CheckReplacedCounted, CalculateCounted, WriteCounted,
     OtherLoopStepsCounted DEF LoopStep
<1>3. CASE Restart
  BY <1>3, RestartCounted
<1>4. CASE UNCHANGED vars
  <2>1. UNCHANGED <<rejects, backward, persisting, queue, loop, submitted, waiting, faults>>
    BY <1>4 DEF vars, world, tables
  <2> QED
    BY <2>1 DEF CallsInv, Waiting
<1> QED
  BY <1>1, <1>2, <1>3, <1>4 DEF Next

(* A call that waits has a loop that runs for it, however it was merged and *)
(* whenever the loop ended: the end of handle_queue_loop does not miss a    *)
(* task that was just added.                                                *)
Served == waiting > 0 => persisting

(* Types; no call is answered twice, and none waits without a loop. *)
THEOREM CallsAreServed == Spec => [](TypeOK /\ Served)
<1>1. IInv /\ CallsInv => TypeOK /\ Served
  <2> SUFFICES ASSUME IInv, CallsInv
               PROVE  TypeOK /\ Served
    OBVIOUS
  <2>0. Types
    BY DEF IInv
  <2>1. PICK n : Total(queue, n) /\ waiting = n + (loop[1].calls + loop[2].calls)
    BY DEF CallsInv, Waiting
  <2>2. n \in Nat
    BY <2>0, <2>1, TotalNat DEF Types
  <2>3. \A l \in Loops : loop[l] \in Entries
    BY <2>0 DEF Types
  <2>4. loop[1].calls \in Nat /\ loop[2].calls \in Nat
    <3>1. \A u \in Entries : u.calls \in Nat
      BY DEF Entries
    <3> QED
      BY <2>3, <3>1 DEF Loops
  <2>5. waiting \in 0 .. submitted
    BY <2>1, <2>2, <2>4, RoomAssumption DEF CallsInv
  <2>6. Served
    <3> SUFFICES ASSUME ~persisting
                 PROVE  waiting = 0
      BY <2>5, <2>0 DEF Served, Types
    <3>1. queue = <<>> /\ \A k \in Loops : loop[k] = Idle
      BY DEF CallsInv, IInv, OneLoop
    <3>2. n = 0
      BY <2>1, <3>1 DEF Total
    <3>3. loop[1].calls = 0 /\ loop[2].calls = 0
      BY <3>1 DEF Loops, Idle
    <3> QED
      BY <2>1, <3>2, <3>3
  <2>7. prev \in [Events -> SUBSET Events]
    BY <2>0, RoomAssumption DEF Types
  <2>8. stateAt \subseteq Events
    BY <2>0 DEF Types, IInv, StateMatches
  <2>9. persisting <=> \E l \in Loops : loop[l] # Idle
    BY <2>0 DEF CallsInv, IInv, OneLoop, Types
  <2>10. \A l \in Loops : /\ loop[l].at \in {"idle", "check", "calculate", "write", "state", "next"}
                          /\ loop[l].extremities \subseteq Events
    BY <2>3 DEF Entries
  <2>11. TypeOK
    BY <2>0, <2>5, <2>7, <2>8, <2>9, <2>10 DEF TypeOK, Types, CallsInv
  <2> QED
    BY <2>6, <2>11
<1> QED
  BY <1>1, InvHolds, InitCounted, NextCounted, PTL DEF Spec

====
