-------------------- MODULE MultiWriterIdGenerator_proofs --------------------
(***************************************************************************)
(* Type correctness and the safety of the tokens of MultiWriterIdGenerator *)
(* for any number of writers, threads, IDs, failures and restarts.         *)
(***************************************************************************)
EXTENDS MultiWriterIdGenerator, TLAPS, WellFoundedInduction

--------------------------------------------------------------------------------
(***************************************************************************)
(* The inductive invariant.                                                *)
(***************************************************************************)

(* Generator records all of whose positions are at most B. *)
GenUpTo(B) ==
    [ positions     : [Writers -> 0 .. B],
      unfinished    : SUBSET (0 .. B),
      inFlight      : SUBSET (Threads \X (0 .. B)),
      finished      : SUBSET (0 .. B),
      persistedUpto : 0 .. B,
      known         : SUBSET (0 .. B),
      maxSeen       : 0 .. B,
      maxLocal      : 0 .. B ]

(* Every value in the system was handed out by the sequence. *)
Allocated ==
    /\ seq \in Nat
    /\ rows \subseteq Writers \X (0 .. seq)
    /\ table \in [Writers -> 0 .. seq]
    /\ gen \in [Instances -> GenUpTo(seq)]
    /\ pc \in [Threads -> PcValues]
    /\ want \in [Threads -> Nat]
    /\ ids \in [Threads -> SUBSET (1 .. seq)]
    /\ pos \in [Threads -> 0 .. seq]
    /\ announced \subseteq Writers \X (0 .. seq)
    /\ orderly \in BOOLEAN
    /\ failures \in 0 .. MaxFailures
    /\ restarts \in 0 .. MaxRestarts
    /\ FirstPosition <= seq

(* A thread that may register or finish IDs has some, an idle one none. *)
HasIds ==
    \A t \in Threads :
        /\ pc[t] \in {"idle", "updating", "upserting"} => ids[t] = {}
        /\ pc[t] \in {"registered", "running", "committed", "aborted"} => ids[t] # {}
        /\ pc[t] = "fetching" => want[t] > 0 \/ ids[t] # {}

(* No ID is drawn twice, and no row has a pending one. *)
IdsDisjoint ==
    /\ \A t, u \in Threads : t # u => ids[t] \cap ids[u] = {}
    /\ \A r \in rows : \A t \in Threads : r[2] \notin Pending(t)

(* What the generator of a thread's process knows of the thread. *)
ThreadKnown ==
    \A t \in Threads :
        /\ pc[t] \in {"fetching", "registered"} =>
            \E m \in 0 .. seq : /\ <<t, m>> \in gen[HomeOf[t]].inFlight
                                /\ \A p \in ids[t] : m < p
        /\ pc[t] \in {"registered", "running"} => ids[t] \subseteq gen[HomeOf[t]].unfinished

PendingOf == [t \in Threads |-> Pending(t)]

(* Every pending ID of process i is accounted for in its generator. *)
Covered(g, i, P) ==
    \A t \in Threads : \A p \in P[t] :
        HomeOf[t] = i => p \in g.unfinished \/ \E f \in g.inFlight : f[2] < p

(* A position that writer w may claim to be at. *)
Claim(w, x, P) ==
    \A t \in Threads : \A p \in P[t] : x # p /\ (HomeOf[t] = w => x < p)

(* Generator g of process i has not gone past a pending ID. *)
SafeGen(g, i, P) ==
    /\ \A w \in Writers : Claim(w, g.positions[w], P)
    /\ Claim(i, g.maxLocal, P)
    /\ \A t \in Threads : \A p \in P[t] :
        /\ g.persistedUpto < p
        /\ p \notin g.known
        /\ p \notin g.finished
        /\ HomeOf[t] # i => g.maxSeen # p /\ p \notin g.unfinished

ClaimsSafe ==
    /\ \A w \in Writers : Claim(w, table[w], PendingOf)
    /\ \A a \in announced : Claim(a[1], a[2], PendingOf)
    /\ \A t \in Threads : Claim(HomeOf[t], pos[t], PendingOf)

Safe == orderly => ClaimsSafe /\ \A i \in Instances : SafeGen(gen[i], i, PendingOf)

Struct == Allocated /\ HasIds /\ IdsDisjoint /\ ThreadKnown

IInv == Struct /\ Safe

--------------------------------------------------------------------------------
(***************************************************************************)
(* Extrema of bounded sets.                                                *)
(***************************************************************************)

NatLess == {ss \in Nat \X Nat : ss[1] < ss[2]}

(* The usual order of the naturals, as a relation, is well-founded. *)
LEMMA NatLessWellFounded == IsWellFoundedOn(NatLess, Nat)
<1>1. OpToRel(<, Nat) = NatLess
  BY Zenon DEF OpToRel, NatLess
<1>2. QED
  BY <1>1, NatLessThanWellFounded, Zenon

(* Min is the least element of a non-empty set of naturals. *)
LEMMA MinProps ==
    ASSUME NEW S, S \subseteq Nat, S # {}
    PROVE  Min(S) \in S /\ \A y \in S : Min(S) <= y
<1>1. PICK x \in S : \A y \in S : ~(<<y, x>> \in NatLess)
  BY NatLessWellFounded, WFMin, Zenon
<1>2. \A y \in S : x <= y
  <2>1. \A y, z \in Nat : y < z => <<y, z>> \in NatLess
    BY DEF NatLess
  <2>2. \A y \in S : ~(y < x)
    BY <1>1, <2>1
  <2> QED
    BY <2>2
<1>3. QED
  BY <1>2 DEF Min

(* Max is the largest element of a non-empty bounded set of naturals. *)
LEMMA MaxProps ==
    ASSUME NEW B \in Nat, NEW S, S \subseteq 0 .. B, S # {}
    PROVE  Max(S) \in S /\ \A y \in S : y <= Max(S)
<1> DEFINE T == {B - x : x \in S}
<1>1. T \subseteq Nat /\ T # {}
  <2>1. \A x \in S : x \in 0 .. B /\ B - x \in Nat
    OBVIOUS
  <2>2. PICK x \in S : TRUE
    OBVIOUS
  <2>3. B - x \in T
    OBVIOUS
  <2> QED
    BY <2>1, <2>3
<1>2. PICK m \in T : \A y \in T : m <= y
  BY <1>1, MinProps
<1>3. PICK x \in S : m = B - x
  OBVIOUS
<1>4. \A y \in S : y <= x
  BY <1>2, <1>3
<1>5. QED
  BY <1>4 DEF Max

(* SkipForward stops somewhere, and passes only known positions. *)
LEMMA SkipForwardProps ==
    ASSUME NEW B \in Nat, NEW known, known \subseteq 0 .. B, NEW upto \in 0 .. B
    PROVE  /\ SkipForward(known, upto) \in 0 .. B
           /\ SkipForward(known, upto) >= upto
           /\ (upto + 1) .. SkipForward(known, upto) \subseteq known
<1> DEFINE T == {m \in Nat : m >= upto /\ m + 1 \notin known}
<1>1. B \in T
  OBVIOUS
<1>2. PICK n \in T : \A m \in T : n <= m
  <2>1. T \subseteq Nat /\ T # {}
    BY <1>1
  <2> QED
    BY <2>1, MinProps
<1>3. (upto + 1) .. n \subseteq known
  <2> SUFFICES ASSUME NEW k \in (upto + 1) .. n, k \notin known
               PROVE  FALSE
    OBVIOUS
  <2>1. k - 1 \in T
    OBVIOUS
  <2> QED
    BY <2>1, <1>2
<1>4. n \in {upto} \cup known
  BY <1>3
<1>5. \E k \in {upto} \cup known :
        k >= upto /\ (upto + 1) .. k \subseteq known /\ k + 1 \notin known
  BY <1>3, <1>4
<1>6. QED
  BY <1>5 DEF SkipForward

(* MinCurr is a position and never above a counted one. *)
LEMMA MinCurrProps ==
    ASSUME NEW B \in Nat, NEW g \in GenUpTo(B), NEW self
    PROVE  /\ MinCurr(g, self) \in 0 .. B
           /\ \A w \in Writers : w # self \/ ~NothingInProgress(g)
                                    => MinCurr(g, self) <= g.positions[w]
<1> DEFINE others == Writers \ {self}
           counted == IF NothingInProgress(g) /\ others # {} THEN others ELSE Writers
           S == {g.positions[w] : w \in counted}
<1>1. counted # {} /\ counted \subseteq Writers
  BY WritersAssumption
<1>2. g.positions \in [Writers -> 0 .. B]
  BY DEF GenUpTo
<1>3. S # {} /\ S \subseteq 0 .. B /\ S \subseteq Nat
  BY <1>1, <1>2
<1>4. Min(S) \in S /\ \A y \in S : Min(S) <= y
  BY <1>3, MinProps
<1>5. \A w \in Writers : w # self \/ ~NothingInProgress(g) => w \in counted
  OBVIOUS
<1>6. MinCurr(g, self) = Min(S)
  BY DEF MinCurr
<1>7. \A w \in counted : Min(S) <= g.positions[w]
  BY <1>4
<1>8. QED
  BY <1>3, <1>4, <1>5, <1>6, <1>7

--------------------------------------------------------------------------------
(***************************************************************************)
(* Operators on one generator: they stay within what was allocated, move   *)
(* tokens forward only, and keep a safe generator safe.                    *)
(***************************************************************************)

(* Where the persisted-up-to position starts to skip forward from. *)
Base(g, self) == Larger(MinCurr(g, self), g.persistedUpto)

(* Record h is g after recording the positions `new` as persisted. *)
Recorded(g, h, self, new, B) ==
    LET base == Base(g, self)
    IN  /\ base \in 0 .. B
        /\ h \in GenUpTo(B)
        /\ h.positions = g.positions /\ h.unfinished = g.unfinished
        /\ h.inFlight = g.inFlight /\ h.finished = g.finished
        /\ h.maxSeen = g.maxSeen
        /\ base <= h.persistedUpto
        /\ (base + 1) .. h.persistedUpto \subseteq g.known \cup new
        /\ h.known \subseteq g.known \cup new
        /\ h.maxLocal \in {g.maxLocal, base, g.maxSeen}
        /\ g.maxLocal <= h.maxLocal
        /\ h.maxLocal \in {g.maxLocal, base} \/ NothingInProgress(g)

(* The fields AddPersistedPosition leaves alone and those it sets. *)
LEMMA AddPersistedFields ==
    ASSUME NEW B \in Nat, NEW g \in GenUpTo(B), NEW self, NEW new, new \subseteq 0 .. B
    PROVE  Recorded(g, AddPersistedPosition(g, self, new), self, new, B)
<1> DEFINE h == AddPersistedPosition(g, self, new)
           base == Base(g, self)
           known == g.known \cup new
           upto == SkipForward(known, base)
           reached == Larger(g.maxLocal, base)
           top == IF NothingInProgress(g) THEN Larger(g.maxSeen, reached) ELSE reached
<1>1. /\ g.persistedUpto \in 0 .. B /\ g.known \subseteq 0 .. B
      /\ g.maxLocal \in 0 .. B /\ g.maxSeen \in 0 .. B
  BY DEF GenUpTo
<1>2. base \in 0 .. B
  BY <1>1, MinCurrProps DEF Larger, Base
<1>3. upto \in 0 .. B /\ upto >= base /\ (base + 1) .. upto \subseteq known
  BY <1>1, <1>2, SkipForwardProps
<1>4. /\ top \in 0 .. B /\ top \in {g.maxLocal, base, g.maxSeen} /\ g.maxLocal <= top
      /\ top \in {g.maxLocal, base} \/ NothingInProgress(g)
  BY <1>1, <1>2 DEF Larger
<1>5. h = [g EXCEPT !.persistedUpto = upto, !.known = {k \in known : k > upto},
                    !.maxLocal = top]
  BY DEF AddPersistedPosition, Base
<1>6. /\ h.positions = g.positions /\ h.unfinished = g.unfinished
      /\ h.inFlight = g.inFlight /\ h.finished = g.finished
      /\ h.maxSeen = g.maxSeen
      /\ h.persistedUpto = upto /\ h.known = {k \in known : k > upto} /\ h.maxLocal = top
  <2> HIDE DEF known, upto, top, h
  <2> QED
    BY <1>5 DEF GenUpTo
<1>7. h \in GenUpTo(B)
  <2>1. {k \in known : k > upto} \in SUBSET (0 .. B)
    BY <1>1
  <2> HIDE DEF known, upto, top, h
  <2> QED
    BY <1>3, <1>4, <1>5, <2>1 DEF GenUpTo
<1>8. QED
  <2> HIDE DEF upto, top, h, base
  <2>1. base = Base(g, self) /\ h = AddPersistedPosition(g, self, new)
    BY DEF base, h
  <2> QED
    BY <1>2, <1>3, <1>4, <1>6, <1>7, <2>1 DEF Recorded

(* A position that nobody holds pending may be recorded as persisted. *)
LEMMA AddPersistedSafe ==
    ASSUME NEW B \in Nat, NEW g \in GenUpTo(B), NEW self, NEW new, new \subseteq 0 .. B,
           NEW P \in [Threads -> SUBSET Nat],
           SafeGen(g, self, P), Covered(g, self, P),
           \A t \in Threads : new \cap P[t] = {},
           NEW h, h = AddPersistedPosition(g, self, new)
    PROVE  SafeGen(h, self, P) /\ Covered(h, self, P)
<1> DEFINE base == Base(g, self)
<1>1. Recorded(g, h, self, new, B)
  BY AddPersistedFields
<1>2. ASSUME NEW t \in Threads, NEW p \in P[t]
      PROVE  base < p
  <2>1. p \in Nat /\ HomeOf[t] \in Writers /\ g.persistedUpto < p
        /\ g.positions[HomeOf[t]] < p
    BY HomeAssumption DEF SafeGen, Claim
  <2>2. HomeOf[t] = self => ~NothingInProgress(g)
    BY DEF Covered, NothingInProgress
  <2>3. MinCurr(g, self) \in 0 .. B /\ MinCurr(g, self) <= g.positions[HomeOf[t]]
    BY <2>1, <2>2, MinCurrProps
  <2>4. g.positions[HomeOf[t]] \in Nat /\ g.persistedUpto \in Nat
    BY <2>1 DEF GenUpTo
  <2> QED
    BY <2>1, <2>3, <2>4 DEF Larger, Base
<1>3. ASSUME NEW t \in Threads, NEW p \in P[t]
      PROVE  /\ h.persistedUpto < p
             /\ p \notin h.known
             /\ h.maxLocal # p
             /\ HomeOf[t] = self => h.maxLocal < p
  <2>1. p \in Nat /\ base < p /\ base \in Nat
    BY <1>1, <1>2 DEF Recorded
  <2>2. p \notin g.known \cup new
    BY DEF SafeGen
  <2>3. h.persistedUpto \in Nat
    BY <1>1 DEF GenUpTo, Recorded
  <2>4. h.persistedUpto < p
    <3>1. h.persistedUpto >= p => p \in (base + 1) .. h.persistedUpto
      BY <2>1, <2>3
    <3> QED
      BY <1>1, <2>1, <2>2, <2>3, <3>1 DEF Recorded
  <2>5. HomeOf[t] = self => ~NothingInProgress(g)
    BY DEF Covered, NothingInProgress
  <2>6. g.maxLocal # p /\ (HomeOf[t] = self => g.maxLocal < p)
        /\ (HomeOf[t] # self => g.maxSeen # p)
    BY DEF SafeGen, Claim
  <2> QED
    BY <1>1, <2>1, <2>2, <2>4, <2>5, <2>6 DEF Recorded
<1>4. Covered(h, self, P)
  BY <1>1 DEF Covered, Recorded
<1>5. SafeGen(h, self, P)
  BY <1>1, <1>3 DEF SafeGen, Claim, Recorded
<1>6. QED
  BY <1>4, <1>5

(* No token of h is behind the one of g. *)
Forward(g, h) ==
    /\ g.persistedUpto <= h.persistedUpto
    /\ g.maxLocal <= h.maxLocal
    /\ \A w \in Writers : g.positions[w] <= h.positions[w]

(* Record h is g with only tokens and known positions moved. *)
Recording(g, h, B) ==
    /\ h \in GenUpTo(B)
    /\ Forward(g, h)
    /\ h.unfinished = g.unfinished /\ h.inFlight = g.inFlight
    /\ h.finished = g.finished

(* What is recorded one position at a time stays within the bounds. *)
LEMMA AddPersistedRecording ==
    ASSUME NEW B \in Nat, NEW g \in GenUpTo(B), NEW self, NEW new, new \subseteq 0 .. B
    PROVE  Recording(g, AddPersistedPosition(g, self, new), B)
<1> DEFINE h == AddPersistedPosition(g, self, new)
<1>1. Recorded(g, h, self, new, B)
  BY AddPersistedFields
<1> HIDE DEF h
<1>2. g.persistedUpto <= h.persistedUpto
  <2>1. g.persistedUpto \in Nat /\ MinCurr(g, self) \in Nat /\ h.persistedUpto \in Nat
    BY <1>1, MinCurrProps DEF GenUpTo, Recorded
  <2> QED
    BY <1>1, <2>1 DEF Recorded, Base, Larger
<1>3. \A w \in Writers : g.positions[w] <= h.positions[w]
  BY <1>1 DEF Recorded, GenUpTo
<1>4. Recording(g, h, B)
  BY <1>1, <1>2, <1>3 DEF Recorded, Recording, Forward
<1>5. QED
  BY <1>4 DEF h

(* Moving forward is transitive. *)
LEMMA RecordingTransitive ==
    ASSUME NEW B \in Nat, NEW f \in GenUpTo(B), NEW g, NEW h,
           Recording(f, g, B), Recording(g, h, B)
    PROVE  Recording(f, h, B)
<1>1. g \in GenUpTo(B) /\ h \in GenUpTo(B)
  BY DEF Recording
<1>2. \A x \in {f, g, h} : /\ x.persistedUpto \in Nat /\ x.maxLocal \in Nat
                           /\ \A w \in Writers : x.positions[w] \in Nat
  BY <1>1 DEF GenUpTo
<1>3. f.persistedUpto <= h.persistedUpto /\ f.maxLocal <= h.maxLocal
  BY <1>2 DEF Recording, Forward
<1>4. \A w \in Writers : f.positions[w] <= h.positions[w]
  BY <1>2 DEF Recording, Forward
<1>5. QED
  BY <1>3, <1>4 DEF Recording, Forward

(* The same for several positions. *)
LEMMA AddAllRecording ==
    ASSUME NEW B \in Nat, NEW g \in GenUpTo(B), NEW self,
           NEW new, new \subseteq 0 .. B, new # {}
    PROVE  Recording(g, AddPersistedPositions(g, self, new), B)
<1> DEFINE last == Max(new)
           h1 == AddPersistedPosition(g, self, new \ {last})
<1>1. last \in new
  BY MaxProps
<1>2. {last} \subseteq 0 .. B /\ new \ {last} \subseteq 0 .. B
  BY <1>1
<1>3. CASE new = {last}
  <2>1. AddPersistedPositions(g, self, new) = AddPersistedPosition(g, self, {last})
    BY <1>3 DEF AddPersistedPositions
  <2> QED
    BY <1>2, <2>1, AddPersistedRecording
<1>4. CASE new # {last}
  <2>1. AddPersistedPositions(g, self, new) = AddPersistedPosition(h1, self, {last})
    BY <1>4 DEF AddPersistedPositions
  <2>2. Recording(g, h1, B)
    BY <1>2, AddPersistedRecording
  <2> HIDE DEF h1
  <2>3. Recording(h1, AddPersistedPosition(h1, self, {last}), B)
    BY <1>2, <2>2, AddPersistedRecording DEF Recording
  <2> QED
    BY <2>1, <2>2, <2>3, RecordingTransitive
<1>5. QED
  BY <1>3, <1>4

(* Several positions that nobody holds pending may be recorded. *)
LEMMA AddAllSafe ==
    ASSUME NEW B \in Nat, NEW g \in GenUpTo(B), NEW self,
           NEW new, new \subseteq 0 .. B, new # {},
           NEW P \in [Threads -> SUBSET Nat],
           SafeGen(g, self, P), Covered(g, self, P),
           \A t \in Threads : new \cap P[t] = {}
    PROVE  SafeGen(AddPersistedPositions(g, self, new), self, P)
<1> DEFINE last == Max(new)
           h1 == AddPersistedPosition(g, self, new \ {last})
<1>1. last \in new
  BY MaxProps
<1>2. /\ {last} \subseteq 0 .. B /\ new \ {last} \subseteq 0 .. B
      /\ \A t \in Threads : {last} \cap P[t] = {} /\ (new \ {last}) \cap P[t] = {}
  BY <1>1
<1>3. CASE new = {last}
  <2>1. AddPersistedPositions(g, self, new) = AddPersistedPosition(g, self, {last})
    BY <1>3 DEF AddPersistedPositions
  <2> QED
    BY <1>2, <2>1, AddPersistedSafe
<1>4. CASE new # {last}
  <2>1. AddPersistedPositions(g, self, new) = AddPersistedPosition(h1, self, {last})
    BY <1>4 DEF AddPersistedPositions
  <2>2. h1 \in GenUpTo(B)
    BY <1>2, AddPersistedRecording DEF Recording
  <2>3. SafeGen(h1, self, P) /\ Covered(h1, self, P)
    BY <1>2, AddPersistedSafe
  <2> HIDE DEF h1
  <2> QED
    BY <1>2, <2>1, <2>2, <2>3, AddPersistedSafe
<1>5. QED
  BY <1>3, <1>4

(* Record h is g with the IDs `new` finished; c is a finished ID below all *)
(* that are unfinished, if there is one.                                   *)
Finished(g, h, self, new, c, B) ==
    /\ h \in GenUpTo(B)
    /\ h.unfinished = g.unfinished \ new
    /\ h.finished \subseteq g.finished \cup new
    /\ h.inFlight = g.inFlight /\ h.known = g.known
    /\ h.maxSeen = g.maxSeen /\ h.persistedUpto = g.persistedUpto
    /\ \/ h.positions = g.positions /\ h.maxLocal = g.maxLocal
       \/ /\ c \in g.finished \cup new
          /\ \A u \in UnfinishedFloor(h) : c < u
          /\ h.positions = [g.positions EXCEPT ![self] = Larger(g.positions[self], c)]
          /\ h.maxLocal = Larger(g.positions[self], Larger(c, g.maxLocal))

(* What MoveOwnPosition does to each field. *)
LEMMA MoveOwnPositionFields ==
    ASSUME NEW B \in Nat, NEW g \in GenUpTo(B), NEW self \in Writers,
           NEW new, new \subseteq 0 .. B
    PROVE  \E c \in 0 .. B : Finished(g, MoveOwnPosition(g, self, new), self, new, c, B)
<1> DEFINE g1 == [g EXCEPT !.unfinished = @ \ new, !.finished = @ \cup new]
           passed == Passable(g1)
           newCur == Max(passed)
           g2 == [g1 EXCEPT !.finished = @ \ passed,
                            !.positions[self] = Larger(@, newCur),
                            !.maxLocal = Larger(g1.positions[self], Larger(newCur, @))]
           h == MoveOwnPosition(g, self, new)
<1>1. /\ g1 \in GenUpTo(B)
      /\ g1.unfinished = g.unfinished \ new /\ g1.finished = g.finished \cup new
      /\ g1.inFlight = g.inFlight /\ g1.known = g.known /\ g1.maxSeen = g.maxSeen
      /\ g1.persistedUpto = g.persistedUpto /\ g1.positions = g.positions
      /\ g1.maxLocal = g.maxLocal
  BY DEF GenUpTo
<1> HIDE DEF g1
<1>2. passed \subseteq g1.finished /\ passed \subseteq 0 .. B
      /\ \A s \in passed : \A u \in UnfinishedFloor(g1) : s < u
  BY <1>1 DEF Passable, GenUpTo
<1>3. h = IF passed = {} THEN g1 ELSE g2
  BY DEF MoveOwnPosition, g1
<1>4. CASE passed = {}
  <2>1. Finished(g, h, self, new, 0, B)
    BY <1>1, <1>3, <1>4 DEF Finished
  <2> QED
    BY <2>1
<1>5. CASE passed # {}
  <2>1. newCur \in passed
    BY <1>2, <1>5, MaxProps
  <2> HIDE DEF newCur, passed
  <2>2. newCur \in 0 .. B /\ newCur \in g.finished \cup new
    BY <1>1, <1>2, <2>1
  <2>3. /\ g1.positions \in [Writers -> 0 .. B] /\ g1.maxLocal \in 0 .. B
        /\ g1.finished \in SUBSET (0 .. B)
    BY <1>1 DEF GenUpTo
  <2> DEFINE ps == [g1.positions EXCEPT ![self] = Larger(g1.positions[self], newCur)]
             ml == Larger(g1.positions[self], Larger(newCur, g1.maxLocal))
             fin == g1.finished \ passed
  <2>4. ps \in [Writers -> 0 .. B] /\ ml \in 0 .. B /\ fin \in SUBSET (0 .. B)
    BY <2>2, <2>3 DEF Larger
  <2>5. g2 = [g1 EXCEPT !.finished = fin, !.positions = ps, !.maxLocal = ml]
    BY <1>1 DEF GenUpTo
  <2> HIDE DEF g2, ps, ml, fin
  <2>6. /\ g2 \in GenUpTo(B)
        /\ g2.unfinished = g1.unfinished /\ g2.inFlight = g1.inFlight
        /\ g2.known = g1.known /\ g2.maxSeen = g1.maxSeen
        /\ g2.persistedUpto = g1.persistedUpto
        /\ g2.finished = fin /\ g2.positions = ps /\ g2.maxLocal = ml
    BY <1>1, <2>4, <2>5 DEF GenUpTo
  <2>7. UnfinishedFloor(g2) = UnfinishedFloor(g1)
    BY <2>6 DEF UnfinishedFloor
  <2>8. \A u \in UnfinishedFloor(g2) : newCur < u
    BY <1>2, <2>1, <2>7
  <2>9. h = g2
    BY <1>3, <1>5
  <2>10. Finished(g, g2, self, new, newCur, B)
    BY <1>1, <2>2, <2>6, <2>8 DEF Finished, ps, ml, fin
  <2> QED
    BY <2>2, <2>9, <2>10
<1>6. QED
  BY <1>4, <1>5

(* Finishing IDs stays within the bounds and moves tokens forward. *)
LEMMA MarkRecording ==
    ASSUME NEW B \in Nat, NEW g \in GenUpTo(B), NEW self \in Writers,
           NEW new, new \subseteq 0 .. B, new # {}
    PROVE  LET h == MarkIdsAsFinished(g, self, new)
           IN  /\ h \in GenUpTo(B) /\ Forward(g, h)
               /\ h.unfinished = g.unfinished \ new /\ h.inFlight = g.inFlight
<1> DEFINE h1 == MoveOwnPosition(g, self, new)
           h == AddPersistedPositions(h1, self, new)
<1>1. PICK c \in 0 .. B : Finished(g, h1, self, new, c, B)
  BY MoveOwnPositionFields
<1> HIDE DEF h1
<1>2. Recording(h1, h, B)
  BY <1>1, AddAllRecording DEF Finished
<1>3. /\ g.positions \in [Writers -> Nat] /\ g.maxLocal \in Nat
      /\ g.persistedUpto \in Nat
  BY DEF GenUpTo
<1>4. Forward(g, h1)
  BY <1>1, <1>3 DEF Finished, Forward, Larger
<1>5. h1 \in GenUpTo(B) /\ h \in GenUpTo(B)
  BY <1>1, <1>2 DEF Finished, Recording
<1> HIDE DEF h
<1>6. Forward(g, h)
  <2>1. \A x \in {h1, h} : /\ x.persistedUpto \in Nat /\ x.maxLocal \in Nat
                           /\ \A w \in Writers : x.positions[w] \in Nat
    BY <1>5 DEF GenUpTo
  <2>2. g.persistedUpto <= h.persistedUpto /\ g.maxLocal <= h.maxLocal
    BY <1>2, <1>3, <1>4, <2>1 DEF Recording, Forward
  <2>3. \A w \in Writers : g.positions[w] <= h.positions[w]
    BY <1>2, <1>3, <1>4, <2>1 DEF Recording, Forward
  <2> QED
    BY <2>2, <2>3 DEF Forward
<1>7. h = MarkIdsAsFinished(g, self, new)
  BY DEF h, h1, MarkIdsAsFinished
<1>8. QED
  BY <1>1, <1>2, <1>5, <1>6, <1>7 DEF Finished, Recording

(* Finishing IDs that are no longer pending keeps a generator safe. *)
LEMMA MarkSafe ==
    ASSUME NEW B \in Nat, NEW g \in GenUpTo(B), NEW self \in Writers,
           NEW new, new \subseteq 0 .. B, new # {},
           NEW P \in [Threads -> SUBSET Nat],
           SafeGen(g, self, P), Covered(g, self, P),
           \A t \in Threads : new \cap P[t] = {}
    PROVE  SafeGen(MarkIdsAsFinished(g, self, new), self, P)
<1> DEFINE h1 == MoveOwnPosition(g, self, new)
<1>1. PICK c \in 0 .. B : Finished(g, h1, self, new, c, B)
  BY MoveOwnPositionFields
<1> HIDE DEF h1
<1>2. Covered(h1, self, P)
  BY <1>1 DEF Covered, Finished
<1>3. ASSUME NEW t \in Threads, NEW p \in P[t]
      PROVE  /\ p \notin h1.finished /\ h1.persistedUpto < p /\ p \notin h1.known
             /\ HomeOf[t] # self => h1.maxSeen # p /\ p \notin h1.unfinished
  BY <1>1 DEF SafeGen, Finished
<1>4. ASSUME NEW t \in Threads, NEW p \in P[t],
             c \in g.finished \cup new, \A u \in UnfinishedFloor(h1) : c < u
      PROVE  c # p /\ (HomeOf[t] = self => c < p)
  <2>1. c # p
    BY <1>4 DEF SafeGen
  <2>2. ASSUME HomeOf[t] = self PROVE c < p
    <3>1. CASE p \in h1.unfinished
      BY <1>4, <3>1 DEF UnfinishedFloor
    <3>2. CASE \E f \in h1.inFlight : f[2] < p
      <4>1. PICK f \in h1.inFlight : f[2] < p
        BY <3>2
      <4>2. f[2] + 1 \in UnfinishedFloor(h1)
        BY DEF UnfinishedFloor
      <4>3. f[2] \in Nat /\ p \in Nat
        BY <1>1 DEF Finished, GenUpTo
      <4> QED
        BY <1>4, <4>1, <4>2, <4>3
    <3> QED
      BY <1>2, <2>2, <3>1, <3>2 DEF Covered
  <2> QED
    BY <2>1, <2>2
<1>5. /\ g.positions \in [Writers -> Nat] /\ g.maxLocal \in Nat
      /\ \A t \in Threads : P[t] \subseteq Nat
  BY DEF GenUpTo
<1>6. \A w \in Writers : Claim(w, h1.positions[w], P)
  <2> SUFFICES ASSUME NEW w \in Writers, NEW t \in Threads, NEW p \in P[t]
               PROVE  h1.positions[w] # p /\ (HomeOf[t] = w => h1.positions[w] < p)
    BY DEF Claim
  <2>1. g.positions[w] # p /\ (HomeOf[t] = w => g.positions[w] < p)
    BY DEF SafeGen, Claim
  <2> QED
    BY <1>1, <1>4, <1>5, <2>1 DEF Finished, Larger
<1>7. Claim(self, h1.maxLocal, P)
  <2> SUFFICES ASSUME NEW t \in Threads, NEW p \in P[t]
               PROVE  h1.maxLocal # p /\ (HomeOf[t] = self => h1.maxLocal < p)
    BY DEF Claim
  <2>1. /\ g.maxLocal # p /\ (HomeOf[t] = self => g.maxLocal < p)
        /\ g.positions[self] # p /\ (HomeOf[t] = self => g.positions[self] < p)
    BY DEF SafeGen, Claim
  <2> QED
    BY <1>1, <1>4, <1>5, <2>1 DEF Finished, Larger
<1>8. SafeGen(h1, self, P)
  BY <1>3, <1>6, <1>7 DEF SafeGen
<1>9. h1 \in GenUpTo(B)
  BY <1>1 DEF Finished
<1>10. QED
  BY <1>2, <1>8, <1>9, AddAllSafe DEF MarkIdsAsFinished, h1

(* Record h is g having heard that writer w is at p. *)
Announcing(g, h, w, p, B) ==
    /\ h \in GenUpTo(B)
    /\ h.positions = [g.positions EXCEPT ![w] = Larger(p, g.positions[w])]
    /\ h.maxSeen = Larger(g.maxSeen, p)
    /\ h.unfinished = g.unfinished /\ h.inFlight = g.inFlight
    /\ h.finished = g.finished /\ h.known = g.known
    /\ h.persistedUpto = g.persistedUpto /\ h.maxLocal = g.maxLocal

(* What NotePosition does to each field. *)
LEMMA NotePositionFields ==
    ASSUME NEW B \in Nat, NEW g \in GenUpTo(B), NEW w \in Writers, NEW p \in 0 .. B
    PROVE  Announcing(g, NotePosition(g, w, p), w, p, B)
<1> DEFINE h1 == NotePosition(g, w, p)
           ps == [g.positions EXCEPT ![w] = Larger(p, g.positions[w])]
           ms == Larger(g.maxSeen, p)
<1>1. g.positions \in [Writers -> 0 .. B] /\ g.maxSeen \in 0 .. B
  BY DEF GenUpTo
<1>2. ps \in [Writers -> 0 .. B] /\ ms \in 0 .. B
  BY <1>1 DEF Larger
<1>3. h1 = [g EXCEPT !.positions = ps, !.maxSeen = ms]
  BY DEF GenUpTo, NotePosition
<1>4. Announcing(g, h1, w, p, B)
  <2> HIDE DEF h1, ps, ms
  <2>1. h1 \in GenUpTo(B)
    BY <1>2, <1>3 DEF GenUpTo
  <2>2. /\ h1.positions = ps /\ h1.maxSeen = ms
        /\ h1.unfinished = g.unfinished /\ h1.inFlight = g.inFlight
        /\ h1.finished = g.finished /\ h1.known = g.known
        /\ h1.persistedUpto = g.persistedUpto /\ h1.maxLocal = g.maxLocal
    BY <1>3 DEF GenUpTo
  <2> QED
    BY <2>1, <2>2 DEF Announcing, ps, ms
<1>5. QED
  BY <1>4

(* Advancing stays within the bounds and moves tokens forward. *)
LEMMA AdvanceRecording ==
    ASSUME NEW B \in Nat, NEW g \in GenUpTo(B), NEW self, NEW w \in Writers, NEW p \in 0 .. B
    PROVE  Recording(g, AdvancePosition(g, self, w, p), B)
<1> DEFINE h1 == NotePosition(g, w, p)
<1>1. Announcing(g, h1, w, p, B)
  BY NotePositionFields
<1> HIDE DEF h1
<1>2. g.positions \in [Writers -> Nat] /\ g.persistedUpto \in Nat /\ g.maxLocal \in Nat
  BY DEF GenUpTo
<1>3. Recording(g, h1, B)
  BY <1>1, <1>2 DEF Recording, Announcing, Forward, Larger
<1>4. Recording(h1, AddPersistedPosition(h1, self, {p}), B)
  BY <1>1, AddPersistedRecording DEF Announcing
<1>5. QED
  BY <1>1, <1>3, <1>4, RecordingTransitive DEF AdvancePosition, h1

(* Advancing to a position its writer may claim keeps a generator safe. *)
LEMMA AdvanceSafe ==
    ASSUME NEW B \in Nat, NEW g \in GenUpTo(B), NEW self, NEW w \in Writers, NEW p \in 0 .. B,
           NEW P \in [Threads -> SUBSET Nat],
           SafeGen(g, self, P), Covered(g, self, P), Claim(w, p, P)
    PROVE  SafeGen(AdvancePosition(g, self, w, p), self, P)
<1> DEFINE h1 == NotePosition(g, w, p)
<1>1. Announcing(g, h1, w, p, B)
  BY NotePositionFields
<1> HIDE DEF h1
<1>2. /\ g.positions \in [Writers -> Nat] /\ g.maxSeen \in Nat
      /\ \A t \in Threads : P[t] \subseteq Nat
  BY DEF GenUpTo
<1>3. Covered(h1, self, P)
  BY <1>1 DEF Covered, Announcing
<1>4. ASSUME NEW v \in Writers PROVE Claim(v, h1.positions[v], P)
  BY <1>1, <1>2 DEF SafeGen, Claim, Announcing, Larger
<1>5. SafeGen(h1, self, P)
  <2>1. \A t \in Threads : \A q \in P[t] :
            HomeOf[t] # self => h1.maxSeen # q /\ q \notin h1.unfinished
    BY <1>1, <1>2 DEF SafeGen, Claim, Announcing, Larger
  <2> QED
    BY <1>1, <1>4, <2>1 DEF SafeGen, Announcing
<1>6. h1 \in GenUpTo(B) /\ {p} \subseteq 0 .. B /\ \A t \in Threads : {p} \cap P[t] = {}
  BY <1>1 DEF Announcing, Claim
<1>7. QED
  BY <1>1, <1>3, <1>5, <1>6, AddPersistedSafe DEF AdvancePosition, h1

(* What a starting process takes from the database. *)
Loads(h, self, tab, rws, B) ==
    /\ h \in GenUpTo(B)
    /\ h.unfinished = {} /\ h.inFlight = {} /\ h.finished = {}
    /\ h.known \subseteq {r[2] : r \in rws}
    /\ \A w \in Writers :
        \/ w # self /\ tab[w] = NoEntry /\ h.positions[w] = h.persistedUpto
        \/ w # self /\ tab[w] # NoEntry /\ h.positions[w] = tab[w]
        \/ w = self /\ h.positions[w] \in {B} \cup {r[2] : r \in rws}
    /\ \A v \in Writers : v # self /\ tab[v] # NoEntry =>
        \E m \in 0 .. B : m <= tab[v] /\ (m + 1) .. h.persistedUpto \subseteq {r[2] : r \in rws}
    /\ \/ h.maxSeen = h.persistedUpto
       \/ \E w \in Writers : h.maxSeen = h.positions[w]
    /\ h.maxLocal = h.maxSeen

(* LoadCurrentIds does so. *)
LEMMA LoadFields ==
    ASSUME NEW B \in Nat, FirstPosition <= B, NEW self,
           NEW tab \in [Writers -> 0 .. B], NEW rws, rws \subseteq Writers \X (0 .. B)
    PROVE  Loads(LoadCurrentIds(self, tab, rws, B), self, tab, rws, B)
<1> DEFINE loaded == {w \in Writers : tab[w] # NoEntry \/ w = self}
           read == [w \in Writers |-> IF w = self THEN B ELSE tab[w]]
           minId == Min({read[w] : w \in loaded})
           later == {r \in rws : r[2] >= minId}
           own == {r[2] : r \in {q \in later : q[1] = self}}
           persisted == {r[2] : r \in later}
           all == {r[2] : r \in rws}
           upto == IF loaded = {} THEN Max({FirstPosition} \cup all)
                   ELSE SkipForward(persisted, minId)
           positions == [w \in Writers |->
                            IF w \notin loaded THEN upto
                            ELSE IF w = self /\ own # {} THEN Max(own)
                            ELSE read[w]]
           maxSeen == Larger(Max({positions[w] : w \in Writers}), upto)
           known == IF loaded = {} THEN {} ELSE {k \in persisted : k > upto}
           h == LoadCurrentIds(self, tab, rws, B)
<1>1. h = [ positions |-> positions, unfinished |-> {}, inFlight |-> {}, finished |-> {},
            persistedUpto |-> upto, known |-> known, maxSeen |-> maxSeen,
            maxLocal |-> maxSeen ]
  BY DEF LoadCurrentIds
<1> HIDE DEF h
<1>2. all \subseteq 0 .. B /\ persisted \subseteq all /\ own \subseteq all
  OBVIOUS
<1>3. read \in [Writers -> 0 .. B]
  OBVIOUS
<1>4. loaded # {} => minId \in 0 .. B /\ \A w \in loaded : minId <= read[w]
  <2> SUFFICES ASSUME loaded # {} PROVE minId \in 0 .. B /\ \A w \in loaded : minId <= read[w]
    OBVIOUS
  <2> DEFINE S == {read[w] : w \in loaded}
  <2>1. S \subseteq Nat /\ S \subseteq 0 .. B /\ S # {}
    BY <1>3
  <2>2. Min(S) \in S /\ \A y \in S : Min(S) <= y
    BY <2>1, MinProps
  <2> QED
    BY <2>1, <2>2
<1> HIDE DEF minId, persisted, own, all, read
<1>5. /\ upto \in 0 .. B
      /\ loaded # {} => (minId + 1) .. upto \subseteq persisted
  <2>1. CASE loaded = {}
    <3>1. {FirstPosition} \cup all \subseteq 0 .. B
      BY <1>2 DEF FirstPosition
    <3>2. Max({FirstPosition} \cup all) \in {FirstPosition} \cup all
      BY <3>1, MaxProps
    <3> QED
      BY <2>1, <3>1, <3>2
  <2>2. CASE loaded # {}
    <3>1. persisted \subseteq 0 .. B /\ minId \in 0 .. B
      BY <1>2, <1>4, <2>2
    <3>2. /\ SkipForward(persisted, minId) \in 0 .. B
          /\ (minId + 1) .. SkipForward(persisted, minId) \subseteq persisted
      BY <3>1, SkipForwardProps
    <3> QED
      BY <2>2, <3>2
  <2> QED
    BY <2>1, <2>2
<1>6. own # {} => Max(own) \in own
  BY <1>2, MaxProps
<1> HIDE DEF upto
<1>7. positions \in [Writers -> 0 .. B]
  BY <1>2, <1>3, <1>5, <1>6
<1>8. maxSeen \in 0 .. B /\ (maxSeen = upto \/ \E w \in Writers : maxSeen = positions[w])
  <2> HIDE DEF positions
  <2> DEFINE S == {positions[w] : w \in Writers}
  <2>1. S \subseteq 0 .. B /\ S # {}
    BY <1>7, WritersAssumption
  <2>2. Max(S) \in S
    BY <2>1, MaxProps
  <2> QED
    BY <1>5, <2>1, <2>2 DEF Larger
<1> HIDE DEF maxSeen
<1>9. known \subseteq all /\ known \subseteq 0 .. B
  BY <1>2
<1>10. \A w \in Writers :
        \/ w # self /\ tab[w] = NoEntry /\ positions[w] = upto
        \/ w # self /\ tab[w] # NoEntry /\ positions[w] = tab[w]
        \/ w = self /\ positions[w] \in {B} \cup all
  BY <1>2, <1>6 DEF read
<1>11. ASSUME NEW v \in Writers, v # self, tab[v] # NoEntry
       PROVE  \E m \in 0 .. B : m <= tab[v] /\ (m + 1) .. upto \subseteq all
  <2>1. v \in loaded /\ read[v] = tab[v]
    BY <1>11 DEF read
  <2>2. minId \in 0 .. B /\ minId <= tab[v] /\ (minId + 1) .. upto \subseteq all
    BY <1>2, <1>4, <1>5, <2>1
  <2> QED
    BY <2>2
<1> HIDE DEF positions, known
<1>12. /\ h \in GenUpTo(B)
       /\ h.positions = positions /\ h.persistedUpto = upto /\ h.known = known
       /\ h.maxSeen = maxSeen /\ h.maxLocal = maxSeen
       /\ h.unfinished = {} /\ h.inFlight = {} /\ h.finished = {}
  BY <1>1, <1>5, <1>7, <1>8, <1>9 DEF GenUpTo
<1>13. Loads(h, self, tab, rws, B)
  BY <1>8, <1>9, <1>10, <1>11, <1>12 DEF Loads, all
<1>14. QED
  BY <1>13 DEF h

(* A process that restarts in an orderly way starts with a safe generator. *)
LEMMA LoadSafe ==
    ASSUME NEW B \in Nat, NEW self, NEW h, NEW tab, NEW rws,
           tab \in [Writers -> 0 .. B],
           Loads(h, self, tab, rws, B),
           NEW P \in [Threads -> SUBSET (0 .. B)],
           \A t \in Threads : P[t] # {} => HomeOf[t] # self /\ tab[HomeOf[t]] # NoEntry,
           self \in Writers => \A t \in Threads : B \notin P[t],
           \A w \in Writers : Claim(w, tab[w], P),
           \A r \in rws : \A t \in Threads : r[2] \notin P[t]
    PROVE  SafeGen(h, self, P)
<1>1. /\ h.persistedUpto \in Nat
      /\ \A t \in Threads : P[t] \subseteq Nat /\ HomeOf[t] \in Writers
  BY HomeAssumption DEF Loads, GenUpTo
<1>2. ASSUME NEW t \in Threads, NEW p \in P[t]
      PROVE  h.persistedUpto < p
  <2>1. HomeOf[t] # self /\ tab[HomeOf[t]] # NoEntry /\ HomeOf[t] \in Writers
    BY <1>1
  <2>2. PICK m \in 0 .. B : /\ m <= tab[HomeOf[t]]
                            /\ (m + 1) .. h.persistedUpto \subseteq {r[2] : r \in rws}
    BY <2>1 DEF Loads
  <2>3. tab[HomeOf[t]] < p /\ p \in Nat /\ tab[HomeOf[t]] \in Nat
    BY <1>1, <2>1 DEF Claim
  <2>4. p \notin {r[2] : r \in rws}
    OBVIOUS
  <2> QED
    BY <1>1, <2>2, <2>3, <2>4
<1>3. ASSUME NEW w \in Writers PROVE Claim(w, h.positions[w], P)
  <2> SUFFICES ASSUME NEW t \in Threads, NEW p \in P[t]
               PROVE  h.positions[w] # p /\ (HomeOf[t] = w => h.positions[w] < p)
    BY DEF Claim
  <2>1. CASE w # self /\ tab[w] = NoEntry /\ h.positions[w] = h.persistedUpto
    BY <1>1, <1>2, <2>1
  <2>2. CASE w # self /\ tab[w] # NoEntry /\ h.positions[w] = tab[w]
    BY <2>2 DEF Claim
  <2>3. CASE w = self /\ h.positions[w] \in {B} \cup {r[2] : r \in rws}
    BY <2>3
  <2> QED
    BY <2>1, <2>2, <2>3 DEF Loads
<1>4. ASSUME NEW t \in Threads, NEW p \in P[t]
      PROVE  h.maxSeen # p
  <2>1. CASE h.maxSeen = h.persistedUpto
    BY <1>1, <1>2, <2>1
  <2>2. CASE \E w \in Writers : h.maxSeen = h.positions[w]
    BY <1>3, <2>2 DEF Claim
  <2> QED
    BY <2>1, <2>2 DEF Loads
<1>5. Claim(self, h.maxLocal, P)
  BY <1>4 DEF Claim, Loads
<1>6. QED
  BY <1>2, <1>3, <1>4, <1>5 DEF SafeGen, Loads

--------------------------------------------------------------------------------
(***************************************************************************)
(* The structural part of the invariant.                                   *)
(***************************************************************************)

(* The fields that fetching IDs never touches. *)
SameTokens(g, h) ==
    /\ h.positions = g.positions /\ h.finished = g.finished /\ h.known = g.known
    /\ h.persistedUpto = g.persistedUpto /\ h.maxLocal = g.maxLocal

(* What starting a fetch does to a generator. *)
LEMMA BeginFetchFields ==
    ASSUME NEW B \in Nat, NEW g \in GenUpTo(B), NEW t \in Threads,
           NEW h, h = BeginFetch(g, t)
    PROVE  /\ h \in GenUpTo(B) /\ SameTokens(g, h)
           /\ h.unfinished = g.unfinished /\ h.maxSeen = g.maxSeen
           /\ h.inFlight = g.inFlight \cup {<<t, g.maxSeen>>}
<1> DEFINE S == g.inFlight \cup {<<t, g.maxSeen>>}
<1>1. S \subseteq Threads \X (0 .. B)
  BY DEF GenUpTo
<1>2. h = [g EXCEPT !.inFlight = S]
  BY DEF BeginFetch
<1> HIDE DEF S
<1>3. h \in GenUpTo(B) /\ h.inFlight = S /\ h.unfinished = g.unfinished
      /\ h.maxSeen = g.maxSeen /\ SameTokens(g, h)
  BY <1>1, <1>2 DEF GenUpTo, SameTokens
<1>4. QED
  BY <1>3 DEF S

(* What ending a fetch does to a generator. *)
LEMMA EndFetchFields ==
    ASSUME NEW B \in Nat, NEW g \in GenUpTo(B), NEW t \in Threads,
           NEW h, h = EndFetch(g, t)
    PROVE  /\ h \in GenUpTo(B) /\ SameTokens(g, h)
           /\ h.unfinished = g.unfinished /\ h.maxSeen = g.maxSeen
           /\ h.inFlight \subseteq g.inFlight
           /\ \A f \in g.inFlight : f[1] # t => f \in h.inFlight
<1> DEFINE S == {f \in g.inFlight : f[1] # t}
<1>1. S \subseteq g.inFlight /\ S \subseteq Threads \X (0 .. B)
  BY DEF GenUpTo
<1>2. h = [g EXCEPT !.inFlight = S]
  BY DEF EndFetch
<1>3. \A f \in g.inFlight : f[1] # t => f \in S
  OBVIOUS
<1> HIDE DEF S
<1>4. h \in GenUpTo(B) /\ h.inFlight = S /\ h.unfinished = g.unfinished
      /\ h.maxSeen = g.maxSeen /\ SameTokens(g, h)
  BY <1>1, <1>2 DEF GenUpTo, SameTokens
<1>5. QED
  BY <1>1, <1>3, <1>4

(* What registering IDs does to a generator. *)
LEMMA RegisterFields ==
    ASSUME NEW B \in Nat, NEW g \in GenUpTo(B), NEW new, new \subseteq 0 .. B, new # {},
           NEW h, h = RegisterFetched(g, new)
    PROVE  /\ h \in GenUpTo(B) /\ SameTokens(g, h)
           /\ h.unfinished = g.unfinished \cup new /\ h.inFlight = g.inFlight
           /\ h.maxSeen = g.maxSeen \/ h.maxSeen \in g.unfinished \cup new
<1> DEFINE S == g.unfinished \cup new
           m == Max(S)
           x == Larger(g.maxSeen, m)
<1>1. S \subseteq 0 .. B /\ S # {} /\ g.maxSeen \in 0 .. B
  BY DEF GenUpTo
<1>2. m \in S
  BY <1>1, MaxProps
<1>3. x \in 0 .. B /\ (x = g.maxSeen \/ x \in S)
  BY <1>1, <1>2 DEF Larger
<1>4. h = [g EXCEPT !.unfinished = S, !.maxSeen = x]
  BY DEF RegisterFetched
<1> HIDE DEF S, x
<1>5. h \in GenUpTo(B) /\ h.unfinished = S /\ h.inFlight = g.inFlight
      /\ h.maxSeen = x /\ SameTokens(g, h)
  BY <1>1, <1>3, <1>4 DEF GenUpTo, SameTokens
<1>6. QED
  BY <1>3, <1>5 DEF S

(* A larger bound admits the same records. *)
LEMMA GenUpToMonotonic ==
    ASSUME NEW B \in Nat, NEW C \in Nat, B <= C
    PROVE  GenUpTo(B) \subseteq GenUpTo(C)
<1>1. 0 .. B \subseteq 0 .. C
  OBVIOUS
<1>2. ASSUME NEW g \in GenUpTo(B) PROVE g \in GenUpTo(C)
  <2>1. /\ g.positions \in [Writers -> 0 .. C]
        /\ g.inFlight \in SUBSET (Threads \X (0 .. C))
    BY <1>1 DEF GenUpTo
  <2>2. /\ g.unfinished \in SUBSET (0 .. C) /\ g.finished \in SUBSET (0 .. C)
        /\ g.known \in SUBSET (0 .. C)
        /\ g.persistedUpto \in 0 .. C /\ g.maxSeen \in 0 .. C /\ g.maxLocal \in 0 .. C
    BY <1>1 DEF GenUpTo
  <2>3. g = [ positions |-> g.positions, unfinished |-> g.unfinished,
              inFlight |-> g.inFlight, finished |-> g.finished,
              persistedUpto |-> g.persistedUpto, known |-> g.known,
              maxSeen |-> g.maxSeen, maxLocal |-> g.maxLocal ]
    BY DEF GenUpTo
  <2> QED
    BY <2>1, <2>2, <2>3 DEF GenUpTo
<1>3. QED
  BY <1>2

(* The initial states are structurally sound. *)
LEMMA InitStruct == Init => Struct
<1> SUFFICES ASSUME Init PROVE Struct
  OBVIOUS
<1>1. Allocated
  <2>1. NewGenerator \in GenUpTo(1)
    BY DEF NewGenerator, GenUpTo, FirstPosition
  <2>2. [w \in Writers |-> InitialEntry] \in [Writers -> 0 .. 1]
    BY EntryAssumption DEF NoEntry, FirstPosition
  <2> QED
    BY <2>1, <2>2, BoundsAssumption DEF Init, Allocated, FirstPosition, PcValues
<1>2. HasIds /\ IdsDisjoint /\ ThreadKnown
  BY DEF Init, HasIds, IdsDisjoint, ThreadKnown, Pending
<1>3. QED
  BY <1>1, <1>2 DEF Struct

(* Starting a fetch. *)
LEMMA FetchStartStruct ==
    ASSUME Struct, NEW t \in Threads, FetchStart(t)
    PROVE  Struct'
<1> DEFINE i == HomeOf[t]
           h == BeginFetch(gen[i], t)
<1>1. i \in Instances /\ gen[i] \in GenUpTo(seq) /\ seq \in Nat
  BY HomeAssumption, WritersAssumption DEF Struct, Allocated
<1>2. h \in GenUpTo(seq)
  BY <1>1, BeginFetchFields
<1>3. /\ h.unfinished = gen[i].unfinished
      /\ h.inFlight = gen[i].inFlight \cup {<<t, gen[i].maxSeen>>}
      /\ gen[i].maxSeen \in 0 .. seq
  <2>1. gen[i].maxSeen \in 0 .. seq
    BY <1>1 DEF GenUpTo
  <2> QED
    BY <1>1, <2>1, BeginFetchFields
<1> HIDE DEF h
<1>4. /\ gen' = [gen EXCEPT ![i] = h] /\ pc[t] = "idle"
      /\ pc' = [pc EXCEPT ![t] = "fetching"]
      /\ UNCHANGED <<seq, rows, table, ids, pos, announced, orderly, failures, restarts>>
  BY DEF FetchStart, database, history, h
<1>5. PICK n \in 1 .. MaxBatch : want' = [want EXCEPT ![t] = n]
  BY DEF FetchStart
<1>6. Allocated'
  BY <1>1, <1>2, <1>4, <1>5, BoundsAssumption DEF Struct, Allocated, PcValues
<1>7. HasIds'
  BY <1>4, <1>5, BoundsAssumption DEF Struct, Allocated, HasIds
<1>8. IdsDisjoint'
  BY <1>4 DEF Struct, Allocated, HasIds, IdsDisjoint, Pending
<1>9. ThreadKnown'
  <2> SUFFICES ASSUME NEW u \in Threads
               PROVE  /\ pc'[u] \in {"fetching", "registered"} =>
                           \E m \in 0 .. seq' : /\ <<u, m>> \in gen'[HomeOf[u]].inFlight
                                                /\ \A p \in ids'[u] : m < p
                      /\ pc'[u] \in {"registered", "running"} =>
                           ids'[u] \subseteq gen'[HomeOf[u]].unfinished
    BY DEF ThreadKnown
  <2>1. HomeOf[u] \in Instances
    BY HomeAssumption, WritersAssumption
  <2>2. /\ gen'[HomeOf[u]].unfinished = gen[HomeOf[u]].unfinished
        /\ gen[HomeOf[u]].inFlight \subseteq gen'[HomeOf[u]].inFlight
    BY <1>1, <1>3, <1>4, <2>1 DEF Struct, Allocated
  <2>3. CASE u = t
    <3>1. ids'[u] = {} /\ pc'[u] = "fetching" /\ seq' = seq
      BY <1>4, <2>3 DEF Struct, Allocated, HasIds
    <3>2. <<u, gen[i].maxSeen>> \in gen'[HomeOf[u]].inFlight
      BY <1>1, <1>3, <1>4, <2>3 DEF Struct, Allocated
    <3> QED
      BY <1>3, <3>1, <3>2
  <2>4. CASE u # t
    BY <1>4, <2>2, <2>4 DEF Struct, Allocated, ThreadKnown
  <2> QED
    BY <2>3, <2>4
<1>10. QED
  BY <1>6, <1>7, <1>8, <1>9 DEF Struct

(* Drawing an ID from the sequence. *)
LEMMA NextValStruct ==
    ASSUME Struct, NEW t \in Threads, NextVal(t)
    PROVE  Struct'
<1>1. /\ pc[t] = "fetching" /\ want[t] > 0
      /\ seq' = seq + 1
      /\ ids' = [ids EXCEPT ![t] = @ \cup {seq + 1}]
      /\ want' = [want EXCEPT ![t] = @ - 1]
      /\ UNCHANGED <<rows, table, gen, pc, pos, announced, orderly, failures, restarts>>
  BY DEF NextVal, history
<1>2. seq \in Nat /\ GenUpTo(seq) \subseteq GenUpTo(seq + 1)
  BY GenUpToMonotonic DEF Struct, Allocated
<1>3. Allocated'
  <2>1. gen' \in [Instances -> GenUpTo(seq')]
    BY <1>1, <1>2 DEF Struct, Allocated
  <2>2. ids' \in [Threads -> SUBSET (1 .. seq')] /\ want' \in [Threads -> Nat]
    BY <1>1, <1>2 DEF Struct, Allocated
  <2>3. 0 .. seq \subseteq 0 .. seq' /\ FirstPosition <= seq' /\ seq' \in Nat
    BY <1>1, <1>2 DEF Struct, Allocated, FirstPosition
  <2>4. /\ rows' \subseteq Writers \X (0 .. seq') /\ table' \in [Writers -> 0 .. seq']
        /\ pos' \in [Threads -> 0 .. seq'] /\ announced' \subseteq Writers \X (0 .. seq')
    BY <1>1, <2>3 DEF Struct, Allocated
  <2> QED
    BY <1>1, <2>1, <2>2, <2>3, <2>4 DEF Struct, Allocated
<1>4. HasIds'
  BY <1>1 DEF Struct, Allocated, HasIds
<1>5. IdsDisjoint'
  <2>1. \A u \in Threads : ids[u] \subseteq 1 .. seq /\ seq + 1 \notin ids[u]
    BY <1>2 DEF Struct, Allocated
  <2>2. \A u, v \in Threads : u # v => ids'[u] \cap ids'[v] = {}
    BY <1>1, <2>1 DEF Struct, Allocated, IdsDisjoint
  <2>3. \A r \in rows : r[2] # seq + 1
    BY <1>2 DEF Struct, Allocated
  <2>4. \A r \in rows' : \A u \in Threads : r[2] \notin Pending(u)'
    BY <1>1, <2>3 DEF Struct, Allocated, IdsDisjoint, Pending
  <2> QED
    BY <2>2, <2>4 DEF IdsDisjoint
<1>6. ThreadKnown'
  <2> SUFFICES ASSUME NEW u \in Threads
               PROVE  /\ pc'[u] \in {"fetching", "registered"} =>
                           \E m \in 0 .. seq' : /\ <<u, m>> \in gen'[HomeOf[u]].inFlight
                                                /\ \A p \in ids'[u] : m < p
                      /\ pc'[u] \in {"registered", "running"} =>
                           ids'[u] \subseteq gen'[HomeOf[u]].unfinished
    BY DEF ThreadKnown
  <2>1. ASSUME pc'[u] \in {"fetching", "registered"}
        PROVE  \E m \in 0 .. seq' : /\ <<u, m>> \in gen'[HomeOf[u]].inFlight
                                    /\ \A p \in ids'[u] : m < p
    <3>1. PICK m \in 0 .. seq : /\ <<u, m>> \in gen[HomeOf[u]].inFlight
                                /\ \A p \in ids[u] : m < p
      BY <1>1, <2>1 DEF Struct, ThreadKnown
    <3>2. m \in 0 .. seq' /\ m < seq + 1
      BY <1>1, <1>2
    <3>3. \A p \in ids'[u] : m < p
      BY <1>1, <3>1, <3>2 DEF Struct, Allocated
    <3> QED
      BY <1>1, <3>1, <3>2, <3>3
  <2>2. ASSUME pc'[u] \in {"registered", "running"}
        PROVE  ids'[u] \subseteq gen'[HomeOf[u]].unfinished
    BY <1>1, <2>2 DEF Struct, Allocated, ThreadKnown
  <2> QED
    BY <2>1, <2>2
<1>7. QED
  BY <1>3, <1>4, <1>5, <1>6 DEF Struct

(* What the other threads need of a generator that changes. *)
LEMMA ThreadKnownKept ==
    ASSUME Struct, NEW u \in Threads, seq' = seq, pc'[u] = pc[u], ids'[u] = ids[u],
           \A m : <<u, m>> \in gen[HomeOf[u]].inFlight => <<u, m>> \in gen'[HomeOf[u]].inFlight,
           \A p \in ids[u] : p \in gen[HomeOf[u]].unfinished => p \in gen'[HomeOf[u]].unfinished
    PROVE  /\ pc'[u] \in {"fetching", "registered"} =>
                \E m \in 0 .. seq' : /\ <<u, m>> \in gen'[HomeOf[u]].inFlight
                                     /\ \A p \in ids'[u] : m < p
           /\ pc'[u] \in {"registered", "running"} =>
                ids'[u] \subseteq gen'[HomeOf[u]].unfinished
<1>1. ASSUME pc[u] \in {"fetching", "registered"}
      PROVE  \E m \in 0 .. seq' : /\ <<u, m>> \in gen'[HomeOf[u]].inFlight
                                  /\ \A p \in ids'[u] : m < p
  <2>1. PICK m \in 0 .. seq : /\ <<u, m>> \in gen[HomeOf[u]].inFlight
                              /\ \A p \in ids[u] : m < p
    BY <1>1 DEF Struct, ThreadKnown
  <2> QED
    BY <2>1
<1>2. ASSUME pc[u] \in {"registered", "running"}
      PROVE  ids[u] \subseteq gen'[HomeOf[u]].unfinished
  BY <1>2 DEF Struct, ThreadKnown
<1>3. QED
  BY <1>1, <1>2

(* Registering the IDs that arrived. *)
LEMMA RegisterStruct ==
    ASSUME Struct, NEW t \in Threads, Register(t)
    PROVE  Struct'
<1> DEFINE i == HomeOf[t]
           h == RegisterFetched(gen[i], ids[t])
<1>1. /\ i \in Instances /\ gen[i] \in GenUpTo(seq) /\ seq \in Nat
      /\ ids[t] \subseteq 0 .. seq
  BY HomeAssumption, WritersAssumption DEF Struct, Allocated
<1>2. ids[t] # {}
  BY DEF Struct, Allocated, HasIds, Register
<1>3. h \in GenUpTo(seq)
  BY <1>1, <1>2, RegisterFields
<1>4. h.unfinished = gen[i].unfinished \cup ids[t] /\ h.inFlight = gen[i].inFlight
  BY <1>1, <1>2, RegisterFields
<1> HIDE DEF h
<1>5. /\ gen' = [gen EXCEPT ![i] = h] /\ pc[t] = "fetching" /\ want[t] = 0
      /\ pc' = [pc EXCEPT ![t] = "registered"]
      /\ UNCHANGED <<seq, rows, table, want, ids, pos, announced, orderly, failures, restarts>>
  BY DEF Register, database, history, h
<1>6. Allocated'
  BY <1>1, <1>3, <1>5 DEF Struct, Allocated, PcValues
<1>7. HasIds'
  BY <1>2, <1>5 DEF Struct, Allocated, HasIds
<1>8. IdsDisjoint'
  BY <1>5 DEF Struct, Allocated, IdsDisjoint, Pending
<1>9. ThreadKnown'
  <2>1. ASSUME NEW u \in Threads
        PROVE  /\ HomeOf[u] \in Instances
               /\ gen[HomeOf[u]].inFlight = gen'[HomeOf[u]].inFlight
               /\ gen[HomeOf[u]].unfinished \subseteq gen'[HomeOf[u]].unfinished
    BY <1>1, <1>4, <1>5, HomeAssumption, WritersAssumption DEF Struct, Allocated
  <2>2. ids'[t] \subseteq gen'[HomeOf[t]].unfinished
    BY <1>1, <1>4, <1>5 DEF Struct, Allocated
  <2>3. \E m \in 0 .. seq' : /\ <<t, m>> \in gen'[HomeOf[t]].inFlight
                             /\ \A p \in ids'[t] : m < p
    <3>1. PICK m \in 0 .. seq : /\ <<t, m>> \in gen[HomeOf[t]].inFlight
                                /\ \A p \in ids[t] : m < p
      BY <1>5 DEF Struct, ThreadKnown
    <3> QED
      BY <1>5, <2>1, <3>1
  <2>4. ASSUME NEW u \in Threads, u # t
        PROVE  /\ pc'[u] \in {"fetching", "registered"} =>
                    \E m \in 0 .. seq' : /\ <<u, m>> \in gen'[HomeOf[u]].inFlight
                                         /\ \A p \in ids'[u] : m < p
               /\ pc'[u] \in {"registered", "running"} =>
                    ids'[u] \subseteq gen'[HomeOf[u]].unfinished
    <3>1. seq' = seq /\ pc'[u] = pc[u] /\ ids'[u] = ids[u]
      BY <1>5, <2>4 DEF Struct, Allocated
    <3> QED
      BY <2>1, <3>1, ThreadKnownKept
  <2> QED
    BY <2>2, <2>3, <2>4 DEF ThreadKnown
<1>10. QED
  BY <1>6, <1>7, <1>8, <1>9 DEF Struct

(* The end of a fetch, whether or not it raised. *)
LEMMA EndFetchStruct ==
    ASSUME Struct, NEW t \in Threads, Release(t) \/ FetchFail(t)
    PROVE  Struct'
<1> DEFINE i == HomeOf[t]
           h == EndFetch(gen[i], t)
<1>1. i \in Instances /\ gen[i] \in GenUpTo(seq) /\ seq \in Nat
  BY HomeAssumption, WritersAssumption DEF Struct, Allocated
<1>2. h \in GenUpTo(seq)
  BY <1>1, EndFetchFields
<1>3. /\ h.unfinished = gen[i].unfinished
      /\ \A f \in gen[i].inFlight : f[1] # t => f \in h.inFlight
  BY <1>1, EndFetchFields
<1> HIDE DEF h
<1>4. /\ gen' = [gen EXCEPT ![i] = h]
      /\ UNCHANGED <<seq, rows, table, pos, announced, orderly, restarts>>
      /\ \/ /\ pc[t] = "registered" /\ pc' = [pc EXCEPT ![t] = "running"]
            /\ UNCHANGED <<want, ids, failures>>
         \/ /\ pc[t] = "fetching" /\ pc' = [pc EXCEPT ![t] = "idle"]
            /\ want' = [want EXCEPT ![t] = 0] /\ ids' = [ids EXCEPT ![t] = {}]
            /\ failures < MaxFailures /\ failures' = failures + 1
  BY DEF Release, FetchFail, database, history, h
<1>5. Allocated'
  <2>1. gen' \in [Instances -> GenUpTo(seq')]
    BY <1>1, <1>2, <1>4 DEF Struct, Allocated
  <2>2. /\ pc' \in [Threads -> PcValues] /\ want' \in [Threads -> Nat]
        /\ ids' \in [Threads -> SUBSET (1 .. seq')]
        /\ failures' \in 0 .. MaxFailures
    BY <1>4, BoundsAssumption DEF Struct, Allocated, PcValues
  <2> QED
    BY <1>4, <2>1, <2>2 DEF Struct, Allocated
<1>6. HasIds'
  BY <1>4 DEF Struct, Allocated, HasIds
<1>7. \A u \in Threads : ids'[u] \subseteq ids[u] /\ Pending(u)' \subseteq Pending(u)
  BY <1>4 DEF Struct, Allocated, Pending
<1>8. IdsDisjoint'
  BY <1>4, <1>7 DEF Struct, IdsDisjoint
<1>9. ThreadKnown'
  <2>1. ASSUME NEW u \in Threads
        PROVE  /\ HomeOf[u] \in Instances
               /\ gen[HomeOf[u]].unfinished = gen'[HomeOf[u]].unfinished
               /\ u # t => \A m : <<u, m>> \in gen[HomeOf[u]].inFlight
                                    => <<u, m>> \in gen'[HomeOf[u]].inFlight
    BY <1>1, <1>3, <1>4, HomeAssumption, WritersAssumption DEF Struct, Allocated
  <2>2. pc'[t] = "running" => ids'[t] \subseteq gen'[HomeOf[t]].unfinished
    BY <1>4, <2>1 DEF Struct, Allocated, ThreadKnown
  <2>3. pc'[t] \in {"running", "idle"}
    BY <1>4 DEF Struct, Allocated
  <2>4. ASSUME NEW u \in Threads, u # t
        PROVE  /\ pc'[u] \in {"fetching", "registered"} =>
                    \E m \in 0 .. seq' : /\ <<u, m>> \in gen'[HomeOf[u]].inFlight
                                         /\ \A p \in ids'[u] : m < p
               /\ pc'[u] \in {"registered", "running"} =>
                    ids'[u] \subseteq gen'[HomeOf[u]].unfinished
    <3>1. seq' = seq /\ pc'[u] = pc[u] /\ ids'[u] = ids[u]
      BY <1>4, <2>4 DEF Struct, Allocated
    <3> QED
      BY <2>1, <2>4, <3>1, ThreadKnownKept
  <2> QED
    BY <2>2, <2>3, <2>4 DEF ThreadKnown
<1>10. QED
  BY <1>5, <1>6, <1>8, <1>9 DEF Struct

(* The end of a write transaction. *)
LEMMA TransactionStruct ==
    ASSUME Struct, NEW t \in Threads, Commit(t) \/ Abort(t)
    PROVE  Struct'
<1>1. /\ pc[t] = "running"
      /\ UNCHANGED <<seq, table, gen, want, ids, pos, announced, orderly, failures, restarts>>
      /\ \/ /\ rows' = rows \cup {<<HomeOf[t], id>> : id \in ids[t]}
            /\ pc' = [pc EXCEPT ![t] = "committed"]
         \/ /\ rows' = rows
            /\ pc' = [pc EXCEPT ![t] = "aborted"]
  BY DEF Commit, Abort, database, history
<1>2. Allocated'
  <2>1. HomeOf[t] \in Writers /\ ids[t] \subseteq 0 .. seq /\ seq \in Nat
    BY HomeAssumption DEF Struct, Allocated
  <2>2. rows' \subseteq Writers \X (0 .. seq')
    BY <1>1, <2>1 DEF Struct, Allocated
  <2>3. pc' \in [Threads -> PcValues]
    BY <1>1 DEF Struct, Allocated, PcValues
  <2> QED
    BY <1>1, <2>2, <2>3 DEF Struct, Allocated
<1>3. HasIds'
  BY <1>1 DEF Struct, Allocated, HasIds
<1>4. IdsDisjoint'
  <2>1. Pending(t)' = {} /\ \A u \in Threads : u # t => Pending(u)' = Pending(u)
    BY <1>1 DEF Struct, Allocated, Pending
  <2>2. \A u \in Threads : Pending(u) \subseteq ids[u]
    BY DEF Pending
  <2>3. ASSUME NEW r \in rows', NEW u \in Threads PROVE r[2] \notin Pending(u)'
    <3>1. CASE r \in rows
      BY <2>1, <3>1 DEF Struct, IdsDisjoint
    <3>2. CASE r \notin rows
      <4>1. r[2] \in ids[t]
        BY <1>1, <3>2
      <4> QED
        BY <2>1, <2>2, <4>1 DEF Struct, IdsDisjoint
    <3> QED
      BY <3>1, <3>2
  <2> QED
    BY <1>1, <2>3 DEF Struct, IdsDisjoint
<1>5. ThreadKnown'
  BY <1>1 DEF Struct, Allocated, ThreadKnown
<1>6. QED
  BY <1>2, <1>3, <1>4, <1>5 DEF Struct

(* Marking IDs as finished. *)
LEMMA MarkFinishedStruct ==
    ASSUME Struct, NEW t \in Threads, MarkFinished(t)
    PROVE  Struct'
<1> DEFINE i == HomeOf[t]
           h == MarkIdsAsFinished(gen[i], i, ids[t])
<1>1. /\ i \in Writers /\ i \in Instances /\ gen[i] \in GenUpTo(seq) /\ seq \in Nat
      /\ ids[t] \subseteq 0 .. seq
  BY HomeAssumption, WritersAssumption DEF Struct, Allocated
<1>2. ids[t] # {}
  BY DEF Struct, Allocated, HasIds, MarkFinished
<1>3. /\ h \in GenUpTo(seq) /\ h.inFlight = gen[i].inFlight
      /\ h.unfinished = gen[i].unfinished \ ids[t]
  BY <1>1, <1>2, MarkRecording
<1> HIDE DEF h
<1>4. /\ gen' = [gen EXCEPT ![i] = h] /\ pc[t] \in {"committed", "aborted"}
      /\ pc' = [pc EXCEPT ![t] = IF pc[t] = "committed" THEN "updating" ELSE "idle"]
      /\ ids' = [ids EXCEPT ![t] = {}]
      /\ UNCHANGED <<seq, rows, table, want, pos, announced, orderly, failures, restarts>>
  BY DEF MarkFinished, database, history, h
<1>5. Allocated'
  BY <1>1, <1>3, <1>4 DEF Struct, Allocated, PcValues
<1>6. HasIds'
  BY <1>4 DEF Struct, Allocated, HasIds
<1>7. \A u \in Threads : ids'[u] \subseteq ids[u] /\ Pending(u)' \subseteq Pending(u)
  BY <1>4 DEF Struct, Allocated, Pending
<1>8. IdsDisjoint'
  BY <1>4, <1>7 DEF Struct, IdsDisjoint
<1>9. ThreadKnown'
  <2>1. pc'[t] \in {"updating", "idle"}
    BY <1>4 DEF Struct, Allocated
  <2>2. ASSUME NEW u \in Threads, u # t
        PROVE  /\ pc'[u] \in {"fetching", "registered"} =>
                    \E m \in 0 .. seq' : /\ <<u, m>> \in gen'[HomeOf[u]].inFlight
                                         /\ \A p \in ids'[u] : m < p
               /\ pc'[u] \in {"registered", "running"} =>
                    ids'[u] \subseteq gen'[HomeOf[u]].unfinished
    <3>1. seq' = seq /\ pc'[u] = pc[u] /\ ids'[u] = ids[u] /\ ids[u] \cap ids[t] = {}
      BY <1>4, <2>2 DEF Struct, Allocated, IdsDisjoint
    <3>2. /\ gen'[HomeOf[u]].inFlight = gen[HomeOf[u]].inFlight
          /\ gen[HomeOf[u]].unfinished \ ids[t] \subseteq gen'[HomeOf[u]].unfinished
      BY <1>1, <1>3, <1>4, HomeAssumption, WritersAssumption DEF Struct, Allocated
    <3> QED
      BY <3>1, <3>2, ThreadKnownKept
  <2> QED
    BY <2>1, <2>2 DEF ThreadKnown
<1>10. QED
  BY <1>5, <1>6, <1>8, <1>9 DEF Struct

(* Updating stream_positions. *)
LEMMA UpdateTableStruct ==
    ASSUME Struct, NEW t \in Threads, ReadPosition(t) \/ Upsert(t)
    PROVE  Struct'
<1>1. /\ pc[t] \in {"updating", "upserting"}
      /\ UNCHANGED <<seq, rows, gen, want, ids, announced, orderly, failures, restarts>>
      /\ \/ /\ table' = table /\ pc' = [pc EXCEPT ![t] = "upserting"]
            /\ pos' = [pos EXCEPT ![t] = gen[HomeOf[t]].maxLocal]
         \/ /\ table' = [table EXCEPT ![HomeOf[t]] = Larger(table[HomeOf[t]], pos[t])]
            /\ pc' = [pc EXCEPT ![t] = "idle"]
            /\ pos' = [pos EXCEPT ![t] = 0]
  BY DEF ReadPosition, Upsert, CurrentTokenForWriter, database, history
<1>2. Allocated'
  <2>1. /\ HomeOf[t] \in Writers /\ HomeOf[t] \in Instances /\ seq \in Nat
        /\ gen[HomeOf[t]] \in GenUpTo(seq)
    BY HomeAssumption, WritersAssumption DEF Struct, Allocated
  <2>2. gen[HomeOf[t]].maxLocal \in 0 .. seq
    BY <2>1 DEF GenUpTo
  <2>3. table' \in [Writers -> 0 .. seq] /\ pos' \in [Threads -> 0 .. seq]
    BY <1>1, <2>1, <2>2 DEF Struct, Allocated, Larger
  <2> QED
    BY <1>1, <2>3 DEF Struct, Allocated, PcValues
<1>3. HasIds'
  BY <1>1 DEF Struct, Allocated, HasIds
<1>4. IdsDisjoint'
  BY <1>1 DEF Struct, Allocated, IdsDisjoint, Pending
<1>5. ThreadKnown'
  BY <1>1 DEF Struct, Allocated, ThreadKnown
<1>6. QED
  BY <1>2, <1>3, <1>4, <1>5 DEF Struct

(* Announcing a position. *)
LEMMA AnnounceStruct ==
    ASSUME Struct, NEW w \in Writers, Announce(w)
    PROVE  Struct'
<1>1. UNCHANGED <<seq, rows, table, gen, pc, want, ids, pos, orderly, failures, restarts>>
  BY DEF Announce, database, threads, history
<1>2. gen[w].maxLocal \in 0 .. seq
  BY WritersAssumption DEF Struct, Allocated, GenUpTo
<1>3. announced' \subseteq Writers \X (0 .. seq)
  <2>1. PICK p : /\ p \in {gen[w].maxLocal} \cup {q[2] : q \in rows}
                 /\ announced' = announced \cup {<<w, p>>}
    BY DEF Announce, CurrentTokenForWriter
  <2>2. p \in 0 .. seq
    BY <1>2, <2>1 DEF Struct, Allocated
  <2> QED
    BY <2>1, <2>2 DEF Struct, Allocated
<1>4. Allocated'
  BY <1>1, <1>3 DEF Struct, Allocated
<1>5. HasIds' /\ IdsDisjoint' /\ ThreadKnown'
  BY <1>1 DEF Struct, HasIds, IdsDisjoint, ThreadKnown, Pending
<1>6. QED
  BY <1>4, <1>5 DEF Struct

(* Handling an announcement. *)
LEMMA AdvanceStruct ==
    ASSUME Struct, NEW i \in Instances, NEW a \in announced, Advance(i, a)
    PROVE  Struct'
<1>1. gen' = [gen EXCEPT ![i] = AdvancePosition(gen[i], i, a[1], a[2])]
  BY DEF Advance
<1> DEFINE h == AdvancePosition(gen[i], i, a[1], a[2])
<1>2. a[1] \in Writers /\ a[2] \in 0 .. seq /\ seq \in Nat /\ gen[i] \in GenUpTo(seq)
  BY DEF Struct, Allocated
<1>3. Recording(gen[i], h, seq)
  BY <1>2, AdvanceRecording
<1>4. /\ gen' = [gen EXCEPT ![i] = h]
      /\ UNCHANGED <<seq, rows, table, pc, want, ids, pos, announced, orderly, failures, restarts>>
  BY <1>1 DEF Advance, database, threads, history
<1> HIDE DEF h
<1>5. Allocated'
  BY <1>3, <1>4 DEF Struct, Allocated, Recording
<1>6. HasIds' /\ IdsDisjoint'
  BY <1>4 DEF Struct, HasIds, IdsDisjoint, Pending
<1>7. ThreadKnown'
  <2>1. \A j \in Instances : /\ gen'[j].inFlight = gen[j].inFlight
                             /\ gen'[j].unfinished = gen[j].unfinished
    BY <1>3, <1>4 DEF Struct, Allocated, Recording
  <2>2. \A u \in Threads : HomeOf[u] \in Instances
    BY HomeAssumption, WritersAssumption
  <2> QED
    BY <1>4, <2>1, <2>2 DEF Struct, ThreadKnown
<1>8. QED
  BY <1>5, <1>6, <1>7 DEF Struct

(* Restarting a process. *)
LEMMA RestartStruct ==
    ASSUME Struct, NEW i \in Instances, Restart(i)
    PROVE  Struct'
<1> DEFINE h == LoadCurrentIds(i, table, rows, seq)
<1>1. Loads(h, i, table, rows, seq)
  BY LoadFields DEF Struct, Allocated
<1>2. h \in GenUpTo(seq)
  BY <1>1 DEF Loads
<1>3. /\ gen' = [gen EXCEPT ![i] = h]
      /\ pc' = [t \in Threads |-> IF t \in ThreadsOf(i) THEN "idle" ELSE pc[t]]
      /\ want' = [t \in Threads |-> IF t \in ThreadsOf(i) THEN 0 ELSE want[t]]
      /\ ids' = [t \in Threads |-> IF t \in ThreadsOf(i) THEN {} ELSE ids[t]]
      /\ pos' = [t \in Threads |-> IF t \in ThreadsOf(i) THEN 0 ELSE pos[t]]
      /\ restarts < MaxRestarts /\ restarts' = restarts + 1
      /\ orderly' = (orderly /\ OrderlyRestart(i))
      /\ UNCHANGED <<seq, rows, table, announced, failures>>
  BY DEF Restart, database
<1> HIDE DEF h
<1>4. Allocated'
  <2>1. gen' \in [Instances -> GenUpTo(seq')]
    BY <1>2, <1>3 DEF Struct, Allocated
  <2>2. /\ pc' \in [Threads -> PcValues] /\ want' \in [Threads -> Nat]
        /\ ids' \in [Threads -> SUBSET (1 .. seq')] /\ pos' \in [Threads -> 0 .. seq']
    BY <1>3 DEF Struct, Allocated, PcValues
  <2>3. restarts' \in 0 .. MaxRestarts
    BY <1>3, BoundsAssumption DEF Struct, Allocated
  <2>4. orderly' \in BOOLEAN
    BY <1>3
  <2> QED
    BY <1>3, <2>1, <2>2, <2>3, <2>4 DEF Struct, Allocated
<1>5. HasIds'
  BY <1>3 DEF Struct, HasIds
<1>6. \A u \in Threads : ids'[u] \subseteq ids[u] /\ Pending(u)' \subseteq Pending(u)
  BY <1>3 DEF Pending
<1>7. IdsDisjoint'
  BY <1>3, <1>6 DEF Struct, IdsDisjoint
<1>8. ThreadKnown'
  <2>1. \A u \in Threads : u \notin ThreadsOf(i) => HomeOf[u] # i /\ HomeOf[u] \in Instances
    BY HomeAssumption, WritersAssumption DEF ThreadsOf
  <2>2. \A u \in Threads : u \notin ThreadsOf(i) => gen'[HomeOf[u]] = gen[HomeOf[u]]
    BY <1>3, <2>1 DEF Struct, Allocated
  <2> QED
    BY <1>3, <2>2 DEF Struct, ThreadKnown
<1>9. QED
  BY <1>4, <1>5, <1>7, <1>8 DEF Struct

--------------------------------------------------------------------------------
(***************************************************************************)
(* The safety part of the invariant.                                       *)
(***************************************************************************)

(* Pending IDs were allocated. *)
LEMMA PendingType ==
    ASSUME Struct
    PROVE  /\ PendingOf \in [Threads -> SUBSET (1 .. seq)]
           /\ PendingOf \in [Threads -> SUBSET Nat]
           /\ \A t \in Threads : PendingOf[t] = Pending(t)
BY DEF Struct, Allocated, PendingOf, Pending

(* Every pending ID is accounted for in its process. *)
LEMMA AllCovered ==
    ASSUME Struct, NEW i \in Instances
    PROVE  Covered(gen[i], i, PendingOf)
<1> SUFFICES ASSUME NEW t \in Threads, NEW p \in PendingOf[t], HomeOf[t] = i
             PROVE  p \in gen[i].unfinished \/ \E f \in gen[i].inFlight : f[2] < p
  BY DEF Covered
<1>1. p \in ids[t] /\ pc[t] \in {"fetching", "registered", "running"}
  BY DEF PendingOf, Pending
<1>2. CASE pc[t] = "fetching"
  <2>1. PICK m \in 0 .. seq : /\ <<t, m>> \in gen[HomeOf[t]].inFlight
                              /\ \A q \in ids[t] : m < q
    BY <1>2 DEF Struct, ThreadKnown
  <2>2. <<t, m>>[2] = m
    OBVIOUS
  <2> QED
    BY <1>1, <2>1, <2>2
<1>3. CASE pc[t] \in {"registered", "running"}
  BY <1>1, <1>3 DEF Struct, ThreadKnown
<1>4. QED
  BY <1>1, <1>2, <1>3

(* Fewer pending IDs make everything safer. *)
LEMMA Shrink ==
    ASSUME NEW P, NEW Q, \A t \in Threads : Q[t] \subseteq P[t]
    PROVE  /\ \A w, x : Claim(w, x, P) => Claim(w, x, Q)
           /\ \A g, i : SafeGen(g, i, P) => SafeGen(g, i, Q)
<1>1. \A w, x : Claim(w, x, P) => Claim(w, x, Q)
  BY DEF Claim
<1>2. ASSUME NEW g, NEW i, SafeGen(g, i, P) PROVE SafeGen(g, i, Q)
  BY <1>1, <1>2 DEF SafeGen
<1>3. QED
  BY <1>1, <1>2

(* A step that adds no pending ID need only be safe for the old ones. *)
LEMMA SafeFromOld ==
    ASSUME \A t \in Threads : Pending(t)' \subseteq Pending(t),
           orderly' =>
             /\ \A w \in Writers : Claim(w, table'[w], PendingOf)
             /\ \A a \in announced' : Claim(a[1], a[2], PendingOf)
             /\ \A t \in Threads : Claim(HomeOf[t], pos'[t], PendingOf)
             /\ \A i \in Instances : SafeGen(gen'[i], i, PendingOf)
    PROVE  Safe'
<1> DEFINE Q == PendingOf'
<1>1. \A t \in Threads : Q[t] \subseteq PendingOf[t]
  BY DEF PendingOf
<1> HIDE DEF Q
<1>2. /\ \A w, x : Claim(w, x, PendingOf) => Claim(w, x, Q)
      /\ \A g, i : SafeGen(g, i, PendingOf) => SafeGen(g, i, Q)
  BY <1>1, Shrink
<1>3. orderly' =>
             /\ \A w \in Writers : Claim(w, table'[w], Q)
             /\ \A a \in announced' : Claim(a[1], a[2], Q)
             /\ \A t \in Threads : Claim(HomeOf[t], pos'[t], Q)
             /\ \A i \in Instances : SafeGen(gen'[i], i, Q)
  BY <1>2
<1>4. QED
  BY <1>3 DEF Safe, ClaimsSafe, Q, Claim, SafeGen

(* Initially nothing is pending. *)
LEMMA InitSafe == Init => Safe
BY DEF Init, Safe, ClaimsSafe, SafeGen, Claim, PendingOf, Pending

(* A generator whose tokens do not move stays safe, if what it has newly   *)
(* registered or seen is nobody else's.                                    *)
LEMMA SafeGenSameTokens ==
    ASSUME NEW g, NEW h, NEW i, NEW P, SafeGen(g, i, P), SameTokens(g, h),
           \A t \in Threads : \A p \in P[t] :
                HomeOf[t] # i => h.maxSeen # p /\ p \notin h.unfinished
    PROVE  SafeGen(h, i, P)
BY DEF SafeGen, SameTokens

(* Steps of a fetch other than drawing an ID. *)
LEMMA FetchSafe ==
    ASSUME Struct, Safe, NEW t \in Threads,
           FetchStart(t) \/ Register(t) \/ Release(t) \/ FetchFail(t)
    PROVE  Safe'
<1> DEFINE i == HomeOf[t]
<1>1. /\ i \in Instances /\ gen[i] \in GenUpTo(seq) /\ seq \in Nat
      /\ gen \in [Instances -> GenUpTo(seq)] /\ ids[t] \subseteq 0 .. seq
  BY HomeAssumption, WritersAssumption DEF Struct, Allocated
<1>2. UNCHANGED <<orderly, table, announced, pos>>
  BY DEF FetchStart, Register, Release, FetchFail, database, history
<1>3. \A u \in Threads : Pending(u)' \subseteq Pending(u)
  BY DEF FetchStart, Register, Release, FetchFail, Pending, Struct, Allocated, HasIds
<1>4. ASSUME orderly, NEW h, SameTokens(gen[i], h),
             gen' = [gen EXCEPT ![i] = h],
             h.maxSeen = gen[i].maxSeen \/ h.maxSeen \in gen[i].unfinished \cup ids[t],
             h.unfinished \subseteq gen[i].unfinished \cup ids[t]
      PROVE  \A j \in Instances : SafeGen(gen'[j], j, PendingOf)
  <2>1. SafeGen(gen[i], i, PendingOf)
    BY <1>1, <1>4 DEF Safe
  <2>2. \A u \in Threads : \A p \in PendingOf[u] :
            HomeOf[u] # i => p \notin ids[t] /\ p \notin gen[i].unfinished /\ p # gen[i].maxSeen
    <3>1. \A u \in Threads : PendingOf[u] \subseteq ids[u]
      BY DEF PendingOf, Pending
    <3> QED
      BY <2>1, <3>1 DEF SafeGen, Struct, IdsDisjoint
  <2>3. \A u \in Threads : \A p \in PendingOf[u] :
            HomeOf[u] # i => h.maxSeen # p /\ p \notin h.unfinished
    BY <1>4, <2>2
  <2>4. SafeGen(h, i, PendingOf)
    BY <1>4, <2>1, <2>3, SafeGenSameTokens
  <2>5. gen'[i] = h /\ \A j \in Instances : j # i => gen'[j] = gen[j]
    BY <1>1, <1>4
  <2> QED
    BY <1>4, <2>4, <2>5 DEF Safe
<1>5. orderly => \A j \in Instances : SafeGen(gen'[j], j, PendingOf)
  <2>1. CASE FetchStart(t)
    <3> DEFINE h == BeginFetch(gen[i], t)
    <3>1. gen' = [gen EXCEPT ![i] = h]
      BY <2>1 DEF FetchStart
    <3>2. /\ SameTokens(gen[i], h) /\ h.unfinished = gen[i].unfinished
          /\ h.maxSeen = gen[i].maxSeen
      BY <1>1, BeginFetchFields
    <3> HIDE DEF h
    <3> QED
      BY <1>4, <3>1, <3>2
  <2>2. CASE Register(t)
    <3> DEFINE h == RegisterFetched(gen[i], ids[t])
    <3>1. gen' = [gen EXCEPT ![i] = h] /\ ids[t] # {}
      BY <2>2 DEF Register, Struct, Allocated, HasIds
    <3>2. /\ SameTokens(gen[i], h) /\ h.unfinished = gen[i].unfinished \cup ids[t]
          /\ h.maxSeen = gen[i].maxSeen \/ h.maxSeen \in gen[i].unfinished \cup ids[t]
      BY <1>1, <3>1, RegisterFields
    <3> HIDE DEF h
    <3> QED
      BY <1>4, <3>1, <3>2
  <2>3. CASE Release(t) \/ FetchFail(t)
    <3> DEFINE h == EndFetch(gen[i], t)
    <3>1. gen' = [gen EXCEPT ![i] = h]
      BY <2>3 DEF Release, FetchFail
    <3>2. /\ SameTokens(gen[i], h) /\ h.unfinished = gen[i].unfinished
          /\ h.maxSeen = gen[i].maxSeen
      BY <1>1, EndFetchFields
    <3> HIDE DEF h
    <3> QED
      BY <1>4, <3>1, <3>2
  <2> QED
    BY <2>1, <2>2, <2>3
<1>6. orderly' => /\ \A w \in Writers : Claim(w, table'[w], PendingOf)
                  /\ \A a \in announced' : Claim(a[1], a[2], PendingOf)
                  /\ \A u \in Threads : Claim(HomeOf[u], pos'[u], PendingOf)
  BY <1>2 DEF Safe, ClaimsSafe
<1>7. QED
  BY <1>2, <1>3, <1>5, <1>6, SafeFromOld

(* The ID just drawn is above every position in the system. *)
LEMMA NextValSafe ==
    ASSUME Struct, Safe, NEW t \in Threads, NextVal(t)
    PROVE  Safe'
<1> DEFINE Q == PendingOf'
<1>1. seq \in Nat /\ UNCHANGED <<orderly, table, announced, pos, gen>>
  BY DEF NextVal, history, Struct, Allocated
<1>2. \A u \in Threads : \A p \in Q[u] : p \in PendingOf[u] \/ p = seq + 1
  BY DEF NextVal, PendingOf, Pending, Struct, Allocated
<1> HIDE DEF Q
<1>3. ASSUME NEW w, NEW x \in 0 .. seq, Claim(w, x, PendingOf)
      PROVE  Claim(w, x, Q)
  <2>1. x < seq + 1 /\ x # seq + 1
    BY <1>1
  <2> QED
    BY <1>2, <1>3, <2>1 DEF Claim
<1>4. ASSUME NEW i \in Instances, SafeGen(gen[i], i, PendingOf)
      PROVE  SafeGen(gen[i], i, Q)
  <2>1. /\ gen[i].positions \in [Writers -> 0 .. seq] /\ gen[i].maxLocal \in 0 .. seq
        /\ gen[i].persistedUpto \in 0 .. seq /\ gen[i].known \subseteq 0 .. seq
        /\ gen[i].finished \subseteq 0 .. seq /\ gen[i].maxSeen \in 0 .. seq
        /\ gen[i].unfinished \subseteq 0 .. seq
    BY DEF Struct, Allocated, GenUpTo
  <2>2. /\ \A w \in Writers : Claim(w, gen[i].positions[w], Q)
        /\ Claim(i, gen[i].maxLocal, Q)
    BY <1>3, <1>4, <2>1 DEF SafeGen
  <2>3. /\ seq + 1 \notin gen[i].known /\ seq + 1 \notin gen[i].finished
        /\ seq + 1 \notin gen[i].unfinished /\ gen[i].maxSeen # seq + 1
        /\ gen[i].persistedUpto < seq + 1
    BY <1>1, <2>1
  <2>4. ASSUME NEW u \in Threads, NEW p \in Q[u]
        PROVE  /\ gen[i].persistedUpto < p
               /\ p \notin gen[i].known
               /\ p \notin gen[i].finished
               /\ HomeOf[u] # i => gen[i].maxSeen # p /\ p \notin gen[i].unfinished
    BY <1>2, <1>4, <2>3 DEF SafeGen
  <2> QED
    BY <2>2, <2>4 DEF SafeGen
<1>5. orderly =>
             /\ \A w \in Writers : Claim(w, table[w], Q)
             /\ \A a \in announced : Claim(a[1], a[2], Q)
             /\ \A u \in Threads : Claim(HomeOf[u], pos[u], Q)
             /\ \A i \in Instances : SafeGen(gen[i], i, Q)
  <2>1. /\ \A w \in Writers : table[w] \in 0 .. seq
        /\ \A a \in announced : a[2] \in 0 .. seq
        /\ \A u \in Threads : pos[u] \in 0 .. seq
    BY DEF Struct, Allocated
  <2> QED
    BY <1>3, <1>4, <2>1 DEF Safe, ClaimsSafe
<1>6. QED
  BY <1>1, <1>5 DEF Safe, ClaimsSafe, Q, Claim, SafeGen

(* The end of a transaction only makes IDs cease to be pending. *)
LEMMA TransactionSafe ==
    ASSUME Struct, Safe, NEW t \in Threads, Commit(t) \/ Abort(t)
    PROVE  Safe'
<1>1. UNCHANGED <<orderly, table, announced, pos, gen>>
  BY DEF Commit, Abort, database, history
<1>2. \A u \in Threads : Pending(u)' \subseteq Pending(u)
  BY DEF Commit, Abort, Pending, Struct, Allocated
<1>3. QED
  BY <1>1, <1>2, SafeFromOld DEF Safe, ClaimsSafe

(* Finishing IDs. *)
LEMMA MarkFinishedSafe ==
    ASSUME Struct, Safe, NEW t \in Threads, MarkFinished(t)
    PROVE  Safe'
<1> DEFINE i == HomeOf[t]
           h == MarkIdsAsFinished(gen[i], i, ids[t])
<1>1. /\ i \in Writers /\ i \in Instances /\ gen[i] \in GenUpTo(seq) /\ seq \in Nat
      /\ ids[t] \subseteq 0 .. seq /\ gen \in [Instances -> GenUpTo(seq)]
  BY HomeAssumption, WritersAssumption DEF Struct, Allocated
<1>2. ids[t] # {} /\ pc[t] \in {"committed", "aborted"}
  BY DEF Struct, Allocated, HasIds, MarkFinished
<1>3. UNCHANGED <<orderly, table, announced, pos>> /\ gen' = [gen EXCEPT ![i] = h]
  BY DEF MarkFinished, database, history
<1>4. \A u \in Threads : Pending(u)' \subseteq Pending(u)
  BY DEF MarkFinished, Pending, Struct, Allocated
<1>5. \A u \in Threads : ids[t] \cap PendingOf[u] = {}
  <2>1. PendingOf[t] = {} /\ \A u \in Threads : PendingOf[u] \subseteq ids[u]
    BY <1>2 DEF PendingOf, Pending
  <2> QED
    BY <2>1 DEF Struct, IdsDisjoint
<1>6. orderly => SafeGen(h, i, PendingOf)
  <2>1. PendingOf \in [Threads -> SUBSET Nat] /\ Covered(gen[i], i, PendingOf)
    BY <1>1, PendingType, AllCovered
  <2>2. orderly => SafeGen(gen[i], i, PendingOf)
    BY <1>1 DEF Safe
  <2> QED
    BY <1>1, <1>2, <1>5, <2>1, <2>2, MarkSafe
<1> HIDE DEF h
<1>7. orderly => \A j \in Instances : SafeGen(gen'[j], j, PendingOf)
  <2>1. gen'[i] = h /\ \A j \in Instances : j # i => gen'[j] = gen[j]
    BY <1>1, <1>3
  <2> QED
    BY <1>6, <2>1 DEF Safe
<1>8. QED
  BY <1>3, <1>4, <1>7, SafeFromOld DEF Safe, ClaimsSafe

(* What goes into stream_positions may be claimed by the writer. *)
LEMMA UpdateTableSafe ==
    ASSUME Struct, Safe, NEW t \in Threads, ReadPosition(t) \/ Upsert(t)
    PROVE  Safe'
<1> DEFINE w == HomeOf[t]
<1>1. w \in Writers /\ w \in Instances
  BY HomeAssumption, WritersAssumption
<1>2. UNCHANGED <<orderly, announced, gen>>
  BY DEF ReadPosition, Upsert, database, history
<1>3. \A u \in Threads : Pending(u)' \subseteq Pending(u)
  BY DEF ReadPosition, Upsert, Pending, Struct, Allocated
<1>4. ASSUME orderly
      PROVE  /\ \A v \in Writers : Claim(v, table'[v], PendingOf)
             /\ \A u \in Threads : Claim(HomeOf[u], pos'[u], PendingOf)
  <2>1. CASE ReadPosition(t)
    <3>1. table' = table /\ pos' = [pos EXCEPT ![t] = gen[w].maxLocal]
      BY <2>1 DEF ReadPosition, CurrentTokenForWriter, database
    <3>2. Claim(w, gen[w].maxLocal, PendingOf)
      BY <1>1, <1>4 DEF Safe, SafeGen
    <3> QED
      BY <1>4, <3>1, <3>2 DEF Safe, ClaimsSafe, Struct, Allocated
  <2>2. CASE Upsert(t)
    <3>1. table' = [table EXCEPT ![w] = Larger(table[w], pos[t])] /\ pos' = [pos EXCEPT ![t] = 0]
      BY <2>2 DEF Upsert
    <3>2. Claim(w, Larger(table[w], pos[t]), PendingOf)
      BY <1>1, <1>4 DEF Safe, ClaimsSafe, Larger
    <3>3. Claim(w, 0, PendingOf)
      <4>1. \A u \in Threads : \A p \in PendingOf[u] : 0 < p
        BY PendingType DEF Struct, Allocated
      <4> QED
        BY <4>1 DEF Claim
    <3>4. \A v \in Writers : table'[v] = IF v = w THEN Larger(table[w], pos[t]) ELSE table[v]
      BY <3>1 DEF Struct, Allocated
    <3>5. \A u \in Threads : pos'[u] = IF u = t THEN 0 ELSE pos[u]
      BY <3>1 DEF Struct, Allocated
    <3>6. \A v \in Writers : Claim(v, table'[v], PendingOf)
      BY <1>4, <3>2, <3>4 DEF Safe, ClaimsSafe
    <3>7. \A u \in Threads : Claim(HomeOf[u], pos'[u], PendingOf)
      BY <1>4, <3>3, <3>5 DEF Safe, ClaimsSafe
    <3> QED
      BY <3>6, <3>7
  <2> QED
    BY <2>1, <2>2
<1>5. QED
  BY <1>2, <1>3, <1>4, SafeFromOld DEF Safe, ClaimsSafe

(* What is announced may be claimed by the writer. *)
LEMMA AnnounceSafe ==
    ASSUME Struct, Safe, NEW w \in Writers, Announce(w)
    PROVE  Safe'
<1>1. UNCHANGED <<orderly, table, pos, gen, pc, ids>>
  BY DEF Announce, database, threads, history
<1>2. \A u \in Threads : Pending(u)' \subseteq Pending(u)
  BY <1>1 DEF Pending
<1>3. PICK p : /\ \/ p = gen[w].maxLocal
                  \/ p <= gen[w].maxLocal /\ \E q \in rows : p = q[2]
               /\ announced' = announced \cup {<<w, p>>}
  BY DEF Announce, CurrentTokenForWriter
<1>4. orderly => Claim(w, p, PendingOf)
  <2> SUFFICES ASSUME orderly PROVE Claim(w, p, PendingOf)
    OBVIOUS
  <2>1. Claim(w, gen[w].maxLocal, PendingOf)
    BY WritersAssumption DEF Safe, SafeGen
  <2>2. CASE p = gen[w].maxLocal
    BY <2>1, <2>2
  <2>3. CASE p <= gen[w].maxLocal /\ \E q \in rows : p = q[2]
    <3>1. p \in Nat /\ gen[w].maxLocal \in Nat
      BY <2>3, WritersAssumption DEF Struct, Allocated, GenUpTo
    <3>2. \A u \in Threads : p \notin PendingOf[u] /\ PendingOf[u] \subseteq Nat
      BY <2>3, PendingType DEF Struct, IdsDisjoint
    <3> QED
      BY <2>1, <2>3, <3>1, <3>2 DEF Claim
  <2> QED
    BY <1>3, <2>2, <2>3
<1>5. orderly => \A a \in announced' : Claim(a[1], a[2], PendingOf)
  BY <1>3, <1>4 DEF Safe, ClaimsSafe
<1>6. QED
  BY <1>1, <1>2, <1>5, SafeFromOld DEF Safe, ClaimsSafe

(* Handling an announcement. *)
LEMMA AdvanceStepSafe ==
    ASSUME Struct, Safe, NEW i \in Instances, NEW a \in announced, Advance(i, a)
    PROVE  Safe'
<1>1. gen' = [gen EXCEPT ![i] = AdvancePosition(gen[i], i, a[1], a[2])]
  BY DEF Advance
<1> DEFINE h == AdvancePosition(gen[i], i, a[1], a[2])
<1>2. /\ a[1] \in Writers /\ a[2] \in 0 .. seq /\ seq \in Nat /\ gen[i] \in GenUpTo(seq)
      /\ gen \in [Instances -> GenUpTo(seq)]
  BY DEF Struct, Allocated
<1>3. UNCHANGED <<orderly, table, announced, pos, pc, ids>>
  BY DEF Advance, database, threads, history
<1>4. \A u \in Threads : Pending(u)' \subseteq Pending(u)
  BY <1>3 DEF Pending
<1>5. orderly => SafeGen(h, i, PendingOf)
  <2>1. PendingOf \in [Threads -> SUBSET Nat] /\ Covered(gen[i], i, PendingOf)
    BY PendingType, AllCovered
  <2>2. orderly => SafeGen(gen[i], i, PendingOf) /\ Claim(a[1], a[2], PendingOf)
    BY DEF Safe, ClaimsSafe
  <2> QED
    BY <1>2, <2>1, <2>2, AdvanceSafe
<1> HIDE DEF h
<1>6. orderly => \A j \in Instances : SafeGen(gen'[j], j, PendingOf)
  <2>1. gen'[i] = h /\ \A j \in Instances : j # i => gen'[j] = gen[j]
    BY <1>1, <1>2 DEF h
  <2> QED
    BY <1>5, <2>1 DEF Safe
<1>7. QED
  BY <1>3, <1>4, <1>6, SafeFromOld DEF Safe, ClaimsSafe

(* Restarting in an orderly way. *)
LEMMA RestartSafe ==
    ASSUME Struct, Safe, NEW i \in Instances, Restart(i)
    PROVE  Safe'
<1> DEFINE h == LoadCurrentIds(i, table, rows, seq)
           Q == PendingOf'
<1>1. /\ seq \in Nat /\ gen' = [gen EXCEPT ![i] = h]
      /\ orderly' = (orderly /\ OrderlyRestart(i))
      /\ gen \in [Instances -> GenUpTo(seq)] /\ table \in [Writers -> 0 .. seq]
      /\ UNCHANGED <<table, announced>>
      /\ pos' = [t \in Threads |-> IF t \in ThreadsOf(i) THEN 0 ELSE pos[t]]
  BY DEF Restart, Struct, Allocated, database
<1>2. \A t \in Threads : Q[t] = IF HomeOf[t] = i THEN {} ELSE PendingOf[t]
  BY DEF Restart, PendingOf, Pending, ThreadsOf
<1>3. /\ \A t \in Threads : Q[t] \subseteq PendingOf[t]
      /\ Q \in [Threads -> SUBSET (0 .. seq)]
  <2>1. PendingOf \in [Threads -> SUBSET (1 .. seq)]
    BY PendingType
  <2>2. Q = [t \in Threads |-> Q[t]]
    BY DEF PendingOf
  <2> HIDE DEF Q
  <2>3. \A t \in Threads : Q[t] \subseteq PendingOf[t] /\ Q[t] \subseteq 0 .. seq
    BY <1>1, <1>2, <2>1
  <2> QED
    BY <2>2, <2>3
<1> HIDE DEF Q
<1>4. /\ \A w, x : Claim(w, x, PendingOf) => Claim(w, x, Q)
      /\ \A g, j : SafeGen(g, j, PendingOf) => SafeGen(g, j, Q)
  BY <1>3, Shrink
<1>5. ASSUME orderly' PROVE SafeGen(h, i, Q)
  <2>1. Loads(h, i, table, rows, seq)
    BY LoadFields DEF Struct, Allocated
  <2>2. OrderlyRestart(i) /\ orderly
    BY <1>1, <1>5
  <2>3. \A t \in Threads : Q[t] # {} => HomeOf[t] # i /\ table[HomeOf[t]] # NoEntry
    BY <1>2, <2>2 DEF OrderlyRestart, PendingOf, ThreadsOf
  <2>4. i \in Writers => \A t \in Threads : seq \notin Q[t]
    <3>1. i \in Writers => \A t \in Threads \ ThreadsOf(i) : seq \notin Pending(t)
      BY <2>2 DEF OrderlyRestart, PendingElsewhere
    <3> QED
      BY <1>2, <3>1 DEF ThreadsOf, PendingOf
  <2>5. \A w \in Writers : Claim(w, table[w], Q)
    BY <1>4, <2>2 DEF Safe, ClaimsSafe
  <2>6. \A r \in rows : \A t \in Threads : r[2] \notin Q[t]
    BY <1>3, PendingType DEF Struct, IdsDisjoint
  <2> HIDE DEF h
  <2> QED
    BY <1>1, <1>3, <2>1, <2>3, <2>4, <2>5, <2>6, LoadSafe
<1> HIDE DEF h
<1>6. orderly' =>
             /\ \A w \in Writers : Claim(w, table[w], Q)
             /\ \A a \in announced : Claim(a[1], a[2], Q)
             /\ \A j \in Instances : SafeGen(gen'[j], j, Q)
  <2>1. gen'[i] = h /\ \A j \in Instances : j # i => gen'[j] = gen[j]
    BY <1>1
  <2> QED
    BY <1>1, <1>4, <1>5, <2>1 DEF Safe, ClaimsSafe
<1>7. ASSUME orderly', NEW t \in Threads PROVE Claim(HomeOf[t], pos'[t], Q)
  <2>1. CASE t \in ThreadsOf(i)
    <3>1. \A u \in Threads : \A p \in Q[u] : 0 < p
      BY <1>3, PendingType DEF Struct, Allocated
    <3>2. pos'[t] = 0
      BY <1>1, <2>1
    <3> QED
      BY <3>1, <3>2 DEF Claim
  <2>2. CASE t \notin ThreadsOf(i)
    BY <1>1, <1>4, <1>7, <2>2 DEF Safe, ClaimsSafe
  <2> QED
    BY <2>1, <2>2
<1>8. QED
  BY <1>1, <1>6, <1>7 DEF Safe, ClaimsSafe, Q, Claim, SafeGen

--------------------------------------------------------------------------------
(***************************************************************************)
(* The theorems.                                                           *)
(***************************************************************************)

(* The invariant is inductive. *)
LEMMA IInvStep == IInv /\ [Next]_vars => IInv'
<1> SUFFICES ASSUME Struct, Safe, [Next]_vars PROVE Struct' /\ Safe'
  BY DEF IInv
<1>1. ASSUME NEW t \in Threads, FetchStart(t) PROVE Struct' /\ Safe'
  BY <1>1, FetchStartStruct, FetchSafe
<1>2. ASSUME NEW t \in Threads, NextVal(t) PROVE Struct' /\ Safe'
  BY <1>2, NextValStruct, NextValSafe
<1>3. ASSUME NEW t \in Threads, Register(t) PROVE Struct' /\ Safe'
  BY <1>3, RegisterStruct, FetchSafe
<1>4. ASSUME NEW t \in Threads, Release(t) \/ FetchFail(t) PROVE Struct' /\ Safe'
  BY <1>4, EndFetchStruct, FetchSafe
<1>5. ASSUME NEW t \in Threads, Commit(t) \/ Abort(t) PROVE Struct' /\ Safe'
  BY <1>5, TransactionStruct, TransactionSafe
<1>6. ASSUME NEW t \in Threads, MarkFinished(t) PROVE Struct' /\ Safe'
  BY <1>6, MarkFinishedStruct, MarkFinishedSafe
<1>7. ASSUME NEW t \in Threads, ReadPosition(t) \/ Upsert(t) PROVE Struct' /\ Safe'
  BY <1>7, UpdateTableStruct, UpdateTableSafe
<1>8. ASSUME NEW w \in Writers, Announce(w) PROVE Struct' /\ Safe'
  BY <1>8, AnnounceStruct, AnnounceSafe
<1>9. ASSUME NEW i \in Instances, NEW a \in announced, Advance(i, a) PROVE Struct' /\ Safe'
  BY <1>9, AdvanceStruct, AdvanceStepSafe
<1>10. ASSUME NEW i \in Instances, Restart(i) PROVE Struct' /\ Safe'
  BY <1>10, RestartStruct, RestartSafe
<1>11. CASE UNCHANGED vars
  <2>1. UNCHANGED <<seq, rows, table, gen, pc, want, ids, pos, announced, orderly,
                    failures, restarts>>
    BY <1>11 DEF vars, database, threads, history
  <2>2. Struct'
    BY <2>1 DEF Struct, Allocated, HasIds, IdsDisjoint, ThreadKnown, Pending
  <2>3. \A t \in Threads : Pending(t)' = Pending(t)
    BY <2>1 DEF Pending
  <2>4. Safe'
    BY <2>1, <2>3, SafeFromOld DEF Safe, ClaimsSafe
  <2> QED
    BY <2>2, <2>4
<1>12. QED
  BY <1>1, <1>2, <1>3, <1>4, <1>5, <1>6, <1>7, <1>8, <1>9, <1>10, <1>11 DEF Next

(* Every behaviour of the generators satisfies the inductive invariant. *)
THEOREM Invariance == Spec => []IInv
<1>1. Init => IInv
  BY InitStruct, InitSafe DEF IInv
<1>2. QED
  BY <1>1, IInvStep, PTL DEF Spec

(* Only announcements are heard. *)
Heard == heard \in [Instances -> SUBSET (Writers \X Nat)]

(* What a process has handled was announced (advance). *)
LEMMA HeardTyped == Spec => []Heard
<1>1. Init => Heard
  BY DEF Init, Heard
<1>2. IInv /\ Heard /\ [Next]_vars => Heard'
  <2> SUFFICES ASSUME Struct, Heard, [Next]_vars PROVE Heard'
    BY DEF IInv
  <2>1. announced \subseteq Writers \X Nat
    BY DEF Struct, Allocated
  <2>2. ASSUME NEW i \in Instances, NEW a \in announced, Advance(i, a) PROVE Heard'
    BY <2>1, <2>2 DEF Advance, Heard
  <2>3. ASSUME NEW t \in Threads,
               \/ FetchStart(t) \/ NextVal(t) \/ Register(t) \/ Release(t) \/ FetchFail(t)
               \/ Commit(t) \/ Abort(t) \/ MarkFinished(t) \/ ReadPosition(t) \/ Upsert(t)
        PROVE  UNCHANGED heard
    BY <2>3 DEF FetchStart, NextVal, Register, Release, FetchFail, Commit, Abort, MarkFinished,
                ReadPosition, Upsert
  <2>4. ASSUME NEW w \in Writers, Announce(w) PROVE UNCHANGED heard
    BY <2>4 DEF Announce
  <2>5. ASSUME NEW i \in Instances, Restart(i) PROVE UNCHANGED heard
    BY <2>5 DEF Restart
  <2>6. CASE UNCHANGED vars
    BY <2>6 DEF vars, Heard
  <2> QED
    BY <2>2, <2>3, <2>4, <2>5, <2>6 DEF Next, Heard
<1>3. QED
  BY <1>1, <1>2, Invariance, PTL DEF Spec

(* Type correctness: the bookkeeping of the generators never leaves its    *)
(* types, whatever the interleaving, the failures and the restarts.        *)
THEOREM TypeCorrect == Spec => []TypeOK
<1>1. IInv /\ Heard => TypeOK
  <2> SUFFICES ASSUME Allocated, Heard PROVE TypeOK
    BY DEF IInv, Struct
  <2>1. seq \in Nat /\ 0 .. seq \subseteq Nat /\ 1 .. seq \subseteq Nat
    BY DEF Allocated
  <2>2. GenUpTo(seq) \subseteq Generator
    <3>1. ASSUME NEW g \in GenUpTo(seq) PROVE g \in Generator
      <4>1. /\ g.positions \in [Writers -> Nat]
            /\ g.inFlight \in SUBSET (Threads \X Nat)
        BY <2>1 DEF GenUpTo
      <4>2. /\ g.unfinished \in SUBSET Nat /\ g.finished \in SUBSET Nat
            /\ g.known \in SUBSET Nat
            /\ g.persistedUpto \in Nat /\ g.maxSeen \in Nat /\ g.maxLocal \in Nat
        BY <2>1 DEF GenUpTo
      <4>3. g = [ positions |-> g.positions, unfinished |-> g.unfinished,
                  inFlight |-> g.inFlight, finished |-> g.finished,
                  persistedUpto |-> g.persistedUpto, known |-> g.known,
                  maxSeen |-> g.maxSeen, maxLocal |-> g.maxLocal ]
        BY DEF GenUpTo
      <4> QED
        BY <4>1, <4>2, <4>3 DEF Generator
    <3> QED
      BY <3>1
  <2> QED
    BY <2>1, <2>2 DEF Allocated, TypeOK, Heard
<1>2. QED
  BY <1>1, Invariance, HeardTyped, PTL

(* get_current_token never covers an ID whose transaction is still open,   *)
(* for any number of processes, threads and IDs, if restarts are orderly.  *)
THEOREM TokenSafety == Spec => []PersistedUptoSafe
<1>1. IInv => PersistedUptoSafe
  <2> SUFFICES ASSUME Struct, Safe, orderly, NEW i \in Instances, NEW id \in AllPending
               PROVE  gen[i].persistedUpto < id
    BY DEF IInv, PersistedUptoSafe
  <2>1. PICK t \in Threads : id \in PendingOf[t]
    BY DEF AllPending, PendingOf
  <2> QED
    BY <2>1 DEF Safe, SafeGen
<1>2. QED
  BY <1>1, Invariance, PTL

(* Neither what a writer announces, nor what it stores in stream_positions *)
(* nor the token it gives for itself covers one of its own open IDs.       *)
THEOREM OwnTokenSafety == Spec => []OwnTokenSafe
<1>1. IInv => OwnTokenSafe
  <2> SUFFICES ASSUME Struct, Safe, orderly, NEW w \in Writers, NEW id \in PendingAt(w)
               PROVE  /\ CurrentTokenForWriter(gen[w], w, w) < id
                      /\ table[w] < id
                      /\ \A a \in announced : a[1] = w => a[2] < id
    BY DEF IInv, OwnTokenSafe
  <2>1. PICK t \in Threads : HomeOf[t] = w /\ id \in PendingOf[t]
    BY DEF PendingAt, ThreadsOf, PendingOf
  <2>2. CurrentTokenForWriter(gen[w], w, w) < id
    BY <2>1, WritersAssumption DEF Safe, SafeGen, Claim, CurrentTokenForWriter
  <2>3. table[w] < id /\ \A a \in announced : a[1] = w => a[2] < id
    BY <2>1 DEF Safe, ClaimsSafe, Claim
  <2> QED
    BY <2>2, <2>3
<1>2. QED
  BY <1>1, Invariance, PTL

(* A token computed from a record that moved forward did not go back. *)
LEMMA TokenForward ==
    ASSUME NEW B \in Nat, NEW g \in GenUpTo(B), NEW h \in GenUpTo(B), Forward(g, h),
           NEW self, NEW w \in Writers
    PROVE  CurrentTokenForWriter(g, self, w) <= CurrentTokenForWriter(h, self, w)
<1>1. \A x \in {g, h} : /\ x.positions[w] \in Nat /\ x.persistedUpto \in Nat
                        /\ x.maxLocal \in Nat
  BY DEF GenUpTo
<1>2. QED
  BY <1>1 DEF Forward, CurrentTokenForWriter, Larger

(* No step but a restart takes a generator back. *)
LEMMA StepForward ==
    ASSUME Struct, [Next]_vars, restarts' = restarts, NEW i \in Instances
    PROVE  Forward(gen[i], gen'[i])
<1>1. /\ gen \in [Instances -> GenUpTo(seq)] /\ seq \in Nat
      /\ \A t \in Threads : HomeOf[t] \in Writers /\ HomeOf[t] \in Instances
  BY HomeAssumption, WritersAssumption DEF Struct, Allocated
<1>2. \A j \in Instances : Forward(gen[j], gen[j])
  <2>1. \A j \in Instances : /\ gen[j].persistedUpto \in Nat /\ gen[j].maxLocal \in Nat
                             /\ \A w \in Writers : gen[j].positions[w] \in Nat
    BY <1>1 DEF GenUpTo
  <2> QED
    BY <2>1 DEF Forward
<1>3. ASSUME NEW j \in Instances, NEW h, gen' = [gen EXCEPT ![j] = h], Forward(gen[j], h)
      PROVE  Forward(gen[i], gen'[i])
  BY <1>1, <1>2, <1>3
<1>4. ASSUME NEW j \in Instances, NEW h, SameTokens(gen[j], h) PROVE Forward(gen[j], h)
  BY <1>2, <1>4 DEF SameTokens, Forward
<1>5. ASSUME NEW t \in Threads, FetchStart(t) PROVE Forward(gen[i], gen'[i])
  <2>1. SameTokens(gen[HomeOf[t]], BeginFetch(gen[HomeOf[t]], t))
    BY <1>1, BeginFetchFields
  <2> QED
    BY <1>1, <1>3, <1>4, <1>5, <2>1 DEF FetchStart
<1>6. ASSUME NEW t \in Threads, Register(t) PROVE Forward(gen[i], gen'[i])
  <2>1. ids[t] # {} /\ ids[t] \subseteq 0 .. seq
    BY <1>6 DEF Register, Struct, Allocated, HasIds
  <2>2. SameTokens(gen[HomeOf[t]], RegisterFetched(gen[HomeOf[t]], ids[t]))
    BY <1>1, <2>1, RegisterFields
  <2> QED
    BY <1>1, <1>3, <1>4, <1>6, <2>2 DEF Register
<1>7. ASSUME NEW t \in Threads, Release(t) \/ FetchFail(t) PROVE Forward(gen[i], gen'[i])
  <2>1. SameTokens(gen[HomeOf[t]], EndFetch(gen[HomeOf[t]], t))
    BY <1>1, EndFetchFields
  <2> QED
    BY <1>1, <1>3, <1>4, <1>7, <2>1 DEF Release, FetchFail
<1>8. ASSUME NEW t \in Threads, MarkFinished(t) PROVE Forward(gen[i], gen'[i])
  <2>1. ids[t] # {} /\ ids[t] \subseteq 0 .. seq
    BY <1>8 DEF MarkFinished, Struct, Allocated, HasIds
  <2>2. Forward(gen[HomeOf[t]], MarkIdsAsFinished(gen[HomeOf[t]], HomeOf[t], ids[t]))
    BY <1>1, <2>1, MarkRecording
  <2> QED
    BY <1>1, <1>3, <1>8, <2>2 DEF MarkFinished
<1>9. ASSUME NEW j \in Instances, NEW a \in announced, Advance(j, a) PROVE Forward(gen[i], gen'[i])
  <2>1. gen' = [gen EXCEPT ![j] = AdvancePosition(gen[j], j, a[1], a[2])]
    BY <1>9 DEF Advance
  <2>2. a[1] \in Writers /\ a[2] \in 0 .. seq
    BY DEF Struct, Allocated
  <2>3. Forward(gen[j], AdvancePosition(gen[j], j, a[1], a[2]))
    BY <1>1, <2>2, AdvanceRecording DEF Recording
  <2> QED
    BY <1>3, <2>1, <2>3
<1>10. ASSUME NEW j \in Instances, Restart(j) PROVE FALSE
  BY <1>10 DEF Restart, Struct, Allocated
<1>11. ASSUME UNCHANGED gen PROVE Forward(gen[i], gen'[i])
  BY <1>2, <1>11
<1>12. ASSUME NEW t \in Threads, \/ NextVal(t) \/ Commit(t) \/ Abort(t)
                                 \/ ReadPosition(t) \/ Upsert(t)
       PROVE  UNCHANGED gen
  BY <1>12 DEF NextVal, Commit, Abort, ReadPosition, Upsert
<1>13. ASSUME NEW w \in Writers, Announce(w) PROVE UNCHANGED gen
  BY <1>13 DEF Announce
<1>14. CASE UNCHANGED vars
  BY <1>11, <1>14 DEF vars
<1>15. QED
  BY <1>5, <1>6, <1>7, <1>8, <1>9, <1>10, <1>11, <1>12, <1>13, <1>14 DEF Next

(* stream_positions never goes back. *)
LEMMA StepTableForward ==
    ASSUME Struct, [Next]_vars, NEW w \in Writers
    PROVE  table[w] <= table'[w]
<1>1. table \in [Writers -> Nat] /\ pos \in [Threads -> Nat]
  BY DEF Struct, Allocated
<1>2. ASSUME NEW t \in Threads, Upsert(t) PROVE table[w] <= table'[w]
  BY <1>1, <1>2 DEF Upsert, Larger
<1>3. ASSUME NEW t \in Threads,
             \/ FetchStart(t) \/ NextVal(t) \/ Register(t) \/ Release(t) \/ FetchFail(t)
             \/ Commit(t) \/ Abort(t) \/ MarkFinished(t) \/ ReadPosition(t)
      PROVE  UNCHANGED table
  BY <1>3 DEF FetchStart, NextVal, Register, Release, FetchFail, Commit, Abort, MarkFinished,
              ReadPosition, database
<1>4. ASSUME NEW v \in Writers, Announce(v) PROVE UNCHANGED table
  BY <1>4 DEF Announce, database
<1>5. ASSUME NEW i \in Instances, Restart(i) \/ \E a \in announced : Advance(i, a)
      PROVE  UNCHANGED table
  BY <1>5 DEF Advance, Restart, database
<1>6. CASE UNCHANGED vars
  BY <1>1, <1>6 DEF vars, database
<1>7. QED
  BY <1>1, <1>2, <1>3, <1>4, <1>5, <1>6 DEF Next

(* Two numbers have a common bound. *)
LEMMA CommonBound == \A m, n \in Nat : \E b \in Nat : m <= b /\ n <= b
<1> TAKE m, n \in Nat
<1>1. CASE m <= n
  BY <1>1
<1>2. CASE n <= m
  BY <1>2
<1>3. QED
  BY <1>1, <1>2

(* No token goes backwards while a process lives, and stream_positions     *)
(* never does.                                                             *)
THEOREM Monotonicity == Spec => TokensMonotonic
<1>1. IInv /\ IInv' /\ [Next]_vars => TokensMonotonicStep
  <2> SUFFICES ASSUME Struct, Struct', [Next]_vars PROVE TokensMonotonicStep
    BY DEF IInv
  <2>1. ASSUME restarts' = restarts, NEW i \in Instances
        PROVE  /\ gen[i].persistedUpto <= gen'[i].persistedUpto
               /\ \A w \in Writers :
                    CurrentTokenForWriter(gen[i], i, w) <= CurrentTokenForWriter(gen'[i], i, w)
    <3>1. Forward(gen[i], gen'[i])
      BY <2>1, StepForward
    <3>2. PICK B \in Nat : seq <= B /\ seq' <= B
      <4>1. seq \in Nat /\ seq' \in Nat
        BY DEF Struct, Allocated
      <4> QED
        BY <4>1, CommonBound
    <3>3. gen[i] \in GenUpTo(B) /\ gen'[i] \in GenUpTo(B)
      <4>1. GenUpTo(seq) \subseteq GenUpTo(B) /\ GenUpTo(seq') \subseteq GenUpTo(B)
        BY <3>2, GenUpToMonotonic DEF Struct, Allocated
      <4>2. gen[i] \in GenUpTo(seq) /\ gen'[i] \in GenUpTo(seq')
        BY DEF Struct, Allocated
      <4> QED
        BY <4>1, <4>2
    <3> QED
      BY <3>1, <3>3, TokenForward DEF Forward
  <2> QED
    BY <2>1, StepTableForward DEF TokensMonotonicStep
<1>2. QED
  BY <1>1, Invariance, PTL DEF Spec, TokensMonotonic

--------------------------------------------------------------------------------
(***************************************************************************)
(* An idle writer's token covers its rows.  Three facts about each process *)
(* lead there: what its generator holds as in progress belongs to a thread *)
(* in progress; it holds back finished IDs only while something is; and a  *)
(* row of its own that its token does not cover is held back or about to   *)
(* be marked as finished.                                                  *)
(***************************************************************************)

(* Thread t of process i is fetching IDs. *)
Fetching(i, t) == t \in Threads /\ HomeOf[t] = i /\ pc[t] \in {"fetching", "registered"}

(* Thread t of process i has registered the ID u and not yet finished it. *)
Holding(i, t, u) ==
    /\ HomeOf[t] = i
    /\ u \in ids[t]
    /\ pc[t] \in {"registered", "running", "committed", "aborted"}

InProgressKnown ==
    \A i \in Instances :
        /\ \A f \in gen[i].inFlight : Fetching(i, f[1])
        /\ \A u \in gen[i].unfinished : \E t \in Threads : Holding(i, t, u)

(* A fetch that fails takes its mark away and passes nothing. *)
HeldBack ==
    failures = 0 => \A i \in Instances :
        gen[i].finished # {} => ~NothingInProgress(gen[i])

(* Generator g of writer w has row x of its own behind its token, holds it *)
(* back, or has yet to be told that it is finished.                        *)
RowKnown(w, x) ==
    \/ x <= gen[w].maxLocal
    \/ x \in gen[w].finished
    \/ \E t \in Threads : HomeOf[t] = w /\ pc[t] = "committed" /\ x \in ids[t]

RowsAccounted == \A r \in rows : RowKnown(r[1], r[2])

Accounted == InProgressKnown /\ HeldBack /\ RowsAccounted

(* MoveOwnPosition passes what is below everything unfinished and no more. *)
LEMMA MoveOwnPositionPasses ==
    ASSUME NEW B \in Nat, NEW g \in GenUpTo(B), NEW self \in Writers,
           NEW new, new \subseteq 0 .. B,
           NEW h, h = MoveOwnPosition(g, self, new)
    PROVE  /\ \A s \in g.finished \cup new : s <= h.maxLocal \/ s \in h.finished
           /\ NothingInProgress(h) => h.finished = {}
<1> DEFINE g1 == [g EXCEPT !.unfinished = @ \ new, !.finished = @ \cup new]
           passed == Passable(g1)
           newCur == Max(passed)
           ps == [g1.positions EXCEPT ![self] = Larger(g1.positions[self], newCur)]
           ml == Larger(g1.positions[self], Larger(newCur, g1.maxLocal))
           fin == g1.finished \ passed
<1>1. /\ g1 \in GenUpTo(B)
      /\ g1.unfinished = g.unfinished \ new /\ g1.finished = g.finished \cup new
      /\ g1.inFlight = g.inFlight
      /\ g1.positions[self] \in 0 .. B /\ g1.maxLocal \in 0 .. B
  BY DEF GenUpTo
<1> HIDE DEF g1
<1>2. passed \subseteq 0 .. B
  BY <1>1 DEF Passable, GenUpTo
<1>3. NothingInProgress(g1) => g1.finished = passed
  BY DEF NothingInProgress, Passable, UnfinishedFloor
<1>4. CASE passed = {}
  <2>1. h = g1
    BY <1>4 DEF MoveOwnPosition, g1
  <2> QED
    BY <1>1, <1>3, <1>4, <2>1
<1>5. CASE passed # {}
  <2>1. newCur \in passed /\ \A s \in passed : s <= newCur
    BY <1>2, <1>5, MaxProps
  <2>2. \A s \in passed : s <= ml
    BY <1>1, <1>2, <2>1 DEF Larger
  <2>3. h = [g1 EXCEPT !.finished = fin, !.positions = ps, !.maxLocal = ml]
    BY <1>1, <1>5 DEF MoveOwnPosition, g1, GenUpTo
  <2> HIDE DEF ps, ml, newCur, passed
  <2>4. /\ h.finished = fin /\ h.maxLocal = ml
        /\ h.unfinished = g1.unfinished /\ h.inFlight = g1.inFlight
    <3> HIDE DEF fin
    <3> QED
      BY <1>1, <2>3 DEF GenUpTo
  <2>5. NothingInProgress(h) => h.finished = {}
    BY <1>3, <2>4 DEF NothingInProgress
  <2> QED
    BY <1>1, <2>2, <2>4, <2>5
<1>6. QED
  BY <1>4, <1>5

(* What is finished is passed or held back; with nothing in progress,      *)
(* nothing is held back.                                                   *)
LEMMA MarkPasses ==
    ASSUME NEW B \in Nat, NEW g \in GenUpTo(B), NEW self \in Writers,
           NEW new, new \subseteq 0 .. B, new # {},
           NEW h, h = MarkIdsAsFinished(g, self, new)
    PROVE  /\ \A s \in g.finished \cup new : s <= h.maxLocal \/ s \in h.finished
           /\ NothingInProgress(h) => h.finished = {}
<1> DEFINE h1 == MoveOwnPosition(g, self, new)
<1>1. PICK c \in 0 .. B : Finished(g, h1, self, new, c, B)
  BY MoveOwnPositionFields
<1>2. /\ \A s \in g.finished \cup new : s <= h1.maxLocal \/ s \in h1.finished
      /\ NothingInProgress(h1) => h1.finished = {}
  BY MoveOwnPositionPasses
<1>3. h = AddPersistedPositions(h1, self, new)
  BY DEF MarkIdsAsFinished
<1> HIDE DEF h1
<1>4. h1 \in GenUpTo(B) /\ Recording(h1, h, B) /\ h.finished = h1.finished
  <2>1. h1 \in GenUpTo(B)
    BY <1>1 DEF Finished
  <2>2. Recording(h1, h, B)
    BY <1>3, <2>1, AddAllRecording
  <2> QED
    BY <2>1, <2>2 DEF Recording
<1>5. /\ h1.maxLocal \in Nat /\ h.maxLocal \in Nat /\ h1.maxLocal <= h.maxLocal
      /\ \A s \in g.finished \cup new : s \in Nat
  BY <1>4 DEF GenUpTo, Recording, Forward
<1>6. NothingInProgress(h) => NothingInProgress(h1)
  BY <1>4 DEF Recording, NothingInProgress
<1>7. ASSUME NEW s \in g.finished \cup new PROVE s <= h.maxLocal \/ s \in h.finished
  BY <1>2, <1>4, <1>5
<1>8. QED
  BY <1>2, <1>4, <1>6, <1>7

(* A writer that restarts covers all its rows with its token. *)
LEMMA LoadCoversOwn ==
    ASSUME NEW B \in Nat, FirstPosition <= B, NEW self \in Writers,
           NEW tab \in [Writers -> 0 .. B], NEW rws, rws \subseteq Writers \X (0 .. B),
           NEW q \in rws, q[1] = self
    PROVE  q[2] <= LoadCurrentIds(self, tab, rws, B).maxLocal
<1> DEFINE loaded == {w \in Writers : tab[w] # NoEntry \/ w = self}
           read == [w \in Writers |-> IF w = self THEN B ELSE tab[w]]
           minId == Min({read[w] : w \in loaded})
           later == {r \in rws : r[2] >= minId}
           own == {r[2] : r \in {p \in later : p[1] = self}}
           persisted == {r[2] : r \in later}
           upto == SkipForward(persisted, minId)
           positions == [w \in Writers |->
                            IF w \notin loaded THEN upto
                            ELSE IF w = self /\ own # {} THEN Max(own)
                            ELSE read[w]]
           S == {positions[w] : w \in Writers}
           maxSeen == Larger(Max(S), upto)
<1>1. self \in loaded
  OBVIOUS
<1>2. LoadCurrentIds(self, tab, rws, B).maxLocal = maxSeen
  BY <1>1 DEF LoadCurrentIds
<1>3. read \in [Writers -> 0 .. B] /\ q[2] \in 0 .. B
  OBVIOUS
<1>4. minId \in 0 .. B
  <2> DEFINE R == {read[w] : w \in loaded}
  <2>1. R \subseteq Nat /\ R \subseteq 0 .. B /\ R # {}
    BY <1>1, <1>3
  <2>2. Min(R) \in R
    BY <2>1, MinProps
  <2> QED
    BY <2>1, <2>2
<1>5. own \subseteq 0 .. B /\ persisted \subseteq 0 .. B
  OBVIOUS
<1>6. q[2] >= minId => q[2] \in own
  OBVIOUS
<1> HIDE DEF minId, own, persisted, read
<1>7. upto \in 0 .. B /\ upto >= minId
  BY <1>4, <1>5, SkipForwardProps
<1>8. own # {} => Max(own) \in own /\ \A y \in own : y <= Max(own)
  BY <1>5, MaxProps
<1> HIDE DEF upto
<1>9. positions \in [Writers -> 0 .. B]
  BY <1>3, <1>5, <1>7, <1>8
<1>10. q[2] < minId \/ q[2] <= positions[self]
  BY <1>1, <1>3, <1>4, <1>6, <1>8
<1> HIDE DEF positions
<1>11. Max(S) \in 0 .. B /\ positions[self] <= Max(S)
  <2>1. S \subseteq 0 .. B /\ positions[self] \in S
    BY <1>9
  <2>2. Max(S) \in S /\ \A y \in S : y <= Max(S)
    BY <2>1, MaxProps
  <2> QED
    BY <2>1, <2>2
<1> HIDE DEF S
<1>12. q[2] <= maxSeen
  BY <1>3, <1>4, <1>7, <1>9, <1>10, <1>11 DEF Larger
<1>13. QED
  BY <1>2, <1>12

(* Types of what the steps below change. *)
LEMMA AccountedTypes ==
    ASSUME Struct
    PROVE  /\ seq \in Nat /\ gen \in [Instances -> GenUpTo(seq)]
           /\ pc \in [Threads -> PcValues] /\ ids \in [Threads -> SUBSET (0 .. seq)]
           /\ rows \subseteq Writers \X (0 .. seq) /\ failures \in Nat
           /\ \A t \in Threads : HomeOf[t] \in Writers /\ HomeOf[t] \in Instances
           /\ Writers \subseteq Instances
<1>1. seq \in Nat /\ 1 .. seq \subseteq 0 .. seq
  BY DEF Struct, Allocated
<1>2. QED
  BY <1>1, HomeAssumption, WritersAssumption DEF Struct, Allocated

(* A step that leaves tokens, finished IDs and committed threads alone.    *)
LEMMA RowsAccountedKept ==
    ASSUME Struct, RowsAccounted, UNCHANGED rows,
           \A w \in Writers : /\ gen'[w].maxLocal = gen[w].maxLocal
                              /\ gen'[w].finished = gen[w].finished,
           \A t \in Threads : pc[t] = "committed" => pc'[t] = "committed" /\ ids'[t] = ids[t]
    PROVE  RowsAccounted'
<1> SUFFICES ASSUME NEW r \in rows PROVE RowKnown(r[1], r[2])'
  BY DEF RowsAccounted
<1>1. r[1] \in Writers /\ RowKnown(r[1], r[2])
  BY DEF RowsAccounted, Struct, Allocated
<1>2. QED
  BY <1>1 DEF RowKnown

(* A step that finishes nothing, and leaves something in progress. *)
LEMMA HeldBackKept ==
    ASSUME HeldBack, UNCHANGED failures,
           \A i \in Instances : /\ gen'[i].finished = gen[i].finished
                                /\ NothingInProgress(gen'[i]) => NothingInProgress(gen[i])
    PROVE  HeldBack'
  BY DEF HeldBack

(* A generator and the threads of its process keep to each other. *)
LEMMA InProgressKept ==
    ASSUME InProgressKnown, NEW i \in Instances,
           gen'[i].inFlight \subseteq gen[i].inFlight,
           gen'[i].unfinished \subseteq gen[i].unfinished,
           \A t \in Threads : HomeOf[t] = i => pc'[t] = pc[t] /\ ids'[t] = ids[t]
    PROVE  /\ \A f \in gen'[i].inFlight : Fetching(i, f[1])'
           /\ \A u \in gen'[i].unfinished : \E t \in Threads : Holding(i, t, u)'
<1>1. ASSUME NEW f \in gen'[i].inFlight PROVE Fetching(i, f[1])'
  <2>1. Fetching(i, f[1])
    BY DEF InProgressKnown
  <2> QED
    BY <2>1 DEF Fetching
<1>2. ASSUME NEW u \in gen'[i].unfinished PROVE \E t \in Threads : Holding(i, t, u)'
  <2>1. PICK t \in Threads : Holding(i, t, u)
    BY DEF InProgressKnown
  <2> QED
    BY <2>1 DEF Holding
<1>3. QED
  BY <1>1, <1>2

(* Starting a fetch. *)
LEMMA FetchStartAccounted ==
    ASSUME Struct, Accounted, NEW t \in Threads, FetchStart(t)
    PROVE  Accounted'
<1> DEFINE w == HomeOf[t]
           h == BeginFetch(gen[w], t)
<1>1. /\ gen' = [gen EXCEPT ![w] = h] /\ pc' = [pc EXCEPT ![t] = "fetching"]
      /\ pc[t] = "idle" /\ UNCHANGED <<rows, ids, failures>>
  BY DEF FetchStart, database, history
<1>2. /\ SameTokens(gen[w], h) /\ h.unfinished = gen[w].unfinished
      /\ h.inFlight = gen[w].inFlight \cup {<<t, gen[w].maxSeen>>}
  BY AccountedTypes, BeginFetchFields
<1> HIDE DEF h
<1>3. \A i \in Instances : /\ gen'[i].finished = gen[i].finished
                           /\ gen'[i].maxLocal = gen[i].maxLocal
                           /\ gen'[i].unfinished = gen[i].unfinished
                           /\ gen[i].inFlight \subseteq gen'[i].inFlight
  BY <1>1, <1>2, AccountedTypes DEF SameTokens
<1>4. RowsAccounted'
  BY <1>1, <1>3, AccountedTypes, RowsAccountedKept DEF Accounted
<1>5. HeldBack'
  BY <1>1, <1>3, HeldBackKept DEF Accounted, NothingInProgress
<1>6. ASSUME NEW i \in Instances
      PROVE  /\ \A f \in gen'[i].inFlight : Fetching(i, f[1])'
             /\ \A u \in gen'[i].unfinished : \E v \in Threads : Holding(i, v, u)'
  <2>1. ASSUME NEW f \in gen'[i].inFlight PROVE Fetching(i, f[1])'
    <3>1. CASE f \in gen[i].inFlight
      <4>1. Fetching(i, f[1])
        BY <3>1 DEF Accounted, InProgressKnown
      <4> QED
        BY <1>1, <4>1, AccountedTypes DEF Fetching
    <3>2. CASE f \notin gen[i].inFlight
      <4>1. i = w /\ f[1] = t
        BY <1>1, <1>2, <3>2, AccountedTypes
      <4> QED
        BY <1>1, <4>1, AccountedTypes DEF Fetching
    <3> QED
      BY <3>1, <3>2
  <2>2. ASSUME NEW u \in gen'[i].unfinished PROVE \E v \in Threads : Holding(i, v, u)'
    <3>1. PICK v \in Threads : Holding(i, v, u)
      BY <1>3 DEF Accounted, InProgressKnown
    <3> QED
      BY <1>1, <3>1, AccountedTypes DEF Holding
  <2> QED
    BY <2>1, <2>2
<1>7. QED
  BY <1>4, <1>5, <1>6 DEF Accounted, InProgressKnown

(* Registering the IDs that arrived. *)
LEMMA RegisterAccounted ==
    ASSUME Struct, Accounted, NEW t \in Threads, Register(t)
    PROVE  Accounted'
<1> DEFINE w == HomeOf[t]
           h == RegisterFetched(gen[w], ids[t])
<1>1. /\ gen' = [gen EXCEPT ![w] = h] /\ pc' = [pc EXCEPT ![t] = "registered"]
      /\ pc[t] = "fetching" /\ UNCHANGED <<rows, ids, failures>>
  BY DEF Register, database, history
<1>2. ids[t] # {} /\ ids[t] \subseteq 0 .. seq
  BY AccountedTypes DEF Register, Struct, HasIds
<1>3. /\ SameTokens(gen[w], h) /\ h.inFlight = gen[w].inFlight
      /\ h.unfinished = gen[w].unfinished \cup ids[t]
  BY <1>2, AccountedTypes, RegisterFields
<1> HIDE DEF h
<1>4. \A i \in Instances : /\ gen'[i].finished = gen[i].finished
                           /\ gen'[i].maxLocal = gen[i].maxLocal
                           /\ gen[i].unfinished \subseteq gen'[i].unfinished
                           /\ gen'[i].inFlight = gen[i].inFlight
  BY <1>1, <1>3, AccountedTypes DEF SameTokens
<1>5. RowsAccounted'
  BY <1>1, <1>4, AccountedTypes, RowsAccountedKept DEF Accounted
<1>6. HeldBack'
  BY <1>1, <1>4, HeldBackKept DEF Accounted, NothingInProgress
<1>7. ASSUME NEW i \in Instances
      PROVE  /\ \A f \in gen'[i].inFlight : Fetching(i, f[1])'
             /\ \A u \in gen'[i].unfinished : \E v \in Threads : Holding(i, v, u)'
  <2>1. ASSUME NEW f \in gen'[i].inFlight PROVE Fetching(i, f[1])'
    <3>1. Fetching(i, f[1])
      BY <1>4 DEF Accounted, InProgressKnown
    <3> QED
      BY <1>1, <3>1, AccountedTypes DEF Fetching
  <2>2. ASSUME NEW u \in gen'[i].unfinished PROVE \E v \in Threads : Holding(i, v, u)'
    <3>1. CASE u \in gen[i].unfinished
      <4>1. PICK v \in Threads : Holding(i, v, u)
        BY <3>1 DEF Accounted, InProgressKnown
      <4> QED
        BY <1>1, <4>1, AccountedTypes DEF Holding
    <3>2. CASE u \notin gen[i].unfinished
      <4>1. i = w /\ u \in ids[t]
        BY <1>1, <1>3, <3>2, AccountedTypes
      <4> QED
        BY <1>1, <4>1, AccountedTypes DEF Holding
    <3> QED
      BY <3>1, <3>2
  <2> QED
    BY <2>1, <2>2
<1>8. QED
  BY <1>5, <1>6, <1>7 DEF Accounted, InProgressKnown

(* Taking the mark of a fetch away. *)
LEMMA EndFetchAccounted ==
    ASSUME Struct, Accounted, NEW t \in Threads, Release(t) \/ FetchFail(t)
    PROVE  Accounted'
<1> DEFINE w == HomeOf[t]
           h == EndFetch(gen[w], t)
<1>1. /\ gen' = [gen EXCEPT ![w] = h] /\ UNCHANGED rows
      /\ \A v \in Threads : v # t => pc'[v] = pc[v] /\ ids'[v] = ids[v]
      /\ pc[t] \in {"fetching", "registered"}
  BY AccountedTypes DEF Release, FetchFail, database
<1>2. /\ SameTokens(gen[w], h) /\ h.unfinished = gen[w].unfinished
      /\ h.inFlight \subseteq gen[w].inFlight
      /\ \A f \in h.inFlight : f[1] # t
  <2>1. h.inFlight = {f \in gen[w].inFlight : f[1] # t}
    BY AccountedTypes DEF EndFetch, GenUpTo
  <2> QED
    BY <2>1, AccountedTypes, EndFetchFields
<1>3. Release(t) => /\ pc' = [pc EXCEPT ![t] = "running"] /\ pc[t] = "registered"
                    /\ UNCHANGED <<ids, failures>>
  BY DEF Release, history
<1>4. FetchFail(t) => pc[t] = "fetching" /\ failures' # 0
  BY AccountedTypes DEF FetchFail
<1> HIDE DEF h
<1>5. \A i \in Instances : /\ gen'[i].finished = gen[i].finished
                           /\ gen'[i].maxLocal = gen[i].maxLocal
                           /\ gen'[i].unfinished = gen[i].unfinished
                           /\ gen'[i].inFlight \subseteq gen[i].inFlight
                           /\ i # w => gen'[i] = gen[i]
  BY <1>1, <1>2, AccountedTypes DEF SameTokens
<1>6. RowsAccounted'
  <2>1. \A v \in Threads : pc[v] = "committed" => pc'[v] = "committed" /\ ids'[v] = ids[v]
    BY <1>1
  <2> QED
    BY <1>1, <1>5, <2>1, AccountedTypes, RowsAccountedKept DEF Accounted
<1>7. HeldBack'
  <2>1. CASE Release(t)
    <3>1. gen[w].unfinished # {}
      BY <1>3, <2>1 DEF Struct, HasIds, ThreadKnown
    <3>2. \A i \in Instances : NothingInProgress(gen'[i]) => NothingInProgress(gen[i])
      BY <1>5, <3>1 DEF NothingInProgress
    <3> QED
      BY <1>3, <1>5, <2>1, <3>2, HeldBackKept DEF Accounted
  <2>2. CASE FetchFail(t)
    BY <1>4, <2>2 DEF HeldBack
  <2> QED
    BY <2>1, <2>2
<1>8. ASSUME NEW i \in Instances
      PROVE  /\ \A f \in gen'[i].inFlight : Fetching(i, f[1])'
             /\ \A u \in gen'[i].unfinished : \E v \in Threads : Holding(i, v, u)'
  <2>1. ASSUME NEW f \in gen'[i].inFlight PROVE Fetching(i, f[1])'
    <3>1. Fetching(i, f[1])
      BY <1>5 DEF Accounted, InProgressKnown
    <3>2. f[1] # t
      BY <1>1, <1>2, <1>5, <3>1, AccountedTypes DEF Fetching
    <3> QED
      BY <1>1, <3>1, <3>2 DEF Fetching
  <2>2. ASSUME NEW u \in gen'[i].unfinished PROVE \E v \in Threads : Holding(i, v, u)'
    <3>1. PICK v \in Threads : Holding(i, v, u)
      BY <1>5 DEF Accounted, InProgressKnown
    <3>2. CASE v # t
      BY <1>1, <3>1, <3>2 DEF Holding
    <3>3. CASE v = t
      <4>1. Release(t)
        BY <1>4, <3>1, <3>3 DEF Holding
      <4> QED
        BY <1>3, <3>1, <3>3, <4>1, AccountedTypes DEF Holding
    <3> QED
      BY <3>2, <3>3
  <2> QED
    BY <2>1, <2>2
<1>9. QED
  BY <1>6, <1>7, <1>8 DEF Accounted, InProgressKnown

(* Drawing an ID, or writing stream_positions: the generators stay. *)
LEMMA OutsideAccounted ==
    ASSUME Struct, Accounted, NEW t \in Threads,
           NextVal(t) \/ ReadPosition(t) \/ Upsert(t)
    PROVE  Accounted'
<1>1. /\ UNCHANGED <<gen, rows, failures>>
      /\ \A v \in Threads : v # t => pc'[v] = pc[v] /\ ids'[v] = ids[v]
      /\ pc[t] \in {"fetching", "updating", "upserting"}
      /\ pc[t] = "fetching" => pc'[t] = "fetching"
  BY AccountedTypes DEF NextVal, ReadPosition, Upsert, database, history
<1>2. RowsAccounted'
  <2>1. \A v \in Threads : pc[v] = "committed" => pc'[v] = "committed" /\ ids'[v] = ids[v]
    BY <1>1
  <2> QED
    BY <1>1, <2>1, RowsAccountedKept DEF Accounted
<1>3. HeldBack'
  BY <1>1, HeldBackKept DEF Accounted
<1>4. ASSUME NEW i \in Instances, NEW f \in gen[i].inFlight PROVE Fetching(i, f[1])'
  <2>1. Fetching(i, f[1])
    BY DEF Accounted, InProgressKnown
  <2> QED
    BY <1>1, <2>1 DEF Fetching
<1>5. ASSUME NEW i \in Instances, NEW u \in gen[i].unfinished
      PROVE  \E v \in Threads : Holding(i, v, u)'
  <2>1. PICK v \in Threads : Holding(i, v, u)
    BY DEF Accounted, InProgressKnown
  <2> QED
    BY <1>1, <2>1 DEF Holding
<1>6. QED
  BY <1>1, <1>2, <1>3, <1>4, <1>5 DEF Accounted, InProgressKnown

(* The transaction ends: its rows are those of a committed thread. *)
LEMMA TransactionAccounted ==
    ASSUME Struct, Accounted, NEW t \in Threads, Commit(t) \/ Abort(t)
    PROVE  Accounted'
<1> DEFINE w == HomeOf[t]
<1>1. /\ UNCHANGED <<gen, ids, failures>>
      /\ \A v \in Threads : v # t => pc'[v] = pc[v]
      /\ pc[t] = "running" /\ pc'[t] \in {"committed", "aborted"}
      /\ pc'[t] = "committed" => rows' = rows \cup {<<w, id>> : id \in ids[t]}
      /\ pc'[t] = "aborted" => rows' = rows
  BY AccountedTypes DEF Commit, Abort, database, history
<1>2. RowsAccounted'
  <2> SUFFICES ASSUME NEW r \in rows' PROVE RowKnown(r[1], r[2])'
    BY DEF RowsAccounted
  <2>1. CASE r \in rows
    <3>1. RowKnown(r[1], r[2])
      BY <2>1 DEF Accounted, RowsAccounted
    <3> QED
      BY <1>1, <3>1 DEF RowKnown
  <2>2. CASE r \notin rows
    <3>1. pc'[t] = "committed" /\ r[1] = w /\ r[2] \in ids[t]
      BY <1>1, <2>2
    <3> QED
      BY <1>1, <3>1 DEF RowKnown
  <2> QED
    BY <2>1, <2>2
<1>3. HeldBack'
  BY <1>1, HeldBackKept DEF Accounted
<1>4. ASSUME NEW i \in Instances, NEW f \in gen[i].inFlight PROVE Fetching(i, f[1])'
  <2>1. Fetching(i, f[1])
    BY DEF Accounted, InProgressKnown
  <2> QED
    BY <1>1, <2>1 DEF Fetching
<1>5. ASSUME NEW i \in Instances, NEW u \in gen[i].unfinished
      PROVE  \E v \in Threads : Holding(i, v, u)'
  <2>1. PICK v \in Threads : Holding(i, v, u)
    BY DEF Accounted, InProgressKnown
  <2> QED
    BY <1>1, <2>1 DEF Holding
<1>6. QED
  BY <1>1, <1>2, <1>3, <1>4, <1>5 DEF Accounted, InProgressKnown

(* Marking IDs as finished: they are passed, or held back by another       *)
(* thread of the process.                                                  *)
LEMMA MarkFinishedAccounted ==
    ASSUME Struct, Accounted, NEW t \in Threads, MarkFinished(t)
    PROVE  Accounted'
<1> DEFINE w == HomeOf[t]
           g == gen[w]
           h == MarkIdsAsFinished(g, w, ids[t])
<1>1. /\ gen' = [gen EXCEPT ![w] = h] /\ UNCHANGED <<rows, failures>>
      /\ \A v \in Threads : v # t => pc'[v] = pc[v] /\ ids'[v] = ids[v]
      /\ pc[t] \in {"committed", "aborted"}
  BY AccountedTypes DEF MarkFinished, database, history
<1>2. ids[t] # {} /\ ids[t] \subseteq 0 .. seq
  BY AccountedTypes DEF MarkFinished, Struct, HasIds
<1>3. g \in GenUpTo(seq) /\ w \in Writers /\ w \in Instances /\ seq \in Nat
  BY AccountedTypes
<1>4. /\ Forward(g, h) /\ h \in GenUpTo(seq)
      /\ h.unfinished = g.unfinished \ ids[t] /\ h.inFlight = g.inFlight
  BY <1>2, <1>3, MarkRecording
<1>5. /\ \A s \in g.finished \cup ids[t] : s <= h.maxLocal \/ s \in h.finished
      /\ NothingInProgress(h) => h.finished = {}
  BY <1>2, <1>3, MarkPasses
<1> HIDE DEF h
<1>6. gen'[w] = h /\ \A i \in Instances : i # w => gen'[i] = gen[i]
  BY <1>1, <1>3, AccountedTypes
<1>7. RowsAccounted'
  <2> SUFFICES ASSUME NEW r \in rows PROVE RowKnown(r[1], r[2])'
    BY <1>1 DEF RowsAccounted
  <2>1. RowKnown(r[1], r[2]) /\ r[1] \in Instances /\ r[2] \in Nat
    BY AccountedTypes DEF Accounted, RowsAccounted
  <2>2. CASE r[1] # w
    BY <1>1, <1>6, <2>1, <2>2 DEF RowKnown
  <2>3. CASE r[1] = w
    <3>1. CASE r[2] <= g.maxLocal
      <4>1. g.maxLocal \in Nat /\ h.maxLocal \in Nat /\ g.maxLocal <= h.maxLocal
        BY <1>3, <1>4 DEF GenUpTo, Forward
      <4>2. r[2] <= h.maxLocal
        BY <2>1, <3>1, <4>1
      <4> QED
        BY <1>6, <2>3, <4>2 DEF RowKnown
    <3>2. CASE r[2] \in g.finished \cup ids[t]
      BY <1>5, <1>6, <2>3, <3>2 DEF RowKnown
    <3>3. CASE \E v \in Threads : /\ v # t /\ HomeOf[v] = w /\ pc[v] = "committed"
                                  /\ r[2] \in ids[v]
      BY <1>1, <2>3, <3>3 DEF RowKnown
    <3> QED
      BY <2>1, <2>3, <3>1, <3>2, <3>3 DEF RowKnown
  <2> QED
    BY <2>2, <2>3
<1>8. HeldBack'
  BY <1>1, <1>5, <1>6 DEF Accounted, HeldBack
<1>9. ASSUME NEW i \in Instances, NEW f \in gen'[i].inFlight PROVE Fetching(i, f[1])'
  <2>1. f \in gen[i].inFlight
    BY <1>4, <1>6
  <2>2. Fetching(i, f[1])
    BY <2>1 DEF Accounted, InProgressKnown
  <2> QED
    BY <1>1, <2>2 DEF Fetching
<1>10. ASSUME NEW i \in Instances, NEW u \in gen'[i].unfinished
       PROVE  \E v \in Threads : Holding(i, v, u)'
  <2>1. u \in gen[i].unfinished /\ (i = w => u \notin ids[t])
    BY <1>4, <1>6
  <2>2. PICK v \in Threads : Holding(i, v, u)
    BY <2>1 DEF Accounted, InProgressKnown
  <2>3. v # t
    BY <2>1, <2>2 DEF Holding
  <2> QED
    BY <1>1, <2>2, <2>3 DEF Holding
<1>11. QED
  BY <1>7, <1>8, <1>9, <1>10 DEF Accounted, InProgressKnown

(* A position announced by another writer. *)
LEMMA AdvanceAccounted ==
    ASSUME Struct, Accounted, NEW j \in Instances, NEW a \in announced, Advance(j, a)
    PROVE  Accounted'
<1>1. gen' = [gen EXCEPT ![j] = AdvancePosition(gen[j], j, a[1], a[2])]
  BY DEF Advance
<1> DEFINE h == AdvancePosition(gen[j], j, a[1], a[2])
<1>2. UNCHANGED <<rows, pc, ids, failures>>
  BY DEF Advance, database, threads, history
<1>3. a[1] \in Writers /\ a[2] \in 0 .. seq /\ {a[2]} \subseteq 0 .. seq
  BY DEF Struct, Allocated
<1>4. gen[j] \in GenUpTo(seq) /\ seq \in Nat
  BY AccountedTypes
<1>5. Recording(gen[j], h, seq)
  BY <1>3, <1>4, AdvanceRecording
<1> HIDE DEF h
<1>6. \A i \in Instances : /\ gen'[i].finished = gen[i].finished
                           /\ gen'[i].unfinished = gen[i].unfinished
                           /\ gen'[i].inFlight = gen[i].inFlight
                           /\ i # j => gen'[i] = gen[i]
  BY <1>1, <1>5, AccountedTypes DEF Recording, h
<1>7. RowsAccounted'
  <2> SUFFICES ASSUME NEW r \in rows PROVE RowKnown(r[1], r[2])'
    BY <1>2 DEF RowsAccounted
  <2>1. RowKnown(r[1], r[2]) /\ r[1] \in Instances /\ r[2] \in Nat
    BY AccountedTypes DEF Accounted, RowsAccounted
  <2>2. CASE r[2] <= gen[r[1]].maxLocal
    <3>1. CASE r[1] = j
      <4>1. gen[j].maxLocal \in Nat /\ h.maxLocal \in Nat /\ gen[j].maxLocal <= h.maxLocal
        BY <1>4, <1>5 DEF GenUpTo, Recording, Forward
      <4>2. r[2] <= h.maxLocal
        BY <2>1, <2>2, <3>1, <4>1
      <4> QED
        BY <1>1, <3>1, <4>2, AccountedTypes DEF RowKnown, h
    <3>2. CASE r[1] # j
      BY <1>6, <2>1, <2>2, <3>2 DEF RowKnown
    <3> QED
      BY <3>1, <3>2
  <2>3. CASE ~(r[2] <= gen[r[1]].maxLocal)
    BY <1>2, <1>6, <2>1, <2>3 DEF RowKnown
  <2> QED
    BY <2>2, <2>3
<1>8. HeldBack'
  BY <1>2, <1>6, HeldBackKept DEF Accounted, NothingInProgress
<1>9. QED
  BY <1>2, <1>6, <1>7, <1>8, InProgressKept DEF Accounted, InProgressKnown

(* A process starts again: its token covers what it had committed. *)
LEMMA RestartAccounted ==
    ASSUME Struct, Accounted, NEW j \in Instances, Restart(j)
    PROVE  Accounted'
<1> DEFINE h == LoadCurrentIds(j, table, rows, seq)
<1>1. /\ gen' = [gen EXCEPT ![j] = h] /\ UNCHANGED <<rows, failures>>
      /\ \A v \in Threads : HomeOf[v] # j => pc'[v] = pc[v] /\ ids'[v] = ids[v]
  BY DEF Restart, database, ThreadsOf
<1>2. /\ seq \in Nat /\ FirstPosition <= seq /\ table \in [Writers -> 0 .. seq]
      /\ rows \subseteq Writers \X (0 .. seq)
  BY DEF Struct, Allocated
<1>3. h.unfinished = {} /\ h.inFlight = {} /\ h.finished = {}
  BY DEF LoadCurrentIds
<1>4. ASSUME NEW r \in rows, r[1] = j PROVE r[2] <= h.maxLocal
  <2>1. j \in Writers
    BY <1>2, <1>4
  <2> QED
    BY <1>2, <1>4, <2>1, LoadCoversOwn
<1> HIDE DEF h
<1>5. gen'[j] = h /\ \A i \in Instances : i # j => gen'[i] = gen[i]
  BY <1>1, AccountedTypes
<1>6. RowsAccounted'
  <2> SUFFICES ASSUME NEW r \in rows PROVE RowKnown(r[1], r[2])'
    BY <1>1 DEF RowsAccounted
  <2>1. RowKnown(r[1], r[2]) /\ r[1] \in Instances
    BY AccountedTypes DEF Accounted, RowsAccounted
  <2>2. CASE r[1] = j
    BY <1>4, <1>5, <2>2 DEF RowKnown
  <2>3. CASE r[1] # j
    BY <1>1, <1>5, <2>1, <2>3 DEF RowKnown
  <2> QED
    BY <2>2, <2>3
<1>7. HeldBack'
  BY <1>1, <1>3, <1>5 DEF Accounted, HeldBack
<1>8. ASSUME NEW i \in Instances
      PROVE  /\ \A f \in gen'[i].inFlight : Fetching(i, f[1])'
             /\ \A u \in gen'[i].unfinished : \E v \in Threads : Holding(i, v, u)'
  <2>1. CASE i = j
    BY <1>3, <1>5, <2>1
  <2>2. CASE i # j
    BY <1>1, <1>5, <2>2, InProgressKept DEF Accounted
  <2> QED
    BY <2>1, <2>2
<1>9. QED
  BY <1>6, <1>7, <1>8 DEF Accounted, InProgressKnown

(* The accounting is inductive, given the structural invariant. *)
LEMMA AccountedStep == Struct /\ Accounted /\ [Next]_vars => Accounted'
<1> SUFFICES ASSUME Struct, Accounted, [Next]_vars PROVE Accounted'
  OBVIOUS
<1>1. ASSUME NEW t \in Threads, \/ NextVal(t) \/ ReadPosition(t) \/ Upsert(t)
      PROVE  Accounted'
  BY <1>1, OutsideAccounted
<1>2. ASSUME NEW t \in Threads, Release(t) \/ FetchFail(t) PROVE Accounted'
  BY <1>2, EndFetchAccounted
<1>3. ASSUME NEW t \in Threads, Commit(t) \/ Abort(t) PROVE Accounted'
  BY <1>3, TransactionAccounted
<1>4. ASSUME UNCHANGED <<gen, rows, pc, ids, failures>> PROVE Accounted'
  BY <1>4 DEF Accounted, InProgressKnown, HeldBack, RowsAccounted, Fetching, Holding,
              RowKnown
<1>5. ASSUME NEW w \in Writers, Announce(w) PROVE Accounted'
  <2>1. UNCHANGED <<gen, rows, pc, ids, failures>>
    BY <1>5 DEF Announce, database, threads, history
  <2> QED
    BY <1>4, <2>1
<1>6. CASE UNCHANGED vars
  <2>1. UNCHANGED <<gen, rows, pc, ids, failures>>
    BY <1>6 DEF vars, database, threads, history
  <2> QED
    BY <1>4, <2>1
<1>7. QED
  BY <1>1, <1>2, <1>3, <1>5, <1>6, FetchStartAccounted, RegisterAccounted,
     MarkFinishedAccounted, AdvanceAccounted, RestartAccounted DEF Next

(* While no fetch has failed, a writer with nothing in progress gives a    *)
(* token that covers every row it has committed (_finished_ids is empty),  *)
(* however its threads raced each other and whatever restarted.            *)
THEOREM IdleTokenCompleteness == Spec => []IdleTokenComplete
<1>1. Init => Accounted
  BY WritersAssumption DEF Init, Accounted, InProgressKnown, HeldBack, RowsAccounted, NewGenerator
<1>2. IInv /\ Accounted /\ [Next]_vars => Accounted'
  BY AccountedStep DEF IInv
<1>3. IInv /\ Accounted => IdleTokenComplete
  <2> SUFFICES ASSUME Struct, Accounted, failures = 0, NEW w \in Writers,
                      \A t \in ThreadsOf(w) : pc[t] \in {"idle", "updating", "upserting"},
                      NEW r \in rows, r[1] = w
               PROVE  r[2] <= CurrentTokenForWriter(gen[w], w, w)
    BY DEF IInv, IdleTokenComplete
  <2>1. \A t \in Threads : HomeOf[t] = w => pc[t] \in {"idle", "updating", "upserting"}
    BY DEF ThreadsOf
  <2>2. w \in Instances
    BY WritersAssumption
  <2>3. gen[w].inFlight = {}
    BY <2>1, <2>2 DEF Accounted, InProgressKnown, Fetching
  <2>4. gen[w].unfinished = {}
    BY <2>1, <2>2 DEF Accounted, InProgressKnown, Holding
  <2>5. gen[w].finished = {}
    BY <2>2, <2>3, <2>4 DEF Accounted, HeldBack, NothingInProgress
  <2>6. r[2] <= gen[w].maxLocal
    BY <2>1, <2>5 DEF Accounted, RowsAccounted, RowKnown
  <2> QED
    BY <2>6 DEF CurrentTokenForWriter
<1>4. QED
  BY <1>1, <1>2, <1>3, Invariance, PTL DEF Spec
================================================================================
