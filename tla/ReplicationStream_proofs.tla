---------------------- MODULE ReplicationStream_proofs ----------------------
(***************************************************************************)
(* The reader of a stream leaves no row out, and ReplicationStream         *)
(* implements ReplicatedRows, for any number of writers and tokens, any    *)
(* query limit and any combination of the faults.                          *)
(***************************************************************************)
EXTENDS ReplicationStream, TLAPS, SequenceTheorems, FiniteSetTheorems, WellFoundedInduction

--------------------------------------------------------------------------------
(***************************************************************************)
(* Commands.                                                               *)
(***************************************************************************)

AllCommands ==
    [type : {"POSITION"}, writer : Writers, prev : Nat, new : Nat]
    \cup [type : {"RDATA"}, writer : Writers, token : Nat, row : Writers \X Nat \X {1, 2}]

(* The token sequence ts has no rows between the tokens x and t. *)
NoneBetween(ts, x, t) == \A u \in (x + 1) .. (t - 1) : RowsOf(ts[u]) = 0

(* Commands that writer w may have sent when its tokens were ts. *)
IsPosition(x, w, ts) ==
    /\ x.type = "POSITION" /\ x.writer = w
    /\ x.prev \in Nat /\ x.new \in Nat
    /\ x.prev <= x.new /\ x.new <= Len(ts)
    /\ NoneBetween(ts, x.prev, x.new + 1)

IsRdata(x, w, ts) ==
    /\ x.type = "RDATA" /\ x.writer = w
    /\ \E t \in 1 .. Len(ts) : \E i \in 1 .. RowsOf(ts[t]) :
        /\ x.row = <<w, t, i>>
        /\ x.token = IF i = RowsOf(ts[t]) THEN t ELSE None

IsCommand(x, w, ts) == IsPosition(x, w, ts) \/ IsRdata(x, w, ts)

(* The row r exists when the tokens of its writer are ts. *)
IsRow(r, ts) == r[2] \in 1 .. Len(ts) /\ r[3] \in 1 .. RowsOf(ts[r[2]])

(* The token a command is about. *)
TokenOf(x) == IF x.type = "POSITION" THEN x.new ELSE x.row[2]

(* The reader stands at the command's token when it has dealt with it. *)
IsFinal(x) == x.type = "POSITION" \/ x.token # None

(***************************************************************************)
(* Command b may follow a at a reader that is at p: the rows of a token    *)
(* start where a (or p) left off, and the second row follows the first.    *)
(***************************************************************************)
Chained(ts, p, a, b) ==
    b.type = "RDATA" =>
        \/ /\ b.row[3] = 1
           /\ IsFinal(a) \/ TokenOf(a) <= p
           /\ NoneBetween(ts, TokenOf(a), b.row[2]) \/ NoneBetween(ts, p, b.row[2])
        \/ /\ b.row[3] = 2
           /\ a.type = "RDATA" /\ a.row[2] = b.row[2] /\ a.row[3] = 1

(***************************************************************************)
(* A reader that is, or will be, at a position of X and has kept the rows  *)
(* K may take w's command b.                                               *)
(***************************************************************************)
Ready(w, ts, X, K, b) ==
    b.type = "RDATA" =>
        \E x \in X :
            /\ NoneBetween(ts, x, b.row[2])
            /\ \A r \in K : r[1] = w =>
                    r[2] <= x \/ (b.row[3] = 2 /\ r = <<w, b.row[2], 1>>)
            /\ b.row[3] = 2 => b.row[2] <= x \/ <<w, b.row[2], 1>> \in K

(* Queue entry q is a command of w that came on connection c. *)
Own(q, w, c) == q.cmd.writer = w /\ q.conn = c

(* No row is left out between commands that follow each other: among those *)
(* on their way, in the queue, and from one to the other.                  *)
LinkedSeq(ts, p, C) == \A k \in 1 .. (Len(C) - 1) : Chained(ts, p, C[k], C[k + 1])

LinkedQueue(w, ts, p, q) ==
    \A j, k \in DOMAIN q :
        /\ j < k /\ q[j].cmd.writer = w /\ Own(q[k], w, q[j].conn)
        /\ \A i \in (j + 1) .. (k - 1) : ~Own(q[i], w, q[j].conn)
        => Chained(ts, p, q[j].cmd, q[k].cmd)

LinkedAcross(w, ts, p, q, c, C) ==
    C # <<>> =>
        \A j \in DOMAIN q :
            /\ Own(q[j], w, c)
            /\ \A i \in (j + 1) .. Len(q) : ~Own(q[i], w, c)
            => Chained(ts, p, q[j].cmd, C[1])

(* Nor is one between the reader and the first of them, on a connection of *)
(* Y in the queue or, if there is none, on its way.                        *)
ReadyQueue(w, ts, X, K, q, Y) ==
    \A k \in DOMAIN q :
        /\ q[k].cmd.writer = w /\ q[k].conn \in Y
        /\ \A i \in 1 .. (k - 1) : ~Own(q[i], w, q[k].conn)
        => Ready(w, ts, X, K, q[k].cmd)

ReadyOut(w, ts, X, K, q, c, C) ==
    C # <<>> /\ (\A i \in DOMAIN q : ~Own(q[i], w, c)) => Ready(w, ts, X, K, C[1])

(***************************************************************************)
(* No row is left out on the way from w to a reader that is at p, will be  *)
(* at a position of X, has kept the rows K, follows w on the connections   *)
(* Y, has q in its queue and listens (if `on`) on connection c to C.       *)
(***************************************************************************)
Contig(w, ts, p, X, K, q, Y, c, on, C) ==
    /\ LinkedSeq(ts, p, C)
    /\ LinkedQueue(w, ts, p, q)
    /\ on => LinkedAcross(w, ts, p, q, c, C)
    /\ ReadyQueue(w, ts, X, K, q, Y)
    /\ on /\ c \in Y => ReadyOut(w, ts, X, K, q, c, C)

(***************************************************************************)
(* What follows the commands of w on their way: a row of the next token,   *)
(* unless w is of the writers g, that have passed tokens in silence.       *)
(***************************************************************************)
NextRow(w, last) ==
    [type |-> "RDATA", writer |-> w, token |-> None, row |-> <<w, last + 1, 1>>]

Following(w, o, g, last) == o \o IF w \in g THEN <<>> ELSE <<NextRow(w, last)>>

--------------------------------------------------------------------------------
(***************************************************************************)
(* The inductive invariant.                                                *)
(***************************************************************************)

Coming(w) == Following(w, out[w], gap, streamer[w].last)

Kept == {batch[i] : i \in DOMAIN batch}

(* Something may still come on connection c. *)
Live(c) == c = conn \/ \E k \in DOMAIN queue : queue[k].conn = c

(* Everything the streamer has sent is about tokens up to here. *)
Floor(s) == IF s.looping THEN s.from ELSE s.last

StreamerType ==
    [last : Nat, from : Nat, upto : Nat,
     looping : BOOLEAN, pending : BOOLEAN, announce : BOOLEAN,
     connected : BOOLEAN, greeting : BOOLEAN]

StreamerOK(s, ts) ==
    /\ s \in StreamerType
    /\ s.last <= Len(ts)
    /\ s.looping => s.from <= s.upto /\ s.upto <= Len(ts) /\ s.from <= s.last

WriterTypes ==
    /\ tokens \in [Writers -> Seq(AllKinds)]
    /\ DOMAIN streamer = Writers
    /\ \A w \in Writers : StreamerOK(streamer[w], tokens[w])
    /\ out \in [Writers -> Seq(AllCommands)]
    /\ \A w \in Writers : \A k \in DOMAIN out[w] : IsCommand(out[w][k], w, tokens[w])
    /\ asked \subseteq Writers
    /\ gap \subseteq Writers

FetchOK(f) ==
    /\ f \in [writer : Writers, from : Nat, new : Nat, conn : Nat]
    /\ f.from = pos[f.writer] /\ f.new <= Len(tokens[f.writer])
    /\ f.conn \in 1 .. conn

ReaderTypes ==
    /\ pos \in [Writers -> Nat]
    /\ \A w \in Writers : pos[w] <= Len(tokens[w])
    /\ queue \in Seq([cmd : AllCommands, conn : Nat])
    /\ \A k \in DOMAIN queue :
        IsCommand(queue[k].cmd, queue[k].cmd.writer, tokens[queue[k].cmd.writer])
    /\ batch \in Seq(Writers \X Nat \X {1, 2})
    /\ \A r \in Kept : IsRow(r, tokens[r[1]])
    /\ fetch = {} \/ \E f \in fetch : fetch = {f} /\ FetchOK(f)
    /\ disturbed \subseteq Hazards
    /\ stranded \subseteq Writers

(* The reader's connections, in the order of the queue. *)
Connections ==
    /\ online \in BOOLEAN /\ conn \in 1 .. 2
    /\ connected \subseteq 1 .. conn
    /\ positioned \subseteq (1 .. conn) \X Writers
    /\ ~online => conn = 1
    /\ ~online \/ conn = 2 => "reader" \in faults
    /\ \A k \in DOMAIN queue : queue[k].conn \in 1 .. conn
    /\ \A j, k \in DOMAIN queue : j <= k => queue[j].conn <= queue[k].conn
    /\ \A c \in connected : \A k \in DOMAIN queue : c <= queue[k].conn
    /\ \A f \in fetch : \A k \in DOMAIN queue : f.conn <= queue[k].conn
    /\ fetch # {} => connected = {} /\ batch = <<>>
    /\ \A z \in positioned : Live(z[1]) =>
            z[1] \in connected \/ \E f \in fetch : f.conn = z[1]

(* A writer's commands are about ascending tokens, up to where it stands:  *)
(* those on their way, those in the queue, and the rows kept.              *)
AscendingOut(o, top) ==
    \A k \in DOMAIN o :
        /\ TokenOf(o[k]) <= top
        /\ \A j \in DOMAIN o : j <= k => TokenOf(o[j]) <= TokenOf(o[k])

(* Nothing of w in the queue q or among the rows K is beyond t. *)
Behind(w, q, K, t) ==
    /\ \A j \in DOMAIN q : q[j].cmd.writer = w => TokenOf(q[j].cmd) <= t
    /\ \A r \in K : r[1] = w => r[2] <= t

AscendingQueue(w, q, K) ==
    \A k \in DOMAIN q : q[k].cmd.writer = w =>
        /\ \A r \in K : r[1] = w => r[2] <= TokenOf(q[k].cmd)
        /\ \A j \in DOMAIN q : j <= k /\ q[j].cmd.writer = w
                => TokenOf(q[j].cmd) <= TokenOf(q[k].cmd)

Ascending ==
    \A w \in Writers :
        /\ AscendingOut(out[w], Floor(streamer[w]))
        /\ Behind(w, queue, Kept, Floor(streamer[w]))
        /\ \A k \in DOMAIN out[w] : Behind(w, queue, Kept, TokenOf(out[w][k]))
        /\ AscendingQueue(w, queue, Kept)
        /\ w \notin gap => Floor(streamer[w]) = streamer[w].last

(* The reader follows w on connection c, or will when a fetch is done. *)
Synced(c, w) == <<c, w>> \in positioned \/ \E f \in fetch : f.conn = c /\ f.writer = w

SyncedOn(w) == {c \in 1 .. conn : Synced(c, w)}

(* Where the reader is with w, and where a fetch will bring it. *)
Reached(w) == {pos[w]} \cup {f.new : f \in {g \in fetch : g.writer = w}}

(* The rows kept for a batch are of one writer. *)
OneBatch == \A r, s \in Kept : r[1] = s[1]

Contiguous(w) ==
    Contig(w, tokens[w], pos[w], Reached(w), Kept, queue, SyncedOn(w), conn, online, Coming(w))

Safe == disturbed = {} => OneBatch /\ Rows!Complete /\ \A w \in Writers : Contiguous(w)

Struct == WriterTypes /\ ReaderTypes /\ Connections /\ Ascending

IInv == Struct /\ Safe

--------------------------------------------------------------------------------
(***************************************************************************)
(* Numbers and sequences.                                                  *)
(***************************************************************************)

(* Induction over the naturals, for a set. *)
LEMMA SetInduction ==
    ASSUME NEW S, 0 \in S, \A n \in Nat : n \in S => n + 1 \in S
    PROVE  Nat \subseteq S
<1> DEFINE T == Nat \ S
           Less == {ss \in Nat \X Nat : ss[1] < ss[2]}
<1> SUFFICES ASSUME T # {} PROVE FALSE
  OBVIOUS
<1>1. IsWellFoundedOn(Less, Nat)
  <2>1. OpToRel(<, Nat) = Less
    BY Zenon DEF OpToRel
  <2> QED
    BY <2>1, NatLessThanWellFounded, Zenon
<1>2. PICK x \in T : \A y \in T : ~(<<y, x>> \in Less)
  <2> HIDE DEF Less
  <2> QED
    BY <1>1, WFMin, Zenon
<1>3. x - 1 \in Nat /\ <<x - 1, x>> \in Less
  BY <1>2
<1>4. QED
  BY <1>2, <1>3

(* A set of naturals with an element has a least one. *)
LEMMA LeastElement ==
    ASSUME NEW S, S \subseteq Nat, S # {}
    PROVE  \E x \in S : \A y \in S : x <= y
<1> DEFINE T == {n \in Nat : \A y \in S : n <= y}
<1> SUFFICES ASSUME \A x \in S : \E y \in S : ~(x <= y) PROVE FALSE
  OBVIOUS
<1>1. 0 \in T
  OBVIOUS
<1>2. ASSUME NEW n \in Nat, n \in T PROVE n + 1 \in T
  <2>1. n \notin S
    BY <1>2
  <2> QED
    BY <1>2, <2>1
<1>3. Nat \subseteq T
  <2> HIDE DEF T
  <2> QED
    BY <1>1, <1>2, SetInduction
<1>4. PICK y \in S : TRUE
  OBVIOUS
<1>5. y + 1 \in T
  BY <1>3
<1>6. QED
  BY <1>5

(* Largest is the largest token of a bounded set, None of the empty one. *)
LEMMA LargestProps ==
    ASSUME NEW B \in Nat, NEW S, S \subseteq 1 .. B
    PROVE  /\ S = {} => Largest(S) = None
           /\ S # {} => Largest(S) \in S /\ Largest(S) # None /\ \A u \in S : u <= Largest(S)
<1> SUFFICES ASSUME S # {}
             PROVE  Largest(S) \in S /\ Largest(S) # None /\ \A u \in S : u <= Largest(S)
  BY DEF Largest
<1> DEFINE T == {B - x : x \in S}
<1>1. T \subseteq Nat /\ T # {}
  <2>1. \A x \in S : x \in 1 .. B /\ B - x \in Nat
    OBVIOUS
  <2>2. PICK x \in S : TRUE
    OBVIOUS
  <2>3. B - x \in T
    OBVIOUS
  <2> QED
    BY <2>1, <2>3
<1>2. PICK m \in T : \A y \in T : m <= y
  BY <1>1, LeastElement
<1>3. PICK x \in S : m = B - x
  OBVIOUS
<1>4. ASSUME NEW y \in S PROVE y <= x
  <2>1. B - y \in T
    OBVIOUS
  <2>2. m <= B - y
    BY <1>2, <2>1
  <2>3. x \in 1 .. B /\ y \in 1 .. B
    OBVIOUS
  <2> QED
    BY <1>3, <2>2, <2>3
<1>5. Largest(S) = CHOOSE t \in S : \A u \in S : u <= t
  BY DEF Largest
<1>6. Largest(S) \in S /\ \A u \in S : u <= Largest(S)
  <2> HIDE DEF T
  <2> QED
    BY <1>4, <1>5
<1>7. QED
  BY <1>6 DEF None

(* A token carries at most two rows. *)
LEMMA RowsOfValues == \A k : RowsOf(k) \in {0, 1, 2}
  BY DEF RowsOf

(* The tokens with rows in an interval. *)
LEMMA WithRowsIs ==
    ASSUME NEW ts, NEW a \in Nat, NEW b \in Nat
    PROVE  /\ WithRows(ts, a, b) \subseteq 1 .. b
           /\ \A t \in WithRows(ts, a, b) : a < t /\ t <= b
           /\ \A x \in Nat : a <= x /\ (\A t \in WithRows(ts, a, b) : t <= x)
                                => NoneBetween(ts, x, b + 1)
<1>1. \A t : RowsOf(ts[t]) \in Nat /\ (~(RowsOf(ts[t]) > 0) => RowsOf(ts[t]) = 0)
  BY RowsOfValues
<1>2. ASSUME NEW x \in Nat, a <= x, \A t \in WithRows(ts, a, b) : t <= x
      PROVE  NoneBetween(ts, x, b + 1)
  <2> SUFFICES ASSUME NEW u \in (x + 1) .. (b + 1 - 1) PROVE RowsOf(ts[u]) = 0
    BY DEF NoneBetween
  <2>1. u \in (a + 1) .. b /\ ~(u <= x)
    BY <1>2
  <2>2. u \notin WithRows(ts, a, b)
    BY <1>2, <2>1
  <2> QED
    BY <1>1, <2>1, <2>2 DEF WithRows
<1>3. QED
  BY <1>2 DEF WithRows

(* A query returns everything, or everything up to a token with rows. *)
LEMMA UpdatesIs ==
    ASSUME NEW ts, NEW a \in Nat, NEW b \in Nat, NEW u, u = Updates(ts, a, b)
    PROVE  /\ u.limited \in BOOLEAN
           /\ u.limited => u.upto \in WithRows(ts, a, b)
           /\ ~u.limited => u.upto = b
<1> DEFINE found == WithRows(ts, a, b)
           UpTo(n) == {x \in found : x <= n}
<1>1. \A x \in found : x \in Nat /\ 1 <= x /\ x <= b
  BY DEF WithRows
<1>2. CASE Cardinality(found) >= Limit
  <2> HIDE DEF found
  <2>1. \A n \in Nat : IsFiniteSet(UpTo(n)) /\ Cardinality(UpTo(n)) \in Nat
    <3> SUFFICES ASSUME NEW n \in Nat
                 PROVE  IsFiniteSet(UpTo(n)) /\ Cardinality(UpTo(n)) \in Nat
      OBVIOUS
    <3>1. UpTo(n) \in SUBSET Nat /\ \A x \in UpTo(n) : x <= n
      BY <1>1
    <3>2. IsFiniteSet(UpTo(n))
      BY <3>1, FS_BoundedSetOfNaturals
    <3> QED
      BY <3>2, FS_CardinalityType
  <2> DEFINE T == {n \in Nat : Cardinality(UpTo(n)) >= Limit}
  <2>2. b \in T
    <3>1. UpTo(b) = found
      BY <1>1
    <3> QED
      BY <1>2, <3>1
  <2>3. PICK n \in T : \A m \in T : n <= m
    BY <2>2, LeastElement
  <2>4. Limit \in Nat /\ Limit > 0
    BY BoundsAssumption
  <2>5. n # 0
    <3>1. UpTo(0) = {}
      BY <1>1
    <3>2. Cardinality(UpTo(0)) = 0
      BY <3>1, FS_EmptySet
    <3> QED
      BY <2>3, <2>4, <3>2
  <2>6. n - 1 \in Nat /\ Cardinality(UpTo(n - 1)) < Limit
    <3>1. n - 1 \in Nat /\ ~(n <= n - 1)
      BY <2>3, <2>5
    <3>2. n - 1 \notin T
      BY <2>3, <3>1
    <3> QED
      BY <2>1, <2>4, <3>1, <3>2
  <2>7. n \in found
    <3> SUFFICES ASSUME n \notin found PROVE FALSE
      OBVIOUS
    <3>1. UpTo(n) = UpTo(n - 1)
      BY <1>1, <2>3
    <3> QED
      BY <2>1, <2>3, <2>4, <2>6, <3>1
  <2>8. Cardinality(UpTo(n)) = Limit
    <3>1. UpTo(n) = UpTo(n - 1) \cup {n} /\ n \notin UpTo(n - 1)
      <4>1. \A x \in found : x <= n <=> x <= n - 1 \/ x = n
        BY <1>1, <2>3
      <4>2. ~(n <= n - 1) /\ n <= n
        BY <2>3
      <4> QED
        BY <2>7, <4>1, <4>2
    <3>2. Cardinality(UpTo(n)) = Cardinality(UpTo(n - 1)) + 1
      <4> HIDE DEF UpTo
      <4>1. IsFiniteSet(UpTo(n - 1))
        BY <2>1, <2>6
      <4> QED
        BY <3>1, <4>1, FS_AddElement
    <3> HIDE DEF UpTo
    <3> QED
      BY <2>1, <2>3, <2>4, <2>6, <3>2
  <2>9. \E t \in found : Cardinality({x \in found : x <= t}) = Limit
    BY <2>7, <2>8
  <2> QED
    BY <1>2, <2>9 DEF Updates, found
<1>3. CASE ~(Cardinality(found) >= Limit)
  BY <1>3 DEF Updates
<1>4. QED
  BY <1>2, <1>3

--------------------------------------------------------------------------------
(***************************************************************************)
(* What a streamer sends.                                                  *)
(***************************************************************************)

(* Fewer tokens, fewer rows between them. *)
LEMMA NoneBetweenFrom ==
    ASSUME NEW ts, NEW x \in Nat, NEW y \in Nat, x <= y, NEW t \in Nat,
           NoneBetween(ts, x, t)
    PROVE  NoneBetween(ts, y, t)
  BY DEF NoneBetween

(* Two gaps without own tokens that meet make one. *)
LEMMA NoneBetweenJoin ==
    ASSUME NEW ts, NEW x \in Nat, NEW y \in Nat, NEW t \in Nat,
           NoneBetween(ts, x, y + 1), NoneBetween(ts, y, t)
    PROVE  NoneBetween(ts, x, t)
<1> SUFFICES ASSUME NEW u \in (x + 1) .. (t - 1) PROVE RowsOf(ts[u]) = 0
  BY DEF NoneBetween
<1>1. u \in (x + 1) .. (y + 1 - 1) \/ u \in (y + 1) .. (t - 1)
  OBVIOUS
<1>2. QED
  BY <1>1 DEF NoneBetween

(* There is nothing between neighbours. *)
LEMMA NoneBetweenNear ==
    ASSUME NEW ts, NEW x \in Nat, NEW t \in Nat, t <= x + 1
    PROVE  NoneBetween(ts, x, t)
  BY DEF NoneBetween

(* The fields of a command. *)
LEMMA CommandFields ==
    ASSUME NEW x \in AllCommands
    PROVE  /\ x.type \in {"POSITION", "RDATA"} /\ TokenOf(x) \in Nat /\ x.writer \in Writers
           /\ x.type = "POSITION" => x.prev \in Nat /\ x.new \in Nat /\ TokenOf(x) = x.new
           /\ x.type = "RDATA" =>
                /\ x.row \in Writers \X Nat \X {1, 2} /\ x.token \in Nat
                /\ x.row[1] \in Writers /\ x.row[2] \in Nat /\ x.row[3] \in {1, 2}
                /\ TokenOf(x) = x.row[2]
  BY DEF AllCommands, TokenOf

(* A command may follow as well when the reader is further on. *)
LEMMA ChainedFurther ==
    ASSUME NEW ts, NEW p \in Nat, NEW q \in Nat, p <= q,
           NEW a \in AllCommands, NEW b \in AllCommands, Chained(ts, p, a, b)
    PROVE  Chained(ts, q, a, b)
<1> SUFFICES ASSUME b.type = "RDATA" PROVE Chained(ts, q, a, b)
  BY DEF Chained
<1>1. TokenOf(a) \in Nat /\ b.row[2] \in Nat
  BY CommandFields
<1>2. NoneBetween(ts, p, b.row[2]) => NoneBetween(ts, q, b.row[2])
  BY <1>1, NoneBetweenFrom
<1>3. TokenOf(a) <= p => TokenOf(a) <= q
  BY <1>1
<1>4. QED
  BY <1>2, <1>3 DEF Chained

(***************************************************************************)
(* The commands s of w take a reader from x to y: they are about ascending *)
(* tokens, leave no row out among them nor after x, and none is left up to *)
(* y after the last.                                                       *)
(***************************************************************************)
Run(w, ts, x, s, y) ==
    /\ s \in Seq(AllCommands) /\ s # <<>>
    /\ \A k \in DOMAIN s :
        /\ IsCommand(s[k], w, ts)
        /\ x <= TokenOf(s[k]) /\ TokenOf(s[k]) <= y
        /\ \A j \in DOMAIN s : j <= k => TokenOf(s[j]) <= TokenOf(s[k])
    /\ LinkedSeq(ts, 0, s)
    /\ s[1].type = "RDATA" => s[1].row[3] = 1 /\ NoneBetween(ts, x, s[1].row[2])
    /\ IsFinal(s[Len(s)]) /\ NoneBetween(ts, TokenOf(s[Len(s)]), y + 1)

(* One POSITION is such a run. *)
LEMMA PositionRun ==
    ASSUME NEW w \in Writers, NEW ts \in Seq(AllKinds), NEW x \in Nat, NEW prev \in Nat,
           NEW new \in Nat, prev <= new, x <= new, new <= Len(ts),
           NoneBetween(ts, prev, new + 1)
    PROVE  Run(w, ts, x, <<Position(w, prev, new)>>, new)
<1> DEFINE c == Position(w, prev, new)
           s == <<c>>
<1>1. c.type = "POSITION" /\ c.writer = w /\ c.prev = prev /\ c.new = new
  BY DEF Position
<1>2. c \in AllCommands
  BY DEF Position, AllCommands
<1> HIDE DEF c
<1>3. s \in Seq(AllCommands) /\ s # <<>> /\ Len(s) = 1 /\ DOMAIN s = {1} /\ s[1] = c
  BY <1>2
<1>4. IsCommand(c, w, ts) /\ TokenOf(c) = new /\ IsFinal(c)
  BY <1>1 DEF IsCommand, IsPosition, TokenOf, IsFinal
<1>5. NoneBetween(ts, new, new + 1)
  BY NoneBetweenNear
<1>6. LinkedSeq(ts, 0, s)
  BY <1>3 DEF LinkedSeq
<1> HIDE DEF s
<1>7. Run(w, ts, x, s, new)
  BY <1>1, <1>3, <1>4, <1>5, <1>6 DEF Run
<1>8. QED
  BY <1>7 DEF s, c

(* A run reaches further over tokens without rows, and starts earlier.     *)
LEMMA RunFurther ==
    ASSUME NEW w, NEW ts, NEW x \in Nat, NEW s, NEW y \in Nat, NEW z \in Nat,
           Run(w, ts, x, s, y), y <= z, NoneBetween(ts, y, z + 1)
    PROVE  Run(w, ts, x, s, z)
<1>1. s \in Seq(AllCommands) /\ Len(s) \in DOMAIN s
      /\ \A k \in DOMAIN s : s[k] \in AllCommands
  BY DEF Run
<1>2. \A k \in DOMAIN s : TokenOf(s[k]) \in Nat
  BY <1>1, CommandFields
<1>3. \A k \in DOMAIN s : TokenOf(s[k]) <= z
  BY <1>2 DEF Run
<1>4. NoneBetween(ts, TokenOf(s[Len(s)]), z + 1)
  BY <1>1, <1>2, NoneBetweenJoin DEF Run
<1>5. QED
  BY <1>3, <1>4 DEF Run

(* A run that starts at x also starts anywhere before, if no own token lies between. *)
LEMMA RunEarlier ==
    ASSUME NEW w, NEW ts, NEW x \in Nat, NEW s, NEW y \in Nat, NEW z \in Nat,
           Run(w, ts, x, s, y), z <= x, NoneBetween(ts, z, x + 1)
    PROVE  Run(w, ts, z, s, y)
<1>1. s \in Seq(AllCommands) /\ 1 \in DOMAIN s
      /\ \A k \in DOMAIN s : s[k] \in AllCommands
  BY DEF Run
<1>2. \A k \in DOMAIN s : TokenOf(s[k]) \in Nat
  BY <1>1, CommandFields
<1>3. \A k \in DOMAIN s : z <= TokenOf(s[k])
  BY <1>2 DEF Run
<1>4. s[1].type = "RDATA" => NoneBetween(ts, z, s[1].row[2])
  <2> SUFFICES ASSUME s[1].type = "RDATA" PROVE NoneBetween(ts, z, s[1].row[2])
    OBVIOUS
  <2>1. s[1].row[2] \in Nat /\ NoneBetween(ts, x, s[1].row[2])
    BY <1>1, CommandFields DEF Run
  <2> QED
    BY <2>1, NoneBetweenJoin
<1>5. QED
  BY <1>3, <1>4 DEF Run

(* One run after the other. *)
LEMMA RunJoin ==
    ASSUME NEW w, NEW ts, NEW x \in Nat, NEW y \in Nat, NEW z \in Nat, NEW s, NEW t,
           Run(w, ts, x, s, y), Run(w, ts, y, t, z), x <= y, y <= z
    PROVE  Run(w, ts, x, s \o t, z)
<1> DEFINE r == s \o t
           m == Len(s)
           n == Len(t)
<1>1. s \in Seq(AllCommands) /\ t \in Seq(AllCommands) /\ m \in Nat /\ n \in Nat
      /\ m > 0 /\ n > 0 /\ DOMAIN s = 1 .. m /\ DOMAIN t = 1 .. n
  BY DEF Run
<1>2. /\ r \in Seq(AllCommands) /\ Len(r) = m + n /\ DOMAIN r = 1 .. (m + n)
      /\ \A k \in 1 .. m : r[k] = s[k]
      /\ \A k \in (m + 1) .. (m + n) : k - m \in 1 .. n /\ r[k] = t[k - m]
  BY <1>1
<1>3. /\ \A k \in 1 .. m : s[k] \in AllCommands /\ TokenOf(s[k]) \in Nat
      /\ \A k \in 1 .. n : t[k] \in AllCommands /\ TokenOf(t[k]) \in Nat
  BY <1>1, CommandFields
<1> HIDE DEF r, m, n
<1>4. /\ \A k \in 1 .. m : IsCommand(s[k], w, ts) /\ x <= TokenOf(s[k]) /\ TokenOf(s[k]) <= y
      /\ \A k \in 1 .. n : IsCommand(t[k], w, ts) /\ y <= TokenOf(t[k]) /\ TokenOf(t[k]) <= z
  BY <1>1 DEF Run
<1>5. ASSUME NEW k \in 1 .. (m + n)
      PROVE  IsCommand(r[k], w, ts) /\ x <= TokenOf(r[k]) /\ TokenOf(r[k]) <= z
  <2>1. CASE k \in 1 .. m
    BY <1>2, <1>3, <1>4, <2>1
  <2>2. CASE k \in (m + 1) .. (m + n)
    BY <1>2, <1>3, <1>4, <2>2
  <2> QED
    BY <1>1, <2>1, <2>2
<1>6. ASSUME NEW j \in 1 .. (m + n), NEW k \in 1 .. (m + n), j <= k
      PROVE  TokenOf(r[j]) <= TokenOf(r[k])
  <2>1. CASE k \in 1 .. m
    <3>1. j \in 1 .. m
      BY <1>1, <1>6, <2>1
    <3>2. r[j] = s[j] /\ r[k] = s[k]
      BY <1>2, <2>1, <3>1
    <3>3. j \in DOMAIN s /\ k \in DOMAIN s
      BY <1>1, <2>1, <3>1
    <3> QED
      BY <1>6, <3>2, <3>3 DEF Run
  <2>2. CASE j \in (m + 1) .. (m + n)
    <3>1. k \in (m + 1) .. (m + n) /\ j - m <= k - m
      BY <1>1, <1>6, <2>2
    <3> QED
      BY <1>1, <1>2, <2>2, <3>1 DEF Run
  <2>3. CASE j \in 1 .. m /\ k \in (m + 1) .. (m + n)
    <3>1. k - m \in 1 .. n /\ r[k] = t[k - m] /\ r[j] = s[j]
      BY <1>2, <2>3
    <3>2. TokenOf(s[j]) <= y /\ y <= TokenOf(t[k - m])
      BY <1>4, <2>3, <3>1
    <3> QED
      BY <1>3, <2>3, <3>1, <3>2
  <2> QED
    BY <1>1, <2>1, <2>2, <2>3
<1>7. ASSUME NEW k \in 1 .. (m + n - 1) PROVE Chained(ts, 0, r[k], r[k + 1])
  <2>1. CASE k \in 1 .. (m - 1)
    <3>1. r[k] = s[k] /\ r[k + 1] = s[k + 1]
      BY <1>1, <1>2, <2>1
    <3> QED
      BY <2>1, <3>1 DEF Run, LinkedSeq, m
  <2>2. CASE k \in (m + 1) .. (m + n - 1)
    <3>1. /\ k \in (m + 1) .. (m + n) /\ k + 1 \in (m + 1) .. (m + n)
          /\ (k + 1) - m = (k - m) + 1 /\ k - m \in 1 .. (n - 1)
      BY <1>1, <2>2
    <3>2. r[k] = t[k - m] /\ r[k + 1] = t[(k - m) + 1]
      BY <1>2, <3>1
    <3> QED
      BY <3>1, <3>2 DEF Run, LinkedSeq, n
  <2>3. CASE k = m
    <3>1. r[k] = s[m] /\ r[k + 1] = t[1]
      BY <1>1, <1>2, <2>3
    <3>2. IsFinal(s[m]) /\ NoneBetween(ts, TokenOf(s[m]), y + 1)
      BY DEF Run, m
    <3>3. t[1].type = "RDATA" =>
            /\ t[1].row[3] = 1 /\ NoneBetween(ts, y, t[1].row[2]) /\ t[1].row[2] \in Nat
      BY <1>1, <1>3, CommandFields DEF Run
    <3>4. TokenOf(s[m]) \in Nat
      BY <1>1, <1>3
    <3>5. t[1].type = "RDATA" => NoneBetween(ts, TokenOf(s[m]), t[1].row[2])
      BY <3>2, <3>3, <3>4, NoneBetweenJoin
    <3> QED
      BY <3>1, <3>2, <3>3, <3>5 DEF Chained
  <2> QED
    BY <1>1, <2>1, <2>2, <2>3
<1>8. r[1] = s[1] /\ r[m + n] = t[n]
  BY <1>1, <1>2
<1>9. r # <<>> /\ LinkedSeq(ts, 0, r)
  BY <1>1, <1>2, <1>7 DEF LinkedSeq
<1>10. /\ s[1].type = "RDATA" => s[1].row[3] = 1 /\ NoneBetween(ts, x, s[1].row[2])
       /\ IsFinal(t[n]) /\ NoneBetween(ts, TokenOf(t[n]), z + 1)
  BY DEF Run, n
<1>11. Run(w, ts, x, r, z)
  BY <1>2, <1>5, <1>6, <1>8, <1>9, <1>10 DEF Run
<1>12. QED
  BY <1>11 DEF r

(* The function of which FlattenSeq(s) is the last value, up to n. *)
Flattens(f, s, n) ==
    f = [i \in 1 .. n |-> IF i = 1 THEN s[i] ELSE f[i - 1] \o s[i]]

(* The partial concatenations of a sequence of sequences exist. *)
LEMMA FlattensExists ==
    ASSUME NEW s
    PROVE  \A n \in Nat : \E f : Flattens(f, s, n)
<1> DEFINE S == {n \in Nat : \E f : Flattens(f, s, n)}
<1>1. 0 \in S
  <2> DEFINE f == [i \in 1 .. 0 |-> s[i]]
  <2>1. f = [i \in 1 .. 0 |-> IF i = 1 THEN s[i] ELSE f[i - 1] \o s[i]]
    OBVIOUS
  <2> QED
    BY <2>1, Zenon DEF Flattens
<1>2. ASSUME NEW n \in Nat, n \in S PROVE n + 1 \in S
  <2>1. PICK f : Flattens(f, s, n)
    BY <1>2
  <2> DEFINE g == [i \in 1 .. (n + 1) |->
                     IF i <= n THEN f[i] ELSE IF i = 1 THEN s[i] ELSE f[n] \o s[i]]
             h == [i \in 1 .. (n + 1) |-> IF i = 1 THEN s[i] ELSE g[i - 1] \o s[i]]
  <2>2. ASSUME NEW i \in 1 .. (n + 1) PROVE g[i] = h[i]
    <3>1. CASE i <= n
      <4>1. i \in 1 .. n /\ g[i] = f[i]
        BY <3>1
      <4>2. f[i] = IF i = 1 THEN s[i] ELSE f[i - 1] \o s[i]
        BY <2>1, <4>1 DEF Flattens
      <4>3. i # 1 => i - 1 \in 1 .. (n + 1) /\ i - 1 <= n
        BY <3>1
      <4>4. i # 1 => g[i - 1] = f[i - 1]
        BY <4>3
      <4> QED
        BY <4>1, <4>2, <4>4
    <3>2. CASE ~(i <= n) /\ i = 1
      BY <3>2
    <3>3. CASE ~(i <= n) /\ i # 1
      <4>1. i = n + 1 /\ n \in 1 .. (n + 1) /\ i - 1 = n
        BY <3>3
      <4>2. g[n] = f[n]
        BY <4>1
      <4>3. g[i] = f[n] \o s[i]
        BY <3>3
      <4> QED
        BY <3>3, <4>1, <4>2, <4>3
    <3> QED
      BY <3>1, <3>2, <3>3
  <2>3. g = h
    BY <2>2
  <2>4. Flattens(g, s, n + 1)
    <3> HIDE DEF g
    <3> QED
      BY <2>3 DEF Flattens
  <2> QED
    BY <2>4
<1>3. Nat \subseteq S
  <2> HIDE DEF S
  <2> QED
    BY <1>1, <1>2, SetInduction
<1>4. QED
  BY <1>3

(* FlattenSeq is the last of the partial concatenations. *)
LEMMA FlattenSeqIs ==
    ASSUME NEW s, Len(s) \in Nat, Len(s) # 0
    PROVE  \E f : Flattens(f, s, Len(s)) /\ FlattenSeq(s) = f[Len(s)]
<1> DEFINE g == CHOOSE f : Flattens(f, s, Len(s))
<1>1. Flattens(g, s, Len(s))
  BY FlattensExists, Zenon
<1>2. FlattenSeq(s) = g[Len(s)]
  BY DEF FlattenSeq, Flattens
<1>3. QED
  BY <1>1, <1>2

(* The RDATA of one token with rows. *)
LEMMA RdataRun ==
    ASSUME NEW w \in Writers, NEW ts \in Seq(AllKinds), NEW x \in Nat, NEW t \in 1 .. Len(ts),
           x <= t, NoneBetween(ts, x, t), RowsOf(ts[t]) # 0
    PROVE  Run(w, ts, x, Rdata(w, ts, t), t)
<1> DEFINE s == Rdata(w, ts, t)
           n == RowsOf(ts[t])
<1>1. n \in {1, 2} /\ t \in Nat /\ t # None /\ 1 <= t
  BY RowsOfValues DEF None
<1>2. /\ DOMAIN s = 1 .. n
      /\ \A i \in 1 .. n : /\ s[i].type = "RDATA" /\ s[i].writer = w
                           /\ s[i].token = IF i = n THEN t ELSE None
                           /\ s[i].row = <<w, t, i>>
                           /\ s[i] = [type |-> "RDATA", writer |-> w,
                                      token |-> IF i = n THEN t ELSE None, row |-> <<w, t, i>>]
  BY DEF Rdata
<1>3. \A i \in 1 .. n : i \in {1, 2}
  BY <1>1
<1>4. \A i \in 1 .. n : s[i] \in AllCommands
  BY <1>1, <1>2, <1>3 DEF AllCommands, None
<1>5. s \in Seq(AllCommands) /\ Len(s) = n
  BY <1>1, <1>4 DEF Rdata
<1> HIDE DEF s, n
<1>6. \A i \in 1 .. n : TokenOf(s[i]) = t /\ s[i].row[2] = t /\ s[i].row[3] = i
  BY <1>2 DEF TokenOf
<1>7. \A i \in 1 .. n : IsCommand(s[i], w, ts)
  BY <1>2 DEF IsCommand, IsRdata, n
<1>8. LinkedSeq(ts, 0, s)
  <2> SUFFICES ASSUME NEW k \in 1 .. (n - 1) PROVE Chained(ts, 0, s[k], s[k + 1])
    BY <1>5 DEF LinkedSeq
  <2>1. n = 2 /\ k = 1
    BY <1>1
  <2>2. 1 \in 1 .. n /\ 2 \in 1 .. n /\ k + 1 = 2
    BY <2>1
  <2> QED
    BY <1>2, <1>6, <2>1, <2>2 DEF Chained
<1>9. 1 \in 1 .. n /\ n \in 1 .. n /\ s # <<>>
  BY <1>1, <1>5
<1>10. IsFinal(s[n])
  BY <1>1, <1>2, <1>9 DEF IsFinal
<1>11. NoneBetween(ts, t, t + 1)
  BY <1>1, NoneBetweenNear
<1>12. \A i \in 1 .. n : x <= TokenOf(s[i]) /\ TokenOf(s[i]) <= t
  BY <1>1, <1>6
<1>13. \A i, j \in 1 .. n : TokenOf(s[j]) <= TokenOf(s[i])
  BY <1>1, <1>6
<1>14. s[1].row[3] = 1 /\ NoneBetween(ts, x, s[1].row[2])
  BY <1>6, <1>9
<1>15. IsFinal(s[Len(s)]) /\ NoneBetween(ts, TokenOf(s[Len(s)]), t + 1)
  BY <1>5, <1>6, <1>9, <1>10, <1>11
<1>16. Run(w, ts, x, s, t)
  BY <1>2, <1>5, <1>7, <1>8, <1>9, <1>12, <1>13, <1>14, <1>15 DEF Run
<1>17. QED
  BY <1>16 DEF s

(* A token without rows has no RDATA. *)
LEMMA RdataNone ==
    ASSUME NEW w, NEW ts, NEW t, RowsOf(ts[t]) = 0
    PROVE  Rdata(w, ts, t) = <<>>
  BY DEF Rdata

(* The RDATA of the tokens above a, up to b, if any of them has rows. *)
LEMMA AllRdataRun ==
    ASSUME NEW w \in Writers, NEW ts \in Seq(AllKinds), NEW a \in Nat, NEW b \in Nat,
           a < b, b <= Len(ts), ~NoneBetween(ts, a, b + 1),
           NEW g, g = FlattenSeq([i \in 1 .. (b - a) |-> Rdata(w, ts, a + i)])
    PROVE  Run(w, ts, a, g, b)
<1> DEFINE s == [i \in 1 .. (b - a) |-> Rdata(w, ts, a + i)]
           m == b - a
<1>1. m \in Nat /\ m # 0 /\ a + m = b
  OBVIOUS
<1>2. Len(s) = m /\ \A i \in 1 .. m : s[i] = Rdata(w, ts, a + i)
  <2>1. s \in [1 .. m -> {Rdata(w, ts, a + i) : i \in 1 .. m}]
    OBVIOUS
  <2> QED
    BY <1>1, <2>1
<1> HIDE DEF s, m
<1>3. PICK f : Flattens(f, s, m) /\ g = f[m]
  BY <1>1, <1>2, FlattenSeqIs DEF s, m
<1> DEFINE Good(x, n) == \/ x = <<>> /\ NoneBetween(ts, a, (a + n) + 1)
                         \/ Run(w, ts, a, x, a + n)
           S == {n \in Nat : n + 1 <= m => Good(f[n + 1], n + 1)}
<1>4. ASSUME NEW n \in Nat, n + 1 <= m, NEW x, Good(x, n)
      PROVE  /\ Good(x \o s[n + 1], n + 1)
             /\ x = <<>> => Good(s[n + 1], n + 1)
  <2> DEFINE t == a + (n + 1)
             r == Rdata(w, ts, t)
  <2>1. t \in 1 .. Len(ts) /\ a + n \in Nat /\ a + n <= t /\ t = (a + n) + 1 /\ a <= t
        /\ n + 1 \in 1 .. m /\ a <= a + n
    BY <1>1, <1>4
  <2>2. s[n + 1] = r
    BY <1>2, <2>1
  <2> HIDE DEF t, r
  <2>3. NoneBetween(ts, a + n, t)
    BY <2>1, NoneBetweenNear
  <2>4. CASE RowsOf(ts[t]) = 0
    <3>1. r = <<>>
      BY <2>4, RdataNone DEF r
    <3>2. NoneBetween(ts, a + n, t + 1)
      <4> SUFFICES ASSUME NEW u \in ((a + n) + 1) .. ((t + 1) - 1) PROVE RowsOf(ts[u]) = 0
        BY DEF NoneBetween
      <4>1. u = t
        BY <2>1
      <4> QED
        BY <2>4, <4>1
    <3>3. CASE x = <<>> /\ NoneBetween(ts, a, (a + n) + 1)
      <4>1. NoneBetween(ts, a, t + 1)
        BY <2>1, <3>2, <3>3, NoneBetweenJoin
      <4>2. x \o r = <<>>
        BY <3>1, <3>3
      <4> QED
        BY <2>2, <3>1, <4>1, <4>2 DEF t
    <3>4. CASE Run(w, ts, a, x, a + n)
      <4>1. x \in Seq(AllCommands) /\ x # <<>>
        BY <3>4 DEF Run
      <4>2. x \o r = x
        BY <3>1, <4>1
      <4>3. Run(w, ts, a, x, t)
        BY <2>1, <3>2, <3>4, RunFurther
      <4> QED
        BY <2>2, <4>1, <4>2, <4>3 DEF t
    <3> QED
      BY <1>4, <3>3, <3>4
  <2>5. CASE RowsOf(ts[t]) # 0
    <3>1. CASE x = <<>> /\ NoneBetween(ts, a, (a + n) + 1)
      <4>1. NoneBetween(ts, a, t)
        BY <2>1, <3>1
      <4>2. Run(w, ts, a, r, t)
        BY <2>1, <2>5, <4>1, RdataRun DEF r
      <4>3. r \in Seq(AllCommands)
        BY <4>2 DEF Run
      <4>4. x \o r = r
        BY <3>1, <4>3
      <4> QED
        BY <2>2, <4>2, <4>4 DEF t
    <3>2. CASE Run(w, ts, a, x, a + n)
      <4>1. Run(w, ts, a + n, r, t)
        BY <2>1, <2>3, <2>5, RdataRun DEF r
      <4>2. Run(w, ts, a, x \o r, t)
        BY <2>1, <3>2, <4>1, RunJoin
      <4>3. x # <<>>
        BY <3>2 DEF Run
      <4> QED
        BY <2>2, <4>2, <4>3 DEF t
    <3> QED
      BY <1>4, <3>1, <3>2
  <2> QED
    BY <2>4, <2>5
<1>5. 0 \in S
  <2>1. f[1] = s[1]
    BY <1>1, <1>3 DEF Flattens
  <2>2. Good(<<>>, 0)
    BY NoneBetweenNear
  <2>3. 0 + 1 <= m /\ 0 + 1 = 1
    BY <1>1
  <2>4. Good(s[0 + 1], 0 + 1)
    <3> HIDE DEF Good
    <3> QED
      BY <1>4, <2>2, <2>3
  <2> HIDE DEF Good
  <2> QED
    BY <2>1, <2>3, <2>4
<1>6. ASSUME NEW n \in Nat, n \in S PROVE n + 1 \in S
  <2> HIDE DEF Good
  <2> SUFFICES ASSUME (n + 1) + 1 <= m PROVE Good(f[(n + 1) + 1], (n + 1) + 1)
    OBVIOUS
  <2>1. Good(f[n + 1], n + 1)
    BY <1>1, <1>6
  <2>2. f[(n + 1) + 1] = f[n + 1] \o s[(n + 1) + 1]
    <3>1. (n + 1) + 1 \in 1 .. m /\ (n + 1) + 1 # 1 /\ ((n + 1) + 1) - 1 = n + 1
      BY <1>1
    <3>2. \A i \in 1 .. m : f[i] = IF i = 1 THEN s[i] ELSE f[i - 1] \o s[i]
      BY <1>3 DEF Flattens
    <3> QED
      BY <3>1, <3>2, Zenon
  <2>3. n + 1 \in Nat
    OBVIOUS
  <2> QED
    BY <1>4, <2>1, <2>2, <2>3
<1>7. Nat \subseteq S
  <2> HIDE DEF S
  <2> QED
    BY <1>5, <1>6, SetInduction
<1>8. Good(f[m], m)
  <2> HIDE DEF Good
  <2>1. m - 1 \in Nat /\ (m - 1) + 1 = m
    BY <1>1
  <2>2. m - 1 \in S
    BY <1>7, <2>1
  <2> QED
    BY <2>1, <2>2
<1>9. QED
  BY <1>1, <1>3, <1>8

(* What SendUpdates sends for the updates above a, up to b. *)
LEMMA CommandsRun ==
    ASSUME NEW w \in Writers, NEW ts \in Seq(AllKinds), NEW a \in Nat, NEW b \in Nat,
           a <= b, b <= Len(ts)
    PROVE  Run(w, ts, a, Commands(w, ts, a, b), b)
<1> DEFINE found == WithRows(ts, a, b)
           sent == Largest(found)
           g == FlattenSeq([i \in 1 .. (b - a) |-> Rdata(w, ts, a + i)])
<1>1. /\ found = {} => sent = None
      /\ found # {} => sent \in found /\ sent # None /\ \A u \in found : u <= sent
  BY WithRowsIs, LargestProps
<1>2. CASE found = {}
  <2>1. NoneBetween(ts, a, b + 1)
    <3>1. \A t \in WithRows(ts, a, b) : t <= a
      BY <1>2
    <3>2. a <= a
      OBVIOUS
    <3> HIDE DEF found, sent
    <3> QED
      BY <3>1, <3>2, WithRowsIs
  <2>2. Run(w, ts, a, <<Position(w, a, b)>>, b)
    BY <2>1, PositionRun
  <2> QED
    BY <1>1, <1>2, <2>2 DEF Commands
<1>3. CASE found # {}
  <2> HIDE DEF sent, g
  <2>1. sent \in Nat /\ a < sent /\ sent <= b /\ RowsOf(ts[sent]) > 0 /\ sent # None
    BY <1>1, <1>3 DEF WithRows
  <2>2. ~NoneBetween(ts, a, b + 1)
    <3>1. sent \in (a + 1) .. (b + 1 - 1) /\ RowsOf(ts[sent]) # 0
      BY <2>1, RowsOfValues
    <3> QED
      BY <3>1 DEF NoneBetween
  <2>3. Run(w, ts, a, g, b)
    BY <2>1, <2>2, AllRdataRun DEF g
  <2>4. CASE sent < b
    <3>1. NoneBetween(ts, sent, b + 1)
      BY <1>1, <1>3, <2>1, WithRowsIs
    <3>2. Run(w, ts, b, <<Position(w, sent, b)>>, b)
      BY <2>1, <3>1, PositionRun
    <3>3. Run(w, ts, a, g \o <<Position(w, sent, b)>>, b)
      BY <2>3, <3>2, RunJoin
    <3>4. Commands(w, ts, a, b) = g \o <<Position(w, sent, b)>>
      BY <2>1, <2>4 DEF Commands, g, sent
    <3> QED
      BY <3>3, <3>4
  <2>5. CASE ~(sent < b)
    <3>1. Commands(w, ts, a, b) = g \o <<>>
      BY <2>1, <2>5 DEF Commands, g, sent
    <3>2. g \o <<>> = g
      BY <2>3 DEF Run
    <3> QED
      BY <2>3, <3>1, <3>2
  <2> QED
    BY <2>4, <2>5
<1>4. QED
  BY <1>2, <1>3

--------------------------------------------------------------------------------
(***************************************************************************)
(* The steps of a streamer.                                                *)
(***************************************************************************)

(* Tokens from the last one the writer used itself on carry no rows. *)
LEMMA MinimalLocalTokenIs ==
    ASSUME NEW ts \in Seq(AllKinds), NEW x \in Nat, x >= MinimalLocalToken(ts)
    PROVE  NoneBetween(ts, x, Len(ts) + 1)
<1> DEFINE S == {t \in DOMAIN ts : ts[t] # "moved"}
<1>1. Len(ts) \in Nat /\ S \subseteq 1 .. Len(ts)
  OBVIOUS
<1> HIDE DEF S
<1>2. \A u \in S : u <= Largest(S) /\ Largest(S) \in 1 .. Len(ts)
  BY <1>1, LargestProps
<1>3. MinimalLocalToken(ts) = Largest(S)
  BY DEF MinimalLocalToken, S
<1> SUFFICES ASSUME NEW u \in (x + 1) .. ((Len(ts) + 1) - 1) PROVE RowsOf(ts[u]) = 0
  BY DEF NoneBetween
<1>4. u \in 1 .. Len(ts) /\ ~(u <= x)
  BY <1>1
<1>5. u \notin S
  BY <1>1, <1>2, <1>3, <1>4
<1>6. ts[u] = "moved"
  BY <1>4, <1>5 DEF S
<1>7. QED
  BY <1>6 DEF RowsOf

(* The fields of a streamer. *)

(* The fields of a writer's streamer. *)
LEMMA StreamerTypes ==
    ASSUME NEW s \in StreamerType
    PROVE  /\ s.last \in Nat /\ s.from \in Nat /\ s.upto \in Nat
           /\ s.looping \in BOOLEAN /\ s.pending \in BOOLEAN /\ s.announce \in BOOLEAN
           /\ s.connected \in BOOLEAN /\ s.greeting \in BOOLEAN
  BY DEF StreamerType

(* _run_notifier_loop goes on from the last token. *)
LoopOutcome(w, ts, s, r) ==
    /\ StreamerOK(r.state, ts) /\ r.state.connected = s.connected
    /\ s.last <= r.state.last /\ Floor(r.state) = r.state.last
    /\ r.sent = <<>> => r.state.last = s.last
    /\ r.sent = <<>> \/ Run(w, ts, s.last, r.sent, r.state.last)

(* One turn of the notifier loop: a run of commands from where the streamer was. *)
LEMMA RunNotifierLoopIs ==
    ASSUME NEW w \in Writers, NEW ts \in Seq(AllKinds), NEW s, StreamerOK(s, ts),
           NEW r, r = RunNotifierLoop(w, s, ts)
    PROVE  LoopOutcome(w, ts, s, r)
<1> SUFFICES
        /\ StreamerOK(r.state, ts) /\ r.state.connected = s.connected
        /\ s.last <= r.state.last /\ Floor(r.state) = r.state.last
        /\ r.sent = <<>> => r.state.last = s.last
        /\ r.sent = <<>> \/ Run(w, ts, s.last, r.sent, r.state.last)
  BY DEF LoopOutcome
<1> DEFINE current == Len(ts)
           t == [s EXCEPT !.pending = FALSE, !.announce = FALSE]
           last == s.last
<1>1. current \in Nat /\ last \in Nat /\ last <= current
  BY DEF StreamerOK, StreamerType
<1>2. /\ s.pending \in BOOLEAN /\ s.announce \in BOOLEAN
      /\ s \in StreamerType
  BY DEF StreamerOK, StreamerType
<1>3. Announcement(w, s) = <<>> \/ Run(w, ts, last, Announcement(w, s), last)
  <2>1. NoneBetween(ts, last, last + 1)
    BY <1>1, NoneBetweenNear
  <2>2. Run(w, ts, last, <<Position(w, last, last)>>, last)
    BY <1>1, <2>1, PositionRun
  <2> QED
    BY <2>2 DEF Announcement
<1>4. CASE ~s.pending
  <2>1. r = [state |-> [s EXCEPT !.looping = FALSE], sent |-> <<>>]
    BY <1>4 DEF RunNotifierLoop
  <2>2. r.sent = <<>> /\ r.state = [s EXCEPT !.looping = FALSE]
    BY <2>1
  <2>3. r.state \in StreamerType /\ r.state.last = last /\ ~r.state.looping
        /\ r.state.connected = s.connected
    BY <1>2, <2>2 DEF StreamerType
  <2> QED
    BY <1>1, <2>2, <2>3 DEF StreamerOK, Floor
<1>5. CASE s.pending /\ s.last = current
  <2>1. r = [state |-> [t EXCEPT !.looping = FALSE], sent |-> Announcement(w, s)]
    BY <1>5 DEF RunNotifierLoop
  <2>a. r.sent = Announcement(w, s) /\ r.state = [t EXCEPT !.looping = FALSE]
    BY <2>1
  <2>b. r.state \in StreamerType /\ r.state.last = last /\ ~r.state.looping
        /\ r.state.connected = s.connected
    BY <1>2, <2>a DEF StreamerType
  <2>2. r.sent = Announcement(w, s) /\ r.state.last = last
    BY <2>a, <2>b
  <2>3. r.sent = <<>> \/ Run(w, ts, s.last, r.sent, r.state.last)
    BY <1>3, <2>2
  <2>4. /\ StreamerOK(r.state, ts) /\ r.state.connected = s.connected
        /\ s.last <= r.state.last /\ Floor(r.state) = r.state.last
    BY <1>1, <2>b DEF StreamerOK, Floor
  <2> QED
    BY <2>2, <2>3, <2>4
<1>6. CASE s.pending /\ s.last # current /\ s.last >= MinimalLocalToken(ts)
  <2>1. r = [state |-> [t EXCEPT !.looping = FALSE, !.last = current],
             sent |-> Announcement(w, s) \o <<Position(w, s.last, current)>>]
    BY <1>6 DEF RunNotifierLoop
  <2>a. r.sent = Announcement(w, s) \o <<Position(w, last, current)>>
        /\ r.state = [t EXCEPT !.looping = FALSE, !.last = current]
    BY <2>1
  <2>b. r.state \in StreamerType /\ r.state.last = current /\ ~r.state.looping
        /\ r.state.connected = s.connected
    BY <1>1, <1>2, <2>a DEF StreamerType
  <2>2. r.sent = Announcement(w, s) \o <<Position(w, last, current)>> /\ r.state.last = current
    BY <2>a, <2>b
  <2>3. NoneBetween(ts, last, current + 1)
    BY <1>1, <1>6, MinimalLocalTokenIs
  <2>4. Run(w, ts, last, <<Position(w, last, current)>>, current)
    BY <1>1, <2>3, PositionRun
  <2>5. Run(w, ts, last, r.sent, current)
    <3>1. CASE Announcement(w, s) = <<>>
      <4>1. <<>> \o <<Position(w, last, current)>> = <<Position(w, last, current)>>
        OBVIOUS
      <4> QED
        BY <2>2, <2>4, <3>1, <4>1
    <3>2. CASE Run(w, ts, last, Announcement(w, s), last)
      <4>1. last <= last
        BY <1>1
      <4> QED
        BY <1>1, <2>2, <2>4, <3>2, <4>1, RunJoin
    <3> QED
      BY <1>3, <3>1, <3>2
  <2>6. r.sent # <<>>
    BY <2>5 DEF Run
  <2>7. /\ StreamerOK(r.state, ts) /\ r.state.connected = s.connected
        /\ s.last <= r.state.last /\ Floor(r.state) = r.state.last
    BY <1>1, <2>b DEF StreamerOK, Floor
  <2> QED
    BY <2>2, <2>5, <2>6, <2>7
<1>7. CASE s.pending /\ s.last # current /\ ~(s.last >= MinimalLocalToken(ts))
  <2>1. r = [state |-> [t EXCEPT !.looping = TRUE, !.from = s.last, !.upto = current],
             sent |-> Announcement(w, s)]
    BY <1>7 DEF RunNotifierLoop
  <2>a. r.sent = Announcement(w, s)
        /\ r.state = [t EXCEPT !.looping = TRUE, !.from = s.last, !.upto = current]
    BY <2>1
  <2>b. r.state \in StreamerType /\ r.state.last = last /\ r.state.looping
        /\ r.state.connected = s.connected /\ r.state.from = last /\ r.state.upto = current
    BY <1>1, <1>2, <2>a DEF StreamerType
  <2>2. r.sent = Announcement(w, s) /\ r.state.last = last
    BY <2>a, <2>b
  <2>3. r.sent = <<>> \/ Run(w, ts, s.last, r.sent, r.state.last)
    BY <1>3, <2>2
  <2>4. /\ StreamerOK(r.state, ts) /\ r.state.connected = s.connected
        /\ s.last <= r.state.last /\ Floor(r.state) = r.state.last
    BY <1>1, <2>b DEF StreamerOK, Floor
  <2> QED
    BY <2>2, <2>3, <2>4
<1>8. QED
  BY <1>2, <1>4, <1>5, <1>6, <1>7

(***************************************************************************)
(* What a step r of w's streamer s comes to: what it sends is a run from   *)
(* where the last one ended, and sending nothing with a connection it      *)
(* passes nothing.                                                         *)
(***************************************************************************)
Outcome(w, ts, s, r) ==
    /\ StreamerOK(r.state, ts) /\ r.state.connected = s.connected
    /\ Floor(s) <= Floor(r.state)
    /\ r.sent = <<>> \/ Run(w, ts, Floor(s), r.sent, r.state.last)
    /\ r.sent # <<>> => Floor(r.state) = r.state.last
    /\ r.sent = <<>> /\ r.state.last = s.last => Floor(r.state) = Floor(s)
    /\ r.sent = <<>> /\ s.connected => r.state.last = s.last

(* A poke sends nothing, or what a turn of the loop sends. *)
LEMMA OnNotifierPokeIs ==
    ASSUME NEW w \in Writers, NEW ts \in Seq(AllKinds), NEW s, StreamerOK(s, ts),
           NEW r, r = OnNotifierPoke(w, s, ts)
    PROVE  Outcome(w, ts, s, r)
<1>1. /\ Len(ts) \in Nat /\ s.last <= Len(ts) /\ s.last \in Nat /\ s.from \in Nat
      /\ s.looping \in BOOLEAN /\ s.announce \in BOOLEAN /\ s.connected \in BOOLEAN
      /\ s \in StreamerType
  BY DEF StreamerOK, StreamerType
<1>2. CASE ~s.connected
  <2>1. r = [state |-> [s EXCEPT !.last = Len(ts)], sent |-> <<>>]
    BY <1>2 DEF OnNotifierPoke
  <2>2. r.sent = <<>> /\ r.state.last = Len(ts) /\ r.state.looping = s.looping
        /\ r.state.from = s.from /\ r.state.connected = s.connected
    BY <1>1, <2>1 DEF StreamerType
  <2>a. r.state = [s EXCEPT !.last = Len(ts)]
    BY <2>1
  <2>b. r.state \in StreamerType /\ r.state.upto = s.upto
    BY <1>1, <2>a DEF StreamerType
  <2>3. StreamerOK(r.state, ts)
    BY <1>1, <2>2, <2>b DEF StreamerOK
  <2>4. Floor(s) <= Floor(r.state) /\ (r.state.last = s.last => Floor(r.state) = Floor(s))
    BY <1>1, <2>2 DEF Floor
  <2> QED
    BY <1>2, <2>2, <2>3, <2>4 DEF Outcome
<1>3. CASE s.connected /\ ~s.announce /\ s.last = Len(ts)
  <2>1. r = [state |-> s, sent |-> <<>>]
    BY <1>3 DEF OnNotifierPoke
  <2>2. Floor(s) <= Floor(s)
    BY <1>1 DEF Floor
  <2> QED
    BY <2>1, <2>2 DEF Outcome
<1>4. CASE s.connected /\ (s.announce \/ s.last # Len(ts)) /\ s.looping
  <2>1. r = [state |-> [s EXCEPT !.pending = TRUE], sent |-> <<>>]
    BY <1>4 DEF OnNotifierPoke
  <2>2. r.sent = <<>> /\ r.state.last = s.last /\ r.state.looping = s.looping
        /\ r.state.from = s.from /\ r.state.connected = s.connected
    BY <1>1, <2>1 DEF StreamerType
  <2>a. r.state = [s EXCEPT !.pending = TRUE]
    BY <2>1
  <2>b. r.state \in StreamerType /\ r.state.upto = s.upto
    BY <1>1, <2>a DEF StreamerType
  <2>3. StreamerOK(r.state, ts)
    BY <1>1, <2>2, <2>b DEF StreamerOK
  <2>4. Floor(s) <= Floor(r.state) /\ Floor(r.state) = Floor(s)
    BY <1>1, <2>2 DEF Floor
  <2> QED
    BY <2>2, <2>3, <2>4 DEF Outcome
<1>5. CASE s.connected /\ (s.announce \/ s.last # Len(ts)) /\ ~s.looping
  <2> DEFINE t == [s EXCEPT !.pending = TRUE]
  <2>1. r = RunNotifierLoop(w, t, ts)
    BY <1>5 DEF OnNotifierPoke
  <2>2. StreamerOK(t, ts) /\ t.last = s.last /\ t.connected = s.connected
    <3>1. t \in StreamerType /\ t.last = s.last /\ t.connected = s.connected
          /\ t.looping = s.looping /\ t.from = s.from /\ t.upto = s.upto
      BY <1>1 DEF StreamerType
    <3> HIDE DEF t
    <3> QED
      BY <1>5, <3>1 DEF StreamerOK
  <2>3. Floor(s) = s.last
    BY <1>5 DEF Floor
  <2> HIDE DEF t
  <2>4. LoopOutcome(w, ts, t, r)
    BY <2>1, <2>2, RunNotifierLoopIs
  <2> QED
    BY <2>2, <2>3, <2>4 DEF Outcome, LoopOutcome
<1>6. QED
  BY <1>1, <1>2, <1>3, <1>4, <1>5

(* The updates read, then another turn: the commands form one run. *)
LEMMA SendUpdatesIs ==
    ASSUME NEW w \in Writers, NEW ts \in Seq(AllKinds), NEW s, StreamerOK(s, ts), s.looping,
           NEW u, u = Updates(ts, s.from, s.upto),
           NEW t, t = [s EXCEPT !.last = u.upto, !.pending = @ \/ u.limited],
           NEW r, r = RunNotifierLoop(w, t, ts),
           NEW q, q = [state |-> r.state,
                       sent |-> Commands(w, ts, s.from, u.upto) \o r.sent]
    PROVE  Outcome(w, ts, s, q) /\ q.sent # <<>>
<1> DEFINE a == s.from
           C == Commands(w, ts, a, u.upto)
<1>1. /\ Len(ts) \in Nat /\ s.last \in Nat /\ a \in Nat /\ s.upto \in Nat
      /\ s.upto <= Len(ts) /\ a <= s.upto /\ s.pending \in BOOLEAN
      /\ s \in StreamerType
  BY DEF StreamerOK, StreamerType
<1>2. u.limited \in BOOLEAN /\ (u.upto \in WithRows(ts, a, s.upto) \/ u.upto = s.upto)
  BY <1>1, UpdatesIs
<1>3. u.upto \in Nat /\ a <= u.upto /\ u.upto <= Len(ts)
  BY <1>1, <1>2 DEF WithRows
<1>4. /\ StreamerOK(t, ts) /\ t.last = u.upto /\ t.connected = s.connected
  <2>1. t \in StreamerType /\ t.last = u.upto /\ t.connected = s.connected
        /\ t.from = a /\ t.upto = s.upto
    BY <1>1, <1>2, <1>3 DEF StreamerType
  <2> QED
    BY <1>1, <1>3, <2>1 DEF StreamerOK
<1>5. Run(w, ts, a, C, u.upto)
  BY <1>1, <1>3, CommandsRun
<1>6. /\ StreamerOK(r.state, ts) /\ r.state.connected = s.connected
      /\ u.upto <= r.state.last /\ Floor(r.state) = r.state.last
      /\ r.sent = <<>> => r.state.last = u.upto
      /\ r.sent = <<>> \/ Run(w, ts, u.upto, r.sent, r.state.last)
  <2>1. LoopOutcome(w, ts, t, r)
    BY <1>4, RunNotifierLoopIs
  <2> QED
    BY <1>4, <2>1 DEF LoopOutcome
<1>7. r.state.last \in Nat
  BY <1>6 DEF StreamerOK, StreamerType
<1> HIDE DEF a, C
<1>8. Run(w, ts, a, C \o r.sent, r.state.last)
  <2>1. CASE r.sent = <<>>
    <3>1. C \o <<>> = C
      BY <1>5 DEF Run
    <3> QED
      BY <1>5, <1>6, <2>1, <3>1
  <2>2. CASE Run(w, ts, u.upto, r.sent, r.state.last)
    BY <1>1, <1>3, <1>5, <1>6, <1>7, <2>2, RunJoin
  <2> QED
    BY <1>6, <2>1, <2>2
<1>9. Floor(s) = a
  BY DEF Floor, a
<1>10. q.state = r.state /\ q.sent = C \o r.sent
  BY DEF C, a
<1>11. q.sent # <<>>
  BY <1>8, <1>10 DEF Run
<1>12. Floor(s) <= Floor(r.state)
  BY <1>1, <1>3, <1>6, <1>7, <1>9
<1>13. QED
  BY <1>6, <1>8, <1>9, <1>10, <1>11, <1>12 DEF Outcome

--------------------------------------------------------------------------------
(***************************************************************************)
(* What keeps Contig.                                                      *)
(***************************************************************************)

Queues(S) == Seq([cmd : S, conn : Nat])

(* The entries of a queue. *)
LEMMA QueueFields ==
    ASSUME NEW S, NEW q \in Queues(S)
    PROVE  /\ Len(q) \in Nat /\ DOMAIN q = 1 .. Len(q)
           /\ \A k \in DOMAIN q : q[k].cmd \in S /\ q[k].conn \in Nat
<1> DEFINE T == [cmd : S, conn : Nat]
<1>1. q \in Seq(T)
  BY DEF Queues
<1>2. \A x \in T : x.cmd \in S /\ x.conn \in Nat
  OBVIOUS
<1> HIDE DEF T
<1>3. Len(q) \in Nat /\ DOMAIN q = 1 .. Len(q) /\ \A k \in DOMAIN q : q[k] \in T
  BY <1>1
<1>4. QED
  BY <1>2, <1>3

(* Nothing moves, but the reader gets further, or the tokens do. *)
LEMMA ContigMap ==
    ASSUME NEW S, NEW q, NEW C \in Seq(S), NEW w, NEW c,
           \A k \in DOMAIN q : q[k].cmd.writer = w => q[k].cmd \in S,
           NEW ts, NEW p, NEW X, NEW K, NEW Y, NEW on \in BOOLEAN,
           NEW ts2, NEW p2, NEW X2, NEW K2, NEW Y2, NEW on2 \in BOOLEAN,
           \A a, b \in S : Chained(ts, p, a, b) => Chained(ts2, p2, a, b),
           \A b \in S : Ready(w, ts, X, K, b) => Ready(w, ts2, X2, K2, b),
           Y2 \subseteq Y, on2 => on,
           Contig(w, ts, p, X, K, q, Y, c, on, C)
    PROVE  Contig(w, ts2, p2, X2, K2, q, Y2, c, on2, C)
<1>1. Len(C) \in Nat /\ \A k \in 1 .. Len(C) : C[k] \in S
  OBVIOUS
<1>2. \A k \in DOMAIN q : q[k].cmd.writer = w => q[k].cmd \in S
  OBVIOUS
<1>3. LinkedSeq(ts2, p2, C)
  <2> SUFFICES ASSUME NEW k \in 1 .. (Len(C) - 1) PROVE Chained(ts2, p2, C[k], C[k + 1])
    BY DEF LinkedSeq
  <2>1. k \in 1 .. Len(C) /\ k + 1 \in 1 .. Len(C)
    BY <1>1
  <2>2. C[k] \in S /\ C[k + 1] \in S
    BY <1>1, <2>1
  <2>3. Chained(ts, p, C[k], C[k + 1])
    BY DEF Contig, LinkedSeq
  <2> QED
    BY <2>2, <2>3
<1>4. LinkedQueue(w, ts2, p2, q)
  BY <1>2 DEF Contig, LinkedQueue, Own
<1>5. on2 => LinkedAcross(w, ts2, p2, q, c, C)
  <2> SUFFICES ASSUME on2, C # <<>> PROVE LinkedAcross(w, ts2, p2, q, c, C)
    BY DEF LinkedAcross
  <2>1. C[1] \in S
    OBVIOUS
  <2> QED
    BY <1>2, <2>1 DEF Contig, LinkedAcross, Own
<1>6. ReadyQueue(w, ts2, X2, K2, q, Y2)
  BY <1>2 DEF Contig, ReadyQueue
<1>7. on2 /\ c \in Y2 => ReadyOut(w, ts2, X2, K2, q, c, C)
  <2> SUFFICES ASSUME on2, c \in Y2, C # <<>> PROVE ReadyOut(w, ts2, X2, K2, q, c, C)
    BY DEF ReadyOut
  <2>1. C[1] \in S
    OBVIOUS
  <2> QED
    BY <2>1 DEF Contig, ReadyOut
<1>8. QED
  BY <1>3, <1>4, <1>5, <1>6, <1>7 DEF Contig

(* The tokens of the sequence ts2 go on from those of ts. *)
Extends(ts, ts2) ==
    /\ ts \in Seq(AllKinds) /\ ts2 \in Seq(AllKinds)
    /\ Len(ts) <= Len(ts2) /\ \A u \in 1 .. Len(ts) : ts2[u] = ts[u]

(* A list of tokens with one more extends it. *)
LEMMA ExtendsAppend ==
    ASSUME NEW ts \in Seq(AllKinds), NEW k \in AllKinds
    PROVE  Extends(ts, ts) /\ Extends(ts, Append(ts, k)) /\ Len(Append(ts, k)) = Len(ts) + 1
  BY DEF Extends

(* What a writer has passed does not change when it writes more. *)
LEMMA NoneBetweenExtends ==
    ASSUME NEW ts, NEW ts2, Extends(ts, ts2), NEW x \in Nat, NEW t \in Nat, t <= Len(ts) + 1,
           NoneBetween(ts, x, t)
    PROVE  NoneBetween(ts2, x, t)
<1>1. Len(ts) \in Nat
  BY DEF Extends
<1> SUFFICES ASSUME NEW u \in (x + 1) .. (t - 1) PROVE RowsOf(ts2[u]) = 0
  BY DEF NoneBetween
<1>2. u \in 1 .. Len(ts)
  BY <1>1
<1>3. QED
  BY <1>2 DEF NoneBetween, Extends

(* A command stays one of its writer's when the writer writes more. *)
LEMMA IsCommandExtends ==
    ASSUME NEW ts, NEW ts2, Extends(ts, ts2), NEW w, NEW x, IsCommand(x, w, ts)
    PROVE  IsCommand(x, w, ts2)
<1>1. Len(ts) \in Nat /\ Len(ts2) \in Nat /\ Len(ts) <= Len(ts2)
  BY DEF Extends
<1>2. CASE IsPosition(x, w, ts)
  <2>1. /\ x.prev \in Nat /\ x.new \in Nat /\ x.new <= Len(ts) /\ x.new + 1 \in Nat
        /\ x.new + 1 <= Len(ts) + 1 /\ NoneBetween(ts, x.prev, x.new + 1)
    BY <1>1, <1>2 DEF IsPosition
  <2>2. NoneBetween(ts2, x.prev, x.new + 1)
    BY <2>1, NoneBetweenExtends
  <2>3. x.new <= Len(ts2)
    BY <1>1, <2>1
  <2> QED
    BY <1>2, <2>2, <2>3 DEF IsPosition, IsCommand
<1>3. CASE IsRdata(x, w, ts)
  <2>1. PICK t \in 1 .. Len(ts) : \E i \in 1 .. RowsOf(ts[t]) :
            x.row = <<w, t, i>> /\ x.token = IF i = RowsOf(ts[t]) THEN t ELSE None
    BY <1>3 DEF IsRdata
  <2>2. ts2[t] = ts[t] /\ t \in 1 .. Len(ts2)
    BY <1>1 DEF Extends
  <2> QED
    BY <1>3, <2>1, <2>2 DEF IsRdata, IsCommand
<1>4. QED
  BY <1>2, <1>3 DEF IsCommand

(* The commands that are about tokens up to the next one of ts. *)
UpToNext(ts) == {b \in AllCommands : b.type = "RDATA" => b.row[2] <= Len(ts) + 1}

(* What is contiguous stays so when the writer writes more. *)
LEMMA ContigExtends ==
    ASSUME NEW ts, NEW ts2, Extends(ts, ts2), NEW q, NEW C \in Seq(UpToNext(ts)), NEW w, NEW c,
           \A k \in DOMAIN q : q[k].cmd.writer = w => q[k].cmd \in UpToNext(ts),
           NEW p \in Nat, NEW X \in SUBSET Nat,
           NEW K, NEW Y, NEW on \in BOOLEAN,
           Contig(w, ts, p, X, K, q, Y, c, on, C)
    PROVE  Contig(w, ts2, p, X, K, q, Y, c, on, C)
<1> DEFINE S == UpToNext(ts)
<1>1. ASSUME NEW a \in S, NEW b \in S, Chained(ts, p, a, b) PROVE Chained(ts2, p, a, b)
  <2>1. a \in AllCommands /\ b \in AllCommands /\ (b.type = "RDATA" => b.row[2] <= Len(ts) + 1)
    BY DEF UpToNext
  <2> HIDE DEF S
  <2> SUFFICES ASSUME b.type = "RDATA" PROVE Chained(ts2, p, a, b)
    BY DEF Chained
  <2>2. TokenOf(a) \in Nat /\ b.row[2] \in Nat
    BY <2>1, CommandFields
  <2>3. NoneBetween(ts, TokenOf(a), b.row[2]) => NoneBetween(ts2, TokenOf(a), b.row[2])
    BY <2>1, <2>2, NoneBetweenExtends
  <2>4. NoneBetween(ts, p, b.row[2]) => NoneBetween(ts2, p, b.row[2])
    BY <2>1, <2>2, NoneBetweenExtends
  <2> QED
    BY <1>1, <2>3, <2>4 DEF Chained
<1>2. ASSUME NEW b \in S, Ready(w, ts, X, K, b) PROVE Ready(w, ts2, X, K, b)
  <2>1. b \in AllCommands /\ (b.type = "RDATA" => b.row[2] <= Len(ts) + 1)
    BY DEF UpToNext
  <2> HIDE DEF S
  <2> SUFFICES ASSUME b.type = "RDATA" PROVE Ready(w, ts2, X, K, b)
    BY DEF Ready
  <2>2. b.row[2] \in Nat
    BY <2>1, CommandFields
  <2>3. \A x \in X : NoneBetween(ts, x, b.row[2]) => NoneBetween(ts2, x, b.row[2])
    BY <2>1, <2>2, NoneBetweenExtends
  <2> QED
    BY <1>2, <2>3 DEF Ready
<1> HIDE DEF S
<1>3. QED
  BY <1>1, <1>2, ContigMap DEF S

(* Command b2 comes in the place of b1: it leaves out nothing more. *)
Instead(ts, b1, b2) ==
    /\ b1.type = "RDATA" /\ b2.type = "RDATA" /\ b1.row[3] = 1 /\ b2.row[3] = 1
    /\ \E l \in Nat : b1.row[2] = l + 1 /\ NoneBetween(ts, l, b2.row[2])

(* A command that stands for another may take its place in a chain. *)
LEMMA InsteadIs ==
    ASSUME NEW ts, NEW b1 \in AllCommands, NEW b2 \in AllCommands, Instead(ts, b1, b2),
           NEW p \in Nat, NEW w, NEW X \in SUBSET Nat, NEW K
    PROVE  /\ \A a \in AllCommands : Chained(ts, p, a, b1) => Chained(ts, p, a, b2)
           /\ Ready(w, ts, X, K, b1) => Ready(w, ts, X, K, b2)
<1>1. PICK l \in Nat : b1.row[2] = l + 1 /\ NoneBetween(ts, l, b2.row[2])
  BY DEF Instead
<1>2. b1.type = "RDATA" /\ b2.type = "RDATA" /\ b1.row[3] = 1 /\ b2.row[3] = 1
  BY DEF Instead
<1>3. b2.row[2] \in Nat
  BY <1>2, CommandFields
<1>4. \A x \in Nat : NoneBetween(ts, x, b1.row[2]) => NoneBetween(ts, x, b2.row[2])
  BY <1>1, <1>3, NoneBetweenJoin
<1>5. ASSUME NEW a \in AllCommands, Chained(ts, p, a, b1) PROVE Chained(ts, p, a, b2)
  <2>1. TokenOf(a) \in Nat
    BY CommandFields
  <2>2. /\ IsFinal(a) \/ TokenOf(a) <= p
        /\ NoneBetween(ts, TokenOf(a), b1.row[2]) \/ NoneBetween(ts, p, b1.row[2])
    BY <1>2, <1>5 DEF Chained
  <2>3. NoneBetween(ts, TokenOf(a), b2.row[2]) \/ NoneBetween(ts, p, b2.row[2])
    BY <1>4, <2>1, <2>2
  <2> QED
    BY <1>2, <2>2, <2>3 DEF Chained
<1>6. ASSUME Ready(w, ts, X, K, b1) PROVE Ready(w, ts, X, K, b2)
  <2>1. PICK x \in X : /\ NoneBetween(ts, x, b1.row[2])
                       /\ \A r \in K : r[1] = w => r[2] <= x \/ b1.row[3] = 2
    BY <1>2, <1>6 DEF Ready
  <2>2. NoneBetween(ts, x, b2.row[2])
    BY <1>4, <2>1
  <2> QED
    BY <1>2, <2>1, <2>2 DEF Ready
<1>7. QED
  BY <1>5, <1>6

(* What is coming changes, the first of it only for one in its place. *)
LEMMA ContigComing ==
    ASSUME NEW q \in Queues(AllCommands), NEW C \in Seq(AllCommands),
           NEW C2 \in Seq(AllCommands), NEW w, NEW c, NEW ts, NEW p \in Nat,
           NEW X \in SUBSET Nat, NEW K, NEW Y, NEW on \in BOOLEAN,
           Contig(w, ts, p, X, K, q, Y, c, on, C), LinkedSeq(ts, p, C2),
           C2 # <<>> =>
                \/ C2[1].type = "POSITION"
                \/ C # <<>> /\ (C2[1] = C[1] \/ Instead(ts, C[1], C2[1]))
    PROVE  Contig(w, ts, p, X, K, q, Y, c, on, C2)
<1>1. \A k \in DOMAIN q : q[k].cmd \in AllCommands
  BY QueueFields
<1>2. /\ C # <<>> => C[1] \in AllCommands
      /\ C2 # <<>> => C2[1] \in AllCommands
  OBVIOUS
<1>3. CASE C2 = <<>>
  BY <1>3 DEF Contig, LinkedAcross, ReadyOut
<1>4. CASE C2 # <<>> /\ C2[1].type = "POSITION"
  <2>1. \A a : Chained(ts, p, a, C2[1])
    BY <1>4 DEF Chained
  <2>2. Ready(w, ts, X, K, C2[1])
    BY <1>4 DEF Ready
  <2> QED
    BY <2>1, <2>2 DEF Contig, LinkedAcross, ReadyOut
<1>5. CASE C2 # <<>> /\ C # <<>> /\ (C2[1] = C[1] \/ Instead(ts, C[1], C2[1]))
  <2>1. /\ \A a \in AllCommands : Chained(ts, p, a, C[1]) => Chained(ts, p, a, C2[1])
        /\ Ready(w, ts, X, K, C[1]) => Ready(w, ts, X, K, C2[1])
    BY <1>2, <1>5, InsteadIs
  <2> QED
    BY <1>1, <1>5, <2>1 DEF Contig, LinkedAcross, ReadyOut
<1>6. QED
  BY <1>3, <1>4, <1>5

(* What is coming, element by element. *)
LEMMA FollowingIs ==
    ASSUME NEW w \in Writers, NEW o \in Seq(AllCommands), NEW g,
           NEW last \in Nat, NEW C, C = Following(w, o, g, last)
    PROVE  /\ C \in Seq(AllCommands)
           /\ \A k \in 1 .. Len(o) : C[k] = o[k]
           /\ w \in g => Len(C) = Len(o)
           /\ w \notin g => Len(C) = Len(o) + 1 /\ C[Len(o) + 1] = NextRow(w, last)
<1>1. NextRow(w, last) \in AllCommands
  <2>1. last + 1 \in Nat /\ 0 \in Nat /\ 1 \in {1, 2}
    OBVIOUS
  <2> QED
    BY <2>1 DEF NextRow, AllCommands, None
<1>2. CASE w \in g
  BY <1>2 DEF Following
<1>3. CASE w \notin g
  <2> DEFINE b == NextRow(w, last)
  <2>1. C = o \o <<b>>
    BY <1>3 DEF Following
  <2> HIDE DEF b
  <2>2. <<b>> \in Seq(AllCommands)
    BY <1>1 DEF b
  <2>3. /\ o \o <<b>> \in Seq(AllCommands) /\ Len(o \o <<b>>) = Len(o) + 1
        /\ \A k \in 1 .. Len(o) : (o \o <<b>>)[k] = o[k]
        /\ (o \o <<b>>)[Len(o) + 1] = b
    BY <2>2
  <2> QED
    BY <1>3, <2>1, <2>3 DEF b
<1>4. QED
  BY <1>2, <1>3

(* The row a writer will send next. *)
LEMMA NextRowIs ==
    ASSUME NEW w, NEW last \in Nat, NEW b, b = NextRow(w, last)
    PROVE  b.type = "RDATA" /\ b.row[3] = 1 /\ b.row[2] = last + 1
<1>1. b.type = "RDATA" /\ b.row = <<w, last + 1, 1>>
  BY DEF NextRow
<1>2. QED
  BY <1>1

(* The writer sends a run from where it stands. *)
LEMMA ComingSent ==
    ASSUME NEW w \in Writers, NEW ts, NEW p \in Nat, NEW o \in Seq(AllCommands),
           NEW g, NEW last \in Nat, NEW x \in Nat, NEW sent, NEW y \in Nat,
           Run(w, ts, x, sent, y), w \notin g => x = last,
           w \in g => sent[1].type = "POSITION",
           NEW C, C = Following(w, o, g, last),
           NEW g2, w \notin g2,
           NEW C2, C2 = Following(w, o \o sent, g2, y),
           LinkedSeq(ts, p, C)
    PROVE  /\ LinkedSeq(ts, p, C2)
           /\ C2 # <<>> => \/ C2[1].type = "POSITION"
                           \/ C # <<>> /\ (C2[1] = C[1] \/ Instead(ts, C[1], C2[1]))
<1> DEFINE n == Len(o)
           m == Len(sent)
           r == o \o sent
<1>1. sent \in Seq(AllCommands) /\ n \in Nat /\ m \in Nat /\ m > 0
      /\ \A k \in 1 .. m : sent[k] \in AllCommands
  BY DEF Run
<1>2. /\ r \in Seq(AllCommands) /\ Len(r) = n + m
      /\ \A k \in 1 .. n : r[k] = o[k]
      /\ \A k \in 1 .. m : r[n + k] = sent[k]
  BY <1>1
<1>3. /\ C \in Seq(AllCommands)
      /\ \A k \in 1 .. n : C[k] = o[k]
      /\ w \in g => Len(C) = n
      /\ w \notin g => Len(C) = n + 1 /\ C[n + 1] = NextRow(w, last)
  BY FollowingIs
<1> HIDE DEF r, n, m
<1>4. /\ C2 \in Seq(AllCommands) /\ Len(C2) = (n + m) + 1
      /\ \A k \in 1 .. (n + m) : C2[k] = r[k]
      /\ C2[(n + m) + 1] = NextRow(w, y)
  <2>1. C2 = Following(w, r, g2, y)
    BY DEF r
  <2>2. /\ C2 \in Seq(AllCommands) /\ Len(C2) = Len(r) + 1
        /\ \A k \in 1 .. Len(r) : C2[k] = r[k]
        /\ C2[Len(r) + 1] = NextRow(w, y)
    BY <1>2, <2>1, FollowingIs
  <2> QED
    BY <1>2, <2>2
<1>5. /\ \A k \in 1 .. n : C2[k] = o[k] /\ C2[k] = C[k]
      /\ \A k \in 1 .. m : C2[n + k] = sent[k]
  <2>1. n \in Nat /\ m \in Nat
    BY <1>1
  <2>2. /\ \A k \in 1 .. n : k \in 1 .. (n + m)
        /\ \A k \in 1 .. m : n + k \in 1 .. (n + m)
    BY <2>1
  <2> QED
    BY <1>2, <1>3, <1>4, <2>2
<1>6. sent[1].type = "RDATA" /\ w \notin g => Instead(ts, NextRow(w, last), sent[1])
  <2> SUFFICES ASSUME sent[1].type = "RDATA", w \notin g
               PROVE  Instead(ts, NextRow(w, last), sent[1])
    OBVIOUS
  <2>1. sent[1].row[3] = 1 /\ NoneBetween(ts, last, sent[1].row[2])
    BY DEF Run
  <2> QED
    BY <2>1, NextRowIs DEF Instead
<1>7. 1 \in 1 .. m /\ sent[1].type \in {"POSITION", "RDATA"}
  BY <1>1, CommandFields
<1>8. ASSUME n # 0 PROVE Chained(ts, p, o[n], sent[1])
  <2>1. CASE sent[1].type = "POSITION"
    BY <2>1 DEF Chained
  <2>2. CASE sent[1].type = "RDATA" /\ w \notin g
    <3>1. n \in 1 .. (Len(C) - 1) /\ n \in 1 .. n
      BY <1>1, <1>3, <1>8, <2>2
    <3>2. Chained(ts, p, C[n], C[n + 1])
      BY <3>1 DEF LinkedSeq
    <3>3. C[n] = o[n] /\ C[n + 1] = NextRow(w, last) /\ C[n] \in AllCommands
          /\ NextRow(w, last) \in AllCommands
      <4>1. n \in 1 .. Len(C) /\ n + 1 \in 1 .. Len(C)
        BY <1>1, <1>3, <2>2, <3>1
      <4> QED
        BY <1>3, <2>2, <3>1, <4>1
    <3> QED
      BY <1>1, <1>6, <1>7, <2>2, <3>2, <3>3, InsteadIs
  <2> QED
    BY <1>7, <2>1, <2>2
<1>9. Chained(ts, p, sent[m], NextRow(w, y))
  <2>1. IsFinal(sent[m]) /\ NoneBetween(ts, TokenOf(sent[m]), y + 1)
    BY DEF Run, m
  <2> QED
    BY <2>1, NextRowIs DEF Chained
<1>10. ASSUME NEW k \in 1 .. (m - 1) PROVE Chained(ts, p, sent[k], sent[k + 1])
  <2>1. k \in 1 .. m /\ k + 1 \in 1 .. m
    BY <1>1
  <2>2. Chained(ts, 0, sent[k], sent[k + 1])
    BY DEF Run, LinkedSeq, m
  <2>3. sent[k] \in AllCommands /\ sent[k + 1] \in AllCommands
    BY <1>1, <2>1
  <2> QED
    BY <2>2, <2>3, ChainedFurther
<1>11. LinkedSeq(ts, p, C2)
  <2> SUFFICES ASSUME NEW k \in 1 .. (n + m) PROVE Chained(ts, p, C2[k], C2[k + 1])
    <3>1. n + m \in Nat
      BY <1>1
    <3>2. Len(C2) = (n + m) + 1
      BY <1>4
    <3>3. Len(C2) - 1 = n + m
      BY <3>1, <3>2
    <3> QED
      BY <3>3 DEF LinkedSeq
  <2>1. CASE k \in 1 .. (n - 1)
    <3>1. k \in 1 .. n /\ k + 1 \in 1 .. n /\ k \in 1 .. (Len(C) - 1)
      BY <1>1, <1>3, <2>1
    <3>2. C2[k] = C[k] /\ C2[k + 1] = C[k + 1]
      BY <1>5, <3>1
    <3> QED
      BY <3>1, <3>2 DEF LinkedSeq
  <2>2. CASE k = n
    <3>1. n # 0 /\ n \in 1 .. n
      BY <1>1, <2>2
    <3>2. C2[k] = o[n] /\ C2[k + 1] = sent[1]
      BY <1>5, <1>7, <2>2, <3>1
    <3> QED
      BY <1>8, <3>1, <3>2
  <2>3. CASE k \in (n + 1) .. (n + m - 1)
    <3>1. k - n \in 1 .. (m - 1) /\ k - n \in 1 .. m /\ (k - n) + 1 \in 1 .. m
          /\ n + (k - n) = k /\ n + ((k - n) + 1) = k + 1
      BY <1>1, <2>3
    <3>2. C2[k] = sent[k - n] /\ C2[k + 1] = sent[(k - n) + 1]
      BY <1>5, <3>1
    <3> QED
      BY <1>10, <3>1, <3>2
  <2>4. CASE k = n + m
    <3>1. m \in 1 .. m
      BY <1>1
    <3>2. C2[k] = sent[m] /\ C2[k + 1] = NextRow(w, y)
      BY <1>4, <1>5, <2>4, <3>1
    <3> QED
      BY <1>9, <3>2
  <2>5. n \in Nat /\ m \in Nat
    BY <1>1
  <2>6. \/ k \in 1 .. (n - 1) \/ k = n \/ k \in (n + 1) .. (n + m - 1)
        \/ k = n + m
    BY <2>5
  <2> QED
    BY <2>1, <2>2, <2>3, <2>4, <2>6
<1>12. CASE n # 0
  <2>1. 1 \in 1 .. n /\ Len(C) # 0
    BY <1>1, <1>3, <1>12
  <2>2. C2[1] = C[1] /\ C # <<>>
    BY <1>5, <2>1
  <2> QED
    BY <1>11, <2>2
<1>13. CASE n = 0
  <2>0. n + 1 = 1
    BY <1>13
  <2>1. C2[1] = sent[1]
    BY <1>5, <1>7, <2>0
  <2>2. w \notin g => C # <<>> /\ C[1] = NextRow(w, last)
    <3> SUFFICES ASSUME w \notin g PROVE C # <<>> /\ C[1] = NextRow(w, last)
      OBVIOUS
    <3>1. Len(C) = n + 1 /\ C[n + 1] = NextRow(w, last) /\ C \in Seq(AllCommands)
      BY <1>3
    <3>2. Len(C) = 1 /\ C[1] = NextRow(w, last)
      BY <2>0, <3>1, Zenon
    <3>3. Len(<<>>) = 0 /\ 1 # 0
      OBVIOUS
    <3> QED
      BY <3>2, <3>3, Zenon
  <2> QED
    BY <1>6, <1>7, <1>11, <2>1, <2>2
<1>14. QED
  BY <1>12, <1>13

(* What is coming ends earlier. *)
LEMMA ComingCut ==
    ASSUME NEW ts, NEW p, NEW C \in Seq(AllCommands), NEW C2 \in Seq(AllCommands),
           Len(C2) <= Len(C), \A k \in 1 .. Len(C2) : C2[k] = C[k], LinkedSeq(ts, p, C)
    PROVE  /\ LinkedSeq(ts, p, C2)
           /\ C2 # <<>> => C # <<>> /\ C2[1] = C[1]
<1>1. Len(C) \in Nat /\ Len(C2) \in Nat
  OBVIOUS
<1>2. ASSUME NEW k \in 1 .. (Len(C2) - 1) PROVE Chained(ts, p, C2[k], C2[k + 1])
  <2>1. k \in 1 .. (Len(C) - 1) /\ k \in 1 .. Len(C2) /\ k + 1 \in 1 .. Len(C2)
    BY <1>1
  <2>2. C2[k] = C[k] /\ C2[k + 1] = C[k + 1]
    BY <2>1
  <2> QED
    BY <2>1, <2>2 DEF LinkedSeq
<1>3. C2 # <<>> => 1 \in 1 .. Len(C2) /\ C # <<>>
  BY <1>1
<1>4. QED
  BY <1>2, <1>3 DEF LinkedSeq

(* A sequence without its first element. *)
LEMMA TailIs ==
    ASSUME NEW S, NEW s \in Seq(S), s # <<>>, NEW t, t = Tail(s)
    PROVE  /\ t \in Seq(S) /\ Len(t) = Len(s) - 1 /\ Len(s) \in Nat /\ Len(s) > 0
           /\ s[1] \in S
           /\ \A k \in 1 .. Len(t) : k + 1 \in 1 .. Len(s) /\ t[k] = s[k + 1]
  OBVIOUS

(* A sequence with one more element. *)
LEMMA AppendIs ==
    ASSUME NEW S, NEW s \in Seq(S), NEW e \in S, NEW t, t = Append(s, e)
    PROVE  /\ t \in Seq(S) /\ Len(t) = Len(s) + 1 /\ Len(s) \in Nat
           /\ \A k \in 1 .. Len(s) : t[k] = s[k]
           /\ t[Len(s) + 1] = e
  OBVIOUS

(* What is coming without its first command. *)
LEMMA LinkedTail ==
    ASSUME NEW ts, NEW p, NEW C \in Seq(AllCommands), C # <<>>, LinkedSeq(ts, p, C),
           NEW C2, C2 = Tail(C)
    PROVE  LinkedSeq(ts, p, C2) /\ (C2 # <<>> => Chained(ts, p, C[1], C2[1]))
<1>1. /\ C2 \in Seq(AllCommands) /\ Len(C2) = Len(C) - 1 /\ Len(C) \in Nat /\ Len(C) > 0
      /\ \A k \in 1 .. Len(C2) : k + 1 \in 1 .. Len(C) /\ C2[k] = C[k + 1]
  BY TailIs
<1>2. ASSUME NEW k \in 1 .. (Len(C2) - 1) PROVE Chained(ts, p, C2[k], C2[k + 1])
  <2>1. k \in 1 .. Len(C2) /\ k + 1 \in 1 .. Len(C2) /\ k + 1 \in 1 .. (Len(C) - 1)
    BY <1>1
  <2>2. C2[k] = C[k + 1] /\ C2[k + 1] = C[(k + 1) + 1]
    BY <1>1, <2>1
  <2> QED
    BY <2>1, <2>2 DEF LinkedSeq
<1>3. ASSUME C2 # <<>> PROVE Chained(ts, p, C[1], C2[1])
  <2>1. Len(C2) # 0
    BY <1>1, <1>3
  <2>2. 1 \in 1 .. Len(C2) /\ 1 \in 1 .. (Len(C) - 1)
    BY <1>1, <2>1
  <2>3. C2[1] = C[1 + 1]
    BY <1>1, <2>2
  <2> QED
    BY <2>2, <2>3 DEF LinkedSeq
<1>4. QED
  BY <1>2, <1>3 DEF LinkedSeq

Entries == [cmd : AllCommands, conn : Nat]

Queued(q, e) == Append(q, e)

(* A command of another writer is queued. *)
LEMMA ContigArrivesOther ==
    ASSUME NEW q \in Queues(AllCommands), NEW e \in Entries,
           NEW q2, q2 = Queued(q, e), NEW C \in Seq(AllCommands), NEW w, NEW c,
           NEW ts, NEW p, NEW X, NEW K, NEW Y, NEW on \in BOOLEAN, e.cmd.writer # w,
           Contig(w, ts, p, X, K, q, Y, c, on, C)
    PROVE  Contig(w, ts, p, X, K, q2, Y, c, on, C)
<1> DEFINE n == Len(q)
<1>1. q \in Seq([cmd : AllCommands, conn : Nat])
  BY DEF Queues
<1>0. e \in [cmd : AllCommands, conn : Nat] /\ q2 = Append(q, e)
  BY DEF Entries, Queued
<1>2. /\ n \in Nat /\ DOMAIN q = 1 .. n /\ DOMAIN q2 = 1 .. (n + 1) /\ Len(q2) = n + 1
      /\ \A k \in 1 .. n : q2[k] = q[k]
      /\ q2[n + 1] = e
  BY <1>0, <1>1, AppendIs
<1> HIDE DEF n
<1>3. \A k \in 1 .. (n + 1) : k \in 1 .. n \/ k = n + 1
  BY <1>2
<1>4. \A k \in 1 .. n : k \in 1 .. (n + 1)
  BY <1>2
<1>5. \A k \in 1 .. (n + 1) : q2[k].cmd.writer = w => k \in 1 .. n /\ q2[k] = q[k]
  BY <1>2, <1>3
<1>6. LinkedQueue(w, ts, p, q2)
  <2> SUFFICES ASSUME NEW j \in 1 .. (n + 1), NEW k \in 1 .. (n + 1), j < k,
                      q2[j].cmd.writer = w, Own(q2[k], w, q2[j].conn),
                      \A i \in (j + 1) .. (k - 1) : ~Own(q2[i], w, q2[j].conn)
               PROVE  Chained(ts, p, q2[j].cmd, q2[k].cmd)
    BY <1>2 DEF LinkedQueue
  <2>1. j \in 1 .. n /\ k \in 1 .. n /\ q2[j] = q[j] /\ q2[k] = q[k]
    BY <1>5 DEF Own
  <2>2. \A i \in (j + 1) .. (k - 1) : i \in 1 .. n
    BY <1>2, <2>1
  <2>3. \A i \in (j + 1) .. (k - 1) : ~Own(q[i], w, q[j].conn)
    BY <1>2, <2>1, <2>2
  <2> QED
    BY <1>2, <2>1, <2>3 DEF Contig, LinkedQueue
<1>7. LinkedAcross(w, ts, p, q, c, C) => LinkedAcross(w, ts, p, q2, c, C)
  <2> SUFFICES ASSUME LinkedAcross(w, ts, p, q, c, C), C # <<>>, NEW j \in 1 .. (n + 1),
                      Own(q2[j], w, c), \A i \in (j + 1) .. (n + 1) : ~Own(q2[i], w, c)
               PROVE  Chained(ts, p, q2[j].cmd, C[1])
    BY <1>2 DEF LinkedAcross
  <2>1. j \in 1 .. n /\ q2[j] = q[j]
    BY <1>5 DEF Own
  <2>2. \A i \in (j + 1) .. n : i \in 1 .. n /\ i \in (j + 1) .. (n + 1)
    BY <1>2, <2>1
  <2>3. \A i \in (j + 1) .. n : ~Own(q[i], w, c)
    BY <1>2, <2>2
  <2> QED
    BY <1>2, <2>1, <2>3 DEF LinkedAcross, n
<1>8. ReadyQueue(w, ts, X, K, q2, Y)
  <2> SUFFICES ASSUME NEW k \in 1 .. (n + 1), q2[k].cmd.writer = w, q2[k].conn \in Y,
                      \A i \in 1 .. (k - 1) : ~Own(q2[i], w, q2[k].conn)
               PROVE  Ready(w, ts, X, K, q2[k].cmd)
    BY <1>2 DEF ReadyQueue
  <2>1. k \in 1 .. n /\ q2[k] = q[k]
    BY <1>5
  <2>2. \A i \in 1 .. (k - 1) : i \in 1 .. n
    BY <1>2, <2>1
  <2>3. \A i \in 1 .. (k - 1) : ~Own(q[i], w, q[k].conn)
    BY <1>2, <2>1, <2>2
  <2> QED
    BY <1>2, <2>1, <2>3 DEF Contig, ReadyQueue
<1>9. ReadyOut(w, ts, X, K, q, c, C) => ReadyOut(w, ts, X, K, q2, c, C)
  <2>1. (\A i \in 1 .. (n + 1) : ~Own(q2[i], w, c)) => \A i \in 1 .. n : ~Own(q[i], w, c)
    BY <1>2, <1>4
  <2> QED
    BY <1>2, <2>1 DEF ReadyOut
<1>10. QED
  BY <1>6, <1>7, <1>8, <1>9 DEF Contig

(* The next command of the writer is queued. *)
LEMMA ContigArrives ==
    ASSUME NEW q \in Queues(AllCommands), NEW e \in [cmd : AllCommands, conn : Nat],
           NEW q2, q2 = Append(q, e), NEW C \in Seq(AllCommands), C # <<>>,
           NEW C2, C2 = Tail(C), NEW w, NEW c,
           NEW ts, NEW p, NEW X, NEW K, NEW Y, NEW on \in BOOLEAN, on,
           e.cmd = C[1], e.conn = c, C[1].writer = w,
           Contig(w, ts, p, X, K, q, Y, c, on, C)
    PROVE  Contig(w, ts, p, X, K, q2, Y, c, on, C2)
<1> DEFINE n == Len(q)
<1>1. q \in Seq([cmd : AllCommands, conn : Nat])
  BY DEF Queues
<1>2. /\ n \in Nat /\ DOMAIN q = 1 .. n /\ DOMAIN q2 = 1 .. (n + 1) /\ Len(q2) = n + 1
      /\ \A k \in 1 .. n : q2[k] = q[k]
      /\ q2[n + 1] = e
  BY <1>1, AppendIs
<1> HIDE DEF n
<1>3. \A k \in 1 .. (n + 1) : k \in 1 .. n \/ k = n + 1
  BY <1>2
<1>4. Own(e, w, c) /\ n + 1 \in 1 .. (n + 1)
  BY <1>2 DEF Own
<1>5. LinkedSeq(ts, p, C2) /\ (C2 # <<>> => Chained(ts, p, C[1], C2[1]))
  BY LinkedTail DEF Contig
<1>6. LinkedQueue(w, ts, p, q2)
  <2> SUFFICES ASSUME NEW j \in 1 .. (n + 1), NEW k \in 1 .. (n + 1), j < k,
                      q2[j].cmd.writer = w, Own(q2[k], w, q2[j].conn),
                      \A i \in (j + 1) .. (k - 1) : ~Own(q2[i], w, q2[j].conn)
               PROVE  Chained(ts, p, q2[j].cmd, q2[k].cmd)
    BY <1>2 DEF LinkedQueue
  <2>1. j \in 1 .. n /\ q2[j] = q[j]
    BY <1>2
  <2>2. \A i \in (j + 1) .. (k - 1) : i \in 1 .. n
    BY <1>2, <2>1
  <2>3. \A i \in (j + 1) .. (k - 1) : ~Own(q[i], w, q[j].conn)
    BY <1>2, <2>1, <2>2
  <2>4. CASE k \in 1 .. n
    BY <1>2, <2>1, <2>3, <2>4 DEF Contig, LinkedQueue
  <2>5. CASE k = n + 1
    <3>1. q2[k] = e /\ q[j].conn = c
      BY <1>2, <2>1, <2>5 DEF Own
    <3>2. k - 1 = n
      BY <1>2, <2>5
    <3>3. Own(q[j], w, c) /\ \A i \in (j + 1) .. n : ~Own(q[i], w, c)
      BY <2>1, <2>3, <3>1, <3>2 DEF Own
    <3> QED
      BY <1>2, <2>1, <3>1, <3>3 DEF Contig, LinkedAcross, n
  <2> QED
    BY <1>3, <2>4, <2>5
<1>7. LinkedAcross(w, ts, p, q2, c, C2)
  <2> SUFFICES ASSUME C2 # <<>>, NEW j \in 1 .. (n + 1),
                      Own(q2[j], w, c), \A i \in (j + 1) .. (n + 1) : ~Own(q2[i], w, c)
               PROVE  Chained(ts, p, q2[j].cmd, C2[1])
    BY <1>2 DEF LinkedAcross
  <2>1. j \in 1 .. n => n + 1 \in (j + 1) .. (n + 1)
    BY <1>2
  <2>2. j = n + 1
    BY <1>2, <1>3, <1>4, <2>1
  <2> QED
    BY <1>2, <1>5, <2>2
<1>8. ReadyQueue(w, ts, X, K, q2, Y)
  <2> SUFFICES ASSUME NEW k \in 1 .. (n + 1), q2[k].cmd.writer = w, q2[k].conn \in Y,
                      \A i \in 1 .. (k - 1) : ~Own(q2[i], w, q2[k].conn)
               PROVE  Ready(w, ts, X, K, q2[k].cmd)
    BY <1>2 DEF ReadyQueue
  <2>1. \A i \in 1 .. (k - 1) : i \in 1 .. n
    BY <1>2
  <2>2. \A i \in 1 .. (k - 1) : ~Own(q[i], w, q2[k].conn)
    BY <1>2, <2>1
  <2>3. CASE k \in 1 .. n
    BY <1>2, <2>2, <2>3 DEF Contig, ReadyQueue
  <2>4. CASE k = n + 1
    <3>1. q2[k] = e /\ k - 1 = n /\ c \in Y
      BY <1>2, <2>4
    <3>2. \A i \in 1 .. n : ~Own(q[i], w, c)
      BY <2>2, <3>1
    <3> QED
      BY <1>2, <3>1, <3>2 DEF Contig, ReadyOut
  <2> QED
    BY <1>3, <2>3, <2>4
<1>9. ReadyOut(w, ts, X, K, q2, c, C2)
  BY <1>2, <1>4 DEF ReadyOut
<1>10. QED
  BY <1>5, <1>6, <1>7, <1>8, <1>9 DEF Contig

(* The reader is past everything b may leave out. *)
Settled(ts, p, b) ==
    b.type = "RDATA" =>
        NoneBetween(ts, p, b.row[2]) /\ (b.row[3] = 2 => b.row[2] <= p)

(* A command whose past is settled can be processed. *)
LEMMA SettledReady ==
    ASSUME NEW w, NEW ts, NEW p, NEW X, p \in X, NEW K, NEW b, Settled(ts, p, b),
           \A r \in K : r[1] = w => r[2] <= p
    PROVE  Ready(w, ts, X, K, b)
  BY DEF Settled, Ready

(* A command at or below the reader's position has its past settled. *)
LEMMA PassedSettled ==
    ASSUME NEW ts, NEW p \in Nat, NEW b \in AllCommands, TokenOf(b) <= p
    PROVE  Settled(ts, p, b)
<1> SUFFICES ASSUME b.type = "RDATA" PROVE Settled(ts, p, b)
  BY DEF Settled
<1>1. b.row[2] \in Nat /\ b.row[2] <= p
  BY CommandFields
<1>2. NoneBetween(ts, p, b.row[2])
  BY <1>1, NoneBetweenNear
<1>3. QED
  BY <1>1, <1>2 DEF Settled

(* What may follow a command that the reader is past, and has no use for. *)
LEMMA ChainedSettled ==
    ASSUME NEW ts, NEW p \in Nat, NEW a \in AllCommands, TokenOf(a) <= p,
           NEW b \in AllCommands, Chained(ts, p, a, b)
    PROVE  Settled(ts, p, b)
<1> SUFFICES ASSUME b.type = "RDATA" PROVE Settled(ts, p, b)
  BY DEF Settled
<1>1. b.row[2] \in Nat /\ b.row[3] \in {1, 2} /\ TokenOf(a) \in Nat
      /\ (a.type = "RDATA" => TokenOf(a) = a.row[2]) /\ TokenOf(b) = b.row[2]
  BY CommandFields
<1>2. CASE b.row[3] = 1
  <2>1. NoneBetween(ts, TokenOf(a), b.row[2]) \/ NoneBetween(ts, p, b.row[2])
    BY <1>2 DEF Chained
  <2>2. NoneBetween(ts, p, b.row[2])
    BY <1>1, <2>1, NoneBetweenFrom
  <2> QED
    BY <1>2, <2>2 DEF Settled
<1>3. CASE b.row[3] = 2
  <2>1. a.type = "RDATA" /\ a.row[2] = b.row[2]
    BY <1>3 DEF Chained
  <2> QED
    BY <1>1, <2>1, PassedSettled
<1>4. QED
  BY <1>1, <1>2, <1>3

(* Over a command that the reader is past, one may follow the one before. *)
LEMMA ChainedOver ==
    ASSUME NEW ts, NEW p \in Nat, NEW a \in AllCommands, TokenOf(a) <= p,
           NEW b \in AllCommands, b.type = "POSITION", TokenOf(b) <= p,
           NEW d \in AllCommands, Chained(ts, p, b, d)
    PROVE  Chained(ts, p, a, d)
<1> SUFFICES ASSUME d.type = "RDATA" PROVE Chained(ts, p, a, d)
  BY DEF Chained
<1>1. d.row[3] = 1
  BY DEF Chained
<1>2. NoneBetween(ts, p, d.row[2])
  BY ChainedSettled DEF Settled
<1>3. QED
  BY <1>1, <1>2 DEF Chained

(* The next command of the writer is a POSITION that tells nothing new. *)
LEMMA ContigDropped ==
    ASSUME NEW q \in Queues(AllCommands), NEW C \in Seq(AllCommands), C # <<>>,
           NEW C2, C2 = Tail(C), NEW w, NEW c,
           NEW ts, NEW p \in Nat, NEW X, p \in X, NEW K, NEW Y, NEW Y2, Y2 \subseteq Y \cup {c},
           NEW on \in BOOLEAN, on,
           C[1].type = "POSITION", C[1].new <= p, Behind(w, q, K, C[1].new),
           \A r \in K : r[2] \in Nat,
           Contig(w, ts, p, X, K, q, Y, c, on, C)
    PROVE  Contig(w, ts, p, X, K, q, Y2, c, on, C2)
<1>1. /\ C2 \in Seq(AllCommands) /\ C[1] \in AllCommands
      /\ C2 # <<>> => C2[1] \in AllCommands
  BY TailIs
<1>2. LinkedSeq(ts, p, C2) /\ (C2 # <<>> => Chained(ts, p, C[1], C2[1]))
  BY LinkedTail DEF Contig
<1>3. TokenOf(C[1]) = C[1].new /\ C[1].new \in Nat
  BY <1>1, CommandFields
<1>4. \A k \in DOMAIN q : q[k].cmd \in AllCommands /\ TokenOf(q[k].cmd) \in Nat
  BY QueueFields, CommandFields
<1>5. /\ \A k \in DOMAIN q : q[k].cmd.writer = w => TokenOf(q[k].cmd) <= p
      /\ \A r \in K : r[1] = w => r[2] <= p
  <2>1. /\ \A k \in DOMAIN q : q[k].cmd.writer = w => TokenOf(q[k].cmd) <= C[1].new
        /\ \A r \in K : r[1] = w => r[2] <= C[1].new
    BY DEF Behind
  <2>2. \A x \in Nat : x <= C[1].new => x <= p
    BY <1>3
  <2> QED
    BY <1>4, <2>1, <2>2
<1>6. LinkedAcross(w, ts, p, q, c, C2)
  <2>1. ASSUME C2 # <<>>, NEW j \in DOMAIN q, q[j].cmd.writer = w
        PROVE  Chained(ts, p, q[j].cmd, C2[1])
    BY <1>1, <1>2, <1>3, <1>4, <1>5, <2>1, ChainedOver
  <2> QED
    BY <2>1 DEF LinkedAcross, Own
<1>7. ReadyQueue(w, ts, X, K, q, Y2)
  <2>1. \A k \in DOMAIN q : q[k].cmd.writer = w => Settled(ts, p, q[k].cmd)
    BY <1>4, <1>5, PassedSettled
  <2>2. \A k \in DOMAIN q : q[k].cmd.writer = w => Ready(w, ts, X, K, q[k].cmd)
    BY <1>5, <2>1, SettledReady
  <2> QED
    BY <2>2 DEF ReadyQueue
<1>8. ReadyOut(w, ts, X, K, q, c, C2)
  <2>1. C2 # <<>> => Settled(ts, p, C2[1])
    BY <1>1, <1>2, <1>3, ChainedSettled
  <2>2. C2 # <<>> => Ready(w, ts, X, K, C2[1])
    BY <1>5, <2>1, SettledReady
  <2> QED
    BY <2>2 DEF ReadyOut
<1>9. QED
  BY <1>2, <1>6, <1>7, <1>8 DEF Contig

(* The next command of the writer is lost: nobody listens. *)
LEMMA ContigLost ==
    ASSUME NEW q, NEW C \in Seq(AllCommands), C # <<>>, NEW C2, C2 = Tail(C), NEW w, NEW c,
           NEW ts, NEW p, NEW X, NEW K, NEW Y, NEW on \in BOOLEAN, ~on,
           Contig(w, ts, p, X, K, q, Y, c, on, C)
    PROVE  Contig(w, ts, p, X, K, q, Y, c, on, C2)
  BY LinkedTail DEF Contig

(* The reader listens on a new connection. *)
LEMMA ContigConnects ==
    ASSUME NEW q, NEW C, NEW w, NEW c, NEW c2, NEW ts, NEW p, NEW X, NEW K, NEW Y,
           NEW on \in BOOLEAN, NEW on2 \in BOOLEAN, c2 \notin Y,
           \A k \in DOMAIN q : q[k].conn # c2,
           Contig(w, ts, p, X, K, q, Y, c, on, C)
    PROVE  Contig(w, ts, p, X, K, q, Y, c2, on2, C)
  BY DEF Contig, LinkedAcross, Own

(* The queue without its head. *)
LEMMA LinkedNext ==
    ASSUME NEW q \in Queues(AllCommands), q # <<>>, NEW q2, q2 = Tail(q), NEW w, NEW ts, NEW p
    PROVE  /\ LinkedQueue(w, ts, p, q) => LinkedQueue(w, ts, p, q2)
           /\ \A c, C : LinkedAcross(w, ts, p, q, c, C) => LinkedAcross(w, ts, p, q2, c, C)
<1> DEFINE n == Len(q2)
<1>1. q \in Seq([cmd : AllCommands, conn : Nat])
  BY DEF Queues
<1>2. /\ n \in Nat /\ DOMAIN q = 1 .. (n + 1) /\ Len(q) = n + 1 /\ DOMAIN q2 = 1 .. n
      /\ \A k \in 1 .. n : k + 1 \in 1 .. (n + 1) /\ q2[k] = q[k + 1]
  <2>1. /\ q2 \in Seq([cmd : AllCommands, conn : Nat])
        /\ n = Len(q) - 1 /\ Len(q) \in Nat /\ Len(q) > 0
        /\ \A k \in 1 .. n : k + 1 \in 1 .. Len(q) /\ q2[k] = q[k + 1]
    BY <1>1, TailIs
  <2>2. DOMAIN q = 1 .. Len(q) /\ DOMAIN q2 = 1 .. n
    BY <1>1, <2>1
  <2>3. Len(q) = n + 1 /\ n \in Nat
    BY <2>1
  <2> QED
    BY <2>1, <2>2, <2>3
<1> HIDE DEF n
<1>3. ASSUME LinkedQueue(w, ts, p, q) PROVE LinkedQueue(w, ts, p, q2)
  <2> SUFFICES ASSUME NEW j \in 1 .. n, NEW k \in 1 .. n, j < k,
                      q2[j].cmd.writer = w, Own(q2[k], w, q2[j].conn),
                      \A i \in (j + 1) .. (k - 1) : ~Own(q2[i], w, q2[j].conn)
               PROVE  Chained(ts, p, q2[j].cmd, q2[k].cmd)
    BY <1>2 DEF LinkedQueue
  <2>1. q2[j] = q[j + 1] /\ q2[k] = q[k + 1] /\ j + 1 \in DOMAIN q /\ k + 1 \in DOMAIN q
    BY <1>2
  <2>2. j + 1 < k + 1
    BY <1>2
  <2>3. ASSUME NEW i \in ((j + 1) + 1) .. ((k + 1) - 1) PROVE ~Own(q[i], w, q[j + 1].conn)
    <3>1. i - 1 \in (j + 1) .. (k - 1) /\ i - 1 \in 1 .. n /\ (i - 1) + 1 = i
      BY <1>2
    <3>2. q2[i - 1] = q[i]
      BY <1>2, <3>1
    <3> QED
      BY <2>1, <3>1, <3>2
  <2> QED
    BY <1>3, <2>1, <2>2, <2>3 DEF LinkedQueue
<1>4. ASSUME NEW c, NEW C, LinkedAcross(w, ts, p, q, c, C)
      PROVE  LinkedAcross(w, ts, p, q2, c, C)
  <2> SUFFICES ASSUME C # <<>>, NEW j \in 1 .. n,
                      Own(q2[j], w, c), \A i \in (j + 1) .. n : ~Own(q2[i], w, c)
               PROVE  Chained(ts, p, q2[j].cmd, C[1])
    BY <1>2 DEF LinkedAcross, n
  <2>1. q2[j] = q[j + 1] /\ j + 1 \in DOMAIN q
    BY <1>2
  <2>2. ASSUME NEW i \in ((j + 1) + 1) .. (n + 1) PROVE ~Own(q[i], w, c)
    <3>1. i - 1 \in (j + 1) .. n /\ i - 1 \in 1 .. n /\ (i - 1) + 1 = i
      BY <1>2
    <3>2. q2[i - 1] = q[i]
      BY <1>2, <3>1
    <3> QED
      BY <3>1, <3>2
  <2> QED
    BY <1>2, <1>4, <2>1, <2>2 DEF LinkedAcross
<1>5. QED
  BY <1>3, <1>4

(* The queue q2 is q without its head. *)
IsTail(q, q2) == q # <<>> /\ q2 = Tail(q)

(* The head of the queue is another writer's. *)
LEMMA ContigNextOther ==
    ASSUME NEW q \in Queues(AllCommands), NEW q2, IsTail(q, q2), NEW w,
           q[1].cmd.writer # w, NEW C, NEW c, NEW ts, NEW p, NEW X, NEW K, NEW Y,
           NEW on \in BOOLEAN,
           Contig(w, ts, p, X, K, q, Y, c, on, C)
    PROVE  Contig(w, ts, p, X, K, q2, Y, c, on, C)
<1> q # <<>> /\ q2 = Tail(q)
  BY DEF IsTail
<1> DEFINE n == Len(q2)
<1>1. q \in Seq([cmd : AllCommands, conn : Nat])
  BY DEF Queues
<1>2. /\ n \in Nat /\ DOMAIN q = 1 .. (n + 1) /\ DOMAIN q2 = 1 .. n
      /\ \A k \in 1 .. n : k + 1 \in 1 .. (n + 1) /\ q2[k] = q[k + 1]
  <2>1. /\ q2 \in Seq([cmd : AllCommands, conn : Nat])
        /\ n = Len(q) - 1 /\ Len(q) \in Nat /\ Len(q) > 0
        /\ \A k \in 1 .. n : k + 1 \in 1 .. Len(q) /\ q2[k] = q[k + 1]
    BY <1>1, TailIs
  <2>2. DOMAIN q = 1 .. Len(q) /\ DOMAIN q2 = 1 .. n
    BY <1>1, <2>1
  <2>3. Len(q) = n + 1 /\ n \in Nat
    BY <2>1
  <2> QED
    BY <2>1, <2>2, <2>3
<1> HIDE DEF n
<1>3. ReadyQueue(w, ts, X, K, q2, Y)
  <2> SUFFICES ASSUME NEW k \in 1 .. n, q2[k].cmd.writer = w, q2[k].conn \in Y,
                      \A i \in 1 .. (k - 1) : ~Own(q2[i], w, q2[k].conn)
               PROVE  Ready(w, ts, X, K, q2[k].cmd)
    BY <1>2 DEF ReadyQueue
  <2>1. q2[k] = q[k + 1] /\ k + 1 \in DOMAIN q
    BY <1>2
  <2>2. ASSUME NEW i \in 1 .. ((k + 1) - 1) PROVE ~Own(q[i], w, q[k + 1].conn)
    <3>1. CASE i = 1
      BY <3>1 DEF Own
    <3>2. CASE i # 1
      <4>1. i - 1 \in 1 .. (k - 1) /\ i - 1 \in 1 .. n /\ (i - 1) + 1 = i
        BY <1>2, <3>2
      <4>2. q2[i - 1] = q[i]
        BY <1>2, <4>1
      <4> QED
        BY <2>1, <4>1, <4>2
    <3> QED
      BY <3>1, <3>2
  <2> QED
    BY <2>1, <2>2 DEF Contig, ReadyQueue
<1>4. ReadyOut(w, ts, X, K, q, c, C) => ReadyOut(w, ts, X, K, q2, c, C)
  <2> SUFFICES ASSUME \A i \in 1 .. n : ~Own(q2[i], w, c)
               PROVE  \A i \in 1 .. (n + 1) : ~Own(q[i], w, c)
    BY <1>2 DEF ReadyOut
  <2> TAKE i \in 1 .. (n + 1)
  <2>1. CASE i = 1
    BY <2>1 DEF Own
  <2>2. CASE i # 1
    <3>1. i - 1 \in 1 .. n /\ (i - 1) + 1 = i
      BY <1>2, <2>2
    <3>2. q2[i - 1] = q[i]
      BY <1>2, <3>1
    <3> QED
      BY <3>1, <3>2
  <2> QED
    BY <2>1, <2>2
<1>5. QED
  BY <1>3, <1>4, LinkedNext DEF Contig

(* Of the connections Y, nothing can come but on that of the head of q. *)
OneConnection(q, c, Y) ==
    /\ \A k \in DOMAIN q : q[k].conn \in Y => q[k].conn = q[1].conn
    /\ c \in Y => c = q[1].conn

(* The queue's entry e is a command of w. *)
IsFrom(e, w) == e.cmd.writer = w

(* The reader's position moves from p to p2. *)
Reaches(p, p2) == p \in Nat /\ p2 \in Nat /\ p <= p2

(* When the head of q has been dealt with, the next command may be taken. *)
MayGoOn(w, ts, p, q, X, K, Y) ==
    q[1].conn \in Y => \A b \in AllCommands : Chained(ts, p, q[1].cmd, b) => Ready(w, ts, X, K, b)

(***************************************************************************)
(* The head of the queue is the writer's.  On its connection, the only one *)
(* where the reader follows the writer, the next command is the first.     *)
(***************************************************************************)
LEMMA ContigNext ==
    ASSUME NEW q \in Queues(AllCommands), NEW q2, IsTail(q, q2), NEW w,
           IsFrom(q[1], w), NEW C \in Seq(AllCommands), NEW c, NEW ts,
           NEW p, NEW X, NEW K, NEW Y, NEW p2, Reaches(p, p2),
           NEW X2, NEW K2, NEW Y2, NEW on \in BOOLEAN,
           Contig(w, ts, p, X, K, q, Y, c, on, C),
           OneConnection(q, c, Y2), MayGoOn(w, ts, p, q, X2, K2, Y2)
    PROVE  Contig(w, ts, p2, X2, K2, q2, Y2, c, on, C)
<1> q # <<>> /\ q2 = Tail(q)
  BY DEF IsTail
<1> p \in Nat /\ p2 \in Nat /\ p <= p2 /\ q[1].cmd.writer = w
  BY DEF Reaches, IsFrom
<1> /\ \A k \in DOMAIN q : q[k].conn \in Y2 => q[k].conn = q[1].conn
    /\ c \in Y2 => c = q[1].conn
    /\ q[1].conn \in Y2 => \A b \in AllCommands : Chained(ts, p, q[1].cmd, b)
                                                    => Ready(w, ts, X2, K2, b)
  BY DEF OneConnection, MayGoOn
<1> DEFINE n == Len(q2)
           h == q[1]
<1>1. q \in Seq([cmd : AllCommands, conn : Nat])
  BY DEF Queues
<1>2. /\ n \in Nat /\ DOMAIN q = 1 .. (n + 1) /\ Len(q) = n + 1 /\ DOMAIN q2 = 1 .. n
      /\ \A k \in 1 .. n : k + 1 \in 1 .. (n + 1) /\ q2[k] = q[k + 1]
      /\ q2 \in Queues(AllCommands)
  <2>1. /\ q2 \in Seq([cmd : AllCommands, conn : Nat])
        /\ n = Len(q) - 1 /\ Len(q) \in Nat /\ Len(q) > 0
        /\ \A k \in 1 .. n : k + 1 \in 1 .. Len(q) /\ q2[k] = q[k + 1]
    BY <1>1, TailIs
  <2>2. DOMAIN q = 1 .. Len(q) /\ DOMAIN q2 = 1 .. n
    BY <1>1, <2>1
  <2>3. Len(q) = n + 1 /\ n \in Nat
    BY <2>1
  <2> QED
    BY <2>1, <2>2, <2>3 DEF Queues
<1> HIDE DEF n
<1>3. 1 \in DOMAIN q /\ \A k \in 1 .. (n + 1) : q[k].cmd \in AllCommands
  BY <1>2, QueueFields
<1>4. Own(h, w, h.conn) /\ h.cmd.writer = w
  BY DEF Own
<1>5. ReadyQueue(w, ts, X2, K2, q2, Y2)
  <2> SUFFICES ASSUME NEW k \in 1 .. n, q2[k].cmd.writer = w, q2[k].conn \in Y2,
                      \A i \in 1 .. (k - 1) : ~Own(q2[i], w, q2[k].conn)
               PROVE  Ready(w, ts, X2, K2, q2[k].cmd)
    BY <1>2 DEF ReadyQueue
  <2>1. q2[k] = q[k + 1] /\ k + 1 \in DOMAIN q /\ 1 < k + 1
    BY <1>2
  <2>2. q[k + 1].conn = h.conn /\ h.conn \in Y2
    BY <2>1
  <2>3. ASSUME NEW i \in (1 + 1) .. ((k + 1) - 1) PROVE ~Own(q[i], w, h.conn)
    <3>1. i - 1 \in 1 .. (k - 1) /\ i - 1 \in 1 .. n /\ (i - 1) + 1 = i
      BY <1>2
    <3>2. q2[i - 1] = q[i]
      BY <1>2, <3>1
    <3> QED
      BY <2>1, <2>2, <3>1, <3>2
  <2>4. Own(q[k + 1], w, h.conn)
    BY <2>1, <2>2 DEF Own
  <2>5. Chained(ts, p, h.cmd, q[k + 1].cmd)
    BY <1>3, <1>4, <2>1, <2>3, <2>4 DEF Contig, LinkedQueue
  <2> QED
    BY <1>2, <1>3, <2>1, <2>2, <2>5
<1>6. on /\ c \in Y2 => ReadyOut(w, ts, X2, K2, q2, c, C)
  <2> SUFFICES ASSUME on, c \in Y2, C # <<>>, \A i \in 1 .. n : ~Own(q2[i], w, c)
               PROVE  Ready(w, ts, X2, K2, C[1])
    BY <1>2 DEF ReadyOut
  <2>1. c = h.conn
    OBVIOUS
  <2>2. ASSUME NEW i \in (1 + 1) .. (n + 1) PROVE ~Own(q[i], w, c)
    <3>1. i - 1 \in 1 .. n /\ (i - 1) + 1 = i
      BY <1>2
    <3>2. q2[i - 1] = q[i]
      BY <1>2, <3>1
    <3> QED
      BY <3>1, <3>2
  <2>3. Chained(ts, p, h.cmd, C[1])
    BY <1>2, <1>3, <1>4, <2>1, <2>2 DEF Contig, LinkedAcross
  <2>4. C[1] \in AllCommands
    OBVIOUS
  <2> QED
    BY <2>1, <2>3, <2>4
<1>7. /\ LinkedSeq(ts, p, C) /\ LinkedQueue(w, ts, p, q2)
      /\ on => LinkedAcross(w, ts, p, q2, c, C)
  BY LinkedNext DEF Contig
<1>8. /\ LinkedSeq(ts, p2, C) /\ LinkedQueue(w, ts, p2, q2)
      /\ on => LinkedAcross(w, ts, p2, q2, c, C)
  <2>1. \A a, b \in AllCommands : Chained(ts, p, a, b) => Chained(ts, p2, a, b)
    BY ChainedFurther
  <2>2. \A k \in DOMAIN q2 : q2[k].cmd \in AllCommands
    BY <1>2, QueueFields
  <2>3. LinkedSeq(ts, p2, C)
    <3> SUFFICES ASSUME NEW k \in 1 .. (Len(C) - 1) PROVE Chained(ts, p2, C[k], C[k + 1])
      BY DEF LinkedSeq
    <3>1. C[k] \in AllCommands /\ C[k + 1] \in AllCommands
      OBVIOUS
    <3> QED
      BY <1>7, <2>1, <3>1 DEF LinkedSeq
  <2>4. LinkedQueue(w, ts, p2, q2)
    BY <1>7, <2>1, <2>2 DEF LinkedQueue
  <2>5. on => LinkedAcross(w, ts, p2, q2, c, C)
    <3>1. C # <<>> => C[1] \in AllCommands
      OBVIOUS
    <3> QED
      BY <1>7, <2>1, <2>2, <3>1 DEF LinkedAcross
  <2> QED
    BY <2>3, <2>4, <2>5
<1>9. QED
  BY <1>5, <1>6, <1>8 DEF Contig

--------------------------------------------------------------------------------
(***************************************************************************)
(* The steps of the writers.                                               *)
(***************************************************************************)

(* What a step of w leaves alone, and what it keeps about w itself. *)
WriterMoves(w) ==
    /\ UNCHANGED <<link, reader, queue>>
    /\ tokens' \in [Writers -> Seq(AllKinds)]
    /\ \A v \in Writers : Extends(tokens[v], tokens'[v])
    /\ DOMAIN streamer' = Writers /\ StreamerOK(streamer'[w], tokens'[w])
    /\ out' \in [Writers -> Seq(AllCommands)]
    /\ \A k \in DOMAIN out'[w] : IsCommand(out'[w][k], w, tokens'[w])
    /\ asked' \subseteq Writers /\ gap' \subseteq Writers
    /\ disturbed \subseteq disturbed' /\ disturbed' \subseteq Hazards
    /\ "reader" \in faults => "reader" \in faults'
    /\ \A v \in Writers \ {w} :
        /\ tokens'[v] = tokens[v] /\ streamer'[v] = streamer[v] /\ out'[v] = out[v]
        /\ v \in gap' <=> v \in gap
    /\ AscendingOut(out'[w], Floor(streamer'[w]))
    /\ Floor(streamer[w]) <= Floor(streamer'[w])
    /\ \A k \in DOMAIN out'[w] : Behind(w, queue, Kept, TokenOf(out'[w][k]))
    /\ w \notin gap' => Floor(streamer'[w]) = streamer'[w].last

(* The fields of a streamer that the position of a writer is read from. *)
LEMMA FloorType ==
    ASSUME NEW s, NEW ts, StreamerOK(s, ts)
    PROVE  Floor(s) \in Nat /\ s.last \in Nat /\ s.connected \in BOOLEAN
<1>1. s.last \in Nat /\ s.from \in Nat /\ s.connected \in BOOLEAN
  BY StreamerTypes DEF StreamerOK
<1>2. QED
  BY <1>1 DEF Floor

(* A streamer stays right when its writer writes more. *)
LEMMA StreamerOKExtends ==
    ASSUME NEW s, NEW ts, NEW ts2, Extends(ts, ts2), StreamerOK(s, ts)
    PROVE  StreamerOK(s, ts2)
<1>1. s.last \in Nat /\ s.upto \in Nat /\ s \in StreamerType
  BY StreamerTypes DEF StreamerOK
<1>2. Len(ts) \in Nat /\ Len(ts2) \in Nat /\ Len(ts) <= Len(ts2)
  BY DEF Extends
<1>3. /\ s.last <= Len(ts2)
      /\ s.looping => s.from <= s.upto /\ s.upto <= Len(ts2) /\ s.from <= s.last
  BY <1>1, <1>2 DEF StreamerOK
<1>4. QED
  BY <1>1, <1>3 DEF StreamerOK

(* A row stays one of its writer's when the writer writes more. *)
LEMMA IsRowExtends ==
    ASSUME NEW r, NEW ts, NEW ts2, Extends(ts, ts2), IsRow(r, ts)
    PROVE  IsRow(r, ts2)
<1>1. Len(ts) \in Nat /\ Len(ts2) \in Nat /\ Len(ts) <= Len(ts2)
  BY DEF Extends
<1>2. r[2] \in 1 .. Len(ts2) /\ ts2[r[2]] = ts[r[2]]
  BY <1>1 DEF IsRow, Extends
<1>3. QED
  BY <1>2 DEF IsRow

(* The commands in the queue, the rows kept. *)
LEMMA QueueTypes ==
    ASSUME Struct
    PROVE  /\ queue \in Queues(AllCommands)
           /\ \A k \in DOMAIN queue : /\ queue[k].cmd \in AllCommands
                                      /\ queue[k].cmd.writer \in Writers
                                      /\ TokenOf(queue[k].cmd) \in Nat
           /\ Kept \subseteq Writers \X Nat \X {1, 2}
           /\ \A r \in Kept : r[1] \in Writers /\ r[2] \in Nat /\ r[3] \in {1, 2}
<1>1. queue \in Queues(AllCommands)
  BY DEF Struct, ReaderTypes, Queues
<1>2. \A k \in DOMAIN queue : queue[k].cmd \in AllCommands
  BY <1>1, QueueFields
<1>3. Kept \subseteq Writers \X Nat \X {1, 2}
  BY DEF Struct, ReaderTypes, Kept
<1>4. \A r \in Writers \X Nat \X {1, 2} : r[1] \in Writers /\ r[2] \in Nat /\ r[3] \in {1, 2}
  OBVIOUS
<1>5. QED
  BY <1>1, <1>2, <1>3, <1>4, CommandFields

(* What is behind a token is behind every later one. *)
LEMMA BehindFurther ==
    ASSUME Struct, NEW w, NEW t \in Nat, NEW u \in Nat, t <= u, Behind(w, queue, Kept, t)
    PROVE  Behind(w, queue, Kept, u)
<1>1. \A x \in Nat : x <= t => x <= u
  OBVIOUS
<1>2. QED
  BY <1>1, QueueTypes DEF Behind

(* A step of a writer keeps the structural invariant. *)
LEMMA WriterMovesStruct ==
    ASSUME Struct, NEW w \in Writers, WriterMoves(w)
    PROVE  Struct'
<1>1. /\ online' = online /\ conn' = conn /\ pos' = pos /\ connected' = connected
      /\ batch' = batch /\ fetch' = fetch /\ handled' = handled
      /\ positioned' = positioned /\ stranded' = stranded /\ queue' = queue
  BY DEF WriterMoves, link, reader
<1>2. Kept' = Kept
  BY <1>1 DEF Kept
<1>3. \A v \in Writers : Extends(tokens[v], tokens'[v])
  BY DEF WriterMoves
<1>4. \A v \in Writers : Len(tokens[v]) \in Nat /\ Len(tokens'[v]) \in Nat
                            /\ Len(tokens[v]) <= Len(tokens'[v])
  BY <1>3 DEF Extends
<1>5. WriterTypes'
  <2>1. ASSUME NEW v \in Writers PROVE StreamerOK(streamer'[v], tokens'[v])
    <3>1. CASE v = w
      BY <3>1 DEF WriterMoves
    <3>2. CASE v # w
      <4>1. streamer'[v] = streamer[v] /\ StreamerOK(streamer[v], tokens[v])
        BY <3>2 DEF WriterMoves, Struct, WriterTypes
      <4> QED
        BY <1>3, <4>1, StreamerOKExtends
    <3> QED
      BY <3>1, <3>2
  <2>2. ASSUME NEW v \in Writers, NEW k \in DOMAIN out'[v]
        PROVE  IsCommand(out'[v][k], v, tokens'[v])
    <3>1. CASE v = w
      BY <3>1 DEF WriterMoves
    <3>2. CASE v # w
      <4>1. out'[v] = out[v]
        BY <3>2 DEF WriterMoves
      <4>2. IsCommand(out[v][k], v, tokens[v])
        BY <4>1 DEF Struct, WriterTypes
      <4> QED
        BY <1>3, <4>1, <4>2, IsCommandExtends
    <3> QED
      BY <3>1, <3>2
  <2> QED
    BY <2>1, <2>2 DEF WriterTypes, WriterMoves
<1>6. ReaderTypes'
  <2>1. \A v \in Writers : pos[v] \in Nat /\ pos[v] <= Len(tokens[v])
    BY DEF Struct, ReaderTypes
  <2>2. \A v \in Writers : pos'[v] <= Len(tokens'[v])
    BY <1>1, <1>4, <2>1
  <2>3. \A k \in DOMAIN queue' :
            IsCommand(queue'[k].cmd, queue'[k].cmd.writer, tokens'[queue'[k].cmd.writer])
    <3> SUFFICES ASSUME NEW k \in DOMAIN queue
                 PROVE  IsCommand(queue[k].cmd, queue[k].cmd.writer, tokens'[queue[k].cmd.writer])
      BY <1>1
    <3>1. queue[k].cmd.writer \in Writers
      BY QueueTypes
    <3>2. IsCommand(queue[k].cmd, queue[k].cmd.writer, tokens[queue[k].cmd.writer])
      BY DEF Struct, ReaderTypes
    <3> QED
      BY <1>3, <3>1, <3>2, IsCommandExtends
  <2>4. \A r \in Kept' : IsRow(r, tokens'[r[1]])
    <3> SUFFICES ASSUME NEW r \in Kept PROVE IsRow(r, tokens'[r[1]])
      BY <1>2
    <3>1. r[1] \in Writers
      BY QueueTypes
    <3>2. IsRow(r, tokens[r[1]])
      BY DEF Struct, ReaderTypes
    <3> QED
      BY <1>3, <3>1, <3>2, IsRowExtends
  <2>5. fetch' = {} \/ \E f \in fetch' : fetch' = {f} /\ FetchOK(f)'
    <3> SUFFICES ASSUME NEW f \in fetch, fetch = {f}, FetchOK(f) PROVE FetchOK(f)'
      BY <1>1 DEF Struct, ReaderTypes
    <3>1. f.writer \in Writers /\ f.new \in Nat /\ f.new <= Len(tokens[f.writer])
      BY DEF FetchOK
    <3>2. f.new <= Len(tokens'[f.writer])
      BY <1>4, <3>1
    <3> QED
      BY <1>1, <3>2 DEF FetchOK
  <2>6. disturbed' \subseteq Hazards
    BY DEF WriterMoves
  <2> QED
    BY <1>1, <2>2, <2>3, <2>4, <2>5, <2>6 DEF Struct, ReaderTypes
<1>7. Connections'
  <2>1. \A c : Live(c)' <=> Live(c)
    BY <1>1 DEF Live
  <2>2. "reader" \in faults => "reader" \in faults'
    BY DEF WriterMoves
  <2> QED
    BY <1>1, <2>1, <2>2 DEF Struct, Connections
<1>8. Ascending'
  <2> SUFFICES ASSUME NEW v \in Writers
               PROVE  /\ AscendingOut(out'[v], Floor(streamer'[v]))
                      /\ Behind(v, queue, Kept, Floor(streamer'[v]))
                      /\ \A k \in DOMAIN out'[v] : Behind(v, queue, Kept, TokenOf(out'[v][k]))
                      /\ AscendingQueue(v, queue, Kept)
                      /\ v \notin gap' => Floor(streamer'[v]) = streamer'[v].last
    BY <1>1, <1>2 DEF Ascending
  <2>1. CASE v # w
    <3>1. streamer'[v] = streamer[v] /\ out'[v] = out[v] /\ (v \in gap' <=> v \in gap)
      BY <2>1 DEF WriterMoves
    <3> QED
      BY <3>1 DEF Struct, Ascending
  <2>2. CASE v = w
    <3>1. Behind(w, queue, Kept, Floor(streamer[w])) /\ AscendingQueue(w, queue, Kept)
      BY DEF Struct, Ascending
    <3>2. Floor(streamer[w]) \in Nat /\ Floor(streamer'[w]) \in Nat
      BY FloorType DEF Struct, WriterTypes, WriterMoves
    <3>3. Floor(streamer[w]) <= Floor(streamer'[w])
      BY DEF WriterMoves
    <3>4. Behind(w, queue, Kept, Floor(streamer'[w]))
      BY <3>1, <3>2, <3>3, BehindFurther
    <3> QED
      BY <2>2, <3>1, <3>4 DEF WriterMoves
  <2> QED
    BY <2>1, <2>2
<1>9. QED
  BY <1>5, <1>6, <1>7, <1>8 DEF Struct

(* The command before the next row is about a token there is. *)
LEMMA CommandUpTo ==
    ASSUME NEW w, NEW ts \in Seq(AllKinds), NEW x \in AllCommands, IsCommand(x, w, ts)
    PROVE  x \in UpToNext(ts) /\ TokenOf(x) <= Len(ts)
<1>1. Len(ts) \in Nat
  OBVIOUS
<1>2. CASE IsPosition(x, w, ts)
  BY <1>2, CommandFields DEF IsPosition, UpToNext
<1>3. CASE IsRdata(x, w, ts)
  <2>1. PICK t \in 1 .. Len(ts) : \E i : x.row = <<w, t, i>>
    BY <1>3 DEF IsRdata
  <2>2. x.row[2] = t /\ x.type = "RDATA" /\ TokenOf(x) = x.row[2]
    BY <1>3, <2>1, CommandFields DEF IsRdata
  <2>3. x.row[2] <= Len(ts) + 1 /\ TokenOf(x) <= Len(ts)
    BY <1>1, <2>2
  <2> QED
    BY <2>3 DEF UpToNext
<1>4. QED
  BY <1>2, <1>3 DEF IsCommand

(* The row a writer will send next is a command up to its next token. *)
LEMMA NextRowType ==
    ASSUME NEW w \in Writers, NEW ts \in Seq(AllKinds), NEW last \in Nat, last <= Len(ts)
    PROVE  NextRow(w, last) \in UpToNext(ts)
<1> DEFINE b == NextRow(w, last)
<1>1. last + 1 \in Nat /\ 0 \in Nat /\ 1 \in {1, 2} /\ Len(ts) \in Nat
  OBVIOUS
<1>2. b \in AllCommands
  BY <1>1 DEF NextRow, AllCommands, None
<1> HIDE DEF b
<1>3. b.row[2] = last + 1
  BY NextRowIs DEF b
<1>4. b.row[2] <= Len(ts) + 1
  BY <1>1, <1>3
<1>5. b \in UpToNext(ts)
  BY <1>2, <1>4 DEF UpToNext
<1>6. QED
  BY <1>5 DEF b

(* What the structural invariant says of one writer. *)
LEMMA WriterTyped ==
    ASSUME Struct, NEW w \in Writers
    PROVE  /\ tokens[w] \in Seq(AllKinds) /\ Len(tokens[w]) \in Nat
           /\ streamer[w].last \in Nat /\ streamer[w].last <= Len(tokens[w])
           /\ Floor(streamer[w]) \in Nat /\ streamer[w].connected \in BOOLEAN
           /\ streamer[w] \in StreamerType /\ StreamerOK(streamer[w], tokens[w])
           /\ out[w] \in Seq(AllCommands)
           /\ \A k \in DOMAIN out[w] : IsCommand(out[w][k], w, tokens[w])
           /\ Coming(w) \in Seq(AllCommands)
           /\ pos[w] \in Nat /\ pos[w] <= Len(tokens[w])
<1>1. /\ tokens[w] \in Seq(AllKinds) /\ StreamerOK(streamer[w], tokens[w])
      /\ out[w] \in Seq(AllCommands)
      /\ \A k \in DOMAIN out[w] : IsCommand(out[w][k], w, tokens[w])
  BY DEF Struct, WriterTypes
<1>2. /\ streamer[w].last \in Nat /\ Floor(streamer[w]) \in Nat
      /\ streamer[w].connected \in BOOLEAN
  BY <1>1, FloorType
<1>3. Coming(w) \in Seq(AllCommands)
  BY <1>1, <1>2, FollowingIs DEF Coming
<1>4. pos[w] \in Nat /\ pos[w] <= Len(tokens[w])
  BY DEF Struct, ReaderTypes
<1>5. streamer[w].last <= Len(tokens[w]) /\ streamer[w] \in StreamerType
  BY <1>1 DEF StreamerOK
<1>6. Len(tokens[w]) \in Nat
  BY <1>1
<1>7. QED
  BY <1>1, <1>2, <1>3, <1>4, <1>5, <1>6

(* All that is on its way from a writer is up to its next token. *)
LEMMA ComingUpTo ==
    ASSUME Struct, NEW w \in Writers
    PROVE  /\ Coming(w) \in Seq(UpToNext(tokens[w]))
           /\ \A k \in DOMAIN queue : queue[k].cmd.writer = w
                                        => queue[k].cmd \in UpToNext(tokens[w])
<1> DEFINE o == out[w]
           l == streamer[w].last
           ts == tokens[w]
           C == Coming(w)
<1>1. /\ ts \in Seq(AllKinds) /\ l \in Nat /\ l <= Len(ts) /\ o \in Seq(AllCommands)
      /\ \A k \in DOMAIN o : IsCommand(o[k], w, ts)
  BY WriterTyped
<1>3. C = Following(w, o, gap, l)
  BY DEF Coming
<1> HIDE DEF o, l, ts, C
<1>4. /\ C \in Seq(AllCommands)
      /\ \A k \in 1 .. Len(o) : C[k] = o[k]
      /\ w \in gap => Len(C) = Len(o)
      /\ w \notin gap => Len(C) = Len(o) + 1 /\ C[Len(o) + 1] = NextRow(w, l)
  BY <1>1, <1>3, FollowingIs
<1>5. ASSUME NEW k \in 1 .. Len(C) PROVE C[k] \in UpToNext(ts)
  <2>1. Len(o) \in Nat /\ DOMAIN o = 1 .. Len(o)
    BY <1>1
  <2>2. k \in 1 .. Len(o) \/ (w \notin gap /\ k = Len(o) + 1)
    BY <1>4, <2>1
  <2>3. CASE k \in 1 .. Len(o)
    <3>1. C[k] = o[k] /\ o[k] \in AllCommands /\ IsCommand(o[k], w, ts)
      BY <1>1, <1>4, <2>1, <2>3
    <3> QED
      BY <1>1, <3>1, CommandUpTo
  <2>4. CASE w \notin gap /\ k = Len(o) + 1
    BY <1>1, <1>4, <2>4, NextRowType
  <2> QED
    BY <2>2, <2>3, <2>4
<1>6. C \in Seq(UpToNext(ts))
  BY <1>4, <1>5
<1>7. ASSUME NEW k \in DOMAIN queue, queue[k].cmd.writer = w
      PROVE  queue[k].cmd \in UpToNext(ts)
  <2>1. IsCommand(queue[k].cmd, w, ts) /\ queue[k].cmd \in AllCommands
    BY <1>7, QueueTypes DEF Struct, ReaderTypes, ts
  <2> QED
    BY <1>1, <2>1, CommandUpTo
<1>8. QED
  BY <1>6, <1>7 DEF C, ts

(* The rows up to a token there is do not change. *)
LEMMA RowsExtends ==
    ASSUME NEW w, NEW ts, NEW ts2, Extends(ts, ts2), NEW p \in Nat, p <= Len(ts)
    PROVE  RowsBetween(w, ts2, 0, p) = RowsBetween(w, ts, 0, p)
<1>1. Len(ts) \in Nat
  BY DEF Extends
<1>2. \A t \in (0 + 1) .. p : t \in 1 .. Len(ts)
  BY <1>1
<1>3. \A t \in (0 + 1) .. p : ts2[t] = ts[t]
  BY <1>2 DEF Extends
<1>4. \A t \in (0 + 1) .. p : RowsAt(w, ts2, t) = RowsAt(w, ts, t)
  BY <1>3 DEF RowsAt
<1>5. QED
  BY <1>4 DEF RowsBetween

(* The abstract invariant, writer by writer. *)
LEMMA CompleteIs ==
    Rows!Complete <=> \A w \in Writers : RowsBetween(w, tokens[w], 0, pos[w]) \subseteq handled
  BY DEF Rows!Complete, Rows!RowsBetween, Rows!RowsAt, Rows!RowsOf, RowsBetween, RowsAt, RowsOf

(* The same after a step. *)
LEMMA CompleteNextIs ==
    Rows!Complete' <=>
        \A w \in Writers : RowsBetween(w, tokens'[w], 0, pos'[w]) \subseteq handled'
  BY DEF Rows!Complete, Rows!RowsBetween, Rows!RowsAt, Rows!RowsOf, RowsBetween, RowsAt, RowsOf

(* The positions that a reader's stream has reached. *)
LEMMA ReachedType ==
    ASSUME Struct, NEW w \in Writers
    PROVE  Reached(w) \subseteq Nat /\ pos[w] \in Reached(w)
<1>1. pos[w] \in Nat
  BY WriterTyped
<1>2. \A f \in fetch : f.new \in Nat
  BY DEF Struct, ReaderTypes, FetchOK
<1>3. QED
  BY <1>1, <1>2 DEF Reached

(* What is coming becomes C2: no row is left out that was not before. *)
Goes(ts, p, C, C2) ==
    LinkedSeq(ts, p, C) =>
        /\ LinkedSeq(ts, p, C2)
        /\ C2 # <<>> => \/ C2[1].type = "POSITION"
                        \/ C # <<>> /\ (C2[1] = C[1] \/ Instead(ts, C[1], C2[1]))

(* A step of a writer keeps the invariant. *)
LEMMA WriterMovesInv ==
    ASSUME IInv, NEW w \in Writers, WriterMoves(w),
           disturbed' = {} => Goes(tokens'[w], pos[w], Coming(w), Coming(w)')
    PROVE  IInv'
<1>0. Struct
  BY DEF IInv
<1>1. Struct'
  BY <1>0, WriterMovesStruct
<1>2. /\ online' = online /\ conn' = conn /\ pos' = pos
      /\ batch' = batch /\ fetch' = fetch /\ handled' = handled
      /\ positioned' = positioned /\ queue' = queue
  BY DEF WriterMoves, link, reader
<1>3. Kept' = Kept
  BY <1>2 DEF Kept
<1> SUFFICES ASSUME disturbed' = {}
             PROVE  OneBatch' /\ Rows!Complete' /\ \A v \in Writers : Contiguous(v)'
  BY <1>1 DEF IInv, Safe
<1>4. OneBatch /\ Rows!Complete /\ \A v \in Writers : Contiguous(v)
  BY DEF IInv, Safe, WriterMoves
<1>5. OneBatch'
  BY <1>3, <1>4 DEF OneBatch
<1>6. Rows!Complete'
  <2>1. ASSUME NEW v \in Writers PROVE RowsBetween(v, tokens'[v], 0, pos'[v]) \subseteq handled'
    <3>1. RowsBetween(v, tokens[v], 0, pos[v]) \subseteq handled
      BY <1>4, CompleteIs
    <3>2. pos[v] \in Nat /\ pos[v] <= Len(tokens[v]) /\ Extends(tokens[v], tokens'[v])
      BY <1>0, WriterTyped DEF WriterMoves
    <3> QED
      BY <1>2, <3>1, <3>2, RowsExtends
  <2> QED
    BY <2>1, CompleteNextIs
<1>7. ASSUME NEW v \in Writers PROVE Contiguous(v)'
  <2>1. Reached(v)' = Reached(v) /\ SyncedOn(v)' = SyncedOn(v)
    BY <1>2 DEF Reached, SyncedOn, Synced
  <2> SUFFICES Contig(v, tokens'[v], pos[v], Reached(v), Kept, queue, SyncedOn(v), conn,
                      online, Coming(v)')
    BY <1>2, <1>3, <2>1 DEF Contiguous
  <2>2. Contig(v, tokens[v], pos[v], Reached(v), Kept, queue, SyncedOn(v), conn,
               online, Coming(v))
    BY <1>4 DEF Contiguous
  <2>3. CASE v # w
    <3>1. Coming(v)' = Coming(v) /\ tokens'[v] = tokens[v]
      BY <2>3 DEF WriterMoves, Coming, Following
    <3> QED
      BY <2>2, <3>1
  <2>4. CASE v = w
    <3> DEFINE ts == tokens[w]
               ts2 == tokens'[w]
               p == pos[w]
               X == Reached(w)
               Y == SyncedOn(w)
               C == Coming(w)
               C2 == Coming(w)'
               K == Kept
    <3>1. /\ Extends(ts, ts2) /\ p \in Nat /\ X \in SUBSET Nat /\ online \in BOOLEAN
          /\ C \in Seq(UpToNext(ts)) /\ C \in Seq(AllCommands) /\ C2 \in Seq(AllCommands)
          /\ \A k \in DOMAIN queue : queue[k].cmd.writer = w => queue[k].cmd \in UpToNext(ts)
          /\ queue \in Queues(AllCommands)
      <4>1. C2 \in Seq(AllCommands)
        <5>1. StreamerOK(streamer'[w], tokens'[w]) /\ out'[w] \in Seq(AllCommands)
          BY DEF WriterMoves
        <5>2. streamer'[w].last \in Nat
          BY <5>1, FloorType
        <5> QED
          BY <5>1, <5>2, FollowingIs DEF Coming
      <4> QED
        BY <1>0, <4>1, WriterTyped, ReachedType, ComingUpTo, QueueTypes
           DEF WriterMoves, Struct, Connections
    <3>2. Contig(w, ts, p, X, K, queue, Y, conn, online, C)
      BY <2>2, <2>4
    <3>3. Goes(ts2, p, C, C2)
      OBVIOUS
    <3> HIDE DEF ts, ts2, p, X, Y, C, C2, K
    <3>4. Contig(w, ts2, p, X, K, queue, Y, conn, online, C)
      BY <3>1, <3>2, ContigExtends
    <3>5. /\ LinkedSeq(ts2, p, C2)
          /\ C2 # <<>> => \/ C2[1].type = "POSITION"
                          \/ C # <<>> /\ (C2[1] = C[1] \/ Instead(ts2, C[1], C2[1]))
      BY <3>3, <3>4 DEF Contig, Goes
    <3>6. Contig(w, ts2, p, X, K, queue, Y, conn, online, C2)
      BY <3>1, <3>4, <3>5, ContigComing
    <3> QED
      BY <2>4, <3>6 DEF ts2, p, X, Y, C2, K
  <2> QED
    BY <2>3, <2>4
<1>8. QED
  BY <1>5, <1>6, <1>7

(* The writer w, if any, has new tokens, the others have not. *)
OnlyTokensOf(w) ==
    /\ tokens' \in [Writers -> Seq(AllKinds)] /\ Extends(tokens[w], tokens'[w])
    /\ \A v \in Writers \ {w} : tokens'[v] = tokens[v]

(* A step of one writer extends its tokens and no other's. *)
LEMMA OnlyTokensExtends ==
    ASSUME Struct, NEW w \in Writers, OnlyTokensOf(w)
    PROVE  \A v \in Writers : Extends(tokens[v], tokens'[v])
<1> SUFFICES ASSUME NEW v \in Writers PROVE Extends(tokens[v], tokens'[v])
  OBVIOUS
<1>1. tokens[v] \in Seq(AllKinds)
  BY DEF Struct, WriterTypes
<1>2. v # w => tokens'[v] = tokens[v] /\ Extends(tokens[v], tokens[v])
  BY <1>1 DEF OnlyTokensOf, Extends
<1>3. QED
  BY <1>2 DEF OnlyTokensOf

(* A step of a writer that sends nothing, and may lose what it sent last. *)
LEMMA WriterSilentInv ==
    ASSUME IInv, NEW w \in Writers, OnlyTokensOf(w), UNCHANGED <<link, reader, queue>>,
           DOMAIN streamer' = Writers, StreamerOK(streamer'[w], tokens'[w]),
           Floor(streamer[w]) <= Floor(streamer'[w]),
           out' \in [Writers -> Seq(AllCommands)], Len(out'[w]) <= Len(out[w]),
           \A k \in 1 .. Len(out'[w]) : out'[w][k] = out[w][k],
           \A v \in Writers \ {w} : streamer'[v] = streamer[v] /\ out'[v] = out[v],
           gap' = gap \/ gap' = gap \cup {w},
           w \notin gap' => /\ out'[w] = out[w] /\ streamer'[w].last = streamer[w].last
                            /\ Floor(streamer'[w]) = Floor(streamer[w]),
           asked' \subseteq Writers, disturbed' = disturbed,
           "reader" \in faults => "reader" \in faults'
    PROVE  IInv'
<1> DEFINE o == out[w]
           o2 == out'[w]
           F == Floor(streamer[w])
           F2 == Floor(streamer'[w])
           C == Coming(w)
           C2 == Coming(w)'
<1>0. Struct
  BY DEF IInv
<1>1. /\ o \in Seq(AllCommands) /\ o2 \in Seq(AllCommands) /\ F \in Nat /\ F2 \in Nat
      /\ Len(o) \in Nat /\ Len(o2) \in Nat /\ DOMAIN o = 1 .. Len(o) /\ DOMAIN o2 = 1 .. Len(o2)
      /\ streamer[w].last \in Nat /\ streamer'[w].last \in Nat
      /\ \A k \in 1 .. Len(o) : o[k] \in AllCommands /\ IsCommand(o[k], w, tokens[w])
  BY <1>0, WriterTyped, FloorType
<1>2. \A k \in 1 .. Len(o2) : k \in 1 .. Len(o) /\ o2[k] = o[k]
  BY <1>1
<1>3. /\ AscendingOut(o, F)
      /\ \A k \in 1 .. Len(o) : Behind(w, queue, Kept, TokenOf(o[k]))
      /\ w \notin gap => F = streamer[w].last
  BY <1>0, <1>1 DEF Struct, Ascending
<1>4. WriterMoves(w)
  <2>1. \A v \in Writers : Extends(tokens[v], tokens'[v])
    BY <1>0, OnlyTokensExtends
  <2>2. \A k \in DOMAIN out'[w] : IsCommand(out'[w][k], w, tokens'[w])
    BY <1>1, <1>2, <2>1, IsCommandExtends
  <2>3. AscendingOut(o2, F2)
    <3>1. \A k \in 1 .. Len(o) : TokenOf(o[k]) \in Nat
      BY <1>1, CommandFields
    <3>2. \A k \in 1 .. Len(o) : TokenOf(o[k]) <= F2
      <4>1. \A x \in Nat : x <= F => x <= F2
        BY <1>1
      <4> QED
        BY <1>1, <1>3, <3>1, <4>1 DEF AscendingOut
    <3> HIDE DEF o, o2, F, F2
    <3> QED
      BY <1>1, <1>2, <1>3, <3>2 DEF AscendingOut
  <2>4. \A k \in DOMAIN out'[w] : Behind(w, queue, Kept, TokenOf(out'[w][k]))
    BY <1>1, <1>2, <1>3
  <2>5. w \notin gap' => F2 = streamer'[w].last
    BY <1>3
  <2>6. gap' \subseteq Writers /\ \A v \in Writers \ {w} : v \in gap' <=> v \in gap
    BY <1>0 DEF Struct, WriterTypes
  <2>7. disturbed \subseteq disturbed' /\ disturbed' \subseteq Hazards
    BY <1>0 DEF Struct, ReaderTypes
  <2> QED
    BY <2>1, <2>2, <2>3, <2>4, <2>5, <2>6, <2>7 DEF WriterMoves, OnlyTokensOf
<1>5. Goes(tokens'[w], pos[w], C, C2)
  <2>1. CASE w \notin gap'
    <3>1. C2 = C
      BY <2>1 DEF Coming, Following
    <3> QED
      BY <3>1 DEF Goes
  <2>2. CASE w \in gap'
    <3>1. /\ C \in Seq(AllCommands)
          /\ \A k \in 1 .. Len(o) : C[k] = o[k]
          /\ w \in gap => Len(C) = Len(o)
          /\ w \notin gap => Len(C) = Len(o) + 1
      BY <1>1, FollowingIs DEF Coming
    <3>2. /\ C2 \in Seq(AllCommands) /\ Len(C2) = Len(o2)
          /\ \A k \in 1 .. Len(o2) : C2[k] = o2[k]
      BY <1>1, <2>2, FollowingIs DEF Coming
    <3> HIDE DEF o, o2, C, C2
    <3>3. Len(C2) <= Len(C)
      <4>1. Len(o2) <= Len(o)
        BY DEF o, o2
      <4> QED
        BY <1>1, <3>1, <3>2, <4>1
    <3>4. \A k \in 1 .. Len(C2) : C2[k] = C[k]
      BY <1>2, <3>1, <3>2
    <3> QED
      BY <3>1, <3>2, <3>3, <3>4, ComingCut DEF Goes
  <2> QED
    BY <2>1, <2>2
<1>6. QED
  BY <1>4, <1>5, WriterMovesInv

(* The concatenation of two sequences. *)
LEMMA ConcatIs ==
    ASSUME NEW S, NEW a \in Seq(S), NEW b \in Seq(S), NEW n, n = Len(a), NEW m, m = Len(b),
           NEW c, c = a \o b
    PROVE  /\ c \in Seq(S) /\ Len(c) = n + m /\ DOMAIN c = 1 .. (n + m)
           /\ \A k \in 1 .. n : c[k] = a[k]
           /\ \A k \in (n + 1) .. (n + m) : k - n \in 1 .. m /\ c[k] = b[k - n]
<1>1. c \in Seq(S) /\ Len(c) = n + m /\ n \in Nat /\ m \in Nat
  OBVIOUS
<1>2. DOMAIN c = 1 .. (n + m)
  BY <1>1
<1>3. ASSUME NEW k \in 1 .. n PROVE c[k] = a[k]
  OBVIOUS
<1>4. ASSUME NEW k \in (n + 1) .. (n + m) PROVE k - n \in 1 .. m /\ c[k] = b[k - n]
  <2>1. k - n \in 1 .. m /\ k \in 1 .. (n + m) /\ k > n
    BY <1>1
  <2>2. c[k] = b[k - n]
    BY <2>1
  <2> QED
    BY <2>1, <2>2
<1>5. QED
  BY <1>1, <1>2, <1>3, <1>4

(* A step of a streamer. *)
LEMMA StreamerStepInv ==
    ASSUME IInv, NEW w \in Writers, OnlyTokensOf(w), UNCHANGED <<link, reader, queue, faults>>,
           NEW s, s.last = streamer[w].last, Floor(s) = Floor(streamer[w]),
           s.connected = streamer[w].connected,
           NEW r, Outcome(w, tokens'[w], s, r), StreamerStep(w, s, r), asked' \subseteq Writers
    PROVE  IInv'
<1> DEFINE o == out[w]
           F == Floor(streamer[w])
           l2 == r.state.last
           ts2 == tokens'[w]
<1>0. Struct
  BY DEF IInv
<1>1. /\ streamer' = [streamer EXCEPT ![w] = r.state] /\ DOMAIN streamer = Writers
      /\ StreamerOK(r.state, ts2)
      /\ out \in [Writers -> Seq(AllCommands)] /\ s.connected \in BOOLEAN
  BY <1>0, WriterTyped DEF StreamerStep, Struct, WriterTypes, Outcome
<1>2. /\ DOMAIN streamer' = Writers /\ streamer'[w] = r.state
      /\ \A v \in Writers \ {w} : streamer'[v] = streamer[v]
  BY <1>1
<1>3. /\ F <= Floor(r.state)
      /\ r.sent = <<>> \/ Run(w, ts2, F, r.sent, l2)
      /\ r.sent # <<>> => Floor(r.state) = l2
      /\ r.sent = <<>> /\ l2 = s.last => Floor(r.state) = F
      /\ r.sent = <<>> /\ s.connected => l2 = s.last
  BY DEF Outcome
<1>4. /\ o \in Seq(AllCommands) /\ Len(o) \in Nat /\ DOMAIN o = 1 .. Len(o)
      /\ \A k \in 1 .. Len(o) : o[k] \in AllCommands /\ IsCommand(o[k], w, tokens[w])
      /\ F \in Nat /\ l2 \in Nat /\ streamer[w].last \in Nat
  BY <1>0, <1>1, WriterTyped, FloorType
<1>5. CASE ~s.connected \/ r.sent = <<>>
  <2>1. out' = out /\ disturbed' = disturbed
    <3>1. CASE ~s.connected
      BY <3>1 DEF StreamerStep
    <3>2. CASE s.connected /\ r.sent = <<>>
      <4>1. out[w] \o <<>> = out[w]
        BY <1>4
      <4>2. out' = [out EXCEPT ![w] = @ \o <<>>] /\ disturbed' = disturbed
        BY <3>2 DEF StreamerStep
      <4> QED
        BY <1>1, <4>1, <4>2
    <3> QED
      BY <1>1, <1>5, <3>1, <3>2
  <2>2. gap' = gap \/ gap' = gap \cup {w}
    BY <1>5 DEF StreamerStep
  <2>3. w \notin gap' => r.sent = <<>> /\ l2 = s.last
    BY <1>1, <1>3, <1>5 DEF StreamerStep
  <2>4. w \notin gap' => /\ out'[w] = out[w] /\ streamer'[w].last = streamer[w].last
                         /\ Floor(streamer'[w]) = Floor(streamer[w])
    BY <1>2, <1>3, <2>1, <2>3
  <2>5. /\ out' \in [Writers -> Seq(AllCommands)] /\ Len(out'[w]) <= Len(out[w])
        /\ \A k \in 1 .. Len(out'[w]) : out'[w][k] = out[w][k]
        /\ \A v \in Writers \ {w} : streamer'[v] = streamer[v] /\ out'[v] = out[v]
    BY <1>1, <1>2, <1>4, <2>1
  <2>6. /\ StreamerOK(streamer'[w], tokens'[w]) /\ Floor(streamer[w]) <= Floor(streamer'[w])
        /\ UNCHANGED <<link, reader, queue>> /\ faults' = faults
    BY <1>1, <1>2, <1>3
  <2> QED
    BY <1>2, <2>1, <2>2, <2>4, <2>5, <2>6, WriterSilentInv
<1>6. CASE s.connected /\ r.sent # <<>>
  <2> DEFINE n == Len(o)
             m == Len(r.sent)
             o2 == o \o r.sent
  <2>1. /\ out' = [out EXCEPT ![w] = o2] /\ gap' = gap \ {w}
        /\ disturbed' = IF w \in gap /\ Head(r.sent).type = "RDATA"
                        THEN disturbed \cup {"gap"} ELSE disturbed
    BY <1>6 DEF StreamerStep
  <2>2. Run(w, ts2, F, r.sent, l2) /\ Floor(r.state) = l2
    BY <1>3, <1>6
  <2>3. /\ r.sent \in Seq(AllCommands) /\ m \in Nat /\ m > 0
        /\ \A k \in 1 .. m : /\ r.sent[k] \in AllCommands /\ IsCommand(r.sent[k], w, ts2)
                             /\ F <= TokenOf(r.sent[k]) /\ TokenOf(r.sent[k]) <= l2
        /\ \A j, k \in 1 .. m : j <= k => TokenOf(r.sent[j]) <= TokenOf(r.sent[k])
    BY <2>2 DEF Run
  <2>4. /\ o2 \in Seq(AllCommands) /\ Len(o2) = n + m /\ DOMAIN o2 = 1 .. (n + m)
        /\ \A k \in 1 .. n : o2[k] = o[k]
        /\ \A k \in (n + 1) .. (n + m) : k - n \in 1 .. m /\ o2[k] = r.sent[k - n]
    <3>1. o \in Seq(AllCommands) /\ r.sent \in Seq(AllCommands)
      BY <1>4, <2>3
    <3> HIDE DEF o
    <3> QED
      BY <3>1, ConcatIs
  <2>5. out' \in [Writers -> Seq(AllCommands)] /\ out'[w] = o2
        /\ \A v \in Writers \ {w} : out'[v] = out[v]
    BY <1>1, <2>1, <2>4
  <2> HIDE DEF n, m, o2, o, F, l2, ts2
  <2>6. n \in Nat /\ m \in Nat /\ F \in Nat /\ l2 \in Nat
    BY <1>4, <2>3 DEF n
  <2>7. \A k \in 1 .. (n + m) : k \in 1 .. n \/ k \in (n + 1) .. (n + m)
    BY <2>6
  <2>8. /\ \A k \in 1 .. n : TokenOf(o[k]) \in Nat
        /\ \A k \in 1 .. m : TokenOf(r.sent[k]) \in Nat
    BY <1>4, <2>3, CommandFields DEF n
  <2>9. /\ AscendingOut(o, F)
        /\ \A k \in 1 .. n : Behind(w, queue, Kept, TokenOf(o[k]))
        /\ Behind(w, queue, Kept, F)
        /\ w \notin gap => F = streamer[w].last
    BY <1>0, <1>4 DEF Struct, Ascending, n, F, o
  <2>10. F <= l2
    BY <1>3, <2>2
  <2>11. \A v \in Writers : Extends(tokens[v], tokens'[v])
    BY <1>0, OnlyTokensExtends
  <2>12. \A k \in 1 .. (n + m) : IsCommand(o2[k], w, ts2)
    <3>1. \A k \in 1 .. n : IsCommand(o[k], w, ts2)
      BY <1>4, <2>11, IsCommandExtends DEF n, ts2
    <3> QED
      BY <2>3, <2>4, <2>7, <3>1
  <2>13. ASSUME NEW k \in 1 .. (n + m)
         PROVE  /\ TokenOf(o2[k]) <= l2
                /\ \A j \in 1 .. (n + m) : j <= k => TokenOf(o2[j]) <= TokenOf(o2[k])
    <3>1. \A i \in 1 .. n : TokenOf(o[i]) <= F
                            /\ \A j \in 1 .. n : j <= i => TokenOf(o[j]) <= TokenOf(o[i])
      BY <1>4, <2>9 DEF AscendingOut, n
    <3>2. CASE k \in 1 .. n
      <4>1. o2[k] = o[k] /\ TokenOf(o[k]) <= F /\ TokenOf(o[k]) \in Nat
        BY <2>4, <2>8, <3>1, <3>2
      <4>2. TokenOf(o2[k]) <= l2
        BY <2>6, <2>10, <4>1
      <4>3. ASSUME NEW j \in 1 .. (n + m), j <= k PROVE TokenOf(o2[j]) <= TokenOf(o2[k])
        <5>1. j \in 1 .. n
          BY <2>6, <3>2, <4>3
        <5> QED
          BY <2>4, <3>1, <3>2, <4>1, <4>3, <5>1
      <4> QED
        BY <4>2, <4>3
    <3>3. CASE k \in (n + 1) .. (n + m)
      <4>1. k - n \in 1 .. m /\ o2[k] = r.sent[k - n]
        BY <2>4, <3>3
      <4>2. F <= TokenOf(o2[k]) /\ TokenOf(o2[k]) <= l2 /\ TokenOf(o2[k]) \in Nat
        BY <2>3, <2>8, <4>1
      <4>3. ASSUME NEW j \in 1 .. n PROVE TokenOf(o2[j]) <= TokenOf(o2[k])
        <5>1. o2[j] = o[j] /\ TokenOf(o[j]) <= F /\ TokenOf(o[j]) \in Nat
          BY <2>4, <2>8, <3>1
        <5> QED
          BY <2>6, <4>2, <5>1
      <4>4. ASSUME NEW j \in (n + 1) .. (n + m), j <= k PROVE TokenOf(o2[j]) <= TokenOf(o2[k])
        <5>1. j - n \in 1 .. m /\ o2[j] = r.sent[j - n]
          BY <2>4
        <5>2. j - n <= k - n
          BY <2>6, <3>3, <4>4
        <5> QED
          BY <2>3, <4>1, <5>1, <5>2
      <4> QED
        BY <2>7, <4>2, <4>3, <4>4
    <3> QED
      BY <2>7, <3>2, <3>3
  <2>14. ASSUME NEW k \in 1 .. (n + m) PROVE Behind(w, queue, Kept, TokenOf(o2[k]))
    <3>1. CASE k \in 1 .. n
      BY <2>4, <2>9, <3>1
    <3>2. CASE k \in (n + 1) .. (n + m)
      <4>1. k - n \in 1 .. m /\ o2[k] = r.sent[k - n]
        BY <2>4, <3>2
      <4>2. F <= TokenOf(o2[k]) /\ TokenOf(o2[k]) \in Nat
        BY <2>3, <2>8, <4>1
      <4> QED
        BY <1>0, <2>6, <2>9, <4>2, BehindFurther
    <3> QED
      BY <2>7, <3>1, <3>2
  <2>15. WriterMoves(w)
    <3>1. UNCHANGED <<link, reader, queue>> /\ faults' = faults
      OBVIOUS
    <3>2. DOMAIN streamer' = Writers /\ StreamerOK(streamer'[w], tokens'[w])
      BY <1>1, <1>2 DEF ts2
    <3>3. \A k \in DOMAIN out'[w] : /\ IsCommand(out'[w][k], w, tokens'[w])
                                    /\ Behind(w, queue, Kept, TokenOf(out'[w][k]))
      BY <2>4, <2>5, <2>12, <2>14 DEF ts2
    <3>4. gap' \subseteq Writers /\ \A v \in Writers \ {w} : v \in gap' <=> v \in gap
      BY <1>0, <2>1 DEF Struct, WriterTypes
    <3>5. disturbed \subseteq disturbed' /\ disturbed' \subseteq Hazards
      BY <1>0, <2>1 DEF Struct, ReaderTypes, Hazards
    <3>6. AscendingOut(out'[w], Floor(streamer'[w]))
      BY <1>2, <2>2, <2>4, <2>5, <2>13 DEF AscendingOut
    <3>7. Floor(streamer'[w]) = streamer'[w].last /\ Floor(streamer[w]) <= Floor(streamer'[w])
      BY <1>2, <1>3, <2>2 DEF l2, F
    <3> QED
      BY <1>2, <2>5, <2>11, <3>1, <3>2, <3>3, <3>4, <3>5, <3>6, <3>7
         DEF WriterMoves, OnlyTokensOf
  <2>16. ASSUME disturbed' = {} PROVE Goes(tokens'[w], pos[w], Coming(w), Coming(w)')
    <3>1. w \in gap => r.sent[1].type = "POSITION"
      <4>1. w \in gap => Head(r.sent).type # "RDATA"
        BY <2>1, <2>16
      <4>2. Head(r.sent) = r.sent[1] /\ 1 \in 1 .. m
        BY <2>3, <2>6
      <4>3. r.sent[1] \in AllCommands
        BY <2>3, <4>2
      <4> QED
        BY <4>1, <4>2, <4>3, CommandFields
    <3>2. Coming(w) = Following(w, o, gap, streamer[w].last)
      BY DEF Coming, o
    <3>3. Coming(w)' = Following(w, o \o r.sent, gap', l2) /\ w \notin gap'
      BY <1>2, <2>1, <2>5 DEF Coming, l2, o2
    <3>4. pos[w] \in Nat
      BY <1>0, WriterTyped
    <3>5. w \notin gap => F = streamer[w].last
      BY <2>9
    <3>6. o \in Seq(AllCommands) /\ streamer[w].last \in Nat
      BY <1>4
    <3> DEFINE C == Coming(w)
               C2 == Coming(w)'
               last == streamer[w].last
               p == pos[w]
    <3>7. C = Following(w, o, gap, last) /\ C2 = Following(w, o \o r.sent, gap', l2)
      BY <3>2, <3>3
    <3>8. p \in Nat /\ last \in Nat /\ (w \notin gap => F = last)
      BY <3>4, <3>5, <3>6
    <3> SUFFICES ASSUME LinkedSeq(ts2, p, C)
                 PROVE  /\ LinkedSeq(ts2, p, C2)
                        /\ C2 # <<>> => \/ C2[1].type = "POSITION"
                                        \/ C # <<>> /\ (C2[1] = C[1] \/ Instead(ts2, C[1], C2[1]))
      BY DEF Goes, ts2
    <3> HIDE DEF C, C2, last, p
    <3> QED
      BY <2>2, <2>6, <3>1, <3>3, <3>6, <3>7, <3>8, ComingSent
  <2> QED
    BY <2>15, <2>16, WriterMovesInv
<1>7. QED
  BY <1>1, <1>5, <1>6

--------------------------------------------------------------------------------
(***************************************************************************)
(* The writers' actions.                                                   *)
(***************************************************************************)

(* A step that writes nothing is a step of any writer. *)
LEMMA SameTokens ==
    ASSUME Struct, NEW w \in Writers, tokens' = tokens
    PROVE  OnlyTokensOf(w)
  BY DEF OnlyTokensOf, Struct, WriterTypes, Extends

(* A write appends to the writer's own tokens. *)
LEMMA WriteTokens ==
    ASSUME Struct, NEW w \in Writers, NEW k \in KindsOf[w],
           tokens' = [tokens EXCEPT ![w] = Append(@, k)]
    PROVE  OnlyTokensOf(w) /\ StreamerOK(streamer[w], tokens'[w])
<1>1. k \in AllKinds
  BY KindsAssumption
<1>2. tokens \in [Writers -> Seq(AllKinds)] /\ tokens[w] \in Seq(AllKinds)
  BY DEF Struct, WriterTypes
<1>3. Append(tokens[w], k) \in Seq(AllKinds) /\ Extends(tokens[w], Append(tokens[w], k))
  BY <1>1, <1>2, ExtendsAppend
<1>4. OnlyTokensOf(w)
  BY <1>2, <1>3 DEF OnlyTokensOf
<1>5. StreamerOK(streamer[w], tokens'[w])
  BY <1>4, WriterTyped, StreamerOKExtends DEF OnlyTokensOf
<1>6. QED
  BY <1>4, <1>5

(* A row is written: the streamer has not seen it yet. *)
LEMMA WriteInv ==
    ASSUME IInv, NEW w \in Writers, NEW k \in KindsOf[w], Write(w, k)
    PROVE  IInv'
<1>0. Struct
  BY DEF IInv
<1>1. OnlyTokensOf(w) /\ StreamerOK(streamer[w], tokens'[w])
  BY <1>0, WriteTokens DEF Write
<1>2. UNCHANGED <<link, reader, queue, faults>> /\ asked' \subseteq Writers
  BY <1>0 DEF Write, Struct, WriterTypes
<1>3. CASE k = "moved"
  <2>1. UNCHANGED <<streamer, out, gap, disturbed>>
    BY <1>3 DEF Write
  <2>2. /\ DOMAIN streamer = Writers /\ out \in [Writers -> Seq(AllCommands)]
        /\ Floor(streamer[w]) \in Nat /\ Len(out[w]) \in Nat
    BY <1>0, WriterTyped DEF Struct, WriterTypes
  <2>3. Floor(streamer[w]) <= Floor(streamer[w]) /\ Len(out[w]) <= Len(out[w])
    BY <2>2
  <2> QED
    BY <1>1, <1>2, <2>1, <2>2, <2>3, WriterSilentInv
<1>4. CASE k # "moved"
  <2> DEFINE r == OnNotifierPoke(w, streamer[w], tokens'[w])
  <2>1. StreamerStep(w, streamer[w], r)
    BY <1>4 DEF Write
  <2>2. tokens'[w] \in Seq(AllKinds)
    BY <1>1 DEF OnlyTokensOf
  <2>3. Outcome(w, tokens'[w], streamer[w], r)
    BY <1>1, <2>2, OnNotifierPokeIs
  <2> HIDE DEF r
  <2> QED
    BY <1>1, <1>2, <2>1, <2>3, StreamerStepInv
<1>5. QED
  BY <1>3, <1>4

(* The notifier wakes the streamer. *)
LEMMA PokeInv ==
    ASSUME IInv, NEW w \in Writers, Poke(w)
    PROVE  IInv'
<1> DEFINE r == OnNotifierPoke(w, streamer[w], tokens[w])
<1>0. Struct
  BY DEF IInv
<1>1. /\ OnlyTokensOf(w) /\ tokens'[w] = tokens[w]
      /\ UNCHANGED <<link, reader, queue, faults>> /\ asked' \subseteq Writers
  BY <1>0, SameTokens DEF Poke, Struct, WriterTypes
<1>2. StreamerStep(w, streamer[w], r)
  BY DEF Poke
<1>3. Outcome(w, tokens[w], streamer[w], r)
  BY <1>0, WriterTyped, OnNotifierPokeIs
<1> HIDE DEF r
<1>4. QED
  BY <1>1, <1>2, <1>3, StreamerStepInv

(* The streamer sends what it read and turns again. *)
LEMMA SendUpdatesInv ==
    ASSUME IInv, NEW w \in Writers, SendUpdates(w)
    PROVE  IInv'
<1> DEFINE s == streamer[w]
           u == Updates(tokens[w], s.from, s.upto)
           t == [s EXCEPT !.last = u.upto, !.pending = @ \/ u.limited]
           r == RunNotifierLoop(w, t, tokens[w])
           q == [state |-> r.state, sent |-> Commands(w, tokens[w], s.from, u.upto) \o r.sent]
<1>0. Struct
  BY DEF IInv
<1>1. /\ OnlyTokensOf(w) /\ tokens'[w] = tokens[w]
      /\ UNCHANGED <<link, reader, queue, faults>> /\ asked' \subseteq Writers
  BY <1>0, SameTokens DEF SendUpdates, Struct, WriterTypes
<1>2. s.looping /\ StreamerStep(w, s, q)
  BY DEF SendUpdates
<1>3. tokens[w] \in Seq(AllKinds) /\ StreamerOK(s, tokens[w])
  BY <1>0, WriterTyped
<1>4. Outcome(w, tokens[w], s, q)
  <2> HIDE DEF s, t, u, r, q
  <2>1. /\ u = Updates(tokens[w], s.from, s.upto)
        /\ t = [s EXCEPT !.last = u.upto, !.pending = @ \/ u.limited]
        /\ r = RunNotifierLoop(w, t, tokens[w])
        /\ q = [state |-> r.state, sent |-> Commands(w, tokens[w], s.from, u.upto) \o r.sent]
    BY DEF t, u, r, q
  <2> QED
    BY <1>2, <1>3, <2>1, SendUpdatesIs
<1> HIDE DEF q
<1>5. QED
  BY <1>1, <1>2, <1>4, StreamerStepInv


(* A REPLICATE asks a writer for its position. *)
LEMMA ReplicateArrivesInv ==
    ASSUME IInv, NEW w \in Writers, ReplicateArrives(w)
    PROVE  IInv'
<1> DEFINE s == [streamer[w] EXCEPT !.announce = TRUE]
           r == OnNotifierPoke(w, s, tokens[w])
<1>0. Struct
  BY DEF IInv
<1>1. /\ OnlyTokensOf(w) /\ tokens' = tokens
      /\ UNCHANGED <<link, reader, queue, faults>> /\ asked' \subseteq Writers
  BY <1>0, SameTokens DEF ReplicateArrives, Struct, WriterTypes
<1>2. StreamerOK(streamer[w], tokens[w]) /\ tokens[w] \in Seq(AllKinds)
  BY <1>0, WriterTyped
<1>3. /\ StreamerOK(s, tokens[w]) /\ s.last = streamer[w].last /\ Floor(s) = Floor(streamer[w])
      /\ s.connected = streamer[w].connected
  <2>1. streamer[w] \in StreamerType
    BY <1>0, WriterTyped
  <2>2. /\ s \in StreamerType /\ s.last = streamer[w].last /\ s.connected = streamer[w].connected
        /\ s.looping = streamer[w].looping /\ s.from = streamer[w].from
        /\ s.upto = streamer[w].upto
    BY <2>1 DEF StreamerType
  <2> QED
    BY <1>2, <2>2 DEF StreamerOK, Floor
<1>4. CASE s.connected
  <2>1. StreamerStep(w, s, r)
    BY <1>4 DEF ReplicateArrives
  <2>2. Outcome(w, tokens[w], s, r)
    <3> HIDE DEF s
    <3> QED
      BY <1>2, <1>3, OnNotifierPokeIs
  <2> HIDE DEF s, r
  <2> QED
    BY <1>1, <1>3, <2>1, <2>2, StreamerStepInv
<1>5. CASE ~s.connected
  <2>1. UNCHANGED <<streamer, out, gap, disturbed>>
    BY <1>5 DEF ReplicateArrives
  <2>2. /\ DOMAIN streamer = Writers /\ out \in [Writers -> Seq(AllCommands)]
        /\ Floor(streamer[w]) \in Nat /\ Len(out[w]) \in Nat
    BY <1>0, WriterTyped DEF Struct, WriterTypes
  <2>3. Floor(streamer[w]) <= Floor(streamer[w]) /\ Len(out[w]) <= Len(out[w])
    BY <2>2
  <2> QED
    BY <1>1, <1>2, <2>1, <2>2, <2>3, WriterSilentInv
<1>6. QED
  BY <1>4, <1>5

(* A writer that connected announces its position. *)
LEMMA GreetedInv ==
    ASSUME IInv, NEW w \in Writers, Greeted(w)
    PROVE  IInv'
<1> DEFINE s == [streamer[w] EXCEPT !.announce = TRUE, !.greeting = FALSE]
           r == OnNotifierPoke(w, s, tokens[w])
<1>0. Struct
  BY DEF IInv
<1>1. /\ OnlyTokensOf(w) /\ tokens' = tokens
      /\ UNCHANGED <<link, reader, queue, faults>> /\ asked' \subseteq Writers
  BY <1>0, SameTokens DEF Greeted, Struct, WriterTypes
<1>2. StreamerOK(streamer[w], tokens[w]) /\ tokens[w] \in Seq(AllKinds)
  BY <1>0, WriterTyped
<1>3. /\ StreamerOK(s, tokens[w]) /\ s.last = streamer[w].last /\ Floor(s) = Floor(streamer[w])
      /\ s.connected = streamer[w].connected
  <2>1. streamer[w] \in StreamerType
    BY <1>0, WriterTyped
  <2>2. /\ s \in StreamerType /\ s.last = streamer[w].last /\ s.connected = streamer[w].connected
        /\ s.looping = streamer[w].looping /\ s.from = streamer[w].from
        /\ s.upto = streamer[w].upto
    BY <2>1 DEF StreamerType
  <2> QED
    BY <1>2, <2>2 DEF StreamerOK, Floor
<1>4. StreamerStep(w, s, r)
  BY DEF Greeted, AnnouncePositions
<1>5. Outcome(w, tokens[w], s, r)
  <2> HIDE DEF s
  <2> QED
    BY <1>2, <1>3, OnNotifierPokeIs
<1> HIDE DEF s, r
<1>6. QED
  BY <1>1, <1>3, <1>4, <1>5, StreamerStepInv

(* Only the streamer of w changes, and not what it has sent so far. *)
LEMMA OnlyStreamerInv ==
    ASSUME IInv, NEW w \in Writers, NEW s, streamer' = [streamer EXCEPT ![w] = s],
           StreamerOK(s, tokens[w]), s.last = streamer[w].last,
           Floor(s) = Floor(streamer[w]) \/ Floor(s) = s.last,
           UNCHANGED <<tokens, out, gap, link, reader, queue, disturbed>>,
           asked' \subseteq Writers, "reader" \in faults => "reader" \in faults'
    PROVE  IInv'
<1>0. Struct
  BY DEF IInv
<1>1. /\ DOMAIN streamer = Writers /\ out \in [Writers -> Seq(AllCommands)]
      /\ Len(out[w]) \in Nat /\ streamer[w].last \in Nat /\ Floor(streamer[w]) \in Nat
      /\ StreamerOK(streamer[w], tokens[w])
      /\ w \notin gap => Floor(streamer[w]) = streamer[w].last
  BY <1>0, WriterTyped DEF Struct, WriterTypes, Ascending
<1>2. /\ DOMAIN streamer' = Writers /\ streamer'[w] = s
      /\ \A v \in Writers \ {w} : streamer'[v] = streamer[v]
  BY <1>1
<1>3. Floor(streamer[w]) <= streamer[w].last
  BY <1>1 DEF Floor, StreamerOK
<1>4. Floor(streamer[w]) <= Floor(s)
  BY <1>1, <1>3
<1>5. w \notin gap' => Floor(s) = Floor(streamer[w])
  BY <1>1
<1>6. OnlyTokensOf(w) /\ Len(out[w]) <= Len(out[w])
  BY <1>0, <1>1, SameTokens
<1>7. StreamerOK(streamer'[w], tokens'[w])
  BY <1>2
<1>8. QED
  BY <1>1, <1>2, <1>4, <1>5, <1>6, <1>7, WriterSilentInv

(* The query for updates fails and the loop ends. *)
LEMMA UpdatesFailInv ==
    ASSUME IInv, NEW w \in Writers, UpdatesFail(w)
    PROVE  IInv'
<1> DEFINE s == [streamer[w] EXCEPT !.looping = FALSE, !.pending = FALSE]
<1>0. Struct
  BY DEF IInv
<1>1. /\ streamer' = [streamer EXCEPT ![w] = s] /\ asked' \subseteq Writers
      /\ UNCHANGED <<tokens, out, gap, link, reader, queue, disturbed>>
      /\ "reader" \in faults => "reader" \in faults'
  BY <1>0 DEF UpdatesFail, Fault, Struct, WriterTypes
<1>2. streamer[w] \in StreamerType /\ StreamerOK(streamer[w], tokens[w])
  BY <1>0, WriterTyped
<1>3. s \in StreamerType /\ s.last = streamer[w].last /\ s.looping = FALSE
  BY <1>2 DEF StreamerType
<1>4. StreamerOK(s, tokens[w]) /\ Floor(s) = s.last
  BY <1>2, <1>3 DEF StreamerOK, Floor
<1> HIDE DEF s
<1>5. QED
  BY <1>1, <1>3, <1>4, OnlyStreamerInv

(* A writer's connection is lost: what it sends from now on goes nowhere. *)
LEMMA WriterLostInv ==
    ASSUME IInv, NEW w \in Writers, WriterLost(w)
    PROVE  IInv'
<1> DEFINE s == [streamer[w] EXCEPT !.connected = FALSE]
<1>0. Struct
  BY DEF IInv
<1>1. /\ streamer' = [streamer EXCEPT ![w] = s] /\ asked' \subseteq Writers
      /\ UNCHANGED <<tokens, out, gap, link, reader, queue, disturbed>>
      /\ "reader" \in faults => "reader" \in faults'
  BY <1>0 DEF WriterLost, Fault, Struct, WriterTypes
<1>2. streamer[w] \in StreamerType /\ StreamerOK(streamer[w], tokens[w])
  BY <1>0, WriterTyped
<1>3. /\ s \in StreamerType /\ s.last = streamer[w].last /\ s.looping = streamer[w].looping
      /\ s.from = streamer[w].from /\ s.upto = streamer[w].upto
  BY <1>2 DEF StreamerType
<1>4. StreamerOK(s, tokens[w]) /\ Floor(s) = Floor(streamer[w])
  BY <1>2, <1>3 DEF StreamerOK, Floor
<1> HIDE DEF s
<1>5. QED
  BY <1>1, <1>3, <1>4, OnlyStreamerInv

(* A writer connects again. *)
LEMMA WriterConnectsInv ==
    ASSUME IInv, NEW w \in Writers, WriterConnects(w)
    PROVE  IInv'
<1> DEFINE s == [streamer[w] EXCEPT !.connected = TRUE, !.greeting = TRUE]
<1>0. Struct
  BY DEF IInv
<1>1. /\ streamer' = [streamer EXCEPT ![w] = s] /\ asked' \subseteq Writers
      /\ UNCHANGED <<tokens, out, gap, link, reader, queue, disturbed>>
      /\ "reader" \in faults => "reader" \in faults'
  BY <1>0 DEF WriterConnects
<1>2. streamer[w] \in StreamerType /\ StreamerOK(streamer[w], tokens[w])
  BY <1>0, WriterTyped
<1>3. /\ s \in StreamerType /\ s.last = streamer[w].last /\ s.looping = streamer[w].looping
      /\ s.from = streamer[w].from /\ s.upto = streamer[w].upto
  BY <1>2 DEF StreamerType
<1>4. StreamerOK(s, tokens[w]) /\ Floor(s) = Floor(streamer[w])
  BY <1>2, <1>3 DEF StreamerOK, Floor
<1> HIDE DEF s
<1>5. QED
  BY <1>1, <1>3, <1>4, OnlyStreamerInv

(* A writer restarts at its newest token; the last it sent may be lost. *)
LEMMA WriterCrashInv ==
    ASSUME IInv, NEW w \in Writers, WriterCrash(w)
    PROVE  IInv'
<1> DEFINE s == [NewStreamer EXCEPT !.last = Len(tokens[w]), !.connected = FALSE]
<1>0. Struct
  BY DEF IInv
<1>1. /\ streamer' = [streamer EXCEPT ![w] = s] /\ asked' \subseteq Writers
      /\ UNCHANGED <<tokens, link, reader, queue, disturbed>> /\ gap' = gap \cup {w}
      /\ "reader" \in faults => "reader" \in faults'
  BY <1>0 DEF WriterCrash, Fault, Struct, WriterTypes
<1>2. PICK n \in 0 .. Len(out[w]) : out' = [out EXCEPT ![w] = SubSeq(@, 1, n)]
  BY DEF WriterCrash
<1>3. /\ DOMAIN streamer = Writers /\ out \in [Writers -> Seq(AllCommands)]
      /\ out[w] \in Seq(AllCommands) /\ tokens[w] \in Seq(AllKinds)
      /\ Len(out[w]) \in Nat /\ Len(tokens[w]) \in Nat
      /\ streamer[w].last \in Nat /\ Floor(streamer[w]) \in Nat
      /\ StreamerOK(streamer[w], tokens[w])
  BY <1>0, WriterTyped DEF Struct, WriterTypes
<1>4. s \in StreamerType /\ s.last = Len(tokens[w]) /\ s.looping = FALSE
  BY <1>3 DEF StreamerType, NewStreamer
<1>5. StreamerOK(s, tokens[w]) /\ Floor(s) = Len(tokens[w])
  BY <1>3, <1>4 DEF StreamerOK, Floor
<1> HIDE DEF s
<1>6. Floor(streamer[w]) <= Floor(s)
  <2>1. Floor(streamer[w]) <= streamer[w].last /\ streamer[w].last <= Len(tokens[w])
    BY <1>3 DEF Floor, StreamerOK
  <2> QED
    BY <1>3, <1>5, <2>1
<1>7. /\ SubSeq(out[w], 1, n) \in Seq(AllCommands) /\ Len(SubSeq(out[w], 1, n)) = n
      /\ \A k \in 1 .. n : SubSeq(out[w], 1, n)[k] = out[w][k]
  BY <1>3, SubSeqProperties
<1>8. /\ out' \in [Writers -> Seq(AllCommands)] /\ Len(out'[w]) <= Len(out[w])
      /\ \A k \in 1 .. Len(out'[w]) : out'[w][k] = out[w][k]
      /\ \A v \in Writers \ {w} : out'[v] = out[v]
  <2>1. out'[w] = SubSeq(out[w], 1, n) /\ \A v \in Writers \ {w} : out'[v] = out[v]
    BY <1>2, <1>3
  <2>2. n <= Len(out[w])
    BY <1>3
  <2> QED
    BY <1>2, <1>3, <1>7, <2>1, <2>2
<1>9. /\ DOMAIN streamer' = Writers /\ streamer'[w] = s
      /\ \A v \in Writers \ {w} : streamer'[v] = streamer[v]
  BY <1>1, <1>3
<1>10. OnlyTokensOf(w)
  BY <1>0, <1>1, SameTokens
<1>11. StreamerOK(streamer'[w], tokens'[w]) /\ Floor(streamer[w]) <= Floor(streamer'[w])
  BY <1>1, <1>5, <1>6, <1>9
<1>12. QED
  BY <1>1, <1>8, <1>9, <1>10, <1>11, WriterSilentInv

--------------------------------------------------------------------------------
(***************************************************************************)
(* The reader.                                                             *)
(***************************************************************************)

(* A command is added to the queue. *)
LEMMA AscendingAppend ==
    ASSUME NEW q \in Queues(AllCommands), NEW e \in [cmd : AllCommands, conn : Nat],
           NEW q2, q2 = Append(q, e), NEW v, NEW K
    PROVE  /\ \A t : Behind(v, q, K, t) /\ (e.cmd.writer = v => TokenOf(e.cmd) <= t)
                        => Behind(v, q2, K, t)
           /\ AscendingQueue(v, q, K) /\ (e.cmd.writer = v => Behind(v, q, K, TokenOf(e.cmd)))
                        => AscendingQueue(v, q2, K)
<1> DEFINE n == Len(q)
<1>1. q \in Seq([cmd : AllCommands, conn : Nat])
  BY DEF Queues
<1>2. /\ n \in Nat /\ DOMAIN q = 1 .. n /\ DOMAIN q2 = 1 .. (n + 1)
      /\ \A k \in 1 .. n : q2[k] = q[k]
      /\ q2[n + 1] = e
  BY <1>1, AppendIs
<1> HIDE DEF n
<1>3. \A k \in 1 .. (n + 1) : k \in 1 .. n \/ k = n + 1
  BY <1>2
<1>4. TokenOf(e.cmd) \in Nat /\ TokenOf(e.cmd) <= TokenOf(e.cmd)
  <2>1. TokenOf(e.cmd) \in Nat
    BY CommandFields
  <2> QED
    BY <2>1
<1>5. ASSUME NEW t, Behind(v, q, K, t), e.cmd.writer = v => TokenOf(e.cmd) <= t
      PROVE  Behind(v, q2, K, t)
  BY <1>2, <1>3, <1>5 DEF Behind
<1>6. ASSUME AscendingQueue(v, q, K), e.cmd.writer = v => Behind(v, q, K, TokenOf(e.cmd))
      PROVE  AscendingQueue(v, q2, K)
  <2> SUFFICES ASSUME NEW k \in 1 .. (n + 1), q2[k].cmd.writer = v
               PROVE  /\ \A r \in K : r[1] = v => r[2] <= TokenOf(q2[k].cmd)
                      /\ \A j \in 1 .. (n + 1) : j <= k /\ q2[j].cmd.writer = v
                                => TokenOf(q2[j].cmd) <= TokenOf(q2[k].cmd)
    BY <1>2 DEF AscendingQueue
  <2>1. CASE k \in 1 .. n
    <3>1. \A j \in 1 .. (n + 1) : j <= k => j \in 1 .. n
      BY <1>2, <2>1
    <3> QED
      BY <1>2, <1>6, <2>1, <3>1 DEF AscendingQueue
  <2>2. CASE k = n + 1
    <3>1. q2[k] = e /\ Behind(v, q, K, TokenOf(e.cmd))
      BY <1>2, <1>6, <2>2
    <3> QED
      BY <1>2, <1>3, <1>4, <3>1 DEF Behind
  <2> QED
    BY <1>3, <2>1, <2>2
<1>7. QED
  BY <1>5, <1>6

(* The head of the queue is taken, and its row may be kept. *)
LEMMA AscendingTail ==
    ASSUME NEW q \in Queues(AllCommands), q # <<>>, NEW q2, q2 = Tail(q), NEW v, NEW K, NEW K2,
           \A r \in K2 : r[1] = v =>
                r \in K \/ (q[1].cmd.writer = v /\ r[2] = TokenOf(q[1].cmd))
    PROVE  /\ \A t : Behind(v, q, K, t) => Behind(v, q2, K2, t)
           /\ AscendingQueue(v, q, K) => AscendingQueue(v, q2, K2)
<1> DEFINE n == Len(q2)
<1>1. q \in Seq([cmd : AllCommands, conn : Nat])
  BY DEF Queues
<1>2. /\ n \in Nat /\ DOMAIN q = 1 .. (n + 1) /\ DOMAIN q2 = 1 .. n
      /\ \A k \in 1 .. n : k + 1 \in 1 .. (n + 1) /\ q2[k] = q[k + 1]
  <2>1. /\ q2 \in Seq([cmd : AllCommands, conn : Nat])
        /\ n = Len(q) - 1 /\ Len(q) \in Nat /\ Len(q) > 0
        /\ \A k \in 1 .. n : k + 1 \in 1 .. Len(q) /\ q2[k] = q[k + 1]
    BY <1>1, TailIs
  <2>2. DOMAIN q = 1 .. Len(q) /\ DOMAIN q2 = 1 .. n
    BY <1>1, <2>1
  <2>3. Len(q) = n + 1 /\ n \in Nat
    BY <2>1
  <2> HIDE DEF n
  <2> QED
    BY <2>1, <2>2, <2>3
<1> HIDE DEF n
<1>3. 1 \in 1 .. (n + 1)
  BY <1>2
<1>4. ASSUME NEW t, Behind(v, q, K, t)
      PROVE  Behind(v, q2, K2, t)
  BY <1>2, <1>3, <1>4 DEF Behind
<1>5. ASSUME AscendingQueue(v, q, K)
      PROVE  AscendingQueue(v, q2, K2)
  <2> SUFFICES ASSUME NEW k \in 1 .. n, q2[k].cmd.writer = v
               PROVE  /\ \A r \in K2 : r[1] = v => r[2] <= TokenOf(q2[k].cmd)
                      /\ \A j \in 1 .. n : j <= k /\ q2[j].cmd.writer = v
                                => TokenOf(q2[j].cmd) <= TokenOf(q2[k].cmd)
    BY <1>2 DEF AscendingQueue
  <2>1. k + 1 \in 1 .. (n + 1) /\ q2[k] = q[k + 1] /\ 1 <= k + 1
    BY <1>2
  <2>2. /\ \A r \in K : r[1] = v => r[2] <= TokenOf(q[k + 1].cmd)
        /\ \A j \in 1 .. (n + 1) : j <= k + 1 /\ q[j].cmd.writer = v
                => TokenOf(q[j].cmd) <= TokenOf(q[k + 1].cmd)
    BY <1>2, <1>5, <2>1 DEF AscendingQueue
  <2>3. \A r \in K2 : r[1] = v => r[2] <= TokenOf(q2[k].cmd)
    BY <1>3, <2>1, <2>2
  <2>4. ASSUME NEW j \in 1 .. n, j <= k, q2[j].cmd.writer = v
        PROVE  TokenOf(q2[j].cmd) <= TokenOf(q2[k].cmd)
    <3>1. j + 1 \in 1 .. (n + 1) /\ q2[j] = q[j + 1]
      BY <1>2
    <3>2. j + 1 <= k + 1
      BY <1>2, <2>4
    <3> QED
      BY <2>1, <2>2, <2>4, <3>1, <3>2
  <2> QED
    BY <2>3, <2>4
<1>6. QED
  BY <1>4, <1>5

(* Only the rows of w that are kept matter for w. *)
LEMMA ReadyKept ==
    ASSUME NEW w, NEW ts, NEW X, NEW K, NEW K2, NEW b,
           \A r : r[1] = w => (r \in K <=> r \in K2), Ready(w, ts, X, K, b)
    PROVE  Ready(w, ts, X, K2, b)
<1> SUFFICES ASSUME b.type = "RDATA"
             PROVE  \E x \in X :
                        /\ NoneBetween(ts, x, b.row[2])
                        /\ \A r \in K2 : r[1] = w =>
                                r[2] <= x \/ (b.row[3] = 2 /\ r = <<w, b.row[2], 1>>)
                        /\ b.row[3] = 2 => b.row[2] <= x \/ <<w, b.row[2], 1>> \in K2
  BY DEF Ready
<1>1. PICK x \in X :
            /\ NoneBetween(ts, x, b.row[2])
            /\ \A r \in K : r[1] = w =>
                    r[2] <= x \/ (b.row[3] = 2 /\ r = <<w, b.row[2], 1>>)
            /\ b.row[3] = 2 => b.row[2] <= x \/ <<w, b.row[2], 1>> \in K
  BY DEF Ready
<1>2. <<w, b.row[2], 1>>[1] = w
  OBVIOUS
<1>3. <<w, b.row[2], 1>> \in K => <<w, b.row[2], 1>> \in K2
  BY <1>2
<1>4. QED
  BY <1>1, <1>3

(* With nothing kept, a reader that is further on may take the command too. *)
LEMMA ReadyFurther ==
    ASSUME NEW w, NEW ts, NEW X \in SUBSET Nat, NEW X2 \in SUBSET Nat,
           \A x \in X : \E x2 \in X2 : x <= x2,
           NEW b \in AllCommands, Ready(w, ts, X, {}, b)
    PROVE  Ready(w, ts, X2, {}, b)
<1> SUFFICES ASSUME b.type = "RDATA"
             PROVE  \E x2 \in X2 : /\ NoneBetween(ts, x2, b.row[2])
                                   /\ b.row[3] = 2 => b.row[2] <= x2
  BY DEF Ready
<1>1. PICK x \in X : NoneBetween(ts, x, b.row[2]) /\ (b.row[3] = 2 => b.row[2] <= x)
  BY DEF Ready
<1>2. PICK x2 \in X2 : x <= x2
  BY <1>1
<1>3. b.row[2] \in Nat
  BY CommandFields
<1>4. NoneBetween(ts, x2, b.row[2])
  BY <1>1, <1>2, <1>3, NoneBetweenFrom
<1>5. QED
  BY <1>1, <1>2, <1>3, <1>4

(* The reader does not follow the writer on any connection. *)
LEMMA ContigUnsynced ==
    ASSUME NEW q, NEW C, NEW w, NEW c, NEW ts, NEW p, NEW X, NEW K, NEW Y, NEW X2, NEW K2,
           NEW on \in BOOLEAN, Contig(w, ts, p, X, K, q, Y, c, on, C)
    PROVE  Contig(w, ts, p, X2, K2, q, {}, c, on, C)
  BY DEF Contig, ReadyQueue

(* The rows up to t are those up to p and those between. *)
LEMMA RowsJoin ==
    ASSUME NEW w, NEW ts, NEW p \in Nat, NEW t \in Nat, p <= t
    PROVE  RowsBetween(w, ts, 0, t) = RowsBetween(w, ts, 0, p) \cup RowsBetween(w, ts, p, t)
<1>1. \A u : u \in (0 + 1) .. t <=> u \in (0 + 1) .. p \/ u \in (p + 1) .. t
  OBVIOUS
<1>2. QED
  BY <1>1 DEF RowsBetween

(* Without own tokens between two positions there are no rows. *)
LEMMA RowsNone ==
    ASSUME NEW w, NEW ts, NEW p \in Nat, NEW t \in Nat, NoneBetween(ts, p, t + 1)
    PROVE  RowsBetween(w, ts, p, t) = {}
<1>1. \A u \in (p + 1) .. t : u \in (p + 1) .. (t + 1 - 1)
  OBVIOUS
<1>2. \A u \in (p + 1) .. t : RowsOf(ts[u]) = 0
  BY <1>1 DEF NoneBetween
<1>3. \A u \in (p + 1) .. t : RowsAt(w, ts, u) = {}
  BY <1>2 DEF RowsAt
<1>4. QED
  BY <1>3 DEF RowsBetween

(* Up to the first own token there are only the rows of that token. *)
LEMMA RowsOne ==
    ASSUME NEW w, NEW ts, NEW p \in Nat, NEW t \in Nat, p < t, NoneBetween(ts, p, t)
    PROVE  RowsBetween(w, ts, p, t) = RowsAt(w, ts, t)
<1>1. \A u \in (p + 1) .. t : u \in (p + 1) .. (t - 1) \/ u = t
  OBVIOUS
<1>2. \A u \in (p + 1) .. (t - 1) : RowsOf(ts[u]) = 0
  BY DEF NoneBetween
<1>3. \A u \in (p + 1) .. (t - 1) : RowsAt(w, ts, u) = {}
  BY <1>2 DEF RowsAt
<1>4. t \in (p + 1) .. t
  OBVIOUS
<1>5. QED
  BY <1>1, <1>3, <1>4 DEF RowsBetween

(* The next command of w is queued, or it is not. *)
LEMMA ReceiveIs ==
    ASSUME Struct, NEW w \in Writers, Receive(w)
    PROVE  /\ out[w] # <<>> /\ out[w][1] \in AllCommands /\ IsCommand(out[w][1], w, tokens[w])
           /\ out[w][1].writer = w /\ TokenOf(out[w][1]) \in Nat
           /\ conn \in Nat /\ [cmd |-> out[w][1], conn |-> conn] \in [cmd : AllCommands, conn : Nat]
           /\ out' = [out EXCEPT ![w] = Tail(out[w])]
           /\ UNCHANGED <<tokens, streamer, asked, gap, online, conn, pos, connected, batch, fetch,
                          handled, disturbed, faults>>
           /\ Kept' = Kept
           /\ \/ /\ queue' = Append(queue, [cmd |-> out[w][1], conn |-> conn]) /\ online
                 /\ UNCHANGED <<positioned, stranded>>
              \/ /\ queue' = queue /\ ~online /\ UNCHANGED <<positioned, stranded>>
              \/ /\ queue' = queue /\ online /\ out[w][1].type = "POSITION"
                 /\ out[w][1].new <= pos[w] /\ conn \in connected
                 /\ positioned' = positioned \cup {<<conn, w>>} /\ stranded' = stranded \ {w}
<1>1. out[w] \in Seq(AllCommands) /\ out[w] # <<>> /\ Head(out[w]) = out[w][1]
  BY WriterTyped DEF Receive
<1>2. 1 \in DOMAIN out[w] /\ out[w][1] \in AllCommands
  BY <1>1
<1>3. IsCommand(out[w][1], w, tokens[w])
  BY <1>2, WriterTyped
<1>4. out[w][1].writer = w
  BY <1>3 DEF IsCommand, IsPosition, IsRdata
<1>5. TokenOf(out[w][1]) \in Nat
  BY <1>2, CommandFields
<1>6. conn \in Nat
  BY DEF Struct, Connections
<1>7. /\ UNCHANGED <<tokens, streamer, asked, gap, online, conn, pos, connected, batch, fetch,
                     handled, disturbed, faults>>
      /\ out' = [out EXCEPT ![w] = Tail(out[w])]
  BY DEF Receive, link
<1>8. Kept' = Kept
  BY <1>7 DEF Kept
<1> DEFINE dropped == out[w][1].type = "POSITION" /\ out[w][1].new <= pos[w] /\ conn \in connected
<1>9. /\ queue' = IF online /\ ~dropped
                  THEN Append(queue, [cmd |-> out[w][1], conn |-> conn]) ELSE queue
      /\ IF online /\ dropped
         THEN positioned' = positioned \cup {<<conn, w>>} /\ stranded' = stranded \ {w}
         ELSE UNCHANGED <<positioned, stranded>>
  BY <1>1, <1>4 DEF Receive, CanDiscardPosition, Positioned
<1>10. \/ /\ queue' = Append(queue, [cmd |-> out[w][1], conn |-> conn]) /\ online
          /\ UNCHANGED <<positioned, stranded>>
       \/ /\ queue' = queue /\ ~online /\ UNCHANGED <<positioned, stranded>>
       \/ /\ queue' = queue /\ online /\ out[w][1].type = "POSITION"
          /\ out[w][1].new <= pos[w] /\ conn \in connected
          /\ positioned' = positioned \cup {<<conn, w>>} /\ stranded' = stranded \ {w}
  <2>1. CASE online /\ ~dropped
    BY <1>9, <2>1
  <2>2. CASE ~online
    BY <1>9, <2>2
  <2>3. CASE online /\ dropped
    BY <1>9, <2>3
  <2> QED
    BY <2>1, <2>2, <2>3
<1>11. QED
  BY <1>1, <1>2, <1>3, <1>4, <1>5, <1>6, <1>7, <1>8, <1>10

(* A command received keeps the structural invariant. *)
LEMMA ReceiveStruct ==
    ASSUME Struct, NEW w \in Writers, Receive(w)
    PROVE  Struct'
<1> DEFINE cmd == out[w][1]
           e == [cmd |-> cmd, conn |-> conn]
           o2 == Tail(out[w])
<1>1. /\ cmd \in AllCommands /\ IsCommand(cmd, w, tokens[w]) /\ cmd.writer = w
      /\ TokenOf(cmd) \in Nat /\ e \in [cmd : AllCommands, conn : Nat]
      /\ out' = [out EXCEPT ![w] = o2] /\ conn \in Nat
      /\ UNCHANGED <<tokens, streamer, asked, gap, online, conn, pos, connected, batch, fetch,
                     disturbed, faults>>
      /\ Kept' = Kept
  BY ReceiveIs
<1>2. \/ queue' = Append(queue, e) /\ UNCHANGED <<positioned, stranded>>
      \/ queue' = queue /\ UNCHANGED <<positioned, stranded>>
      \/ /\ queue' = queue /\ conn \in connected
         /\ positioned' = positioned \cup {<<conn, w>>} /\ stranded' = stranded \ {w}
  BY ReceiveIs
<1>3. /\ o2 \in Seq(AllCommands) /\ Len(o2) \in Nat /\ Len(out[w]) \in Nat
      /\ DOMAIN o2 = 1 .. Len(o2) /\ DOMAIN out[w] = 1 .. Len(out[w])
      /\ \A k \in 1 .. Len(o2) : k + 1 \in 1 .. Len(out[w]) /\ o2[k] = out[w][k + 1]
      /\ 1 \in 1 .. Len(out[w])
  <2>1. out[w] # <<>> /\ out[w] \in Seq(AllCommands)
    BY ReceiveIs, WriterTyped
  <2> QED
    BY <2>1, TailIs
<1>4. /\ out' \in [Writers -> Seq(AllCommands)] /\ out'[w] = o2
      /\ \A v \in Writers \ {w} : out'[v] = out[v]
  BY <1>1, <1>3 DEF Struct, WriterTypes
<1> HIDE DEF cmd, e, o2
<1>5. WriterTypes'
  <2>1. \A v \in Writers : \A k \in DOMAIN out'[v] : IsCommand(out'[v][k], v, tokens[v])
    <3>1. \A v \in Writers : \A k \in DOMAIN out[v] : IsCommand(out[v][k], v, tokens[v])
      BY DEF Struct, WriterTypes
    <3> QED
      BY <1>3, <1>4, <3>1
  <2> QED
    BY <1>1, <1>4, <2>1 DEF Struct, WriterTypes
<1>6. queue \in Queues(AllCommands) /\ queue \in Seq([cmd : AllCommands, conn : Nat])
  BY QueueTypes DEF Struct, ReaderTypes
<1> DEFINE n == Len(queue)
<1>7. /\ n \in Nat /\ DOMAIN queue = 1 .. n
      /\ queue' = Append(queue, e) =>
            /\ queue' \in Seq([cmd : AllCommands, conn : Nat])
            /\ DOMAIN queue' = 1 .. (n + 1)
            /\ \A k \in 1 .. n : queue'[k] = queue[k]
            /\ queue'[n + 1] = e
  <2>1. n \in Nat /\ DOMAIN queue = 1 .. n
    BY <1>6
  <2>2. ASSUME NEW q2, q2 = Append(queue, e)
        PROVE  /\ q2 \in Seq([cmd : AllCommands, conn : Nat]) /\ DOMAIN q2 = 1 .. (n + 1)
               /\ \A k \in 1 .. n : q2[k] = queue[k]
               /\ q2[n + 1] = e
    BY <1>1, <1>6, <2>2, AppendIs
  <2> QED
    BY <2>1, <2>2
<1> HIDE DEF n
<1>8. e.cmd = cmd /\ e.conn = conn
  BY DEF e
<1>9. /\ queue' \in Seq([cmd : AllCommands, conn : Nat])
      /\ \A k \in DOMAIN queue' : (k \in DOMAIN queue /\ queue'[k] = queue[k])
                                    \/ (k = n + 1 /\ queue'[k] = e)
      /\ \A k \in DOMAIN queue' : k \in Nat
      /\ \A k \in DOMAIN queue : k <= n /\ k \in Nat
  <2>1. \A k \in 1 .. (n + 1) : k \in 1 .. n \/ k = n + 1
    BY <1>7
  <2> QED
    BY <1>2, <1>6, <1>7, <2>1
<1>10. ReaderTypes'
  <2>1. \A k \in DOMAIN queue' :
            IsCommand(queue'[k].cmd, queue'[k].cmd.writer, tokens[queue'[k].cmd.writer])
    BY <1>1, <1>8, <1>9 DEF Struct, ReaderTypes
  <2>2. \A f \in fetch : FetchOK(f)' <=> FetchOK(f)
    BY <1>1 DEF FetchOK
  <2>3. stranded' \subseteq Writers
    BY <1>2 DEF Struct, ReaderTypes
  <2> QED
    BY <1>1, <1>9, <2>1, <2>2, <2>3 DEF Struct, ReaderTypes
<1>11. Connections'
  <2>1. \A c : Live(c)' => Live(c)
    BY <1>1, <1>8, <1>9 DEF Live
  <2>2. /\ conn \in 1 .. conn /\ \A c \in 1 .. conn : c <= conn
    BY DEF Struct, Connections
  <2>3. /\ connected \subseteq 1 .. conn
        /\ \A f \in fetch : f.conn \in 1 .. conn
        /\ \A k \in DOMAIN queue : queue[k].conn \in 1 .. conn
    BY DEF Struct, Connections, ReaderTypes, FetchOK
  <2>4. positioned' \subseteq (1 .. conn) \X Writers
    BY <1>2, <2>2 DEF Struct, Connections
  <2>5. \A k \in DOMAIN queue' : queue'[k].conn \in 1 .. conn
    BY <1>8, <1>9, <2>2, <2>3
  <2>6. ASSUME NEW j \in DOMAIN queue', NEW k \in DOMAIN queue', j <= k
        PROVE  queue'[j].conn <= queue'[k].conn
    <3>1. CASE k \in DOMAIN queue /\ queue'[k] = queue[k]
      <4>1. j # n + 1
        BY <1>7, <1>9, <2>6, <3>1
      <4> QED
        BY <1>9, <2>6, <3>1, <4>1 DEF Struct, Connections
    <3>2. CASE queue'[k] = e
      BY <1>8, <2>2, <2>5, <3>2
    <3> QED
      BY <1>9, <3>1, <3>2
  <2>7. \A c \in connected : \A k \in DOMAIN queue' : c <= queue'[k].conn
    <3>1. \A c \in connected : \A k \in DOMAIN queue : c <= queue[k].conn
      BY DEF Struct, Connections
    <3>2. \A c \in connected : c <= conn
      BY <2>2, <2>3
    <3> QED
      BY <1>8, <1>9, <3>1, <3>2
  <2>8. \A f \in fetch : \A k \in DOMAIN queue' : f.conn <= queue'[k].conn
    <3>1. \A f \in fetch : \A k \in DOMAIN queue : f.conn <= queue[k].conn
      BY DEF Struct, Connections
    <3>2. \A f \in fetch : f.conn <= conn
      BY <2>2, <2>3
    <3> QED
      BY <1>8, <1>9, <3>1, <3>2
  <2>9. \A z \in positioned' : Live(z[1])' =>
            z[1] \in connected \/ \E f \in fetch : f.conn = z[1]
    <3>1. \A z \in positioned : Live(z[1]) =>
                z[1] \in connected \/ \E f \in fetch : f.conn = z[1]
      BY DEF Struct, Connections
    <3>2. \A z \in positioned' : z \in positioned \/ (z = <<conn, w>> /\ conn \in connected)
      BY <1>2
    <3> QED
      BY <2>1, <3>1, <3>2
  <2>10. /\ online \in BOOLEAN /\ conn \in 1 .. 2 /\ connected \subseteq 1 .. conn
         /\ ~online => conn = 1
         /\ ~online \/ conn = 2 => "reader" \in faults
         /\ fetch # {} => connected = {} /\ batch = <<>>
    BY DEF Struct, Connections
  <2> QED
    BY <1>1, <2>4, <2>5, <2>6, <2>7, <2>8, <2>9, <2>10 DEF Connections
<1>12. Ascending'
  <2> SUFFICES ASSUME NEW v \in Writers
               PROVE  /\ AscendingOut(out'[v], Floor(streamer[v]))
                      /\ Behind(v, queue', Kept, Floor(streamer[v]))
                      /\ \A k \in DOMAIN out'[v] : Behind(v, queue', Kept, TokenOf(out'[v][k]))
                      /\ AscendingQueue(v, queue', Kept)
                      /\ v \notin gap => Floor(streamer[v]) = streamer[v].last
    BY <1>1 DEF Ascending
  <2>1. /\ AscendingOut(out[v], Floor(streamer[v]))
        /\ Behind(v, queue, Kept, Floor(streamer[v]))
        /\ \A k \in DOMAIN out[v] : Behind(v, queue, Kept, TokenOf(out[v][k]))
        /\ AscendingQueue(v, queue, Kept)
        /\ v \notin gap => Floor(streamer[v]) = streamer[v].last
    BY DEF Struct, Ascending
  <2>2. AscendingOut(out'[v], Floor(streamer[v]))
    <3>1. CASE v # w
      BY <1>4, <2>1, <3>1
    <3>2. CASE v = w
      <4>1. \A j, k \in 1 .. Len(o2) : j <= k => j + 1 <= k + 1
        BY <1>3
      <4>2. \A k \in 1 .. Len(out[w]) :
                /\ TokenOf(out[w][k]) <= Floor(streamer[w])
                /\ \A j \in 1 .. Len(out[w]) : j <= k => TokenOf(out[w][j]) <= TokenOf(out[w][k])
        BY <1>3, <2>1, <3>2 DEF AscendingOut
      <4>3. ASSUME NEW k \in 1 .. Len(o2)
            PROVE  /\ TokenOf(o2[k]) <= Floor(streamer[w])
                   /\ \A j \in 1 .. Len(o2) : j <= k => TokenOf(o2[j]) <= TokenOf(o2[k])
        BY <1>3, <4>1, <4>2
      <4>4. AscendingOut(o2, Floor(streamer[w]))
        BY <1>3, <4>3 DEF AscendingOut
      <4> QED
        BY <1>4, <3>2, <4>4
    <3> QED
      BY <3>1, <3>2
  <2>3. \A k \in DOMAIN out'[v] : Behind(v, queue, Kept, TokenOf(out'[v][k]))
    BY <1>3, <1>4, <2>1
  <2>4. /\ v = w => TokenOf(cmd) <= Floor(streamer[v])
        /\ v = w => \A k \in DOMAIN out'[v] : TokenOf(cmd) <= TokenOf(out'[v][k])
    <3> SUFFICES ASSUME v = w
                 PROVE  /\ TokenOf(cmd) <= Floor(streamer[v])
                        /\ \A k \in DOMAIN out'[v] : TokenOf(cmd) <= TokenOf(out'[v][k])
      OBVIOUS
    <3>1. \A k \in 1 .. Len(o2) : 1 <= k + 1
      BY <1>3
    <3> QED
      BY <1>3, <1>4, <2>1, <3>1 DEF AscendingOut, cmd
  <2>5. v = w => Behind(v, queue, Kept, TokenOf(cmd))
    BY <1>3, <2>1 DEF cmd
  <2>6. CASE queue' = Append(queue, e)
    <3> DEFINE K == Kept
               q2 == queue'
    <3>1. \A t : Behind(v, queue, K, t) /\ (v = w => TokenOf(cmd) <= t) => Behind(v, q2, K, t)
      <4> HIDE DEF K
      <4> QED
        BY <1>1, <1>6, <1>8, <2>6, AscendingAppend
    <3>2. AscendingQueue(v, queue, K) /\ (v = w => Behind(v, queue, K, TokenOf(cmd)))
                => AscendingQueue(v, q2, K)
      <4> HIDE DEF K
      <4> QED
        BY <1>1, <1>6, <1>8, <2>6, AscendingAppend
    <3> QED
      BY <2>1, <2>2, <2>3, <2>4, <2>5, <3>1, <3>2
  <2>7. CASE queue' = queue
    BY <2>1, <2>2, <2>3, <2>7
  <2> QED
    BY <1>2, <2>6, <2>7
<1>13. QED
  BY <1>5, <1>10, <1>11, <1>12 DEF Struct

(* Following, after the first command has arrived. *)
LEMMA FollowingTail ==
    ASSUME NEW w \in Writers, NEW o \in Seq(AllCommands), o # <<>>, NEW g, NEW last \in Nat
    PROVE  /\ Following(w, o, g, last) \in Seq(AllCommands) /\ Following(w, o, g, last) # <<>>
           /\ Following(w, o, g, last)[1] = o[1]
           /\ Following(w, Tail(o), g, last) = Tail(Following(w, o, g, last))
<1> DEFINE e == IF w \in g THEN <<>> ELSE <<NextRow(w, last)>>
           C == o \o e
<1>1. /\ C \in Seq(AllCommands)
      /\ \A k \in 1 .. Len(o) : C[k] = o[k]
      /\ w \in g => Len(C) = Len(o)
      /\ w \notin g => Len(C) = Len(o) + 1
  <2>1. C = Following(w, o, g, last)
    BY DEF Following
  <2> HIDE DEF C
  <2> QED
    BY <2>1, FollowingIs
<1>2. Len(o) \in Nat /\ Len(o) > 0 /\ 1 \in 1 .. Len(o)
  OBVIOUS
<1>3. C # <<>> /\ C[1] = o[1]
  BY <1>1, <1>2
<1>4. e \in Seq(AllCommands)
  <2>1. NextRow(w, last) \in AllCommands
    <3>1. last + 1 \in Nat /\ 0 \in Nat /\ 1 \in {1, 2}
      OBVIOUS
    <3> QED
      BY <3>1 DEF NextRow, AllCommands, None
  <2> DEFINE b == NextRow(w, last)
  <2> HIDE DEF b
  <2>2. <<b>> \in Seq(AllCommands) /\ <<>> \in Seq(AllCommands)
    BY <2>1 DEF b
  <2> QED
    BY <2>2 DEF b
<1> HIDE DEF e
<1>5. Tail(o) \o e = Tail(o \o e)
  BY <1>2, <1>4
<1>6. QED
  BY <1>1, <1>3, <1>5 DEF Following, e, C

(* A command arrives and is queued, unless it is old or the reader is offline. *)
LEMMA ReceiveInv ==
    ASSUME IInv, NEW w \in Writers, Receive(w)
    PROVE  IInv'
<1> DEFINE cmd == out[w][1]
           e == [cmd |-> cmd, conn |-> conn]
<1>0. Struct
  BY DEF IInv
<1>1. Struct'
  BY <1>0, ReceiveStruct
<1>2. /\ out[w] # <<>> /\ cmd \in AllCommands /\ cmd.writer = w
      /\ conn \in Nat /\ e \in [cmd : AllCommands, conn : Nat]
      /\ out' = [out EXCEPT ![w] = Tail(out[w])]
      /\ UNCHANGED <<tokens, streamer, gap, online, conn, pos, batch, fetch, handled, disturbed>>
      /\ Kept' = Kept
  BY <1>0, ReceiveIs
<1>3. \/ queue' = Append(queue, e) /\ online /\ UNCHANGED <<positioned, stranded>>
      \/ queue' = queue /\ ~online /\ UNCHANGED <<positioned, stranded>>
      \/ /\ queue' = queue /\ online /\ cmd.type = "POSITION"
         /\ cmd.new <= pos[w] /\ conn \in connected
         /\ positioned' = positioned \cup {<<conn, w>>} /\ stranded' = stranded \ {w}
  BY <1>0, ReceiveIs
<1> SUFFICES ASSUME disturbed' = {}
             PROVE  OneBatch' /\ Rows!Complete' /\ \A v \in Writers : Contiguous(v)'
  BY <1>1 DEF IInv, Safe
<1>4. OneBatch /\ Rows!Complete /\ \A v \in Writers : Contiguous(v)
  BY <1>2 DEF IInv, Safe
<1>5. OneBatch'
  BY <1>2, <1>4 DEF OneBatch
<1>6. Rows!Complete'
  BY <1>2, <1>4, CompleteIs, CompleteNextIs
<1>7. ASSUME NEW v \in Writers PROVE Contiguous(v)'
  <2> DEFINE ts == tokens[v]
             p == pos[v]
             X == Reached(v)
             K == Kept
             Y == SyncedOn(v)
             Y2 == SyncedOn(v)'
             C == Coming(v)
             C2 == Coming(v)'
             q2 == queue'
  <2>1. Reached(v)' = X
    BY <1>2 DEF Reached
  <2> SUFFICES Contig(v, ts, p, X, K, q2, Y2, conn, online, C2)
    BY <1>2, <2>1 DEF Contiguous
  <2>2. Contig(v, ts, p, X, K, queue, Y, conn, online, C)
    BY <1>4 DEF Contiguous
  <2>3. /\ queue \in Queues(AllCommands) /\ C \in Seq(AllCommands) /\ p \in Nat
        /\ p \in X /\ online \in BOOLEAN /\ \A r \in K : r[2] \in Nat
    BY <1>0, QueueTypes, WriterTyped, ReachedType DEF Struct, Connections
  <2>4. UNCHANGED <<positioned, stranded>> => Y2 = Y
    BY <1>2 DEF SyncedOn, Synced
  <2>5. positioned' = positioned \cup {<<conn, w>>} =>
            (v # w => Y2 = Y) /\ Y2 \subseteq Y \cup {conn}
    BY <1>2 DEF SyncedOn, Synced
  <2>6. CASE v # w
    <3>1. C2 = C
      <4>1. out'[v] = out[v]
        BY <1>0, <1>2, <2>6 DEF Struct, WriterTypes
      <4> QED
        BY <1>2, <4>1 DEF Coming
    <3>2. Y2 = Y
      BY <1>3, <2>4, <2>5, <2>6
    <3>3. Contig(v, ts, p, X, K, q2, Y, conn, online, C)
      <4> HIDE DEF ts, p, X, K, Y, C
      <4>1. CASE queue' = Append(queue, e)
        <5>1. e.cmd.writer # v
          BY <1>2, <2>6
        <5>2. e \in Entries /\ q2 = Queued(queue, e)
          BY <1>2, <4>1 DEF Entries, Queued
        <5>3. queue \in Queues(AllCommands) /\ C \in Seq(AllCommands) /\ online \in BOOLEAN
          BY <2>3
        <5> HIDE DEF e, q2
        <5> QED
          BY <2>2, <5>1, <5>2, <5>3, ContigArrivesOther
      <4>2. CASE queue' = queue
        BY <2>2, <4>2
      <4> QED
        BY <1>3, <4>1, <4>2
    <3> QED
      BY <3>1, <3>2, <3>3
  <2>7. CASE v = w
    <3>1. C # <<>> /\ C[1] = cmd /\ C2 = Tail(C)
      <4>1. out[w] \in Seq(AllCommands) /\ streamer[w].last \in Nat
        BY <1>0, WriterTyped
      <4>2. C = Following(w, out[w], gap, streamer[w].last)
        BY <2>7 DEF Coming
      <4>3. out'[w] = Tail(out[w])
        BY <1>0, <1>2 DEF Struct, WriterTypes
      <4>4. C2 = Following(w, Tail(out[w]), gap, streamer[w].last)
        BY <1>2, <2>7, <4>3 DEF Coming
      <4> QED
        BY <1>2, <4>1, <4>2, <4>4, FollowingTail
    <3>2. e.cmd = cmd /\ e.conn = conn
      OBVIOUS
    <3>3. Behind(v, queue, K, TokenOf(cmd)) /\ (cmd.type = "POSITION" => TokenOf(cmd) = cmd.new)
      <4>1. 1 \in DOMAIN out[w]
        <5>1. out[w] \in Seq(AllCommands)
          BY <1>0, WriterTyped
        <5> QED
          BY <1>2, <5>1
      <4> QED
        BY <1>0, <1>2, <2>7, <4>1, CommandFields DEF Struct, Ascending
    <3> HIDE DEF ts, p, X, K, Y, C, Y2, C2, cmd, e
    <3>4. CASE queue' = Append(queue, e) /\ online /\ UNCHANGED <<positioned, stranded>>
      BY <1>2, <2>2, <2>3, <2>4, <2>7, <3>1, <3>2, <3>4, ContigArrives
    <3>5. CASE queue' = queue /\ ~online /\ UNCHANGED <<positioned, stranded>>
      BY <2>2, <2>3, <2>4, <3>1, <3>5, ContigLost
    <3>6. CASE /\ queue' = queue /\ online /\ cmd.type = "POSITION"
               /\ cmd.new <= pos[w] /\ positioned' = positioned \cup {<<conn, w>>}
      <4>1. cmd.new <= p /\ Y2 \subseteq Y \cup {conn}
        BY <2>5, <2>7, <3>6 DEF p
      <4> QED
        BY <2>2, <2>3, <3>1, <3>3, <3>6, <4>1, ContigDropped
    <3> QED
      BY <1>3, <3>4, <3>5, <3>6
  <2> QED
    BY <2>6, <2>7
<1>8. QED
  BY <1>5, <1>6, <1>7

(* A step of the reader that leaves the writers and the connection alone. *)
LEMMA ReaderAloneTypes ==
    ASSUME Struct, UNCHANGED <<tokens, writers>>
    PROVE  WriterTypes'
<1>1. UNCHANGED <<tokens, streamer, out, asked, gap>>
  BY DEF writers
<1>2. QED
  BY <1>1 DEF Struct, WriterTypes

(* The head of the queue. *)
LEMMA HeadIs ==
    ASSUME Struct, queue # <<>>
    PROVE  /\ 1 \in DOMAIN queue /\ Head(queue) = queue[1] /\ queue[1].cmd \in AllCommands
           /\ queue[1].cmd.writer \in Writers /\ queue[1].conn \in 1 .. conn
           /\ IsCommand(queue[1].cmd, queue[1].cmd.writer, tokens[queue[1].cmd.writer])
           /\ TokenOf(queue[1].cmd) \in Nat
           /\ \A k \in DOMAIN queue : queue[1].conn <= queue[k].conn
           /\ queue[1].conn <= conn
           /\ \A r \in Kept : r[1] = queue[1].cmd.writer => r[2] <= TokenOf(queue[1].cmd)
<1>1. queue \in Seq([cmd : AllCommands, conn : Nat])
  BY DEF Struct, ReaderTypes
<1>2. 1 \in DOMAIN queue /\ Head(queue) = queue[1] /\ \A k \in DOMAIN queue : 1 <= k
  BY <1>1
<1>3. queue[1].conn \in 1 .. conn /\ \A k \in DOMAIN queue : queue[1].conn <= queue[k].conn
  BY <1>2 DEF Struct, Connections
<1>4. queue[1].conn <= conn
  BY <1>3 DEF Struct, Connections
<1>5. /\ queue[1].cmd \in AllCommands /\ queue[1].cmd.writer \in Writers
      /\ TokenOf(queue[1].cmd) \in Nat
  BY <1>2, QueueTypes
<1>6. IsCommand(queue[1].cmd, queue[1].cmd.writer, tokens[queue[1].cmd.writer])
  BY <1>2 DEF Struct, ReaderTypes
<1>7. \A r \in Kept : r[1] = queue[1].cmd.writer => r[2] <= TokenOf(queue[1].cmd)
  BY <1>2, <1>5 DEF Struct, Ascending, AscendingQueue
<1>8. QED
  BY <1>2, <1>3, <1>4, <1>5, <1>6, <1>7

(* The queue without its head. *)
LEMMA QueueTail ==
    ASSUME Struct, queue # <<>>, queue' = Tail(queue)
    PROVE  /\ queue' \in Seq([cmd : AllCommands, conn : Nat])
           /\ \A k \in DOMAIN queue' : /\ k \in Nat /\ k + 1 \in DOMAIN queue
                                       /\ queue'[k] = queue[k + 1]
<1>1. queue \in Seq([cmd : AllCommands, conn : Nat])
  BY DEF Struct, ReaderTypes
<1>2. ASSUME NEW q2, q2 = Tail(queue)
      PROVE  /\ q2 \in Seq([cmd : AllCommands, conn : Nat])
             /\ \A k \in DOMAIN q2 : k \in Nat /\ k + 1 \in DOMAIN queue /\ q2[k] = queue[k + 1]
  BY <1>1, <1>2, TailIs
<1>3. QED
  BY <1>2

(***************************************************************************)
(* While nothing is fetched, the connection the reader follows writers on  *)
(* is that of the head of the queue, if anything may still come there.     *)
(***************************************************************************)
LEMMA HeadLive ==
    ASSUME Struct, queue # <<>>, fetch = {}, NEW z \in positioned, Live(z[1])
    PROVE  z[1] = queue[1].conn /\ z[1] \in connected
<1>1. z[1] \in connected
  BY DEF Struct, Connections
<1>2. z[1] <= queue[1].conn
  BY <1>1, HeadIs DEF Struct, Connections
<1>3. queue[1].conn <= z[1]
  BY HeadIs DEF Live
<1>4. z[1] \in Nat /\ queue[1].conn \in Nat
  <2>1. z[1] \in 1 .. conn /\ queue[1].conn \in 1 .. conn
    BY <1>1, HeadIs DEF Struct, Connections
  <2> QED
    BY <2>1
<1>5. QED
  BY <1>1, <1>2, <1>3, <1>4

(* The head of the queue is dealt with. *)
ReaderPops ==
    /\ UNCHANGED <<tokens, writers, link, faults>>
    /\ queue # <<>> /\ queue' = Tail(queue) /\ fetch = {}
    /\ pos' \in [Writers -> Nat] /\ \A w \in Writers : pos'[w] <= Len(tokens[w])
    /\ batch' \in Seq(Writers \X Nat \X {1, 2})
    /\ \A r \in Kept' : r \in Kept \/ (queue[1].cmd.type = "RDATA" /\ r = queue[1].cmd.row)
    /\ fetch' = {} \/ \E f \in fetch' : fetch' = {f} /\ FetchOK(f)' /\ f.conn = queue[1].conn
    /\ disturbed' \subseteq Hazards /\ stranded' \subseteq Writers
    /\ connected' \subseteq connected \cup {queue[1].conn}
    /\ fetch' # {} => connected' = {} /\ batch' = <<>>
    /\ \A z \in positioned' : z \in positioned \/ z = <<queue[1].conn, queue[1].cmd.writer>>
    /\ \/ connected' = connected /\ positioned' = positioned
       \/ queue[1].conn \in connected' \/ \E f \in fetch' : f.conn = queue[1].conn

(* A command taken off the reader's queue keeps the structural invariant. *)
LEMMA ReaderPopsStruct ==
    ASSUME Struct, ReaderPops
    PROVE  Struct'
<1> DEFINE h == queue[1].cmd
           c == queue[1].conn
<1>1. /\ UNCHANGED <<tokens, streamer, out, asked, gap, online, conn, faults>>
      /\ queue # <<>> /\ queue' = Tail(queue) /\ fetch = {}
  BY DEF ReaderPops, writers, link
<1>2. WriterTypes'
  BY ReaderAloneTypes DEF ReaderPops
<1>3. /\ 1 \in DOMAIN queue /\ h \in AllCommands /\ h.writer \in Writers /\ c \in 1 .. conn
      /\ IsCommand(h, h.writer, tokens[h.writer])
      /\ \A k \in DOMAIN queue : c <= queue[k].conn
  BY <1>1, HeadIs
<1>4. /\ queue' \in Seq([cmd : AllCommands, conn : Nat])
      /\ \A k \in DOMAIN queue' : k \in Nat /\ k + 1 \in DOMAIN queue /\ queue'[k] = queue[k + 1]
  BY <1>1, QueueTail
<1> HIDE DEF h, c
<1>5. ReaderTypes'
  <2>1. \A k \in DOMAIN queue' :
            IsCommand(queue'[k].cmd, queue'[k].cmd.writer, tokens[queue'[k].cmd.writer])
    BY <1>4 DEF Struct, ReaderTypes
  <2>2. ASSUME NEW r \in Kept' PROVE IsRow(r, tokens[r[1]])
    <3>1. CASE r \in Kept
      BY <3>1 DEF Struct, ReaderTypes
    <3>2. CASE h.type = "RDATA" /\ r = h.row
      <4>1. PICK t \in 1 .. Len(tokens[h.writer]) : \E i \in 1 .. RowsOf(tokens[h.writer][t]) :
                h.row = <<h.writer, t, i>>
        BY <1>3, <3>2 DEF IsCommand, IsRdata, IsPosition
      <4>2. PICK i \in 1 .. RowsOf(tokens[h.writer][t]) : h.row = <<h.writer, t, i>>
        BY <4>1
      <4>3. r[1] = h.writer /\ r[2] = t /\ r[3] = i
        BY <3>2, <4>2
      <4> QED
        BY <4>1, <4>2, <4>3 DEF IsRow
    <3> QED
      BY <3>1, <3>2 DEF ReaderPops, h
  <2> QED
    BY <1>1, <1>4, <2>1, <2>2 DEF ReaderPops, ReaderTypes
<1>6. Connections'
  <2>1. \A x : Live(x)' => Live(x)
    BY <1>1, <1>4 DEF Live
  <2>2. /\ \A k \in DOMAIN queue : queue[k].conn \in 1 .. conn
        /\ \A j, k \in DOMAIN queue : j <= k => queue[j].conn <= queue[k].conn
        /\ \A x \in connected : \A k \in DOMAIN queue : x <= queue[k].conn
        /\ connected \subseteq 1 .. conn /\ positioned \subseteq (1 .. conn) \X Writers
        /\ online \in BOOLEAN /\ conn \in 1 .. 2 /\ (~online => conn = 1)
        /\ ~online \/ conn = 2 => "reader" \in faults
    BY DEF Struct, Connections
  <2>3. /\ \A k \in DOMAIN queue' : queue'[k].conn \in 1 .. conn
        /\ connected' \subseteq 1 .. conn
    BY <1>3, <1>4, <2>2 DEF ReaderPops, c
  <2>4. \A j, k \in DOMAIN queue' : j <= k => queue'[j].conn <= queue'[k].conn
    <3>1. \A j, k \in DOMAIN queue' : j <= k => j + 1 <= k + 1
      BY <1>4
    <3> QED
      BY <1>4, <2>2, <3>1
  <2>5. \A k \in DOMAIN queue' : c <= queue'[k].conn
    BY <1>3, <1>4
  <2>6. \A x \in connected' : \A k \in DOMAIN queue' : x <= queue'[k].conn
    BY <1>4, <2>2, <2>5 DEF ReaderPops, c
  <2>7. \A f \in fetch' : f.conn = c
    BY DEF ReaderPops, c
  <2>8. positioned' \subseteq (1 .. conn) \X Writers
    BY <1>3, <2>2 DEF ReaderPops, h, c
  <2>9. ASSUME NEW z \in positioned', Live(z[1])'
        PROVE  z[1] \in connected' \/ \E f \in fetch' : f.conn = z[1]
    <3>1. CASE connected' = connected /\ positioned' = positioned
      BY <1>1, <2>1, <2>9, <3>1, HeadLive
    <3>2. CASE c \in connected' \/ \E f \in fetch' : f.conn = c
      <4>1. z[1] = c
        <5>1. CASE z \in positioned
          BY <1>1, <2>1, <2>9, <5>1, HeadLive DEF c
        <5>2. CASE z = <<c, h.writer>>
          BY <5>2
        <5> QED
          BY <5>1, <5>2 DEF ReaderPops, h, c
      <4> QED
        BY <3>2, <4>1
    <3> QED
      BY <3>1, <3>2 DEF ReaderPops, c
  <2>10. fetch' # {} => connected' = {} /\ batch' = <<>>
    BY DEF ReaderPops
  <2>11. \A f \in fetch' : \A k \in DOMAIN queue' : f.conn <= queue'[k].conn
    BY <2>5, <2>7
  <2> QED
    BY <1>1, <2>2, <2>3, <2>4, <2>6, <2>8, <2>9, <2>10, <2>11 DEF Connections
<1>7. Ascending'
  <2> SUFFICES ASSUME NEW v \in Writers
               PROVE  /\ AscendingOut(out[v], Floor(streamer[v]))
                      /\ Behind(v, queue', Kept', Floor(streamer[v]))
                      /\ \A k \in DOMAIN out[v] : Behind(v, queue', Kept', TokenOf(out[v][k]))
                      /\ AscendingQueue(v, queue', Kept')
                      /\ v \notin gap => Floor(streamer[v]) = streamer[v].last
    BY <1>1 DEF Ascending
  <2>1. /\ AscendingOut(out[v], Floor(streamer[v]))
        /\ Behind(v, queue, Kept, Floor(streamer[v]))
        /\ \A k \in DOMAIN out[v] : Behind(v, queue, Kept, TokenOf(out[v][k]))
        /\ AscendingQueue(v, queue, Kept)
        /\ v \notin gap => Floor(streamer[v]) = streamer[v].last
    BY DEF Struct, Ascending
  <2> DEFINE K == Kept
             K2 == Kept'
             q == queue
             q2 == queue'
  <2>2. q \in Queues(AllCommands) /\ q # <<>> /\ q2 = Tail(q)
    BY <1>1, QueueTypes
  <2>3. ASSUME NEW r \in K2, r[1] = v
        PROVE  r \in K \/ (q[1].cmd.writer = v /\ r[2] = TokenOf(q[1].cmd))
    <3>1. CASE h.type = "RDATA" /\ r = h.row
      <4>1. h.row[1] = h.writer
        BY <1>3, <3>1 DEF IsCommand, IsRdata, IsPosition
      <4>2. TokenOf(h) = h.row[2]
        BY <1>3, <3>1, CommandFields
      <4> QED
        BY <2>3, <3>1, <4>1, <4>2 DEF h
    <3> QED
      BY <3>1 DEF ReaderPops, h
  <2> HIDE DEF K, K2, q, q2
  <2>4. /\ \A t : Behind(v, q, K, t) => Behind(v, q2, K2, t)
        /\ AscendingQueue(v, q, K) => AscendingQueue(v, q2, K2)
    BY <2>2, <2>3, AscendingTail
  <2> QED
    BY <2>1, <2>4 DEF K, K2, q, q2
<1>8. QED
  BY <1>2, <1>5, <1>6, <1>7 DEF Struct

(* The head of the queue is dealt with, and is not one of v's. *)
LEMMA PopsOther ==
    ASSUME IInv, ReaderPops, disturbed = {}, NEW v \in Writers, queue[1].cmd.writer # v,
           pos'[v] = pos[v], \A r : r[1] = v => (r \in Kept <=> r \in Kept'),
           SyncedOn(v)' = SyncedOn(v), Reached(v)' = Reached(v)
    PROVE  Contiguous(v)'
<1> DEFINE ts == tokens[v]
           p == pos[v]
           X == Reached(v)
           K == Kept
           K2 == Kept'
           Y == SyncedOn(v)
           C == Coming(v)
           q2 == queue'
<1>0. Struct
  BY DEF IInv
<1>1. /\ UNCHANGED <<tokens, streamer, out, gap, online, conn>>
      /\ queue # <<>> /\ q2 = Tail(queue) /\ IsTail(queue, q2)
  BY DEF ReaderPops, writers, link, IsTail
<1>2. Coming(v)' = C
  BY <1>1 DEF Coming
<1> SUFFICES Contig(v, ts, p, X, K2, q2, Y, conn, online, C)
  BY <1>1, <1>2 DEF Contiguous
<1>3. Contig(v, ts, p, X, K, queue, Y, conn, online, C)
  BY DEF IInv, Safe, Contiguous
<1>4. /\ queue \in Queues(AllCommands) /\ C \in Seq(AllCommands) /\ online \in BOOLEAN
  BY <1>0, QueueTypes, WriterTyped DEF Struct, Connections
<1>5. \A k \in DOMAIN q2 : q2[k].cmd \in AllCommands
  <2>1. \A k \in DOMAIN queue' : k + 1 \in DOMAIN queue /\ queue'[k] = queue[k + 1]
    BY <1>0, <1>1, QueueTail
  <2>2. \A k \in DOMAIN queue : queue[k].cmd \in AllCommands
    BY <1>0, QueueTypes
  <2> QED
    BY <2>1, <2>2
<1>6. \A r : r[1] = v => (r \in K <=> r \in K2)
  OBVIOUS
<1> HIDE DEF ts, p, X, K, K2, Y, C, q2
<1>7. Contig(v, ts, p, X, K, q2, Y, conn, online, C)
  <2>1. IsTail(queue, q2)
    BY <1>1
  <2> QED
    BY <1>3, <1>4, <2>1, ContigNextOther
<1>8. \A b \in AllCommands : Ready(v, ts, X, K, b) => Ready(v, ts, X, K2, b)
  BY <1>6, ReadyKept
<1>9. QED
  BY <1>4, <1>5, <1>7, <1>8, ContigMap

(* The head of the queue is dealt with, and is one of v's. *)
LEMMA PopsOwn ==
    ASSUME IInv, ReaderPops, disturbed = {}, NEW v \in Writers, queue[1].cmd.writer = v,
           pos[v] <= pos'[v],
           \A x \in SyncedOn(v)' : x \in SyncedOn(v) \/ x = queue[1].conn,
           MayGoOn(v, tokens[v], pos[v], queue, Reached(v)', Kept', SyncedOn(v)')
    PROVE  Contiguous(v)'
<1> DEFINE ts == tokens[v]
           p == pos[v]
           p2 == pos'[v]
           X == Reached(v)
           X2 == Reached(v)'
           K == Kept
           K2 == Kept'
           Y == SyncedOn(v)
           Y2 == SyncedOn(v)'
           C == Coming(v)
           q2 == queue'
<1>0. Struct
  BY DEF IInv
<1>1. /\ UNCHANGED <<tokens, streamer, out, gap, online, conn>>
      /\ queue # <<>> /\ IsTail(queue, q2) /\ fetch = {} /\ p2 \in Nat
  BY DEF ReaderPops, writers, link, IsTail
<1>2. Coming(v)' = C
  BY <1>1 DEF Coming
<1> SUFFICES Contig(v, ts, p2, X2, K2, q2, Y2, conn, online, C)
  BY <1>1, <1>2 DEF Contiguous
<1>3. Contig(v, ts, p, X, K, queue, Y, conn, online, C)
  BY DEF IInv, Safe, Contiguous
<1>4. /\ queue \in Queues(AllCommands) /\ C \in Seq(AllCommands) /\ online \in BOOLEAN
      /\ p \in Nat
  BY <1>0, QueueTypes, WriterTyped DEF Struct, Connections
<1>5. ASSUME NEW x \in Y2, Live(x) PROVE x = queue[1].conn
  <2>1. CASE x \in Y
    <3>1. <<x, v>> \in positioned /\ <<x, v>>[1] = x
      BY <1>1, <2>1 DEF SyncedOn, Synced
    <3>2. Live(<<x, v>>[1])
      BY <1>5, <3>1
    <3> QED
      BY <1>0, <1>1, <3>1, <3>2, HeadLive
  <2> QED
    BY <2>1
<1>6. OneConnection(queue, conn, Y2)
  BY <1>5 DEF Live, OneConnection
<1>7. MayGoOn(v, ts, p, queue, X2, K2, Y2) /\ Reaches(p, p2) /\ IsFrom(queue[1], v)
  BY <1>1, <1>4 DEF Reaches, IsFrom
<1> HIDE DEF ts, p, p2, X, X2, K, K2, Y, Y2, C, q2
<1>8. IsTail(queue, q2) /\ queue \in Queues(AllCommands) /\ C \in Seq(AllCommands)
      /\ online \in BOOLEAN
  BY <1>1, <1>4
<1>9. QED
  BY <1>3, <1>6, <1>7, <1>8, ContigNext

(* The reader is given the rows of w up to t, which it had not passed. *)
Delivers(w, t) ==
    /\ w \in Writers /\ t \in 1 .. Len(tokens[w]) /\ pos[w] < t
    /\ handled' = handled \cup RowsBetween(w, tokens[w], pos[w], t)
    /\ pos' = [pos EXCEPT ![w] = t]

(* Moving a position together with all rows up to it loses no row. *)
LEMMA DeliversComplete ==
    ASSUME Struct, Rows!Complete, tokens' = tokens,
           UNCHANGED <<pos, handled>> \/ \E w, t : Delivers(w, t)
    PROVE  Rows!Complete'
<1>1. CASE UNCHANGED <<pos, handled>>
  BY <1>1, CompleteIs, CompleteNextIs
<1>2. ASSUME NEW w, NEW t, Delivers(w, t) PROVE Rows!Complete'
  <2>1. /\ w \in Writers /\ t \in 1 .. Len(tokens[w]) /\ pos[w] < t
        /\ handled' = handled \cup RowsBetween(w, tokens[w], pos[w], t)
        /\ pos' = [pos EXCEPT ![w] = t] /\ pos \in [Writers -> Nat]
    BY <1>2 DEF Delivers, Struct, ReaderTypes
  <2>2. ASSUME NEW v \in Writers
        PROVE  RowsBetween(v, tokens[v], 0, pos'[v]) \subseteq handled'
    <3>1. RowsBetween(v, tokens[v], 0, pos[v]) \subseteq handled
      BY CompleteIs
    <3>2. CASE v # w
      BY <2>1, <3>1, <3>2
    <3>3. CASE v = w
      <4>1. pos'[v] = t /\ t \in Nat /\ pos[v] \in Nat /\ pos[v] <= t
        BY <2>1, <3>3
      <4>2. RowsBetween(v, tokens[v], 0, t)
                = RowsBetween(v, tokens[v], 0, pos[v]) \cup RowsBetween(v, tokens[v], pos[v], t)
        <5> DEFINE p == pos[v]
                   ts == tokens[v]
        <5>1. p \in Nat /\ t \in Nat /\ p <= t
          BY <4>1
        <5> HIDE DEF p, ts
        <5>2. RowsBetween(v, ts, 0, t) = RowsBetween(v, ts, 0, p) \cup RowsBetween(v, ts, p, t)
          BY <5>1, RowsJoin
        <5> QED
          BY <5>2 DEF p, ts
      <4> QED
        BY <2>1, <3>1, <3>3, <4>1, <4>2
    <3> QED
      BY <3>2, <3>3
  <2> QED
    BY <2>2, CompleteNextIs
<1>3. QED
  BY <1>1, <1>2

(* With no other writer's rows kept, all rows kept are the writer's own. *)
LEMMA NotForeign ==
    ASSUME NEW w, ~Foreign(w)
    PROVE  \A r \in Kept : r[1] = w
  BY DEF Foreign, Kept

(* The row at the head of the queue. *)
HeadRow(h, w, t, i) ==
    /\ h \in AllCommands /\ h.type = "RDATA" /\ h.writer = w /\ w \in Writers
    /\ h.row = <<w, t, i>> /\ h.row[2] = t /\ h.row[3] = i /\ TokenOf(h) = t
    /\ t \in 1 .. Len(tokens[w]) /\ t \in Nat /\ t # None
    /\ i \in 1 .. RowsOf(tokens[w][t]) /\ i \in {1, 2}
    /\ h.token = IF i = RowsOf(tokens[w][t]) THEN t ELSE None

(* A row at the head of the queue: its token and its place in it. *)
LEMMA HeadRowIs ==
    ASSUME Struct, queue # <<>>, queue[1].cmd.type = "RDATA"
    PROVE  \E t, i : HeadRow(queue[1].cmd, queue[1].cmd.writer, t, i)
<1> DEFINE h == queue[1].cmd
           w == h.writer
<1>1. /\ h \in AllCommands /\ w \in Writers /\ IsCommand(h, w, tokens[w]) /\ h.type = "RDATA"
  BY HeadIs
<1>2. IsRdata(h, w, tokens[w])
  BY <1>1 DEF IsCommand, IsPosition
<1>3. PICK t \in 1 .. Len(tokens[w]) : \E i \in 1 .. RowsOf(tokens[w][t]) :
            /\ h.row = <<w, t, i>>
            /\ h.token = IF i = RowsOf(tokens[w][t]) THEN t ELSE None
  BY <1>2 DEF IsRdata
<1>4. PICK i \in 1 .. RowsOf(tokens[w][t]) :
            /\ h.row = <<w, t, i>>
            /\ h.token = IF i = RowsOf(tokens[w][t]) THEN t ELSE None
  BY <1>3
<1>5. h.row[2] = t /\ h.row[3] = i
  BY <1>4
<1>6. h.row[3] \in {1, 2} /\ TokenOf(h) = h.row[2]
  BY <1>1, CommandFields
<1>7. t \in Nat /\ t # None
  BY <1>3 DEF None
<1>8. HeadRow(h, w, t, i)
  BY <1>1, <1>3, <1>4, <1>5, <1>6, <1>7 DEF HeadRow
<1>9. QED
  BY <1>8

(* _process_rdata: the row is dropped, kept, or handed over with the rest. *)
RowDropped(c) == c \notin connected /\ Kept' = Kept /\ UNCHANGED <<handled, pos, disturbed>>

RowKept(h, c, w) ==
    /\ c \in connected /\ h.token = None
    /\ Kept' = Kept \cup {h.row}
    /\ UNCHANGED <<handled, pos>>
    /\ disturbed' = {} => ~Foreign(w)

RowTaken(h, c, w, t) ==
    /\ c \in connected /\ h.token = t
    /\ Kept' = {} /\ batch' = <<>>
    /\ \/ t <= pos[w] /\ UNCHANGED <<handled, pos>>
       \/ /\ t > pos[w] /\ handled' = handled \cup Kept \cup {h.row}
          /\ pos' = [pos EXCEPT ![w] = t]
    /\ disturbed' = {} => ~Foreign(w) /\ (t > pos[w] => <<c, w>> \in positioned)

(* What processing a row does: keep it in the batch, or deliver the batch with it. *)
LEMMA ProcessRdataIs ==
    ASSUME Struct, ProcessRdata, NEW h, h = queue[1].cmd, NEW c, c = queue[1].conn,
           NEW w, w = h.writer
    PROVE  \E t, i :
             /\ HeadRow(h, w, t, i)
             /\ UNCHANGED <<tokens, writers, link, connected, fetch, positioned, stranded, faults>>
             /\ queue # <<>> /\ queue' = Tail(queue) /\ fetch = {}
             /\ batch' \in Seq(Writers \X Nat \X {1, 2})
             /\ disturbed \subseteq disturbed' /\ disturbed' \subseteq Hazards
             /\ RowDropped(c) \/ RowKept(h, c, w) \/ RowTaken(h, c, w, t)
<1>1. /\ queue # <<>> /\ queue' = Tail(queue) /\ fetch = {}
      /\ UNCHANGED <<tokens, writers, link, connected, fetch, positioned, stranded, faults>>
  BY DEF ProcessRdata
<1>2. Head(queue) = queue[1]
  BY <1>1, HeadIs
<1>3. h.type = "RDATA"
  BY <1>2 DEF ProcessRdata
<1>4. PICK t, i : HeadRow(h, w, t, i)
  BY <1>1, <1>3, HeadRowIs
<1>5. /\ batch \in Seq(Writers \X Nat \X {1, 2}) /\ pos \in [Writers -> Nat]
      /\ disturbed \subseteq Hazards
  BY DEF Struct, ReaderTypes
<1>6. h.row \in Writers \X Nat \X {1, 2} /\ h.token \in Nat
  BY <1>4, CommandFields DEF HeadRow
<1>7. CASE c \notin connected /\ UNCHANGED <<batch, handled, pos, disturbed>>
  <2>1. Kept' = Kept
    BY <1>7 DEF Kept
  <2>2. RowDropped(c) /\ batch' \in Seq(Writers \X Nat \X {1, 2})
        /\ disturbed \subseteq disturbed' /\ disturbed' \subseteq Hazards
    BY <1>5, <1>7, <2>1 DEF RowDropped
  <2> QED
    BY <1>1, <1>4, <2>2
<1>8. CASE /\ c \in connected /\ h.token = None /\ batch' = Append(batch, h.row)
           /\ disturbed' = IF Foreign(w) THEN disturbed \cup {"batch"} ELSE disturbed
           /\ UNCHANGED <<handled, pos>>
  <2>1. Kept' = Kept \cup {h.row} /\ batch' \in Seq(Writers \X Nat \X {1, 2})
    <3> DEFINE S == Writers \X Nat \X {1, 2}
               b2 == batch'
               n == Len(batch)
               e == h.row
    <3>1. b2 = Append(batch, e) /\ batch \in Seq(S) /\ e \in S
      BY <1>5, <1>6, <1>8
    <3> HIDE DEF S, b2, e
    <3>2. /\ b2 \in Seq(S) /\ Len(b2) = n + 1 /\ n \in Nat
          /\ \A k \in 1 .. n : b2[k] = batch[k]
          /\ b2[n + 1] = e
      BY <3>1, AppendIs
    <3>3. DOMAIN b2 = 1 .. (n + 1) /\ DOMAIN batch = 1 .. n
      BY <3>1, <3>2
    <3> HIDE DEF n
    <3>4. /\ \A k \in 1 .. (n + 1) : k \in 1 .. n \/ k = n + 1
          /\ n + 1 \in 1 .. (n + 1) /\ \A k \in 1 .. n : k \in 1 .. (n + 1)
      BY <3>2
    <3>5. {b2[k] : k \in DOMAIN b2} = {batch[k] : k \in DOMAIN batch} \cup {e}
      BY <3>2, <3>3, <3>4
    <3> QED
      BY <3>2, <3>5 DEF Kept, b2, e, S
  <2>2. /\ disturbed \subseteq disturbed' /\ disturbed' \subseteq Hazards
        /\ disturbed' = {} => ~Foreign(w)
    BY <1>5, <1>8 DEF Hazards
  <2>3. RowKept(h, c, w)
    BY <1>8, <2>1, <2>2 DEF RowKept
  <2> QED
    BY <1>1, <1>4, <2>1, <2>2, <2>3
<1>9. CASE /\ c \in connected /\ h.token # None /\ batch' = <<>>
           /\ IF h.token <= pos[w]
              THEN UNCHANGED <<handled, pos>>
              ELSE /\ handled' = handled \cup (Kept \cup {h.row})
                   /\ pos' = [pos EXCEPT ![w] = IF h.token > @ THEN h.token ELSE @]
           /\ disturbed' = disturbed
                \cup (IF Foreign(w) THEN {"batch"} ELSE {})
                \cup (IF ~(h.token <= pos[w]) /\ <<c, w>> \notin positioned
                      THEN {"connection"} ELSE {})
  <2>1. h.token = t /\ w \in Writers /\ pos[w] \in Nat /\ t \in Nat
    BY <1>4, <1>5, <1>9 DEF HeadRow
  <2>2. Kept' = {} /\ batch' \in Seq(Writers \X Nat \X {1, 2})
    BY <1>9 DEF Kept
  <2>3. \/ t <= pos[w] /\ UNCHANGED <<handled, pos>>
        \/ /\ t > pos[w] /\ handled' = handled \cup Kept \cup {h.row}
           /\ pos' = [pos EXCEPT ![w] = t]
    <3>1. CASE t <= pos[w]
      BY <1>9, <2>1, <3>1
    <3>2. CASE ~(t <= pos[w])
      <4>1. t > pos[w]
        BY <2>1, <3>2
      <4>2. handled' = handled \cup (Kept \cup {h.row})
        BY <1>9, <2>1, <3>2
      <4>3. pos' = [pos EXCEPT ![w] = t]
        BY <1>9, <2>1, <3>2, <4>1
      <4> QED
        BY <4>1, <4>2, <4>3
    <3> QED
      BY <3>1, <3>2
  <2>4. disturbed \subseteq disturbed' /\ disturbed' \subseteq Hazards
    BY <1>5, <1>9 DEF Hazards
  <2>5. disturbed' = {} => ~Foreign(w)
    BY <1>9
  <2>6. disturbed' = {} => (t > pos[w] => <<c, w>> \in positioned)
    <3>1. t > pos[w] => ~(h.token <= pos[w])
      BY <2>1
    <3> QED
      BY <1>9, <3>1
  <2>7. RowTaken(h, c, w, t)
    BY <1>9, <2>1, <2>2, <2>3, <2>5, <2>6 DEF RowTaken
  <2> QED
    BY <1>1, <1>4, <2>2, <2>4, <2>7
<1>10. QED
  <2>1. Kept = {batch[i_1] : i_1 \in DOMAIN batch}
    BY DEF Kept
  <2>2. \/ c \notin connected /\ UNCHANGED <<batch, handled, pos, disturbed>>
        \/ /\ c \in connected /\ h.token = None /\ batch' = Append(batch, h.row)
           /\ disturbed' = IF Foreign(w) THEN disturbed \cup {"batch"} ELSE disturbed
           /\ UNCHANGED <<handled, pos>>
        \/ /\ c \in connected /\ h.token # None /\ batch' = <<>>
           /\ IF h.token <= pos[w]
              THEN UNCHANGED <<handled, pos>>
              ELSE /\ handled' = handled \cup (Kept \cup {h.row})
                   /\ pos' = [pos EXCEPT ![w] = IF h.token > @ THEN h.token ELSE @]
           /\ disturbed' = disturbed
                \cup (IF Foreign(w) THEN {"batch"} ELSE {})
                \cup (IF ~(h.token <= pos[w]) /\ <<c, w>> \notin positioned
                      THEN {"connection"} ELSE {})
    BY <1>2, <2>1, Zenon DEF ProcessRdata, StreamConnected, IsOld, OnRdata
  <2> QED
    BY <1>7, <1>8, <1>9, <2>2

(* The reader may take the head of the queue where it follows its writer. *)
LEMMA HeadReady ==
    ASSUME IInv, disturbed = {}, queue # <<>>, fetch = {},
           NEW w, NEW t, NEW i, HeadRow(queue[1].cmd, w, t, i), <<queue[1].conn, w>> \in positioned
    PROVE  /\ NoneBetween(tokens[w], pos[w], t)
           /\ \A r \in Kept : r[1] = w => r[2] <= pos[w] \/ (i = 2 /\ r = <<w, t, 1>>)
           /\ i = 2 => t <= pos[w] \/ <<w, t, 1>> \in Kept
<1>0. Struct /\ w \in Writers
  BY DEF IInv, HeadRow
<1>1. 1 \in DOMAIN queue /\ queue[1].conn \in SyncedOn(w)
  BY <1>0, HeadIs DEF SyncedOn, Synced
<1>2. ReadyQueue(w, tokens[w], Reached(w), Kept, queue, SyncedOn(w))
  BY <1>0 DEF IInv, Safe, Contiguous, Contig
<1>3. Reached(w) = {pos[w]}
  BY DEF Reached
<1>4. \A j \in 1 .. (1 - 1) : FALSE
  OBVIOUS
<1>5. Ready(w, tokens[w], {pos[w]}, Kept, queue[1].cmd)
  BY <1>1, <1>2, <1>3, <1>4 DEF ReadyQueue, HeadRow
<1>6. QED
  BY <1>5 DEF Ready, HeadRow

(* A row that exists up to a position is one of those up to there. *)
LEMMA RowUpTo ==
    ASSUME NEW w \in Writers, NEW ts, NEW p \in Nat, NEW r \in Writers \X Nat \X {1, 2},
           r[1] = w, r[2] <= p, IsRow(r, ts), Len(ts) \in Nat
    PROVE  r \in RowsBetween(w, ts, 0, p)
<1>1. r = <<w, r[2], r[3]>>
  OBVIOUS
<1>2. r[2] \in (0 + 1) .. p /\ r[3] \in 1 .. RowsOf(ts[r[2]])
  BY DEF IsRow
<1>3. r \in RowsAt(w, ts, r[2])
  BY <1>1, <1>2 DEF RowsAt
<1>4. QED
  BY <1>2, <1>3 DEF RowsBetween

(* The rows handed over with an RDATA are all those up to its token. *)
LEMMA ProcessRdataDelivers ==
    ASSUME IInv, ProcessRdata, disturbed' = {}
    PROVE  UNCHANGED <<pos, handled>> \/ \E w, t : Delivers(w, t)
<1> DEFINE h == queue[1].cmd
           c == queue[1].conn
           w == h.writer
           ts == tokens[w]
           p == pos[w]
<1>0. Struct
  BY DEF IInv
<1>1. PICK t, i :
             /\ HeadRow(h, w, t, i)
             /\ queue # <<>> /\ fetch = {} /\ disturbed \subseteq disturbed'
             /\ RowDropped(c) \/ RowKept(h, c, w) \/ RowTaken(h, c, w, t)
  <2> HIDE DEF h, c, w
  <2> QED
    BY <1>0, ProcessRdataIs DEF h, c, w
<1>2. CASE RowDropped(c) \/ RowKept(h, c, w)
  BY <1>2 DEF RowDropped, RowKept
<1>3. CASE RowTaken(h, c, w, t)
  <2> SUFFICES ASSUME t > p, handled' = handled \cup Kept \cup {h.row},
                      pos' = [pos EXCEPT ![w] = t]
               PROVE  Delivers(w, t)
    BY <1>3 DEF RowTaken
  <2>1. <<c, w>> \in positioned /\ ~Foreign(w) /\ h.token = t
    BY <1>3 DEF RowTaken
  <2>2. /\ w \in Writers /\ t \in 1 .. Len(ts) /\ h.row = <<w, t, i>> /\ t \in Nat
        /\ i \in 1 .. RowsOf(ts[t]) /\ i \in {1, 2} /\ t # None
        /\ h.token = IF i = RowsOf(ts[t]) THEN t ELSE None
    BY <1>1 DEF HeadRow
  <2>3. i = RowsOf(ts[t])
    BY <2>1, <2>2
  <2>4. /\ NoneBetween(ts, p, t)
        /\ \A r \in Kept : r[1] = w => r[2] <= p \/ (i = 2 /\ r = <<w, t, 1>>)
        /\ i = 2 => t <= p \/ <<w, t, 1>> \in Kept
    BY <1>1, <2>1, HeadReady
  <2>5. p \in Nat /\ Len(ts) \in Nat /\ p < t
    BY <1>0, <2>2, WriterTyped
  <2> HIDE DEF h, w, c, ts, p
  <2>6. RowsBetween(w, ts, p, t) = RowsAt(w, ts, t)
    BY <2>2, <2>4, <2>5, RowsOne
  <2>7. RowsAt(w, ts, t) \subseteq Kept \cup {h.row}
    <3>1. ASSUME NEW j \in 1 .. i PROVE <<w, t, j>> \in Kept \cup {h.row}
      <4>1. j = i \/ (i = 2 /\ j = 1)
        BY <2>2
      <4>2. ~(t <= p)
        BY <2>2, <2>5
      <4> QED
        BY <2>2, <2>4, <4>1, <4>2
    <3> QED
      BY <2>3, <3>1 DEF RowsAt
  <2>8. h.row \in RowsAt(w, ts, t)
    BY <2>2, <2>3 DEF RowsAt
  <2>9. ASSUME NEW r \in Kept PROVE r \in handled \cup RowsAt(w, ts, t)
    <3>1. r[1] = w /\ r \in Writers \X Nat \X {1, 2}
      BY <1>0, <2>1, NotForeign, QueueTypes
    <3>2. CASE r[2] <= p
      <4>1. IsRow(r, ts)
        BY <1>0, <3>1 DEF Struct, ReaderTypes, ts
      <4>2. r \in RowsBetween(w, ts, 0, p)
        BY <2>2, <2>5, <3>1, <3>2, <4>1, RowUpTo
      <4>3. RowsBetween(w, ts, 0, p) \subseteq handled
        <5>1. Rows!Complete
          BY <1>1 DEF IInv, Safe
        <5> QED
          BY <2>2, <5>1, CompleteIs DEF ts, p
      <4> QED
        BY <4>2, <4>3
    <3>3. CASE i = 2 /\ r = <<w, t, 1>>
      <4>1. 1 \in 1 .. RowsOf(ts[t])
        BY <2>3, <3>3
      <4> QED
        BY <3>3, <4>1 DEF RowsAt
    <3> QED
      BY <2>4, <3>1, <3>2, <3>3
  <2>10. handled' = handled \cup RowsBetween(w, ts, p, t)
    BY <2>6, <2>7, <2>8, <2>9
  <2> QED
    BY <2>2, <2>5, <2>10 DEF Delivers, ts, p
<1>4. QED
  BY <1>1, <1>2, <1>3

(* Processing a row takes one command off the queue. *)
LEMMA ProcessRdataPops ==
    ASSUME Struct, ProcessRdata
    PROVE  ReaderPops
<1> DEFINE h == queue[1].cmd
           c == queue[1].conn
           w == h.writer
<1>1. PICK t, i :
             /\ HeadRow(h, w, t, i)
             /\ UNCHANGED <<tokens, writers, link, connected, fetch, positioned, stranded, faults>>
             /\ queue # <<>> /\ queue' = Tail(queue) /\ fetch = {}
             /\ batch' \in Seq(Writers \X Nat \X {1, 2})
             /\ disturbed' \subseteq Hazards
             /\ RowDropped(c) \/ RowKept(h, c, w) \/ RowTaken(h, c, w, t)
  <2> HIDE DEF h, c, w
  <2> QED
    BY ProcessRdataIs DEF h, c, w
<1>2. /\ pos \in [Writers -> Nat] /\ \A v \in Writers : pos[v] <= Len(tokens[v])
      /\ stranded \subseteq Writers
  BY DEF Struct, ReaderTypes
<1>3. pos' \in [Writers -> Nat] /\ \A v \in Writers : pos'[v] <= Len(tokens[v])
  <2>1. CASE pos' = pos
    BY <1>2, <2>1
  <2>2. CASE pos' = [pos EXCEPT ![w] = t]
    <3>1. w \in Writers /\ t \in Nat /\ t <= Len(tokens[w])
      BY <1>1 DEF HeadRow
    <3> HIDE DEF w
    <3> QED
      BY <1>2, <2>2, <3>1
  <2> QED
    BY <1>1, <2>1, <2>2 DEF RowDropped, RowKept, RowTaken
<1>4. \A r \in Kept' : r \in Kept \/ (h.type = "RDATA" /\ r = h.row)
  BY <1>1 DEF RowDropped, RowKept, RowTaken, HeadRow
<1>5. QED
  BY <1>1, <1>2, <1>3, <1>4 DEF ReaderPops

(* A row is processed: either way none of it is missed. *)
LEMMA ProcessRdataInv ==
    ASSUME IInv, ProcessRdata
    PROVE  IInv'
<1> DEFINE h == queue[1].cmd
           c == queue[1].conn
<1>0. Struct
  BY DEF IInv
<1> PICK w : w = h.writer
  OBVIOUS
<1> DEFINE ts == tokens[w]
           p == pos[w]
<1>1. Struct' /\ ReaderPops
  BY <1>0, ProcessRdataPops, ReaderPopsStruct
<1> SUFFICES ASSUME disturbed' = {}
             PROVE  OneBatch' /\ Rows!Complete' /\ \A v \in Writers : Contiguous(v)'
  BY <1>1 DEF IInv, Safe
<1>2. PICK t, i :
             /\ HeadRow(h, w, t, i)
             /\ UNCHANGED <<tokens, writers, link, connected, fetch, positioned, stranded, faults>>
             /\ queue # <<>> /\ queue' = Tail(queue) /\ fetch = {}
             /\ disturbed \subseteq disturbed'
             /\ RowDropped(c) \/ RowKept(h, c, w) \/ RowTaken(h, c, w, t)
  <2> HIDE DEF h, c
  <2> QED
    BY <1>0, ProcessRdataIs DEF h, c
<1>3. disturbed = {} /\ OneBatch /\ Rows!Complete
  BY <1>2 DEF IInv, Safe
<1>4. /\ w \in Writers /\ h.row = <<w, t, i>> /\ h.row[1] = w /\ TokenOf(h) = t
      /\ h \in AllCommands /\ h.type = "RDATA" /\ t \in Nat /\ p \in Nat
      /\ h.row[3] = i /\ h.row[2] = t
  BY <1>0, <1>2, WriterTyped DEF HeadRow
<1>5. OneBatch'
  <2>1. CASE RowDropped(c)
    BY <1>3, <2>1 DEF RowDropped, OneBatch
  <2>2. CASE RowKept(h, c, w)
    <3>1. \A r \in Kept : r[1] = w
      BY <2>2, NotForeign DEF RowKept
    <3> QED
      BY <1>4, <2>2, <3>1 DEF RowKept, OneBatch
  <2>3. CASE RowTaken(h, c, w, t)
    BY <2>3 DEF RowTaken, OneBatch
  <2> QED
    BY <1>2, <2>1, <2>2, <2>3
<1>6. Rows!Complete'
  BY <1>0, <1>2, <1>3, ProcessRdataDelivers, DeliversComplete
<1>7. \A v \in Writers : SyncedOn(v)' = SyncedOn(v)
  BY <1>2 DEF SyncedOn, Synced, link
<1>8. \A v \in Writers : pos'[v] = pos[v] => Reached(v)' = Reached(v)
  BY <1>2 DEF Reached
<1>9. ASSUME NEW v \in Writers, v # w PROVE Contiguous(v)'
  <2>1. pos'[v] = pos[v]
    BY <1>0, <1>2, <1>9 DEF RowDropped, RowKept, RowTaken, Struct, ReaderTypes
  <2>2. \A r : r[1] = v => (r \in Kept <=> r \in Kept')
    <3>1. CASE RowDropped(c)
      BY <3>1 DEF RowDropped
    <3>2. CASE RowKept(h, c, w)
      BY <1>4, <1>9, <3>2 DEF RowKept
    <3>3. CASE RowTaken(h, c, w, t)
      <4>1. Kept' = {} /\ \A r \in Kept : r[1] = w
        BY <3>3, NotForeign DEF RowTaken
      <4> QED
        BY <1>9, <4>1
    <3> QED
      BY <1>2, <3>1, <3>2, <3>3
  <2> QED
    BY <1>1, <1>3, <1>7, <1>8, <1>9, <2>1, <2>2, PopsOther
<1>10. Contiguous(w)'
  <2>1. pos[w] <= pos'[w]
    <3>1. pos \in [Writers -> Nat]
      BY <1>0 DEF Struct, ReaderTypes
    <3>2. CASE pos' = pos
      BY <1>4, <3>2
    <3>3. CASE t > p /\ pos' = [pos EXCEPT ![w] = t]
      BY <1>4, <3>1, <3>3
    <3> QED
      BY <1>2, <3>2, <3>3 DEF RowDropped, RowKept, RowTaken
  <2>2. MayGoOn(w, ts, p, queue, Reached(w)', Kept', SyncedOn(w)')
    <3> SUFFICES ASSUME c \in SyncedOn(w), NEW b \in AllCommands, Chained(ts, p, h, b)
                 PROVE  Ready(w, ts, Reached(w)', Kept', b)
      BY <1>4, <1>7 DEF MayGoOn
    <3>1. <<c, w>> \in positioned
      BY <1>2 DEF SyncedOn, Synced
    <3>2. c \in connected
      <4>1. Live(c) /\ <<c, w>>[1] = c
        BY <1>0, <1>2, HeadIs DEF Live
      <4>2. Live(<<c, w>>[1])
        BY <4>1
      <4> QED
        BY <1>0, <1>2, <3>1, <4>1, <4>2, HeadLive
    <3>3. Reached(w)' = {pos'[w]}
      BY <1>2 DEF Reached
    <3>4. \A r \in Kept : r[2] \in Nat /\ (r[1] = w => r[2] <= t)
      BY <1>0, <1>2, <1>4, HeadIs, QueueTypes
    <3>5. CASE RowKept(h, c, w)
      <4>1. pos' = pos /\ Kept' = Kept \cup {h.row} /\ h.token = None
        BY <3>5 DEF RowKept
      <4> DEFINE K == Kept
                 K2 == Kept'
      <4>2. CASE t <= p
        <5>1. Settled(ts, p, b)
          BY <1>4, <4>2, ChainedSettled
        <5>2. \A r \in K2 : r[1] = w => r[2] <= p
          BY <1>4, <3>4, <4>1, <4>2
        <5>3. p \in {p}
          OBVIOUS
        <5> HIDE DEF ts, p, K2
        <5>4. Ready(w, ts, {p}, K2, b)
          BY <5>1, <5>2, <5>3, SettledReady
        <5> QED
          BY <3>3, <4>1, <5>4 DEF p, K2
      <4>3. CASE ~(t <= p)
        <5> SUFFICES ASSUME b.type = "RDATA" PROVE Ready(w, ts, {p}, K2, b)
          BY <3>3, <4>1 DEF Ready
        <5>1. ~IsFinal(h)
          BY <1>4, <4>1 DEF IsFinal
        <5>2. b.row[3] = 2 /\ h.row[3] = 1 /\ b.row[2] = t
          BY <1>4, <4>3, <5>1 DEF Chained
        <5>3. i = 1
          BY <1>4, <5>2
        <5>4. NoneBetween(ts, p, t) /\ \A r \in Kept : r[1] = w => r[2] <= p
          <6>1. /\ NoneBetween(ts, p, t)
                /\ \A r \in Kept : r[1] = w => r[2] <= p \/ (i = 2 /\ r = <<w, t, 1>>)
            BY <1>2, <1>3, <3>1, HeadReady
          <6> QED
            BY <5>3, <6>1
        <5>5. h.row = <<w, t, 1>>
          BY <1>4, <5>3
        <5>6. <<w, t, 1>> \in K2 /\ \A r \in K2 : r \in Kept \/ r = <<w, t, 1>>
          BY <4>1, <5>5
        <5>7. \A r \in K2 : r[1] = w => r[2] <= p \/ (b.row[3] = 2 /\ r = <<w, b.row[2], 1>>)
          BY <5>2, <5>4, <5>6
        <5>8. NoneBetween(ts, p, b.row[2]) /\ <<w, b.row[2], 1>> \in K2
          BY <5>2, <5>4, <5>6
        <5> HIDE DEF ts, p, K2
        <5> QED
          BY <5>7, <5>8 DEF Ready
      <4> QED
        BY <4>2, <4>3
    <3>6. CASE RowTaken(h, c, w, t)
      <4> DEFINE p2 == pos'[w]
      <4>1. p2 \in Nat /\ t <= p2 /\ p <= p2
        <5>1. p2 \in Nat /\ p <= p2
          BY <1>1, <1>4, <2>1 DEF ReaderPops
        <5>2. CASE t <= p
          BY <1>4, <5>1, <5>2
        <5>3. CASE pos' = [pos EXCEPT ![w] = t]
          <6>1. p2 = t
            BY <1>0, <1>4, <5>3 DEF Struct, ReaderTypes
          <6> QED
            BY <1>4, <5>1, <6>1
        <5> QED
          BY <3>6, <5>1, <5>2, <5>3 DEF RowTaken
      <4> HIDE DEF ts, p, p2, h
      <4>2. Chained(ts, p2, h, b)
        BY <1>4, <4>1, ChainedFurther
      <4>3. Settled(ts, p2, b)
        BY <1>4, <4>1, <4>2, ChainedSettled
      <4>4. p2 \in {p2} /\ \A r \in {} : r[1] = w => r[2] <= p2
        OBVIOUS
      <4>5. Ready(w, ts, {p2}, {}, b)
        BY <4>3, <4>4, SettledReady
      <4>6. Kept' = {} /\ Reached(w)' = {p2}
        BY <3>3, <3>6 DEF RowTaken, p2
      <4> QED
        BY <4>5, <4>6
    <3>7. ~RowDropped(c)
      BY <3>2 DEF RowDropped
    <3> QED
      BY <1>2, <3>5, <3>6, <3>7
  <2>3. \A x \in SyncedOn(w)' : x \in SyncedOn(w) \/ x = queue[1].conn
    BY <1>4, <1>7
  <2> QED
    BY <1>1, <1>3, <1>4, <2>1, <2>2, <2>3, PopsOwn
<1>11. QED
  BY <1>5, <1>6, <1>9, <1>10

(* The POSITION at the head of the queue. *)
LEMMA HeadPositionIs ==
    ASSUME Struct, queue # <<>>, queue[1].cmd.type = "POSITION", NEW h, h = queue[1].cmd,
           NEW w, w = h.writer
    PROVE  /\ h \in AllCommands /\ w \in Writers /\ h.prev \in Nat /\ h.new \in Nat
           /\ TokenOf(h) = h.new /\ h.prev <= h.new /\ h.new <= Len(tokens[w])
           /\ NoneBetween(tokens[w], h.prev, h.new + 1)
           /\ pos[w] \in Nat /\ Len(tokens[w]) \in Nat
           /\ \A r \in Kept : r[2] \in Nat /\ (r[1] = w => r[2] <= h.new)
<1>1. h \in AllCommands /\ w \in Writers /\ IsCommand(h, w, tokens[w]) /\ h.type = "POSITION"
  BY HeadIs
<1>2. IsPosition(h, w, tokens[w])
  BY <1>1 DEF IsCommand, IsRdata
<1>3. TokenOf(h) = h.new
  BY <1>1, CommandFields
<1>4. \A r \in Kept : r[2] \in Nat /\ (r[1] = w => r[2] <= h.new)
  BY <1>3, HeadIs, QueueTypes
<1>5. QED
  BY <1>1, <1>2, <1>3, <1>4, WriterTyped DEF IsPosition

(* A POSITION with nothing new is discarded. *)
LEMMA DiscardPositionInv ==
    ASSUME IInv, DiscardPosition
    PROVE  IInv'
<1> DEFINE h == queue[1].cmd
           c == queue[1].conn
<1>0. Struct
  BY DEF IInv
<1> PICK w : w = h.writer
  OBVIOUS
<1> DEFINE ts == tokens[w]
           p == pos[w]
<1>1. queue # <<>> /\ Head(queue) = queue[1]
  BY <1>0, HeadIs DEF DiscardPosition
<1>2. /\ queue' = Tail(queue) /\ fetch = {} /\ h.type = "POSITION"
      /\ h.new <= p /\ c \in connected
      /\ positioned' = positioned \cup {<<c, w>>} /\ stranded' = stranded \ {w}
      /\ UNCHANGED <<tokens, writers, link, pos, connected, batch, fetch, handled,
                     disturbed, faults>>
  BY <1>1 DEF DiscardPosition, CanDiscardPosition, Positioned
<1>3. /\ h \in AllCommands /\ w \in Writers /\ h.new \in Nat /\ TokenOf(h) = h.new /\ p \in Nat
      /\ \A r \in Kept : r[2] \in Nat /\ (r[1] = w => r[2] <= h.new)
  BY <1>0, <1>1, <1>2, HeadPositionIs
<1>4. Kept' = Kept
  BY <1>2 DEF Kept
<1>5. ReaderPops
  <2>1. /\ pos \in [Writers -> Nat] /\ \A v \in Writers : pos[v] <= Len(tokens[v])
        /\ batch \in Seq(Writers \X Nat \X {1, 2}) /\ disturbed \subseteq Hazards
        /\ stranded \subseteq Writers
    BY <1>0 DEF Struct, ReaderTypes
  <2> QED
    BY <1>1, <1>2, <1>4, <2>1 DEF ReaderPops
<1>6. Struct'
  BY <1>0, <1>5, ReaderPopsStruct
<1> SUFFICES ASSUME disturbed' = {}
             PROVE  OneBatch' /\ Rows!Complete' /\ \A v \in Writers : Contiguous(v)'
  BY <1>6 DEF IInv, Safe
<1>7. disturbed = {} /\ OneBatch /\ Rows!Complete
  BY <1>2 DEF IInv, Safe
<1>8. OneBatch' /\ Rows!Complete'
  BY <1>0, <1>2, <1>4, <1>7, DeliversComplete DEF OneBatch
<1>9. \A v \in Writers : Reached(v)' = Reached(v) /\ pos'[v] = pos[v]
  BY <1>2 DEF Reached
<1>10. ASSUME NEW v \in Writers, v # w PROVE Contiguous(v)'
  <2>1. SyncedOn(v)' = SyncedOn(v)
    BY <1>2, <1>10 DEF SyncedOn, Synced, link
  <2> QED
    BY <1>4, <1>5, <1>7, <1>9, <1>10, <2>1, PopsOther
<1>11. Contiguous(w)'
  <2>1. \A x \in SyncedOn(w)' : x \in SyncedOn(w) \/ x = queue[1].conn
    BY <1>2 DEF SyncedOn, Synced, link
  <2>2. pos[w] <= pos'[w]
    BY <1>3, <1>9
  <2>3. MayGoOn(w, ts, p, queue, Reached(w)', Kept', SyncedOn(w)')
    <3> SUFFICES ASSUME NEW b \in AllCommands, Chained(ts, p, h, b)
                 PROVE  Ready(w, ts, Reached(w), Kept, b)
      BY <1>3, <1>4, <1>9 DEF MayGoOn
    <3>1. Settled(ts, p, b)
      BY <1>2, <1>3, ChainedSettled
    <3>2. \A r \in Kept : r[1] = w => r[2] <= p
      BY <1>2, <1>3
    <3>3. p \in Reached(w)
      BY DEF Reached
    <3> DEFINE X == Reached(w)
               K == Kept
    <3> HIDE DEF X, K, ts, p
    <3>4. Ready(w, ts, X, K, b)
      BY <3>1, <3>2, <3>3, SettledReady DEF X, K
    <3> QED
      BY <3>4 DEF X, K
  <2> QED
    BY <1>3, <1>5, <1>7, <2>1, <2>2, <2>3, PopsOwn
<1>12. QED
  BY <1>8, <1>10, <1>11

(* _process_position: the missing updates are fetched, or there are none. *)
PositionMissing(h, c, w) ==
    /\ connected' = {} /\ UNCHANGED <<pos, handled, positioned, stranded>>
    /\ fetch' = {[writer |-> w, from |-> pos[w], new |-> h.new, conn |-> c]}

PositionTaken(h, c, w) ==
    /\ h.prev <= pos[w] /\ pos[w] <= h.new
    /\ handled' = handled /\ pos' = [pos EXCEPT ![w] = h.new]
    /\ connected' = {c} /\ fetch' = {}
    /\ positioned' = positioned \cup {<<c, w>>} /\ stranded' = stranded \ {w}

(* What a POSITION does: nothing, an advance, or the start of a fetch. *)
LEMMA ProcessPositionIs ==
    ASSUME Struct, ProcessPosition, NEW h, h = queue[1].cmd, NEW c, c = queue[1].conn,
           NEW w, w = h.writer
    PROVE  /\ h.type = "POSITION"
           /\ UNCHANGED <<tokens, writers, link, faults>>
           /\ queue # <<>> /\ queue' = Tail(queue) /\ fetch = {}
           /\ batch' = <<>> /\ Kept' = {}
           /\ disturbed \subseteq disturbed' /\ disturbed' \subseteq Hazards
           /\ disturbed' = {} => ~Foreign(w)
           /\ PositionMissing(h, c, w) \/ PositionTaken(h, c, w)
<1>1. queue # <<>> /\ Head(queue) = queue[1]
  BY HeadIs DEF ProcessPosition
<1>2. /\ h.type = "POSITION" /\ queue' = Tail(queue) /\ fetch = {} /\ batch' = <<>>
      /\ UNCHANGED <<tokens, writers, link, faults>>
      /\ disturbed' = IF Foreign(w) THEN disturbed \cup {"batch"} ELSE disturbed
  BY <1>1 DEF ProcessPosition
<1>3. Kept' = {}
  BY <1>2 DEF Kept
<1>4. /\ disturbed \subseteq disturbed' /\ disturbed' \subseteq Hazards
      /\ disturbed' = {} => ~Foreign(w)
  BY <1>2 DEF Hazards, Struct, ReaderTypes
<1>5. h.new \in Nat /\ pos[w] \in Nat /\ w \in Writers /\ pos \in [Writers -> Nat]
  BY <1>1, <1>2, HeadPositionIs DEF Struct, ReaderTypes
<1>6. CASE MissingUpdates(h)
  <2>1. PositionMissing(h, c, w)
    BY <1>1, <1>6 DEF ProcessPosition, PositionMissing
  <2> QED
    BY <1>1, <1>2, <1>3, <1>4, <2>1
<1>7. CASE ~MissingUpdates(h)
  <2>1. h.prev <= pos[w] /\ pos[w] <= h.new
    BY <1>7 DEF MissingUpdates
  <2>2. OnRdata(w, h.new, {}) /\ CaughtUp(w, c)
    BY <1>1, <1>7 DEF ProcessPosition
  <2>3. pos' = [pos EXCEPT ![w] = IF h.new > @ THEN h.new ELSE @] /\ handled' = handled
    BY <2>2 DEF OnRdata
  <2>4. (IF h.new > pos[w] THEN h.new ELSE pos[w]) = h.new
    BY <1>5, <2>1
  <2>5. pos' = [pos EXCEPT ![w] = h.new]
    BY <2>3, <2>4
  <2>6. PositionTaken(h, c, w)
    BY <2>1, <2>2, <2>3, <2>5 DEF CaughtUp, Positioned, PositionTaken
  <2> QED
    BY <1>1, <1>2, <1>3, <1>4, <2>6
<1>8. QED
  BY <1>6, <1>7

(* A POSITION moves the reader only past tokens without rows. *)
LEMMA ProcessPositionDelivers ==
    ASSUME IInv, ProcessPosition
    PROVE  UNCHANGED <<pos, handled>> \/ \E w, t : Delivers(w, t)
<1> DEFINE h == queue[1].cmd
           c == queue[1].conn
           t == h.new
<1>0. Struct
  BY DEF IInv
<1> PICK w : w = h.writer
  OBVIOUS
<1>1. /\ h.type = "POSITION" /\ queue # <<>>
      /\ PositionMissing(h, c, w) \/ PositionTaken(h, c, w)
  BY <1>0, ProcessPositionIs
<1>2. /\ w \in Writers /\ h.prev \in Nat /\ t \in Nat
      /\ h.prev <= t /\ t <= Len(tokens[w]) /\ NoneBetween(tokens[w], h.prev, t + 1)
      /\ pos[w] \in Nat /\ Len(tokens[w]) \in Nat
  BY <1>0, <1>1, HeadPositionIs
<1>3. CASE PositionMissing(h, c, w)
  BY <1>3 DEF PositionMissing
<1>4. CASE PositionTaken(h, c, w)
  <2>1. /\ h.prev <= pos[w] /\ pos[w] <= t
        /\ handled' = handled /\ pos' = [pos EXCEPT ![w] = t]
    BY <1>4 DEF PositionTaken
  <2>2. CASE pos[w] = t
    <3>1. pos' = pos
      BY <1>0, <2>1, <2>2 DEF Struct, ReaderTypes
    <3> QED
      BY <2>1, <3>1
  <2>3. CASE pos[w] # t
    <3> DEFINE p == pos[w]
               ts == tokens[w]
    <3>1. p \in Nat /\ t + 1 \in Nat /\ h.prev <= p /\ p < t /\ t \in 1 .. Len(ts)
      BY <1>2, <2>1, <2>3
    <3> HIDE DEF p, ts, t
    <3>2. NoneBetween(ts, p, t + 1)
      BY <1>2, <3>1, NoneBetweenFrom DEF ts
    <3>3. RowsBetween(w, ts, p, t) = {}
      BY <1>2, <3>1, <3>2, RowsNone
    <3>4. Delivers(w, t)
      BY <1>2, <2>1, <3>1, <3>3 DEF Delivers, ts, p
    <3> QED
      BY <3>4
  <2> QED
    BY <2>2, <2>3
<1>5. QED
  BY <1>1, <1>3, <1>4

(* A POSITION is processed. *)
LEMMA ProcessPositionInv ==
    ASSUME IInv, ProcessPosition
    PROVE  IInv'
<1> DEFINE h == queue[1].cmd
           c == queue[1].conn
<1>0. Struct
  BY DEF IInv
<1> PICK w : w = h.writer
  OBVIOUS
<1> DEFINE ts == tokens[w]
           p == pos[w]
<1> PICK f0 : f0 = [writer |-> w, from |-> p, new |-> h.new, conn |-> c]
  OBVIOUS
<1>1. /\ h.type = "POSITION"
      /\ UNCHANGED <<tokens, writers, link, faults>>
      /\ queue # <<>> /\ queue' = Tail(queue) /\ fetch = {}
      /\ batch' = <<>> /\ Kept' = {}
      /\ disturbed \subseteq disturbed' /\ disturbed' \subseteq Hazards
      /\ disturbed' = {} => ~Foreign(w)
  BY <1>0, ProcessPositionIs
<1>2. PositionMissing(h, c, w) \/ PositionTaken(h, c, w)
  BY <1>0, ProcessPositionIs
<1>3. /\ h \in AllCommands /\ w \in Writers /\ h.prev \in Nat /\ h.new \in Nat
      /\ TokenOf(h) = h.new /\ h.new <= Len(ts) /\ p \in Nat
  BY <1>0, <1>1, HeadPositionIs
<1>4. c \in 1 .. conn /\ c \in Nat
  BY <1>0, <1>1, HeadIs
<1>5. /\ pos \in [Writers -> Nat] /\ \A v \in Writers : pos[v] <= Len(tokens[v])
      /\ stranded \subseteq Writers
  BY <1>0 DEF Struct, ReaderTypes
<1>6. ReaderPops
  <2>1. batch' \in Seq(Writers \X Nat \X {1, 2}) /\ \A r \in Kept' : r \in Kept
    BY <1>1
  <2>2. CASE PositionMissing(h, c, w)
    <3>1. /\ connected' = {} /\ pos' = pos /\ positioned' = positioned /\ stranded' = stranded
          /\ fetch' = {f0}
      BY <2>2 DEF PositionMissing
    <3>2. /\ f0 \in [writer : Writers, from : Nat, new : Nat, conn : Nat]
          /\ f0.writer = w /\ f0.from = p /\ f0.new = h.new /\ f0.conn = c
      BY <1>3, <1>4
    <3>3. FetchOK(f0)'
      BY <1>1, <1>3, <1>4, <3>1, <3>2 DEF FetchOK, link
    <3>4. f0 \in fetch' /\ f0.conn = queue[1].conn
      BY <3>1, <3>2
    <3> QED
      BY <1>1, <1>5, <2>1, <3>1, <3>3, <3>4 DEF ReaderPops
  <2>3. CASE PositionTaken(h, c, w)
    <3>1. /\ connected' = {c} /\ fetch' = {} /\ pos' = [pos EXCEPT ![w] = h.new]
          /\ positioned' = positioned \cup {<<c, w>>} /\ stranded' = stranded \ {w}
      BY <2>3 DEF PositionTaken
    <3>2. pos' \in [Writers -> Nat] /\ \A v \in Writers : pos'[v] <= Len(tokens[v])
      <4>1. h.new \in Nat /\ h.new <= Len(tokens[w])
        BY <1>3
      <4> HIDE DEF h
      <4> QED
        BY <1>3, <1>5, <3>1, <4>1
    <3> QED
      BY <1>1, <1>5, <2>1, <3>1, <3>2 DEF ReaderPops
  <2> QED
    BY <1>2, <2>2, <2>3
<1>7. Struct'
  BY <1>0, <1>6, ReaderPopsStruct
<1> SUFFICES ASSUME disturbed' = {}
             PROVE  OneBatch' /\ Rows!Complete' /\ \A v \in Writers : Contiguous(v)'
  BY <1>7 DEF IInv, Safe
<1>8. disturbed = {} /\ Rows!Complete /\ \A r \in Kept : r[1] = w
  BY <1>1, NotForeign DEF IInv, Safe
<1>9. OneBatch' /\ Rows!Complete'
  BY <1>0, <1>1, <1>8, ProcessPositionDelivers, DeliversComplete DEF OneBatch
<1>10. ASSUME NEW v \in Writers, v # w PROVE Contiguous(v)'
  <2>1. \A r : r[1] = v => (r \in Kept <=> r \in Kept')
    BY <1>1, <1>8, <1>10
  <2>2. SyncedOn(v)' = SyncedOn(v) /\ pos'[v] = pos[v] /\ Reached(v)' = Reached(v)
    <3>1. CASE PositionMissing(h, c, w)
      <4>1. positioned' = positioned /\ fetch' = {f0} /\ fetch = {} /\ pos' = pos /\ conn' = conn
        BY <1>1, <3>1 DEF PositionMissing, link
      <4>2. f0.writer # v
        BY <1>10
      <4> QED
        BY <4>1, <4>2 DEF SyncedOn, Synced, Reached
    <3>2. CASE PositionTaken(h, c, w)
      <4>1. /\ positioned' = positioned \cup {<<c, w>>} /\ fetch' = {} /\ fetch = {}
            /\ pos'[v] = pos[v] /\ conn' = conn
        BY <1>1, <1>5, <1>10, <3>2 DEF PositionTaken, link
      <4> QED
        BY <1>10, <4>1 DEF SyncedOn, Synced, Reached
    <3> QED
      BY <1>2, <3>1, <3>2
  <2> QED
    BY <1>6, <1>8, <1>10, <2>1, <2>2, PopsOther
<1>11. Contiguous(w)'
  <2>1. \A x \in SyncedOn(w)' : x \in SyncedOn(w) \/ x = queue[1].conn
    <3>1. CASE PositionMissing(h, c, w)
      <4>1. positioned' = positioned /\ fetch' = {f0} /\ f0.conn = c /\ conn' = conn
        BY <1>1, <3>1 DEF PositionMissing, link
      <4> QED
        BY <4>1 DEF SyncedOn, Synced
    <3>2. CASE PositionTaken(h, c, w)
      <4>1. positioned' = positioned \cup {<<c, w>>} /\ fetch' = {} /\ conn' = conn
        BY <1>1, <3>2 DEF PositionTaken, link
      <4> QED
        BY <4>1 DEF SyncedOn, Synced
    <3> QED
      BY <1>2, <3>1, <3>2
  <2>2. ASSUME PositionTaken(h, c, w) PROVE pos'[w] = h.new /\ p <= h.new
    BY <1>3, <1>5, <2>2 DEF PositionTaken
  <2>3. pos[w] <= pos'[w]
    <3>1. PositionMissing(h, c, w) => pos' = pos
      BY DEF PositionMissing
    <3> QED
      BY <1>2, <1>3, <2>2, <3>1
  <2>4. MayGoOn(w, ts, p, queue, Reached(w)', Kept', SyncedOn(w)')
    <3> SUFFICES ASSUME NEW b \in AllCommands, Chained(ts, p, h, b)
                 PROVE  Ready(w, ts, Reached(w)', {}, b)
      BY <1>1, <1>3 DEF MayGoOn
    <3>1. CASE PositionMissing(h, c, w)
      <4>1. p \in Reached(w)' /\ h.new \in Reached(w)'
        <5>1. pos' = pos /\ fetch' = {f0} /\ f0.writer = w /\ f0.new = h.new
          BY <3>1 DEF PositionMissing
        <5> QED
          BY <5>1 DEF Reached
      <4> DEFINE X == Reached(w)'
      <4> HIDE DEF X, p, ts
      <4> SUFFICES ASSUME b.type = "RDATA"
                   PROVE  \E x \in X : NoneBetween(ts, x, b.row[2]) /\ b.row[3] # 2
        BY DEF Ready, X
      <4>2. b.row[3] = 1 /\ (NoneBetween(ts, h.new, b.row[2]) \/ NoneBetween(ts, p, b.row[2]))
        BY <1>1, <1>3 DEF Chained
      <4>3. b.row[3] # 2
        BY <4>2
      <4> QED
        BY <4>1, <4>2, <4>3 DEF X
    <3>2. CASE PositionTaken(h, c, w)
      <4> DEFINE p2 == h.new
      <4>1. Reached(w)' = {p2}
        BY <2>2, <3>2 DEF Reached, PositionTaken
      <4>2. p <= p2
        BY <2>2, <3>2
      <4>3. p2 \in Nat /\ TokenOf(h) <= p2 /\ h \in AllCommands /\ p \in Nat
        BY <1>3
      <4> HIDE DEF p2, p, ts, h
      <4>4. Settled(ts, p2, b)
        BY <4>2, <4>3, ChainedFurther, ChainedSettled
      <4>5. p2 \in {p2} /\ \A r \in {} : r[1] = w => r[2] <= p2
        OBVIOUS
      <4>6. Ready(w, ts, {p2}, {}, b)
        BY <4>4, <4>5, SettledReady
      <4> QED
        BY <4>1, <4>6
    <3> QED
      BY <1>2, <3>1, <3>2
  <2> QED
    BY <1>3, <1>6, <1>8, <2>1, <2>3, <2>4, PopsOwn
<1>12. QED
  BY <1>9, <1>10, <1>11

(* A step of the reader that leaves its queue alone. *)
ReaderStays ==
    /\ UNCHANGED <<tokens, streamer, out, gap, queue, batch, disturbed>>
    /\ asked' \subseteq Writers /\ stranded' \subseteq Writers
    /\ pos' \in [Writers -> Nat] /\ \A w \in Writers : pos'[w] <= Len(tokens[w])
    /\ fetch' = {} \/ \E f \in fetch' : fetch' = {f} /\ FetchOK(f)'
    /\ Connections'

(* A reader's step that takes nothing off its queue. *)
LEMMA ReaderStaysInv ==
    ASSUME IInv, ReaderStays,
           disturbed = {} => Rows!Complete' /\ \A v \in Writers : Contiguous(v)'
    PROVE  IInv'
<1>0. Struct
  BY DEF IInv
<1>1. UNCHANGED <<tokens, streamer, out, gap, queue, batch, disturbed>>
  BY DEF ReaderStays
<1>2. Kept' = Kept
  BY <1>1 DEF Kept
<1>3. WriterTypes'
  BY <1>0, <1>1 DEF Struct, WriterTypes, ReaderStays
<1>4. ReaderTypes'
  BY <1>0, <1>1, <1>2 DEF Struct, ReaderTypes, ReaderStays
<1>5. Ascending'
  BY <1>0, <1>1, <1>2 DEF Struct, Ascending
<1>6. Struct'
  BY <1>3, <1>4, <1>5 DEF Struct, ReaderStays
<1>7. disturbed' = {} => OneBatch'
  BY <1>1, <1>2 DEF IInv, Safe, OneBatch
<1>8. QED
  BY <1>1, <1>6, <1>7 DEF IInv, Safe

(* The reader gets further with v, or on fewer connections. *)
LEMMA StaysContiguous ==
    ASSUME IInv, disturbed = {}, UNCHANGED <<tokens, streamer, out, gap, queue, batch, conn>>,
           NEW v \in Writers, online' \in BOOLEAN, online' => online,
           SyncedOn(v)' \subseteq SyncedOn(v),
           \/ pos'[v] = pos[v] /\ Reached(v)' = Reached(v)
           \/ /\ pos'[v] \in Nat /\ pos[v] <= pos'[v] /\ Kept = {} /\ Reached(v)' \subseteq Nat
              /\ \A x \in Reached(v) : \E x2 \in Reached(v)' : x <= x2
    PROVE  Contiguous(v)'
<1> DEFINE ts == tokens[v]
           p == pos[v]
           p2 == pos'[v]
           X == Reached(v)
           X2 == Reached(v)'
           K == Kept
           Y == SyncedOn(v)
           Y2 == SyncedOn(v)'
           C == Coming(v)
           on2 == online'
<1>0. Struct
  BY DEF IInv
<1>1. Coming(v)' = C /\ Kept' = K
  BY DEF Coming, Kept
<1> SUFFICES Contig(v, ts, p2, X2, K, queue, Y2, conn, on2, C)
  BY <1>1 DEF Contiguous
<1>2. Contig(v, ts, p, X, K, queue, Y, conn, online, C)
  BY DEF IInv, Safe, Contiguous
<1>3. /\ C \in Seq(AllCommands) /\ online \in BOOLEAN /\ p \in Nat /\ X \in SUBSET Nat
      /\ \A k \in DOMAIN queue : queue[k].cmd \in AllCommands
  BY <1>0, QueueTypes, WriterTyped, ReachedType DEF Struct, Connections
<1>4. \/ p2 = p /\ X2 = X
      \/ /\ p2 \in Nat /\ p <= p2 /\ K = {} /\ X2 \in SUBSET Nat
         /\ \A x \in X : \E x2 \in X2 : x <= x2
  OBVIOUS
<1>5. Y2 \subseteq Y /\ on2 \in BOOLEAN /\ (on2 => online)
  OBVIOUS
<1> HIDE DEF ts, p, p2, X, X2, K, Y, Y2, C, on2
<1>6. \A a, b \in AllCommands : Chained(ts, p, a, b) => Chained(ts, p2, a, b)
  BY <1>3, <1>4, ChainedFurther
<1>7. \A b \in AllCommands : Ready(v, ts, X, K, b) => Ready(v, ts, X2, K, b)
  <2>1. CASE X2 = X
    BY <2>1
  <2>2. CASE /\ K = {} /\ X2 \in SUBSET Nat
             /\ \A x \in X : \E x2 \in X2 : x <= x2
    <3>1. \A b \in AllCommands : Ready(v, ts, X, {}, b) => Ready(v, ts, X2, {}, b)
      BY <1>3, <2>2, ReadyFurther
    <3> QED
      BY <2>2, <3>1
  <2> QED
    BY <1>4, <2>1, <2>2
<1>8. Contig(v, ts, p2, X2, K, queue, Y2, conn, online, C)
  BY <1>2, <1>3, <1>5, <1>6, <1>7, ContigMap
<1>9. QED
  BY <1>5, <1>8 DEF Contig

(* A query for missing updates returns a part of them, up to t, or all. *)
FetchedPart(f, t) ==
    /\ Delivers(f.writer, t) /\ t <= f.new
    /\ fetch' = {[writer |-> f.writer, from |-> t, new |-> f.new, conn |-> f.conn]}
    /\ UNCHANGED <<connected, positioned, stranded>>

FetchedAll(f) ==
    /\ \/ f.new <= pos[f.writer] /\ UNCHANGED <<pos, handled>>
       \/ Delivers(f.writer, f.new)
    /\ connected' = {f.conn} /\ fetch' = {}
    /\ positioned' = positioned \cup {<<f.conn, f.writer>>}
    /\ stranded' = stranded \ {f.writer}

(* What a fetch returns: all up to its end, or a part with more to come. *)
LEMMA FetchMissingIs ==
    ASSUME Struct, FetchMissing
    PROVE  /\ UNCHANGED <<tokens, writers, link, batch, queue, disturbed, faults>>
           /\ \E f \in fetch : /\ fetch = {f} /\ FetchOK(f)
                               /\ FetchedAll(f) \/ \E t : FetchedPart(f, t)
<1>1. PICK f \in fetch : fetch = {f} /\ FetchOK(f)
  BY DEF Struct, ReaderTypes, FetchMissing
<1> DEFINE w == f.writer
           ts == tokens[w]
           p == pos[w]
           n == f.new
           u == Updates(ts, f.from, n)
<1>2. /\ w \in Writers /\ p \in Nat /\ n \in Nat /\ f.from = p /\ n <= Len(ts)
      /\ pos \in [Writers -> Nat] /\ Len(ts) \in Nat
      /\ f = [writer |-> f.writer, from |-> f.from, new |-> f.new, conn |-> f.conn]
  BY <1>1, WriterTyped DEF FetchOK, Struct, ReaderTypes
<1>3. UNCHANGED <<tokens, writers, link, batch, queue, disturbed, faults>>
  BY DEF FetchMissing
<1>4. /\ u.limited => /\ OnRdata(w, Largest(WithRows(ts, p, u.upto)),
                                RowsBetween(w, ts, p, u.upto))
                      /\ fetch' = {[f EXCEPT !.from = u.upto]}
                      /\ UNCHANGED <<connected, positioned, stranded>>
      /\ ~u.limited => OnRdata(w, n, RowsBetween(w, ts, p, u.upto)) /\ CaughtUp(w, f.conn)
  BY <1>1, <1>2 DEF FetchMissing
<1>5. /\ u.limited \in BOOLEAN
      /\ u.limited => u.upto \in WithRows(ts, p, n)
      /\ ~u.limited => u.upto = n
  BY <1>2, UpdatesIs
<1>6. ASSUME u.limited PROVE FetchedPart(f, u.upto)
  <2> DEFINE t == u.upto
             S == WithRows(ts, p, t)
  <2>1. t \in WithRows(ts, p, n)
    BY <1>5, <1>6
  <2>2. t \in Nat /\ p < t /\ t <= n
    <3> HIDE DEF t, ts, p, n
    <3>1. t \in 1 .. n /\ p < t /\ t <= n
      BY <1>2, <2>1, WithRowsIs
    <3> QED
      BY <1>2, <3>1
  <2>3. t \in S
    <3> HIDE DEF t, ts, p, n
    <3> QED
      BY <1>2, <2>1, <2>2 DEF WithRows
  <2>4. Largest(S) = t
    <3>1. S \subseteq 1 .. t /\ \A x \in S : x <= t
      <4> HIDE DEF t, ts, p, n
      <4> QED
        BY <1>2, <2>2, WithRowsIs
    <3> HIDE DEF S, t
    <3>2. Largest(S) \in S /\ \A x \in S : x <= Largest(S)
      BY <2>2, <2>3, <3>1, LargestProps
    <3>3. Largest(S) <= t /\ t <= Largest(S) /\ Largest(S) \in 1 .. t
      BY <2>3, <3>1, <3>2
    <3> QED
      BY <2>2, <3>3
  <2>5. /\ OnRdata(w, t, RowsBetween(w, ts, p, t))
        /\ fetch' = {[f EXCEPT !.from = t]}
        /\ UNCHANGED <<connected, positioned, stranded>>
    BY <1>4, <1>6, <2>4
  <2>6. [f EXCEPT !.from = t] = [writer |-> f.writer, from |-> t, new |-> f.new, conn |-> f.conn]
    <3> HIDE DEF t
    <3> QED
      BY <1>2
  <2> HIDE DEF t
  <2>7. handled' = handled \cup RowsBetween(w, ts, p, t) /\ pos' = [pos EXCEPT ![w] = t]
    BY <1>2, <2>2, <2>5 DEF OnRdata
  <2>8. Delivers(w, t)
    <3>1. t \in 1 .. Len(ts)
      BY <1>2, <2>2
    <3> QED
      BY <1>2, <2>2, <2>7, <3>1 DEF Delivers
  <2>9. FetchedPart(f, t)
    BY <2>2, <2>5, <2>6, <2>8 DEF FetchedPart
  <2> QED
    BY <2>9 DEF t
<1>7. ASSUME ~u.limited PROVE FetchedAll(f)
  <2>1. OnRdata(w, n, RowsBetween(w, ts, p, n)) /\ CaughtUp(w, f.conn)
    BY <1>4, <1>5, <1>7
  <2>2. /\ handled' = handled \cup RowsBetween(w, ts, p, n)
        /\ pos' = [pos EXCEPT ![w] = IF n > p THEN n ELSE p]
    BY <2>1 DEF OnRdata
  <2>3. CASE n <= p
    <3>1. pos' = pos
      <4>1. ~(n > p)
        BY <1>2, <2>3
      <4> QED
        BY <1>2, <2>2, <4>1
    <3>2. RowsBetween(w, ts, p, n) = {}
      <4> HIDE DEF w, ts, p, n
      <4>1. (p + 1) .. n = {}
        BY <1>2, <2>3
      <4> QED
        BY <4>1 DEF RowsBetween
    <3> QED
      BY <2>1, <2>2, <2>3, <3>1, <3>2 DEF FetchedAll, CaughtUp, Positioned
  <2>4. CASE p < n
    <3>1. n \in 1 .. Len(ts) /\ n > p
      BY <1>2, <2>4
    <3>2. Delivers(w, n)
      BY <1>2, <2>2, <2>4, <3>1 DEF Delivers
    <3> QED
      BY <2>1, <3>2 DEF FetchedAll, CaughtUp, Positioned
  <2> QED
    BY <1>2, <2>3, <2>4
<1>8. FetchedAll(f) \/ \E t : FetchedPart(f, t)
  BY <1>5, <1>6, <1>7
<1>9. QED
  BY <1>1, <1>3, <1>8

(* A fetch delivers every row between the position and where it moves it. *)
LEMMA FetchMissingDelivers ==
    ASSUME IInv, FetchMissing
    PROVE  UNCHANGED <<pos, handled>> \/ \E w, t : Delivers(w, t)
<1>1. Struct
  BY DEF IInv
<1>2. QED
  BY <1>1, FetchMissingIs DEF FetchedAll, FetchedPart

(* The missing rows are fetched. *)
LEMMA FetchMissingInv ==
    ASSUME IInv, FetchMissing
    PROVE  IInv'
<1>0. Struct
  BY DEF IInv
<1>1. PICK f \in fetch : /\ fetch = {f} /\ FetchOK(f)
                         /\ FetchedAll(f) \/ \E t : FetchedPart(f, t)
  BY <1>0, FetchMissingIs
<1>2. /\ UNCHANGED <<tokens, streamer, out, asked, gap, online, conn, batch, queue,
                     disturbed, faults>>
  BY <1>0, FetchMissingIs DEF writers, link
<1> DEFINE w == f.writer
           n == f.new
           c == f.conn
<1>3. /\ w \in Writers /\ n \in Nat /\ n <= Len(tokens[w]) /\ c \in 1 .. conn /\ c \in Nat
      /\ pos \in [Writers -> Nat] /\ \A v \in Writers : pos[v] <= Len(tokens[v])
  BY <1>0, <1>1 DEF FetchOK, Struct, ReaderTypes
<1>4. connected = {} /\ batch = <<>> /\ \A k \in DOMAIN queue : c <= queue[k].conn
  BY <1>0, <1>1 DEF Struct, Connections
<1>5. \A z \in positioned : Live(z[1]) => z[1] = c
  BY <1>0, <1>1, <1>4 DEF Struct, Connections
<1>6. \A x : Live(x)' <=> Live(x)
  BY <1>2 DEF Live
<1>7. /\ online \in BOOLEAN /\ conn \in 1 .. 2 /\ positioned \subseteq (1 .. conn) \X Writers
      /\ ~online => conn = 1
      /\ ~online \/ conn = 2 => "reader" \in faults
      /\ \A k \in DOMAIN queue : queue[k].conn \in 1 .. conn
      /\ \A j, k \in DOMAIN queue : j <= k => queue[j].conn <= queue[k].conn
      /\ asked \subseteq Writers /\ stranded \subseteq Writers
  BY <1>0 DEF Struct, Connections, WriterTypes, ReaderTypes
<1>8. Kept = {} /\ w = f.writer /\ n = f.new /\ c = f.conn
  BY <1>4 DEF Kept
<1>9. /\ pos' \in [Writers -> Nat]
      /\ \A v \in Writers : pos'[v] <= Len(tokens[v]) /\ pos[v] <= pos'[v]
      /\ \A v \in Writers : v # w => pos'[v] = pos[v]
  <2>1. ASSUME NEW t, Delivers(w, t)
        PROVE  /\ pos' \in [Writers -> Nat]
               /\ \A v \in Writers : pos'[v] <= Len(tokens[v]) /\ pos[v] <= pos'[v]
               /\ \A v \in Writers : v # w => pos'[v] = pos[v]
    <3>1. t \in 1 .. Len(tokens[w]) /\ pos[w] < t /\ pos' = [pos EXCEPT ![w] = t]
      BY <2>1 DEF Delivers
    <3>2. t \in Nat /\ t <= Len(tokens[w]) /\ pos[w] <= t
      BY <1>0, <1>3, <3>1, WriterTyped
    <3> HIDE DEF w
    <3>3. \A v \in Writers : pos'[v] = IF v = w THEN t ELSE pos[v]
      BY <1>3, <3>1
    <3>4. pos' \in [Writers -> Nat]
      BY <1>3, <3>1, <3>2
    <3>5. \A v \in Writers : pos[v] <= pos[v]
      BY <1>3
    <3> QED
      BY <1>3, <3>2, <3>3, <3>4, <3>5
  <2>2. CASE pos' = pos
    BY <1>3, <2>2
  <2> QED
    BY <1>1, <2>1, <2>2 DEF FetchedAll, FetchedPart
<1> HIDE DEF w, n, c
<1>10. ASSUME FetchedAll(f)
       PROVE  /\ ReaderStays
              /\ \A v \in Writers : SyncedOn(v)' = SyncedOn(v)
              /\ \A v \in Writers : v # w => Reached(v)' = Reached(v)
              /\ \A x \in Reached(w) : x <= pos'[w]
              /\ Reached(w)' = {pos'[w]}
  <2>1. /\ connected' = {c} /\ fetch' = {} /\ positioned' = positioned \cup {<<c, w>>}
        /\ stranded' = stranded \ {w}
    BY <1>8, <1>10 DEF FetchedAll
  <2>2. \A z \in positioned' : Live(z[1])' => z[1] \in connected'
    BY <1>5, <1>6, <2>1
  <2>3. positioned' \subseteq (1 .. conn) \X Writers /\ connected' \subseteq 1 .. conn
    BY <1>3, <1>7, <2>1
  <2>4. Connections'
    BY <1>2, <1>4, <1>7, <2>1, <2>2, <2>3 DEF Connections
  <2>5. ReaderStays
    BY <1>2, <1>7, <1>9, <2>1, <2>4 DEF ReaderStays
  <2>6. \A v \in Writers : SyncedOn(v)' = SyncedOn(v)
    BY <1>1, <1>2, <1>8, <2>1 DEF SyncedOn, Synced
  <2>7. \A v \in Writers : v # w => Reached(v)' = Reached(v)
    BY <1>1, <1>8, <1>9, <2>1 DEF Reached
  <2>8. Reached(w)' = {pos'[w]} /\ \A x \in Reached(w) : x = pos[w] \/ x = n
    BY <1>1, <1>8, <2>1 DEF Reached
  <2>9. n <= pos'[w]
    <3>1. CASE f.new <= pos[f.writer] /\ UNCHANGED <<pos, handled>>
      BY <1>8, <3>1
    <3>2. CASE Delivers(f.writer, f.new)
      BY <1>3, <1>8, <3>2 DEF Delivers
    <3> QED
      BY <1>10, <3>1, <3>2 DEF FetchedAll
  <2> QED
    BY <1>3, <1>9, <2>5, <2>6, <2>7, <2>8, <2>9
<1>11. ASSUME NEW t, FetchedPart(f, t)
       PROVE  /\ ReaderStays
              /\ \A v \in Writers : SyncedOn(v)' = SyncedOn(v)
              /\ \A v \in Writers : v # w => Reached(v)' = Reached(v)
              /\ \A x \in Reached(w) : x <= pos'[w] \/ x = n
              /\ Reached(w)' = {pos'[w], n}
  <2> PICK g : g = [writer |-> f.writer, from |-> t, new |-> f.new, conn |-> f.conn]
    OBVIOUS
  <2>1. /\ connected' = {} /\ positioned' = positioned /\ stranded' = stranded
        /\ fetch' = {g} /\ pos' = [pos EXCEPT ![w] = t]
        /\ t \in 1 .. Len(tokens[w])
    BY <1>4, <1>8, <1>11 DEF FetchedPart, Delivers
  <2>2. pos'[w] = t /\ t \in Nat
    BY <1>0, <1>3, <2>1, WriterTyped
  <2>3. /\ g \in [writer : Writers, from : Nat, new : Nat, conn : Nat]
        /\ g.writer = w /\ g.from = t /\ g.new = n /\ g.conn = c
    BY <1>3, <1>8, <2>2
  <2>4. FetchOK(g)'
    BY <1>2, <1>3, <2>2, <2>3 DEF FetchOK
  <2>5. \A z \in positioned' : Live(z[1])' => \E x \in fetch' : x.conn = z[1]
    BY <1>5, <1>6, <2>1, <2>3
  <2>6. Connections'
    BY <1>2, <1>4, <1>7, <2>1, <2>3, <2>5 DEF Connections
  <2>7. ReaderStays
    BY <1>2, <1>7, <1>9, <2>1, <2>4, <2>6 DEF ReaderStays
  <2>8. \A v \in Writers : SyncedOn(v)' = SyncedOn(v)
    BY <1>1, <1>2, <1>8, <2>1, <2>3 DEF SyncedOn, Synced
  <2>9. \A v \in Writers : v # w => Reached(v)' = Reached(v)
    BY <1>1, <1>8, <1>9, <2>1, <2>3 DEF Reached
  <2>10. Reached(w)' = {pos'[w], n} /\ \A x \in Reached(w) : x = pos[w] \/ x = n
    BY <1>1, <1>8, <2>1, <2>3 DEF Reached
  <2> QED
    BY <1>3, <1>9, <2>7, <2>8, <2>9, <2>10
<1>12. /\ ReaderStays
       /\ \A v \in Writers : SyncedOn(v)' = SyncedOn(v)
       /\ \A v \in Writers : v # w => Reached(v)' = Reached(v)
       /\ Reached(w)' \subseteq Nat
       /\ \A x \in Reached(w) : \E y \in Reached(w)' : x <= y
  <2>1. pos'[w] \in Nat /\ n \in Nat /\ n <= n
    BY <1>3, <1>9
  <2> QED
    BY <1>1, <1>10, <1>11, <2>1
<1>13. ASSUME disturbed = {} PROVE Rows!Complete'
  BY <1>0, <1>2, <1>13, FetchMissingDelivers, DeliversComplete DEF IInv, Safe
<1>14. ASSUME disturbed = {}, NEW v \in Writers PROVE Contiguous(v)'
  <2>1. UNCHANGED <<tokens, streamer, out, gap, queue, batch, conn>>
    BY <1>2
  <2>2. online' \in BOOLEAN /\ (online' => online) /\ SyncedOn(v)' \subseteq SyncedOn(v)
    BY <1>2, <1>7, <1>12
  <2>3. \/ pos'[v] = pos[v] /\ Reached(v)' = Reached(v)
        \/ /\ pos'[v] \in Nat /\ pos[v] <= pos'[v] /\ Kept = {} /\ Reached(v)' \subseteq Nat
           /\ \A x \in Reached(v) : \E y \in Reached(v)' : x <= y
    BY <1>8, <1>9, <1>12
  <2> QED
    BY <1>14, <2>1, <2>2, <2>3, StaysContiguous
<1>15. QED
  BY <1>12, <1>13, <1>14, ReaderStaysInv

(* The fetch fails: the reader stays where it is. *)
LEMMA FetchFailsInv ==
    ASSUME IInv, FetchFails
    PROVE  IInv'
<1>0. Struct
  BY DEF IInv
<1>1. /\ UNCHANGED <<tokens, streamer, out, asked, gap, online, conn, pos, connected, batch,
                     handled, queue, disturbed>>
      /\ fetch' = {} /\ positioned' = {} /\ stranded' = Writers
      /\ "reader" \in faults => "reader" \in faults'
  BY DEF FetchFails, Fault, writers, link
<1>2. Connections'
  BY <1>0, <1>1 DEF Struct, Connections
<1>3. ReaderStays
  BY <1>0, <1>1, <1>2 DEF ReaderStays, Struct, WriterTypes, ReaderTypes
<1>4. ASSUME disturbed = {} PROVE Rows!Complete'
  BY <1>0, <1>1, <1>4, DeliversComplete DEF IInv, Safe
<1>5. ASSUME disturbed = {}, NEW v \in Writers PROVE Contiguous(v)'
  <2> DEFINE ts == tokens[v]
             p == pos[v]
             X == Reached(v)
             X2 == Reached(v)'
             K == Kept
             Y == SyncedOn(v)
             C == Coming(v)
  <2>1. Coming(v)' = C /\ Kept' = K /\ SyncedOn(v)' = {}
    BY <1>1 DEF Coming, Kept, SyncedOn, Synced
  <2> SUFFICES Contig(v, ts, p, X2, K, queue, {}, conn, online, C)
    BY <1>1, <2>1 DEF Contiguous
  <2>2. Contig(v, ts, p, X, K, queue, Y, conn, online, C) /\ online \in BOOLEAN
    BY <1>0, <1>5 DEF IInv, Safe, Contiguous, Struct, Connections
  <2> HIDE DEF ts, p, X, X2, K, Y, C
  <2> QED
    BY <2>2, ContigUnsynced
<1>6. QED
  BY <1>3, <1>4, <1>5, ReaderStaysInv

(* The reader's connection is lost. *)
LEMMA ReaderLostInv ==
    ASSUME IInv, ReaderLost
    PROVE  IInv'
<1>0. Struct
  BY DEF IInv
<1>1. /\ UNCHANGED <<tokens, streamer, out, asked, gap, conn, pos, batch, fetch, handled,
                     stranded, queue, disturbed>>
      /\ online' = FALSE /\ connected' = connected \ {conn}
      /\ positioned' = {z \in positioned : z[1] # conn}
      /\ "reader" \notin faults /\ "reader" \in faults'
  BY DEF ReaderLost, Fault, writers
<1>2. Connections'
  <2>1. conn = 1
    BY <1>0, <1>1 DEF Struct, Connections
  <2>2. \A x : Live(x)' <=> Live(x)
    BY <1>1 DEF Live
  <2>3. \A z \in positioned' : Live(z[1])' =>
            z[1] \in connected' \/ \E f \in fetch : f.conn = z[1]
    BY <1>0, <1>1, <2>2 DEF Struct, Connections
  <2>4. connected' \subseteq connected /\ positioned' \subseteq positioned
    BY <1>1
  <2> QED
    BY <1>0, <1>1, <2>1, <2>3, <2>4 DEF Struct, Connections
<1>3. ReaderStays
  <2>1. fetch' = {} \/ \E f \in fetch' : fetch' = {f} /\ FetchOK(f)'
    BY <1>0, <1>1 DEF Struct, ReaderTypes, FetchOK
  <2> QED
    BY <1>0, <1>1, <1>2, <2>1 DEF ReaderStays, Struct, WriterTypes, ReaderTypes
<1>4. ASSUME disturbed = {} PROVE Rows!Complete'
  BY <1>0, <1>1, <1>4, DeliversComplete DEF IInv, Safe
<1>5. ASSUME disturbed = {}, NEW v \in Writers PROVE Contiguous(v)'
  <2>1. UNCHANGED <<tokens, streamer, out, gap, queue, batch, conn>>
    BY <1>1
  <2>2. online' \in BOOLEAN /\ (online' => online)
    BY <1>1
  <2>3. SyncedOn(v)' \subseteq SyncedOn(v) /\ pos'[v] = pos[v] /\ Reached(v)' = Reached(v)
    BY <1>1 DEF SyncedOn, Synced, Reached
  <2> QED
    BY <1>5, <2>1, <2>2, <2>3, StaysContiguous
<1>6. QED
  BY <1>3, <1>4, <1>5, ReaderStaysInv

(* The reader connects again and asks every writer for its position. *)
LEMMA ReaderConnectsInv ==
    ASSUME IInv, ReaderConnects
    PROVE  IInv'
<1>0. Struct
  BY DEF IInv
<1>1. /\ UNCHANGED <<tokens, streamer, out, gap, pos, connected, batch, fetch, handled,
                     positioned, stranded, queue, disturbed, faults>>
      /\ ~online /\ online' = TRUE /\ asked' = Writers
  BY DEF ReaderConnects, reader
<1>2. conn = 1 /\ conn' = 2 /\ "reader" \in faults
  BY <1>0, <1>1 DEF ReaderConnects, Struct, Connections
<1>3. \A x \in 1 .. 1 : x \in 1 .. 2 /\ x # 2
  OBVIOUS
<1>4. /\ \A k \in DOMAIN queue : queue[k].conn \in 1 .. 1
      /\ connected \subseteq 1 .. 1 /\ positioned \subseteq (1 .. 1) \X Writers
      /\ \A f \in fetch : f.conn \in 1 .. 1
  BY <1>0, <1>2 DEF Struct, Connections, ReaderTypes, FetchOK
<1>5. Connections'
  <2>1. \A x \in 1 .. 1 : Live(x)' => Live(x)
    BY <1>1, <1>2, <1>3 DEF Live
  <2>2. \A z \in positioned : z[1] \in 1 .. 1
    BY <1>4
  <2>3. \A z \in positioned' : Live(z[1])' =>
            z[1] \in connected' \/ \E f \in fetch' : f.conn = z[1]
    BY <1>0, <1>1, <2>1, <2>2 DEF Struct, Connections
  <2>4. connected \subseteq 1 .. 2 /\ positioned \subseteq (1 .. 2) \X Writers
        /\ \A k \in DOMAIN queue : queue[k].conn \in 1 .. 2
    BY <1>3, <1>4
  <2> QED
    BY <1>0, <1>1, <1>2, <2>3, <2>4 DEF Struct, Connections
<1>6. ReaderStays
  <2>1. fetch' = {} \/ \E f \in fetch' : fetch' = {f} /\ FetchOK(f)'
    BY <1>0, <1>1, <1>2, <1>3 DEF Struct, ReaderTypes, FetchOK
  <2> QED
    BY <1>0, <1>1, <1>5, <2>1 DEF ReaderStays, Struct, WriterTypes, ReaderTypes
<1>7. ASSUME disturbed = {} PROVE Rows!Complete'
  BY <1>0, <1>1, <1>7, DeliversComplete DEF IInv, Safe
<1>8. ASSUME disturbed = {}, NEW v \in Writers PROVE Contiguous(v)'
  <2> DEFINE ts == tokens[v]
             p == pos[v]
             X == Reached(v)
             K == Kept
             Y == SyncedOn(v)
             C == Coming(v)
             on2 == online'
             c2 == conn'
  <2>1. Coming(v)' = C /\ Kept' = K /\ Reached(v)' = X
    BY <1>1 DEF Coming, Kept, Reached
  <2>2. SyncedOn(v)' = Y /\ c2 \notin Y
    <3>1. \A x : Synced(x, v)' <=> Synced(x, v)
      BY <1>1 DEF Synced
    <3>2. \A x : Synced(x, v) => x \in 1 .. 1
      BY <1>4 DEF Synced
    <3> QED
      BY <1>2, <1>3, <3>1, <3>2 DEF SyncedOn
  <2> SUFFICES Contig(v, ts, p, X, K, queue, Y, c2, on2, C)
    BY <1>1, <2>1, <2>2 DEF Contiguous
  <2>3. /\ Contig(v, ts, p, X, K, queue, Y, conn, online, C) /\ online \in BOOLEAN
        /\ on2 \in BOOLEAN
    BY <1>0, <1>1, <1>8 DEF IInv, Safe, Contiguous, Struct, Connections
  <2>4. \A k \in DOMAIN queue : queue[k].conn # c2
    BY <1>2, <1>3, <1>4
  <2> HIDE DEF ts, p, X, K, Y, C, on2, c2
  <2> QED
    BY <2>2, <2>3, <2>4, ContigConnects
<1>9. QED
  BY <1>6, <1>7, <1>8, ReaderStaysInv

--------------------------------------------------------------------------------
(***************************************************************************)
(* The invariant holds, and the results.                                   *)
(***************************************************************************)

(* The structural invariant holds in the initial states. *)
LEMMA InitIs ==
    ASSUME Init
    PROVE  Struct
<1>1. WriterTypes
  <2>1. \A w \in Writers : /\ tokens[w] = <<>> /\ out[w] = <<>>
                           /\ streamer[w] = NewStreamer
    BY DEF Init
  <2>2. StreamerOK(NewStreamer, <<>>)
    BY DEF StreamerOK, StreamerType, NewStreamer
  <2>3. <<>> \in Seq(AllKinds) /\ <<>> \in Seq(AllCommands) /\ DOMAIN <<>> = {}
    OBVIOUS
  <2>4. tokens \in [Writers -> Seq(AllKinds)] /\ out \in [Writers -> Seq(AllCommands)]
    BY <2>3 DEF Init
  <2>5. DOMAIN streamer = Writers /\ asked = {} /\ gap = {}
    BY DEF Init
  <2>6. \A w \in Writers : DOMAIN out[w] = {}
    BY <2>1, <2>3
  <2> QED
    BY <2>1, <2>2, <2>4, <2>5, <2>6 DEF WriterTypes
<1>2. queue = <<>> /\ batch = <<>> /\ DOMAIN queue = {} /\ Kept = {}
  BY DEF Init, Kept
<1>3. ReaderTypes
  <2>1. <<>> \in Seq([cmd : AllCommands, conn : Nat]) /\ <<>> \in Seq(Writers \X Nat \X {1, 2})
    OBVIOUS
  <2>2. \A w \in Writers : pos[w] <= Len(tokens[w])
    BY DEF Init
  <2> QED
    BY <1>2, <2>1, <2>2 DEF Init, ReaderTypes
<1>4. Connections
  <2>1. 1 \in 1 .. 1 /\ 1 \in 1 .. 2
    OBVIOUS
  <2> QED
    BY <1>2, <2>1 DEF Init, Connections
<1>5. Ascending
  <2> SUFFICES ASSUME NEW w \in Writers
               PROVE  /\ AscendingOut(out[w], Floor(streamer[w]))
                      /\ Behind(w, queue, Kept, Floor(streamer[w]))
                      /\ \A k \in DOMAIN out[w] : Behind(w, queue, Kept, TokenOf(out[w][k]))
                      /\ AscendingQueue(w, queue, Kept)
                      /\ w \notin gap => Floor(streamer[w]) = streamer[w].last
    BY DEF Ascending
  <2>1. DOMAIN out[w] = {}
    BY DEF Init
  <2>2. Floor(streamer[w]) = streamer[w].last
    BY DEF Init, NewStreamer, Floor
  <2> QED
    BY <1>2, <2>1, <2>2 DEF AscendingOut, Behind, AscendingQueue
<1>6. QED
  BY <1>1, <1>3, <1>4, <1>5 DEF Struct

(* The invariant holds in the initial states. *)
LEMMA InitInv ==
    ASSUME Init
    PROVE  IInv
<1>1. Struct
  BY InitIs
<1>2. /\ queue = <<>> /\ DOMAIN queue = {} /\ Kept = {} /\ gap = {}
      /\ \A w \in Writers : tokens[w] = <<>> /\ out[w] = <<>> /\ pos[w] = 0
      /\ \A w \in Writers : streamer[w].last = 0
  BY DEF Init, Kept, NewStreamer
<1>3. OneBatch
  BY <1>2 DEF OneBatch
<1>4. Rows!Complete
  <2>1. ASSUME NEW w \in Writers
        PROVE  RowsBetween(w, tokens[w], 0, pos[w]) \subseteq handled
    <3>1. (0 + 1) .. 0 = {}
      OBVIOUS
    <3> QED
      BY <1>2, <3>1 DEF RowsBetween
  <2> QED
    BY <2>1, CompleteIs
<1>5. ASSUME NEW w \in Writers PROVE Contiguous(w)
  <2> DEFINE b == NextRow(w, 0)
  <2>1. Coming(w) = <<b>>
    <3>1. Coming(w) = <<>> \o <<b>>
      BY <1>2 DEF Coming, Following
    <3> HIDE DEF b
    <3>2. <<b>> \in Seq({b})
      OBVIOUS
    <3> QED
      BY <3>1, <3>2, ConcatEmptySeq
  <2>2. b.row[2] = 1 /\ b.row[3] = 1
    BY NextRowIs
  <2>3. Ready(w, tokens[w], Reached(w), Kept, b)
    <3> HIDE DEF b
    <3>1. NoneBetween(tokens[w], 0, 1)
      BY DEF NoneBetween
    <3>2. 0 \in Reached(w)
      BY <1>2 DEF Reached
    <3> QED
      BY <1>2, <2>2, <3>1, <3>2 DEF Ready
  <2> HIDE DEF b
  <2>4. Len(<<b>>) = 1 /\ <<b>>[1] = b /\ 1 .. (1 - 1) = {}
    OBVIOUS
  <2> QED
    BY <1>2, <2>1, <2>3, <2>4
    DEF Contiguous, Contig, LinkedSeq, LinkedQueue, LinkedAcross, ReadyQueue, ReadyOut
<1>6. QED
  BY <1>1, <1>3, <1>4, <1>5 DEF IInv, Safe

(* Every step keeps the invariant. *)
LEMMA NextInv ==
    ASSUME IInv, [Next]_vars
    PROVE  IInv'
<1>1. ASSUME NEW w \in Writers, NEW k \in KindsOf[w], Write(w, k) PROVE IInv'
  BY <1>1, WriteInv
<1>2. ASSUME NEW w \in Writers, WriterStep(w) PROVE IInv'
  BY <1>2, PokeInv, SendUpdatesInv, ReplicateArrivesInv, WriterConnectsInv, GreetedInv
  DEF WriterStep
<1>3. ASSUME NEW w \in Writers,
             Receive(w) \/ UpdatesFail(w) \/ WriterLost(w) \/ WriterCrash(w)
      PROVE  IInv'
  BY <1>3, ReceiveInv, UpdatesFailInv, WriterLostInv, WriterCrashInv
<1>4. ASSUME ReaderStep PROVE IInv'
  BY <1>4, ProcessRdataInv, DiscardPositionInv, ProcessPositionInv, FetchMissingInv,
     ReaderConnectsInv DEF ReaderStep
<1>5. ASSUME FetchFails \/ ReaderLost PROVE IInv'
  BY <1>5, FetchFailsInv, ReaderLostInv
<1>6. CASE UNCHANGED vars
  <2>1. UNCHANGED <<tokens, streamer, out, asked, gap, online, conn, pos, connected, batch,
                    fetch, handled, positioned, stranded, queue, disturbed, faults>>
    BY <1>6 DEF vars, writers, link, reader
  <2>2. Kept' = Kept /\ \A c : Live(c)' <=> Live(c)
    BY <2>1 DEF Kept, Live
  <2>3. ReaderStays
    <3>1. fetch' = {} \/ \E f \in fetch' : fetch' = {f} /\ FetchOK(f)'
      BY <2>1 DEF IInv, Struct, ReaderTypes, FetchOK
    <3>2. Connections'
      BY <2>1, <2>2 DEF IInv, Struct, Connections
    <3> QED
      BY <2>1, <3>1, <3>2 DEF ReaderStays, IInv, Struct, WriterTypes, ReaderTypes
  <2>4. ASSUME disturbed = {} PROVE Rows!Complete'
    BY <2>1, <2>4, DeliversComplete DEF IInv, Safe
  <2>5. ASSUME disturbed = {}, NEW v \in Writers PROVE Contiguous(v)'
    BY <2>1, <2>2, <2>5 DEF IInv, Safe, Contiguous, Coming, Reached, SyncedOn, Synced
  <2> QED
    BY <2>3, <2>4, <2>5, ReaderStaysInv
<1>7. QED
  BY <1>1, <1>2, <1>3, <1>4, <1>5, <1>6 DEF Next

(* Every behaviour of the writers and the reader satisfies the inductive invariant. *)
THEOREM Invariance == Spec => []IInv
<1>1. Init => IInv
  BY InitInv
<1>2. IInv /\ [Next]_vars => IInv'
  BY NextInv
<1>3. QED
  BY <1>1, <1>2, PTL DEF Spec

(* The streamers are one per writer. *)
Streamers == streamer = [w \in Writers |-> streamer[w]]

(* The streamers stay right throughout. *)
LEMMA StreamersKept == Spec => []Streamers
<1>1. Init => Streamers
  BY DEF Init, Streamers
<1>2. Streamers /\ [Next]_vars => Streamers'
  <2> SUFFICES ASSUME Streamers, [Next]_vars PROVE Streamers'
    OBVIOUS
  <2>1. ASSUME NEW w, NEW s, streamer' = [streamer EXCEPT ![w] = s] PROVE Streamers'
    BY <2>1 DEF Streamers
  <2>2. ASSUME NEW w, NEW s, NEW r, StreamerStep(w, s, r) PROVE Streamers'
    BY <2>1, <2>2 DEF StreamerStep
  <2>3. CASE streamer' = streamer
    BY <2>3 DEF Streamers
  <2>4. ASSUME NEW w, NEW k, Write(w, k) PROVE Streamers'
    BY <2>2, <2>3, <2>4 DEF Write
  <2>5. ASSUME NEW w, WriterStep(w) PROVE Streamers'
    <3>1. CASE Poke(w)
      BY <2>2, <3>1 DEF Poke
    <3>2. CASE SendUpdates(w)
      BY <2>2, <3>2 DEF SendUpdates
    <3>3. CASE ReplicateArrives(w)
      BY <2>2, <2>3, <3>3 DEF ReplicateArrives
    <3>4. CASE WriterConnects(w)
      BY <3>4 DEF WriterConnects, Streamers
    <3>5. CASE Greeted(w)
      BY <2>2, <3>5 DEF Greeted, AnnouncePositions
    <3> QED
      BY <2>5, <3>1, <3>2, <3>3, <3>4, <3>5 DEF WriterStep
  <2>6. ASSUME NEW w, Receive(w) PROVE Streamers'
    BY <2>3, <2>6 DEF Receive
  <2>7. ASSUME NEW w, UpdatesFail(w) \/ WriterLost(w) \/ WriterCrash(w) PROVE Streamers'
    BY <2>7 DEF UpdatesFail, WriterLost, WriterCrash, Streamers
  <2>8. CASE ReaderStep \/ FetchFails \/ ReaderLost
    <3>1. streamer' = streamer
      BY <2>8 DEF ReaderStep, ProcessRdata, DiscardPosition, ProcessPosition, FetchMissing,
                  ReaderConnects, FetchFails, ReaderLost, writers
    <3> QED
      BY <2>3, <3>1
  <2>9. CASE UNCHANGED vars
    BY <2>3, <2>9 DEF vars, writers
  <2> QED
    BY <2>4, <2>5, <2>6, <2>7, <2>8, <2>9 DEF Next
<1>3. QED
  BY <1>1, <1>2, PTL DEF Spec

(***************************************************************************)
(* The variables of ReplicationStreamer, of the Redis connections and of   *)
(* ReplicationCommandHandler keep their types, whatever connections are    *)
(* lost, writers crash and queries raise.                                  *)
(***************************************************************************)
THEOREM TypeCorrect == Spec => []TypeOK
<1>1. IInv /\ Streamers => TypeOK
  <2> SUFFICES ASSUME IInv, Streamers PROVE TypeOK
    OBVIOUS
  <2>1. Struct
    BY DEF IInv
  <2>2. /\ streamer \in [Writers -> StreamerType]
        /\ \A w \in Writers : streamer[w].last <= Len(tokens[w])
    <3>1. DOMAIN streamer = Writers /\ \A w \in Writers : streamer[w] \in StreamerType
      BY <2>1, WriterTyped DEF Struct, WriterTypes
    <3>2. streamer = [w \in Writers |-> streamer[w]]
      BY DEF Streamers
    <3> QED
      BY <2>1, <3>1, <3>2, WriterTyped
  <2>3. Cardinality(fetch) <= 1
    <3>1. CASE fetch = {}
      BY <3>1, FS_EmptySet
    <3>2. CASE fetch # {}
      <4>1. PICK f \in fetch : fetch = {f}
        BY <2>1, <3>2 DEF Struct, ReaderTypes
      <4> QED
        BY <4>1, FS_Singleton
    <3> QED
      BY <3>1, <3>2
  <2> QED
    BY <2>1, <2>2, <2>3
    DEF TypeOK, StreamerType, Struct, WriterTypes, ReaderTypes, Connections
<1>2. QED
  BY <1>1, Invariance, StreamersKept, PTL

(***************************************************************************)
(* As long as none of the three hazards has happened, _process_rdata and   *)
(* _process_position leave no row out behind the reader's position.        *)
(***************************************************************************)
THEOREM NoRowIsMissed == Spec => []NoRowMissed
<1>1. IInv => NoRowMissed
  BY DEF IInv, Safe, NoRowMissed
<1>2. QED
  BY <1>1, Invariance, PTL

(* What a step of the protocol is to the abstract reader. *)
LEMMA StepIs ==
    ASSUME IInv, Next, disturbed' = {}
    PROVE  /\ disturbed = {}
           /\ \/ /\ \E w \in Writers, k \in AllKinds : tokens' = [tokens EXCEPT ![w] = Append(@, k)]
                 /\ UNCHANGED <<pos, handled>>
              \/ /\ tokens' = tokens
                 /\ UNCHANGED <<pos, handled>> \/ \E w, t : Delivers(w, t)
<1>0. Struct
  BY DEF IInv
<1>1. ASSUME NEW w, NEW s, NEW r, StreamerStep(w, s, r) PROVE disturbed = {}
  BY <1>1 DEF StreamerStep
<1>2. ASSUME NEW w \in Writers, NEW k \in KindsOf[w], Write(w, k)
      PROVE  /\ tokens' = [tokens EXCEPT ![w] = Append(@, k)] /\ k \in AllKinds
             /\ UNCHANGED <<pos, handled>> /\ disturbed = {}
  BY <1>1, <1>2, KindsAssumption DEF Write, reader
<1>3. ASSUME NEW w \in Writers, WriterStep(w)
      PROVE  UNCHANGED <<tokens, pos, handled>> /\ disturbed = {}
  <2>1. CASE Poke(w)
    BY <1>1, <2>1 DEF Poke, reader
  <2>2. CASE SendUpdates(w)
    BY <1>1, <2>2 DEF SendUpdates, reader
  <2>3. CASE ReplicateArrives(w)
    BY <1>1, <2>3 DEF ReplicateArrives, reader
  <2>4. CASE WriterConnects(w)
    BY <2>4 DEF WriterConnects, reader
  <2>5. CASE Greeted(w)
    BY <1>1, <2>5 DEF Greeted, AnnouncePositions, reader
  <2> QED
    BY <1>3, <2>1, <2>2, <2>3, <2>4, <2>5 DEF WriterStep
<1>4. ASSUME NEW w \in Writers,
             Receive(w) \/ UpdatesFail(w) \/ WriterLost(w) \/ WriterCrash(w)
      PROVE  UNCHANGED <<tokens, pos, handled>> /\ disturbed = {}
  BY <1>4 DEF Receive, UpdatesFail, WriterLost, WriterCrash, reader
<1>5. CASE FetchFails \/ ReaderLost \/ ReaderConnects \/ DiscardPosition
  <2>1. UNCHANGED <<tokens, pos, handled>> /\ disturbed = {}
    BY <1>5 DEF FetchFails, ReaderLost, ReaderConnects, DiscardPosition, reader
  <2> QED
    BY <2>1
<1>6. CASE ProcessRdata
  <2>1. tokens' = tokens /\ disturbed = {}
    BY <1>6 DEF ProcessRdata
  <2> QED
    BY <1>6, <2>1, ProcessRdataDelivers
<1>7. CASE ProcessPosition
  <2>1. tokens' = tokens /\ disturbed = {}
    BY <1>7 DEF ProcessPosition
  <2> QED
    BY <1>7, <2>1, ProcessPositionDelivers
<1>8. CASE FetchMissing
  <2>1. tokens' = tokens /\ disturbed = {}
    BY <1>8 DEF FetchMissing
  <2> QED
    BY <1>8, <2>1, FetchMissingDelivers
<1>9. QED
  BY <1>2, <1>3, <1>4, <1>5, <1>6, <1>7, <1>8 DEF Next, ReaderStep

(* Every step is one of the abstract specification, or a stutter. *)
LEMMA StepRefines ==
    ASSUME IInv, [Next]_vars
    PROVE  [Rows!Next]_Rows!vars
<1>1. CASE UNCHANGED vars
  BY <1>1 DEF vars, reader, Rows!vars
<1>2. CASE disturbed' # {}
  <2>1. Rows!Break
    BY <1>2 DEF Rows!Break
  <2> QED
    BY <2>1 DEF Rows!Next
<1>3. CASE Next /\ disturbed' = {}
  <2>1. disturbed = {} /\ (disturbed # {})' = (disturbed # {})
    BY <1>3, StepIs
  <2>2. ASSUME NEW w \in Writers, NEW k \in AllKinds, UNCHANGED <<pos, handled>>,
               tokens' = [tokens EXCEPT ![w] = Append(@, k)]
        PROVE  Rows!Next
    <3>1. Rows!Write(w, k)
      BY <2>1, <2>2 DEF Rows!Write
    <3> QED
      BY <3>1 DEF Rows!Next
  <2>3. ASSUME UNCHANGED <<tokens, pos, handled>> PROVE UNCHANGED Rows!vars
    BY <2>1, <2>3 DEF Rows!vars
  <2>4. ASSUME NEW w, NEW t, tokens' = tokens, Delivers(w, t) PROVE Rows!Next
    <3>1. /\ w \in Writers /\ t \in 1 .. Len(tokens[w]) /\ pos[w] < t
          /\ handled' = handled \cup RowsBetween(w, tokens[w], pos[w], t)
          /\ pos' = [pos EXCEPT ![w] = t]
      BY <2>4 DEF Delivers
    <3>2. pos[w] \in Nat /\ Len(tokens[w]) \in Nat
      BY <3>1, WriterTyped DEF IInv
    <3>3. t \in (pos[w] + 1) .. Len(tokens[w])
      BY <3>1, <3>2
    <3>4. Rows!RowsBetween(w, tokens[w], pos[w], t) = RowsBetween(w, tokens[w], pos[w], t)
      BY DEF Rows!RowsBetween, Rows!RowsAt, Rows!RowsOf, RowsBetween, RowsAt, RowsOf
    <3>5. Rows!HandOver(w, t)
      BY <2>1, <2>4, <3>1, <3>3, <3>4 DEF Rows!HandOver
    <3> QED
      BY <3>1, <3>5 DEF Rows!Next
  <2>5. CASE /\ \E w \in Writers, k \in AllKinds : tokens' = [tokens EXCEPT ![w] = Append(@, k)]
             /\ UNCHANGED <<pos, handled>>
    BY <2>2, <2>5
  <2>6. CASE /\ tokens' = tokens
             /\ UNCHANGED <<pos, handled>> \/ \E w, t : Delivers(w, t)
    BY <2>3, <2>4, <2>6
  <2> QED
    BY <1>3, <2>5, <2>6, StepIs
<1>4. QED
  BY <1>1, <1>2, <1>3

(***************************************************************************)
(* The protocol of resource.py, handler.py and client.py implements the    *)
(* abstract reader of ReplicatedRows: each step hands over exactly the     *)
(* rows between a writer's old position and its new one, or none, until a  *)
(* hazard takes the promise off.                                           *)
(***************************************************************************)
THEOREM Refinement == Spec => Replicates
<1>1. Init => Rows!Init
  BY DEF Init, Rows!Init
<1>2. IInv /\ [Next]_vars => [Rows!Next]_Rows!vars
  BY StepRefines
<1>3. QED
  BY <1>1, <1>2, Invariance, PTL DEF Spec, Replicates, Rows!Spec
================================================================================
