------------------------------- MODULE Locks_proofs -------------------------------
(***************************************************************************)
(* Two components that share no state.                                     *)
(*                                                                         *)
(* A lock between processes (WorkerLocks) has one holder at a time, for    *)
(* any number of processes and tasks, crashes and failures, as long as the *)
(* locks in use are renewed in time and no release pops the entry of       *)
(* another Lock.                                                           *)
(*                                                                         *)
(* The two tables of the read/write locks (ReadWriteLocks, from            *)
(* HoldersHaveRows on) stay together, and a writer works alone, for any    *)
(* number of readers and writers and any number of crashes and stalls.     *)
(***************************************************************************)
EXTENDS Locks, FunctionTheorems, FiniteSetTheorems, TLAPS

(* The body of the `try` of try_acquire_lock, with the key in              *)
(* _acquiring_locks.                                                       *)
Section == {"selecting", "selected", "inserting", "granted", "refused"}
WithToken == {"inserting", "granted", "holding", "deleting", "deleted"}
WithAge == {"selected", "inserting"}
WithRenewal == {"holding", "deleting", "deleted"}

(* One attempt per process at a time. *)
OneAttempt ==
    /\ \A t \in Tasks : pc[t] \in Section => acquiring[HomeOf[t]]
    /\ \A t, u \in Tasks :
        pc[t] \in Section /\ pc[u] \in Section /\ HomeOf[t] = HomeOf[u] => t = u

(* A token is of one attempt. *)
OwnTokens ==
    /\ \A t \in Tasks : token[t] # NoToken <=> pc[t] \in WithToken
    /\ \A t, u \in Tasks : token[t] # NoToken /\ token[t] = token[u] => t = u
    /\ \A t \in Tasks : pc[t] = "selecting" => checking[t] # NoToken

(* What carries a time is not late. *)
Timely ==
    /\ \A t \in Tasks : pc[t] \in WithAge => age[t] <= MaxDelay
    /\ \A t \in Tasks : pc[t] \notin WithAge => age[t] = NoAge
    /\ \A t \in Tasks : renewal[t] # NoAge => pc[t] \in WithRenewal /\ renewal[t] <= MaxDelay

(* A renewal was sent after the row was written. *)
RenewsForward ==
    \A t \in Tasks : renewal[t] # NoAge /\ row.token = token[t] => renewal[t] <= row.age

(* A Lock in use has its row, not yet old, ... *)
InUseHasRow ==
    \A t \in Tasks : InUse(t) => /\ row.token = token[t]
                                 /\ row.instance = HomeOf[t]
                                 /\ row.age <= RenewBy

(* ... its process has the live entry, ... *)
HolderIsLive == \A t \in Tasks : pc[t] = "holding" => live[HomeOf[t]] = token[t]

(* ... and an attempt in that process asks about it, and learns of it.     *)
AttemptLearns ==
    \A t, u \in Tasks :
        pc[t] = "holding" /\ HomeOf[t] = HomeOf[u] =>
            /\ pc[u] \notin {"inserting", "granted"}
            /\ pc[u] = "selecting" => checking[u] = token[t]
            /\ pc[u] = "selected" => seen[u] <= RenewBy

Safe == InUseHasRow /\ HolderIsLive /\ AttemptLearns

IInv == TypeOK /\ OneAttempt /\ OwnTokens /\ Timely /\ RenewsForward /\ (lapsed \/ clobbered \/ Safe)
--------------------------------------------------------------------------------
(* Ages, and the value that stands for none. *)
LEMMA AgeFacts ==
    /\ Timeout \in Nat /\ RenewBy \in Nat /\ MaxDelay \in Nat /\ MaxFaults \in Nat
    /\ RenewBy + MaxDelay < Timeout
    /\ OldAge \in Nat /\ NoAge \in Nat /\ OldAge = Timeout + MaxDelay + 1 /\ NoAge = OldAge + 1
    /\ Ages \subseteq Nat /\ \A a : a \in Ages <=> a \in Nat /\ a <= OldAge
    /\ NoAge \notin Ages
BY TimeAssumption DEF OldAge, NoAge, Ages

(* Tokens are numbers, and 0 stands for none. *)
LEMMA TokenFacts == Tokens \subseteq Nat /\ NoToken \notin Tokens /\ NoToken = 0
<1>1. Cardinality(Tasks) \in Nat /\ Cardinality(Instances) \in Nat
  BY HomeAssumption, FS_CardinalityType
<1>2. QED
  BY <1>1 DEF Tokens, NoToken

(* The fields of a row. *)
LEMMA RowFacts ==
    ASSUME row \in Rows \cup {NoRow}
    PROVE  /\ row.token \in Tokens \cup {NoToken}
           /\ row = NoRow <=> row.token = NoToken
           /\ row # NoRow => /\ row \in Rows /\ row.token \in Tokens /\ row.instance \in Instances
                             /\ row.current \in BOOLEAN /\ row.age \in Ages
BY TokenFacts DEF Rows, NoRow

(* There are more tokens than places that hold one, so that one is free.    *)
LEMMA FreshTokenFacts ==
    ASSUME TypeOK, NEW t \in Tasks, token[t] = NoToken
    PROVE  FreshToken \in Tokens /\ FreshToken \notin TokensInUse
<1> DEFINE I == Cardinality(Instances)
           T == Cardinality(Tasks)
           Lives == {live[i] : i \in Instances}
           Owned == {token[u] : u \in Tasks}
           Checked == {checking[u] : u \in Tasks}
<1>1. I \in Nat /\ T \in Nat
  BY HomeAssumption, FS_CardinalityType
<1>2. IsFiniteSet({row.token}) /\ Cardinality({row.token}) = 1
  BY FS_Singleton
<1>3. IsFiniteSet(Lives) /\ Cardinality(Lives) <= I
  <2>1. live \in Surjection(Instances, Lives)
    BY Fun_IsSurj DEF TypeOK
  <2> QED
    BY <2>1, HomeAssumption, FS_Surjection
<1>4. IsFiniteSet(Owned) /\ Cardinality(Owned) <= T
  <2>1. token \in Surjection(Tasks, Owned)
    BY Fun_IsSurj DEF TypeOK
  <2> QED
    BY <2>1, HomeAssumption, FS_Surjection
<1>5. IsFiniteSet(Checked) /\ Cardinality(Checked) <= T
  <2>1. checking \in Surjection(Tasks, Checked)
    BY Fun_IsSurj DEF TypeOK
  <2> QED
    BY <2>1, HomeAssumption, FS_Surjection
<1> HIDE DEF I, T, Lives, Owned, Checked
<1>6. ASSUME NEW A, NEW B, IsFiniteSet(A), IsFiniteSet(B)
      PROVE  IsFiniteSet(A \cup B) /\ Cardinality(A \cup B) <= Cardinality(A) + Cardinality(B)
  <2>1. IsFiniteSet(A \cap B)
    BY <1>6, FS_Subset
  <2>2. Cardinality(A) \in Nat /\ Cardinality(B) \in Nat /\ Cardinality(A \cap B) \in Nat
    BY <1>6, <2>1, FS_CardinalityType
  <2> QED
    <3>1. /\ IsFiniteSet(A \cup B)
          /\ Cardinality(A \cup B) = Cardinality(A) + Cardinality(B) - Cardinality(A \cap B)
      BY <1>6, FS_Union
    <3> QED
      BY <2>2, <3>1
<1>7. /\ IsFiniteSet({row.token} \cup Lives)
      /\ Cardinality({row.token} \cup Lives) <= 1 + I
  <2>1. Cardinality(Lives) \in Nat
    BY <1>3, FS_CardinalityType
  <2>2. /\ IsFiniteSet({row.token} \cup Lives)
        /\ Cardinality({row.token} \cup Lives) <= Cardinality({row.token}) + Cardinality(Lives)
    BY <1>2, <1>3, <1>6
  <2>3. Cardinality({row.token} \cup Lives) \in Nat
    BY <2>2, FS_CardinalityType
  <2> QED
    BY <1>1, <1>2, <1>3, <2>1, <2>2, <2>3
<1>8. /\ IsFiniteSet({row.token} \cup Lives \cup Owned)
      /\ Cardinality({row.token} \cup Lives \cup Owned) <= 1 + I + T
  <2> DEFINE A == {row.token} \cup Lives
  <2>1. IsFiniteSet(A) /\ Cardinality(A) <= 1 + I
    BY <1>7
  <2> HIDE DEF A
  <2>2. Cardinality(A) \in Nat /\ Cardinality(Owned) \in Nat
    BY <1>4, <2>1, FS_CardinalityType
  <2>3. IsFiniteSet(A \cup Owned) /\ Cardinality(A \cup Owned) <= Cardinality(A) + Cardinality(Owned)
    BY <1>4, <1>6, <2>1
  <2>4. Cardinality(A \cup Owned) \in Nat
    BY <2>3, FS_CardinalityType
  <2>5. IsFiniteSet(A \cup Owned) /\ Cardinality(A \cup Owned) <= 1 + I + T
    BY <1>1, <1>4, <2>1, <2>2, <2>3, <2>4
  <2> QED
    BY <2>5 DEF A
<1>9. IsFiniteSet(TokensInUse) /\ Cardinality(TokensInUse) <= 1 + I + T + T
  <2> DEFINE A == {row.token} \cup Lives \cup Owned
  <2>1. IsFiniteSet(A) /\ Cardinality(A) <= 1 + I + T
    BY <1>8
  <2> HIDE DEF A
  <2>2. Cardinality(A) \in Nat /\ Cardinality(Checked) \in Nat
    BY <1>5, <2>1, FS_CardinalityType
  <2>3. /\ IsFiniteSet(A \cup Checked)
        /\ Cardinality(A \cup Checked) <= Cardinality(A) + Cardinality(Checked)
    BY <1>5, <1>6, <2>1
  <2>4. Cardinality(A \cup Checked) \in Nat
    BY <2>3, FS_CardinalityType
  <2>5. IsFiniteSet(A \cup Checked) /\ Cardinality(A \cup Checked) <= 1 + I + T + T
    BY <1>1, <1>5, <2>1, <2>2, <2>3, <2>4
  <2> QED
    BY <2>5 DEF A, TokensInUse, Lives, Owned, Checked
<1>10. ASSUME Tokens \subseteq TokensInUse PROVE FALSE
  <2>1. 0 .. (2 * T + I + 1) \subseteq TokensInUse
    <3>1. NoToken \in TokensInUse
      BY DEF TokensInUse
    <3>2. 0 .. (2 * T + I + 1) = Tokens \cup {NoToken}
      BY <1>1 DEF Tokens, NoToken, T, I
    <3> QED
      BY <1>10, <3>1, <3>2
  <2>2. Cardinality(0 .. (2 * T + I + 1)) = 2 * T + I + 2
    BY <1>1, FS_Interval
  <2>3. Cardinality(0 .. (2 * T + I + 1)) <= Cardinality(TokensInUse)
    BY <1>9, <2>1, FS_Subset
  <2>4. Cardinality(TokensInUse) \in Nat
    BY <1>9, FS_CardinalityType
  <2> QED
    BY <1>1, <1>9, <2>2, <2>3, <2>4
<1>11. \E k \in Tokens : k \notin TokensInUse
  BY <1>10
<1>12. QED
  BY <1>11 DEF FreshToken
--------------------------------------------------------------------------------
(* Nobody has the lock at the start. *)
LEMMA InitIInv == Init => IInv
<1> SUFFICES ASSUME Init PROVE IInv
  OBVIOUS
<1>1. TypeOK
  <2>1. live \in [Instances -> Tokens \cup {NoToken}] /\ acquiring \in [Instances -> BOOLEAN]
    BY DEF Init
  <2>2. pc \in [Tasks -> PcValues]
    BY DEF Init, PcValues
  <2>3. /\ token \in [Tasks -> Tokens \cup {NoToken}]
        /\ checking \in [Tasks -> Tokens \cup {NoToken}]
    BY DEF Init
  <2>4. /\ seen \in [Tasks -> Ages \cup {NoAge}]
        /\ age \in [Tasks -> Ages \cup {NoAge}]
        /\ renewal \in [Tasks -> Ages \cup {NoAge}]
    BY DEF Init
  <2>5. row = NoRow /\ faults \in 0 .. MaxFaults
    BY AgeFacts DEF Init
  <2>6. clobbered \in BOOLEAN /\ lapsed \in BOOLEAN
    BY DEF Init
  <2> QED
    BY <2>1, <2>2, <2>3, <2>4, <2>5, <2>6 DEF TypeOK
<1>2. OneAttempt /\ OwnTokens /\ Timely /\ RenewsForward /\ Safe
  BY DEF Init, OneAttempt, OwnTokens, Timely, RenewsForward, Safe, InUseHasRow, HolderIsLive,
         AttemptLearns, InUse, Section, WithToken, WithAge, WithRenewal
<1>3. QED
  BY <1>1, <1>2 DEF IInv

(* The steps that only move a task about outside an attempt. *)
LEMMA MoveStep ==
    ASSUME IInv, NEW t \in Tasks, Enter(t) \/ TryBusy(t) \/ Wake(t)
    PROVE  IInv'
<1> DEFINE Outside == {"idle", "trying", "waiting"}
<1>1. PICK x \in Outside : pc[t] \in Outside /\ pc' = [pc EXCEPT ![t] = x]
  BY DEF Enter, TryBusy, Wake, AfterRefusal
<1>2. UNCHANGED <<row, live, acquiring, token, checking, seen, age, renewal, clobbered, lapsed, faults>>
  BY DEF Enter, TryBusy, Wake, db, process, attempt, history
<1>3. TypeOK'
  BY <1>1, <1>2 DEF IInv, TypeOK, PcValues
<1>4. OneAttempt' /\ OwnTokens' /\ Timely'
  BY <1>1, <1>2 DEF IInv, TypeOK, OneAttempt, OwnTokens, Timely, Section, WithToken, WithAge,
     WithRenewal
<1>5. RenewsForward'
  BY <1>2 DEF IInv, RenewsForward
<1>6. Safe => Safe'
  BY <1>1, <1>2 DEF IInv, TypeOK, Safe, InUseHasRow, HolderIsLive, AttemptLearns, InUse
<1>7. QED
  BY <1>2, <1>3, <1>4, <1>5, <1>6 DEF IInv

(* try_acquire_lock with a live entry: ask whether it is still valid. *)
LEMMA TryCheckStep ==
    ASSUME IInv, NEW t \in Tasks, TryCheck(t)
    PROVE  IInv'
<1> USE HomeAssumption, AgeFacts, TokenFacts DEF IInv, db, process, attempt, history
<1>2. TypeOK'
  BY RowFacts DEF TryCheck, TypeOK, PcValues, Timely, WithAge, Rows
<1>3. OneAttempt'
  BY DEF TryCheck, TypeOK, OneAttempt, Section
<1>4. OwnTokens'
  BY <1>2 DEF TryCheck, TypeOK, OwnTokens, WithToken, TokensInUse
<1>5. Timely'
  BY DEF TryCheck, TypeOK, Timely, WithAge, WithRenewal
<1>6. RenewsForward'
  BY RowFacts DEF TryCheck, TypeOK, RenewsForward, Timely, WithRenewal, OwnTokens, WithToken,
     TokensInUse
<1>7. ASSUME ~lapsed', ~clobbered' PROVE Safe'
  <2>1. Safe
    BY <1>7 DEF TryCheck
  <2>2. InUseHasRow'
    BY <2>1, <1>7, RowFacts DEF TryCheck, TypeOK, Safe, InUseHasRow, HolderIsLive, AttemptLearns,
       InUse, OwnTokens, WithToken, OneAttempt, Section, Timely, WithAge, TokensInUse
  <2>3. HolderIsLive'
    BY <2>1, <1>7 DEF TryCheck, TypeOK, Safe, HolderIsLive, OwnTokens, WithToken, AttemptLearns
  <2>4. AttemptLearns'
    BY <2>1, <1>7 DEF TryCheck, TypeOK, Safe, InUseHasRow, HolderIsLive, AttemptLearns, InUse,
       OwnTokens, WithToken, OneAttempt, Section, Timely, WithAge
  <2> QED
    BY <2>2, <2>3, <2>4 DEF Safe
<1>8. QED
  BY <1>2, <1>3, <1>4, <1>5, <1>6, <1>7

(* try_acquire_lock without a live entry: a new token goes to the          *)
(* database.                                                               *)
LEMMA TryInsertStep ==
    ASSUME IInv, NEW t \in Tasks, TryInsert(t)
    PROVE  IInv'
<1> USE HomeAssumption, AgeFacts, TokenFacts DEF IInv, db, process, attempt, history
<1>1. FreshToken \in Tokens /\ FreshToken \notin TokensInUse
  BY FreshTokenFacts DEF TryInsert, OwnTokens, WithToken
<1>2. TypeOK'
  <2>1. /\ pc' \in [Tasks -> PcValues]
        /\ acquiring' \in [Instances -> BOOLEAN]
    BY DEF TryInsert, SendInsert, TypeOK, PcValues
  <2>2. /\ token' \in [Tasks -> Tokens \cup {NoToken}]
        /\ age' \in [Tasks -> Ages \cup {NoAge}]
    BY <1>1 DEF TryInsert, SendInsert, TypeOK
  <2> QED
    BY <2>1, <2>2 DEF TryInsert, TypeOK
<1>3. OneAttempt'
  BY DEF TryInsert, SendInsert, TypeOK, OneAttempt, Section
<1>4. OwnTokens'
  BY <1>1, <1>2 DEF TryInsert, SendInsert, TypeOK, OwnTokens, WithToken, TokensInUse
<1>5. Timely'
  BY DEF TryInsert, SendInsert, TypeOK, Timely, WithAge, WithRenewal
<1>6. RenewsForward'
  BY <1>1, RowFacts DEF TryInsert, SendInsert, TypeOK, RenewsForward, Timely, WithRenewal,
     OwnTokens, WithToken, TokensInUse
<1>7. ASSUME ~lapsed', ~clobbered' PROVE Safe'
  <2>1. Safe
    BY <1>7 DEF TryInsert, SendInsert
  <2>2. InUseHasRow'
    BY <1>1, <2>1, <1>7, RowFacts DEF TryInsert, SendInsert, TypeOK, Safe, InUseHasRow,
       HolderIsLive, AttemptLearns, InUse, OwnTokens, WithToken, OneAttempt, Section, Timely, WithAge,
       TokensInUse
  <2>3. HolderIsLive'
    BY <2>1, <1>7 DEF TryInsert, SendInsert, TypeOK, Safe, HolderIsLive, OwnTokens, WithToken,
       AttemptLearns
  <2>4. AttemptLearns'
    BY <1>1, <2>1, <1>7 DEF TryInsert, SendInsert, TypeOK, Safe, InUseHasRow, HolderIsLive,
       AttemptLearns, InUse, OwnTokens, WithToken, OneAttempt, Section, Timely, WithAge
  <2> QED
    BY <2>2, <2>3, <2>4 DEF Safe
<1>8. QED
  BY <1>2, <1>3, <1>4, <1>5, <1>6, <1>7

(* is_still_valid: the SELECT. *)
LEMMA SelectStep ==
    ASSUME IInv, NEW t \in Tasks, Select(t)
    PROVE  IInv'
<1> USE HomeAssumption, AgeFacts, TokenFacts DEF IInv, db, process, attempt, history
<1>2. TypeOK'
  <2>1. pc' \in [Tasks -> PcValues]
    BY DEF Select, TypeOK, PcValues
  <2>2. row.token = checking[t] => row.age \in Ages
    BY RowFacts DEF Select, TypeOK, OwnTokens
  <2>3. /\ seen' \in [Tasks -> Ages \cup {NoAge}]
        /\ age' \in [Tasks -> Ages \cup {NoAge}]
        /\ checking' \in [Tasks -> Tokens \cup {NoToken}]
    BY <2>2 DEF Select, TypeOK
  <2> QED
    BY <2>1, <2>3 DEF Select, TypeOK
<1>3. OneAttempt'
  BY DEF Select, TypeOK, OneAttempt, Section
<1>4. OwnTokens'
  BY <1>2 DEF Select, TypeOK, OwnTokens, WithToken, TokensInUse
<1>5. Timely'
  BY DEF Select, TypeOK, Timely, WithAge, WithRenewal
<1>6. RenewsForward'
  BY RowFacts DEF Select, TypeOK, RenewsForward, Timely, WithRenewal, OwnTokens, WithToken,
     TokensInUse
<1>7. ASSUME ~lapsed', ~clobbered' PROVE Safe'
  <2>1. Safe
    BY <1>7 DEF Select
  <2>2. InUseHasRow'
    BY <2>1, <1>7, RowFacts DEF Select, TypeOK, Safe, InUseHasRow, HolderIsLive, AttemptLearns,
       InUse, OwnTokens, WithToken, OneAttempt, Section, Timely, WithAge, TokensInUse
  <2>3. HolderIsLive'
    BY <2>1, <1>7 DEF Select, TypeOK, Safe, HolderIsLive, OwnTokens, WithToken, AttemptLearns
  <2>4. AttemptLearns'
    BY <2>1, <1>7 DEF Select, TypeOK, Safe, InUseHasRow, HolderIsLive, AttemptLearns, InUse,
       OwnTokens, WithToken, OneAttempt, Section, Timely, WithAge
  <2> QED
    BY <2>2, <2>3, <2>4 DEF Safe
<1>8. QED
  BY <1>2, <1>3, <1>4, <1>5, <1>6, <1>7

(* The process's own lock is still valid: the attempt is refused. *)
LEMMA CheckValidStep ==
    ASSUME IInv, NEW t \in Tasks, CheckValid(t)
    PROVE  IInv'
<1> USE HomeAssumption, AgeFacts, TokenFacts DEF IInv, db, process, attempt, history
<1>2. TypeOK'
  BY RowFacts DEF CheckValid, AfterRefusal, TypeOK, PcValues, Timely, WithAge, Rows
<1>3. OneAttempt'
  BY DEF CheckValid, AfterRefusal, TypeOK, OneAttempt, Section
<1>4. OwnTokens'
  BY <1>2 DEF CheckValid, AfterRefusal, TypeOK, OwnTokens, WithToken, TokensInUse
<1>5. Timely'
  BY DEF CheckValid, AfterRefusal, TypeOK, Timely, WithAge, WithRenewal
<1>6. RenewsForward'
  BY RowFacts DEF CheckValid, AfterRefusal, TypeOK, RenewsForward, Timely, WithRenewal, OwnTokens,
     WithToken, TokensInUse
<1>7. ASSUME ~lapsed', ~clobbered' PROVE Safe'
  <2>1. Safe
    BY <1>7 DEF CheckValid, AfterRefusal
  <2>2. InUseHasRow'
    BY <2>1, <1>7, RowFacts DEF CheckValid, AfterRefusal, StillValid, TypeOK, Safe, InUseHasRow,
       HolderIsLive, AttemptLearns, InUse, OwnTokens, WithToken, OneAttempt, Section, Timely, WithAge,
       TokensInUse
  <2>3. HolderIsLive'
    BY <2>1, <1>7 DEF CheckValid, AfterRefusal, TypeOK, Safe, HolderIsLive, OwnTokens, WithToken,
       AttemptLearns
  <2>4. AttemptLearns'
    BY <2>1, <1>7 DEF CheckValid, AfterRefusal, StillValid, TypeOK, Safe, InUseHasRow, HolderIsLive,
       AttemptLearns, InUse, OwnTokens, WithToken, OneAttempt, Section, Timely, WithAge
  <2> QED
    BY <2>2, <2>3, <2>4 DEF Safe
<1>8. QED
  BY <1>2, <1>3, <1>4, <1>5, <1>6, <1>7

(* The lock was lost, so nobody in the process uses it. *)
LEMMA CheckLostStep ==
    ASSUME IInv, NEW t \in Tasks, CheckLost(t)
    PROVE  IInv'
<1> USE HomeAssumption, AgeFacts, TokenFacts DEF IInv, db, process, attempt, history
<1>1. FreshToken \in Tokens /\ FreshToken \notin TokensInUse
  BY FreshTokenFacts DEF CheckLost, OwnTokens, WithToken
<1>2. TypeOK'
  BY <1>1, RowFacts DEF CheckLost, SendInsert, TypeOK, PcValues, Timely, WithAge, Rows
<1>3. OneAttempt'
  BY DEF CheckLost, SendInsert, TypeOK, OneAttempt, Section
<1>4. OwnTokens'
  BY <1>1, <1>2 DEF CheckLost, SendInsert, TypeOK, OwnTokens, WithToken, TokensInUse
<1>5. Timely'
  BY DEF CheckLost, SendInsert, TypeOK, Timely, WithAge, WithRenewal
<1>6. RenewsForward'
  BY <1>1, RowFacts DEF CheckLost, SendInsert, TypeOK, RenewsForward, Timely, WithRenewal,
     OwnTokens, WithToken, TokensInUse
<1>7. ASSUME ~lapsed', ~clobbered' PROVE Safe'
  <2>1. Safe
    BY <1>7 DEF CheckLost, SendInsert
  <2>2. InUseHasRow'
    BY <1>1, <2>1, <1>7, RowFacts DEF CheckLost, SendInsert, StillValid, TypeOK, Safe, InUseHasRow,
       HolderIsLive, AttemptLearns, InUse, OwnTokens, WithToken, OneAttempt, Section, Timely, WithAge,
       TokensInUse
  <2>3. HolderIsLive'
    BY <2>1, <1>7 DEF CheckLost, SendInsert, TypeOK, Safe, HolderIsLive, OwnTokens, WithToken,
       AttemptLearns
  <2>4. AttemptLearns'
    BY <1>1, <2>1, <1>7 DEF CheckLost, SendInsert, StillValid, TypeOK, Safe, InUseHasRow,
       HolderIsLive, AttemptLearns, InUse, OwnTokens, WithToken, OneAttempt, Section, Timely, WithAge
  <2> QED
    BY <2>2, <2>3, <2>4 DEF Safe
<1>8. QED
  BY <1>2, <1>3, <1>4, <1>5, <1>6, <1>7

(* The INSERT takes the row only if no lock in use has it. *)
LEMMA InsertTxnStep ==
    ASSUME IInv, NEW t \in Tasks, InsertTxn(t)
    PROVE  IInv'
<1> USE HomeAssumption, AgeFacts, TokenFacts DEF IInv, db, process, attempt, history
<1>2. TypeOK'
  <2>1. token[t] \in Tokens /\ age[t] \in Ages
    BY DEF InsertTxn, TypeOK, OwnTokens, WithToken, Timely, WithAge
  <2>2. row' \in Rows
    BY <2>1 DEF InsertTxn, Rows
  <2>3. pc' \in [Tasks -> PcValues] /\ age' \in [Tasks -> Ages \cup {NoAge}]
    BY DEF InsertTxn, TypeOK, PcValues
  <2>4. lapsed' \in BOOLEAN
    BY DEF InsertTxn
  <2> QED
    BY <2>2, <2>3, <2>4 DEF InsertTxn, TypeOK
<1>3. OneAttempt'
  BY DEF InsertTxn, TypeOK, OneAttempt, Section
<1>4. OwnTokens'
  BY <1>2 DEF InsertTxn, TypeOK, OwnTokens, WithToken, TokensInUse
<1>5. Timely'
  BY DEF InsertTxn, TypeOK, Timely, WithAge, WithRenewal
<1>6. RenewsForward'
  BY RowFacts DEF InsertTxn, TypeOK, RenewsForward, Timely, WithRenewal, OwnTokens, WithToken,
     TokensInUse
<1>7. ASSUME ~lapsed', ~clobbered' PROVE Safe'
  <2>1. Safe
    BY <1>7 DEF InsertTxn
  <2>2. row' = [token |-> token[t], instance |-> HomeOf[t], current |-> TRUE, age |-> age[t]]
        /\ age[t] <= RenewBy
    <3>1. ~(age[t] > RenewBy)
      BY <1>7 DEF InsertTxn
    <3>2. age[t] \in Nat
      BY DEF TypeOK
    <3> QED
      BY <3>1, <3>2 DEF InsertTxn
  <2>3. ASSUME NEW u \in Tasks, InUse(u) PROVE FALSE
    <3>1. row.token = token[u] /\ row.instance = HomeOf[u] /\ row.age <= RenewBy
      BY <2>1, <2>3 DEF Safe, InUseHasRow
    <3>2. row # NoRow /\ row.age \in Nat
      BY <2>3, <3>1, RowFacts DEF InUse, OwnTokens, WithToken, TypeOK
    <3>3. ~(row.age > age[t] + Timeout)
      BY <3>1, <3>2 DEF InsertTxn, Timely, WithAge, TypeOK
    <3>4. HomeOf[u] = HomeOf[t]
      BY <3>1, <3>2, <3>3 DEF InsertTxn, Takeable
    <3> QED
      BY <2>1, <2>3, <3>4 DEF InsertTxn, InUse, Safe, AttemptLearns, OneAttempt, Section
  <2>4. InUseHasRow'
    BY <2>2, <2>3 DEF InsertTxn, TypeOK, InUseHasRow, InUse
  <2>5. HolderIsLive' /\ AttemptLearns'
    BY <2>3 DEF InsertTxn, TypeOK, HolderIsLive, AttemptLearns, InUse
  <2> QED
    BY <2>4, <2>5 DEF Safe
<1>8. QED
  BY <1>2, <1>3, <1>4, <1>5, <1>6, <1>7

(* The INSERT finds the row taken. *)
LEMMA InsertRefusedStep ==
    ASSUME IInv, NEW t \in Tasks, InsertRefused(t)
    PROVE  IInv'
<1> USE HomeAssumption, AgeFacts, TokenFacts DEF IInv, db, process, attempt, history
<1>2. TypeOK'
  BY RowFacts DEF InsertRefused, TypeOK, PcValues, Timely, WithAge, Rows
<1>3. OneAttempt'
  BY DEF InsertRefused, TypeOK, OneAttempt, Section
<1>4. OwnTokens'
  BY <1>2 DEF InsertRefused, TypeOK, OwnTokens, WithToken, TokensInUse
<1>5. Timely'
  BY DEF InsertRefused, TypeOK, Timely, WithAge, WithRenewal
<1>6. RenewsForward'
  BY RowFacts DEF InsertRefused, TypeOK, RenewsForward, Timely, WithRenewal, OwnTokens, WithToken,
     TokensInUse
<1>7. ASSUME ~lapsed', ~clobbered' PROVE Safe'
  <2>1. Safe
    BY <1>7 DEF InsertRefused
  <2>2. InUseHasRow'
    BY <2>1, <1>7, RowFacts DEF InsertRefused, Takeable, TypeOK, Safe, InUseHasRow, HolderIsLive,
       AttemptLearns, InUse, OwnTokens, WithToken, OneAttempt, Section, Timely, WithAge, TokensInUse
  <2>3. HolderIsLive'
    BY <2>1, <1>7 DEF InsertRefused, TypeOK, Safe, HolderIsLive, OwnTokens, WithToken, AttemptLearns
  <2>4. AttemptLearns'
    BY <2>1, <1>7 DEF InsertRefused, Takeable, TypeOK, Safe, InUseHasRow, HolderIsLive,
       AttemptLearns, InUse, OwnTokens, WithToken, OneAttempt, Section, Timely, WithAge
  <2> QED
    BY <2>2, <2>3, <2>4 DEF Safe
<1>8. QED
  BY <1>2, <1>3, <1>4, <1>5, <1>6, <1>7

(* The Lock enters _live_lock_tokens. *)
LEMMA GrantedStep ==
    ASSUME IInv, NEW t \in Tasks, Granted(t)
    PROVE  IInv'
<1> USE HomeAssumption, AgeFacts, TokenFacts DEF IInv, db, process, attempt, history
<1>2. TypeOK'
  BY RowFacts DEF Granted, TypeOK, PcValues, Timely, WithAge, Rows
<1>3. OneAttempt'
  BY DEF Granted, TypeOK, OneAttempt, Section
<1>4. OwnTokens'
  BY <1>2 DEF Granted, TypeOK, OwnTokens, WithToken, TokensInUse
<1>5. Timely'
  BY DEF Granted, TypeOK, Timely, WithAge, WithRenewal
<1>6. RenewsForward'
  BY RowFacts DEF Granted, TypeOK, RenewsForward, Timely, WithRenewal, OwnTokens, WithToken,
     TokensInUse
<1>7. ASSUME ~lapsed', ~clobbered' PROVE Safe'
  <2>1. Safe
    BY <1>7 DEF Granted
  <2>2. InUseHasRow'
    BY <2>1, <1>7, RowFacts DEF Granted, TypeOK, Safe, InUseHasRow, HolderIsLive, AttemptLearns,
       InUse, OwnTokens, WithToken, OneAttempt, Section, Timely, WithAge, TokensInUse
  <2>3. HolderIsLive'
    BY <2>1, <1>7 DEF Granted, TypeOK, Safe, HolderIsLive, OwnTokens, WithToken, AttemptLearns
  <2>4. AttemptLearns'
    BY <2>1, <1>7 DEF Granted, TypeOK, Safe, InUseHasRow, HolderIsLive, AttemptLearns, InUse,
       OwnTokens, WithToken, OneAttempt, Section, Timely, WithAge
  <2> QED
    BY <2>2, <2>3, <2>4 DEF Safe
<1>8. QED
  BY <1>2, <1>3, <1>4, <1>5, <1>6, <1>7

(* The attempt ends, the key leaves _acquiring_locks. *)
LEMMA RefusedStep ==
    ASSUME IInv, NEW t \in Tasks, Refused(t)
    PROVE  IInv'
<1> USE HomeAssumption, AgeFacts, TokenFacts DEF IInv, db, process, attempt, history
<1>2. TypeOK'
  BY RowFacts DEF Refused, AfterRefusal, TypeOK, PcValues, Timely, WithAge, Rows
<1>3. OneAttempt'
  BY DEF Refused, AfterRefusal, TypeOK, OneAttempt, Section
<1>4. OwnTokens'
  BY <1>2 DEF Refused, AfterRefusal, TypeOK, OwnTokens, WithToken, TokensInUse
<1>5. Timely'
  BY DEF Refused, AfterRefusal, TypeOK, Timely, WithAge, WithRenewal
<1>6. RenewsForward'
  BY RowFacts DEF Refused, AfterRefusal, TypeOK, RenewsForward, Timely, WithRenewal, OwnTokens,
     WithToken, TokensInUse
<1>7. ASSUME ~lapsed', ~clobbered' PROVE Safe'
  <2>1. Safe
    BY <1>7 DEF Refused, AfterRefusal
  <2>2. InUseHasRow'
    BY <2>1, <1>7, RowFacts DEF Refused, AfterRefusal, TypeOK, Safe, InUseHasRow, HolderIsLive,
       AttemptLearns, InUse, OwnTokens, WithToken, OneAttempt, Section, Timely, WithAge, TokensInUse
  <2>3. HolderIsLive'
    BY <2>1, <1>7 DEF Refused, AfterRefusal, TypeOK, Safe, HolderIsLive, OwnTokens, WithToken,
       AttemptLearns
  <2>4. AttemptLearns'
    BY <2>1, <1>7 DEF Refused, AfterRefusal, TypeOK, Safe, InUseHasRow, HolderIsLive, AttemptLearns,
       InUse, OwnTokens, WithToken, OneAttempt, Section, Timely, WithAge
  <2> QED
    BY <2>2, <2>3, <2>4 DEF Safe
<1>8. QED
  BY <1>2, <1>3, <1>4, <1>5, <1>6, <1>7

(* An attempt raises: the finally block runs. *)
LEMMA AttemptFailsStep ==
    ASSUME IInv, NEW t \in Tasks, AttemptFails(t)
    PROVE  IInv'
<1> USE HomeAssumption, AgeFacts, TokenFacts DEF IInv, db, process, attempt, history
<1>2. TypeOK'
  <2>1. /\ pc' \in [Tasks -> PcValues]
        /\ acquiring' \in [Instances -> BOOLEAN]
    BY DEF AttemptFails, TypeOK, PcValues
  <2>2. faults' \in 0 .. MaxFaults
    BY DEF AttemptFails, Fault, TypeOK
  <2>3. /\ token' \in [Tasks -> Tokens \cup {NoToken}]
        /\ checking' \in [Tasks -> Tokens \cup {NoToken}]
        /\ age' \in [Tasks -> Ages \cup {NoAge}]
    BY DEF AttemptFails, TypeOK
  <2> QED
    BY <2>1, <2>2, <2>3 DEF AttemptFails, TypeOK
<1>3. OneAttempt'
  BY DEF AttemptFails, Fault, TypeOK, OneAttempt, Section
<1>4. OwnTokens'
  BY <1>2 DEF AttemptFails, Fault, TypeOK, OwnTokens, WithToken, TokensInUse
<1>5. Timely'
  BY DEF AttemptFails, Fault, TypeOK, Timely, WithAge, WithRenewal
<1>6. RenewsForward'
  BY RowFacts DEF AttemptFails, Fault, TypeOK, RenewsForward, Timely, WithRenewal, OwnTokens,
     WithToken, TokensInUse
<1>7. ASSUME ~lapsed', ~clobbered' PROVE Safe'
  <2>1. Safe
    BY <1>7 DEF AttemptFails, Fault
  <2>2. InUseHasRow'
    BY <2>1, <1>7, RowFacts DEF AttemptFails, Fault, TypeOK, Safe, InUseHasRow, HolderIsLive,
       AttemptLearns, InUse, OwnTokens, WithToken, OneAttempt, Section, Timely, WithAge, TokensInUse
  <2>3. HolderIsLive'
    BY <2>1, <1>7 DEF AttemptFails, Fault, TypeOK, Safe, HolderIsLive, OwnTokens, WithToken,
       AttemptLearns
  <2>4. AttemptLearns'
    BY <2>1, <1>7 DEF AttemptFails, Fault, TypeOK, Safe, InUseHasRow, HolderIsLive, AttemptLearns,
       InUse, OwnTokens, WithToken, OneAttempt, Section, Timely, WithAge
  <2> QED
    BY <2>2, <2>3, <2>4 DEF Safe
<1>8. QED
  BY <1>2, <1>3, <1>4, <1>5, <1>6, <1>7

(* _renew: the UPDATE is sent with the time of sending. *)
LEMMA RenewSendStep ==
    ASSUME IInv, NEW t \in Tasks, RenewSend(t)
    PROVE  IInv'
<1> USE HomeAssumption, AgeFacts, TokenFacts DEF IInv, db, process, attempt, history
<1>2. TypeOK'
  BY RowFacts DEF RenewSend, TypeOK, PcValues, Timely, WithAge, Rows
<1>3. OneAttempt'
  BY DEF RenewSend, TypeOK, OneAttempt, Section
<1>4. OwnTokens'
  BY <1>2 DEF RenewSend, TypeOK, OwnTokens, WithToken, TokensInUse
<1>5. Timely'
  BY DEF RenewSend, TypeOK, Timely, WithAge, WithRenewal
<1>6. RenewsForward'
  BY RowFacts DEF RenewSend, TypeOK, RenewsForward, Timely, WithRenewal, OwnTokens, WithToken,
     TokensInUse
<1>7. ASSUME ~lapsed', ~clobbered' PROVE Safe'
  <2>1. Safe
    BY <1>7 DEF RenewSend
  <2>2. InUseHasRow'
    BY <2>1, <1>7, RowFacts DEF RenewSend, TypeOK, Safe, InUseHasRow, HolderIsLive, AttemptLearns,
       InUse, OwnTokens, WithToken, OneAttempt, Section, Timely, WithAge, TokensInUse
  <2>3. HolderIsLive'
    BY <2>1, <1>7 DEF RenewSend, TypeOK, Safe, HolderIsLive, OwnTokens, WithToken, AttemptLearns
  <2>4. AttemptLearns'
    BY <2>1, <1>7 DEF RenewSend, TypeOK, Safe, InUseHasRow, HolderIsLive, AttemptLearns, InUse,
       OwnTokens, WithToken, OneAttempt, Section, Timely, WithAge
  <2> QED
    BY <2>2, <2>3, <2>4 DEF Safe
<1>8. QED
  BY <1>2, <1>3, <1>4, <1>5, <1>6, <1>7

(* _renew: the UPDATE runs, in time or not. *)
LEMMA RenewTxnStep ==
    ASSUME IInv, NEW t \in Tasks, RenewTxn(t)
    PROVE  IInv'
<1> USE HomeAssumption, AgeFacts, TokenFacts DEF IInv, db, process, attempt, history
<1>1. /\ renewal[t] \in Ages /\ token[t] # NoToken
      /\ row.token = token[t] => /\ row \in Rows
                                 /\ row' = [row EXCEPT !.age = renewal[t]]
                                 /\ row' \in Rows
                                 /\ row'.token = row.token
                                 /\ row'.instance = row.instance
                                 /\ row'.age = renewal[t]
  <2>1. renewal[t] \in Ages /\ token[t] # NoToken
    BY DEF RenewTxn, TypeOK, Timely, WithRenewal, OwnTokens, WithToken
  <2>2. row.token = token[t] => row \in Rows /\ row' = [row EXCEPT !.age = renewal[t]]
    BY <2>1, RowFacts DEF RenewTxn, TypeOK
  <2> QED
    BY <2>1, <2>2 DEF Rows
<1>2. TypeOK'
  BY <1>1 DEF RenewTxn, TypeOK
<1>3. OneAttempt'
  BY DEF RenewTxn, TypeOK, OneAttempt, Section
<1>4. OwnTokens'
  BY <1>2 DEF RenewTxn, TypeOK, OwnTokens, WithToken, TokensInUse
<1>5. Timely'
  BY DEF RenewTxn, TypeOK, Timely, WithAge, WithRenewal
<1>6. RenewsForward'
  BY RowFacts DEF RenewTxn, TypeOK, RenewsForward, Timely, WithRenewal, OwnTokens, WithToken,
     TokensInUse
<1>7. ASSUME ~lapsed', ~clobbered' PROVE Safe'
  <2>1. Safe
    BY <1>7 DEF RenewTxn
  <2>2. InUseHasRow'
    <3>1. row.token = token[t] => row.age \in Nat /\ renewal[t] <= row.age
      BY <1>1 DEF RenewTxn, RenewsForward, Rows
    <3>2. ASSUME NEW u \in Tasks, InUse(u), row.token = token[t]
          PROVE  row'.token = token[u] /\ row'.instance = HomeOf[u] /\ row'.age <= RenewBy
      BY <1>1, <2>1, <3>1, <3>2 DEF Safe, InUseHasRow
    <3> QED
      BY <2>1, <3>2 DEF RenewTxn, Safe, InUseHasRow, InUse
  <2>3. HolderIsLive'
    BY <2>1, <1>7 DEF RenewTxn, TypeOK, Safe, HolderIsLive, OwnTokens, WithToken, AttemptLearns
  <2>4. AttemptLearns'
    BY <2>1, <1>7 DEF RenewTxn, TypeOK, Safe, InUseHasRow, HolderIsLive, AttemptLearns, InUse,
       OwnTokens, WithToken, OneAttempt, Section, Timely, WithAge
  <2> QED
    BY <2>2, <2>3, <2>4 DEF Safe
<1>8. QED
  BY <1>2, <1>3, <1>4, <1>5, <1>6, <1>7

(* release sends its DELETE. *)
LEMMA ReleaseStartStep ==
    ASSUME IInv, NEW t \in Tasks, ReleaseStart(t)
    PROVE  IInv'
<1> USE HomeAssumption, AgeFacts, TokenFacts DEF IInv, db, process, attempt, history
<1>2. TypeOK'
  BY RowFacts DEF ReleaseStart, TypeOK, PcValues, Timely, WithAge, Rows
<1>3. OneAttempt'
  BY DEF ReleaseStart, TypeOK, OneAttempt, Section
<1>4. OwnTokens'
  BY <1>2 DEF ReleaseStart, TypeOK, OwnTokens, WithToken, TokensInUse
<1>5. Timely'
  BY DEF ReleaseStart, TypeOK, Timely, WithAge, WithRenewal
<1>6. RenewsForward'
  BY RowFacts DEF ReleaseStart, TypeOK, RenewsForward, Timely, WithRenewal, OwnTokens, WithToken,
     TokensInUse
<1>7. ASSUME ~lapsed', ~clobbered' PROVE Safe'
  <2>1. Safe
    BY <1>7 DEF ReleaseStart
  <2>2. InUseHasRow'
    BY <2>1, <1>7, RowFacts DEF ReleaseStart, TypeOK, Safe, InUseHasRow, HolderIsLive,
       AttemptLearns, InUse, OwnTokens, WithToken, OneAttempt, Section, Timely, WithAge, TokensInUse
  <2>3. HolderIsLive'
    BY <2>1, <1>7 DEF ReleaseStart, TypeOK, Safe, HolderIsLive, OwnTokens, WithToken, AttemptLearns
  <2>4. AttemptLearns'
    BY <2>1, <1>7 DEF ReleaseStart, TypeOK, Safe, InUseHasRow, HolderIsLive, AttemptLearns, InUse,
       OwnTokens, WithToken, OneAttempt, Section, Timely, WithAge
  <2> QED
    BY <2>2, <2>3, <2>4 DEF Safe
<1>8. QED
  BY <1>2, <1>3, <1>4, <1>5, <1>6, <1>7

(* The DELETE removes the row with the Lock's own token only. *)
LEMMA DeleteTxnStep ==
    ASSUME IInv, NEW t \in Tasks, DeleteTxn(t)
    PROVE  IInv'
<1> USE HomeAssumption, AgeFacts, TokenFacts DEF IInv, db, process, attempt, history
<1>2. TypeOK'
  BY RowFacts DEF DeleteTxn, TypeOK, PcValues, Timely, WithAge, Rows
<1>3. OneAttempt'
  BY DEF DeleteTxn, TypeOK, OneAttempt, Section
<1>4. OwnTokens'
  BY <1>2 DEF DeleteTxn, TypeOK, OwnTokens, WithToken, TokensInUse
<1>5. Timely'
  BY DEF DeleteTxn, TypeOK, Timely, WithAge, WithRenewal
<1>6. RenewsForward'
  BY DEF DeleteTxn, NoRow, TypeOK, RenewsForward, Timely, WithRenewal, OwnTokens, WithToken
<1>7. ASSUME ~lapsed', ~clobbered' PROVE Safe'
  <2>1. Safe
    BY <1>7 DEF DeleteTxn
  <2>2. InUseHasRow'
    BY <2>1, <1>7, RowFacts DEF DeleteTxn, TypeOK, Safe, InUseHasRow, HolderIsLive, AttemptLearns,
       InUse, OwnTokens, WithToken, OneAttempt, Section, Timely, WithAge, TokensInUse
  <2>3. HolderIsLive'
    BY <2>1, <1>7 DEF DeleteTxn, TypeOK, Safe, HolderIsLive, OwnTokens, WithToken, AttemptLearns
  <2>4. AttemptLearns'
    BY <2>1, <1>7 DEF DeleteTxn, TypeOK, Safe, InUseHasRow, HolderIsLive, AttemptLearns, InUse,
       OwnTokens, WithToken, OneAttempt, Section, Timely, WithAge
  <2> QED
    BY <2>2, <2>3, <2>4 DEF Safe
<1>8. QED
  BY <1>2, <1>3, <1>4, <1>5, <1>6, <1>7

(* release pops the live entry, which may be another Lock's: clobbered. *)
LEMMA ReleaseEndStep ==
    ASSUME IInv, NEW t \in Tasks, ReleaseEnd(t)
    PROVE  IInv'
<1> USE HomeAssumption, AgeFacts, TokenFacts DEF IInv, db, process, attempt, history
<1>2. TypeOK'
  BY RowFacts DEF ReleaseEnd, TypeOK, PcValues, Timely, WithAge, Rows
<1>3. OneAttempt'
  BY DEF ReleaseEnd, TypeOK, OneAttempt, Section
<1>4. OwnTokens'
  BY <1>2 DEF ReleaseEnd, TypeOK, OwnTokens, WithToken, TokensInUse
<1>5. Timely'
  BY DEF ReleaseEnd, TypeOK, Timely, WithAge, WithRenewal
<1>6. RenewsForward'
  BY RowFacts DEF ReleaseEnd, TypeOK, RenewsForward, Timely, WithRenewal, OwnTokens, WithToken,
     TokensInUse
<1>7. ASSUME ~lapsed', ~clobbered' PROVE Safe'
  <2>1. Safe
    BY <1>7 DEF ReleaseEnd
  <2>2. InUseHasRow'
    BY <2>1, <1>7, RowFacts DEF ReleaseEnd, TypeOK, Safe, InUseHasRow, HolderIsLive, AttemptLearns,
       InUse, OwnTokens, WithToken, OneAttempt, Section, Timely, WithAge, TokensInUse
  <2>3. HolderIsLive'
    <3>1. live[HomeOf[t]] \in {NoToken, token[t]} /\ pc[t] = "deleted"
      BY <1>7 DEF ReleaseEnd
    <3>2. ASSUME NEW u \in Tasks, pc[u] = "holding" PROVE HomeOf[u] # HomeOf[t]
      BY <2>1, <3>1, <3>2 DEF Safe, HolderIsLive, OwnTokens, WithToken
    <3> QED
      BY <2>1, <3>2 DEF ReleaseEnd, TypeOK, Safe, HolderIsLive
  <2>4. AttemptLearns'
    BY <2>1, <1>7 DEF ReleaseEnd, TypeOK, Safe, InUseHasRow, HolderIsLive, AttemptLearns, InUse,
       OwnTokens, WithToken, OneAttempt, Section, Timely, WithAge
  <2> QED
    BY <2>2, <2>3, <2>4 DEF Safe
<1>8. QED
  BY <1>2, <1>3, <1>4, <1>5, <1>6, <1>7

(* A Lock is lost without release: its entry goes with it. *)
LEMMA DropStep ==
    ASSUME IInv, NEW t \in Tasks, Drop(t)
    PROVE  IInv'
<1> USE HomeAssumption, AgeFacts, TokenFacts DEF IInv, db, process, attempt, history
<1>2. TypeOK'
  <2>1. pc' \in [Tasks -> PcValues] /\ faults' \in 0 .. MaxFaults
    BY DEF Drop, Fault, TypeOK, PcValues
  <2>2. /\ live' \in [Instances -> Tokens \cup {NoToken}]
        /\ token' \in [Tasks -> Tokens \cup {NoToken}]
        /\ renewal' \in [Tasks -> Ages \cup {NoAge}]
    BY DEF Drop, TypeOK
  <2> QED
    BY <2>1, <2>2 DEF Drop, TypeOK
<1>3. OneAttempt'
  BY DEF Drop, Fault, TypeOK, OneAttempt, Section
<1>4. OwnTokens'
  BY <1>2 DEF Drop, Fault, TypeOK, OwnTokens, WithToken, TokensInUse
<1>5. Timely'
  BY DEF Drop, Fault, TypeOK, Timely, WithAge, WithRenewal
<1>6. RenewsForward'
  BY RowFacts DEF Drop, Fault, TypeOK, RenewsForward, Timely, WithRenewal, OwnTokens, WithToken,
     TokensInUse
<1>7. ASSUME ~lapsed', ~clobbered' PROVE Safe'
  <2>1. Safe
    BY <1>7 DEF Drop, Fault
  <2>2. InUseHasRow'
    BY <2>1, <1>7, RowFacts DEF Drop, Fault, TypeOK, Safe, InUseHasRow, HolderIsLive, AttemptLearns,
       InUse, OwnTokens, WithToken, OneAttempt, Section, Timely, WithAge, TokensInUse
  <2>3. HolderIsLive'
    BY <2>1, <1>7 DEF Drop, Fault, TypeOK, Safe, HolderIsLive, OwnTokens, WithToken, AttemptLearns
  <2>4. AttemptLearns'
    BY <2>1, <1>7 DEF Drop, Fault, TypeOK, Safe, InUseHasRow, HolderIsLive, AttemptLearns, InUse,
       OwnTokens, WithToken, OneAttempt, Section, Timely, WithAge
  <2> QED
    BY <2>2, <2>3, <2>4 DEF Safe
<1>8. QED
  BY <1>2, <1>3, <1>4, <1>5, <1>6, <1>7

(* A process dies: its tasks, entries and attempts are gone, rows stay. *)
LEMMA CrashStep ==
    ASSUME IInv, NEW i \in Instances, Crash(i)
    PROVE  IInv'
<1> USE HomeAssumption, AgeFacts, TokenFacts DEF IInv
<1>1. /\ \A t \in Tasks : /\ HomeOf[t] = i => /\ pc'[t] = "idle" /\ token'[t] = NoToken
                                              /\ checking'[t] = NoToken /\ seen'[t] = NoAge
                                              /\ age'[t] = NoAge /\ renewal'[t] = NoAge
                          /\ HomeOf[t] # i => /\ pc'[t] = pc[t] /\ token'[t] = token[t]
                                              /\ checking'[t] = checking[t] /\ seen'[t] = seen[t]
                                              /\ age'[t] = age[t] /\ renewal'[t] = renewal[t]
      /\ \A j \in Instances \ {i} : live'[j] = live[j] /\ acquiring'[j] = acquiring[j]
  BY DEF Crash, TasksOf, TypeOK
<1>2. /\ row' \in Rows \cup {NoRow} /\ row'.token = row.token
      /\ row # NoRow => row'.instance = row.instance /\ row'.age = row.age
  <2>1. CASE row # NoRow /\ row.instance = i
    BY <2>1, RowFacts DEF Crash, TypeOK, Rows
  <2>2. CASE ~(row # NoRow /\ row.instance = i)
    BY <2>2 DEF Crash, TypeOK
  <2> QED
    BY <2>1, <2>2
<1>3. TypeOK'
  <2>1. /\ live' \in [Instances -> Tokens \cup {NoToken}]
        /\ acquiring' \in [Instances -> BOOLEAN]
        /\ faults' \in 0 .. MaxFaults
    BY DEF Crash, Fault, TypeOK
  <2>2. pc' \in [Tasks -> PcValues]
    BY DEF Crash, TypeOK, PcValues
  <2>3. /\ token' \in [Tasks -> Tokens \cup {NoToken}]
        /\ checking' \in [Tasks -> Tokens \cup {NoToken}]
    BY DEF Crash, TypeOK
  <2>4. /\ seen' \in [Tasks -> Ages \cup {NoAge}]
        /\ age' \in [Tasks -> Ages \cup {NoAge}]
        /\ renewal' \in [Tasks -> Ages \cup {NoAge}]
    BY DEF Crash, TypeOK
  <2> QED
    BY <1>2, <2>1, <2>2, <2>3, <2>4 DEF Crash, TypeOK
<1>4. OneAttempt'
  BY <1>1 DEF OneAttempt, Section
<1>5. OwnTokens'
  BY <1>1 DEF OwnTokens, WithToken
<1>6. Timely'
  BY <1>1 DEF Timely, WithAge, WithRenewal
<1>7. RenewsForward'
  BY <1>1, <1>2, RowFacts DEF TypeOK, RenewsForward, Timely, WithRenewal, OwnTokens, WithToken
<1>8. ASSUME ~lapsed', ~clobbered' PROVE Safe'
  <2>1. Safe
    BY <1>8 DEF Crash
  <2>2. InUseHasRow'
    <3>1. ASSUME NEW t \in Tasks, InUse(t)'
          PROVE  /\ row'.token = token'[t] /\ row'.instance = HomeOf[t] /\ row'.age <= RenewBy
      <4>1. HomeOf[t] # i /\ InUse(t)
        BY <1>1, <3>1 DEF InUse
      <4>2. row # NoRow
        BY <2>1, <4>1, RowFacts DEF TypeOK, Safe, InUseHasRow, InUse, OwnTokens, WithToken
      <4> QED
        BY <1>1, <1>2, <2>1, <4>1, <4>2 DEF Safe, InUseHasRow
    <3> QED
      BY <3>1 DEF InUseHasRow
  <2>3. HolderIsLive'
    BY <1>1, <2>1 DEF Safe, HolderIsLive
  <2>4. AttemptLearns'
    BY <1>1, <2>1 DEF Safe, AttemptLearns
  <2> QED
    BY <2>2, <2>3, <2>4 DEF Safe
<1>9. QED
  BY <1>3, <1>4, <1>5, <1>6, <1>7, <1>8

(* Time passes: a lock in use whose row grows too old is lapsed. *)
LEMMA TickStep ==
    ASSUME IInv, Tick
    PROVE  IInv'
<1> USE HomeAssumption, AgeFacts, TokenFacts DEF IInv
<1>1. UNCHANGED <<live, acquiring, pc, token, checking, seen, clobbered, faults>>
  BY DEF Tick, process
<1>2. /\ age' \in [Tasks -> Ages \cup {NoAge}]
      /\ renewal' \in [Tasks -> Ages \cup {NoAge}]
      /\ \A t \in Tasks : /\ age[t] = NoAge => age'[t] = NoAge
                          /\ age[t] # NoAge => age'[t] = age[t] + 1 /\ age'[t] <= MaxDelay
                          /\ renewal[t] = NoAge => renewal'[t] = NoAge
                          /\ renewal[t] # NoAge => /\ renewal'[t] = renewal[t] + 1
                                                   /\ renewal'[t] <= MaxDelay
  BY DEF Tick, Older, TypeOK
<1>3. /\ row' \in Rows \cup {NoRow} /\ row'.token = row.token
      /\ row # NoRow => /\ row'.instance = row.instance
                        /\ row'.age = IF row.age = OldAge THEN OldAge ELSE row.age + 1
  <2>1. CASE row = NoRow
    BY <2>1 DEF Tick, TypeOK
  <2>2. CASE row # NoRow
    <3>1. row \in Rows /\ row.age \in Ages /\ row' = [row EXCEPT !.age = Older(row.age)]
      BY <2>2, RowFacts DEF Tick, TypeOK
    <3>2. Older(row.age) \in Ages
          /\ Older(row.age) = IF row.age = OldAge THEN OldAge ELSE row.age + 1
      BY <3>1 DEF Older
    <3> QED
      BY <3>1, <3>2 DEF Rows
  <2> QED
    BY <2>1, <2>2
<1>4. TypeOK'
  <2>1. lapsed' \in BOOLEAN
    BY DEF Tick, TypeOK
  <2> QED
    BY <1>1, <1>2, <1>3, <2>1 DEF TypeOK
<1>5. OneAttempt' /\ OwnTokens'
  BY <1>1 DEF OneAttempt, OwnTokens
<1>6. Timely'
  BY <1>1, <1>2 DEF Timely, WithAge, TypeOK
<1>7. RenewsForward'
  BY <1>1, <1>2, <1>3, RowFacts DEF TypeOK, RenewsForward, Timely, WithRenewal, OwnTokens, WithToken
<1>8. ASSUME ~lapsed', ~clobbered' PROVE Safe'
  <2>1. Safe
    BY <1>8 DEF Tick
  <2>2. InUseHasRow'
    <3>1. ASSUME NEW t \in Tasks, InUse(t)
          PROVE  /\ row'.token = token[t] /\ row'.instance = HomeOf[t] /\ row'.age <= RenewBy
      <4>1. row.token = token[t] /\ row # NoRow
        BY <2>1, <3>1, RowFacts DEF TypeOK, Safe, InUseHasRow, InUse, OwnTokens, WithToken
      <4>2. ~(row'.age > RenewBy)
        BY <1>8, <3>1, <4>1 DEF Tick
      <4>3. row'.age \in Nat
        BY <1>3, <4>1, RowFacts DEF TypeOK
      <4> QED
        BY <1>3, <2>1, <3>1, <4>1, <4>2, <4>3 DEF Safe, InUseHasRow
    <3> QED
      BY <1>1, <3>1 DEF InUseHasRow, InUse
  <2>3. HolderIsLive' /\ AttemptLearns'
    BY <1>1, <2>1 DEF Safe, HolderIsLive, AttemptLearns
  <2> QED
    BY <2>2, <2>3 DEF Safe
<1>9. QED
  BY <1>4, <1>5, <1>6, <1>7, <1>8
--------------------------------------------------------------------------------
(* The inductive invariant. *)
LEMMA Invariance == Spec => []IInv
<1>1. IInv /\ [Next]_vars => IInv'
  <2> SUFFICES ASSUME IInv, [Next]_vars PROVE IInv'
    OBVIOUS
  <2>1. CASE UNCHANGED vars
    BY <2>1 DEF vars, db, process, attempt, history, IInv, TypeOK, OneAttempt, OwnTokens, Timely,
                RenewsForward, Safe, InUseHasRow, HolderIsLive, AttemptLearns, InUse
  <2>2. ASSUME NEW t \in Tasks,
               \/ Enter(t) \/ TryBusy(t) \/ TryCheck(t) \/ TryInsert(t) \/ Select(t)
               \/ CheckValid(t) \/ CheckLost(t) \/ InsertTxn(t) \/ InsertRefused(t)
               \/ Granted(t) \/ Refused(t) \/ AttemptFails(t) \/ Wake(t)
        PROVE  IInv'
    BY <2>2, MoveStep, TryCheckStep, TryInsertStep, SelectStep, CheckValidStep, CheckLostStep,
       InsertTxnStep, InsertRefusedStep, GrantedStep, RefusedStep, AttemptFailsStep
  <2>3. ASSUME NEW t \in Tasks,
               \/ RenewSend(t) \/ RenewTxn(t) \/ ReleaseStart(t) \/ DeleteTxn(t)
               \/ ReleaseEnd(t) \/ Drop(t)
        PROVE  IInv'
    BY <2>3, RenewSendStep, RenewTxnStep, ReleaseStartStep, DeleteTxnStep, ReleaseEndStep, DropStep
  <2>4. CASE (\E i \in Instances : Crash(i)) \/ Tick
    BY <2>4, CrashStep, TickStep
  <2>5. QED
    BY <2>1, <2>2, <2>3, <2>4 DEF Next
<1>2. QED
  BY <1>1, InitIInv, PTL DEF Spec

(* The variables keep their types; in particular a token is always free.   *)
THEOREM TypeCorrect == Spec => []TypeOK
BY Invariance, PTL DEF IInv

(* try_acquire_lock and Lock: one holder at a time in all processes, unless *)
(* a lock in use was not renewed in time or a release popped the live entry *)
(* of another Lock.                                                        *)
THEOREM LockExclusion == Spec => []Exclusive
<1>1. IInv => Exclusive
  <2> SUFFICES ASSUME IInv, ~lapsed, ~clobbered PROVE Cardinality(Holders) <= 1
    BY DEF Exclusive
  <2>1. \A t, u \in Holders : t = u
    BY DEF IInv, Safe, InUseHasRow, InUse, Holders, OwnTokens, WithToken
  <2>2. CASE Holders = {}
    BY <2>2, FS_EmptySet
  <2>3. CASE Holders # {}
    <3>1. PICK t \in Holders : Holders = {t}
      BY <2>1, <2>3
    <3> QED
      BY <3>1, FS_Singleton
  <2> QED
    BY <2>2, <2>3
<1>2. QED
  BY <1>1, Invariance, PTL
--------------------------------------------------------------------------------
(***************************************************************************)
(* The read/write locks.                                                   *)
(***************************************************************************)

(* A task that holds a lock and renews it in time has its row. *)
HoldersHaveRows ==
    \A t \in Acquisitions : task[t] \in {"held", "releasing"} => t \in rows \cup stalled

(* A task that does not hold a lock has no row. *)
OthersHaveNone == \A t \in rows : task[t] \notin {"idle", "waiting"}

(* A row is stale because nobody renews it any more, or not in time. *)
StaleExplained == \A t \in stale : task[t] = "left" \/ t \in stalled

(* The unique index on the writers' rows. *)
OneWriter == \A t, u \in rows \cap Writers : t = u

RwInv == RW!TypeOK /\ HoldersHaveRows /\ OthersHaveNone /\ StaleExplained /\ OneWriter /\ RW!ModeAgrees

(* What a trigger leaves of the mode row names a row that is left, if any. *)
LEMMA HandedProps ==
    ASSUME RW!TokensAssumption, RW!TypeOK, RW!ModeAgrees, NEW gone, NEW m \in RW!Handed(gone)
    PROVE  /\ m \in [write : BOOLEAN, token : Acquisitions \cup {RW!None.token}]
           /\ m = RW!None <=> rows \ gone = {}
           /\ m # RW!None => m.token \in rows \ gone
           /\ \A t \in rows \ gone : (t \in Writers) = m.write
<1> USE DEF RW!None, RW!Others
<1>1. CASE mode = RW!None
  BY <1>1 DEF RW!Handed, RW!ModeAgrees, RW!TypeOK
<1>2. CASE mode # RW!None /\ mode.token \notin gone
  BY <1>2 DEF RW!Handed, RW!ModeAgrees, RW!TypeOK
<1>3. CASE mode # RW!None /\ mode.token \in gone /\ rows \ gone = {}
  <2>1. m = RW!None
    BY <1>3 DEF RW!Handed
  <2> QED
    BY <1>3, <2>1
<1>4. CASE mode # RW!None /\ mode.token \in gone /\ rows \ gone # {}
  <2>1. PICK t \in (rows \ gone) \ locked : m = [mode EXCEPT !.token = t]
    BY <1>4 DEF RW!Handed
  <2>2. t \in Acquisitions /\ t # RW!None.token /\ m.token = t /\ m.write = mode.write
    BY <2>1 DEF RW!TypeOK, RW!TokensAssumption
  <2> QED
    BY <1>4, <2>1, <2>2 DEF RW!ModeAgrees, RW!TypeOK
<1>5. QED
  BY <1>1, <1>2, <1>3, <1>4

(* Both tables are empty at the start. *)
LEMMA RwInit == RW!TokensAssumption /\ RW!Init => RwInv
BY DEF RW!Init, RwInv, RW!TypeOK, HoldersHaveRows, OthersHaveNone, StaleExplained, OneWriter, RW!ModeAgrees, RW!None,
       RW!TokensAssumption

(* try_acquire_read_write_lock: the upsert trigger and the constraints     *)
(* let one mode in.                                                        *)
LEMMA RwTryAcquireStep ==
    ASSUME RW!TokensAssumption, RwInv, NEW t \in Acquisitions, RW!TryAcquire(t)
    PROVE  RwInv'
<1> USE DEF RwInv
<1>1. mode' = RW!UpsertMode(t) /\ rows' = rows \cup {t} /\ RW!InsertAllowed(t)
  BY DEF RW!TryAcquire
<1>2. mode' \in [write : BOOLEAN, token : Acquisitions \cup {RW!None.token}] /\ mode' # RW!None
  BY <1>1 DEF RW!UpsertMode, RW!TypeOK, RW!TokensAssumption, RW!None
<1>3. RW!TypeOK'
  BY <1>1, <1>2 DEF RW!TryAcquire, RW!TypeOK
<1>4. HoldersHaveRows' /\ OthersHaveNone' /\ StaleExplained'
  BY <1>1 DEF RW!TryAcquire, RW!TypeOK, HoldersHaveRows, OthersHaveNone, StaleExplained
<1>5. mode'.write = (t \in Writers) /\ mode'.token \in rows'
  BY <1>1 DEF RW!InsertAllowed, RW!UpsertMode, RW!ModeAgrees
<1>6. \A u \in rows : (u \in Writers) = mode'.write
  BY <1>1 DEF RW!UpsertMode, RW!ModeAgrees
<1>7. OneWriter'
  BY <1>1, <1>5, <1>6 DEF RW!InsertAllowed, OneWriter
<1>8. RW!ModeAgrees'
  BY <1>1, <1>2, <1>5, <1>6 DEF RW!ModeAgrees
<1>9. QED
  BY <1>3, <1>4, <1>7, <1>8

(* acquire_read_write_lock: what the task did before is over. *)
LEMMA RwAcquireStep ==
    ASSUME RwInv, NEW t \in Acquisitions, RW!Acquire(t)
    PROVE  RwInv'
<1> USE DEF RwInv
<1>1. RW!TypeOK'
  BY DEF RW!Acquire, RW!TypeOK
<1>2. RW!ModeAgrees' /\ OneWriter'
  BY DEF RW!Acquire, RW!ModeAgrees, OneWriter
<1>3. HoldersHaveRows' /\ OthersHaveNone' /\ StaleExplained'
  BY DEF RW!Acquire, RW!TypeOK, HoldersHaveRows, OthersHaveNone, StaleExplained
<1>4. QED
  BY <1>1, <1>2, <1>3

(* _renew: a row is locked and unlocked, its time is new. *)
LEMMA RwRenewStep ==
    ASSUME RwInv, NEW t \in Acquisitions, RW!BeginRenew(t) \/ RW!EndRenew(t) \/ RW!Release(t) \/ RW!DeleteRefused(t)
    PROVE  RwInv'
BY DEF RwInv, RW!TypeOK, HoldersHaveRows, OthersHaveNone, StaleExplained, OneWriter, RW!ModeAgrees,
       RW!BeginRenew, RW!EndRenew, RW!Release, RW!DeleteRefused

(* release: the delete trigger hands the mode row on, or the foreign key   *)
(* refuses.                                                                *)
LEMMA RwDeleteStep ==
    ASSUME RW!TokensAssumption, RwInv, NEW t \in Acquisitions, RW!Delete(t)
    PROVE  RwInv'
<1> USE DEF RwInv
<1>1. rows' = rows \ ({t} \cap rows) /\ mode' \in RW!Handed({t} \cap rows)
  BY DEF RW!Delete
<1>2. /\ mode' \in [write : BOOLEAN, token : Acquisitions \cup {RW!None.token}]
      /\ RW!ModeAgrees'
  BY <1>1, HandedProps DEF RW!ModeAgrees
<1>3. RW!TypeOK'
  BY <1>2 DEF RW!Delete, RW!TypeOK
<1>4. HoldersHaveRows' /\ OthersHaveNone' /\ StaleExplained' /\ OneWriter'
  BY DEF RW!Delete, RW!TypeOK, HoldersHaveRows, OthersHaveNone, StaleExplained, OneWriter
<1>5. QED
  BY <1>2, <1>3, <1>4

(* A crash, or a holder that stops renewing. *)
LEMMA RwFaultStep ==
    ASSUME RwInv, NEW t \in Acquisitions, RW!Expire(t) \/ RW!Crash(t)
    PROVE  RwInv'
<1> USE DEF RwInv
<1>1. RW!TypeOK'
  BY DEF RW!Expire, RW!Crash, RW!Fault, RW!TypeOK
<1>2. RW!ModeAgrees' /\ OneWriter'
  BY DEF RW!Expire, RW!Crash, RW!ModeAgrees, OneWriter
<1>3. HoldersHaveRows' /\ OthersHaveNone' /\ StaleExplained'
  BY DEF RW!Expire, RW!Crash, RW!Fault, RW!TypeOK, HoldersHaveRows, OthersHaveNone, StaleExplained
<1>4. QED
  BY <1>1, <1>2, <1>3

(* _reap_stale_read_write_locks deletes stale rows, with the triggers. *)
LEMMA RwReapStep ==
    ASSUME RW!TokensAssumption, RwInv, RW!Reap
    PROVE  RwInv'
<1> USE DEF RwInv
<1>1. rows' = rows \ stale /\ mode' \in RW!Handed(stale)
  BY DEF RW!Reap
<1>2. /\ mode' \in [write : BOOLEAN, token : Acquisitions \cup {RW!None.token}]
      /\ RW!ModeAgrees'
  BY <1>1, HandedProps DEF RW!ModeAgrees
<1>3. RW!TypeOK'
  BY <1>2 DEF RW!Reap, RW!TypeOK
<1>4. HoldersHaveRows' /\ OthersHaveNone' /\ StaleExplained' /\ OneWriter'
  BY DEF RW!Reap, RW!TypeOK, HoldersHaveRows, OthersHaveNone, StaleExplained, OneWriter
<1>5. QED
  BY <1>2, <1>3, <1>4

(* The inductive invariant. *)
LEMMA RwInvariance == ASSUME RW!TokensAssumption PROVE RW!Spec => []RwInv
<1>1. RW!Init => RwInv
  BY RwInit
<1>2. RwInv /\ [RW!Next]_(RW!vars) => RwInv'
  <2> SUFFICES ASSUME RwInv, [RW!Next]_(RW!vars) PROVE RwInv'
    OBVIOUS
  <2>1. CASE UNCHANGED RW!vars
    BY <2>1 DEF RW!vars, RwInv, RW!TypeOK, HoldersHaveRows, OthersHaveNone, StaleExplained, OneWriter, RW!ModeAgrees
  <2>2. CASE RW!Reap
    BY <2>2, RwReapStep
  <2>3. ASSUME NEW t \in Acquisitions,
               \/ RW!Acquire(t) \/ RW!TryAcquire(t) \/ RW!BeginRenew(t) \/ RW!EndRenew(t)
               \/ RW!Release(t) \/ RW!EndRelease(t) \/ RW!Expire(t) \/ RW!Crash(t)
        PROVE  RwInv'
    BY <2>3, RwAcquireStep, RwTryAcquireStep, RwRenewStep, RwDeleteStep, RwFaultStep DEF RW!EndRelease
  <2>4. QED
    BY <2>1, <2>2, <2>3 DEF RW!Next
<1>3. QED
  BY <1>1, <1>2, PTL DEF RW!Spec

(* The variables keep their types. *)
THEOREM RwTypeCorrect == ASSUME RW!TokensAssumption PROVE RW!Spec => []RW!TypeOK
BY RwInvariance, PTL DEF RwInv

(* The mode row is there exactly while there are locks, names one of them  *)
(* and has their mode, whatever the triggers, the reaper and refused       *)
(* deletes do (79/03, 80/03 and 80/04 of the schema).                      *)
THEOREM ModeAgreement == ASSUME RW!TokensAssumption PROVE RW!Spec => []ModeAgrees
BY RwInvariance, PTL DEF RwInv, ModeAgrees

(* A writer that renews in time is the only holder that does               *)
(* (try_acquire_read_write_lock).                                          *)
THEOREM WriterExclusion == ASSUME RW!TokensAssumption PROVE RW!Spec => []WriterAlone
<1>1. RwInv => WriterAlone
  BY DEF WriterAlone, RwInv, RW!TypeOK, HoldersHaveRows, OneWriter, RW!ModeAgrees, RW!WriterAlone, RW!TokensAssumption
<1>2. QED
  BY <1>1, RwInvariance, PTL
==================================================================================
