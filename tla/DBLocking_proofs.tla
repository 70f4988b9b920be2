-------------------------- MODULE DBLocking_proofs --------------------------
(***************************************************************************)
(* Proofs about the database locking provider, for any number of           *)
(* processes and paths, both cache modes and any bounds: typing, the       *)
(* inductive invariant RowCoversHolders, mutual exclusion, that no lock    *)
(* leaks, that isLocked misses no holder, and that the provider implements *)
(* FileLock.                                                               *)
(***************************************************************************)
EXTENDS DBLocking, FiniteSetTheorems, TLAPS

(***************************************************************************)
(* A provider call keeps the state well typed: no row value but -1 is      *)
(* negative and no process counts below zero.                              *)
(***************************************************************************)
LEMMA CallTyped ==
  ASSUME TypeOK, UNCHANGED closing, NEW p \in Procs, NEW k \in Paths,
         \/ shared[p][k] < MaxShared /\ AcquireShared(p, k)
         \/ AcquireExclusive(p, k)
         \/ ReleaseShared(p, k)
         \/ ReleaseExclusive(p, k)
         \/ shared[p][k] < MaxShared /\ ChangeToShared(p, k)
         \/ shared[p][k] > 0 /\ ChangeToExclusive(p, k)
  PROVE  TypeOK'
<1> USE DEF TypeOK, rows, own, WriteRow, NoRow, ExclusiveValue
<1> USE BoundsAssumption, CachingAssumption
<1>1. CASE shared[p][k] < MaxShared /\ AcquireShared(p, k)
  <2>1. shared[p][k] + 1 \in 0..MaxShared
    BY <1>1
  <2>2. lock' \in [Paths -> {NoRow, ExclusiveValue} \cup Nat]
    <3>1. CASE kept[p][k]
      BY <1>1, <3>1 DEF AcquireShared
    <3>2. CASE ~kept[p][k]
      <4>1. (IF lock[k] = NoRow THEN 1 ELSE lock[k] + 1) \in Nat
        BY <1>1, <3>2 DEF AcquireShared, AcquireSharedGranted
      <4> QED
        BY <1>1, <3>2, <4>1 DEF AcquireShared
    <3> QED
      BY <3>1, <3>2
  <2> QED
    BY <1>1, <2>1, <2>2 DEF AcquireShared
<1>2. CASE AcquireExclusive(p, k)
  BY <1>2 DEF AcquireExclusive
<1>3. CASE ReleaseShared(p, k)
  BY <1>3 DEF ReleaseShared
<1>4. CASE ReleaseExclusive(p, k)
  BY <1>4 DEF ReleaseExclusive
<1>5. CASE shared[p][k] < MaxShared /\ ChangeToShared(p, k)
  <2>1. shared[p][k] + 1 \in 0..MaxShared
    BY <1>5
  <2> QED
    BY <1>5, <2>1 DEF ChangeToShared
<1>6. CASE shared[p][k] > 0 /\ ChangeToExclusive(p, k)
  <2>1. shared[p][k] - 1 \in 0..MaxShared
    BY <1>6
  <2> QED
    BY <1>6, <2>1 DEF ChangeToExclusive
<1> QED
  BY <1>1, <1>2, <1>3, <1>4, <1>5, <1>6

(***************************************************************************)
(* So does every step, whatever liberties the processes take.              *)
(***************************************************************************)
LEMMA TypingStep == TypeOK /\ [Next]_vars => TypeOK'
<1> SUFFICES ASSUME TypeOK, [Next]_vars PROVE TypeOK'
  OBVIOUS
<1>1. ASSUME NEW p \in Procs, NEW k \in Paths, UNCHANGED closing,
             ClientCall(p, k) \/ ReleaseAllShared(p, k) \/ ReleaseAllExclusive(p, k)
      PROVE  TypeOK'
  BY <1>1, CallTyped
  DEF ClientCall, ClientAcquireShared, ClientAcquireExclusive, ClientReleaseShared,
      ClientReleaseExclusive, ClientChangeToShared, ClientChangeToExclusive,
      ReleaseAllShared, ReleaseAllExclusive
<1> USE BoundsAssumption DEF TypeOK, rows, own, NoRow, ExclusiveValue
<1>2. ASSUME NEW p \in Procs, BeginReleaseAll(p) PROVE TypeOK'
  BY <1>2 DEF BeginReleaseAll
<1>3. ASSUME NEW p \in Procs, EndReleaseAll(p) PROVE TypeOK'
  <2>1. lock' \in [Paths -> {NoRow, ExclusiveValue} \cup Nat]
    BY <1>3 DEF EndReleaseAll, ReleaseKept
  <2> QED
    BY <1>3, <2>1 DEF EndReleaseAll, ReleaseKept
<1>4. ASSUME NEW p \in Procs, Crash(p) PROVE TypeOK'
  BY <1>4 DEF Crash
<1>5. ASSUME NEW k \in Paths, TtlPasses(k) PROVE TypeOK'
  BY <1>5 DEF TtlPasses
<1>6. CASE CleanExpiredLocks
  BY <1>6 DEF CleanExpiredLocks
<1>7. CASE UNCHANGED vars
  BY <1>7 DEF vars
<1> QED
  BY <1>1, <1>2, <1>3, <1>4, <1>5, <1>6, <1>7 DEF Next, Running, Closing

\* The rows and every process's memory stay well typed in every reachable
\* state, for every Env: the provider itself never counts below zero.
THEOREM TypeCorrect == Spec => []TypeOK
<1>1. Init => TypeOK
  BY BoundsAssumption DEF Init, TypeOK, NoRow, ExclusiveValue
<1> QED
  BY <1>1, TypingStep, PTL DEF Spec

-----------------------------------------------------------------------------
(***************************************************************************)
(* The units behind a row are finitely many, so they can be counted.       *)
(***************************************************************************)
LEMMA UnitsFinite ==
  ASSUME NEW k \in Paths
  PROVE  IsFiniteSet(Units(k)) /\ Cardinality(Units(k)) \in Nat
<1>1. IsFiniteSet(1..MaxShared)
  BY BoundsAssumption, FS_Interval
<1>2. IsFiniteSet(Procs \X (1..MaxShared))
  BY <1>1, ProcsAssumption, FS_Product
<1>3. IsFiniteSet(Units(k))
  BY <1>2, FS_Subset DEF Units
<1> QED
  BY <1>3, FS_CardinalityType

(***************************************************************************)
(* Counting: one unit more, one unit less.                                 *)
(***************************************************************************)
LEMMA OneUnitMore ==
  ASSUME NEW S, IsFiniteSet(S), NEW u, u \notin S
  PROVE  Cardinality(S \cup {u}) = Cardinality(S) + 1
BY FS_AddElement

\* Taking an element out of a finite set lowers its count by one.
LEMMA OneUnitLess ==
  ASSUME NEW S, IsFiniteSet(S), NEW u \in S
  PROVE  /\ Cardinality(S \ {u}) = Cardinality(S) - 1
         /\ Cardinality(S) >= 1
<1>1. Cardinality(S \ {u}) = Cardinality(S) - 1 /\ Cardinality(S \ {u}) \in Nat
  BY FS_RemoveElement, FS_CardinalityType
<1> QED
  BY <1>1, FS_CardinalityType

(***************************************************************************)
(* A step in which no contribution to k changes leaves its units alone;    *)
(* one that raises or lowers a single contribution by one adds or removes  *)
(* one unit.                                                               *)
(***************************************************************************)
LEMMA UnitsSame ==
  ASSUME NEW k \in Paths,
         \A q \in Procs : Contribution(q, k)' = Contribution(q, k)
  PROVE  Units(k)' = Units(k)
<1>1. \A u \in Procs \X (1..MaxShared) : u[1] \in Procs
  OBVIOUS
<1> QED
  BY <1>1 DEF Units

\* A process that contributes one more adds one unit.
LEMMA UnitsUp ==
  ASSUME NEW k \in Paths, NEW p \in Procs, NEW c \in 1..MaxShared,
         Contribution(p, k)' = c, Contribution(p, k) = c - 1,
         \A q \in Procs \ {p} : Contribution(q, k)' = Contribution(q, k)
  PROVE  /\ <<p, c>> \in Units(k)'
         /\ Cardinality(Units(k)') = Cardinality(Units(k)) + 1
<1> DEFINE u == <<p, c>>
<1>1. \A v \in Procs \X (1..MaxShared) :
        /\ v[1] \in Procs /\ v[2] \in 1..MaxShared
        /\ v[1] = p /\ v[2] = c => v = u
  OBVIOUS
<1>2. \A v \in Procs \X (1..MaxShared) :
        v[2] <= Contribution(v[1], k)' <=> v[2] <= Contribution(v[1], k) \/ v = u
  <2> SUFFICES ASSUME NEW v \in Procs \X (1..MaxShared)
               PROVE  v[2] <= Contribution(v[1], k)'
                        <=> v[2] <= Contribution(v[1], k) \/ v = u
    OBVIOUS
  <2>1. CASE v[1] = p
    BY <1>1, <2>1, BoundsAssumption
  <2>2. CASE v[1] # p
    BY <1>1, <2>2
  <2> QED
    BY <2>1, <2>2
<1>3. u \in Procs \X (1..MaxShared) /\ u \notin Units(k)
  BY BoundsAssumption DEF Units
<1>4. Units(k)' = Units(k) \cup {u}
  BY <1>2, <1>3 DEF Units
<1> HIDE DEF u
<1>5. Cardinality(Units(k) \cup {u}) = Cardinality(Units(k)) + 1
  BY <1>3, UnitsFinite, OneUnitMore
<1> QED
  BY <1>4, <1>5 DEF u

\* A process that contributes one less removes one unit.
LEMMA UnitsDown ==
  ASSUME NEW k \in Paths, NEW p \in Procs, NEW c \in 1..MaxShared,
         Contribution(p, k) = c, Contribution(p, k)' = c - 1,
         \A q \in Procs \ {p} : Contribution(q, k)' = Contribution(q, k)
  PROVE  /\ Cardinality(Units(k)') = Cardinality(Units(k)) - 1
         /\ Cardinality(Units(k)) >= 1
         /\ Units(k) # {}
         /\ Units(k)' \subseteq Units(k)
<1> DEFINE u == <<p, c>>
<1>1. \A v \in Procs \X (1..MaxShared) :
        /\ v[1] \in Procs /\ v[2] \in 1..MaxShared
        /\ v[1] = p /\ v[2] = c => v = u
  OBVIOUS
<1>2. \A v \in Procs \X (1..MaxShared) :
        v[2] <= Contribution(v[1], k)' <=> v[2] <= Contribution(v[1], k) /\ v # u
  <2> SUFFICES ASSUME NEW v \in Procs \X (1..MaxShared)
               PROVE  v[2] <= Contribution(v[1], k)'
                        <=> v[2] <= Contribution(v[1], k) /\ v # u
    OBVIOUS
  <2>1. CASE v[1] = p
    BY <1>1, <2>1, BoundsAssumption
  <2>2. CASE v[1] # p
    BY <1>1, <2>2
  <2> QED
    BY <2>1, <2>2
<1>3. u \in Units(k)
  BY BoundsAssumption DEF Units
<1>4. Units(k)' = Units(k) \ {u}
  BY <1>2, <1>3 DEF Units
<1> HIDE DEF u
<1>5. Cardinality(Units(k) \ {u}) = Cardinality(Units(k)) - 1
      /\ Cardinality(Units(k)) >= 1
  BY <1>3, UnitsFinite, OneUnitLess
<1> QED
  BY <1>3, <1>4, <1>5

(***************************************************************************)
(* A path whose row, and whose part of every process's memory, a step      *)
(* leaves alone stays covered.                                             *)
(***************************************************************************)
LEMMA Untouched ==
  ASSUME NEW j \in Paths, RowCovers(j),
         lock'[j] = lock[j], expired'[j] = expired[j],
         \A q \in Procs : /\ shared'[q][j] = shared[q][j]
                          /\ exclusive'[q][j] = exclusive[q][j]
                          /\ kept'[q][j] = kept[q][j]
  PROVE  RowCovers(j)'
<1>1. \A q \in Procs : Contribution(q, j)' = Contribution(q, j)
  BY DEF Contribution
<1>2. Units(j)' = Units(j)
  BY <1>1, UnitsSame
<1> QED
  BY <1>2 DEF RowCovers, Relies, Holds

(***************************************************************************)
(* A process that counts on a shared lock has put a unit into the row; a   *)
(* path nobody relies on has no units.                                     *)
(***************************************************************************)
LEMMA SharedHasUnit ==
  ASSUME TypeOK, NEW p \in Procs, NEW k \in Paths, RowCovers(k),
         shared[p][k] > 0 \/ kept[p][k]
  PROVE  <<p, 1>> \in Units(k)
<1>1. CASE p \in Caching
  <2>1. kept[p][k]
    BY <1>1 DEF RowCovers
  <2> QED
    BY <1>1, <2>1, BoundsAssumption DEF Units, Contribution
<1>2. CASE p \notin Caching
  <2>1. shared[p][k] > 0
    BY <1>2 DEF RowCovers
  <2>2. 1 \in 1..MaxShared /\ 1 <= shared[p][k]
    BY <2>1, BoundsAssumption DEF TypeOK
  <2> QED
    BY <1>2, <2>2 DEF Units, Contribution
<1> QED
  BY <1>1, <1>2

\* A path that nobody relies on has no units.
LEMMA NobodyNoUnits ==
  ASSUME TypeOK, NEW k \in Paths, \A p \in Procs : ~Relies(p, k)
  PROVE  Units(k) = {}
<1>1. \A p \in Procs : Contribution(p, k) = 0
  BY DEF Relies, Holds, TypeOK, Contribution
<1>2. \A u \in Procs \X (1..MaxShared) : u[1] \in Procs /\ u[2] \in 1..MaxShared
  OBVIOUS
<1> QED
  BY <1>1, <1>2, BoundsAssumption DEF Units

(***************************************************************************)
(* What a row value tells about the processes: a free row has no holder,   *)
(* and the only unit of a row that counts one is that of its holder.       *)
(***************************************************************************)
LEMMA FreeRow ==
  ASSUME TypeOK, NEW k \in Paths, RowCovers(k), lock[k] \in {NoRow, 0}
  PROVE  Units(k) = {} /\ \A q \in Procs : ~Relies(q, k)
<1> USE DEF NoRow, ExclusiveValue
<1>1. \A q \in Procs : ~exclusive[q][k]
  BY DEF RowCovers
<1>2. Units(k) = {}
  BY UnitsFinite, FS_EmptySet DEF RowCovers
<1>3. \A q \in Procs : shared[q][k] > 0 \/ kept[q][k] => <<q, 1>> \in Units(k)
  BY SharedHasUnit
<1> QED
  BY <1>1, <1>2, <1>3 DEF Relies, Holds

\* Behind a row that counts one there is nobody but the process that holds
\* the path shared.
LEMMA SoleHolder ==
  ASSUME TypeOK, NEW k \in Paths, RowCovers(k), lock[k] = 1,
         NEW p \in Procs, shared[p][k] > 0
  PROVE  Cardinality(Units(k)) = 1 /\ \A q \in Procs \ {p} : ~Relies(q, k)
<1> USE DEF NoRow, ExclusiveValue
<1>1. IsFiniteSet(Units(k)) /\ Cardinality(Units(k)) \in Nat
  BY UnitsFinite
<1>2. <<p, 1>> \in Units(k)
  BY SharedHasUnit
<1>3. Cardinality(Units(k)) = 1
  <2>1. Cardinality(Units(k)) >= 1
    BY <1>1, <1>2, OneUnitLess
  <2> QED
    BY <1>1, <2>1 DEF RowCovers
<1>4. PICK x : Units(k) = {x}
  BY <1>1, <1>3, FS_Singleton
<1>5. \A q \in Procs \ {p} : <<q, 1>> \notin Units(k)
  BY <1>2, <1>4
<1>6. \A q \in Procs : shared[q][k] > 0 \/ kept[q][k] => <<q, 1>> \in Units(k)
  BY SharedHasUnit
<1>7. \A q \in Procs : ~exclusive[q][k]
  BY DEF RowCovers
<1> QED
  BY <1>3, <1>5, <1>6, <1>7 DEF Relies, Holds

(***************************************************************************)
(* The calls.  In each proof the other paths are untouched, and for the    *)
(* path of the call the contributions are computed before the units are    *)
(* counted.                                                                *)
(***************************************************************************)
IInv == TypeOK /\ RowCoversHolders

\* acquireLock(LOCK_SHARED) keeps every row covering its holders.
LEMMA AcquireSharedStep ==
  ASSUME IInv, NEW p \in Procs, NEW k \in Paths,
         shared[p][k] < MaxShared, AcquireShared(p, k)
  PROVE  RowCoversHolders'
<1> USE DEF IInv, RowCoversHolders, TypeOK, NoRow, ExclusiveValue, rows, WriteRow
<1> USE CachingAssumption, BoundsAssumption
<1>1. ASSUME NEW j \in Paths, j # k PROVE RowCovers(j)'
  <2>1. /\ lock'[j] = lock[j]
        /\ expired'[j] = expired[j]
    BY <1>1 DEF AcquireShared
  <2>2. \A q \in Procs : /\ shared'[q][j] = shared[q][j]
                         /\ exclusive'[q][j] = exclusive[q][j]
                         /\ kept'[q][j] = kept[q][j]
    BY <1>1 DEF AcquireShared
  <2> QED
    BY <2>1, <2>2, Untouched
<1>2. RowCovers(k)'
  <2>0. \A q \in Procs \ {p} : Contribution(q, k)' = Contribution(q, k)
    BY DEF AcquireShared, Contribution
  <2>1. CASE kept[p][k]
    <3>1. p \in Caching /\ kept' = kept
      BY <2>1 DEF AcquireShared, RowCovers
    <3>2. Contribution(p, k)' = Contribution(p, k)
      BY <3>1 DEF Contribution
    <3>3. Units(k)' = Units(k)
      BY <2>0, <3>2, UnitsSame
    <3> QED
      BY <2>1, <3>1, <3>3 DEF AcquireShared, RowCovers, Relies, Holds
  <2>2. CASE ~kept[p][k]
    <3> DEFINE c == IF p \in Caching THEN 1 ELSE shared[p][k] + 1
    <3>1. c \in 1..MaxShared /\ Contribution(p, k)' = c /\ Contribution(p, k) = c - 1
      <4>1. /\ shared'[p][k] = shared[p][k] + 1
            /\ kept'[p][k] <=> p \in Caching
        BY <2>2 DEF AcquireShared
      <4>2. CASE p \in Caching
        <5>1. kept'[p][k]
          BY <4>1, <4>2
        <5>2. Contribution(p, k)' = 1
          BY <4>2, <5>1 DEF Contribution
        <5>3. Contribution(p, k) = 0
          BY <2>2, <4>2 DEF Contribution
        <5> QED
          BY <4>2, <5>2, <5>3
      <4>3. CASE p \notin Caching
        <5>1. Contribution(p, k)' = shared'[p][k]
          BY <4>3 DEF Contribution
        <5>2. Contribution(p, k) = shared[p][k]
          BY <4>3 DEF Contribution
        <5>3. c = shared[p][k] + 1
          BY <4>3
        <5>4. shared[p][k] \in 0..MaxShared
          OBVIOUS
        <5>5. shared[p][k] + 1 \in 1..MaxShared /\ (shared[p][k] + 1) - 1 = shared[p][k]
          BY <5>4
        <5>6. c \in 1..MaxShared /\ c - 1 = shared[p][k]
          BY <5>3, <5>5
        <5>7. Contribution(p, k)' = c
          BY <4>1, <5>1, <5>3
        <5> QED
          BY <5>2, <5>6, <5>7
      <4> QED
        BY <4>2, <4>3
    <3> HIDE DEF c
    <3>2. Cardinality(Units(k)') = Cardinality(Units(k)) + 1
      BY <2>0, <3>1, UnitsUp
    <3>3. lock[k] # ExclusiveValue /\ ~expired'[k]
          /\ lock'[k] = IF lock[k] = NoRow THEN 1 ELSE lock[k] + 1
      BY <2>2 DEF AcquireShared, AcquireSharedGranted
    <3>4. lock'[k] >= 1 /\ Cardinality(Units(k)') <= lock'[k]
      <4>1. CASE lock[k] = NoRow
        <5>1. Cardinality(Units(k)) = 0
          BY <4>1, FS_EmptySet DEF RowCovers
        <5> QED
          BY <4>1, <5>1, <3>2, <3>3
      <4>2. CASE lock[k] # NoRow
        BY <4>2, <3>2, <3>3, UnitsFinite DEF RowCovers
      <4> QED
        BY <4>1, <4>2
    <3>5. \A q \in Procs : ~exclusive'[q][k]
      BY <3>3 DEF RowCovers, AcquireShared
    <3>6. \A q \in Procs : IF q \in Caching
                             THEN shared'[q][k] > 0 => kept'[q][k]
                             ELSE ~kept'[q][k]
      BY DEF RowCovers, AcquireShared
    <3> QED
      BY <3>3, <3>4, <3>5, <3>6 DEF RowCovers
  <2> QED
    BY <2>1, <2>2
<1> QED
  BY <1>1, <1>2

\* So does acquireLock(LOCK_EXCLUSIVE) of a process that keeps no lock.
LEMMA AcquireExclusiveStep ==
  ASSUME IInv, NEW p \in Procs, NEW k \in Paths,
         ~kept[p][k], AcquireExclusive(p, k)
  PROVE  RowCoversHolders'
<1> USE DEF IInv, RowCoversHolders, TypeOK, NoRow, ExclusiveValue, rows, WriteRow
<1> USE CachingAssumption, BoundsAssumption
<1>1. ASSUME NEW j \in Paths, j # k PROVE RowCovers(j)'
  <2>1. /\ lock'[j] = lock[j]
        /\ expired'[j] = expired[j]
    BY <1>1 DEF AcquireExclusive
  <2>2. \A q \in Procs : /\ shared'[q][j] = shared[q][j]
                         /\ exclusive'[q][j] = exclusive[q][j]
                         /\ kept'[q][j] = kept[q][j]
    BY <1>1 DEF AcquireExclusive
  <2> QED
    BY <2>1, <2>2, Untouched
<1>2. lock[k] \in {NoRow, 0} /\ lock'[k] = ExclusiveValue /\ ~expired'[k]
  BY DEF AcquireExclusive, AcquireExclusiveGranted, ExistingFor
<1>3. Units(k) = {} /\ \A q \in Procs : ~Relies(q, k)
  BY <1>2, FreeRow
<1>4. \A q \in Procs : Contribution(q, k)' = Contribution(q, k)
  BY DEF Contribution, AcquireExclusive
<1>5. Units(k)' = {}
  BY <1>3, <1>4, UnitsSame
<1>6. RowCovers(k)'
  BY <1>2, <1>3, <1>5 DEF RowCovers, AcquireExclusive, Relies, Holds
<1> QED
  BY <1>1, <1>6

\* So does releaseLock of a shared lock, which a process that does not cache
\* must hold: its release takes a unit out of the row.
LEMMA ReleaseSharedStep ==
  ASSUME IInv, NEW p \in Procs, NEW k \in Paths,
         shared[p][k] > 0 \/ p \in Caching, ReleaseShared(p, k)
  PROVE  RowCoversHolders'
<1> USE DEF IInv, RowCoversHolders, TypeOK, NoRow, ExclusiveValue, rows, WriteRow
<1> USE CachingAssumption, BoundsAssumption
<1>1. ASSUME NEW j \in Paths, j # k PROVE RowCovers(j)'
  <2>1. /\ lock'[j] = lock[j]
        /\ expired'[j] = expired[j]
    BY <1>1 DEF ReleaseShared
  <2>2. \A q \in Procs : /\ shared'[q][j] = shared[q][j]
                         /\ exclusive'[q][j] = exclusive[q][j]
                         /\ kept'[q][j] = kept[q][j]
    BY <1>1 DEF ReleaseShared
  <2> QED
    BY <2>1, <2>2, Untouched
<1>2. RowCovers(k)'
  <2>0. \A q \in Procs \ {p} : Contribution(q, k)' = Contribution(q, k)
    BY DEF ReleaseShared, Contribution
  <2>1. CASE p \in Caching
    <3>1. Contribution(p, k)' = Contribution(p, k)
      BY <2>1 DEF ReleaseShared, Contribution
    <3>2. Units(k)' = Units(k)
      BY <2>0, <3>1, UnitsSame
    <3> QED
      BY <2>1, <3>2 DEF ReleaseShared, RowCovers, Relies, Holds
  <2>2. CASE p \notin Caching
    <3>1. /\ shared[p][k] \in 1..MaxShared
          /\ Contribution(p, k) = shared[p][k]
          /\ Contribution(p, k)' = shared[p][k] - 1
      BY <2>2 DEF ReleaseShared, Contribution
    <3>2. /\ Cardinality(Units(k)') = Cardinality(Units(k)) - 1
          /\ Cardinality(Units(k)) >= 1
          /\ Units(k) # {}
      BY <2>0, <3>1, UnitsDown
    <3>3. lock[k] \in Nat /\ Cardinality(Units(k)) <= lock[k]
      <4>1. lock[k] # ExclusiveValue /\ lock[k] # NoRow
        BY <3>2 DEF RowCovers
      <4>2. lock[k] \in Nat
        BY <4>1
      <4> QED
        BY <4>2 DEF RowCovers
    <3>4. lock'[k] = lock[k] - 1
      <4>1. Cardinality(Units(k)) \in Nat
        BY UnitsFinite
      <4>2. lock[k] > 0
        BY <3>2, <3>3, <4>1
      <4> QED
        BY <2>2, <4>2 DEF ReleaseShared
    <3>5. lock'[k] >= 0 /\ Cardinality(Units(k)') <= lock'[k]
      BY <3>2, <3>3, <3>4, UnitsFinite
    <3>6. \A q \in Procs : ~exclusive[q][k]
      BY <3>3 DEF RowCovers
    <3>7. ~expired[k]
      BY <2>2 DEF RowCovers, Relies, Holds
    <3>8. \A q \in Procs : IF q \in Caching
                             THEN shared'[q][k] > 0 => kept'[q][k]
                             ELSE ~kept'[q][k]
      BY <2>2 DEF RowCovers, ReleaseShared
    <3> QED
      BY <3>5, <3>6, <3>7, <3>8 DEF RowCovers, ReleaseShared
  <2> QED
    BY <2>1, <2>2
<1> QED
  BY <1>1, <1>2

\* So does releaseLock of an exclusive lock that the process holds.
LEMMA ReleaseExclusiveStep ==
  ASSUME IInv, NEW p \in Procs, NEW k \in Paths,
         exclusive[p][k], ReleaseExclusive(p, k)
  PROVE  RowCoversHolders'
<1> USE DEF IInv, RowCoversHolders, TypeOK, NoRow, ExclusiveValue, rows, WriteRow
<1> USE CachingAssumption, BoundsAssumption
<1>1. ASSUME NEW j \in Paths, j # k PROVE RowCovers(j)'
  <2>1. /\ lock'[j] = lock[j]
        /\ expired'[j] = expired[j]
    BY <1>1 DEF ReleaseExclusive
  <2>2. \A q \in Procs : /\ shared'[q][j] = shared[q][j]
                         /\ exclusive'[q][j] = exclusive[q][j]
                         /\ kept'[q][j] = kept[q][j]
    BY <1>1 DEF ReleaseExclusive
  <2> QED
    BY <2>1, <2>2, Untouched
<1>2. lock[k] = ExclusiveValue /\ lock'[k] = 0 /\ Units(k) = {}
  BY DEF ReleaseExclusive, RowCovers
<1>3. Units(k)' = {}
  <2>1. \A q \in Procs : Contribution(q, k)' = Contribution(q, k)
    BY DEF Contribution, ReleaseExclusive
  <2> QED
    BY <1>2, <2>1, UnitsSame
<1>4. Cardinality(Units(k)') <= lock'[k]
  BY <1>2, <1>3, FS_EmptySet
<1>5. \A q \in Procs : ~exclusive'[q][k]
  BY DEF ReleaseExclusive, RowCovers
<1>6. ~expired'[k]
  BY DEF ReleaseExclusive, RowCovers, Relies, Holds
<1>7. RowCovers(k)'
  BY <1>2, <1>4, <1>5, <1>6 DEF RowCovers, ReleaseExclusive
<1> QED
  BY <1>1, <1>7

\* So does changeLock of an exclusive lock to a shared one.
LEMMA ChangeToSharedStep ==
  ASSUME IInv, NEW p \in Procs, NEW k \in Paths,
         exclusive[p][k], shared[p][k] < MaxShared, ChangeToShared(p, k)
  PROVE  RowCoversHolders'
<1> USE DEF IInv, RowCoversHolders, TypeOK, NoRow, ExclusiveValue, rows, WriteRow
<1> USE CachingAssumption, BoundsAssumption
<1>1. ASSUME NEW j \in Paths, j # k PROVE RowCovers(j)'
  <2>1. /\ lock'[j] = lock[j]
        /\ expired'[j] = expired[j]
    BY <1>1 DEF ChangeToShared
  <2>2. \A q \in Procs : /\ shared'[q][j] = shared[q][j]
                         /\ exclusive'[q][j] = exclusive[q][j]
                         /\ kept'[q][j] = kept[q][j]
    BY <1>1 DEF ChangeToShared
  <2> QED
    BY <2>1, <2>2, Untouched
<1>2. lock[k] = ExclusiveValue /\ lock'[k] = 1 /\ Units(k) = {} /\ ~expired'[k]
  BY DEF ChangeToShared, ChangeToSharedGranted, RowCovers
<1>3. shared[p][k] = 0 /\ ~kept[p][k]
  <2>1. shared[p][k] > 0 \/ kept[p][k] => <<p, 1>> \in Units(k)
    BY SharedHasUnit
  <2> QED
    BY <1>2, <2>1
<1> DEFINE c == 1
<1>4. /\ c \in 1..MaxShared
      /\ Contribution(p, k)' = c /\ Contribution(p, k) = c - 1
      /\ \A q \in Procs \ {p} : Contribution(q, k)' = Contribution(q, k)
  BY <1>3 DEF Contribution, ChangeToShared
<1>5. Cardinality(Units(k)') = 1
  <2>1. Cardinality(Units(k)) = 0
    BY <1>2, FS_EmptySet
  <2>2. Cardinality(Units(k)') = Cardinality(Units(k)) + 1
    <3> HIDE DEF c
    <3> QED
      BY <1>4, UnitsUp
  <2> QED
    BY <2>1, <2>2
<1>6. \A q \in Procs : ~exclusive'[q][k]
  BY DEF ChangeToShared, RowCovers
<1>7. \A q \in Procs : IF q \in Caching
                         THEN shared'[q][k] > 0 => kept'[q][k]
                         ELSE ~kept'[q][k]
  BY DEF ChangeToShared, RowCovers
<1>8. RowCovers(k)'
  BY <1>2, <1>5, <1>6, <1>7 DEF RowCovers
<1> QED
  BY <1>1, <1>8

\* So does changeLock of a shared lock to an exclusive one.
LEMMA ChangeToExclusiveStep ==
  ASSUME IInv, NEW p \in Procs, NEW k \in Paths,
         shared[p][k] > 0, ChangeToExclusive(p, k)
  PROVE  RowCoversHolders'
<1> USE DEF IInv, RowCoversHolders, TypeOK, NoRow, ExclusiveValue, rows, WriteRow
<1> USE CachingAssumption, BoundsAssumption
<1>1. ASSUME NEW j \in Paths, j # k PROVE RowCovers(j)'
  <2>1. /\ lock'[j] = lock[j]
        /\ expired'[j] = expired[j]
    BY <1>1 DEF ChangeToExclusive
  <2>2. \A q \in Procs : /\ shared'[q][j] = shared[q][j]
                         /\ exclusive'[q][j] = exclusive[q][j]
                         /\ kept'[q][j] = kept[q][j]
    BY <1>1 DEF ChangeToExclusive
  <2> QED
    BY <2>1, <2>2, Untouched
<1>2. /\ shared[p][k] = 1 /\ shared'[p][k] = 0 /\ ~kept'[p][k]
      /\ lock[k] = 1 /\ lock'[k] = ExclusiveValue
      /\ ~expired'[k]
  BY DEF ChangeToExclusive, ChangeToExclusiveGranted
<1>3. Cardinality(Units(k)) = 1
  BY <1>2, SoleHolder
<1>4. /\ Contribution(p, k) = 1 /\ Contribution(p, k)' = 1 - 1
      /\ \A q \in Procs \ {p} : Contribution(q, k)' = Contribution(q, k)
  BY <1>2 DEF Contribution, ChangeToExclusive, RowCovers
<1>5. Units(k)' = {}
  <2>1. Cardinality(Units(k)') = 0
    BY <1>3, <1>4, UnitsDown
  <2>2. IsFiniteSet(Units(k)')
    <3>1. Units(k)' \subseteq Units(k)
      BY <1>4, UnitsDown
    <3> QED
      BY <3>1, UnitsFinite, FS_Subset
  <2> QED
    BY <2>1, <2>2, FS_EmptySet
<1>6. \A q \in Procs : ~exclusive[q][k]
  BY <1>2 DEF RowCovers
<1>7. \A q \in Procs : IF q \in Caching
                         THEN shared'[q][k] > 0 => kept'[q][k]
                         ELSE ~kept'[q][k]
  BY <1>2 DEF ChangeToExclusive, RowCovers
<1>8. RowCovers(k)'
  BY <1>2, <1>5, <1>6, <1>7 DEF RowCovers, ChangeToExclusive
<1> QED
  BY <1>1, <1>8

(***************************************************************************)
(* The end of a process, time, and the clean-up job.                       *)
(***************************************************************************)
LEMMA EndReleaseAllStep ==
  ASSUME IInv, NEW p \in Procs, EndReleaseAll(p)
  PROVE  RowCoversHolders'
<1> USE DEF IInv, RowCoversHolders, TypeOK, NoRow, ExclusiveValue, rows, own
<1> USE CachingAssumption, BoundsAssumption
<1> SUFFICES ASSUME NEW k \in Paths PROVE RowCovers(k)'
  OBVIOUS
<1>1. \A q \in Procs : shared'[q][k] = shared[q][k] /\ exclusive'[q][k] = exclusive[q][k]
  BY DEF EndReleaseAll, ReleaseKept
<1>2. expired'[k] = expired[k]
  BY DEF EndReleaseAll, ReleaseKept
<1>3. /\ ~kept'[p][k]
      /\ \A q \in Procs \ {p} : kept'[q][k] = kept[q][k]
  BY DEF EndReleaseAll
<1>4. CASE ~kept[p][k]
  <2>1. lock'[k] = lock[k]
    BY <1>4 DEF EndReleaseAll, ReleaseKept
  <2>2. \A q \in Procs : kept'[q][k] = kept[q][k]
    <3>1. kept[p][k] = FALSE
      BY <1>4
    <3>2. kept'[p][k] = FALSE
      BY DEF EndReleaseAll
    <3> QED
      BY <1>3, <3>1, <3>2
  <2> QED
    BY <1>1, <1>2, <2>1, <2>2, Untouched
<1>5. CASE kept[p][k]
  <2>1. p \in Caching
    BY <1>5 DEF RowCovers
  <2>2. /\ Contribution(p, k) = 1 /\ Contribution(p, k)' = 1 - 1
        /\ \A q \in Procs \ {p} : Contribution(q, k)' = Contribution(q, k)
    BY <1>1, <1>3, <1>5, <2>1 DEF Contribution
  <2>3. /\ Cardinality(Units(k)') = Cardinality(Units(k)) - 1
        /\ Cardinality(Units(k)) >= 1
        /\ Units(k) # {}
    BY <2>2, UnitsDown
  <2>4. Cardinality(Units(k)) \in Nat
    BY UnitsFinite
  <2>6. lock[k] # ExclusiveValue /\ lock[k] # NoRow
    BY <2>3 DEF RowCovers
  <2>7. lock[k] \in Nat /\ Cardinality(Units(k)) <= lock[k]
    BY <2>6 DEF RowCovers
  <2>8. lock'[k] = lock[k] - 1
    BY <1>5, <2>3, <2>4, <2>7 DEF EndReleaseAll, ReleaseKept
  <2>9. lock'[k] >= 0 /\ Cardinality(Units(k)') <= lock'[k]
    BY <2>3, <2>4, <2>7, <2>8
  <2>10. \A q \in Procs : ~exclusive'[q][k]
    BY <1>1, <2>6 DEF RowCovers
  <2>11. ~expired'[k]
    BY <1>2, <1>5 DEF RowCovers, Relies
  <2>12. \A q \in Procs : IF q \in Caching
                           THEN shared'[q][k] > 0 => kept'[q][k]
                           ELSE ~kept'[q][k]
    BY <1>1, <1>3, <2>1 DEF RowCovers, EndReleaseAll, Holds
  <2> QED
    BY <2>9, <2>10, <2>11, <2>12 DEF RowCovers
<1> QED
  BY <1>4, <1>5

\* A killed process leaves rows that count too much, never too little.
LEMMA CrashStep ==
  ASSUME IInv, NEW p \in Procs, Crash(p)
  PROVE  RowCoversHolders'
<1> USE DEF IInv, RowCoversHolders, TypeOK, NoRow, ExclusiveValue, rows, own
<1> USE CachingAssumption, BoundsAssumption
<1> SUFFICES ASSUME NEW k \in Paths PROVE RowCovers(k)'
  OBVIOUS
<1>1. lock'[k] = lock[k] /\ expired'[k] = expired[k]
  BY DEF Crash
<1>2. \A q \in Procs :
        /\ shared'[q][k] \in Int /\ shared[q][k] \in Int
        /\ shared'[q][k] <= shared[q][k]
        /\ exclusive'[q][k] => exclusive[q][k]
        /\ kept'[q][k] => kept[q][k]
        /\ shared'[q][k] > 0 /\ kept[q][k] => kept'[q][k]
  <2>1. \A q \in Procs : q # p => /\ shared'[q][k] = shared[q][k]
                                 /\ exclusive'[q][k] = exclusive[q][k]
                                 /\ kept'[q][k] = kept[q][k]
    BY DEF Crash
  <2>2. shared'[p][k] = 0 /\ ~exclusive'[p][k] /\ ~kept'[p][k]
    BY DEF Crash
  <2>3. \A q \in Procs : shared[q][k] \in Int /\ shared[q][k] >= 0
    OBVIOUS
  <2> HIDE DEF TypeOK, IInv, RowCoversHolders
  <2>4. \A q \in Procs : q = p \/ q # p
    OBVIOUS
  <2> QED
    BY <2>1, <2>2, <2>3, <2>4
<1>3. Units(k)' \subseteq Units(k)
  <2>1. \A q \in Procs : Contribution(q, k)' <= Contribution(q, k)
    BY <1>2 DEF Contribution
  <2>2. \A q \in Procs : Contribution(q, k)' \in Int /\ Contribution(q, k) \in Int
    BY <1>2 DEF Contribution
  <2>3. \A v \in Procs \X (1..MaxShared) : v[1] \in Procs /\ v[2] \in Int
    OBVIOUS
  <2>4. \A v \in Procs \X (1..MaxShared) :
          v[2] <= Contribution(v[1], k)' => v[2] <= Contribution(v[1], k)
    BY <2>1, <2>2, <2>3
  <2> QED
    BY <2>4 DEF Units
<1>4. Cardinality(Units(k)') <= Cardinality(Units(k))
      /\ Cardinality(Units(k)') \in Nat /\ Cardinality(Units(k)) \in Nat
  BY <1>3, UnitsFinite, FS_Subset, FS_CardinalityType
<1>5. \A q \in Procs : Relies(q, k)' => Relies(q, k)
  BY <1>2 DEF Relies, Holds
<1>6. lock'[k] >= 0 => Cardinality(Units(k)') <= lock'[k]
  <2>1. lock[k] >= 0 => Cardinality(Units(k)) <= lock[k]
    BY DEF RowCovers
  <2>2. lock[k] \in Int
    OBVIOUS
  <2> HIDE DEF TypeOK, IInv, RowCoversHolders
  <2> QED
    BY <1>1, <1>4, <2>1, <2>2
<1> QED
  BY <1>1, <1>2, <1>3, <1>5, <1>6 DEF RowCovers

\* A row that expires has nobody who relies on it.
LEMMA TtlPassesStep ==
  ASSUME IInv, NEW k \in Paths, "outlive" \notin Env, TtlPasses(k)
  PROVE  RowCoversHolders'
<1> USE DEF IInv, RowCoversHolders, TypeOK, NoRow, ExclusiveValue, rows, own
<1> USE CachingAssumption, BoundsAssumption
<1> SUFFICES ASSUME NEW j \in Paths PROVE RowCovers(j)'
  OBVIOUS
<1>1. CASE j # k
  BY <1>1, Untouched DEF TtlPasses
<1>2. CASE j = k
  <2>1. \A q \in Procs : ~Relies(q, k)
    BY DEF TtlPasses
  <2>2. \A q \in Procs : ~Relies(q, k)'
    BY <2>1 DEF TtlPasses, Relies, Holds
  <2>3. Units(k)' = Units(k) /\ lock'[k] = lock[k]
    BY DEF TtlPasses, Units, Contribution
  <2>4. \A q \in Procs : /\ exclusive'[q][k] = exclusive[q][k]
                         /\ shared'[q][k] = shared[q][k]
                         /\ kept'[q][k] = kept[q][k]
    BY DEF TtlPasses
  <2> QED
    BY <1>2, <2>2, <2>3, <2>4 DEF RowCovers
<1> QED
  BY <1>1, <1>2

\* The clean-up job deletes expired rows only, which nobody relies on.
LEMMA CleanExpiredLocksStep ==
  ASSUME IInv, CleanExpiredLocks
  PROVE  RowCoversHolders'
<1> USE DEF IInv, RowCoversHolders, TypeOK, NoRow, ExclusiveValue, rows, own
<1> USE CachingAssumption, BoundsAssumption
<1> SUFFICES ASSUME NEW k \in Paths PROVE RowCovers(k)'
  OBVIOUS
<1>1. CASE ~expired[k]
  <2>1. lock'[k] = lock[k] /\ expired'[k] = expired[k]
    BY <1>1 DEF CleanExpiredLocks
  <2>2. \A q \in Procs : /\ exclusive'[q][k] = exclusive[q][k]
                         /\ shared'[q][k] = shared[q][k]
                         /\ kept'[q][k] = kept[q][k]
    BY DEF CleanExpiredLocks
  <2> QED
    BY <2>1, <2>2, Untouched
<1>2. CASE expired[k]
  <2>1. \A q \in Procs : ~Relies(q, k)
    BY <1>2 DEF RowCovers
  <2>2. Units(k) = {}
    BY <2>1, NobodyNoUnits
  <2>3. Units(k)' = {}
    BY <2>2 DEF CleanExpiredLocks, Units, Contribution
  <2>4. lock'[k] = NoRow /\ ~expired'[k]
    BY <1>2 DEF CleanExpiredLocks
  <2>5. \A q \in Procs : ~exclusive'[q][k] /\ ~kept'[q][k] /\ ~(shared'[q][k] > 0)
    BY <2>1 DEF CleanExpiredLocks, Relies, Holds
  <2> QED
    BY <2>3, <2>4, <2>5 DEF RowCovers
<1> QED
  BY <1>1, <1>2

(***************************************************************************)
(* The calls of a process that keeps to the protocol: it takes a path      *)
(* exclusively from scratch only if it keeps no lock on it, changes and    *)
(* releases only what it holds, and releases a shared lock it does not     *)
(* hold only if it caches.                                                 *)
(***************************************************************************)
Disciplined(p, k) ==
  \/ shared[p][k] < MaxShared /\ AcquireShared(p, k)
  \/ ~kept[p][k] /\ AcquireExclusive(p, k)
  \/ (shared[p][k] > 0 \/ p \in Caching) /\ ReleaseShared(p, k)
  \/ exclusive[p][k] /\ ReleaseExclusive(p, k)
  \/ exclusive[p][k] /\ shared[p][k] < MaxShared /\ ChangeToShared(p, k)
  \/ shared[p][k] > 0 /\ ChangeToExclusive(p, k)

\* The clients' calls, and those of releaseAll, keep to it.
LEMMA CallsDisciplined ==
  ASSUME Env \subseteq {"crash", "unowned"}, NEW p \in Procs, NEW k \in Paths,
         ClientCall(p, k) \/ ReleaseAllShared(p, k) \/ ReleaseAllExclusive(p, k)
  PROVE  Disciplined(p, k)
BY DEF Disciplined, ClientCall, ClientAcquireShared, ClientAcquireExclusive,
       ClientReleaseShared, ClientReleaseExclusive, ClientChangeToShared,
       ClientChangeToExclusive, ReleaseAllShared, ReleaseAllExclusive

\* Such a call keeps every row covering its holders.
LEMMA DisciplinedCovers ==
  ASSUME IInv, NEW p \in Procs, NEW k \in Paths, Disciplined(p, k)
  PROVE  RowCoversHolders'
<1>1. CASE shared[p][k] < MaxShared /\ AcquireShared(p, k)
  BY <1>1, AcquireSharedStep
<1>2. CASE ~kept[p][k] /\ AcquireExclusive(p, k)
  BY <1>2, AcquireExclusiveStep
<1>3. CASE (shared[p][k] > 0 \/ p \in Caching) /\ ReleaseShared(p, k)
  BY <1>3, ReleaseSharedStep
<1>4. CASE exclusive[p][k] /\ ReleaseExclusive(p, k)
  BY <1>4, ReleaseExclusiveStep
<1>5. CASE exclusive[p][k] /\ shared[p][k] < MaxShared /\ ChangeToShared(p, k)
  BY <1>5, ChangeToSharedStep
<1>6. CASE shared[p][k] > 0 /\ ChangeToExclusive(p, k)
  BY <1>6, ChangeToExclusiveStep
<1> QED
  BY <1>1, <1>2, <1>3, <1>4, <1>5, <1>6 DEF Disciplined

(***************************************************************************)
(* The invariant, for processes that may be killed at any moment but obey  *)
(* the protocol: they take a path exclusively from scratch only if they    *)
(* keep no lock on it, release only what they hold unless they cache, and  *)
(* finish before the ttl of a row they rely on.                            *)
(***************************************************************************)
LEMMA Inductive ==
  ASSUME Env \subseteq {"crash", "unowned"}, IInv, [Next]_vars
  PROVE  RowCoversHolders'
<1> USE DEF IInv
<1>1. ASSUME NEW p \in Procs, Running(p) PROVE RowCoversHolders'
  <2>1. CASE BeginReleaseAll(p)
    BY <2>1, Untouched DEF BeginReleaseAll, rows, own, RowCoversHolders
  <2>2. ASSUME NEW k \in Paths, ClientCall(p, k) PROVE RowCoversHolders'
    BY <2>2, CallsDisciplined, DisciplinedCovers
  <2> QED
    BY <1>1, <2>1, <2>2 DEF Running
<1>2. ASSUME NEW p \in Procs, Closing(p) PROVE RowCoversHolders'
  <2>1. CASE EndReleaseAll(p)
    BY <2>1, EndReleaseAllStep
  <2>2. ASSUME NEW k \in Paths, ReleaseAllShared(p, k) \/ ReleaseAllExclusive(p, k)
        PROVE  RowCoversHolders'
    BY <2>2, CallsDisciplined, DisciplinedCovers
  <2> QED
    BY <1>2, <2>1, <2>2 DEF Closing
<1>3. ASSUME NEW p \in Procs, Crash(p) PROVE RowCoversHolders'
  BY <1>3, CrashStep
<1>4. ASSUME NEW k \in Paths, TtlPasses(k) PROVE RowCoversHolders'
  BY <1>4, TtlPassesStep
<1>5. CASE CleanExpiredLocks
  BY <1>5, CleanExpiredLocksStep
<1>6. CASE UNCHANGED vars
  BY <1>6, Untouched DEF vars, RowCoversHolders
<1> QED
  BY <1>1, <1>2, <1>3, <1>4, <1>5, <1>6 DEF Next

\* Without rows and without locks there is nothing to cover.
LEMMA RowCoversHoldersAtInit == Init => RowCoversHolders
<1> SUFFICES ASSUME Init, NEW k \in Paths PROVE RowCovers(k)
  BY DEF RowCoversHolders
<1>1. \A p \in Procs : ~Relies(p, k)
  BY DEF Init, Relies, Holds
<1>2. TypeOK
  BY BoundsAssumption DEF Init, TypeOK, NoRow, ExclusiveValue
<1>3. Units(k) = {}
  BY <1>1, <1>2, NobodyNoUnits
<1> QED
  BY <1>1, <1>3, CachingAssumption
  DEF Init, RowCovers, NoRow, ExclusiveValue, Relies, Holds

(***************************************************************************)
(* The row of a path covers all its holders, in every reachable state.     *)
(***************************************************************************)
THEOREM RowsCoverHolders ==
  ASSUME Env \subseteq {"crash", "unowned"}
  PROVE  Spec => []RowCoversHolders
<1>1. Init => IInv
  BY RowCoversHoldersAtInit, BoundsAssumption
  DEF IInv, Init, TypeOK, NoRow, ExclusiveValue
<1>2. IInv /\ [Next]_vars => IInv'
  BY Inductive, TypingStep DEF IInv
<1>3. IInv => RowCoversHolders
  BY DEF IInv
<1> QED
  BY <1>1, <1>2, <1>3, PTL DEF Spec

(***************************************************************************)
(* Mutual exclusion: a holder of an exclusive lock is the only holder of   *)
(* any lock on the path, in both cache modes and with processes killed at  *)
(* any moment.                                                             *)
(***************************************************************************)
THEOREM Exclusion ==
  ASSUME Env \subseteq {"crash", "unowned"}
  PROVE  Spec => []MutualExclusion
<1>1. TypeOK /\ RowCoversHolders => MutualExclusion
  <2> SUFFICES ASSUME TypeOK, RowCoversHolders,
                      NEW k \in Paths, NEW p \in Procs, NEW q \in Procs,
                      exclusive[p][k]
               PROVE  shared[q][k] = 0 /\ (exclusive[q][k] => p = q)
    BY DEF MutualExclusion
  <2>1. RowCovers(k)
    BY DEF RowCoversHolders
  <2>2. Units(k) = {}
    BY <2>1 DEF RowCovers
  <2>3. shared[q][k] > 0 => <<q, 1>> \in Units(k)
    BY <2>1, SharedHasUnit
  <2>4. shared[q][k] = 0
    BY <2>2, <2>3 DEF TypeOK
  <2> QED
    BY <2>1, <2>4 DEF RowCovers
<1> QED
  BY <1>1, TypeCorrect, RowsCoverHolders, PTL

-----------------------------------------------------------------------------
(***************************************************************************)
(* No lock is leaked while no process is killed: a row says exactly what   *)
(* the living processes put there.  Each call moves the row and the units  *)
(* behind it by the same amount.                                           *)
(***************************************************************************)
Exact(k) ==
  /\ lock[k] = ExclusiveValue => \E p \in Procs : exclusive[p][k]
  /\ lock[k] >= 0 => Cardinality(Units(k)) = lock[k]

\* A step that leaves the row, the units and the exclusive locks of a path
\* alone keeps its row exact.
LEMMA ExactUntouched ==
  ASSUME NEW j \in Paths, Exact(j), lock'[j] = lock[j],
         \A q \in Procs : /\ exclusive'[q][j] = exclusive[q][j]
                          /\ Contribution(q, j)' = Contribution(q, j)
  PROVE  Exact(j)'
<1>1. Units(j)' = Units(j)
  BY UnitsSame
<1> QED
  BY <1>1 DEF Exact

\* A row that counts at least one unit loses as many as its units lose.
LEMMA ExactDown ==
  ASSUME TypeOK, NEW k \in Paths, RowCovers(k), Exact(k), NEW p \in Procs, NEW c \in 1..MaxShared,
         Contribution(p, k) = c, Contribution(p, k)' = c - 1,
         \A q \in Procs \ {p} : Contribution(q, k)' = Contribution(q, k),
         lock'[k] = IF lock[k] > 0 THEN lock[k] - 1 ELSE lock[k]
  PROVE  Exact(k)'
<1> USE DEF NoRow, ExclusiveValue
<1>1. /\ Cardinality(Units(k)') = Cardinality(Units(k)) - 1
      /\ Cardinality(Units(k)) >= 1
      /\ Units(k) # {}
  BY UnitsDown
<1>2. lock[k] \in Nat
  BY <1>1 DEF RowCovers, TypeOK
<1>3. Cardinality(Units(k)) = lock[k]
  BY <1>2 DEF Exact
<1>4. lock'[k] = lock[k] - 1 /\ lock'[k] # ExclusiveValue
  BY <1>1, <1>2, <1>3
<1> QED
  BY <1>1, <1>3, <1>4 DEF Exact

\* acquireLock(LOCK_SHARED) adds one unit and one to the row, or neither.
LEMMA AcquireSharedExact ==
  ASSUME TypeOK, NEW k \in Paths, RowCovers(k), Exact(k), NEW p \in Procs,
         shared[p][k] < MaxShared, AcquireShared(p, k)
  PROVE  Exact(k)'
<1> USE DEF TypeOK, NoRow, ExclusiveValue, rows, WriteRow
<1>1. \A q \in Procs \ {p} : Contribution(q, k)' = Contribution(q, k)
  BY DEF AcquireShared, Contribution
<1>2. \A q \in Procs : exclusive'[q][k] = exclusive[q][k]
  BY DEF AcquireShared
<1>3. CASE kept[p][k]
  <2>1. p \in Caching /\ kept' = kept /\ lock' = lock
    BY <1>3 DEF AcquireShared, RowCovers
  <2>2. Contribution(p, k)' = Contribution(p, k)
    BY <2>1 DEF Contribution
  <2> QED
    BY <1>1, <1>2, <2>1, <2>2, ExactUntouched
<1>4. CASE ~kept[p][k]
  <2>0. /\ shared' = [shared EXCEPT ![p][k] = @ + 1]
        /\ kept' = [kept EXCEPT ![p][k] = @ \/ p \in Caching]
    BY DEF AcquireShared
  <2>1. /\ shared'[p][k] = shared[p][k] + 1 /\ shared[p][k] \in 0..MaxShared
        /\ kept'[p][k] <=> p \in Caching
    BY <1>4, <2>0
  <2> DEFINE c == IF p \in Caching THEN 1 ELSE shared[p][k] + 1
  <2>2. c \in 1..MaxShared /\ Contribution(p, k) = c - 1
    <3>1. CASE p \in Caching
      <4>1. Contribution(p, k) = 0
        BY <1>4, <3>1 DEF Contribution
      <4> QED
        BY <3>1, <4>1, BoundsAssumption
    <3>2. CASE p \notin Caching
      <4>1. Contribution(p, k) = shared[p][k] /\ c = shared[p][k] + 1
        BY <3>2 DEF Contribution
      <4> HIDE DEF c
      <4>2. shared[p][k] + 1 \in 1..MaxShared /\ (shared[p][k] + 1) - 1 = shared[p][k]
        <5>1. shared[p][k] \in 0..MaxShared /\ shared[p][k] < MaxShared
          BY <2>1
        <5> QED
          BY ONLY <5>1, BoundsAssumption
      <4> QED
        BY <4>1, <4>2
    <3> QED
      BY <3>1, <3>2
  <2>3. Contribution(p, k)' = c
    <3>1. CASE p \in Caching
      BY <2>1, <3>1 DEF Contribution
    <3>2. CASE p \notin Caching
      BY <2>1, <3>2 DEF Contribution
    <3> QED
      BY <3>1, <3>2
  <2> HIDE DEF c
  <2>4. Cardinality(Units(k)') = Cardinality(Units(k)) + 1
    BY <1>1, <2>2, <2>3, UnitsUp
  <2>5. lock[k] # ExclusiveValue /\ lock'[k] = IF lock[k] = NoRow THEN 1 ELSE lock[k] + 1
    BY <1>4 DEF AcquireShared, AcquireSharedGranted
  <2>6. CASE lock[k] = NoRow
    <3>1. Cardinality(Units(k)) = 0
      BY <2>6, FS_EmptySet DEF RowCovers
    <3> QED
      BY <2>4, <2>5, <2>6, <3>1 DEF Exact
  <2>7. CASE lock[k] # NoRow
    <3>1. lock[k] \in Nat /\ Cardinality(Units(k)) = lock[k]
      BY <2>5, <2>7 DEF Exact
    <3> QED
      BY <2>4, <2>5, <2>7, <3>1 DEF Exact
  <2> QED
    BY <2>6, <2>7
<1> QED
  BY <1>3, <1>4

\* releaseLock(LOCK_SHARED) of a process that does not cache takes out its unit.
LEMMA ReleaseSharedExact ==
  ASSUME TypeOK, NEW k \in Paths, RowCovers(k), Exact(k), NEW p \in Procs,
         shared[p][k] > 0 \/ p \in Caching, ReleaseShared(p, k)
  PROVE  Exact(k)'
<1> USE DEF TypeOK, NoRow, ExclusiveValue, rows
<1>1. /\ \A q \in Procs \ {p} : Contribution(q, k)' = Contribution(q, k)
      /\ \A q \in Procs : exclusive'[q][k] = exclusive[q][k]
  BY DEF ReleaseShared, Contribution
<1>2. CASE p \in Caching
  <2>1. Contribution(p, k)' = Contribution(p, k) /\ lock'[k] = lock[k]
    BY <1>2 DEF ReleaseShared, Contribution
  <2> QED
    BY <1>1, <2>1, ExactUntouched
<1>3. CASE p \notin Caching
  <2>1. /\ shared[p][k] \in 1..MaxShared
        /\ Contribution(p, k) = shared[p][k]
        /\ Contribution(p, k)' = shared[p][k] - 1
        /\ lock'[k] = IF lock[k] > 0 THEN lock[k] - 1 ELSE lock[k]
    BY <1>3 DEF ReleaseShared, Contribution
  <2> QED
    BY <1>1, <2>1, ExactDown
<1> QED
  BY <1>2, <1>3

\* An exclusive lock that is given back leaves a row that counts nobody.
LEMMA ReleaseExclusiveExact ==
  ASSUME TypeOK, NEW k \in Paths, RowCovers(k), NEW p \in Procs, exclusive[p][k],
         ReleaseExclusive(p, k)
  PROVE  Exact(k)'
<1>1. lock[k] = ExclusiveValue /\ lock'[k] = 0 /\ Units(k) = {}
  BY DEF TypeOK, ReleaseExclusive, RowCovers
<1>2. Units(k)' = {}
  BY <1>1, UnitsSame DEF Contribution, ReleaseExclusive
<1> QED
  BY <1>1, <1>2, FS_EmptySet DEF Exact, ExclusiveValue

\* One that is changed to a shared lock leaves a row that counts one.
LEMMA ChangeToSharedExact ==
  ASSUME TypeOK, NEW k \in Paths, RowCovers(k), NEW p \in Procs, ChangeToShared(p, k)
  PROVE  Exact(k)'
<1> USE DEF TypeOK, NoRow, ExclusiveValue, WriteRow
<1>1. lock[k] = ExclusiveValue /\ lock'[k] = 1 /\ Units(k) = {}
  BY DEF ChangeToShared, ChangeToSharedGranted, RowCovers
<1>2. shared[p][k] = 0 /\ ~kept[p][k]
  <2>1. shared[p][k] > 0 \/ kept[p][k] => <<p, 1>> \in Units(k)
    BY SharedHasUnit
  <2> QED
    BY <1>1, <2>1
<1> DEFINE c == 1
<1>3. /\ c \in 1..MaxShared
      /\ Contribution(p, k)' = c /\ Contribution(p, k) = c - 1
      /\ \A q \in Procs \ {p} : Contribution(q, k)' = Contribution(q, k)
  <2>0. /\ shared' = [shared EXCEPT ![p][k] = @ + 1]
        /\ kept' = [kept EXCEPT ![p][k] = @ \/ p \in Caching]
    BY DEF ChangeToShared
  <2>1. shared'[p][k] = 1
    BY <1>2, <2>0
  <2>2. kept'[p][k] <=> p \in Caching
    BY <1>2, <2>0
  <2>3. Contribution(p, k)' = 1 /\ Contribution(p, k) = 0
    BY <1>2, <2>1, <2>2 DEF Contribution
  <2>4. \A q \in Procs \ {p} : Contribution(q, k)' = Contribution(q, k)
    BY DEF Contribution, ChangeToShared
  <2> QED
    BY <2>3, <2>4, BoundsAssumption
<1> HIDE DEF c
<1>4. Cardinality(Units(k)') = Cardinality(Units(k)) + 1
  BY <1>3, UnitsUp
<1>5. Cardinality(Units(k)) = 0
  BY <1>1, FS_EmptySet
<1> QED
  BY <1>1, <1>4, <1>5 DEF Exact

\* The end of releaseAll takes every kept lock out of its row.
LEMMA EndReleaseAllExact ==
  ASSUME TypeOK, NEW k \in Paths, RowCovers(k), Exact(k), NEW p \in Procs, EndReleaseAll(p)
  PROVE  Exact(k)'
<1> USE DEF TypeOK, NoRow, ExclusiveValue
<1>1. /\ \A q \in Procs : shared'[q][k] = shared[q][k] /\ exclusive'[q][k] = exclusive[q][k]
      /\ kept'[p][k] = FALSE
      /\ \A q \in Procs \ {p} : kept'[q][k] = kept[q][k]
  BY DEF EndReleaseAll, ReleaseKept
<1>2. \A q \in Procs \ {p} : Contribution(q, k)' = Contribution(q, k)
  BY <1>1 DEF Contribution
<1>3. CASE ~kept[p][k]
  <2>1. lock'[k] = lock[k]
    BY <1>3 DEF EndReleaseAll, ReleaseKept
  <2>2. kept[p][k] = FALSE
    BY <1>3
  <2>3. Contribution(p, k)' = Contribution(p, k)
    BY <1>1, <2>2 DEF Contribution
  <2> QED
    BY <1>1, <1>2, <2>1, <2>3, ExactUntouched
<1>4. CASE kept[p][k]
  <2>1. p \in Caching
    BY <1>4 DEF RowCovers
  <2> DEFINE c == 1
  <2>2. /\ c \in 1..MaxShared
        /\ Contribution(p, k) = c /\ Contribution(p, k)' = c - 1
    BY <1>1, <1>4, <2>1, BoundsAssumption DEF Contribution
  <2>3. lock'[k] = IF lock[k] > 0 THEN lock[k] - 1 ELSE lock[k]
    BY <1>4 DEF EndReleaseAll, ReleaseKept
  <2> HIDE DEF c
  <2> QED
    BY <1>2, <2>2, <2>3, ExactDown
<1> QED
  BY <1>3, <1>4

(***************************************************************************)
(* A call on path k: the rows of the other paths stay exact because        *)
(* nothing about them changes.                                             *)
(***************************************************************************)
LEMMA DisciplinedExact ==
  ASSUME IInv, NoStrayLock, NEW p \in Procs, NEW k \in Paths, Disciplined(p, k)
  PROVE  NoStrayLock'
<1> USE DEF TypeOK, rows, WriteRow
<1>0. TypeOK /\ \A j \in Paths : RowCovers(j) /\ Exact(j)
  BY DEF IInv, RowCoversHolders, NoStrayLock, Exact
<1>1. ASSUME NEW j \in Paths, j # k PROVE Exact(j)'
  <2>1. /\ lock'[j] = lock[j]
        /\ \A q \in Procs : /\ shared'[q][j] = shared[q][j]
                            /\ exclusive'[q][j] = exclusive[q][j]
                            /\ kept'[q][j] = kept[q][j]
    <3>1. CASE AcquireShared(p, k)
      BY <1>0, <1>1, <3>1 DEF AcquireShared
    <3>2. CASE AcquireExclusive(p, k)
      BY <1>0, <1>1, <3>2 DEF AcquireExclusive
    <3>3. CASE ReleaseShared(p, k)
      BY <1>0, <1>1, <3>3 DEF ReleaseShared
    <3>4. CASE ReleaseExclusive(p, k)
      BY <1>0, <1>1, <3>4 DEF ReleaseExclusive
    <3>5. CASE ChangeToShared(p, k)
      BY <1>0, <1>1, <3>5 DEF ChangeToShared
    <3>6. CASE ChangeToExclusive(p, k)
      BY <1>0, <1>1, <3>6 DEF ChangeToExclusive
    <3> QED
      BY <3>1, <3>2, <3>3, <3>4, <3>5, <3>6 DEF Disciplined
  <2> QED
    BY <1>0, <2>1, ExactUntouched DEF Contribution
<1>2. Exact(k)'
  <2>1. CASE shared[p][k] < MaxShared /\ AcquireShared(p, k)
    BY <1>0, <2>1, AcquireSharedExact
  <2>2. CASE AcquireExclusive(p, k) \/ ChangeToExclusive(p, k)
    <3>1. lock'[k] = ExclusiveValue /\ exclusive'[p][k]
      BY <1>0, <2>2 DEF AcquireExclusive, ChangeToExclusive
    <3> QED
      BY <3>1 DEF Exact, ExclusiveValue
  <2>3. CASE (shared[p][k] > 0 \/ p \in Caching) /\ ReleaseShared(p, k)
    BY <1>0, <2>3, ReleaseSharedExact
  <2>4. CASE exclusive[p][k] /\ ReleaseExclusive(p, k)
    BY <1>0, <2>4, ReleaseExclusiveExact
  <2>5. CASE ChangeToShared(p, k)
    BY <1>0, <2>5, ChangeToSharedExact
  <2> QED
    BY <2>1, <2>2, <2>3, <2>4, <2>5 DEF Disciplined
<1> QED
  BY <1>1, <1>2 DEF NoStrayLock, Exact

\* Every step keeps all rows exact.
LEMMA ExactStep ==
  ASSUME Env \subseteq {"unowned"}, IInv, NoStrayLock, [Next]_vars
  PROVE  NoStrayLock'
<1>0. TypeOK /\ \A j \in Paths : RowCovers(j) /\ Exact(j)
  BY DEF IInv, RowCoversHolders, NoStrayLock, Exact
<1>1. ASSUME UNCHANGED <<lock, own>> PROVE NoStrayLock'
  <2>1. \A j \in Paths : Exact(j)'
    BY <1>0, <1>1, ExactUntouched DEF own, Contribution
  <2> QED
    BY <2>1 DEF NoStrayLock, Exact
<1>2. ASSUME NEW p \in Procs, Running(p) PROVE NoStrayLock'
  BY <1>1, <1>2, CallsDisciplined, DisciplinedExact DEF Running, BeginReleaseAll, rows
<1>3. ASSUME NEW p \in Procs, Closing(p) PROVE NoStrayLock'
  <2>1. CASE EndReleaseAll(p)
    <3>1. \A j \in Paths : Exact(j)'
      BY <1>0, <2>1, EndReleaseAllExact
    <3> QED
      BY <3>1 DEF NoStrayLock, Exact
  <2> QED
    BY <1>3, <2>1, CallsDisciplined, DisciplinedExact DEF Closing
<1>4. ASSUME NEW p \in Procs, Crash(p) PROVE FALSE
  BY <1>4 DEF Crash
<1>5. ASSUME NEW k \in Paths, TtlPasses(k) PROVE NoStrayLock'
  BY <1>1, <1>5 DEF TtlPasses
<1>6. CASE CleanExpiredLocks
  <2> SUFFICES ASSUME NEW j \in Paths PROVE Exact(j)'
    BY DEF NoStrayLock, Exact
  <2>1. CASE expired[j]
    BY <1>6, <2>1 DEF CleanExpiredLocks, Exact, NoRow, ExclusiveValue
  <2>2. CASE ~expired[j]
    <3>1. lock'[j] = lock[j]
      BY <1>6, <2>2 DEF CleanExpiredLocks
    <3> QED
      BY <1>0, <1>6, <3>1, ExactUntouched DEF CleanExpiredLocks, own, Contribution
  <2> QED
    BY <2>1, <2>2
<1>7. CASE UNCHANGED vars
  BY <1>1, <1>7 DEF vars, own
<1> QED
  BY <1>2, <1>3, <1>4, <1>5, <1>6, <1>7 DEF Next

(***************************************************************************)
(* No lock is leaked: as long as no process is killed or outlives a ttl, a *)
(* row counts exactly the living processes' locks, so nothing is left when *)
(* every request has run releaseAll.                                       *)
(***************************************************************************)
THEOREM NothingLeaks ==
  ASSUME Env \subseteq {"unowned"}
  PROVE  Spec => []NoStrayLock
<1>1. Init => NoStrayLock
  BY DEF Init, NoStrayLock, NoRow, ExclusiveValue
<1>2. IInv /\ NoStrayLock /\ [Next]_vars => NoStrayLock'
  BY ExactStep
<1>3. Env \subseteq {"crash", "unowned"}
  OBVIOUS
<1>4. Spec => []RowCoversHolders
  BY <1>3, RowsCoverHolders
<1>5. Spec => []IInv
  BY <1>4, TypeCorrect, PTL DEF IInv
<1> QED
  BY <1>1, <1>2, <1>5, PTL DEF Spec

(***************************************************************************)
(* isLocked never misses a holder, the kept lock of the caller discounted: *)
(* the holder's unit and the caller's are two, and the row counts both.    *)
(***************************************************************************)
THEOREM HoldersSeen ==
  ASSUME Env \subseteq {"crash", "unowned"}
  PROVE  Spec => []IsLockedSeesHolders
<1>1. TypeOK /\ RowCoversHolders => IsLockedSeesHolders
  <2> SUFFICES ASSUME TypeOK, RowCoversHolders,
                      NEW k \in Paths, NEW p \in Procs, NEW q \in Procs
               PROVE  /\ exclusive[p][k] => IsLocked(q, k, TRUE)
                      /\ shared[p][k] > 0 => IsLocked(q, k, FALSE)
    BY DEF IsLockedSeesHolders
  <2>0. RowCovers(k)
    BY DEF RowCoversHolders
  <2>1. exclusive[p][k] => IsLocked(q, k, TRUE)
    BY <2>0 DEF RowCovers, IsLocked
  <2>2. ASSUME shared[p][k] > 0, ~(shared[q][k] > 0)
        PROVE  lock[k] > (IF kept[q][k] THEN 1 ELSE 0)
    <3>1. <<p, 1>> \in Units(k)
      BY <2>0, <2>2, SharedHasUnit
    <3>2. lock[k] \in Nat /\ Cardinality(Units(k)) <= lock[k]
      BY <2>0, <3>1 DEF RowCovers, TypeOK, NoRow, ExclusiveValue
    <3>3. Cardinality(Units(k)) \in Nat /\ Cardinality(Units(k)) >= 1
      BY <3>1, UnitsFinite, OneUnitLess
    <3>4. CASE kept[q][k]
      <4> DEFINE u == <<p, 1>>
                 v == <<q, 1>>
      <4>1. u \in Units(k) /\ v \in Units(k) /\ u # v
        BY <2>0, <2>2, <3>1, <3>4, SharedHasUnit
      <4> HIDE DEF u, v
      <4>2. /\ IsFiniteSet(Units(k) \ {u}) /\ Cardinality(Units(k) \ {u}) = Cardinality(Units(k)) - 1
            /\ v \in Units(k) \ {u}
        BY <4>1, UnitsFinite, FS_RemoveElement
      <4>3. Cardinality(Units(k) \ {u}) >= 1
        BY <4>2, OneUnitLess
      <4> QED
        BY <3>2, <3>3, <3>4, <4>2, <4>3
    <3>5. CASE ~kept[q][k]
      BY <3>2, <3>3, <3>5
    <3> QED
      BY <3>4, <3>5
  <2> QED
    BY <2>1, <2>2 DEF IsLocked
<1> QED
  BY <1>1, TypeCorrect, RowsCoverHolders, PTL

-----------------------------------------------------------------------------
(***************************************************************************)
(* The calls of the provider as steps of the readers-writer lock.          *)
(***************************************************************************)
LEMMA CallSimulation ==
  ASSUME Env \subseteq {"crash", "unowned"}, IInv, NEW p \in Procs, NEW k \in Paths,
         ClientCall(p, k)
  PROVE  Abstract!Next \/ UNCHANGED <<shared, exclusive>>
<1> USE DEF IInv, RowCoversHolders, TypeOK, NoRow, ExclusiveValue
<1>1. CASE ClientAcquireShared(p, k)
  <2>1. AcquireShared(p, k)
    BY <1>1 DEF ClientAcquireShared
  <2>2. \A q \in Procs : ~exclusive[q][k]
    <3>1. kept[p][k] => <<p, 1>> \in Units(k)
      BY SharedHasUnit
    <3>2. lock[k] # ExclusiveValue
      BY <2>1, <3>1 DEF AcquireShared, AcquireSharedGranted, RowCovers
    <3> QED
      BY <3>2 DEF RowCovers
  <2>3. Abstract!AcquireShared(p, k)
    BY <2>1, <2>2 DEF AcquireShared, Abstract!AcquireShared
  <2> QED
    BY <2>3 DEF Abstract!Next
<1>2. CASE ClientAcquireExclusive(p, k)
  <2>1. AcquireExclusive(p, k) /\ lock[k] \in {NoRow, 0}
    BY <1>2 DEF ClientAcquireExclusive, AcquireExclusive,
                AcquireExclusiveGranted, ExistingFor
  <2>2. \A q \in Procs : ~Relies(q, k)
    BY <2>1, FreeRow
  <2>3. Abstract!AcquireExclusive(p, k)
    BY <2>1, <2>2
    DEF AcquireExclusive, Abstract!AcquireExclusive, Abstract!Holds, Relies, Holds
  <2> QED
    BY <2>3 DEF Abstract!Next
<1>3. CASE ClientReleaseShared(p, k)
  <2>1. ReleaseShared(p, k)
    BY <1>3 DEF ClientReleaseShared
  <2>2. CASE shared[p][k] > 0
    <3>1. Abstract!ReleaseShared(p, k)
      BY <2>1, <2>2 DEF ReleaseShared, Abstract!ReleaseShared
    <3> QED
      BY <3>1 DEF Abstract!Next
  <2>3. CASE ~(shared[p][k] > 0)
    BY <2>1, <2>3 DEF ReleaseShared
  <2> QED
    BY <2>2, <2>3
<1>4. CASE ClientReleaseExclusive(p, k)
  <2>1. Abstract!ReleaseExclusive(p, k)
    BY <1>4 DEF ClientReleaseExclusive, ReleaseExclusive, Abstract!ReleaseExclusive
  <2> QED
    BY <2>1 DEF Abstract!Next
<1>5. CASE ClientChangeToShared(p, k)
  <2>1. Abstract!ChangeToShared(p, k)
    BY <1>5 DEF ClientChangeToShared, ChangeToShared, Abstract!ChangeToShared
  <2> QED
    BY <2>1 DEF Abstract!Next
<1>6. CASE ClientChangeToExclusive(p, k)
  <2>1. /\ ChangeToExclusive(p, k)
        /\ shared[p][k] = 1 /\ lock[k] = 1
    BY <1>6 DEF ClientChangeToExclusive, ChangeToExclusive, ChangeToExclusiveGranted
  <2>2. \A q \in Procs \ {p} : ~Relies(q, k)
    BY <2>1, SoleHolder
  <2>3. shared' = [shared EXCEPT ![p][k] = 0]
    BY <2>1 DEF ChangeToExclusive
  <2>4. Abstract!ChangeToExclusive(p, k)
    BY <2>1, <2>2, <2>3
    DEF ChangeToExclusive, Abstract!ChangeToExclusive, Abstract!Holds, Relies, Holds
  <2> QED
    BY <2>4 DEF Abstract!Next
<1> QED
  BY <1>1, <1>2, <1>3, <1>4, <1>5, <1>6 DEF ClientCall

(***************************************************************************)
(* The database provider implements the readers-writer lock: what a        *)
(* process holds by its own bookkeeping is granted and given back as       *)
(* FileLock says.  (The kept locks are invisible there.)                   *)
(***************************************************************************)
THEOREM Implementation ==
  ASSUME Env \subseteq {"crash", "unowned"}
  PROVE  Spec => ImplementsFileLock
<1>1. Init => Abstract!Init
  BY DEF Init, Abstract!Init
<1>2. IInv /\ [Next]_vars => [Abstract!Next]_(Abstract!vars)
  <2> SUFFICES ASSUME IInv, [Next]_vars
               PROVE  Abstract!Next \/ UNCHANGED <<shared, exclusive>>
    BY DEF Abstract!vars
  <2> USE DEF rows, own
  <2>1. ASSUME NEW p \in Procs, Running(p)
        PROVE  Abstract!Next \/ UNCHANGED <<shared, exclusive>>
    BY <2>1, CallSimulation DEF Running, BeginReleaseAll
  <2>2. ASSUME NEW p \in Procs, Closing(p)
        PROVE  Abstract!Next \/ UNCHANGED <<shared, exclusive>>
    <3>1. CASE EndReleaseAll(p)
      BY <3>1 DEF EndReleaseAll, ReleaseKept
    <3>2. ASSUME NEW k \in Paths, ReleaseAllShared(p, k) PROVE Abstract!Next
      <4>1. Abstract!ReleaseShared(p, k)
        BY <3>2 DEF ReleaseAllShared, ReleaseShared, Abstract!ReleaseShared,
                    IInv, TypeOK
      <4> QED
        BY <4>1 DEF Abstract!Next
    <3>3. ASSUME NEW k \in Paths, ReleaseAllExclusive(p, k) PROVE Abstract!Next
      <4>1. Abstract!ReleaseExclusive(p, k)
        BY <3>3 DEF ReleaseAllExclusive, ReleaseExclusive, Abstract!ReleaseExclusive
      <4> QED
        BY <4>1 DEF Abstract!Next
    <3> QED
      BY <2>2, <3>1, <3>2, <3>3 DEF Closing
  <2>3. ASSUME NEW p \in Procs, Crash(p) PROVE Abstract!Next
    <3>1. Abstract!Gone(p)
      BY <2>3 DEF Crash, Abstract!Gone
    <3> QED
      BY <3>1 DEF Abstract!Next
  <2>4. ASSUME NEW k \in Paths, TtlPasses(k) PROVE UNCHANGED <<shared, exclusive>>
    BY <2>4 DEF TtlPasses
  <2>5. CASE CleanExpiredLocks
    BY <2>5 DEF CleanExpiredLocks
  <2>6. CASE UNCHANGED vars
    BY <2>6 DEF vars
  <2> QED
    BY <2>1, <2>2, <2>3, <2>4, <2>5, <2>6 DEF Next
<1>3. Spec => []IInv
  BY TypeCorrect, RowsCoverHolders, PTL DEF IInv
<1> QED
  BY <1>1, <1>2, <1>3, PTL DEF Spec, ImplementsFileLock, Abstract!Spec
=============================================================================
