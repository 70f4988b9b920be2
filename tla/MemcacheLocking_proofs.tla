----------------------- MODULE MemcacheLocking_proofs ------------------------
(***************************************************************************)
(* Proofs about the memcache locking provider, for any number of processes *)
(* and any bounds and ttl: typing; that no lock is leaked, whatever the    *)
(* processes do to each other; that the key covers the holders, mutual     *)
(* exclusion and the refinement of FileLock when calls do not overlap and  *)
(* readers come more than a second apart.                                  *)
(***************************************************************************)
EXTENDS MemcacheLocking, FiniteSetTheorems, TLAPS

-----------------------------------------------------------------------------
(***************************************************************************)
(* The values of the key.                                                  *)
(***************************************************************************)
LEMMA Values ==
  /\ NoKey # Exclusive
  /\ NoKey \notin Counts /\ Exclusive \notin Counts
  /\ NoKey.n = 0 /\ Exclusive.n = 0
  /\ NoKey.kind # "count" /\ Exclusive.kind # "count"
  /\ \A n \in Int : Count(n) \in Counts /\ Count(n).n = n /\ Count(n).kind = "count"
  /\ \A v \in Counts : v.n \in Int /\ v.kind = "count" /\ v = Count(v.n)
BY DEF NoKey, Exclusive, Counts, Count

(***************************************************************************)
(* Which command belongs to which call, and what a call knows of its       *)
(* process's marks.                                                        *)
(***************************************************************************)
ControlOf(p) ==
  /\ call[p] = "none" <=> at[p] = "idle"
  /\ call[p] = "acquireShared" => at[p] \in {"inc", "setTTL"} /\ shared[p] < MaxShared
  /\ call[p] = "acquireExclusive" => at[p] \in {"cas", "setTTL"}
  /\ call[p] = "toShared" =>
       at[p] = "setTTL" /\ exclusive[p] /\ shared[p] < MaxShared
  /\ call[p] = "toExclusive" =>
       at[p] \in {"setTTL", "get", "getTTL", "compareSetTTL"} /\ shared[p] > 0
  /\ call[p] = "releaseShared" =>
       at[p] \in {"dec", "reset", "get", "getTTL", "compareSetTTL"} /\ shared[p] > 0

ControlOK == \A p \in Procs : ControlOf(p)

(***************************************************************************)
(* The key expires within a ttl of now, and what a process remembers       *)
(* lies in the past.                                                       *)
(***************************************************************************)
TimeOK ==
  /\ expiry # Never => now < expiry /\ expiry <= now + Ttl
  /\ \A p \in Procs : old[p].time <= now /\ since[p] <= now

TypeInv == TypeOK /\ ControlOK /\ TimeOK

StoreTyped ==
  /\ value \in {NoKey, Exclusive} \cup Counts
  /\ expiry \in {Never} \cup 1..(MaxTime + Ttl)
  /\ value = NoKey => expiry = Never
  /\ now \in 0..MaxTime
  /\ expiry # Never => now < expiry /\ expiry <= now + Ttl

MarksTyped ==
  /\ shared \in [Procs -> 0..MaxShared]
  /\ exclusive \in [Procs -> BOOLEAN]

CallsTyped ==
  /\ call \in [Procs -> Calls]
  /\ at \in [Procs -> Commands]
  /\ seen \in [Procs -> {NoKey, Exclusive} \cup Counts]

MemoryTyped ==
  /\ old \in [Procs -> [ttl : -1..Ttl, time : -1..MaxTime]]
  /\ since \in [Procs -> 0..MaxTime]
  /\ givingUp \in [Procs -> BOOLEAN]
  /\ \A p \in Procs : old[p].time <= now /\ since[p] <= now

LEMMA TypedParts ==
  ASSUME StoreTyped', MarksTyped', CallsTyped', MemoryTyped'
  PROVE  TypeOK' /\ TimeOK'
BY DEF TypeOK, TimeOK, StoreTyped, MarksTyped, CallsTyped, MemoryTyped

\* What the store commands leave in the key.
LEMMA ExpireTyped ==
  ASSUME TypeOK, TimeOK, NEW t \in Int, t <= Ttl, Expire(t)
  PROVE  /\ value' \in {NoKey, Exclusive} \cup Counts
         /\ expiry' \in {Never} \cup 1..(MaxTime + Ttl)
         /\ value' = NoKey => expiry' = Never
         /\ expiry' # Never => now < expiry' /\ expiry' <= now + Ttl
<1> USE TtlAssumption, BoundsAssumption, Values
<1> USE DEF TypeOK, TimeOK, Never
<1>1. CASE Absent
  BY <1>1 DEF Expire, store
<1>2. CASE ~Absent /\ t <= 0
  BY <1>2 DEF Expire, Delete, Put
<1>3. CASE ~Absent /\ ~(t <= 0)
  <2>1. value' = value /\ expiry' = now + t
    BY <1>3 DEF Expire, Put
  <2> QED
    BY <1>3, <2>1 DEF Absent
<1> QED
  BY <1>1, <1>2, <1>3

LEMMA TtlNowTyped ==
  ASSUME TypeOK, TimeOK
  PROVE  TtlNow \in -1..Ttl
BY TtlAssumption, BoundsAssumption DEF TypeOK, TimeOK, TtlNow, Never

(***************************************************************************)
(* A step of p leaves the other processes alone.                           *)
(***************************************************************************)
Same(q) ==
  /\ call'[q] = call[q] /\ at'[q] = at[q] /\ seen'[q] = seen[q]
  /\ shared'[q] = shared[q] /\ exclusive'[q] = exclusive[q]
  /\ old'[q] = old[q] /\ since'[q] = since[q] /\ givingUp'[q] = givingUp[q]

LEMMA OthersSame ==
  ASSUME TypeInv, NEW p \in Procs, ProviderStep(p) \/ Crash(p), NEW q \in Procs \ {p}
  PROVE  Same(q)
<1> USE DEF TypeInv, TypeOK, store, marks, control, client, Same
<1>1. CASE BeginAcquireShared(p)
  BY <1>1 DEF BeginAcquireShared, Start, Enter, NoOld
<1>2. CASE Inc(p)
  BY <1>2 DEF Inc, Leave, Go
<1>3. CASE BeginAcquireExclusive(p)
  BY <1>3 DEF BeginAcquireExclusive, Start, Enter, Put, Absent
<1>4. CASE CasExclusive(p)
  BY <1>4 DEF CasExclusive, Cas, Put, ForgetOld, Go, Leave, NoOld
<1>5. CASE BeginChangeToShared(p)
  BY <1>5 DEF BeginChangeToShared, Start, Cas, Put, Enter
<1>6. CASE BeginChangeToExclusive(p)
  BY <1>6 DEF BeginChangeToExclusive, Start, Cas, Put, Enter, ForgetOld, NoOld
<1>7. CASE SetTTL(p)
  BY <1>7 DEF SetTTL, Leave
<1>8. CASE BeginReleaseShared(p)
  BY <1>8 DEF BeginReleaseShared, Start, Delete, Put, MarkRelease, ForgetOld, NoOld, Enter
<1>9. CASE Dec(p)
  BY <1>9 DEF Dec, IsCount, Go, ForgetOld, NoOld, Leave, MarkRelease
<1>10. CASE Reset(p)
  BY <1>10 DEF Reset, Delete, Put, MarkRelease, Leave
<1>11. CASE RestoreGet(p)
  BY <1>11 DEF RestoreGet, Restored, Leave, MarkRelease
<1>12. CASE RestoreGetTTL(p)
  BY <1>12 DEF RestoreGetTTL, Restored, Leave, MarkRelease, Go
<1>13. CASE RestoreSetTTL(p)
  BY <1>13 DEF RestoreSetTTL, Restored, Leave, MarkRelease, Put, Elapsed
<1>14. CASE ReleaseExclusive(p)
  BY <1>14 DEF ReleaseExclusive, Start, Delete, Put
<1>15. CASE NextRequest(p)
  BY <1>15 DEF NextRequest, ForgetOld
<1>16. CASE Crash(p)
  BY <1>16 DEF Crash, ForgetOld, NoOld, Leave
<1> QED
  BY <1>1, <1>2, <1>3, <1>4, <1>5, <1>6, <1>7, <1>8, <1>9, <1>10, <1>11, <1>12, <1>13,
     <1>14, <1>15, <1>16
  DEF ProviderStep

\* The clock stands during a step of a process.
LEMMA ClockStands ==
  ASSUME NEW p \in Procs, ProviderStep(p) \/ Crash(p)
  PROVE  now' = now
<1>1. CASE BeginAcquireShared(p) \/ Inc(p) \/ BeginAcquireExclusive(p) \/ CasExclusive(p) \/ BeginChangeToShared(p)
  BY <1>1
  DEF BeginAcquireShared, Inc, BeginAcquireExclusive, CasExclusive, BeginChangeToShared
<1>2. CASE BeginChangeToExclusive(p) \/ SetTTL(p) \/ BeginReleaseShared(p) \/ Dec(p) \/ Reset(p)
  BY <1>2 DEF BeginChangeToExclusive, SetTTL, BeginReleaseShared, Dec, Reset
<1>3. CASE RestoreGet(p) \/ RestoreGetTTL(p) \/ RestoreSetTTL(p) \/ ReleaseExclusive(p) \/ NextRequest(p) \/ Crash(p)
  BY <1>3
  DEF RestoreGet, RestoreGetTTL, RestoreSetTTL, ReleaseExclusive, NextRequest, Crash
<1> QED
  BY <1>1, <1>2, <1>3 DEF ProviderStep

\* What is left to show of a step of p.
LEMMA Together ==
  ASSUME TypeInv, NEW p \in Procs, ProviderStep(p) \/ Crash(p),
         TypeOK' /\ TimeOK', ControlOf(p)'
  PROVE  TypeInv'
<1>1. ASSUME NEW q \in Procs \ {p} PROVE ControlOf(q)'
  BY <1>1, OthersSame DEF TypeInv, ControlOK, ControlOf, Same
<1> QED
  BY <1>1 DEF TypeInv, ControlOK

LEMMA AtSetTTL ==
  ASSUME TypeInv, NEW p \in Procs, at[p] = "setTTL"
  PROVE  call[p] \in {"acquireShared", "acquireExclusive", "toShared", "toExclusive"}
BY DEF TypeInv, TypeOK, ControlOK, ControlOf, Calls

(***************************************************************************)
(* The parts that the calls are made of.                                   *)
(***************************************************************************)
LEMMA LeaveTyped ==
  ASSUME TypeInv, NEW p \in Procs, Leave(p)
  PROVE  CallsTyped' /\ ControlOf(p)'
BY DEF TypeInv, TypeOK, CallsTyped, ControlOf, Leave, Calls, Commands

LEMMA GoTyped ==
  ASSUME TypeInv, NEW p \in Procs, NEW c \in Commands, Go(p, c)
  PROVE  CallsTyped'
BY DEF TypeInv, TypeOK, CallsTyped, Go

LEMMA MarkReleaseTyped ==
  ASSUME TypeInv, NEW p \in Procs, shared[p] > 0, MarkRelease(p)
  PROVE  /\ MarksTyped'
         /\ \A q \in Procs \ {p} : shared'[q] = shared[q] /\ exclusive'[q] = exclusive[q]
<1>1. shared[p] - 1 \in 0..MaxShared
  BY BoundsAssumption DEF TypeInv, TypeOK
<1> QED
  BY <1>1 DEF TypeInv, TypeOK, MarksTyped, MarkRelease

LEMMA OldKept ==
  ASSUME TypeInv, NEW p \in Procs, ForgetOld(p) \/ UNCHANGED old
  PROVE  /\ old' \in [Procs -> [ttl : -1..Ttl, time : -1..MaxTime]]
         /\ \A q \in Procs : old'[q].time <= now
<1> USE BoundsAssumption, TtlAssumption DEF TypeInv, TypeOK, TimeOK
<1>1. CASE ForgetOld(p)
  BY <1>1 DEF ForgetOld, NoOld
<1>2. CASE UNCHANGED old
  BY <1>2
<1> QED
  BY <1>1, <1>2

LEMMA MemoryKept ==
  ASSUME TypeInv, NEW p \in Procs, ForgetOld(p) \/ UNCHANGED old,
         UNCHANGED <<now, since, givingUp>>
  PROVE  MemoryTyped'
BY OldKept DEF TypeInv, TypeOK, TimeOK, MemoryTyped

LEMMA RestoredTyped ==
  ASSUME TypeInv, NEW p \in Procs, Restored(p)
  PROVE  /\ MarksTyped' /\ CallsTyped' /\ ControlOf(p)'
         /\ \A q \in Procs \ {p} : shared'[q] = shared[q] /\ exclusive'[q] = exclusive[q]
<1>1. Leave(p)
  BY DEF Restored
<1>2. CASE call[p] = "releaseShared"
  <2>1. shared[p] > 0 /\ MarkRelease(p)
    BY <1>2 DEF Restored, TypeInv, ControlOK, ControlOf
  <2> QED
    BY <1>1, <2>1, LeaveTyped, MarkReleaseTyped
<1>3. CASE call[p] # "releaseShared"
  BY <1>1, <1>3, LeaveTyped DEF Restored, marks, TypeInv, TypeOK, MarksTyped
<1> QED
  BY <1>2, <1>3

LEMMA TypingStep == TypeInv /\ [Next]_vars => TypeInv'
<1> SUFFICES ASSUME TypeInv, [Next]_vars PROVE TypeInv'
  OBVIOUS
<1> USE DEF TypeInv, TypeOK, TimeOK, store, marks, control, client,
            Calls, Commands, Never, Idle, In
<1> USE BoundsAssumption, TtlAssumption, Values
<1>1. ASSUME NEW p \in Procs, BeginAcquireShared(p) PROVE TypeInv'
  <2>4. StoreTyped'
    BY <1>1, TtlNowTyped DEF StoreTyped, BeginAcquireShared, Start, Enter, NoOld
  <2>5. MarksTyped'
    BY <1>1 DEF MarksTyped, BeginAcquireShared, Start, Enter, NoOld
  <2>6. CallsTyped'
    BY <1>1 DEF CallsTyped, BeginAcquireShared, Start, Enter, NoOld
  <2>7. MemoryTyped'
    BY <1>1, TtlNowTyped DEF MemoryTyped, BeginAcquireShared, Start, Enter, NoOld
  <2>1. /\ TypeOK' /\ TimeOK'
    BY <2>4, <2>5, <2>6, <2>7, TypedParts
  <2>3. ControlOf(p)'
    BY <1>1 DEF ControlOK, ControlOf, BeginAcquireShared, Start, Enter, NoOld
  <2> QED
    BY <1>1, <2>1, <2>3, Together DEF ProviderStep
<1>2. ASSUME NEW p \in Procs, Inc(p) PROVE TypeInv'
  <2>4. StoreTyped'
    BY <1>2 DEF StoreTyped, Inc, Leave, Go
  <2>5. MarksTyped'
    BY <1>2 DEF MarksTyped, Inc, Leave, Go
  <2>6. CallsTyped'
    BY <1>2 DEF CallsTyped, Inc, Leave, Go
  <2>7. MemoryTyped'
    BY <1>2 DEF MemoryTyped, Inc, Leave, Go
  <2>1. /\ TypeOK' /\ TimeOK'
    BY <2>4, <2>5, <2>6, <2>7, TypedParts
  <2>3. ControlOf(p)'
    BY <1>2 DEF ControlOK, ControlOf, Inc, Leave, Go
  <2> QED
    BY <1>2, <2>1, <2>3, Together DEF ProviderStep
<1>3. ASSUME NEW p \in Procs, BeginAcquireExclusive(p) PROVE TypeInv'
  <2>4. StoreTyped'
    BY <1>3 DEF StoreTyped, BeginAcquireExclusive, Start, Enter, Put, Absent
  <2>5. MarksTyped'
    BY <1>3 DEF MarksTyped, BeginAcquireExclusive, Start, Enter, Put, Absent
  <2>6. CallsTyped'
    BY <1>3 DEF CallsTyped, BeginAcquireExclusive, Start, Enter, Put, Absent
  <2>7. MemoryTyped'
    BY <1>3 DEF MemoryTyped, BeginAcquireExclusive, Start, Enter, Put, Absent
  <2>1. /\ TypeOK' /\ TimeOK'
    BY <2>4, <2>5, <2>6, <2>7, TypedParts
  <2>3. ControlOf(p)'
    BY <1>3 DEF ControlOK, ControlOf, BeginAcquireExclusive, Start, Enter, Put, Absent
  <2> QED
    BY <1>3, <2>1, <2>3, Together DEF ProviderStep
<1>4. ASSUME NEW p \in Procs, CasExclusive(p) PROVE TypeInv'
  <2>4. StoreTyped'
    BY <1>4 DEF StoreTyped, CasExclusive, Cas, Put, ForgetOld, Go, Leave, NoOld
  <2>5. MarksTyped'
    BY <1>4 DEF MarksTyped, CasExclusive, Cas, Put, ForgetOld, Go, Leave, NoOld
  <2>6. CallsTyped'
    BY <1>4 DEF CallsTyped, CasExclusive, Cas, Put, ForgetOld, Go, Leave, NoOld
  <2>7. MemoryTyped'
    BY <1>4, MemoryKept DEF CasExclusive
  <2>1. /\ TypeOK' /\ TimeOK'
    BY <2>4, <2>5, <2>6, <2>7, TypedParts
  <2>3. ControlOf(p)'
    BY <1>4 DEF ControlOK, ControlOf, CasExclusive, Cas, Put, ForgetOld, Go, Leave, NoOld
  <2> QED
    BY <1>4, <2>1, <2>3, Together DEF ProviderStep
<1>5. ASSUME NEW p \in Procs, BeginChangeToShared(p) PROVE TypeInv'
  <2>4. StoreTyped'
    BY <1>5 DEF StoreTyped, BeginChangeToShared, Start, Cas, Put, Enter
  <2>5. MarksTyped'
    BY <1>5 DEF MarksTyped, BeginChangeToShared, Start, Cas, Put, Enter
  <2>6. CallsTyped'
    BY <1>5 DEF CallsTyped, BeginChangeToShared, Start, Cas, Put, Enter
  <2>7. MemoryTyped'
    BY <1>5 DEF MemoryTyped, BeginChangeToShared, Start, Cas, Put, Enter
  <2>1. /\ TypeOK' /\ TimeOK'
    BY <2>4, <2>5, <2>6, <2>7, TypedParts
  <2>3. ControlOf(p)'
    BY <1>5 DEF ControlOK, ControlOf, BeginChangeToShared, Start, Cas, Put, Enter
  <2> QED
    BY <1>5, <2>1, <2>3, Together DEF ProviderStep
<1>6. ASSUME NEW p \in Procs, BeginChangeToExclusive(p) PROVE TypeInv'
  <2>4. StoreTyped'
    BY <1>6
    DEF StoreTyped, BeginChangeToExclusive, Start, Cas, Put, Enter, ForgetOld, NoOld
  <2>5. MarksTyped'
    BY <1>6
    DEF MarksTyped, BeginChangeToExclusive, Start, Cas, Put, Enter, ForgetOld, NoOld
  <2>6. CallsTyped'
    BY <1>6
    DEF CallsTyped, BeginChangeToExclusive, Start, Cas, Put, Enter, ForgetOld, NoOld
  <2>7. MemoryTyped'
    <3>1. ForgetOld(p) \/ UNCHANGED old
      BY <1>6 DEF BeginChangeToExclusive
    <3> QED
      BY <1>6, <3>1, OldKept DEF MemoryTyped, BeginChangeToExclusive
  <2>1. /\ TypeOK' /\ TimeOK'
    BY <2>4, <2>5, <2>6, <2>7, TypedParts
  <2>3. ControlOf(p)'
    BY <1>6
    DEF ControlOK, ControlOf, BeginChangeToExclusive, Start, Cas, Put, Enter, ForgetOld, NoOld
  <2> QED
    BY <1>6, <2>1, <2>3, Together DEF ProviderStep
<1>7. ASSUME NEW p \in Procs, SetTTL(p) PROVE TypeInv'
  <2>4. StoreTyped'
    BY <1>7, ExpireTyped DEF StoreTyped, SetTTL, Leave
  <2>5. MarksTyped'
    <3>1. call[p] \in {"acquireShared", "acquireExclusive", "toShared", "toExclusive"}
      BY <1>7, AtSetTTL DEF SetTTL
    <3>2. CASE call[p] = "acquireExclusive"
      BY <1>7, <3>2 DEF MarksTyped, SetTTL
    <3>3. CASE call[p] = "acquireShared" \/ call[p] = "toShared"
      <4>1. shared[p] + 1 \in 0..MaxShared
        BY <3>3 DEF ControlOK, ControlOf
      <4>2. shared' = [shared EXCEPT ![p] = shared[p] + 1]
        BY <1>7, <3>3 DEF SetTTL
      <4>3. exclusive' \in [Procs -> BOOLEAN]
        BY <1>7, <3>3 DEF SetTTL
      <4> QED
        BY <4>1, <4>2, <4>3 DEF MarksTyped
    <3>4. CASE call[p] = "toExclusive"
      <4>1. shared[p] - 1 \in 0..MaxShared
        BY <3>4 DEF ControlOK, ControlOf
      <4>2. shared' = [shared EXCEPT ![p] = shared[p] - 1]
        BY <1>7, <3>4 DEF SetTTL
      <4>3. exclusive' \in [Procs -> BOOLEAN]
        BY <1>7, <3>4 DEF SetTTL
      <4> QED
        BY <4>1, <4>2, <4>3 DEF MarksTyped
    <3> QED
      BY <3>1, <3>2, <3>3, <3>4
  <2>6. CallsTyped'
    BY <1>7 DEF CallsTyped, SetTTL, Leave
  <2>7. MemoryTyped'
    BY <1>7 DEF MemoryTyped, SetTTL, Leave
  <2>1. /\ TypeOK' /\ TimeOK'
    BY <2>4, <2>5, <2>6, <2>7, TypedParts
  <2>3. ControlOf(p)'
    BY <1>7 DEF ControlOK, ControlOf, SetTTL, Leave
  <2> QED
    BY <1>7, <2>1, <2>3, Together DEF ProviderStep
<1>8. ASSUME NEW p \in Procs, BeginReleaseShared(p) PROVE TypeInv'
  <2>4. StoreTyped'
    BY <1>8
    DEF StoreTyped, BeginReleaseShared, Start, Delete, Put, MarkRelease, ForgetOld, NoOld,
       Enter
  <2>5. MarksTyped'
    <3>1. shared[p] > 0 /\ (MarkRelease(p) \/ UNCHANGED marks)
      BY <1>8 DEF BeginReleaseShared
    <3> QED
      BY <3>1, MarkReleaseTyped DEF MarksTyped
  <2>6. CallsTyped'
    <3>1. Enter(p, "releaseShared", "dec") \/ UNCHANGED control
      BY <1>8 DEF BeginReleaseShared
    <3> QED
      BY <3>1 DEF CallsTyped, Enter
  <2>7. MemoryTyped'
    BY <1>8, MemoryKept DEF BeginReleaseShared
  <2>1. /\ TypeOK' /\ TimeOK'
    BY <2>4, <2>5, <2>6, <2>7, TypedParts
  <2>3. ControlOf(p)'
    BY <1>8
    DEF ControlOK, ControlOf, BeginReleaseShared, Start, Delete, Put, MarkRelease,
       ForgetOld, NoOld, Enter
  <2> QED
    BY <1>8, <2>1, <2>3, Together DEF ProviderStep
<1>9. ASSUME NEW p \in Procs, Dec(p) PROVE TypeInv'
  <2>4. StoreTyped'
    BY <1>9 DEF StoreTyped, Dec, IsCount, Go, ForgetOld, NoOld, Leave, MarkRelease
  <2>5. MarksTyped'
    <3>1. shared[p] > 0 /\ (MarkRelease(p) \/ UNCHANGED marks)
      BY <1>9 DEF Dec, ControlOK, ControlOf
    <3> QED
      BY <3>1, MarkReleaseTyped DEF MarksTyped
  <2>6. CallsTyped'
    <3>1. \/ Go(p, "get") \/ Leave(p)
          \/ /\ at' = [at EXCEPT ![p] = "reset"]
             /\ seen' = [seen EXCEPT ![p] = value']
             /\ UNCHANGED call
      BY <1>9 DEF Dec
    <3> QED
      <4>1. CASE Leave(p)
        BY <4>1, LeaveTyped
      <4>2. CASE Go(p, "get")
        BY <4>2, GoTyped
      <4>3. CASE ~Leave(p) /\ ~Go(p, "get")
        <5>1. value' \in {NoKey, Exclusive} \cup Counts
          BY <2>4 DEF StoreTyped
        <5>2. /\ call' = call
              /\ at' = [at EXCEPT ![p] = "reset"]
              /\ seen' = [seen EXCEPT ![p] = value']
          BY <3>1, <4>3
        <5> QED
          BY <5>1, <5>2 DEF CallsTyped
      <4> QED
        BY <4>1, <4>2, <4>3
  <2>7. MemoryTyped'
    BY <1>9, MemoryKept DEF Dec
  <2>1. /\ TypeOK' /\ TimeOK'
    BY <2>4, <2>5, <2>6, <2>7, TypedParts
  <2>3. ControlOf(p)'
    BY <1>9
    DEF ControlOK, ControlOf, Dec, IsCount, Go, ForgetOld, NoOld, Leave, MarkRelease
  <2> QED
    BY <1>9, <2>1, <2>3, Together DEF ProviderStep
<1>10. ASSUME NEW p \in Procs, Reset(p) PROVE TypeInv'
  <2>4. StoreTyped'
    BY <1>10 DEF StoreTyped, Reset, Delete, Put, MarkRelease, Leave
  <2>5. MarksTyped'
    <3>1. shared[p] > 0 /\ MarkRelease(p)
      BY <1>10 DEF Reset, ControlOK, ControlOf
    <3> QED
      BY <3>1, MarkReleaseTyped
  <2>6. CallsTyped'
    BY <1>10 DEF CallsTyped, Reset, Delete, Put, MarkRelease, Leave
  <2>7. MemoryTyped'
    BY <1>10 DEF MemoryTyped, Reset, Delete, Put, MarkRelease, Leave
  <2>1. /\ TypeOK' /\ TimeOK'
    BY <2>4, <2>5, <2>6, <2>7, TypedParts
  <2>3. ControlOf(p)'
    BY <1>10 DEF ControlOK, ControlOf, Reset, Delete, Put, MarkRelease, Leave
  <2> QED
    BY <1>10, <2>1, <2>3, Together DEF ProviderStep
<1>11. ASSUME NEW p \in Procs, RestoreGet(p) PROVE TypeInv'
  <2>4. StoreTyped'
    BY <1>11 DEF StoreTyped, RestoreGet, Restored, Leave, MarkRelease
  <2>5. MarksTyped'
    BY <1>11, RestoredTyped DEF RestoreGet, MarksTyped
  <2>6. CallsTyped'
    <3>1. CASE old[p] = NoOld
      BY <1>11, <3>1, RestoredTyped DEF RestoreGet
    <3>2. CASE old[p] # NoOld
      <4>1. /\ seen' = [seen EXCEPT ![p] = value]
            /\ at' = [at EXCEPT ![p] = "getTTL"]
            /\ call' = call
        BY <1>11, <3>2 DEF RestoreGet
      <4> QED
        BY <4>1 DEF CallsTyped
    <3> QED
      BY <3>1, <3>2
  <2>7. MemoryTyped'
    BY <1>11 DEF MemoryTyped, RestoreGet, Restored, Leave, MarkRelease
  <2>1. /\ TypeOK' /\ TimeOK'
    BY <2>4, <2>5, <2>6, <2>7, TypedParts
  <2>3. ControlOf(p)'
    <3>1. CASE old[p] = NoOld
      BY <1>11, <3>1, RestoredTyped DEF RestoreGet
    <3>2. CASE old[p] # NoOld
      BY <1>11, <3>2 DEF RestoreGet, ControlOK, ControlOf
    <3> QED
      BY <3>1, <3>2
  <2> QED
    BY <1>11, <2>1, <2>3, Together DEF ProviderStep
<1>12. ASSUME NEW p \in Procs, RestoreGetTTL(p) PROVE TypeInv'
  <2>4. StoreTyped'
    BY <1>12 DEF StoreTyped, RestoreGetTTL, Restored, Leave, MarkRelease, Go
  <2>5. MarksTyped'
    BY <1>12, RestoredTyped DEF RestoreGetTTL, MarksTyped
  <2>6. CallsTyped'
    BY <1>12 DEF CallsTyped, RestoreGetTTL, Restored, Leave, MarkRelease, Go
  <2>7. MemoryTyped'
    BY <1>12 DEF MemoryTyped, RestoreGetTTL, Restored, Leave, MarkRelease, Go
  <2>1. /\ TypeOK' /\ TimeOK'
    BY <2>4, <2>5, <2>6, <2>7, TypedParts
  <2>3. ControlOf(p)'
    BY <1>12 DEF ControlOK, ControlOf, RestoreGetTTL, Restored, Leave, MarkRelease, Go
  <2> QED
    BY <1>12, <2>1, <2>3, Together DEF ProviderStep
<1>13. ASSUME NEW p \in Procs, RestoreSetTTL(p) PROVE TypeInv'
  <2>4. StoreTyped'
    BY <1>13, ExpireTyped
    DEF StoreTyped, RestoreSetTTL, Restored, Leave, MarkRelease, Put, Elapsed
  <2>5. MarksTyped'
    BY <1>13, RestoredTyped DEF RestoreSetTTL
  <2>6. CallsTyped'
    BY <1>13 DEF CallsTyped, RestoreSetTTL, Restored, Leave, MarkRelease, Put, Elapsed
  <2>7. MemoryTyped'
    BY <1>13 DEF MemoryTyped, RestoreSetTTL, Restored, Leave, MarkRelease, Put, Elapsed
  <2>1. /\ TypeOK' /\ TimeOK'
    BY <2>4, <2>5, <2>6, <2>7, TypedParts
  <2>3. ControlOf(p)'
    BY <1>13
    DEF ControlOK, ControlOf, RestoreSetTTL, Restored, Leave, MarkRelease, Put, Elapsed
  <2> QED
    BY <1>13, <2>1, <2>3, Together DEF ProviderStep
<1>14. ASSUME NEW p \in Procs, ReleaseExclusive(p) PROVE TypeInv'
  <2>4. StoreTyped'
    BY <1>14 DEF StoreTyped, ReleaseExclusive, Start, Delete, Put
  <2>5. MarksTyped'
    BY <1>14 DEF MarksTyped, ReleaseExclusive, Start, Delete, Put
  <2>6. CallsTyped'
    BY <1>14 DEF CallsTyped, ReleaseExclusive, Start, Delete, Put
  <2>7. MemoryTyped'
    BY <1>14 DEF MemoryTyped, ReleaseExclusive, Start, Delete, Put
  <2>1. /\ TypeOK' /\ TimeOK'
    BY <2>4, <2>5, <2>6, <2>7, TypedParts
  <2>3. ControlOf(p)'
    BY <1>14 DEF ControlOK, ControlOf, ReleaseExclusive, Start, Delete, Put
  <2> QED
    BY <1>14, <2>1, <2>3, Together DEF ProviderStep
<1>15. ASSUME NEW p \in Procs, NextRequest(p) PROVE TypeInv'
  BY <1>15 DEF ControlOK, ControlOf, NextRequest, ForgetOld, NoOld
<1>16. ASSUME NEW p \in Procs, Crash(p) PROVE TypeInv'
  <2>4. StoreTyped'
    BY <1>16 DEF StoreTyped, Crash, ForgetOld, NoOld, Leave
  <2>5. MarksTyped'
    BY <1>16 DEF MarksTyped, Crash, ForgetOld, NoOld, Leave
  <2>6. CallsTyped'
    BY <1>16 DEF CallsTyped, Crash, ForgetOld, NoOld, Leave
  <2>7. MemoryTyped'
    BY <1>16 DEF MemoryTyped, Crash, ForgetOld, NoOld, Leave
  <2>1. /\ TypeOK' /\ TimeOK'
    BY <2>4, <2>5, <2>6, <2>7, TypedParts
  <2>3. ControlOf(p)'
    BY <1>16 DEF ControlOK, ControlOf, Crash, ForgetOld, NoOld, Leave
  <2> QED
    BY <1>16, <2>1, <2>3, Together DEF ProviderStep
<1>17. CASE Tick
  BY <1>17 DEF ControlOK, ControlOf, Tick, Delete, Put
<1>18. CASE UNCHANGED vars
  BY <1>18 DEF ControlOK, ControlOf, vars
<1> QED
  BY <1>1, <1>2, <1>3, <1>4, <1>5, <1>6, <1>7, <1>8, <1>9, <1>10, <1>11, <1>12,
     <1>13, <1>14, <1>15, <1>16, <1>17, <1>18
  DEF Next, ProviderStep

LEMMA InitTyped == Init => TypeInv
BY BoundsAssumption, TtlAssumption
   DEF Init, TypeInv, TypeOK, ControlOK, ControlOf, TimeOK, Never, NoOld, Calls, Commands

\* The key, its expiry and every process's marks stay well typed in every
\* reachable state, for every Env: a process never counts below zero, and the
\* key never outlives a ttl.
THEOREM TypeCorrect == Spec => []TypeOK
<1>1. Init => TypeInv
  BY InitTyped
<1>2. TypeInv => TypeOK
  BY DEF TypeInv
<1> QED
  BY <1>1, <1>2, TypingStep, PTL DEF Spec

-----------------------------------------------------------------------------
(***************************************************************************)
(* Counting the units by which the processes may have raised the count.    *)
(***************************************************************************)
LEMMA RaisedTyped ==
  ASSUME TypeInv, NEW p \in Procs
  PROVE  Raised(p) \in 0..(MaxShared + 1)
BY BoundsAssumption DEF TypeInv, TypeOK, ControlOK, ControlOf, Raised

\* The same in the state after a step.
LEMMA RaisedTypedNext ==
  ASSUME TypeInv', NEW p \in Procs
  PROVE  Raised(p)' \in 0..(MaxShared + 1)
BY BoundsAssumption DEF TypeInv, TypeOK, ControlOK, ControlOf, Raised

LEMMA UnitsFinite ==
  /\ IsFiniteSet(RaisedUnits) /\ Cardinality(RaisedUnits) \in Nat
  /\ IsFiniteSet(RaisedUnits') /\ Cardinality(RaisedUnits') \in Nat
<1>1. IsFiniteSet(Procs \X (1..MaxShared + 1))
  <2>1. IsFiniteSet(1..MaxShared + 1)
    BY BoundsAssumption, FS_Interval
  <2> QED
    BY <2>1, ProcsAssumption, FS_Product
<1>2. IsFiniteSet(RaisedUnits) /\ IsFiniteSet(RaisedUnits')
  BY <1>1, FS_Subset DEF RaisedUnits
<1> QED
  BY <1>2, FS_CardinalityType

(***************************************************************************)
(* A step that moves one process's units by at most one moves their number *)
(* by as much.                                                             *)
(***************************************************************************)
LEMMA UnitsMoved ==
  ASSUME TypeInv, TypeInv', NEW p \in Procs, NEW d \in {-1, 0, 1},
         Raised(p)' = Raised(p) + d,
         \A q \in Procs \ {p} : Raised(q)' = Raised(q)
  PROVE  Cardinality(RaisedUnits') = Cardinality(RaisedUnits) + d
<1> DEFINE R == Raised(p)
           Box == Procs \X (1..MaxShared + 1)
<1>1. R \in 0..(MaxShared + 1) /\ R + d \in 0..(MaxShared + 1)
  BY RaisedTyped, RaisedTypedNext
<1>2. \A v \in Box : v[1] \in Procs /\ v[2] \in 1..(MaxShared + 1) /\ v = <<v[1], v[2]>>
  OBVIOUS
<1>3. \A v \in Box : /\ v[1] # p => (v \in RaisedUnits' <=> v \in RaisedUnits)
                     /\ v[1] = p => /\ v \in RaisedUnits <=> v[2] <= R
                                    /\ v \in RaisedUnits' <=> v[2] <= R + d
  BY <1>2 DEF RaisedUnits
<1>4. RaisedUnits \subseteq Box /\ RaisedUnits' \subseteq Box
  BY DEF RaisedUnits
<1>5. CASE d = 0
  <2>1. RaisedUnits' = RaisedUnits
    <3>1. R + d = R
      BY <1>1, <1>5
    <3> HIDE DEF R, Box
    <3> QED
      BY <1>3, <1>4, <3>1
  <2> QED
    BY <1>5, <2>1, UnitsFinite
<1>6. CASE d = 1
  <2> DEFINE u == <<p, R + 1>>
  <2>1. u \in Box /\ u[1] = p /\ u[2] = R + 1
    BY <1>1, <1>6, BoundsAssumption
  <2>2. \A v \in Box : v[1] = p => (v[2] <= R + 1 <=> v[2] <= R \/ v = u)
    BY <1>1, <1>2, <2>1, BoundsAssumption
  <2>3. u \notin RaisedUnits
    BY <1>1, <1>3, <2>1
  <2> HIDE DEF u, R, Box
  <2>4. \A v \in Box : v \in RaisedUnits' <=> v \in RaisedUnits \/ v = u
    BY <1>3, <1>6, <2>1, <2>2
  <2>5. RaisedUnits' = RaisedUnits \cup {u}
    BY <1>4, <2>1, <2>4
  <2>6. Cardinality(RaisedUnits \cup {u}) = Cardinality(RaisedUnits) + 1
    BY <2>3, UnitsFinite, FS_AddElement
  <2> QED
    BY <1>6, <2>5, <2>6
<1>7. CASE d = -1
  <2> DEFINE u == <<p, R>>
  <2>1. u \in Box /\ u[1] = p /\ u[2] = R
    BY <1>1, <1>7, BoundsAssumption
  <2>2. \A v \in Box : v[1] = p => (v[2] <= R - 1 <=> v[2] <= R /\ v # u)
    BY <1>1, <1>2, <2>1, BoundsAssumption
  <2>3. u \in RaisedUnits
    BY <1>1, <1>3, <2>1
  <2>0. R + d = R - 1
    BY <1>1, <1>7
  <2> HIDE DEF u, R, Box
  <2>4. \A v \in Box : v \in RaisedUnits' <=> v \in RaisedUnits /\ v # u
    BY <1>3, <2>0, <2>1, <2>2
  <2>5. RaisedUnits' = RaisedUnits \ {u}
    BY <1>4, <2>1, <2>4
  <2>6. Cardinality(RaisedUnits \ {u}) = Cardinality(RaisedUnits) - 1
    BY <2>3, UnitsFinite, FS_RemoveElement
  <2> QED
    BY <1>7, <2>5, <2>6, UnitsFinite
<1> QED
  BY <1>5, <1>6, <1>7

\* A step of p does not touch the units of the others.
LEMMA OthersRaise ==
  ASSUME TypeInv, NEW p \in Procs, ProviderStep(p) \/ Crash(p), NEW q \in Procs \ {p}
  PROVE  Raised(q)' = Raised(q)
BY OthersSame DEF Same, Raised

-----------------------------------------------------------------------------
(***************************************************************************)
(* A process's own units are among all of them; two processes with a unit  *)
(* make two.                                                               *)
(***************************************************************************)
LEMMA OwnColumn ==
  ASSUME NEW S, IsFiniteSet(S), NEW p, NEW n \in Nat, \A i \in 1..n : <<p, i>> \in S
  PROVE  n <= Cardinality(S)
<1> DEFINE f == [i \in 1..n |-> <<p, i>>]
<1>1. f \in Injection(1..n, S)
  BY DEF Injection, IsInjective
<1>2. Cardinality(1..n) = n
  BY FS_Interval
<1> HIDE DEF f
<1>3. Cardinality(1..n) <= Cardinality(S)
  BY <1>1, FS_Injection
<1> QED
  BY <1>2, <1>3

LEMMA OwnUnits ==
  ASSUME TypeInv, NEW p \in Procs
  PROVE  Raised(p) <= Cardinality(RaisedUnits)
<1>1. Raised(p) \in 0..(MaxShared + 1)
  BY RaisedTyped
<1> DEFINE n == Raised(p)
           S == RaisedUnits
<1>2. n \in Nat /\ IsFiniteSet(S)
  BY <1>1, UnitsFinite, BoundsAssumption
<1>3. \A i \in 1..n : <<p, i>> \in S
  BY <1>1, BoundsAssumption DEF RaisedUnits
<1> HIDE DEF n, S
<1>4. n <= Cardinality(S)
  BY <1>2, <1>3, OwnColumn
<1> QED
  BY <1>4 DEF n, S

LEMMA OwnUnitsNext ==
  ASSUME TypeInv', NEW p \in Procs
  PROVE  Raised(p)' <= Cardinality(RaisedUnits')
<1>1. Raised(p)' \in 0..(MaxShared + 1)
  BY RaisedTypedNext
<1> DEFINE n == Raised(p)'
           S == RaisedUnits'
<1>2. n \in Nat /\ IsFiniteSet(S)
  BY <1>1, UnitsFinite, BoundsAssumption
<1>3. \A i \in 1..n : <<p, i>> \in S
  BY <1>1, BoundsAssumption DEF RaisedUnits
<1> HIDE DEF n, S
<1>4. n <= Cardinality(S)
  BY <1>2, <1>3, OwnColumn
<1> QED
  BY <1>4 DEF n, S

LEMMA TwoOwners ==
  ASSUME TypeInv, NEW p \in Procs, NEW q \in Procs \ {p}, Raised(p) > 0, Raised(q) > 0
  PROVE  Cardinality(RaisedUnits) >= 2
<1> DEFINE u == <<p, 1>>
           v == <<q, 1>>
<1>1. u \in RaisedUnits /\ v \in RaisedUnits /\ u # v
  BY RaisedTyped, BoundsAssumption DEF RaisedUnits
<1> HIDE DEF u, v
<1>2. /\ IsFiniteSet(RaisedUnits \ {u})
      /\ Cardinality(RaisedUnits \ {u}) = Cardinality(RaisedUnits) - 1
      /\ v \in RaisedUnits \ {u}
  BY <1>1, UnitsFinite, FS_RemoveElement
<1>3. Cardinality(RaisedUnits \ {u}) \in Nat /\ Cardinality(RaisedUnits \ {u}) # 0
  BY <1>2, FS_CardinalityType, FS_EmptySet
<1> QED
  BY <1>2, <1>3, UnitsFinite

(***************************************************************************)
(* No lock is leaked, by induction: the count is never above the number of *)
(* units the processes stand for, and an exclusive key has an owner whom   *)
(* no step of his will make forget it without deleting the key.            *)
(***************************************************************************)
Owns(p) == HeldExclusive(p) \/ In(p, "acquireExclusive", "setTTL")

StrayInv ==
  /\ TypeInv
  /\ IsCount => value.n <= Cardinality(RaisedUnits)
  /\ value = Exclusive => \E p \in Procs : Owns(p)

(***************************************************************************)
(* An exclusive key keeps its owner: a step makes the key exclusive for p, *)
(* or leaves it as it is and p its owner if he is.                         *)
(***************************************************************************)
LEMMA OwnerKept ==
  ASSUME TypeInv, NEW p \in Procs, ProviderStep(p), value' = Exclusive
  PROVE  Owns(p)' \/ (value = Exclusive /\ (Owns(p) => Owns(p)'))
<1> USE Values DEF TypeInv, TypeOK, ControlOK, ControlOf, Owns, HeldExclusive, Idle, In,
   IsCount,
        store, marks, control, client
<1>1. CASE BeginAcquireShared(p)
  BY <1>1 DEF BeginAcquireShared, Start, Enter
<1>2. CASE Inc(p)
  BY <1>2 DEF Inc, Leave, Go
<1>3. CASE BeginAcquireExclusive(p)
  BY <1>3 DEF BeginAcquireExclusive, Start, Enter, Put, Absent
<1>4. CASE CasExclusive(p)
  BY <1>4 DEF CasExclusive, Cas, Put, ForgetOld, Go, Leave
<1>5. CASE BeginChangeToShared(p)
  BY <1>5 DEF BeginChangeToShared, Start, Cas, Put, Enter
<1>6. CASE BeginChangeToExclusive(p)
  BY <1>6 DEF BeginChangeToExclusive, Start, Cas, Put, Enter
<1>7. CASE SetTTL(p)
  <2>1. value = Exclusive
    BY <1>7 DEF SetTTL, Expire, Delete, Put
  <2>2. CASE call[p] = "acquireShared"
    BY <1>7, <2>1, <2>2 DEF SetTTL, Leave
  <2>3. CASE call[p] = "acquireExclusive"
    BY <1>7, <2>1, <2>3 DEF SetTTL, Leave
  <2>4. CASE call[p] = "toShared"
    BY <1>7, <2>1, <2>4 DEF SetTTL, Leave
  <2>5. CASE call[p] = "toExclusive"
    BY <1>7, <2>1, <2>5 DEF SetTTL, Leave
  <2>6. call[p] \in {"acquireShared", "acquireExclusive", "toShared", "toExclusive"}
    BY <1>7, AtSetTTL DEF SetTTL
  <2> QED
    BY ONLY <2>2, <2>3, <2>4, <2>5, <2>6
<1>8. CASE BeginReleaseShared(p)
  BY <1>8 DEF BeginReleaseShared, Start, Delete, Put, MarkRelease, Enter
<1>9. CASE Dec(p)
  BY <1>9 DEF Dec, Go, Leave, MarkRelease
<1>10. CASE Reset(p)
  BY <1>10 DEF Reset, Delete, Put, MarkRelease, Leave
<1>11. CASE RestoreGet(p)
  BY <1>11 DEF RestoreGet, Restored, Leave, MarkRelease
<1>12. CASE RestoreGetTTL(p)
  BY <1>12 DEF RestoreGetTTL, Restored, Leave, MarkRelease, Go
<1>13. CASE RestoreSetTTL(p)
  BY <1>13 DEF RestoreSetTTL, Restored, Leave, MarkRelease, Expire, Delete, Put
<1>14. CASE ReleaseExclusive(p)
  BY <1>14 DEF ReleaseExclusive, Start, Delete, Put
<1>15. CASE NextRequest(p)
  BY <1>15 DEF NextRequest
<1> QED
  BY <1>1, <1>2, <1>3, <1>4, <1>5, <1>6, <1>7, <1>8, <1>9, <1>10, <1>11, <1>12, <1>13,
     <1>14, <1>15
  DEF ProviderStep

(***************************************************************************)
(* A step that leaves a count moves it with p's units, or leaves one that  *)
(* p's units alone account for.                                            *)
(***************************************************************************)
LEMMA CountMoves ==
  ASSUME TypeInv, NEW p \in Procs, ProviderStep(p), IsCount'
  PROVE  \E d \in {-1, 0, 1} :
           /\ Raised(p)' = Raised(p) + d
           /\ \/ IsCount /\ value'.n <= value.n + d
              \/ value'.n <= Raised(p)'
<1> USE Values DEF TypeInv, TypeOK, ControlOK, ControlOf, Raised, Idle, In, IsCount,
        store, marks, control, client
<1>1. CASE BeginAcquireShared(p)
  BY <1>1 DEF BeginAcquireShared, Start, Enter
<1>2. CASE Inc(p)
  BY <1>2 DEF Inc, Leave, Go
<1>3. CASE BeginAcquireExclusive(p)
  BY <1>3 DEF BeginAcquireExclusive, Start, Enter, Put, Absent
<1>4. CASE CasExclusive(p)
  BY <1>4 DEF CasExclusive, Cas, Put, ForgetOld, Go, Leave
<1>5. CASE BeginChangeToShared(p)
  <2>0. call[p] = "none" /\ at[p] = "idle" /\ shared' = shared
    BY <1>5 DEF BeginChangeToShared, Start
  <2>1. CASE Cas(Exclusive, Count(1)) /\ Enter(p, "toShared", "setTTL")
    <3>1. /\ Raised(p) = shared[p] /\ Raised(p)' = shared[p] + 1
          /\ value'.n = 1
      BY <2>0, <2>1 DEF Cas, Put, Enter
    <3> QED
      BY <3>1
  <2>2. CASE value # Exclusive /\ UNCHANGED <<store, control>>
    BY <2>0, <2>2
  <2> QED
    BY <1>5, <2>1, <2>2 DEF BeginChangeToShared
<1>6. CASE BeginChangeToExclusive(p)
  BY <1>6 DEF BeginChangeToExclusive, Start, Cas, Put, Enter
<1>7. CASE SetTTL(p)
  <2>1. IsCount /\ value'.n = value.n
    BY <1>7 DEF SetTTL, Expire, Delete, Put
  <2>2. CASE call[p] = "acquireShared"
    BY <1>7, <2>1, <2>2 DEF SetTTL, Leave
  <2>3. CASE call[p] = "acquireExclusive"
    BY <1>7, <2>1, <2>3 DEF SetTTL, Leave
  <2>4. CASE call[p] = "toShared"
    BY <1>7, <2>1, <2>4 DEF SetTTL, Leave
  <2>5. CASE call[p] = "toExclusive"
    BY <1>7, <2>1, <2>5 DEF SetTTL, Leave
  <2>6. call[p] \in {"acquireShared", "acquireExclusive", "toShared", "toExclusive"}
    BY <1>7, AtSetTTL DEF SetTTL
  <2> QED
    BY ONLY <2>2, <2>3, <2>4, <2>5, <2>6
<1>8. CASE BeginReleaseShared(p)
  BY <1>8 DEF BeginReleaseShared, Start, Delete, Put, MarkRelease, Enter
<1>9. CASE Dec(p)
  BY <1>9 DEF Dec, Go, Leave, MarkRelease
<1>10. CASE Reset(p)
  BY <1>10 DEF Reset, Delete, Put, MarkRelease, Leave
<1>11. CASE RestoreGet(p)
  BY <1>11 DEF RestoreGet, Restored, Leave, MarkRelease
<1>12. CASE RestoreGetTTL(p)
  BY <1>12 DEF RestoreGetTTL, Restored, Leave, MarkRelease, Go
<1>13. CASE RestoreSetTTL(p)
  BY <1>13 DEF RestoreSetTTL, Restored, Leave, MarkRelease, Expire, Delete, Put
<1>14. CASE ReleaseExclusive(p)
  BY <1>14 DEF ReleaseExclusive, Start, Delete, Put
<1>15. CASE NextRequest(p)
  BY <1>15 DEF NextRequest
<1> QED
  BY <1>1, <1>2, <1>3, <1>4, <1>5, <1>6, <1>7, <1>8, <1>9, <1>10, <1>11, <1>12, <1>13,
     <1>14, <1>15
  DEF ProviderStep

LEMMA StrayStep ==
  ASSUME "crash" \notin Env, StrayInv, [Next]_vars
  PROVE  StrayInv'
<1>0. TypeInv /\ TypeInv'
  BY TypingStep DEF StrayInv
<1>1. ASSUME NEW p \in Procs, ProviderStep(p)
      PROVE  /\ IsCount' => value'.n <= Cardinality(RaisedUnits')
             /\ value' = Exclusive => \E q \in Procs : Owns(q)'
  <2>1. ASSUME IsCount' PROVE value'.n <= Cardinality(RaisedUnits')
    <3>1. PICK d \in {-1, 0, 1} :
            /\ Raised(p)' = Raised(p) + d
            /\ \/ IsCount /\ value'.n <= value.n + d
               \/ value'.n <= Raised(p)'
      BY <1>0, <1>1, <2>1, CountMoves
    <3>2. Cardinality(RaisedUnits') = Cardinality(RaisedUnits) + d
      BY <1>0, <1>1, <3>1, UnitsMoved, OthersRaise
    <3>3. value'.n \in Int /\ (IsCount => value.n \in Int)
      BY <1>0, <2>1, Values DEF TypeInv, TypeOK, IsCount
    <3>4. CASE IsCount /\ value'.n <= value.n + d
      BY <3>2, <3>3, <3>4, UnitsFinite DEF StrayInv
    <3>5. CASE value'.n <= Raised(p)'
      BY <1>0, <3>3, <3>5, OwnUnitsNext, UnitsFinite, RaisedTypedNext
    <3> QED
      BY <3>1, <3>4, <3>5
  <2>2. ASSUME value' = Exclusive PROVE \E q \in Procs : Owns(q)'
    <3>1. CASE Owns(p)'
      BY <3>1
    <3>2. CASE ~Owns(p)'
      <4>1. value = Exclusive /\ ~Owns(p)
        BY <1>0, <1>1, <2>2, <3>2, OwnerKept
      <4>2. PICK q \in Procs : Owns(q)
        BY <4>1 DEF StrayInv
      <4>3. q \in Procs \ {p} /\ Same(q)
        BY <1>0, <1>1, <4>1, <4>2, OthersSame
      <4> QED
        BY <4>2, <4>3 DEF Owns, HeldExclusive, In, Same
    <3> QED
      BY <3>1, <3>2
  <2> QED
    BY <2>1, <2>2
<1>2. ASSUME Tick \/ UNCHANGED vars
      PROVE  /\ IsCount' => value'.n <= Cardinality(RaisedUnits')
             /\ value' = Exclusive => \E q \in Procs : Owns(q)'
  <2>1. UNCHANGED <<marks, control>> /\ (value' = value \/ value' = NoKey)
    BY <1>2 DEF Tick, Delete, Put, vars, store
  <2>2. \A q \in Procs : (Owns(q) => Owns(q)') /\ Raised(q)' = Raised(q)
    BY <2>1 DEF Owns, HeldExclusive, In, Raised, marks, control
  <2>3. RaisedUnits' = RaisedUnits
    <3>1. \A u \in Procs \X (1..MaxShared + 1) : u[1] \in Procs
      OBVIOUS
    <3> QED
      BY <2>2, <3>1 DEF RaisedUnits
  <2> QED
    BY <2>1, <2>2, <2>3, Values DEF StrayInv, IsCount
<1>3. ASSUME NEW p \in Procs, Crash(p) PROVE FALSE
  BY <1>3 DEF Crash
<1> QED
  BY <1>0, <1>1, <1>2, <1>3 DEF Next, StrayInv

(***************************************************************************)
(* No lock is leaked: as long as no process is killed, the key never shows *)
(* a shared lock that is not somebody's nor an exclusive one without an    *)
(* owner, however the processes' commands interleave.                      *)
(***************************************************************************)
THEOREM NothingLeaks ==
  ASSUME "crash" \notin Env
  PROVE  Spec => []NoStrayLock
<1>1. Init => StrayInv
  <2> SUFFICES ASSUME Init PROVE StrayInv
    OBVIOUS
  <2>1. TypeInv
    BY InitTyped
  <2>2. value # Exclusive /\ ~IsCount
    BY Values DEF Init, IsCount
  <2> QED
    BY <2>1, <2>2 DEF StrayInv
<1>2. StrayInv /\ [Next]_vars => StrayInv'
  BY StrayStep
<1>3. StrayInv => NoStrayLock
  <2> SUFFICES ASSUME StrayInv PROVE NoStrayLock
    OBVIOUS
  <2>1. \A p \in Procs : Owns(p) =>
          exclusive[p] \/ (at[p] = "setTTL" /\ call[p] # "acquireShared")
    BY DEF Owns, HeldExclusive, In
  <2> QED
    BY <2>1 DEF StrayInv, NoStrayLock
<1> QED
  BY <1>1, <1>2, <1>3, PTL DEF Spec

-----------------------------------------------------------------------------
(***************************************************************************)
(* The key covers the holders, while calls do not overlap and shared locks *)
(* are taken more than a second apart.  A is when p last began to take the *)
(* lock shared, Snap the expiry it found then and may restore.             *)
(***************************************************************************)
A(p) == old[p].time
Snap(p) == old[p].time + old[p].ttl

OneCall == \A p, q \in Procs : ~Idle(p) /\ ~Idle(q) => p = q

\* The count is at least the number of units, so there is a count while there
\* are units.
Counted ==
  /\ IsCount => value.n >= 0
  /\ Cardinality(RaisedUnits) > 0 => IsCount /\ value.n >= Cardinality(RaisedUnits)

\* The owner of an exclusive key, at most one.
Owned ==
  \A p, q \in Procs :
    /\ Owns(p) => value = Exclusive
    /\ Owns(p) /\ Owns(q) => p = q

\* Nobody holds the lock as long as a ttl, and the key outlives every holder.
InTime ==
  \A p \in Procs : Holds(p) =>
    /\ now < since[p] + Ttl
    /\ at[p] # "setTTL" => expiry >= since[p] + Ttl

\* A reader's own snapshot is good enough for every holder that was there when
\* it was taken; the others came more than a second later.
Shares(p) == shared[p] > 0 \/ call[p] = "acquireShared"

SnapCovers(p, q) ==
  old[p] # NoOld /\ Holds(q) =>
    /\ p # q /\ Shares(p) => since[q] > A(p) + 1 \/ Snap(p) >= since[q] + Ttl
    /\ p = q /\ (shared[p] >= 2 \/ call[p] = "acquireShared") => Snap(p) >= since[p] + Ttl

Snaps == \A p, q \in Procs : SnapCovers(p, q)

\* What a process in a call knows about the key, which nobody else writes then.
InCall(p) ==
  /\ ~givingUp[p]
  /\ at[p] # "reset"
  /\ call[p] = "toExclusive" => at[p] = "setTTL"
  /\ call[p] = "toShared" => value = Count(1)
  /\ at[p] \in {"get", "getTTL", "compareSetTTL"} => IsCount
  /\ at[p] \in {"getTTL", "compareSetTTL"} => old[p] # NoOld /\ seen[p] = value
  /\ at[p] = "compareSetTTL" => NobodyAcquired(p)
  /\ call[p] = "acquireShared" =>
       /\ old[p] # NoOld /\ A(p) = now
       /\ \A q \in Procs \ {p} : old[q] # NoOld => now > A(q) + 1

CoverInv ==
  /\ TypeInv
  /\ OneCall
  /\ Counted
  /\ Owned
  /\ InTime
  /\ Snaps
  /\ \A p \in Procs : InCall(p)

\* The calls, without the end of a request.
CallStep(p) == ProviderStep(p) /\ ~NextRequest(p)

(***************************************************************************)
(* Nobody else is in a call when p makes a step of one.                    *)
(***************************************************************************)
LEMMA OthersIdle ==
  ASSUME Env \subseteq {"crash"}, CoverInv, NEW p \in Procs, CallStep(p),
         NEW q \in Procs \ {p}
  PROVE  Idle(q) /\ at[q] = "idle" /\ Raised(q) = shared[q] /\ (Owns(q) <=> exclusive[q])
<1> USE DEF In, Idle, Start
<1>1. Start(p) => Idle(q)
  OBVIOUS
<1>2. ~Idle(p) => Idle(q)
  BY DEF CoverInv, OneCall
<1>3. Start(p) \/ ~Idle(p)
  <2>1. at[p] # "idle" => ~Idle(p)
    BY DEF CoverInv, TypeInv, ControlOK, ControlOf
  <2> QED
    BY <2>1 DEF CallStep, ProviderStep, BeginAcquireShared, Inc, BeginAcquireExclusive,
       CasExclusive, BeginChangeToShared, BeginChangeToExclusive, SetTTL,
       BeginReleaseShared, Dec, Reset, RestoreGet, RestoreGetTTL, RestoreSetTTL,
       ReleaseExclusive
<1>4. Idle(q)
  BY <1>1, <1>2, <1>3
<1>5. at[q] = "idle"
  BY <1>4 DEF CoverInv, TypeInv, ControlOK, ControlOf
<1> QED
  BY <1>4, <1>5 DEF Raised, Owns, HeldExclusive

(***************************************************************************)
(* What the key tells about the processes that are not in a call.          *)
(***************************************************************************)
LEMMA KeyTells ==
  ASSUME CoverInv, NEW q \in Procs, Idle(q)
  PROVE  /\ shared[q] > 0 => IsCount /\ value.n >= 1 /\ value # NoKey /\ value # Exclusive
         /\ exclusive[q] => Owns(q) /\ value = Exclusive
         /\ Holds(q) => value # NoKey /\ value # Count(0)
         /\ at[q] = "idle"
<1> USE Values
<1>1. at[q] = "idle" /\ Raised(q) = shared[q]
  BY DEF CoverInv, TypeInv, ControlOK, ControlOf, Idle, Raised
<1>2. Cardinality(RaisedUnits) \in Nat /\ Raised(q) <= Cardinality(RaisedUnits)
      /\ Raised(q) \in Int
  BY OwnUnits, UnitsFinite, RaisedTyped, BoundsAssumption DEF CoverInv
<1>3. shared[q] > 0 => IsCount /\ value.n >= 1 /\ value # NoKey /\ value # Exclusive
                       /\ value # Count(0)
  <2>1. value.n \in Int \/ ~IsCount
    BY DEF CoverInv, TypeInv, TypeOK, IsCount
  <2> QED
    BY <1>1, <1>2, <2>1 DEF CoverInv, Counted, IsCount
<1>4. exclusive[q] => Owns(q) /\ value = Exclusive
  BY DEF Owns, HeldExclusive, Idle, CoverInv, Owned
<1>5. exclusive[q] => value # NoKey /\ value # Count(0)
  BY <1>4
<1> QED
  BY <1>1, <1>3, <1>4, <1>5 DEF Holds

\* Next to the owner of an exclusive key, or of the only unit of a key that
\* counts one, there is no other holder.
LEMMA AloneExclusive ==
  ASSUME CoverInv, NEW p \in Procs, Owns(p), NEW q \in Procs \ {p}, Idle(q)
  PROVE  ~Holds(q)
BY KeyTells DEF CoverInv, Owned, Holds

LEMMA AloneShared ==
  ASSUME CoverInv, NEW p \in Procs, Raised(p) > 0, value = Count(1)
  PROVE  /\ Cardinality(RaisedUnits) = 1 /\ Raised(p) = 1
         /\ \A q \in Procs \ {p} : Idle(q) => ~Holds(q)
<1>1. IsCount /\ value.n = 1 /\ value # Exclusive
  BY Values DEF IsCount
<1>2. Cardinality(RaisedUnits) \in Nat /\ Raised(p) <= Cardinality(RaisedUnits)
      /\ Raised(p) \in Int
  BY OwnUnits, UnitsFinite, RaisedTyped, BoundsAssumption DEF CoverInv
<1>3. Cardinality(RaisedUnits) = 1 /\ Raised(p) = 1
  BY <1>1, <1>2 DEF CoverInv, Counted
<1>4. ASSUME NEW q \in Procs \ {p}, Idle(q) PROVE ~Holds(q)
  <2>1. Raised(q) = shared[q] /\ shared[q] \in Nat
    BY <1>4, BoundsAssumption, KeyTells
       DEF CoverInv, TypeInv, TypeOK, Idle, Raised
  <2>2. ~(shared[q] > 0)
    BY <1>3, <2>1, TwoOwners DEF CoverInv
  <2> QED
    BY <1>1, <1>4, <2>2, KeyTells DEF Holds
<1> QED
  BY <1>3, <1>4

\* setTTL writes nothing but the ttl.
LEMMA SetTTLKeeps ==
  ASSUME TypeInv, NEW p \in Procs, SetTTL(p)
  PROVE  value' = value /\ (value # NoKey => expiry' = now + Ttl)
BY TtlAssumption DEF TypeInv, TypeOK, SetTTL, Expire, Put, Absent, store

(***************************************************************************)
(* restoreTTL sets the ttl of the key only when nobody has come since p    *)
(* took its lock, and then to an expiry that covers whoever was there.     *)
(***************************************************************************)
LEMMA RestoreKeeps ==
  ASSUME Env \subseteq {"crash"}, CoverInv, NEW p \in Procs, RestoreSetTTL(p),
         NEW q \in Procs, Holds(q), q = p => shared[p] >= 2
  PROVE  value' = value /\ expiry' >= since[q] + Ttl
<1> USE DEF TypeInv, TypeOK
<1>0. TypeInv /\ InCall(p) /\ CallStep(p)
  BY DEF CoverInv, CallStep, ProviderStep, RestoreSetTTL, NextRequest, Idle, TypeInv,
         ControlOK, ControlOf
<1>1. /\ IsCount /\ seen[p] = value /\ old[p] # NoOld /\ NobodyAcquired(p)
      /\ shared[p] > 0 /\ at[p] = "compareSetTTL"
  BY <1>0 DEF RestoreSetTTL, InCall, ControlOK, ControlOf, Calls
<1>2. value # NoKey
  BY <1>1, Values DEF IsCount
<1>3. at[q] # "setTTL"
  BY <1>0, <1>1, OthersIdle
<1>4. now < since[q] + Ttl /\ expiry >= since[q] + Ttl
  BY <1>3 DEF CoverInv, InTime
<1>5. SnapCovers(p, q)
  BY DEF CoverInv, Snaps
<1>6. /\ now \in Nat /\ since[q] \in Nat /\ A(p) \in Int /\ Snap(p) \in Int
      /\ expiry \in Int /\ expiry # Never
  BY <1>0, <1>4, BoundsAssumption, TtlAssumption DEF A, Snap, Never
<1>7. expiry <= Ttl + A(p) + 1
  BY <1>1, <1>2, <1>6, TtlAssumption DEF NobodyAcquired, TtlNow, Absent, Elapsed, A
<1>8. Snap(p) >= since[q] + Ttl
  BY <1>1, <1>4, <1>5, <1>6, <1>7, TtlAssumption DEF SnapCovers, Shares
<1>9. Expire(old[p].ttl - Elapsed(p)) /\ old[p].ttl - Elapsed(p) = Snap(p) - now
  BY <1>0, <1>1, <1>2, <1>6 DEF RestoreSetTTL, Elapsed, Snap, A
<1>10. Snap(p) - now > 0
  BY <1>4, <1>6, <1>8, TtlAssumption
<1>11. value' = value /\ expiry' = now + (Snap(p) - now)
  BY <1>2, <1>6, <1>9, <1>10 DEF Expire, Absent, Put
<1> QED
  BY <1>6, <1>8, <1>11

(***************************************************************************)
(* Only the owner takes an exclusive key away, and nobody becomes one      *)
(* while there is another.                                                 *)
(***************************************************************************)
LEMMA OwnedStep ==
  ASSUME Env \subseteq {"crash"}, CoverInv, NEW p \in Procs, CallStep(p)
  PROVE  Owned'
<1>0. /\ TypeInv /\ InCall(p) /\ ProviderStep(p) /\ ~NextRequest(p)
      /\ Owns(p) => value = Exclusive
  BY DEF CoverInv, CallStep, Owned
<1>1. /\ Owns(p)' => value' = Exclusive
      /\ Owns(p)' /\ ~Owns(p) => value # Exclusive
      /\ value = Exclusive /\ value' # Exclusive => Owns(p)
  <2> USE <1>0, Values, TtlAssumption
  <2> USE DEF TypeInv, TypeOK, ControlOK, ControlOf, Owns, HeldExclusive, Idle, In, IsCount,
              store, marks, control, client
  <2>1. CASE BeginAcquireShared(p)
    BY <2>1 DEF BeginAcquireShared, Start, Enter
  <2>2. CASE Inc(p)
    BY <2>2 DEF Inc, Leave, Go
  <2>3. CASE BeginAcquireExclusive(p)
    BY <2>3 DEF BeginAcquireExclusive, Start, Enter, Put, Absent
  <2>4. CASE CasExclusive(p)
    BY <2>4 DEF CasExclusive, Cas, Put, ForgetOld, Go, Leave
  <2>5. CASE BeginChangeToShared(p)
    BY <2>5 DEF BeginChangeToShared, Start, Cas, Put, Enter
  <2>6. CASE BeginChangeToExclusive(p)
    BY <2>6 DEF BeginChangeToExclusive, Start, Cas, Put, Enter
  <2>7. CASE SetTTL(p)
    <3>1. value' = value
      BY <2>7, SetTTLKeeps
    <3>2. Owns(p)' => Owns(p)
      <4>1. call[p] \in {"acquireShared", "acquireExclusive", "toShared", "toExclusive"}
        BY <2>7, AtSetTTL DEF SetTTL
      <4>2. CASE call[p] = "acquireShared" \/ call[p] = "toShared"
        BY <2>7, <4>2 DEF SetTTL, Leave
      <4>3. CASE call[p] = "acquireExclusive" \/ call[p] = "toExclusive"
        BY <2>7, <4>3 DEF SetTTL
      <4> QED
        BY ONLY <4>1, <4>2, <4>3
    <3> QED
      BY ONLY <1>0, <3>1, <3>2
  <2>8. CASE BeginReleaseShared(p)
    BY <2>8 DEF BeginReleaseShared, Start, Delete, Put, MarkRelease, Enter
  <2>9. CASE Dec(p)
    BY <2>9 DEF Dec, Go, Leave, MarkRelease
  <2>10. CASE Reset(p)
    BY <2>10 DEF Reset, InCall
  <2>11. CASE RestoreGet(p)
    BY <2>11 DEF RestoreGet, Restored, Leave, MarkRelease, InCall
  <2>12. CASE RestoreGetTTL(p)
    BY <2>12 DEF RestoreGetTTL, Restored, Leave, MarkRelease, Go, InCall
  <2>13. CASE RestoreSetTTL(p)
    BY <2>13 DEF RestoreSetTTL, Restored, Leave, MarkRelease, Expire, Delete, Put, InCall
  <2>14. CASE ReleaseExclusive(p)
    BY <2>14 DEF ReleaseExclusive, Start, Delete, Put
  <2> QED
    BY <2>1, <2>2, <2>3, <2>4, <2>5, <2>6, <2>7, <2>8, <2>9, <2>10, <2>11, <2>12, <2>13, <2>14
    DEF ProviderStep
<1>2. ASSUME NEW q \in Procs \ {p} PROVE Owns(q)' <=> Owns(q)
  BY <1>0, OthersSame DEF Owns, HeldExclusive, In, Same
<1>3. ASSUME NEW q \in Procs \ {p}, Owns(q) PROVE value' = Exclusive /\ ~Owns(p)'
  BY <1>1, <1>3 DEF CoverInv, Owned
<1>4. \A q \in Procs : Owns(q)' => value' = Exclusive
  BY <1>1, <1>2, <1>3
<1>5. \A q, r \in Procs : Owns(q)' /\ Owns(r)' => q = r
  <2> SUFFICES ASSUME NEW q \in Procs, NEW r \in Procs, Owns(q)', Owns(r)' PROVE q = r
    OBVIOUS
  <2>1. q = p => r = p
    BY <1>2, <1>3
  <2>2. r = p => q = p
    BY <1>2, <1>3
  <2>3. CASE q # p /\ r # p
    BY <1>2, <2>3 DEF CoverInv, Owned
  <2> QED
    BY <2>1, <2>2, <2>3
<1> QED
  BY <1>4, <1>5 DEF Owned

(***************************************************************************)
(* The count stays at least the number of units.                           *)
(***************************************************************************)
LEMMA CountedStep ==
  ASSUME Env \subseteq {"crash"}, CoverInv, NEW p \in Procs, CallStep(p)
  PROVE  Counted'
<1>0. TypeInv /\ TypeInv' /\ InCall(p) /\ ProviderStep(p) /\ ~NextRequest(p)
  BY TypingStep DEF CoverInv, CallStep, Next
<1> DEFINE U == Cardinality(RaisedUnits)
           V == Cardinality(RaisedUnits')
           n == value.n
           m == value'.n
<1>1. /\ U \in Nat /\ V \in Nat
      /\ U > 0 => IsCount /\ n >= U
      /\ IsCount => n \in Nat
      /\ Raised(p) <= U /\ Raised(p) \in Nat
  BY <1>0, UnitsFinite, OwnUnits, RaisedTyped, Values, BoundsAssumption
     DEF CoverInv, Counted, TypeInv, TypeOK, IsCount
<1>2. \A d \in {-1, 0, 1} : Raised(p)' = Raised(p) + d => V = U + d
  BY <1>0, UnitsMoved, OthersRaise
<1>3. ASSUME V > 0 => IsCount' /\ m >= V,
             IsCount' => m >= 0
      PROVE  Counted'
  BY <1>3 DEF Counted
<1> HIDE DEF U, V
<1>4. /\ value = Count(1) => n = 1 /\ IsCount
      /\ value = Count(0) => n = 0 /\ IsCount
      /\ value' = Count(1) => m = 1 /\ IsCount'
      /\ value' = Count(0) => m = 0 /\ IsCount'
      /\ value' \in {NoKey, Exclusive} => ~IsCount'
      /\ value \in {NoKey, Exclusive} => ~IsCount
      /\ value = NoKey => n = 0
  BY Values DEF IsCount
<1> USE <1>0, <1>1, <1>2, <1>4, Values, TtlAssumption
<1> USE DEF TypeInv, TypeOK, ControlOK, ControlOf, Raised, Idle, In, IsCount,
            store, marks, control, client
<1>5. CASE BeginAcquireShared(p)
  BY <1>3, <1>5 DEF BeginAcquireShared, Start, Enter
<1>6. CASE Inc(p)
  BY <1>3, <1>6 DEF Inc, Leave, Go
<1>7. CASE BeginAcquireExclusive(p)
  BY <1>3, <1>7 DEF BeginAcquireExclusive, Start, Enter, Put, Absent
<1>8. CASE CasExclusive(p)
  BY <1>3, <1>8 DEF CasExclusive, Cas, Put, ForgetOld, Go, Leave
<1>9. CASE BeginChangeToShared(p)
  BY <1>3, <1>9 DEF BeginChangeToShared, Start, Cas, Put, Enter
<1>10. CASE BeginChangeToExclusive(p)
  BY <1>3, <1>10 DEF BeginChangeToExclusive, Start, Cas, Put, Enter
<1>11. CASE SetTTL(p)
  <2>1. value' = value
    BY <1>11, SetTTLKeeps
  <2>2. Raised(p)' = Raised(p)
    <3>1. call[p] \in {"acquireShared", "acquireExclusive", "toShared", "toExclusive"}
      BY <1>11, AtSetTTL DEF SetTTL
    <3>2. CASE call[p] = "acquireShared" \/ call[p] = "toShared"
      BY <1>11, <3>2 DEF SetTTL, Leave
    <3>3. CASE call[p] = "acquireExclusive"
      BY <1>11, <3>3 DEF SetTTL, Leave
    <3>4. CASE call[p] = "toExclusive"
      BY <1>11, <3>4 DEF SetTTL, Leave
    <3> QED
      BY ONLY <3>1, <3>2, <3>3, <3>4
  <2>3. V = U
    BY <2>2
  <2> QED
    BY <1>3, <2>1, <2>3
<1>12. CASE BeginReleaseShared(p)
  BY <1>3, <1>12 DEF BeginReleaseShared, Start, Delete, Put, MarkRelease, Enter
<1>13. CASE Dec(p)
  <2>1. call[p] = "releaseShared" /\ at[p] = "dec" /\ shared[p] > 0 /\ Raised(p) = shared[p]
    BY <1>13 DEF Dec
  <2>2. IsCount /\ n >= 1
    BY <2>1
  <2>3. value' = Count(n - 1)
    BY <1>13, <2>2 DEF Dec
  <2>4. m = n - 1 /\ IsCount'
    BY <2>2, <2>3
  <2>5. Raised(p)' = Raised(p) - 1
    <3>1. CASE n > 1
      BY <1>13, <2>1, <2>2, <3>1 DEF Dec, Go
    <3>2. CASE ~(n > 1)
      BY <1>13, <2>1, <2>2, <3>2 DEF Dec, Leave, MarkRelease
    <3> QED
      BY <3>1, <3>2
  <2>6. V = U - 1
    BY <2>5
  <2> QED
    BY <1>3, <2>2, <2>4, <2>6
<1>14. CASE Reset(p)
  BY <1>3, <1>14 DEF Reset, InCall
<1>15. CASE RestoreGet(p)
  BY <1>3, <1>15 DEF RestoreGet, Restored, Leave, MarkRelease, InCall
<1>16. CASE RestoreGetTTL(p)
  BY <1>3, <1>16 DEF RestoreGetTTL, Restored, Leave, MarkRelease, Go, InCall
<1>17. CASE RestoreSetTTL(p)
  <2>1. Raised(p)' = Raised(p)
    BY <1>17 DEF RestoreSetTTL, Restored, Leave, MarkRelease, Calls
  <2>2. V = U
    BY <2>1
  <2>3. value' = value \/ value' = NoKey
    BY <1>17 DEF RestoreSetTTL, Expire, Delete, Put
  <2>4. CASE U = 0
    BY <1>3, <2>2, <2>3, <2>4
  <2>5. CASE U # 0
    <3>1. PICK u \in RaisedUnits : TRUE
      <4>1. RaisedUnits # {}
        BY <2>5, UnitsFinite, FS_EmptySet DEF U
      <4> QED
        BY ONLY <4>1
    <3> DEFINE q == u[1]
    <3>2. q \in Procs /\ Raised(q) > 0
      BY <3>1, RaisedTyped, BoundsAssumption DEF RaisedUnits
    <3> HIDE DEF q
    <3>3. q \in Procs /\ Holds(q) /\ (q = p => shared[p] >= 2)
      <4>1. CASE q = p
        <5>1. call[p] = "releaseShared" /\ at[p] = "compareSetTTL"
          BY <1>17 DEF RestoreSetTTL, InCall, Calls
        <5>2. Raised(p) = shared[p] - 1
          BY <5>1
        <5> QED
          BY <3>2, <4>1, <5>2 DEF Holds
      <4>2. CASE q # p
        BY <3>2, <4>2, OthersIdle DEF Holds
      <4> QED
        BY <4>1, <4>2
    <3>4. value' = value
      BY <1>17, <3>3, RestoreKeeps
    <3> QED
      BY <1>3, <2>2, <3>4
  <2> QED
    BY <2>4, <2>5
<1>18. CASE ReleaseExclusive(p)
  BY <1>3, <1>18 DEF ReleaseExclusive, Start, Delete, Put
<1> QED
  BY <1>5, <1>6, <1>7, <1>8, <1>9, <1>10, <1>11, <1>12, <1>13, <1>14, <1>15, <1>16, <1>17,
     <1>18
  DEF ProviderStep

(***************************************************************************)
(* Whoever holds the lock is still covered by the key's expiry.            *)
(***************************************************************************)
LEMMA InTimeStep ==
  ASSUME Env \subseteq {"crash"}, CoverInv, NEW p \in Procs, CallStep(p)
  PROVE  InTime'
<1>0. TypeInv /\ InCall(p) /\ ProviderStep(p) /\ ~NextRequest(p)
  BY DEF CoverInv, CallStep
<1> USE DEF TypeInv, TypeOK
<1>1. now' = now /\ now \in Nat
  BY <1>0, ClockStands, BoundsAssumption
<1>2. ASSUME NEW q \in Procs \ {p}, Holds(q)
      PROVE  /\ Idle(q) /\ at[q] = "idle" /\ value # NoKey /\ value # Count(0)
             /\ value = Exclusive => ~Owns(p)
             /\ value = Count(1) => ~(Raised(p) > 0)
  BY <1>2, OthersIdle, KeyTells, AloneExclusive, AloneShared
\* the other holders: their expiry
<1>3. ASSUME NEW q \in Procs \ {p}, Holds(q)
      PROVE  expiry' = expiry \/ expiry' >= since[q] + Ttl
  <2>0. /\ value # NoKey /\ value # Count(0)
        /\ value = Exclusive => ~Owns(p)
        /\ value = Count(1) => ~(Raised(p) > 0)
    BY <1>2, <1>3
  <2> USE <1>0, <2>0
  <2> USE DEF Owns, HeldExclusive, In, Idle, Raised, store, ControlOK, ControlOf
  <2>1. CASE BeginAcquireExclusive(p)
    BY <2>1 DEF BeginAcquireExclusive, Absent
  <2>2. CASE CasExclusive(p)
    BY <2>2 DEF CasExclusive, Cas
  <2>3. CASE BeginChangeToShared(p)
    BY <2>3 DEF BeginChangeToShared, Start, Cas
  <2>4. CASE BeginChangeToExclusive(p)
    BY <2>4 DEF BeginChangeToExclusive, Start, Cas
  <2>5. CASE SetTTL(p)
    BY <2>5, SetTTLKeeps, TtlAssumption, BoundsAssumption DEF TimeOK
  <2>6. CASE BeginReleaseShared(p)
    BY <2>6 DEF BeginReleaseShared, Start
  <2>7. CASE RestoreSetTTL(p)
    BY <1>3, <2>7, RestoreKeeps
  <2>8. CASE ReleaseExclusive(p)
    BY <2>8 DEF ReleaseExclusive, Start
  <2>9. CASE \/ BeginAcquireShared(p) \/ Inc(p) \/ Dec(p) \/ RestoreGet(p) \/ RestoreGetTTL(p)
    BY <2>9 DEF BeginAcquireShared, Inc, Dec, RestoreGet, RestoreGetTTL
  <2>10. ~Reset(p)
    BY DEF Reset, InCall
  <2> QED
    BY <2>1, <2>2, <2>3, <2>4, <2>5, <2>6, <2>7, <2>8, <2>9, <2>10 DEF ProviderStep
<1>4. ASSUME NEW q \in Procs \ {p}, Holds(q)'
      PROVE  now' < since'[q] + Ttl /\ expiry' >= since'[q] + Ttl
  <2>1. Holds(q) /\ since'[q] = since[q]
    BY <1>0, <1>4, OthersSame DEF Same, Holds
  <2>2. now < since[q] + Ttl /\ expiry >= since[q] + Ttl
    BY <1>2, <2>1 DEF CoverInv, InTime
  <2> QED
    BY <1>1, <1>3, <2>1, <2>2
\* p itself
<1>5. ASSUME Holds(p)'
      PROVE  /\ now' < since'[p] + Ttl
             /\ at'[p] # "setTTL" => expiry' >= since'[p] + Ttl
  <2>1. Holds(p) => now < since[p] + Ttl /\ (at[p] # "setTTL" => expiry >= since[p] + Ttl)
    BY DEF CoverInv, InTime
  <2> USE <1>0
  <2> USE DEF ControlOK, ControlOf
  <2>2. CASE SetTTL(p)
    <3>1. Raised(p) > 0 \/ Owns(p)
      <4>1. call[p] \in {"acquireShared", "acquireExclusive", "toShared", "toExclusive"}
            /\ at[p] = "setTTL"
        BY <2>2, AtSetTTL DEF SetTTL
      <4>2. CASE call[p] = "acquireShared" \/ call[p] = "toShared"
        BY <4>1, <4>2, BoundsAssumption DEF Raised
      <4>3. CASE call[p] = "acquireExclusive" \/ call[p] = "toExclusive"
        BY <4>1, <4>3 DEF Owns, HeldExclusive, In
      <4> QED
        BY ONLY <4>1, <4>2, <4>3
    <3>2. value # NoKey
      <4>1. Raised(p) > 0 => Cardinality(RaisedUnits) > 0
        BY OwnUnits, RaisedTyped, UnitsFinite, BoundsAssumption
      <4> QED
        BY <3>1, <4>1, Values DEF CoverInv, Counted, Owned, IsCount
    <3>3. expiry' = now + Ttl
      BY <2>2, <3>2, SetTTLKeeps
    <3>4. since'[p] = IF Holds(p) THEN since[p] ELSE now
      BY <2>2 DEF SetTTL
    <3>5. since'[p] \in Nat /\ since'[p] <= now /\ now < since'[p] + Ttl
      BY <1>1, <2>1, <3>4, BoundsAssumption, TtlAssumption DEF TimeOK
    <3> QED
      BY <1>1, <3>3, <3>5, TtlAssumption
  <2>3. CASE ~SetTTL(p)
    <3> USE DEF Holds, In, Idle, Start, Enter, Put, Cas, Leave, Go, MarkRelease, Restored,
                store, marks, control, client
    <3>1. CASE \/ BeginAcquireShared(p) \/ Inc(p) \/ Dec(p) \/ RestoreGet(p) \/ RestoreGetTTL(p)
      <4>1. /\ since' = since /\ expiry' = expiry /\ at[p] # "setTTL"
            /\ Holds(p)' => Holds(p)
        BY <3>1 DEF BeginAcquireShared, Inc, Dec, RestoreGet, RestoreGetTTL
      <4> QED
        BY <1>1, <1>5, <2>1, <4>1
    <3>2. CASE BeginAcquireExclusive(p)
      <4>1. since' = since /\ at[p] # "setTTL" /\ Idle(p) /\ Holds(p)
        BY <1>5, <3>2 DEF BeginAcquireExclusive
      <4>2. expiry' = expiry
        BY <3>2, <4>1, KeyTells DEF BeginAcquireExclusive, Absent
      <4> QED
        BY <1>1, <1>5, <2>1, <4>1, <4>2
    <3>3. CASE CasExclusive(p)
      <4>1. since' = since /\ at[p] # "setTTL" /\ Holds(p)
            /\ (at'[p] # "setTTL" => expiry' = expiry)
        BY <1>5, <3>3 DEF CasExclusive
      <4> QED
        BY <1>1, <1>5, <2>1, <4>1
    <3>4. CASE BeginChangeToShared(p) \/ BeginChangeToExclusive(p)
      <4>1. since' = since /\ at[p] # "setTTL" /\ Holds(p)
            /\ (at'[p] # "setTTL" => expiry' = expiry)
        BY <1>5, <3>4 DEF BeginChangeToShared, BeginChangeToExclusive
      <4> QED
        BY <1>1, <1>5, <2>1, <4>1
    <3>5. CASE BeginReleaseShared(p)
      <4>1. Idle(p) /\ since' = since /\ at[p] # "setTTL"
        BY <3>5 DEF BeginReleaseShared
      <4>2. exclusive[p] => value # Count(1)
        BY <4>1, KeyTells, Values
      <4>3. Holds(p) /\ expiry' = expiry
        BY <1>5, <3>5, <4>2 DEF BeginReleaseShared
      <4> QED
        BY <1>1, <1>5, <2>1, <4>1, <4>3
    <3>6. CASE RestoreSetTTL(p)
      <4>1. call[p] = "releaseShared" /\ IsCount /\ since' = since
        BY <3>6 DEF RestoreSetTTL, InCall, Calls
      <4>2. ~exclusive[p]
        BY <4>1, Values DEF CoverInv, Owned, Owns, HeldExclusive, IsCount
      <4>3. shared'[p] = shared[p] - 1 /\ exclusive' = exclusive /\ at[p] # "setTTL"
        BY <3>6, <4>1 DEF RestoreSetTTL
      <4>4. shared[p] >= 2
        BY <1>5, <4>2, <4>3
      <4> QED
        BY <1>1, <2>1, <3>6, <4>1, <4>3, <4>4, RestoreKeeps
    <3>7. CASE ReleaseExclusive(p)
      <4>1. FALSE
        BY <1>5, <3>7, KeyTells DEF ReleaseExclusive
      <4> QED
        BY <4>1
    <3>8. ~Reset(p)
      BY DEF Reset, InCall
    <3> QED
      BY <2>3, <3>1, <3>2, <3>3, <3>4, <3>5, <3>6, <3>7, <3>8 DEF ProviderStep
  <2> QED
    BY <2>2, <2>3
<1> QED
  BY <1>4, <1>5 DEF InTime

(***************************************************************************)
(* The snapshots: only acquireLock takes one, and only setTTL makes a      *)
(* process a holder.                                                       *)
(***************************************************************************)
SnapsKept(p) ==
  /\ old'[p] = old[p] \/ old'[p] = NoOld
  /\ Holds(p)' => Holds(p) /\ since'[p] = since[p]
  /\ Shares(p)' => Shares(p)
  /\ shared'[p] >= 2 => shared[p] >= 2
  /\ call'[p] = "acquireShared" => call[p] = "acquireShared"

LEMMA SnapsKeptStep ==
  ASSUME CoverInv, NEW p \in Procs, CallStep(p), ~BeginAcquireShared(p), ~SetTTL(p)
  PROVE  SnapsKept(p)
<1>0. TypeInv /\ InCall(p) /\ ProviderStep(p) /\ ~NextRequest(p)
  BY DEF CoverInv, CallStep
<1> USE <1>0
<1> USE DEF TypeInv, TypeOK, ControlOK, ControlOf, SnapsKept, Holds, Shares, In, Idle, Start,
            Enter, Leave, Go, MarkRelease, ForgetOld, marks, control, client
<1>1. CASE Inc(p) \/ BeginAcquireExclusive(p)
  BY <1>1 DEF Inc, BeginAcquireExclusive
<1>2. CASE CasExclusive(p)
  BY <1>2 DEF CasExclusive
<1>3. CASE BeginChangeToShared(p)
  BY <1>3 DEF BeginChangeToShared
<1>4. CASE BeginChangeToExclusive(p)
  BY <1>4 DEF BeginChangeToExclusive
<1>5. CASE BeginReleaseShared(p)
  BY <1>5 DEF BeginReleaseShared
<1>6. CASE Dec(p)
  BY <1>6 DEF Dec
<1>7. CASE RestoreGet(p)
  BY <1>7 DEF RestoreGet, Restored
<1>8. CASE RestoreGetTTL(p)
  BY <1>8 DEF RestoreGetTTL, Restored
<1>9. CASE RestoreSetTTL(p)
  BY <1>9 DEF RestoreSetTTL, Restored
<1>10. CASE ReleaseExclusive(p)
  BY <1>10 DEF ReleaseExclusive
<1>11. ~Reset(p)
  BY DEF Reset, InCall
<1> QED
  BY <1>1, <1>2, <1>3, <1>4, <1>5, <1>6, <1>7, <1>8, <1>9, <1>10, <1>11 DEF ProviderStep

\* A step that takes no snapshot and makes nobody a holder keeps them good.
LEMMA SnapsUntouched ==
  ASSUME TypeInv, Snaps, NEW p \in Procs, SnapsKept(p), \A q \in Procs \ {p} : Same(q)
  PROVE  Snaps'
<1> SUFFICES ASSUME NEW q \in Procs, NEW r \in Procs PROVE SnapCovers(q, r)'
  BY DEF Snaps
<1>1. SnapCovers(q, r)
  BY DEF Snaps
<1>2. ASSUME NEW x \in Procs PROVE SnapsKept(x)
  <2>1. CASE x = p
    BY <2>1
  <2>2. CASE x # p
    BY <2>2 DEF Same, SnapsKept, Holds, Shares
  <2> QED
    BY <2>1, <2>2
<1>3. old'[q] # NoOld => old'[q] = old[q]
  BY <1>2 DEF SnapsKept
<1>4. Holds(r)' => Holds(r) /\ since'[r] = since[r]
  BY <1>2 DEF SnapsKept
<1>5. Holds(q)' => since'[q] = since[q]
  BY <1>2 DEF SnapsKept
<1>6. (Shares(q)' => Shares(q)) /\ (shared'[q] >= 2 => shared[q] >= 2)
      /\ (call'[q] = "acquireShared" => call[q] = "acquireShared")
  BY <1>2 DEF SnapsKept
<1> QED
  BY <1>1, <1>3, <1>4, <1>5, <1>6 DEF SnapCovers, A, Snap

LEMMA SnapsStep ==
  ASSUME Env \subseteq {"crash"}, CoverInv, NEW p \in Procs, CallStep(p)
  PROVE  Snaps'
<1>0. TypeInv /\ Snaps /\ InCall(p) /\ ProviderStep(p) /\ ~NextRequest(p)
  BY DEF CoverInv, CallStep
<1>1. \A q \in Procs \ {p} : Same(q)
  BY <1>0, OthersSame
<1>2. CASE ~BeginAcquireShared(p) /\ ~SetTTL(p)
  BY <1>0, <1>1, <1>2, SnapsKeptStep, SnapsUntouched
<1>3. \A q, r \in Procs \ {p} : SnapCovers(q, r)'
  <2> SUFFICES ASSUME NEW q \in Procs \ {p}, NEW r \in Procs \ {p} PROVE SnapCovers(q, r)'
    OBVIOUS
  <2>1. SnapCovers(q, r) /\ Same(q) /\ Same(r)
    BY <1>0, <1>1 DEF Snaps
  <2> QED
    BY <2>1 DEF Same, SnapCovers, Holds, Shares, A, Snap
<1>4. CASE BeginAcquireShared(p)
  <2> USE <1>0
  <2> USE DEF TypeInv, TypeOK
  <2>1. /\ Idle(p) /\ since' = since /\ shared' = shared /\ exclusive' = exclusive
        /\ A(p)' = now /\ Snap(p)' = now + TtlNow
    BY <1>4 DEF BeginAcquireShared, Start, marks, client, A, Snap
  <2>2. ASSUME NEW q \in Procs, Holds(q) PROVE Snap(p)' >= since[q] + Ttl
    <3>1. Idle(q)
      BY <1>4, <2>1, OthersIdle
    <3>2. value # NoKey /\ at[q] # "setTTL"
      BY <2>2, <3>1, KeyTells
    <3>3. expiry >= since[q] + Ttl
      BY <2>2, <3>2 DEF CoverInv, InTime
    <3>4. expiry # Never /\ expiry \in Int /\ now \in Int /\ since[q] \in Nat
      BY <3>3, BoundsAssumption, TtlAssumption DEF Never
    <3> QED
      BY <2>1, <3>2, <3>3, <3>4 DEF TtlNow, Absent
  <2>3. ASSUME NEW q \in Procs PROVE SnapCovers(p, q)'
    BY <2>1, <2>2 DEF SnapCovers, Holds
  <2>4. ASSUME NEW q \in Procs \ {p} PROVE SnapCovers(q, p)'
    <3>1. SnapCovers(q, p) /\ Same(q)
      BY <1>1 DEF Snaps
    <3> QED
      BY <2>1, <3>1 DEF Same, SnapCovers, Holds, Shares, A, Snap
  <2> QED
    BY <1>3, <2>3, <2>4 DEF Snaps
<1>5. CASE SetTTL(p)
  <2> USE <1>0
  <2> USE DEF TypeInv, TypeOK
  <2>1. /\ old' = old /\ call'[p] = "none"
        /\ since'[p] = IF Holds(p) THEN since[p] ELSE now
        /\ call[p] \in {"acquireShared", "acquireExclusive", "toShared", "toExclusive"}
    BY <1>5, AtSetTTL DEF SetTTL, Leave
  <2>2. /\ call[p] = "toShared" => shared'[p] = shared[p] + 1
        /\ call[p] = "acquireShared" => shared'[p] = shared[p] + 1
        /\ call[p] = "acquireExclusive" => shared'[p] = shared[p]
        /\ call[p] = "toExclusive" => shared'[p] = shared[p] - 1
    BY <1>5 DEF SetTTL
\* changeLock to shared: nobody else holds the lock, and p did not hold it shared
  <2>3. ASSUME call[p] = "toShared"
        PROVE  shared[p] = 0 /\ \A q \in Procs \ {p} : ~Holds(q)
    <3>1. value = Count(1) /\ Raised(p) = shared[p] + 1
      BY <1>5, <2>3 DEF InCall, Raised, SetTTL
    <3> QED
      BY <1>5, <3>1, AloneShared, OthersIdle, BoundsAssumption
  <2>4. ASSUME NEW q \in Procs \ {p} PROVE SnapCovers(p, q)'
    <3>1. SnapCovers(p, q) /\ Same(q)
      BY <1>1 DEF Snaps
    <3>2. Shares(p)' => Shares(p) \/ call[p] = "toShared"
      BY <2>1, <2>2, BoundsAssumption DEF Shares
    <3> QED
      BY <2>1, <2>3, <3>1, <3>2 DEF Same, SnapCovers, Holds, A, Snap
  <2>5. ASSUME NEW q \in Procs \ {p} PROVE SnapCovers(q, p)'
    <3>1. SnapCovers(q, p) /\ Same(q) /\ Idle(q)
      BY <1>1, OthersIdle DEF Snaps
    <3>2. CASE Holds(p)
      BY <2>1, <3>1, <3>2 DEF Same, SnapCovers, Shares, A, Snap
    <3>3. CASE ~Holds(p) /\ call[p] = "acquireShared"
      <4>1. old[q] # NoOld => now > A(q) + 1
        BY <3>3 DEF InCall
      <4>2. since'[p] = now /\ old'[q] = old[q]
        BY <2>1, <3>3
      <4> QED
        BY <4>1, <4>2 DEF SnapCovers, A
    <3>4. CASE ~Holds(p) /\ call[p] = "acquireExclusive"
      <4>1. Owns(p)
        BY <1>5, <3>4 DEF SetTTL, Owns, In
      <4>2. ~Holds(q)
        BY <3>1, <4>1, AloneExclusive
      <4>3. ~(shared[q] > 0) /\ call[q] # "acquireShared"
        BY <3>1, <4>2 DEF Holds, Idle
      <4>4. ~Shares(q)'
        BY <3>1, <4>3 DEF Same, Shares
      <4> QED
        BY <4>4 DEF SnapCovers
    <3>5. Holds(p) \/ call[p] \in {"acquireShared", "acquireExclusive"}
      BY <2>1 DEF ControlOK, ControlOf, Holds
    <3> QED
      BY <3>2, <3>3, <3>4, <3>5
  <2>6. SnapCovers(p, p)'
    <3>1. SnapCovers(p, p)
      BY DEF Snaps
    <3>2. shared'[p] >= 2 => shared[p] >= 2 \/ (call[p] = "acquireShared" /\ shared[p] >= 1)
      BY <2>1, <2>2, <2>3, BoundsAssumption
    <3>3. shared'[p] >= 2 => Holds(p) /\ since'[p] = since[p]
      BY <2>1, <3>2, BoundsAssumption DEF Holds
    <3> QED
      BY <2>1, <3>1, <3>2, <3>3 DEF SnapCovers, A, Snap
  <2> QED
    BY <1>3, <2>4, <2>5, <2>6 DEF Snaps
<1> QED
  BY <1>2, <1>4, <1>5

(***************************************************************************)
(* What a process in a call knows stays true through its own steps.        *)
(***************************************************************************)
LEMMA InCallStep ==
  ASSUME Env \subseteq {"crash"}, CoverInv, NEW p \in Procs, CallStep(p)
  PROVE  OneCall' /\ \A q \in Procs : InCall(q)'
<1>0. TypeInv /\ TypeInv' /\ InCall(p) /\ ProviderStep(p) /\ ~NextRequest(p)
  BY TypingStep DEF CoverInv, CallStep, Next
<1> USE <1>0
<1> USE DEF TypeInv, TypeOK, ControlOK, ControlOf
<1>1. ASSUME NEW q \in Procs \ {p} PROVE Idle(q)' /\ at'[q] = "idle" /\ ~givingUp'[q]
  BY OthersIdle, OthersSame DEF Same, Idle, CoverInv, InCall
<1>2. OneCall'
  BY <1>1 DEF OneCall
<1>3. \A q \in Procs \ {p} : InCall(q)'
  BY <1>1 DEF InCall, Idle
<1>4. InCall(p)'
  <2> USE DEF InCall, In, Idle, Start, Enter, Go, Leave, store, marks, control, client
  <2>1. CASE BeginAcquireShared(p)
    <3>1. /\ call'[p] = "acquireShared" /\ at'[p] = "inc" /\ givingUp' = givingUp /\ now' = now
          /\ old'[p] = [ttl |-> TtlNow, time |-> now]
      BY <2>1 DEF BeginAcquireShared
    <3>2. old'[p] # NoOld /\ A(p)' = now
      BY <3>1, BoundsAssumption DEF NoOld, A
    <3>3. ASSUME NEW q \in Procs \ {p}, old'[q] # NoOld PROVE now > A(q)' + 1
      <4>1. old'[q] = old[q]
        BY OthersSame DEF Same
      <4> QED
        BY <2>1, <3>3, <4>1 DEF BeginAcquireShared, Apart, A
    <3> QED
      BY <3>1, <3>2, <3>3
  <2>2. CASE Inc(p)
    <3>1. /\ givingUp' = givingUp /\ now' = now /\ old' = old
          /\ at'[p] \in {"idle", "setTTL"} /\ call'[p] \in {"none", "acquireShared"}
      BY <2>2 DEF Inc
    <3> QED
      BY <2>2, <3>1 DEF Inc, A
  <2>3. CASE BeginAcquireExclusive(p) \/ CasExclusive(p)
    BY <2>3 DEF BeginAcquireExclusive, CasExclusive
  <2>4. CASE BeginChangeToShared(p)
    BY <2>4 DEF BeginChangeToShared, Cas, Put
  <2>5. CASE BeginChangeToExclusive(p)
    BY <2>5 DEF BeginChangeToExclusive, Cas
  <2>6. CASE SetTTL(p)
    BY <2>6 DEF SetTTL
  <2>7. CASE BeginReleaseShared(p)
    BY <2>7 DEF BeginReleaseShared
  <2>8. CASE Dec(p)
    <3>1. Raised(p) = shared[p] /\ shared[p] > 0
      BY <2>8 DEF Dec, Raised
    <3>2. IsCount /\ value.n >= 1 /\ value.n \in Int
      BY <3>1, OwnUnits, UnitsFinite, Values, BoundsAssumption
         DEF CoverInv, Counted, IsCount
    <3>3. /\ givingUp' = givingUp /\ IsCount'
          /\ \/ at'[p] = "get" /\ call'[p] = call[p]
             \/ at'[p] = "idle" /\ call'[p] = "none"
      BY <2>8, <3>2, Values DEF Dec, IsCount
    <3> QED
      BY <2>8, <3>3 DEF Dec
  <2>9. CASE RestoreGet(p)
    BY <2>9 DEF RestoreGet, Restored, IsCount
  <2>10. CASE RestoreGetTTL(p)
    BY <2>10 DEF RestoreGetTTL, Restored, IsCount, NobodyAcquired, TtlNow, Absent, Elapsed
  <2>11. CASE RestoreSetTTL(p)
    BY <2>11 DEF RestoreSetTTL, Restored
  <2>12. CASE ReleaseExclusive(p)
    BY <2>12 DEF ReleaseExclusive
  <2>13. ~Reset(p)
    BY DEF Reset
  <2> QED
    BY <2>1, <2>2, <2>3, <2>4, <2>5, <2>6, <2>7, <2>8, <2>9, <2>10, <2>11, <2>12, <2>13
    DEF ProviderStep
<1> QED
  BY <1>2, <1>3, <1>4

(***************************************************************************)
(* The steps outside of the calls.  A request that is over, or killed,     *)
(* only takes units away.                                                  *)
(***************************************************************************)
LEMMA UnitsGone ==
  ASSUME TypeInv, TypeInv', \A q \in Procs : Raised(q)' <= Raised(q)
  PROVE  Cardinality(RaisedUnits') <= Cardinality(RaisedUnits)
<1>1. RaisedUnits' \subseteq RaisedUnits
  <2> SUFFICES ASSUME NEW u \in Procs \X (1..MaxShared + 1), u[2] <= Raised(u[1])'
               PROVE  u[2] <= Raised(u[1])
    BY DEF RaisedUnits
  <2>1. u[1] \in Procs /\ u[2] \in Nat
    BY BoundsAssumption
  <2> QED
    BY <2>1, RaisedTyped, RaisedTypedNext, BoundsAssumption
<1> QED
  BY <1>1, UnitsFinite, FS_Subset

LEMMA GoneStep ==
  ASSUME CoverInv, NEW p \in Procs, NextRequest(p) \/ Crash(p)
  PROVE  CoverInv'
<1>0. TypeInv /\ TypeInv'
  BY TypingStep DEF CoverInv, Next, ProviderStep
<1> USE <1>0
<1> USE DEF TypeInv, TypeOK, ControlOK, ControlOf
<1>1. \A q \in Procs \ {p} : Same(q)
  BY OthersSame DEF ProviderStep
<1>2. /\ value' = value /\ expiry' = expiry /\ now' = now /\ since' = since
      /\ old'[p] = NoOld /\ call'[p] = "none" /\ at'[p] = "idle" /\ ~givingUp'[p]
      /\ shared'[p] \in {shared[p], 0} /\ exclusive'[p] \in {exclusive[p], FALSE}
      /\ shared'[p] = shared[p] => NextRequest(p) \/ shared[p] = 0
      /\ exclusive'[p] = exclusive[p] => NextRequest(p) \/ ~exclusive[p]
      /\ NextRequest(p) => shared'[p] = shared[p] /\ exclusive'[p] = exclusive[p]
      /\ NextRequest(p) => Idle(p)
      /\ ~NextRequest(p) => shared'[p] = 0 /\ ~exclusive'[p]
  BY DEF NextRequest, Crash, ForgetOld, Leave, Idle, store, marks, control, client
<1>3. OneCall'
  BY <1>1, <1>2 DEF CoverInv, OneCall, Idle, Same
<1>4. Counted'
  <2>1. ASSUME NEW q \in Procs PROVE Raised(q)' <= Raised(q)
    <3>1. CASE q # p
      <4>1. Raised(q)' = Raised(q)
        BY <1>1, <3>1 DEF Same, Raised
      <4> QED
        BY <4>1, RaisedTyped, BoundsAssumption
    <3>2. CASE q = p /\ NextRequest(p)
      BY <1>2, <3>2 DEF Raised, Idle
    <3>3. CASE q = p /\ ~NextRequest(p)
      <4>1. Raised(p)' = 0
        BY <1>2, <3>3 DEF Raised
      <4> QED
        BY <3>3, <4>1, RaisedTyped, BoundsAssumption
    <3> QED
      BY <3>1, <3>2, <3>3
  <2>2. Cardinality(RaisedUnits') <= Cardinality(RaisedUnits)
    BY <2>1, UnitsGone
  <2> QED
    BY <1>2, <2>2, UnitsFinite, Values DEF CoverInv, Counted, IsCount
<1>5. Owned'
  <2>1. ASSUME NEW q \in Procs, Owns(q)' PROVE Owns(q)
    BY <1>1, <1>2, <2>1 DEF Owns, HeldExclusive, In, Same, Idle
  <2> QED
    BY <1>2, <2>1 DEF CoverInv, Owned
<1>6. ASSUME NEW q \in Procs, Holds(q)'
      PROVE  Holds(q) /\ (at[q] = "setTTL" => at'[q] = "setTTL")
  BY <1>1, <1>2, <1>6 DEF Holds, Same, Idle
<1>7. InTime'
  BY <1>2, <1>6 DEF CoverInv, InTime
<1>8. Snaps'
  <2>1. SnapsKept(p)
    BY <1>2, <1>6 DEF SnapsKept, Shares, Holds
  <2> QED
    BY <1>1, <2>1, SnapsUntouched DEF CoverInv
<1>9. ASSUME NEW q \in Procs PROVE InCall(q)'
  <2>1. CASE q = p
    BY <1>2, <2>1 DEF InCall
  <2>2. CASE q # p
    <3>1. InCall(q) /\ Same(q)
      BY <1>1, <2>2 DEF CoverInv
    <3>2. \A r \in Procs : old'[r] # NoOld => old'[r] = old[r]
      BY <1>1, <1>2 DEF Same
    <3> QED
      BY <1>2, <3>1, <3>2
         DEF InCall, Same, IsCount, NobodyAcquired, TtlNow, Absent, Elapsed, A
  <2> QED
    BY <2>1, <2>2
<1> QED
  BY <1>3, <1>4, <1>5, <1>7, <1>8, <1>9 DEF CoverInv

(***************************************************************************)
(* A second passes while nobody is in a call: a key that expires has no    *)
(* holder.                                                                 *)
(***************************************************************************)
LEMMA TickStep ==
  ASSUME CoverInv, Tick
  PROVE  CoverInv'
<1>0. TypeInv /\ TypeInv'
  BY TypingStep DEF CoverInv, Next
<1> USE <1>0
<1> USE DEF TypeInv, TypeOK, ControlOK, ControlOf
<1>1. /\ UNCHANGED <<shared, exclusive, old, call, at, seen, since, givingUp>>
      /\ now' = now + 1 /\ now \in Nat
      /\ \A q \in Procs : /\ Idle(q) /\ at[q] = "idle"
                          /\ Holds(q) => now + 1 < since[q] + Ttl
      /\ \/ value' = value /\ expiry' = expiry
         \/ value' = NoKey /\ expiry = now + 1
  BY BoundsAssumption DEF Tick, Idle, Delete, Put, store, marks, control, client
<1>2. ASSUME NEW q \in Procs, Holds(q) PROVE value' = value /\ expiry' = expiry
  <2>1. expiry >= since[q] + Ttl /\ now + 1 < since[q] + Ttl /\ since[q] + Ttl \in Int
    BY <1>1, <1>2, BoundsAssumption, TtlAssumption DEF CoverInv, InTime
  <2>2. expiry \in Int
    BY BoundsAssumption, TtlAssumption DEF Never
  <2> QED
    BY <1>1, <2>1, <2>2
<1>3. RaisedUnits' = RaisedUnits
  <2>1. \A u \in Procs \X (1..MaxShared + 1) : u[1] \in Procs
    OBVIOUS
  <2>2. \A q \in Procs : Raised(q)' = Raised(q)
    BY <1>1 DEF Raised
  <2> QED
    BY <2>1, <2>2 DEF RaisedUnits
<1>4. Counted'
  <2>1. CASE RaisedUnits = {}
    <3>1. Cardinality(RaisedUnits') = 0
      BY <1>3, <2>1, FS_EmptySet
    <3> QED
      BY <1>1, <3>1, Values DEF CoverInv, Counted, IsCount
  <2>2. CASE RaisedUnits # {}
    <3>1. PICK u \in RaisedUnits : TRUE
      BY <2>2
    <3>2. u[1] \in Procs /\ u[2] \in Nat /\ u[2] >= 1 /\ u[2] <= Raised(u[1])
      BY <3>1, BoundsAssumption DEF RaisedUnits
    <3>3. Holds(u[1])
      <4>1. Raised(u[1]) = shared[u[1]]
        BY <1>1, <3>2 DEF Raised, Idle
      <4> QED
        BY <3>2, <4>1, BoundsAssumption DEF Holds
    <3>4. value' = value
      BY <1>2, <3>2, <3>3
    <3> QED
      BY <1>3, <3>4 DEF CoverInv, Counted, IsCount
  <2> QED
    BY <2>1, <2>2
<1>5. Owned'
  <2>1. ASSUME NEW q \in Procs, Owns(q)' PROVE Owns(q) /\ Holds(q)
    BY <1>1, <2>1 DEF Owns, HeldExclusive, In, Idle, Holds
  <2> QED
    BY <1>2, <2>1 DEF CoverInv, Owned
<1>6. InTime'
  BY <1>1, <1>2 DEF CoverInv, InTime, Holds
<1>7. Snaps'
  BY <1>1 DEF CoverInv, Snaps, SnapCovers, Holds, Shares, A, Snap
<1>8. OneCall' /\ \A q \in Procs : InCall(q)'
  BY <1>1 DEF CoverInv, OneCall, InCall, Idle
<1> QED
  BY <1>4, <1>5, <1>6, <1>7, <1>8 DEF CoverInv

LEMMA CoverStep ==
  ASSUME Env \subseteq {"crash"}, CoverInv, [Next]_vars
  PROVE  CoverInv'
<1>1. ASSUME NEW p \in Procs, ProviderStep(p) \/ Crash(p) PROVE CoverInv'
  <2>1. CASE CallStep(p)
    <3>1. TypeInv'
      BY <2>1, TypingStep DEF CallStep, Next, CoverInv
    <3> QED
      BY <2>1, <3>1, OwnedStep, CountedStep, InTimeStep, SnapsStep, InCallStep
      DEF CoverInv
  <2>2. CASE NextRequest(p) \/ Crash(p)
    BY <2>2, GoneStep
  <2> QED
    BY <1>1, <2>1, <2>2 DEF CallStep
<1>2. CASE UNCHANGED vars
  <2>1. UNCHANGED <<value, expiry, now, shared, exclusive, old, call, at, seen, since, givingUp>>
    BY <1>2 DEF vars, store, marks, control, client
  <2>2. TypeInv'
    BY TypingStep DEF CoverInv
  <2>3. RaisedUnits' = RaisedUnits
    BY <2>1 DEF RaisedUnits, Raised
  <2>4. OneCall' /\ Counted' /\ Owned'
    BY <2>1, <2>3
    DEF CoverInv, OneCall, Idle, Counted, IsCount, Owned, Owns, HeldExclusive, In
  <2>5. InTime' /\ Snaps'
    BY <2>1 DEF CoverInv, InTime, Holds, Snaps, SnapCovers, Shares, A, Snap
  <2>6. \A q \in Procs : InCall(q)'
    BY <2>1 DEF CoverInv, InCall, IsCount, NobodyAcquired, TtlNow, Absent, Elapsed, A
  <2> QED
    BY <2>2, <2>4, <2>5, <2>6 DEF CoverInv
<1> QED
  BY <1>1, <1>2, TickStep DEF Next

LEMMA CoverInit == Init => CoverInv
<1> SUFFICES ASSUME Init PROVE CoverInv
  OBVIOUS
<1>1. TypeInv
  BY InitTyped
<1>2. RaisedUnits = {}
  <2>1. \A u \in Procs \X (1..MaxShared + 1) : u[1] \in Procs /\ u[2] >= 1 /\ u[2] \in Nat
    BY BoundsAssumption
  <2>2. \A q \in Procs : Raised(q) = 0
    BY DEF Init, Raised
  <2> QED
    BY <2>1, <2>2 DEF RaisedUnits
<1>3. Counted
  BY <1>2, FS_EmptySet, Values DEF Init, Counted, IsCount
<1>4. OneCall /\ Owned
  BY DEF Init, OneCall, Idle, Owned, Owns, HeldExclusive, In
<1>5. InTime /\ Snaps
  BY DEF Init, InTime, Holds, Snaps, SnapCovers
<1>6. \A q \in Procs : InCall(q)
  BY DEF Init, InCall
<1> QED
  BY <1>1, <1>3, <1>4, <1>5, <1>6 DEF CoverInv

\* The inductive invariant of the whole provider.
LEMMA CoverAlways ==
  ASSUME Env \subseteq {"crash"}
  PROVE  Spec => []CoverInv
<1>1. CoverInv /\ [Next]_vars => CoverInv'
  BY CoverStep
<1> QED
  BY <1>1, CoverInit, PTL DEF Spec

\* What a process holds, as its callers see it, is among its units.
LEMMA HeldUnits ==
  ASSUME CoverInv, NEW p \in Procs
  PROVE  /\ HeldShared(p) \in 0..Raised(p) /\ Raised(p) \in Nat
         /\ HeldExclusive(p) => value = Exclusive
BY RaisedTyped, BoundsAssumption
   DEF CoverInv, InCall, TypeInv, TypeOK, ControlOK, ControlOf, HeldShared, Raised, In,
      Owned, Owns

\* An exclusive key has no units.
LEMMA ExclusiveNoUnits ==
  ASSUME CoverInv, value = Exclusive
  PROVE  Cardinality(RaisedUnits) = 0 /\ \A q \in Procs : Raised(q) = 0
<1>1. Cardinality(RaisedUnits) = 0
  BY UnitsFinite, Values DEF CoverInv, Counted, IsCount
<1> QED
  BY <1>1, OwnUnits, RaisedTyped, BoundsAssumption DEF CoverInv

(***************************************************************************)
(* While somebody holds the path the key is there to say so: restoreTTL,   *)
(* expiry, cad and dec never take away what a living process has put, as   *)
(* long as no two calls overlap and readers come more than a second apart. *)
(***************************************************************************)
THEOREM KeyCovers ==
  ASSUME Env \subseteq {"crash"}
  PROVE  Spec => []KeyCoversHolders
<1>1. CoverInv => KeyCoversHolders
  <2> SUFFICES ASSUME CoverInv PROVE KeyCoversHolders
    OBVIOUS
  <2>1. \A p \in Procs : HeldExclusive(p) => value = Exclusive
    BY HeldUnits
  <2>2. SharedUnits \subseteq RaisedUnits
    <3> SUFFICES ASSUME NEW u \in Procs \X (1..MaxShared), u[2] <= HeldShared(u[1])
                 PROVE  u \in Procs \X (1..MaxShared + 1) /\ u[2] <= Raised(u[1])
      BY DEF SharedUnits, RaisedUnits
    <3>1. u[1] \in Procs /\ u[2] \in 1..MaxShared /\ u = <<u[1], u[2]>>
      OBVIOUS
    <3>2. u[2] <= Raised(u[1])
      BY <3>1, HeldUnits, BoundsAssumption
    <3>3. u[2] \in 1..MaxShared + 1
      BY <3>1, BoundsAssumption
    <3> QED
      BY <3>1, <3>2, <3>3
  <2>3. /\ Cardinality(SharedUnits) <= Cardinality(RaisedUnits)
        /\ Cardinality(SharedUnits) \in Nat
    BY <2>2, UnitsFinite, FS_Subset, FS_CardinalityType
  <2>4. SharedUnits # {} => Cardinality(RaisedUnits) > 0
    BY <2>2, UnitsFinite, FS_EmptySet
  <2>5. IsCount => value.n \in Int
    BY Values DEF CoverInv, TypeInv, TypeOK, IsCount
  <2>6. SharedUnits # {} => IsCount /\ value.n >= Cardinality(SharedUnits)
    BY <2>3, <2>4, <2>5, UnitsFinite DEF CoverInv, Counted
  <2> QED
    BY <2>1, <2>6 DEF KeyCoversHolders
<1> QED
  BY <1>1, CoverAlways, PTL

(***************************************************************************)
(* Mutual exclusion, under the same condition: whoever holds the path      *)
(* exclusively is its only holder.                                         *)
(***************************************************************************)
THEOREM Excludes ==
  ASSUME Env \subseteq {"crash"}
  PROVE  Spec => []MutualExclusion
<1>1. CoverInv => MutualExclusion
  <2> SUFFICES ASSUME CoverInv, NEW p \in Procs, NEW q \in Procs, HeldExclusive(p)
               PROVE  HeldShared(q) = 0 /\ (HeldExclusive(q) => p = q)
    BY DEF MutualExclusion
  <2>1. value = Exclusive
    BY HeldUnits
  <2>2. HeldShared(q) = 0
    BY <2>1, HeldUnits, ExclusiveNoUnits
  <2> QED
    BY <2>2 DEF CoverInv, Owned, Owns
<1> QED
  BY <1>1, CoverAlways, PTL

-----------------------------------------------------------------------------
(***************************************************************************)
(* The calls as steps of the readers-writer lock.  A call is granted, or   *)
(* gives back, with one of its commands; the others are not seen.          *)
(***************************************************************************)
S == [p \in Procs |-> [k \in {Key} |-> HeldShared(p)]]
X == [p \in Procs |-> [k \in {Key} |-> HeldExclusive(p)]]

\* The other processes hold what they held.
LEMMA OthersHold ==
  ASSUME TypeInv, NEW p \in Procs, ProviderStep(p) \/ Crash(p), NEW q \in Procs \ {p}
  PROVE  HeldShared(q)' = HeldShared(q) /\ (HeldExclusive(q)' <=> HeldExclusive(q))
BY OthersSame DEF Same, HeldShared, HeldExclusive, In

\* What a step of p must do to what p holds.
Granted(p) ==
  \/ HeldShared(p)' = HeldShared(p) /\ (HeldExclusive(p)' <=> HeldExclusive(p))
  \/ /\ \A q \in Procs : ~HeldExclusive(q)
     /\ HeldShared(p)' = HeldShared(p) + 1 /\ ~HeldExclusive(p)'
  \/ /\ \A q \in Procs : HeldShared(q) = 0 /\ ~HeldExclusive(q)
     /\ HeldShared(p)' = 0 /\ HeldExclusive(p)'
  \/ /\ HeldShared(p) > 0
     /\ HeldShared(p)' = HeldShared(p) - 1 /\ (HeldExclusive(p)' <=> HeldExclusive(p))
  \/ /\ HeldExclusive(p)
     /\ HeldShared(p)' = HeldShared(p) /\ ~HeldExclusive(p)'
  \/ /\ HeldExclusive(p)
     /\ HeldShared(p)' = HeldShared(p) + 1 /\ ~HeldExclusive(p)'
  \/ /\ HeldShared(p) = 1 /\ \A q \in Procs \ {p} : HeldShared(q) = 0
     /\ \A q \in Procs \ {p} : ~HeldExclusive(q)
     /\ HeldShared(p)' = 0 /\ HeldExclusive(p)'

LEMMA GrantedStep ==
  ASSUME Env \subseteq {"crash"}, CoverInv, NEW p \in Procs, ProviderStep(p)
  PROVE  Granted(p)
<1>0. TypeInv /\ InCall(p)
  BY DEF CoverInv
<1> USE <1>0
<1> USE DEF TypeInv, TypeOK, ControlOK, ControlOf
<1> USE DEF InCall, In, Idle, Start, Enter, Go, Leave, store, marks, control, client
<1>1. CASE BeginAcquireShared(p)
  BY <1>1 DEF Granted, HeldShared, HeldExclusive, BeginAcquireShared
<1>2. CASE Inc(p)
  BY <1>2 DEF Granted, HeldShared, HeldExclusive, Inc
<1>3. CASE BeginAcquireExclusive(p)
  BY <1>3 DEF Granted, HeldShared, HeldExclusive, BeginAcquireExclusive
<1>4. CASE CasExclusive(p)
  BY <1>4 DEF Granted, HeldShared, HeldExclusive, CasExclusive
<1>5. CASE BeginChangeToShared(p)
  BY <1>5 DEF Granted, HeldShared, HeldExclusive, BeginChangeToShared, Cas, Put
<1>6. CASE BeginChangeToExclusive(p)
  <2>1. value = Count(1) /\ call' = [call EXCEPT ![p] = "toExclusive"]
        /\ at' = [at EXCEPT ![p] = "setTTL"] /\ ~givingUp'[p] /\ UNCHANGED marks
    BY <1>6 DEF BeginChangeToExclusive, Cas
  <2>2. Idle(p) /\ shared[p] > 0 /\ \A q \in Procs : Idle(q)
    BY <1>6 DEF BeginChangeToExclusive
  <2>3. Raised(p) = shared[p] /\ value # Exclusive
    BY <2>1, <2>2, KeyTells DEF Raised
  <2>4. shared[p] = 1 /\ \A q \in Procs \ {p} : ~Holds(q)
    BY <2>1, <2>2, <2>3, AloneShared
  <2>5. \A q \in Procs \ {p} : HeldShared(q) = 0 /\ ~HeldExclusive(q)
    BY <2>2, <2>4, BoundsAssumption DEF Holds, HeldShared, HeldExclusive
  <2>6. HeldShared(p) = 1
    BY <2>2, <2>4 DEF HeldShared
  <2>7. HeldShared(p)' = 0 /\ HeldExclusive(p)'
    BY <2>1, <2>4 DEF HeldShared, HeldExclusive
  <2> QED
    BY <2>5, <2>6, <2>7 DEF Granted
<1>7. CASE SetTTL(p)
  <2>1. /\ at[p] = "setTTL" /\ ~givingUp[p] /\ ~givingUp'[p] /\ call'[p] = "none"
        /\ call[p] \in {"acquireShared", "acquireExclusive", "toShared", "toExclusive"}
    <3>1. at[p] = "setTTL" /\ givingUp' = givingUp /\ Leave(p)
      BY <1>7 DEF SetTTL
    <3>2. call[p] \in {"acquireShared", "acquireExclusive", "toShared", "toExclusive"}
      BY <3>1, AtSetTTL
    <3> QED
      BY <3>1, <3>2
  <2>2. CASE call[p] = "acquireShared"
    <3>1. Raised(p) > 0
      BY <2>1, <2>2, BoundsAssumption DEF Raised
    <3>2. value # Exclusive
      BY <3>1, ExclusiveNoUnits
    <3>3. \A q \in Procs : ~HeldExclusive(q)
      BY <3>2, HeldUnits
    <3>4. HeldShared(p) = shared[p] /\ shared'[p] = shared[p] + 1 /\ exclusive'[p] = exclusive[p]
      BY <1>7, <2>1, <2>2 DEF SetTTL, HeldShared
    <3>5. HeldShared(p)' = HeldShared(p) + 1
      BY <2>1, <3>4 DEF HeldShared
    <3>6. ~exclusive[p]
      BY <2>2, <3>3 DEF HeldExclusive
    <3>7. ~HeldExclusive(p)'
      BY <2>1, <3>4, <3>6 DEF HeldExclusive
    <3> QED
      BY <3>3, <3>5, <3>7 DEF Granted
  <2>3. CASE call[p] = "acquireExclusive"
    <3>1. Owns(p)
      BY <2>1, <2>3 DEF Owns
    <3>2. HeldShared(p) = shared[p] /\ shared'[p] = shared[p] /\ exclusive'[p]
      BY <1>7, <2>1, <2>3 DEF SetTTL, HeldShared
    <3>3. HeldShared(p)' = HeldShared(p)
      BY <2>1, <3>2 DEF HeldShared
    <3>4. HeldExclusive(p)'
      BY <2>1, <3>2 DEF HeldExclusive
    <3>5. CASE HeldExclusive(p)
      BY <3>3, <3>4, <3>5 DEF Granted
    <3>6. CASE ~HeldExclusive(p)
      <4>1. value = Exclusive /\ \A q \in Procs \ {p} : ~Owns(q)
        BY <3>1 DEF CoverInv, Owned
      <4>2. \A q \in Procs : HeldShared(q) = 0
        BY <4>1, HeldUnits, ExclusiveNoUnits
      <4>3. \A q \in Procs : ~HeldExclusive(q)
        BY <3>6, <4>1 DEF Owns
      <4> QED
        BY <3>3, <3>4, <4>2, <4>3 DEF Granted
    <3> QED
      BY <3>5, <3>6
  <2>4. CASE call[p] = "toShared"
    <3>1. HeldShared(p) = shared[p] + 1 /\ shared'[p] = shared[p] + 1 /\ ~exclusive'[p]
      BY <1>7, <2>1, <2>4 DEF SetTTL, HeldShared
    <3>2. HeldShared(p)' = HeldShared(p)
      BY <2>1, <3>1 DEF HeldShared
    <3>3. ~HeldExclusive(p) /\ ~HeldExclusive(p)'
      BY <2>1, <2>4, <3>1 DEF HeldExclusive
    <3> QED
      BY <3>2, <3>3 DEF Granted
  <2>5. CASE call[p] = "toExclusive"
    <3>1. HeldShared(p) = shared[p] - 1 /\ shared'[p] = shared[p] - 1 /\ exclusive'[p]
      BY <1>7, <2>1, <2>5 DEF SetTTL, HeldShared
    <3>2. HeldShared(p)' = HeldShared(p)
      BY <2>1, <3>1 DEF HeldShared
    <3>3. HeldExclusive(p) /\ HeldExclusive(p)'
      BY <2>1, <2>5, <3>1 DEF HeldExclusive
    <3> QED
      BY <3>2, <3>3 DEF Granted
  <2> QED
    BY <2>1, <2>2, <2>3, <2>4, <2>5
<1>8. CASE BeginReleaseShared(p)
  BY <1>8 DEF Granted, HeldShared, HeldExclusive, BeginReleaseShared, MarkRelease
<1>9. CASE Dec(p)
  BY <1>9 DEF Granted, HeldShared, HeldExclusive, Dec, MarkRelease
<1>10. CASE Reset(p)
  BY <1>10 DEF Granted, HeldShared, HeldExclusive, Reset, MarkRelease
<1>11. CASE RestoreGet(p)
  BY <1>11 DEF Granted, HeldShared, HeldExclusive, RestoreGet, Restored, MarkRelease
<1>12. CASE RestoreGetTTL(p)
  BY <1>12 DEF Granted, HeldShared, HeldExclusive, RestoreGetTTL, Restored, MarkRelease
<1>13. CASE RestoreSetTTL(p)
  BY <1>13 DEF Granted, HeldShared, HeldExclusive, RestoreSetTTL, Restored, MarkRelease
<1>14. CASE ReleaseExclusive(p)
  BY <1>14 DEF Granted, HeldShared, HeldExclusive, ReleaseExclusive
<1>15. CASE NextRequest(p)
  BY <1>15 DEF Granted, HeldShared, HeldExclusive, NextRequest
<1> QED
  BY <1>1, <1>2, <1>3, <1>4, <1>5, <1>6, <1>7, <1>8, <1>9, <1>10, <1>11, <1>12, <1>13,
     <1>14, <1>15
  DEF ProviderStep

(***************************************************************************)
(* Each of these is a step of the readers-writer lock.                     *)
(***************************************************************************)
LEMMA GrantedSimulated ==
  ASSUME NEW p \in Procs, Granted(p),
         \A q \in Procs : HeldShared(q) \in Nat,
         \A q \in Procs \ {p} : HeldShared(q)' = HeldShared(q)
                                /\ (HeldExclusive(q)' <=> HeldExclusive(q))
  PROVE  Abstract!Next \/ (S' = S /\ X' = X)
<1>1. \A q \in Procs \ {p} : HeldExclusive(q)' = HeldExclusive(q)
  BY Zenon DEF HeldExclusive
<1>2. ASSUME NEW n, HeldShared(p)' = n PROVE S' = [S EXCEPT ![p][Key] = n]
  BY <1>2 DEF S
<1>3. ASSUME NEW b \in BOOLEAN, HeldExclusive(p)' = b PROVE X' = [X EXCEPT ![p][Key] = b]
  BY <1>1, <1>3 DEF X
<1>4. HeldShared(p)' = HeldShared(p) => S' = S
  BY DEF S
<1>5. (HeldExclusive(p)' <=> HeldExclusive(p)) => X' = X
  <2>1. (HeldExclusive(p)' <=> HeldExclusive(p)) => HeldExclusive(p)' = HeldExclusive(p)
    BY Zenon DEF HeldExclusive
  <2> QED
    BY <1>1, <2>1 DEF X
<1>6. HeldExclusive(p)' => X' = [X EXCEPT ![p][Key] = TRUE]
  <2>1. HeldExclusive(p)' => HeldExclusive(p)' = TRUE
    BY Zenon DEF HeldExclusive
  <2> QED
    BY <1>3, <2>1
<1>7. ~HeldExclusive(p)' => X' = [X EXCEPT ![p][Key] = FALSE]
  <2>1. ~HeldExclusive(p)' => HeldExclusive(p)' = FALSE
    BY Zenon DEF HeldExclusive
  <2> QED
    BY <1>3, <2>1
<1>8. \A q \in Procs : S[q][Key] = HeldShared(q) /\ (X[q][Key] <=> HeldExclusive(q))
  BY DEF S, X
<1>10. CASE HeldShared(p)' = HeldShared(p) /\ (HeldExclusive(p)' <=> HeldExclusive(p))
  BY <1>4, <1>5, <1>10
<1>11. CASE /\ \A q \in Procs : ~HeldExclusive(q)
            /\ HeldShared(p)' = HeldShared(p) + 1 /\ ~HeldExclusive(p)'
  <2>1. S' = [S EXCEPT ![p][Key] = S[p][Key] + 1]
    BY <1>2, <1>8, <1>11
  <2>2. X' = X
    BY <1>5, <1>11
  <2>3. \A q \in Procs : ~X[q][Key]
    BY <1>8, <1>11
  <2>4. Abstract!AcquireShared(p, Key)
    BY <2>1, <2>2, <2>3 DEF Abstract!AcquireShared, S, X
  <2> QED
    BY <2>4 DEF Abstract!Next
<1>12. CASE /\ \A q \in Procs : HeldShared(q) = 0 /\ ~HeldExclusive(q)
            /\ HeldShared(p)' = 0 /\ HeldExclusive(p)'
  <2>1. S' = S
    BY <1>4, <1>12
  <2>2. X' = [X EXCEPT ![p][Key] = TRUE]
    BY <1>6, <1>12
  <2>3. \A q \in Procs : ~(S[q][Key] > 0) /\ ~X[q][Key]
    BY <1>8, <1>12
  <2>4. Abstract!AcquireExclusive(p, Key)
    BY <2>1, <2>2, <2>3 DEF Abstract!AcquireExclusive, Abstract!Holds, S, X
  <2> QED
    BY <2>4 DEF Abstract!Next
<1>13. CASE /\ HeldShared(p) > 0
            /\ HeldShared(p)' = HeldShared(p) - 1 /\ (HeldExclusive(p)' <=> HeldExclusive(p))
  <2>1. S' = [S EXCEPT ![p][Key] = S[p][Key] - 1]
    BY <1>2, <1>8, <1>13
  <2>2. X' = X
    BY <1>5, <1>13
  <2>3. S[p][Key] > 0
    BY <1>8, <1>13
  <2>4. Abstract!ReleaseShared(p, Key)
    BY <2>1, <2>2, <2>3 DEF Abstract!ReleaseShared, S, X
  <2> QED
    BY <2>4 DEF Abstract!Next
<1>14. CASE /\ HeldExclusive(p)
            /\ HeldShared(p)' = HeldShared(p) /\ ~HeldExclusive(p)'
  <2>1. S' = S
    BY <1>4, <1>14
  <2>2. X' = [X EXCEPT ![p][Key] = FALSE]
    BY <1>7, <1>14
  <2>3. X[p][Key]
    BY <1>8, <1>14
  <2>4. Abstract!ReleaseExclusive(p, Key)
    BY <2>1, <2>2, <2>3 DEF Abstract!ReleaseExclusive, S, X
  <2> QED
    BY <2>4 DEF Abstract!Next
<1>15. CASE /\ HeldExclusive(p)
            /\ HeldShared(p)' = HeldShared(p) + 1 /\ ~HeldExclusive(p)'
  <2>1. S' = [S EXCEPT ![p][Key] = S[p][Key] + 1]
    BY <1>2, <1>8, <1>15
  <2>2. X' = [X EXCEPT ![p][Key] = FALSE]
    BY <1>7, <1>15
  <2>3. X[p][Key]
    BY <1>8, <1>15
  <2>4. Abstract!ChangeToShared(p, Key)
    BY <2>1, <2>2, <2>3 DEF Abstract!ChangeToShared, S, X
  <2> QED
    BY <2>4 DEF Abstract!Next
<1>16. CASE /\ HeldShared(p) = 1 /\ \A q \in Procs \ {p} : HeldShared(q) = 0
            /\ \A q \in Procs \ {p} : ~HeldExclusive(q)
            /\ HeldShared(p)' = 0 /\ HeldExclusive(p)'
  <2>1. S' = [S EXCEPT ![p][Key] = 0]
    BY <1>2, <1>16
  <2>2. X' = [X EXCEPT ![p][Key] = TRUE]
    BY <1>6, <1>16
  <2>3. S[p][Key] = 1 /\ \A q \in Procs \ {p} : ~(S[q][Key] > 0) /\ ~X[q][Key]
    BY <1>8, <1>16
  <2>4. Abstract!ChangeToExclusive(p, Key)
    BY <2>1, <2>2, <2>3 DEF Abstract!ChangeToExclusive, Abstract!Holds, S, X
  <2> QED
    BY <2>4 DEF Abstract!Next
<1> QED
  BY <1>10, <1>11, <1>12, <1>13, <1>14, <1>15, <1>16 DEF Granted

LEMMA CrashSimulated ==
  ASSUME TypeInv, NEW p \in Procs, Crash(p)
  PROVE  Abstract!Next
<1>1. \A q \in Procs \ {p} : HeldShared(q)' = HeldShared(q)
                             /\ (HeldExclusive(q)' <=> HeldExclusive(q))
  BY OthersHold
<1>2. \A q \in Procs \ {p} : HeldExclusive(q)' = HeldExclusive(q)
  BY <1>1, Zenon DEF HeldExclusive
<1>3. /\ shared'[p] = 0 /\ ~exclusive'[p] /\ ~givingUp'[p]
      /\ call'[p] = "none" /\ at'[p] = "idle"
  BY DEF TypeInv, TypeOK, Crash, Leave
<1>4. HeldShared(p)' = 0 /\ ~HeldExclusive(p)'
  BY <1>3 DEF HeldShared, HeldExclusive, In
<1>5. HeldExclusive(p)' = FALSE
  BY <1>4, Zenon DEF HeldExclusive
<1>6. S' = [S EXCEPT ![p] = [k \in {Key} |-> 0]]
  BY <1>1, <1>4 DEF S
<1>7. X' = [X EXCEPT ![p] = [k \in {Key} |-> FALSE]]
  BY <1>2, <1>5 DEF X
<1>8. Abstract!Gone(p)
  BY <1>6, <1>7 DEF Abstract!Gone, S, X
<1> QED
  BY <1>8 DEF Abstract!Next

(***************************************************************************)
(* The provider implements the readers-writer lock of FileLock, while no   *)
(* two calls overlap and readers come more than a second apart.            *)
(***************************************************************************)
THEOREM Implementation ==
  ASSUME Env \subseteq {"crash"}
  PROVE  Spec => ImplementsFileLock
<1>1. Init => Abstract!Init
  <2> SUFFICES ASSUME Init PROVE Abstract!Init
    OBVIOUS
  <2>1. \A p \in Procs : HeldShared(p) = 0 /\ ~HeldExclusive(p)
    BY DEF Init, HeldShared, HeldExclusive, In
  <2>2. \A p \in Procs : HeldExclusive(p) = FALSE
    BY <2>1, Zenon DEF HeldExclusive
  <2> QED
    BY <2>1, <2>2 DEF Abstract!Init
<1>2. CoverInv /\ [Next]_vars => [Abstract!Next]_(Abstract!vars)
  <2> SUFFICES ASSUME CoverInv, [Next]_vars
               PROVE  Abstract!Next \/ (S' = S /\ X' = X)
    BY DEF Abstract!vars, S, X
  <2>1. ASSUME NEW p \in Procs, ProviderStep(p)
        PROVE  Abstract!Next \/ (S' = S /\ X' = X)
    <3>1. Granted(p)
      BY <2>1, GrantedStep
    <3>2. \A q \in Procs : HeldShared(q) \in Nat
      BY HeldUnits
    <3>3. \A q \in Procs \ {p} : HeldShared(q)' = HeldShared(q)
                                 /\ (HeldExclusive(q)' <=> HeldExclusive(q))
      BY <2>1, OthersHold DEF CoverInv
    <3> QED
      BY <3>1, <3>2, <3>3, GrantedSimulated
  <2>2. ASSUME NEW p \in Procs, Crash(p) PROVE Abstract!Next
    BY <2>2, CrashSimulated DEF CoverInv
  <2>3. CASE Tick
    BY <2>3 DEF Tick, S, X, HeldShared, HeldExclusive, In, marks, control, client
  <2>4. CASE UNCHANGED vars
    BY <2>4 DEF vars, S, X, HeldShared, HeldExclusive, In, marks, control, client
  <2> QED
    BY <2>1, <2>2, <2>3, <2>4 DEF Next
<1> QED
  BY <1>1, <1>2, CoverAlways, PTL DEF Spec, ImplementsFileLock, Abstract!Spec
=============================================================================
