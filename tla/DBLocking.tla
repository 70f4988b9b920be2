----------------------------- MODULE DBLocking ------------------------------
(***************************************************************************)
(* The database locking provider (lib/private/Lock/DBLockingProvider.php   *)
(* on top of AbstractLockingProvider.php), used by every process when no   *)
(* locking memcache is configured (lib/private/Server.php).                *)
(*                                                                         *)
(* Shared state is one row of oc_file_locks per path; private state is what *)
(* each process remembers of its own locks until its shutdown function     *)
(* releaseAll has run (lib/OC.php:888).  Every provider call writes the    *)
(* row in one SQL statement whose WHERE clause is the guard, so a call is  *)
(* one step.  (The INSERT that acquireLock tries first changes nothing     *)
(* when the row exists.)  A call that throws LockedException changes       *)
(* nothing.                                                                *)
(*                                                                         *)
(* The operators AcquireShared .. ChangeToExclusive are the provider as it *)
(* is, with no assumption on the caller; Next adds how clients call it.    *)
(***************************************************************************)
EXTENDS Integers, FiniteSets

CONSTANTS
  Procs,      \* web requests or command-line processes
  Paths,      \* lock keys
  Caching,    \* the processes that keep shared locks: web requests, not CLI ones
  Env,        \* liberties the processes take, see EnvKinds
  MaxShared,  \* bound: how often one process holds a path shared
  MaxRow      \* bound: the largest shared count of a row

(***************************************************************************)
(*  "crash"    a process dies without running releaseAll                   *)
(*  "outlive"  a process holds a lock longer than the lock's ttl           *)
(*  "reuse"    a process takes a lock exclusively from scratch although it *)
(*             still keeps the path's shared lock from an earlier call     *)
(*  "unowned"  a process that caches releases a shared lock it does not    *)
(*             hold, as a failed rename does (lib/private/Files/View.php:876) *)
(***************************************************************************)
EnvKinds == {"crash", "outlive", "reuse", "unowned"}

ASSUME EnvAssumption == Env \subseteq EnvKinds
ASSUME CachingAssumption == Caching \subseteq Procs
ASSUME BoundsAssumption == MaxShared \in Nat \ {0} /\ MaxRow \in Nat \ {0}
ASSUME ProcsAssumption == IsFiniteSet(Procs)

VARIABLES
  lock,       \* lock[k]: column "lock" of k's row, or NoRow
  expired,    \* expired[k]: the row's ttl lies in the past
  shared,     \* shared[p][k]: p's acquiredLocks['shared'][k]
  exclusive,  \* exclusive[p][k]: p's acquiredLocks['exclusive'][k]
  kept,       \* kept[p][k]: p's sharedLocks[k], a shared lock p keeps in the row
  closing     \* closing[p]: p is inside releaseAll

rows == <<lock, expired>>
own == <<shared, exclusive, kept>>
vars == <<lock, expired, shared, exclusive, kept, closing>>

NoRow == -2
ExclusiveValue == -1

Holds(p, k) == shared[p][k] > 0 \/ exclusive[p][k]

(***************************************************************************)
(* Does p still count on k's row?                                          *)
(***************************************************************************)
Relies(p, k) == Holds(p, k) \/ kept[p][k]

TypeOK ==
  /\ lock \in [Paths -> {NoRow, ExclusiveValue} \cup Nat]
  /\ expired \in [Paths -> BOOLEAN]
  /\ shared \in [Procs -> [Paths -> 0..MaxShared]]
  /\ exclusive \in [Procs -> [Paths -> BOOLEAN]]
  /\ kept \in [Procs -> [Paths -> BOOLEAN]]
  /\ closing \in [Procs -> BOOLEAN]

Init ==
  /\ lock = [k \in Paths |-> NoRow]
  /\ expired = [k \in Paths |-> FALSE]
  /\ shared = [p \in Procs |-> [k \in Paths |-> 0]]
  /\ exclusive = [p \in Procs |-> [k \in Paths |-> FALSE]]
  /\ kept = [p \in Procs |-> [k \in Paths |-> FALSE]]
  /\ closing = [p \in Procs |-> FALSE]

-----------------------------------------------------------------------------
(***************************************************************************)
(* The provider's calls.  XGranted is "the call does not throw".           *)
(***************************************************************************)

\* The statement that grants a lock also renews the row's ttl.
WriteRow(k, value) ==
  /\ lock' = [lock EXCEPT ![k] = value]
  /\ expired' = [expired EXCEPT ![k] = FALSE]

AcquireSharedGranted(p, k) == kept[p][k] \/ lock[k] # ExclusiveValue

AcquireShared(p, k) ==
  /\ AcquireSharedGranted(p, k)
  /\ IF kept[p][k]
       THEN UNCHANGED rows
       ELSE WriteRow(k, IF lock[k] = NoRow THEN 1 ELSE lock[k] + 1)
  /\ shared' = [shared EXCEPT ![p][k] = @ + 1]
  /\ kept' = [kept EXCEPT ![p][k] = @ \/ p \in Caching]
  /\ UNCHANGED exclusive

\* The row value from which acquireLock(k, LOCK_EXCLUSIVE) may start: the
\* lock that p keeps but no longer holds counts as one.
ExistingFor(p, k) == IF shared[p][k] = 0 /\ kept[p][k] THEN 1 ELSE 0

AcquireExclusiveGranted(p, k) == lock[k] \in {NoRow, ExistingFor(p, k)}

AcquireExclusive(p, k) ==
  /\ AcquireExclusiveGranted(p, k)
  /\ WriteRow(k, ExclusiveValue)
  /\ exclusive' = [exclusive EXCEPT ![p][k] = TRUE]
  /\ UNCHANGED <<shared, kept>>

\* Mutant: a release in excess is counted.
ReleaseSharedInExcess(p, k) ==
  /\ shared' = [shared EXCEPT ![p][k] = @ - 1]
  /\ lock' = [lock EXCEPT ![k] = IF p \notin Caching /\ @ > 0 THEN @ - 1 ELSE @]
  /\ UNCHANGED <<expired, exclusive, kept>>

\* Mutant: a caching process, too, takes its lock out of the row at once.
ReleaseSharedUncached(p, k) ==
  /\ shared' = [shared EXCEPT ![p][k] = IF @ > 0 THEN @ - 1 ELSE @]
  /\ lock' = [lock EXCEPT ![k] = IF @ > 0 THEN @ - 1 ELSE @]
  /\ UNCHANGED <<expired, exclusive, kept>>

\* Releasing never throws, and looks at the row, not at who holds it.
ReleaseShared(p, k) ==
  /\ shared' = [shared EXCEPT ![p][k] = IF @ > 0 THEN @ - 1 ELSE @]
  /\ lock' = [lock EXCEPT ![k] = IF p \notin Caching /\ @ > 0 THEN @ - 1 ELSE @]
  /\ UNCHANGED <<expired, exclusive, kept>>

ReleaseExclusive(p, k) ==
  /\ exclusive' = [exclusive EXCEPT ![p][k] = FALSE]
  /\ lock' = [lock EXCEPT ![k] = IF @ = ExclusiveValue THEN 0 ELSE @]
  /\ UNCHANGED <<expired, shared, kept>>

ChangeToSharedGranted(p, k) == lock[k] = ExclusiveValue

ChangeToShared(p, k) ==
  /\ ChangeToSharedGranted(p, k)
  /\ WriteRow(k, 1)
  /\ exclusive' = [exclusive EXCEPT ![p][k] = FALSE]
  /\ shared' = [shared EXCEPT ![p][k] = @ + 1]
  /\ kept' = [kept EXCEPT ![p][k] = @ \/ p \in Caching]

\* Mutant: the count of the process's own shared locks is not looked at.
ChangeToExclusiveGrantedOwnMany(p, k) == lock[k] = 1

ChangeToExclusiveGranted(p, k) == shared[p][k] <= 1 /\ lock[k] = 1

ChangeToExclusive(p, k) ==
  /\ ChangeToExclusiveGranted(p, k)
  /\ WriteRow(k, ExclusiveValue)
  /\ exclusive' = [exclusive EXCEPT ![p][k] = TRUE]
  /\ shared' = [shared EXCEPT ![p][k] = @ - 1]
  /\ kept' = [kept EXCEPT ![p][k] = FALSE]

\* Mutant: the kept shared locks are forgotten.
ReleaseKeptForgotten(p) == UNCHANGED <<lock, expired, shared, exclusive>>

\* releaseAll's last statement: the kept shared locks leave their rows.
ReleaseKept(p) ==
  /\ lock' = [k \in Paths |->
                IF kept[p][k] /\ lock[k] > 0 THEN lock[k] - 1 ELSE lock[k]]
  /\ UNCHANGED <<expired, shared, exclusive>>

\* Mutant: only the row is read.
IsLockedRowOnly(p, k, exclusively) ==
  IF exclusively THEN lock[k] = ExclusiveValue
  ELSE lock[k] > (IF kept[p][k] THEN 1 ELSE 0)

IsLocked(p, k, exclusively) ==
  \/ IF exclusively THEN exclusive[p][k] ELSE shared[p][k] > 0
  \/ IF exclusively THEN lock[k] = ExclusiveValue
     ELSE lock[k] > (IF kept[p][k] THEN 1 ELSE 0)

-----------------------------------------------------------------------------
(***************************************************************************)
(* The provider's clients: which calls a process makes, and its end.       *)
(***************************************************************************)

ClientAcquireShared(p, k) ==
  /\ shared[p][k] < MaxShared
  /\ lock[k] < MaxRow
  /\ AcquireShared(p, k)

ClientAcquireExclusive(p, k) ==
  /\ "reuse" \in Env \/ ~kept[p][k]
  /\ AcquireExclusive(p, k)

ClientReleaseShared(p, k) ==
  /\ shared[p][k] > 0 \/ (p \in Caching /\ "unowned" \in Env)
  /\ ReleaseShared(p, k)

ClientReleaseExclusive(p, k) ==
  /\ exclusive[p][k]
  /\ ReleaseExclusive(p, k)

ClientChangeToShared(p, k) ==
  /\ exclusive[p][k]
  /\ shared[p][k] < MaxShared
  /\ ChangeToShared(p, k)

ClientChangeToExclusive(p, k) ==
  /\ shared[p][k] > 0
  /\ ChangeToExclusive(p, k)

(***************************************************************************)
(* The shutdown function: releaseAll releases every shared lock, then      *)
(* every exclusive one, then the kept rows, one statement at a time.  The  *)
(* name p then stands for the next request, which starts with nothing.     *)
(***************************************************************************)
BeginReleaseAll(p) ==
  /\ \E k \in Paths : Relies(p, k)
  /\ closing' = [closing EXCEPT ![p] = TRUE]
  /\ UNCHANGED <<rows, own>>

ReleaseAllShared(p, k) ==
  /\ shared[p][k] > 0
  /\ ReleaseShared(p, k)

ReleaseAllExclusive(p, k) ==
  /\ \A j \in Paths : shared[p][j] = 0
  /\ exclusive[p][k]
  /\ ReleaseExclusive(p, k)

EndReleaseAll(p) ==
  /\ \A k \in Paths : ~Holds(p, k)
  /\ ReleaseKept(p)
  /\ kept' = [kept EXCEPT ![p] = [k \in Paths |-> FALSE]]
  /\ closing' = [closing EXCEPT ![p] = FALSE]

(***************************************************************************)
(* The process is killed: its rows stay, its memory goes.                  *)
(***************************************************************************)
Crash(p) ==
  /\ "crash" \in Env
  /\ \E k \in Paths : Relies(p, k)
  /\ shared' = [shared EXCEPT ![p] = [k \in Paths |-> 0]]
  /\ exclusive' = [exclusive EXCEPT ![p] = [k \in Paths |-> FALSE]]
  /\ kept' = [kept EXCEPT ![p] = [k \in Paths |-> FALSE]]
  /\ closing' = [closing EXCEPT ![p] = FALSE]
  /\ UNCHANGED rows

(***************************************************************************)
(* Time: k's ttl passes.  The default ttl is at least an hour and at least *)
(* max_execution_time (lib/private/Server.php:860), so unless "outlive" is *)
(* allowed nobody relies on the row any more.                              *)
(***************************************************************************)
TtlPasses(k) ==
  /\ lock[k] # NoRow
  /\ ~expired[k]
  /\ "outlive" \in Env \/ \A p \in Procs : ~Relies(p, k)
  /\ expired' = [expired EXCEPT ![k] = TRUE]
  /\ UNCHANGED <<lock, own, closing>>

\* Mutant: the rows are deleted whatever their ttl.
CleanAllLocks ==
  /\ \E k \in Paths : lock[k] # NoRow
  /\ lock' = [k \in Paths |-> NoRow]
  /\ expired' = [k \in Paths |-> FALSE]
  /\ UNCHANGED <<own, closing>>

\* Mutant: the rows of exclusive locks stay.
CleanSharedLocks ==
  /\ \E k \in Paths : expired[k] /\ lock[k] >= 0
  /\ lock' = [k \in Paths |-> IF expired[k] /\ lock[k] >= 0 THEN NoRow ELSE lock[k]]
  /\ expired' = [k \in Paths |-> expired[k] /\ lock[k] < 0]
  /\ UNCHANGED <<own, closing>>

\* The background job CleanupFileLocks, every five minutes.
CleanExpiredLocks ==
  /\ \E k \in Paths : expired[k]
  /\ lock' = [k \in Paths |-> IF expired[k] THEN NoRow ELSE lock[k]]
  /\ expired' = [k \in Paths |-> FALSE]
  /\ UNCHANGED <<own, closing>>

ClientCall(p, k) ==
  \/ ClientAcquireShared(p, k)
  \/ ClientAcquireExclusive(p, k)
  \/ ClientReleaseShared(p, k)
  \/ ClientReleaseExclusive(p, k)
  \/ ClientChangeToShared(p, k)
  \/ ClientChangeToExclusive(p, k)

Running(p) ==
  /\ ~closing[p]
  /\ \/ BeginReleaseAll(p)
     \/ UNCHANGED closing /\ \E k \in Paths : ClientCall(p, k)

Closing(p) ==
  /\ closing[p]
  /\ \/ EndReleaseAll(p)
     \/ UNCHANGED closing /\ \E k \in Paths : ReleaseAllShared(p, k)
     \/ UNCHANGED closing /\ \E k \in Paths : ReleaseAllExclusive(p, k)

Next ==
  \/ \E p \in Procs : Running(p) \/ Closing(p) \/ Crash(p)
  \/ \E k \in Paths : TtlPasses(k)
  \/ CleanExpiredLocks

Spec == Init /\ [][Next]_vars

(***************************************************************************)
(* A process that has begun to shut down finishes (WF on Closing); time    *)
(* passes; cron runs the clean-up job.  Nothing makes a client call.       *)
(***************************************************************************)
Fairness ==
  /\ \A p \in Procs : WF_vars(Closing(p))
  /\ \A k \in Paths : WF_vars(TtlPasses(k))
  /\ WF_vars(CleanExpiredLocks)

FairSpec == Spec /\ Fairness

-----------------------------------------------------------------------------
(***************************************************************************)
(* Mutual exclusion, the point of locking: whoever holds a path            *)
(* exclusively (acquireLock or changeLock returned) is its only holder,    *)
(* and holds it in no other way.                                           *)
(***************************************************************************)
MutualExclusion ==
  \A k \in Paths : \A p, q \in Procs :
    exclusive[p][k] => /\ shared[q][k] = 0
                       /\ exclusive[q][k] => p = q

(***************************************************************************)
(* By how much p has raised k's row: by one for a lock it keeps, if it     *)
(* keeps shared locks, else by the number of shared locks it holds.        *)
(***************************************************************************)
Contribution(p, k) ==
  IF p \in Caching THEN (IF kept[p][k] THEN 1 ELSE 0) ELSE shared[p][k]

\* The contributions of all processes, as a set to count.
Units(k) == {u \in Procs \X (1..MaxShared) : u[2] <= Contribution(u[1], k)}

(***************************************************************************)
(* The row is what protects the holders: it is exclusive while somebody    *)
(* holds the path exclusively, counts at least every unit a living process *)
(* has put there, and is not up for deletion while a process relies on it. *)
(* A caching process keeps every shared lock it holds.  This is            *)
(* what acquireLock, releaseLock, changeLock, releaseAll, a crash and the  *)
(* clean-up job must all maintain, and it is inductive.                    *)
(***************************************************************************)
RowCovers(k) ==
  /\ \A p \in Procs : exclusive[p][k] => lock[k] = ExclusiveValue
  /\ \A p, q \in Procs : exclusive[p][k] /\ exclusive[q][k] => p = q
  /\ lock[k] = ExclusiveValue => Units(k) = {}
  /\ lock[k] = NoRow => Units(k) = {}
  /\ lock[k] >= 0 => Cardinality(Units(k)) <= lock[k]
  /\ \A p \in Procs : Relies(p, k) => ~expired[k]
  /\ \A p \in Procs :
       IF p \in Caching THEN shared[p][k] > 0 => kept[p][k] ELSE ~kept[p][k]

RowCoversHolders == \A k \in Paths : RowCovers(k)

(***************************************************************************)
(* No lock is leaked: as long as no process is killed, a row says exactly  *)
(* what the living processes put there.  So once every request has run     *)
(* releaseAll, nothing is left that could refuse a later one.              *)
(***************************************************************************)
NoStrayLock ==
  \A k \in Paths :
    /\ lock[k] = ExclusiveValue => \E p \in Procs : exclusive[p][k]
    /\ lock[k] >= 0 => Cardinality(Units(k)) = lock[k]

(***************************************************************************)
(* isLocked never misses a holder: an exclusive lock is seen by every      *)
(* process and a shared one by its owner and by every other process, also  *)
(* by one whose own kept lock is discounted (DBLockingProvider.php:95).    *)
(***************************************************************************)
IsLockedSeesHolders ==
  \A k \in Paths : \A p, q \in Procs :
    /\ exclusive[p][k] => IsLocked(q, k, TRUE)
    /\ shared[p][k] > 0 => IsLocked(q, k, FALSE)

(***************************************************************************)
(* The comment at DBLockingProvider.php:96: "if we have a shared lock we   *)
(* kept open locally but it's released we always have at least 1 shared    *)
(* lock in the db".                                                        *)
(***************************************************************************)
KeptLockIsInDb ==
  \A p \in Procs, k \in Paths :
    kept[p][k] /\ ~Holds(p, k) => lock[k] >= 1

(***************************************************************************)
(* Crash recovery: an exclusive lock whose owner was killed does not       *)
(* refuse the path for ever; its row expires and is deleted.               *)
(***************************************************************************)
StrayExclusiveCleared ==
  \A k \in Paths :
    (lock[k] = ExclusiveValue /\ \A p \in Procs : ~exclusive[p][k])
      ~> lock[k] # ExclusiveValue

(***************************************************************************)
(* The same for shared locks, "how long until we clear stray locks in      *)
(* seconds" (AbstractLockingProvider.php:26), but only once the path is    *)
(* left alone: every process that takes it shared renews the ttl of the    *)
(* whole row, the dead process's unit included.                            *)
(***************************************************************************)
UnusedPathCleared ==
  \A k \in Paths :
    <>[](\A p \in Procs : ~Relies(p, k)) => <>[](lock[k] = NoRow)

(***************************************************************************)
(* Both: no lock of a dead process stays for ever.                         *)
(***************************************************************************)
StrayLocksCleared == StrayExclusiveCleared /\ UnusedPathCleared

(***************************************************************************)
(* The provider implements the readers-writer lock: every step of a        *)
(* process grants or gives back what FileLock allows, with the state of    *)
(* the other processes as it is, or changes nothing there.                 *)
(***************************************************************************)
Abstract == INSTANCE FileLock

ImplementsFileLock == Abstract!Spec
=============================================================================
