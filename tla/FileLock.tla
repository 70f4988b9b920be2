------------------------------ MODULE FileLock ------------------------------
(***************************************************************************)
(* What Nextcloud's transactional file locking promises to its callers,    *)
(* whatever stores the locks (lib/public/Lock/ILockingProvider.php): a     *)
(* readers-writer lock per path.  A request may hold a path shared several *)
(* times; a request that holds it exclusively is its only holder.  A call  *)
(* that cannot be granted throws LockedException and changes nothing, so   *)
(* it is a stuttering step here; no call ever waits.                       *)
(***************************************************************************)
EXTENDS Naturals

CONSTANTS
  Procs,   \* the requests and command-line processes that share the lock store
  Paths    \* the lock keys

VARIABLES
  shared,     \* shared[p][k]: how often p holds k shared
  exclusive   \* exclusive[p][k]: p holds k exclusively

vars == <<shared, exclusive>>

Holds(p, k) == shared[p][k] > 0 \/ exclusive[p][k]

Init ==
  /\ shared = [p \in Procs |-> [k \in Paths |-> 0]]
  /\ exclusive = [p \in Procs |-> [k \in Paths |-> FALSE]]

(***************************************************************************)
(* acquireLock(k, LOCK_SHARED): nobody, the caller included, holds k       *)
(* exclusively.                                                            *)
(***************************************************************************)
AcquireShared(p, k) ==
  /\ \A q \in Procs : ~exclusive[q][k]
  /\ shared' = [shared EXCEPT ![p][k] = @ + 1]
  /\ UNCHANGED exclusive

(***************************************************************************)
(* acquireLock(k, LOCK_EXCLUSIVE): nobody, the caller included, holds k.   *)
(***************************************************************************)
AcquireExclusive(p, k) ==
  /\ \A q \in Procs : ~Holds(q, k)
  /\ exclusive' = [exclusive EXCEPT ![p][k] = TRUE]
  /\ UNCHANGED shared

ReleaseShared(p, k) ==
  /\ shared[p][k] > 0
  /\ shared' = [shared EXCEPT ![p][k] = @ - 1]
  /\ UNCHANGED exclusive

ReleaseExclusive(p, k) ==
  /\ exclusive[p][k]
  /\ exclusive' = [exclusive EXCEPT ![p][k] = FALSE]
  /\ UNCHANGED shared

(***************************************************************************)
(* changeLock(k, LOCK_SHARED): the exclusive lock becomes a shared one     *)
(* with no moment in between at which somebody else could take k.          *)
(***************************************************************************)
ChangeToShared(p, k) ==
  /\ exclusive[p][k]
  /\ exclusive' = [exclusive EXCEPT ![p][k] = FALSE]
  /\ shared' = [shared EXCEPT ![p][k] = @ + 1]

(***************************************************************************)
(* changeLock(k, LOCK_EXCLUSIVE): only for the single holder of a single   *)
(* shared lock.                                                            *)
(***************************************************************************)
ChangeToExclusive(p, k) ==
  /\ shared[p][k] = 1
  /\ \A q \in Procs \ {p} : ~Holds(q, k)
  /\ exclusive' = [exclusive EXCEPT ![p][k] = TRUE]
  /\ shared' = [shared EXCEPT ![p][k] = 0]

(***************************************************************************)
(* The process ends, or dies, and with it everything it held.              *)
(***************************************************************************)
Gone(p) ==
  /\ shared' = [shared EXCEPT ![p] = [k \in Paths |-> 0]]
  /\ exclusive' = [exclusive EXCEPT ![p] = [k \in Paths |-> FALSE]]

Next ==
  \E p \in Procs :
    \/ Gone(p)
    \/ \E k \in Paths :
         \/ AcquireShared(p, k)
         \/ AcquireExclusive(p, k)
         \/ ReleaseShared(p, k)
         \/ ReleaseExclusive(p, k)
         \/ ChangeToShared(p, k)
         \/ ChangeToExclusive(p, k)

Spec == Init /\ [][Next]_vars
=============================================================================
