-------------------------- MODULE MemcacheLocking ---------------------------
(***************************************************************************)
(* The memcache locking provider (lib/private/Lock/                        *)
(* MemcacheLockingProvider.php) on a key-value store with ttls             *)
(* (lib/private/Memcache/Redis.php; KeyValueCache.php does the same), for  *)
(* one path: the keys of two paths never meet.                             *)
(*                                                                         *)
(* A provider call is a sequence of store commands, each of them atomic    *)
(* (a Redis command or a Lua script), with other processes' commands in    *)
(* between.  The clock counts seconds; it stands still during a call.      *)
(***************************************************************************)
EXTENDS Integers, FiniteSets

CONSTANTS
  Procs,      \* web requests or command-line processes
  Env,        \* liberties the processes take, see EnvKinds
  MaxShared,  \* bound: how often one process holds the path shared
  MaxCount,   \* bound: the count from which nobody starts another acquireLock
  Ttl,        \* the provider's ttl in seconds
  MaxTime     \* bound: the last second of the clock

(***************************************************************************)
(*  "crash"     a process dies without running releaseAll                  *)
(*  "together"  two processes take the path shared within a second of each *)
(*              other                                                      *)
(*  "overlap"   a process starts a call while another one is in a call     *)
(*  "refused"   a process tries to make its shared lock exclusive although *)
(*              it is not the only one on the key                          *)
(***************************************************************************)
EnvKinds == {"crash", "together", "overlap", "refused"}

ASSUME EnvAssumption == Env \subseteq EnvKinds
ASSUME BoundsAssumption == MaxShared \in Nat \ {0} /\ MaxCount \in Nat /\ MaxTime \in Nat
ASSUME TtlAssumption == Ttl \in Nat \ {0, 1}
ASSUME ProcsAssumption == IsFiniteSet(Procs)

VARIABLES
  value,      \* the key's value: NoKey, Exclusive or Count(n)
  expiry,     \* the second in which the key expires, or Never
  now,        \* the clock
  shared,     \* shared[p]: p's acquiredLocks['shared']
  exclusive,  \* exclusive[p]: p's acquiredLocks['exclusive']
  old,        \* old[p]: p's oldTTLs, or NoOld
  call,       \* call[p]: the provider call p is in
  at,         \* at[p]: the command it is at
  seen,       \* seen[p]: the value that p has read
  since,      \* since[p]: when p took the first of the locks it holds
  givingUp    \* givingUp[p]: a changeLock was refused, p only releases now

store == <<value, expiry>>
marks == <<shared, exclusive>>
control == <<call, at, seen>>
client == <<since, givingUp>>
vars == <<store, now, marks, old, control, client>>

NoKey == [kind |-> "none", n |-> 0]
Exclusive == [kind |-> "exclusive", n |-> 0]
Count(n) == [kind |-> "count", n |-> n]
Counts == [kind : {"count"}, n : Int]

Never == -1
NoOld == [ttl |-> -1, time |-> -1]

Calls == {"none", "acquireShared", "acquireExclusive", "releaseShared",
          "toShared", "toExclusive"}
Commands == {"idle", "inc", "cas", "setTTL", "dec", "reset",
             "get", "getTTL", "compareSetTTL"}

TypeOK ==
  /\ value \in {NoKey, Exclusive} \cup Counts
  /\ expiry \in {Never} \cup 1..(MaxTime + Ttl)
  /\ value = NoKey => expiry = Never
  /\ now \in 0..MaxTime
  /\ shared \in [Procs -> 0..MaxShared]
  /\ exclusive \in [Procs -> BOOLEAN]
  /\ old \in [Procs -> [ttl : -1..Ttl, time : -1..MaxTime]]
  /\ call \in [Procs -> Calls]
  /\ at \in [Procs -> Commands]
  /\ seen \in [Procs -> {NoKey, Exclusive} \cup Counts]
  /\ since \in [Procs -> 0..MaxTime]
  /\ givingUp \in [Procs -> BOOLEAN]

Init ==
  /\ value = NoKey
  /\ expiry = Never
  /\ now = 0
  /\ shared = [p \in Procs |-> 0]
  /\ exclusive = [p \in Procs |-> FALSE]
  /\ old = [p \in Procs |-> NoOld]
  /\ call = [p \in Procs |-> "none"]
  /\ at = [p \in Procs |-> "idle"]
  /\ seen = [p \in Procs |-> NoKey]
  /\ since = [p \in Procs |-> 0]
  /\ givingUp = [p \in Procs |-> FALSE]

-----------------------------------------------------------------------------
(***************************************************************************)
(* The store.  SET and INCRBY on a missing key leave it without a ttl;     *)
(* INCRBY and DECRBY keep the ttl a key has.                               *)
(***************************************************************************)
Absent == value = NoKey
IsCount == value.kind = "count"

Put(v, e) == value' = v /\ expiry' = e
Delete == Put(NoKey, Never)

\* EXPIRE: a ttl that is not positive deletes the key.
Expire(ttl) ==
  IF Absent THEN UNCHANGED store
  ELSE IF ttl <= 0 THEN Delete
  ELSE Put(value, now + ttl)

\* The Lua script "cas", then control goes on in the caller.
Cas(from, to) == value = from /\ Put(to, Never)

TtlNow == IF Absent \/ expiry = Never THEN -1 ELSE expiry - now

-----------------------------------------------------------------------------
Holds(p) == shared[p] > 0 \/ exclusive[p]

Enter(p, c, cmd) ==
  /\ call' = [call EXCEPT ![p] = c]
  /\ at' = [at EXCEPT ![p] = cmd]
  /\ UNCHANGED seen

Go(p, cmd) == at' = [at EXCEPT ![p] = cmd] /\ UNCHANGED <<call, seen>>

\* The call returns or throws.
Leave(p) ==
  /\ call' = [call EXCEPT ![p] = "none"]
  /\ at' = [at EXCEPT ![p] = "idle"]
  /\ seen' = [seen EXCEPT ![p] = NoKey]

ForgetOld(p) == old' = [old EXCEPT ![p] = NoOld]

MarkRelease(p) == shared' = [shared EXCEPT ![p] = @ - 1] /\ UNCHANGED exclusive

Idle(p) == call[p] = "none"
In(p, c, cmd) == call[p] = c /\ at[p] = cmd

\* p starts a call while no other process is in one.
Start(p) ==
  /\ Idle(p)
  /\ "overlap" \in Env \/ \A q \in Procs : Idle(q)

\* No other process took the path shared in this second or the last one.
Apart(p) ==
  "together" \in Env \/
    \A q \in Procs \ {p} : old[q] # NoOld => now > old[q].time + 1

(***************************************************************************)
(* acquireLock(LOCK_SHARED): remember the ttl, inc, setTTL.                *)
(***************************************************************************)
BeginAcquireShared(p) ==
  /\ Start(p)
  /\ ~givingUp[p]
  /\ shared[p] < MaxShared
  /\ value.n < MaxCount
  /\ Apart(p)
  /\ old' = [old EXCEPT ![p] = [ttl |-> TtlNow, time |-> now]]
  /\ Enter(p, "acquireShared", "inc")
  /\ UNCHANGED <<store, now, marks, client>>

\* INCRBY fails on "exclusive", and the call throws.  It also throws when the
\* new count is 0.
Inc(p) ==
  /\ In(p, "acquireShared", "inc")
  /\ value' = IF value = Exclusive THEN value ELSE Count(value.n + 1)
  /\ UNCHANGED expiry
  /\ IF value' \in {Exclusive, Count(0)} THEN Leave(p) ELSE Go(p, "setTTL")
  /\ UNCHANGED <<now, marks, old, client>>

(***************************************************************************)
(* acquireLock(LOCK_EXCLUSIVE): add 0, cas, setTTL.  (The ttl of a day     *)
(* that "add" gives the 0 is longer than the clock runs.)                  *)
(***************************************************************************)
BeginAcquireExclusive(p) ==
  /\ Start(p)
  /\ ~givingUp[p]
  /\ IF Absent THEN Put(Count(0), Never) ELSE UNCHANGED store
  /\ Enter(p, "acquireExclusive", "cas")
  /\ UNCHANGED <<now, marks, old, client>>

\* Mutant: any count will do.
CasExclusiveOverShared(p) ==
  /\ In(p, "acquireExclusive", "cas")
  /\ \/ IsCount /\ Put(Exclusive, Never) /\ ForgetOld(p) /\ Go(p, "setTTL")
     \/ ~IsCount /\ Leave(p) /\ UNCHANGED <<store, old>>
  /\ UNCHANGED <<now, marks, client>>

CasExclusive(p) ==
  /\ In(p, "acquireExclusive", "cas")
  /\ \/ Cas(Count(0), Exclusive) /\ ForgetOld(p) /\ Go(p, "setTTL")
     \/ value # Count(0) /\ Leave(p) /\ UNCHANGED <<store, old>>
  /\ UNCHANGED <<now, marks, client>>

(***************************************************************************)
(* changeLock: cas, setTTL.  A refused change to exclusive restores the    *)
(* ttl before it throws.                                                   *)
(***************************************************************************)
BeginChangeToShared(p) ==
  /\ Start(p)
  /\ ~givingUp[p]
  /\ exclusive[p]
  /\ shared[p] < MaxShared
  /\ Apart(p)
  /\ \/ Cas(Exclusive, Count(1)) /\ Enter(p, "toShared", "setTTL")
     \/ value # Exclusive /\ UNCHANGED <<store, control>>
  /\ UNCHANGED <<now, marks, old, client>>

BeginChangeToExclusive(p) ==
  /\ Start(p)
  /\ ~givingUp[p]
  /\ shared[p] > 0
  /\ \/ Cas(Count(1), Exclusive) /\ ForgetOld(p) /\ Enter(p, "toExclusive", "setTTL")
     \/ /\ value # Count(1) /\ "refused" \in Env
        /\ Enter(p, "toExclusive", "get")
        /\ UNCHANGED <<store, old>>
  /\ givingUp' = [givingUp EXCEPT ![p] = value # Count(1)]
  /\ UNCHANGED <<now, marks, since>>

(***************************************************************************)
(* setTTL, then markAcquire or markChange: the call returns.               *)
(***************************************************************************)
SetTTL(p) ==
  /\ at[p] = "setTTL"
  /\ Expire(Ttl)
  /\ shared' = [shared EXCEPT ![p] =
                  CASE call[p] \in {"acquireShared", "toShared"} -> @ + 1
                    [] call[p] = "toExclusive" -> @ - 1
                    [] call[p] = "acquireExclusive" -> @]
  /\ exclusive' = [exclusive EXCEPT ![p] =
                     CASE call[p] \in {"acquireExclusive", "toExclusive"} -> TRUE
                       [] call[p] = "toShared" -> FALSE
                       [] call[p] = "acquireShared" -> @]
  /\ since' = [since EXCEPT ![p] = IF Holds(p) THEN @ ELSE now]
  /\ Leave(p)
  /\ UNCHANGED <<now, old, givingUp>>

\* Mutant: p's own count is not looked at first.
BeginReleaseSharedUnheld(p) ==
  /\ Start(p)
  /\ Enter(p, "releaseShared", "dec")
  /\ UNCHANGED <<store, now, marks, old, client>>

\* Mutant: nothing is done when the cad is refused.
BeginReleaseSharedNoDec(p) ==
  /\ Start(p)
  /\ shared[p] > 0
  /\ IF value = Count(1) THEN Delete ELSE UNCHANGED store
  /\ MarkRelease(p)
  /\ ForgetOld(p)
  /\ UNCHANGED <<now, control, client>>

(***************************************************************************)
(* releaseLock(LOCK_SHARED): the last shared lock of p is removed with     *)
(* cad(1) if it is the only one at all; otherwise dec, and                 *)
(* what follows depends on the new value.  (Without a lock of its own, the *)
(* call does nothing.)                                                     *)
(***************************************************************************)
BeginReleaseShared(p) ==
  /\ Start(p)
  /\ shared[p] > 0
  /\ IF shared[p] = 1 /\ value = Count(1)
       THEN /\ Delete
            /\ MarkRelease(p)
            /\ ForgetOld(p)
            /\ UNCHANGED control
       ELSE /\ Enter(p, "releaseShared", "dec")
            /\ UNCHANGED <<store, marks, old>>
  /\ UNCHANGED <<now, client>>

Dec(p) ==
  /\ In(p, "releaseShared", "dec")
  /\ value' = IF IsCount THEN Count(value.n - 1) ELSE value
  /\ IF IsCount /\ value.n > 1
       THEN Go(p, "get") /\ UNCHANGED <<marks, old>>
       ELSE /\ ForgetOld(p)
            /\ IF IsCount /\ value.n < 1
                 THEN /\ at' = [at EXCEPT ![p] = "reset"]
                      /\ seen' = [seen EXCEPT ![p] = value']
                      /\ UNCHANGED <<call, marks>>
                 ELSE Leave(p) /\ MarkRelease(p)
  /\ UNCHANGED <<expiry, now, client>>

\* More released than there was: cad(newValue) with what dec returned.
Reset(p) ==
  /\ In(p, "releaseShared", "reset")
  /\ IF value = seen[p] THEN Delete ELSE UNCHANGED store
  /\ MarkRelease(p)
  /\ Leave(p)
  /\ UNCHANGED <<now, old, client>>

(***************************************************************************)
(* restoreTTL: get, getTTL, compareSetTTL, and the release is marked.      *)
(***************************************************************************)
Restored(p) ==
  /\ Leave(p)
  /\ IF call[p] = "releaseShared" THEN MarkRelease(p) ELSE UNCHANGED marks

RestoreGet(p) ==
  /\ at[p] = "get"
  /\ IF old[p] = NoOld
       THEN Restored(p)
       ELSE /\ seen' = [seen EXCEPT ![p] = value]
            /\ at' = [at EXCEPT ![p] = "getTTL"]
            /\ UNCHANGED <<call, marks>>
  /\ UNCHANGED <<store, now, old, client>>

Elapsed(p) == now - old[p].time

\* Mutant: the ttl is restored without looking who else came.
NobodyAsked(p) == TRUE

\* "+1 to cover rounding errors"
NobodyAcquired(p) == TtlNow <= Ttl - Elapsed(p) + 1

RestoreGetTTL(p) ==
  /\ at[p] = "getTTL"
  /\ IF NobodyAcquired(p) THEN Go(p, "compareSetTTL") /\ UNCHANGED marks
                          ELSE Restored(p)
  /\ UNCHANGED <<store, now, old, client>>

\* Without a value to compare with, the ttl is set whatever the value is now,
\* and a ttl of 0 stands for a day.
RestoreSetTTL(p) ==
  /\ at[p] = "compareSetTTL"
  /\ LET remaining == old[p].ttl - Elapsed(p)
     IN IF seen[p] = NoKey
          THEN IF remaining = 0 THEN Put(value, Never) ELSE Expire(remaining)
          ELSE IF seen[p] = value THEN Expire(remaining) ELSE UNCHANGED store
  /\ Restored(p)
  /\ UNCHANGED <<now, old, client>>

\* releaseLock(LOCK_EXCLUSIVE): cad.
ReleaseExclusive(p) ==
  /\ Start(p)
  /\ exclusive[p]
  /\ IF value = Exclusive THEN Delete ELSE UNCHANGED store
  /\ exclusive' = [exclusive EXCEPT ![p] = FALSE]
  /\ UNCHANGED <<now, shared, old, control, client>>

(***************************************************************************)
(* The request is over and has released everything (releaseAll calls       *)
(* releaseLock for each lock); p stands for the next one.                  *)
(***************************************************************************)
NextRequest(p) ==
  /\ Idle(p)
  /\ ~Holds(p)
  /\ old[p] # NoOld \/ givingUp[p]
  /\ ForgetOld(p)
  /\ givingUp' = [givingUp EXCEPT ![p] = FALSE]
  /\ UNCHANGED <<store, now, marks, control, since>>

\* Killed, also in the middle of a call.
Crash(p) ==
  /\ "crash" \in Env
  /\ ~Idle(p) \/ Holds(p)
  /\ shared' = [shared EXCEPT ![p] = 0]
  /\ exclusive' = [exclusive EXCEPT ![p] = FALSE]
  /\ ForgetOld(p)
  /\ Leave(p)
  /\ givingUp' = [givingUp EXCEPT ![p] = FALSE]
  /\ UNCHANGED <<store, now, since>>

(***************************************************************************)
(* A second passes; nobody holds the lock as long as its ttl (the ttl is   *)
(* at least max_execution_time, lib/private/Server.php:860).               *)
(***************************************************************************)
Tick ==
  /\ now < MaxTime
  /\ \A p \in Procs : Idle(p) /\ (Holds(p) => now + 1 < since[p] + Ttl)
  /\ now' = now + 1
  /\ IF expiry = now + 1 THEN Delete ELSE UNCHANGED store
  /\ UNCHANGED <<marks, old, control, client>>

ProviderStep(p) ==
  \/ BeginAcquireShared(p) \/ Inc(p)
  \/ BeginAcquireExclusive(p) \/ CasExclusive(p)
  \/ BeginChangeToShared(p) \/ BeginChangeToExclusive(p)
  \/ SetTTL(p)
  \/ BeginReleaseShared(p) \/ Dec(p) \/ Reset(p)
  \/ RestoreGet(p) \/ RestoreGetTTL(p) \/ RestoreSetTTL(p)
  \/ ReleaseExclusive(p)
  \/ NextRequest(p)

Next == Tick \/ \E p \in Procs : ProviderStep(p) \/ Crash(p)

Spec == Init /\ [][Next]_vars

-----------------------------------------------------------------------------
(***************************************************************************)
(* What p holds: from the return of the acquiring call to the entry of the *)
(* releasing one; a lock changes its type with the cas that decides it.    *)
(* A client whose changeLock was refused gives the lock up (View.php:1225, *)
(* :644, :875): it counts as released with the refusal.                    *)
(***************************************************************************)
HeldShared(p) ==
  CASE givingUp[p] -> 0
    [] call[p] = "releaseShared" -> shared[p] - 1
    [] In(p, "toShared", "setTTL") -> shared[p] + 1
    [] In(p, "toExclusive", "setTTL") -> shared[p] - 1
    [] OTHER -> shared[p]

HeldExclusive(p) ==
  \/ exclusive[p] /\ call[p] # "toShared"
  \/ In(p, "toExclusive", "setTTL")

(***************************************************************************)
(* Mutual exclusion: whoever holds the path exclusively is its only        *)
(* holder.                                                                 *)
(***************************************************************************)
MutualExclusion ==
  \A p, q \in Procs :
    HeldExclusive(p) => /\ HeldShared(q) = 0
                        /\ HeldExclusive(q) => p = q

SharedUnits == {u \in Procs \X (1..MaxShared) : u[2] <= HeldShared(u[1])}

(***************************************************************************)
(* While somebody holds the path the key is there to say so: restoreTTL,   *)
(* expiry, cad and dec never take away what a living process has put.      *)
(***************************************************************************)
KeyCoversHolders ==
  /\ \A p \in Procs : HeldExclusive(p) => value = Exclusive
  /\ SharedUnits # {} => IsCount /\ value.n >= Cardinality(SharedUnits)

(***************************************************************************)
(* By how much p may have raised the count.                                *)
(***************************************************************************)
Raised(p) ==
  CASE at[p] = "setTTL" /\ call[p] \in {"acquireShared", "toShared"} -> shared[p] + 1
    [] at[p] = "setTTL" /\ call[p] = "toExclusive" -> shared[p] - 1
    [] call[p] = "releaseShared" /\ at[p] # "dec" -> shared[p] - 1
    [] OTHER -> shared[p]

RaisedUnits == {u \in Procs \X (1..MaxShared + 1) : u[2] <= Raised(u[1])}

(***************************************************************************)
(* No lock is leaked: whatever the processes do to each other, as long as  *)
(* none is killed, the key shows no shared lock that is not somebody's and *)
(* no exclusive lock without an owner.  So a path that nobody uses is free.*)
(***************************************************************************)
NoStrayLock ==
  /\ IsCount => value.n <= Cardinality(RaisedUnits)
  /\ value = Exclusive =>
       \E p \in Procs : exclusive[p] \/ (at[p] = "setTTL" /\ call[p] # "acquireShared")

(***************************************************************************)
(* The provider implements the readers-writer lock of FileLock, for its    *)
(* one path.                                                               *)
(***************************************************************************)
Key == "path"

Abstract == INSTANCE FileLock WITH
  Paths <- {Key},
  shared <- [p \in Procs |-> [k \in {Key} |-> HeldShared(p)]],
  exclusive <- [p \in Procs |-> [k \in {Key} |-> HeldExclusive(p)]]

ImplementsFileLock == Abstract!Spec
=============================================================================
