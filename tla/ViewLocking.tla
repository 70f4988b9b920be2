---------------------------- MODULE ViewLocking -----------------------------
(***************************************************************************)
(* How file operations use the locks (lib/private/Files/View.php), run by  *)
(* several processes against the database locking provider (DBLocking).    *)
(*                                                                         *)
(* A process runs jobs one after the other: a job is one View operation on *)
(* a path, or on a source and a target.  Every operation is a program of   *)
(* lock calls around the storage call; its table below gives for each      *)
(* instruction where it goes when it succeeds and when it throws or is     *)
(* refused.  lockFile and unlockFile make one provider call for the path   *)
(* and one for each parent folder, other processes in between.             *)
(***************************************************************************)
EXTENDS DBLocking, Sequences

CONSTANTS
  Parents,   \* Parents[k]: the folders above k that are locked with it, root first
  Jobs,      \* Jobs[p]: the jobs that p may run, records [op, src, dst]
  MaxJobs,   \* bound: jobs per request
  MaxActive  \* bound: processes that are in a request at the same time

ASSUME ParentsAssumption == Parents \in [Paths -> Seq(Paths)]

VARIABLES
  job,      \* job[p]: the job p runs, or NoJob
  pc,       \* pc[p]: the label of its next instruction
  idx,      \* idx[p]: the path that lockFile or unlockFile is at
  left,     \* left[p]: jobs the request may still start
  escaped   \* escaped[p]: an exception left an operation without its clean-up

control == <<job, pc, idx, left, escaped>>
viewVars == <<vars, control>>

NoJob == [op |-> "none"]
Done == "done"         \* the operation returns, or throws after its clean-up
Escape == "escape"     \* an exception leaves the operation, no handler has run

-----------------------------------------------------------------------------
(***************************************************************************)
(* Instructions.  "on" says which of the job's paths is meant.             *)
(***************************************************************************)
Lock(on, type, ok, fail) ==
  [do |-> "lock", on |-> on, type |-> type, ok |-> ok, fail |-> fail]
Unlock(on, type, ok) ==
  [do |-> "unlock", on |-> on, type |-> type, ok |-> ok]
Change(on, type, ok, fail) ==
  [do |-> "change", on |-> on, type |-> type, ok |-> ok, fail |-> fail]
\* The hooks, before or after: listeners may agree, veto or throw, and control
\* goes on at one of the labels "next".
Hooks(next) == [do |-> "hooks", next |-> next]
\* The storage call with the update of the file cache: it succeeds, returns
\* false, or either of the two throws.
Storage(next) == [do |-> "storage", next |-> next]

\* basicOperation with the hook "read": nobody is told afterwards
ReadProgram ==
  [start  |-> Lock("dst", "S", "hooks", Escape),
   hooks  |-> Hooks({"work", "unlock", Escape}),
   work   |-> Storage({"unlock"}),
   unlock |-> Unlock("dst", "S", Done)]

\* basicOperation with the hook "write" or "delete": an exception of the
\* storage is caught, one of the cache update or of a hook is not
WriteProgram ==
  [start   |-> Lock("dst", "S", "hooks", Escape),
   hooks   |-> Hooks({"upgrade", "unlock", Escape}),
   upgrade |-> Change("dst", "X", "work", "unlock"),
   work    |-> Storage({"back", "unlockX", Escape}),
   back    |-> Change("dst", "S", "post", Escape),
   post    |-> Hooks({"unlock", Escape}),
   unlock  |-> Unlock("dst", "S", Done),
   unlockX |-> Unlock("dst", "X", Done)]

\* basicOperation for fopen in a write mode: the lock is released when the
\* stream is closed, or at once, without hooks, when there is no stream
OpenProgram ==
  [WriteProgram EXCEPT !.work = Storage({"unlockX", "back"}),
                       !.post = Hooks({"unlock"})]

\* file_put_contents with a stream: when there is no stream to write to, the
\* lock is released; nothing catches an exception of the storage
PutStreamProgram == WriteProgram

\* rename: the two "finally" blocks are backSrc .. and unlockSrc ..
RenameProgram ==
  [start      |-> Lock("src", "S", "lockDst", Escape),
   lockDst    |-> Lock("dst", "S", "hooks", "unlockSrc"),
   hooks      |-> Hooks({"upgradeSrc", "unlockSrc"}),
   upgradeSrc |-> Change("src", "X", "upgradeDst", "unlockSrc"),
   upgradeDst |-> Change("dst", "X", "work", "backSrc"),
   work       |-> Storage({"backSrc"}),
   backSrc    |-> Change("src", "S", "backDst", "unlockSrc"),
   backDst    |-> Change("dst", "S", "post", "unlockSrc"),
   post       |-> Hooks({"unlockSrc"}),
   unlockSrc  |-> Unlock("src", "S", "unlockDst"),
   unlockDst  |-> Unlock("dst", "S", Done)]

\* Mutant: after a failed storage call the target is released as if it were shared.
CopyProgramUnlocksShared ==
  [start |-> Lock("dst", "S", "lockSrc", Escape),
   lockSrc |-> Lock("src", "S", "hooks", Escape),
   hooks |-> Hooks({"upgrade", "unlock"}),
   upgrade |-> Change("dst", "X", "work", "unlock"),
   work |-> Storage({"back", "unlock"}),
   back |-> Change("dst", "S", "post", "unlock"),
   post |-> Hooks({"unlock"}),
   unlock |-> Unlock("dst", "S", "unlockSrc"),
   unlockSrc |-> Unlock("src", "S", Done)]

\* Mutant: both locks are taken inside the "try".
CopyProgramLocksInTry ==
  [start |-> Lock("dst", "S", "lockSrc", "unlock"),
   lockSrc |-> Lock("src", "S", "hooks", "unlock"),
   hooks |-> Hooks({"upgrade", "unlock"}),
   upgrade |-> Change("dst", "X", "work", "unlock"),
   work |-> Storage({"back", "unlockX"}),
   back |-> Change("dst", "S", "post", "unlockX"),
   post |-> Hooks({"unlock"}),
   unlock |-> Unlock("dst", "S", "unlockSrc"),
   unlockX |-> Unlock("dst", "X", "unlockSrc"),
   unlockSrc |-> Unlock("src", "S", Done)]

\* copy: both locks are taken before its "try"
CopyProgram ==
  [start     |-> Lock("dst", "S", "lockSrc", Escape),
   lockSrc   |-> Lock("src", "S", "hooks", Escape),
   hooks     |-> Hooks({"upgrade", "unlock"}),
   upgrade   |-> Change("dst", "X", "work", "unlock"),
   work      |-> Storage({"back", "unlockX"}),
   back      |-> Change("dst", "S", "post", "unlockX"),
   post      |-> Hooks({"unlock"}),
   unlock    |-> Unlock("dst", "S", "unlockSrc"),
   unlockX   |-> Unlock("dst", "X", "unlockSrc"),
   unlockSrc |-> Unlock("src", "S", Done)]

Operations == {"read", "write", "delete", "open", "put", "rename", "copy"}

Program(op) ==
  CASE op = "read" -> ReadProgram
    [] op \in {"write", "delete"} -> WriteProgram
    [] op = "open" -> OpenProgram
    [] op = "put" -> PutStreamProgram
    [] op = "rename" -> RenameProgram
    [] op = "copy" -> CopyProgram

Busy(p) == job[p] # NoJob
Instr(p) == Program(job[p].op)[pc[p]]
Doing(p, kind) == Busy(p) /\ Instr(p).do = kind
PathOf(p) == IF Instr(p).on = "src" THEN job[p].src ELSE job[p].dst

\* Mutant: the folders above are not locked.
LockSequenceNoParents(k) == <<k>>

\* The paths lockFile(k) and unlockFile(k) go through, in their order.
LockSequence(k) == <<k>> \o Parents[k]

ASSUME JobsAssumption ==
  \A p \in Procs : Jobs[p] \subseteq [op : Operations, src : Paths, dst : Paths]

\* getParents: the folders above a path differ from it and from each other.
ASSUME SequenceAssumption ==
  \A k \in Paths : \A i, j \in 1..Len(LockSequence(k)) :
    LockSequence(k)[i] = LockSequence(k)[j] => i = j

\* A job takes a path twice at most: with its source and with its target.
ASSUME MaxJobsAssumption == MaxJobs \in Nat \ {0} /\ MaxShared >= 2 * MaxJobs

-----------------------------------------------------------------------------
ViewTypeOK ==
  /\ TypeOK
  /\ \A p \in Procs : job[p] \in Jobs[p] \cup {NoJob}
  /\ \A p \in Procs : Busy(p) => pc[p] \in DOMAIN Program(job[p].op)
  /\ idx \in [Procs -> Nat \ {0}]
  /\ left \in [Procs -> 0..MaxJobs]
  /\ escaped \in [Procs -> BOOLEAN]

ViewInit ==
  /\ Init
  /\ job = [p \in Procs |-> NoJob]
  /\ pc = [p \in Procs |-> Done]
  /\ idx = [p \in Procs |-> 1]
  /\ left = [p \in Procs |-> MaxJobs]
  /\ escaped = [p \in Procs |-> FALSE]

\* Control goes on at label l of p's program, or leaves it.  A request that
\* is left with no lock is as good as a new one.
GoTo(p, l) ==
  LET over == l \in {Done, Escape}
      fresh == over /\ \A k \in Paths : ~Relies(p, k)'
  IN /\ idx' = [idx EXCEPT ![p] = 1]
     /\ pc' = [pc EXCEPT ![p] = IF over THEN Done ELSE l]
     /\ job' = [job EXCEPT ![p] = IF over THEN NoJob ELSE @]
     /\ escaped' = [escaped EXCEPT ![p] = (@ \/ l = Escape) /\ ~fresh]
     /\ left' = [left EXCEPT ![p] = IF fresh THEN MaxJobs ELSE @]

\* One more path of the sequence, then label l.
NextPath(p, l) ==
  IF idx[p] < Len(LockSequence(PathOf(p)))
    THEN /\ idx' = [idx EXCEPT ![p] = @ + 1]
         /\ UNCHANGED <<job, pc, left, escaped>>
    ELSE GoTo(p, l)

\* p is between two requests: nothing distinguishes it from a new one.
Idle(p) ==
  /\ ~Busy(p) /\ ~closing[p]
  /\ \A k \in Paths : ~Relies(p, k)

(***************************************************************************)
(* A new request, or the one that has run a job before, takes up a job.    *)
(***************************************************************************)
StartJob(p) ==
  /\ Cardinality({q \in Procs : q = p \/ ~Idle(q)}) <= MaxActive
  /\ ~Busy(p)
  /\ ~closing[p]
  /\ left[p] > 0
  /\ \E j \in Jobs[p] : job' = [job EXCEPT ![p] = j]
  /\ pc' = [pc EXCEPT ![p] = "start"]
  /\ left' = [left EXCEPT ![p] = @ - 1]
  /\ UNCHANGED <<idx, escaped, vars>>

(***************************************************************************)
(* lockFile: the path with the wanted type, then every parent shared; an   *)
(* exception part of the way leaves the locks taken so far.                *)
(***************************************************************************)
LockFile(p) ==
  /\ Doing(p, "lock")
  /\ LET k == LockSequence(PathOf(p))[idx[p]]
         exclusively == idx[p] = 1 /\ Instr(p).type = "X"
         granted == IF exclusively THEN AcquireExclusiveGranted(p, k)
                                   ELSE AcquireSharedGranted(p, k)
     IN IF granted
          THEN /\ IF exclusively THEN AcquireExclusive(p, k) ELSE AcquireShared(p, k)
               /\ NextPath(p, Instr(p).ok)
          ELSE UNCHANGED <<rows, own>> /\ GoTo(p, Instr(p).fail)
  /\ UNCHANGED closing

UnlockFile(p) ==
  /\ Doing(p, "unlock")
  /\ LET k == LockSequence(PathOf(p))[idx[p]]
     IN IF idx[p] = 1 /\ Instr(p).type = "X"
          THEN ReleaseExclusive(p, k)
          ELSE ReleaseShared(p, k)
  /\ NextPath(p, Instr(p).ok)
  /\ UNCHANGED closing

\* changeLock: the path only
ChangeLock(p) ==
  /\ Doing(p, "change")
  /\ LET k == PathOf(p)
         granted == IF Instr(p).type = "X" THEN ChangeToExclusiveGranted(p, k)
                                           ELSE ChangeToSharedGranted(p, k)
     IN IF granted
          THEN /\ IF Instr(p).type = "X" THEN ChangeToExclusive(p, k)
                                         ELSE ChangeToShared(p, k)
               /\ GoTo(p, Instr(p).ok)
          ELSE UNCHANGED <<rows, own>> /\ GoTo(p, Instr(p).fail)
  /\ UNCHANGED closing

RunHooks(p) ==
  /\ Doing(p, "hooks")
  /\ UNCHANGED vars
  /\ \E l \in Instr(p).next : GoTo(p, l)

StorageCall(p) ==
  /\ Doing(p, "storage")
  /\ UNCHANGED vars
  /\ \E l \in Instr(p).next : GoTo(p, l)

(***************************************************************************)
(* Between jobs the request may end: releaseAll runs, and p stands for the *)
(* next request.                                                           *)
(***************************************************************************)
EndRequest(p) ==
  /\ ~Busy(p)
  /\ \/ ~closing[p] /\ BeginReleaseAll(p) /\ UNCHANGED control
     \/ /\ closing[p]
        /\ \E k \in Paths : ReleaseAllShared(p, k) \/ ReleaseAllExclusive(p, k)
        /\ UNCHANGED <<closing, control>>
     \/ /\ closing[p]
        /\ EndReleaseAll(p)
        /\ left' = [left EXCEPT ![p] = MaxJobs]
        /\ escaped' = [escaped EXCEPT ![p] = FALSE]
        /\ UNCHANGED <<job, pc, idx>>

ViewStep(p) ==
  \/ StartJob(p)
  \/ LockFile(p)
  \/ UnlockFile(p)
  \/ ChangeLock(p)
  \/ RunHooks(p)
  \/ StorageCall(p)
  \/ EndRequest(p)

ViewNext == \E p \in Procs : ViewStep(p)

ViewSpec == ViewInit /\ [][ViewNext]_viewVars

-----------------------------------------------------------------------------
(***************************************************************************)
(* What the storage call of a job reads ("S") and changes ("X").           *)
(***************************************************************************)
Accesses(j) ==
  CASE j.op = "read" -> {<<j.dst, "S">>}
    [] j.op = "rename" -> {<<j.src, "X">>, <<j.dst, "X">>}
    [] j.op = "copy" -> {<<j.src, "S">>, <<j.dst, "X">>}
    [] OTHER -> {<<j.dst, "X">>}

Above(d, k) == \E i \in DOMAIN Parents[k] : Parents[k][i] = d

\* Changing a path disturbs whoever works on it, or on something below it.
Disturbs(j1, j2) ==
  \E x \in Accesses(j1), y \in Accesses(j2) :
    x[2] = "X" /\ (x[1] = y[1] \/ Above(x[1], y[1]))

(***************************************************************************)
(* Why View locks at all: while one process changes a file, or deletes or  *)
(* moves a folder, no other process is in a storage call on that file, or  *)
(* on anything in that folder.                                             *)
(***************************************************************************)
StorageIsolated ==
  \A p, q \in Procs :
    p # q /\ Doing(p, "storage") /\ Doing(q, "storage") => ~Disturbs(job[p], job[q])

(***************************************************************************)
(* Whatever way an operation ends (success, veto, refused lock, exception  *)
(* of the storage), it has given back every lock it took, parents          *)
(* included, unless an exception escaped it: lockFile refused part of the  *)
(* way, copy's second lockFile, file_put_contents' storage call.           *)
(***************************************************************************)
JobsLeaveNothing ==
  \A p \in Procs : ~Busy(p) /\ ~closing[p] /\ ~escaped[p] =>
    \A k \in Paths : ~Holds(p, k)

(***************************************************************************)
(* An operation on the command line releases only what it holds: there the *)
(* provider does not look at the owner, and a release in excess takes      *)
(* somebody else's lock out of the row.                                    *)
(***************************************************************************)
ReleasesOnlyOwn ==
  [][\A p \in Procs \ Caching, k \in Paths :
       UnlockFile(p) /\ k = LockSequence(PathOf(p))[idx[p]] => Holds(p, k)]_viewVars
=============================================================================
