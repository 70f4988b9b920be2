------------------------- MODULE ViewLocking_proofs -------------------------
(***************************************************************************)
(* Proofs about View's operations on the database locking provider.        *)
(*                                                                         *)
(* The inductive invariant ViewInv has three parts: the provider's         *)
(* RowCoversHolders; where each process is in its program; and an outline  *)
(* of the programs, which says for every label what an operation has of    *)
(* the lock sequences of its source and of its target.  The programs fit   *)
(* their outline (OutlineOf), the outline changes with each call as the    *)
(* locks do (HoldingTakes .. HoldingGivesExclusive), so every provider     *)
(* call of an operation is one that the provider's proofs cover            *)
(* (Disciplined).  Hypothesis: no process without the shared-lock cache,   *)
(* that is on the command line, runs a rename.                             *)
(***************************************************************************)
EXTENDS ViewLocking, DBLocking_proofs

-----------------------------------------------------------------------------
(***************************************************************************)
(* The outline of the programs: at each label, what an operation has of    *)
(* the lock sequence of its source and of its target.                      *)
(*   "free"       nothing                                                  *)
(*   "taking"     the paths before idx, shared                             *)
(*   "taken"      all paths, shared                                        *)
(*   "exclusive"  the path itself exclusively, the folders shared          *)
(*   "giving"     the paths from idx on, shared                            *)
(*   "givingX"    the same, the path itself (idx is 1) exclusively         *)
(*   "either"     "taken" or "exclusive": a rename that goes back          *)
(*   "any"        at most all paths, shared: a rename whose target was     *)
(*   "anyGiving"  refused part of the way, before and in its unlockFile    *)
(***************************************************************************)
Sides == {"src", "dst"}

Has(src, dst) == [src |-> src, dst |-> dst]

ReadOutline ==
  [start  |-> Has("free", "taking"),
   hooks  |-> Has("free", "taken"),
   work   |-> Has("free", "taken"),
   unlock |-> Has("free", "giving"),
   done   |-> Has("free", "free")]

\* basicOperation, fopen in a write mode, file_put_contents with a stream
WriteOutline ==
  [start   |-> Has("free", "taking"),
   hooks   |-> Has("free", "taken"),
   upgrade |-> Has("free", "taken"),
   work    |-> Has("free", "exclusive"),
   back    |-> Has("free", "exclusive"),
   post    |-> Has("free", "taken"),
   unlock  |-> Has("free", "giving"),
   unlockX |-> Has("free", "givingX"),
   done    |-> Has("free", "free")]

RenameOutline ==
  [start      |-> Has("taking", "free"),
   lockDst    |-> Has("taken", "taking"),
   hooks      |-> Has("taken", "taken"),
   upgradeSrc |-> Has("taken", "taken"),
   upgradeDst |-> Has("exclusive", "taken"),
   work       |-> Has("exclusive", "exclusive"),
   backSrc    |-> Has("exclusive", "either"),
   backDst    |-> Has("taken", "either"),
   post       |-> Has("taken", "any"),
   unlockSrc  |-> Has("giving", "any"),
   unlockDst  |-> Has("free", "anyGiving"),
   done       |-> Has("free", "free")]

CopyOutline ==
  [start     |-> Has("free", "taking"),
   lockSrc   |-> Has("taking", "taken"),
   hooks     |-> Has("taken", "taken"),
   upgrade   |-> Has("taken", "taken"),
   work      |-> Has("taken", "exclusive"),
   back      |-> Has("taken", "exclusive"),
   post      |-> Has("taken", "taken"),
   unlock    |-> Has("taken", "giving"),
   unlockX   |-> Has("taken", "givingX"),
   unlockSrc |-> Has("giving", "free"),
   done      |-> Has("free", "free")]

Outline(o) ==
  CASE o = "read" -> ReadOutline
    [] o \in {"write", "delete", "put", "open"} -> WriteOutline
    [] o = "rename" -> RenameOutline
    [] o = "copy" -> CopyOutline

Labels(o) == DOMAIN Outline(o) \ {Done}

Stage(o, l, side) == Outline(o)[l][side]

\* Stages that do not depend on idx.
Steady == {"free", "taken", "exclusive", "either", "any"}

\* Control may go on at a label with stage t when it has stage s.
Flow(s, t) ==
  \/ s = t /\ s \in Steady
  \/ s = "free" /\ t = "taking"
  \/ s = "taken" /\ t \in {"giving", "any", "either"}
  \/ s = "exclusive" /\ t \in {"givingX", "either"}
  \/ s = "any" /\ t = "anyGiving"

(***************************************************************************)
(* The labels of the outline are those of the programs.                    *)
(***************************************************************************)
LEMMA LabelsOf == ASSUME NEW o \in Operations PROVE DOMAIN Program(o) = Labels(o)
<1> USE DEF Program, Labels, Outline, Done
<1>1. CASE o = "read"
  BY <1>1 DEF ReadProgram, ReadOutline
<1>2. CASE o \in {"write", "delete", "put"}
  BY <1>2 DEF WriteProgram, PutStreamProgram, WriteOutline
<1>3. CASE o = "open"
  BY <1>3 DEF WriteProgram, OpenProgram, WriteOutline
<1>4. CASE o = "rename"
  BY <1>4 DEF RenameProgram, RenameOutline
<1>5. CASE o = "copy"
  BY <1>5 DEF CopyProgram, CopyOutline
<1> QED
  BY <1>1, <1>2, <1>3, <1>4, <1>5 DEF Operations

(***************************************************************************)
(* What the outline demands of an instruction i at label l.                *)
(* lockFile always asks for a shared lock; refused part of the way, only a *)
(* rename goes on.  After unlockFile nothing of the sequence is left.      *)
(***************************************************************************)
\* The side that the instruction is not about.
Other(side) == IF side = "src" THEN "dst" ELSE "src"

FlowsTo(o, l, m, side) == Flow(Stage(o, l, side), Stage(o, m, side))

LockFits(o, l, i) ==
  /\ i.on \in Sides /\ i.type = "S" /\ i.ok \in Labels(o)
  /\ Stage(o, l, i.on) = "taking" /\ Stage(o, i.ok, i.on) = "taken"
  /\ Stage(o, l, Other(i.on)) \in Steady
  /\ FlowsTo(o, l, i.ok, Other(i.on))
  /\ \/ i.fail = Escape
     \/ /\ o = "rename" /\ i.fail \in Labels(o)
        /\ Stage(o, i.fail, i.on) = "any" /\ FlowsTo(o, l, i.fail, Other(i.on))

UnlockFits(o, l, i) ==
  /\ i.on \in Sides /\ i.ok \in Labels(o) \cup {Done}
  /\ \/ i.type = "S" /\ Stage(o, l, i.on) = "giving"
     \/ i.type = "X" /\ Stage(o, l, i.on) = "givingX"
     \/ /\ i.type = "S" /\ o = "rename"
        /\ Stage(o, l, i.on) = "anyGiving" /\ Stage(o, l, Other(i.on)) = "free"
        /\ Stage(o, i.ok, Other(i.on)) = "free"
  /\ Stage(o, i.ok, i.on) = "free"
  /\ Stage(o, l, Other(i.on)) \in {"free", "taken", "any"}
  /\ Stage(o, i.ok, Other(i.on)) # "either"
  /\ FlowsTo(o, l, i.ok, Other(i.on))

UpgradeFits(o, l, i) ==
  /\ i.on \in Sides /\ i.ok \in Labels(o) /\ i.fail \in Labels(o)
  /\ Stage(o, l, i.on) = "taken" /\ Stage(o, i.ok, i.on) = "exclusive"
  /\ FlowsTo(o, l, i.fail, i.on)
  /\ Stage(o, i.ok, Other(i.on)) # "either"
  /\ FlowsTo(o, l, i.ok, Other(i.on)) /\ FlowsTo(o, l, i.fail, Other(i.on))

\* A downgrade fails only where a rename does not know whether it has the lock.
DowngradeFits(o, l, i) ==
  /\ i.on \in Sides /\ i.ok \in Labels(o)
  /\ Stage(o, i.ok, Other(i.on)) \notin {"exclusive", "givingX"}
  /\ FlowsTo(o, l, i.ok, Other(i.on))
  /\ \/ Stage(o, l, i.on) = "exclusive" /\ Stage(o, i.ok, i.on) = "taken"
     \/ /\ Stage(o, l, i.on) = "either" /\ Stage(o, i.ok, i.on) = "any"
        /\ i.fail \in Labels(o) /\ Stage(o, i.fail, i.on) = "any"
        /\ FlowsTo(o, l, i.fail, Other(i.on))

CallFits(o, l, i) ==
  \A m \in i.next :
    m = Escape \/ (m \in Labels(o) /\ FlowsTo(o, l, m, "src") /\ FlowsTo(o, l, m, "dst"))

Fits(o, l, i) ==
  \/ i.do = "lock" /\ LockFits(o, l, i)
  \/ i.do = "unlock" /\ UnlockFits(o, l, i)
  \/ i.do = "change" /\ i.type = "X" /\ UpgradeFits(o, l, i)
  \/ i.do = "change" /\ i.type = "S" /\ DowngradeFits(o, l, i)
  \/ i.do \in {"hooks", "storage"} /\ CallFits(o, l, i)

(***************************************************************************)
(* The programs follow the outline, each at every label.                   *)
(***************************************************************************)
LEMMA ReadFits ==
  \A l \in {"start", "hooks", "work", "unlock"} : Fits("read", l, ReadProgram[l])
<1> USE DEF Fits, Stage, Has, Sides, Other, FlowsTo, Flow, Steady, Labels, Outline, Done
<1> USE DEF ReadProgram, ReadOutline, Escape
<1>1. Fits("read", "start", ReadProgram["start"])
  BY DEF LockFits, Lock
<1>2. Fits("read", "hooks", ReadProgram["hooks"])
  BY DEF CallFits, Hooks, Storage
<1>3. Fits("read", "work", ReadProgram["work"])
  BY DEF CallFits, Hooks, Storage
<1>4. Fits("read", "unlock", ReadProgram["unlock"])
  BY DEF UnlockFits, Unlock
<1> HIDE DEF Fits
<1> QED
  BY <1>1, <1>2, <1>3, <1>4

LEMMA WriteFits ==
  ASSUME NEW o \in {"write", "delete", "put"}
  PROVE  \A l \in {"start", "hooks", "upgrade", "work", "back", "post", "unlock", "unlockX"} :
           Fits(o, l, WriteProgram[l])
<1> USE DEF Fits, Stage, Has, Sides, Other, FlowsTo, Flow, Steady, Labels, Outline, Done
<1> USE DEF WriteProgram, WriteOutline, Escape
<1>1. Fits(o, "start", WriteProgram["start"])
  BY DEF LockFits, Lock
<1>2. Fits(o, "hooks", WriteProgram["hooks"])
  BY DEF CallFits, Hooks, Storage
<1>3. Fits(o, "upgrade", WriteProgram["upgrade"])
  BY DEF UpgradeFits, Change
<1>4. Fits(o, "work", WriteProgram["work"])
  BY DEF CallFits, Hooks, Storage
<1>5. Fits(o, "back", WriteProgram["back"])
  BY DEF DowngradeFits, Change
<1>6. Fits(o, "post", WriteProgram["post"])
  BY DEF CallFits, Hooks, Storage
<1>7. Fits(o, "unlock", WriteProgram["unlock"])
  BY DEF UnlockFits, Unlock
<1>8. Fits(o, "unlockX", WriteProgram["unlockX"])
  BY DEF UnlockFits, Unlock
<1> HIDE DEF Fits
<1> QED
  BY <1>1, <1>2, <1>3, <1>4, <1>5, <1>6, <1>7, <1>8

LEMMA OpenFits ==
  \A l \in {"start", "hooks", "upgrade", "work", "back", "post", "unlock", "unlockX"} :
    Fits("open", l, OpenProgram[l])
<1> USE DEF Fits, Stage, Has, Sides, Other, FlowsTo, Flow, Steady, Labels, Outline, Done
<1> USE DEF OpenProgram, WriteProgram, WriteOutline, Escape
<1>1. Fits("open", "start", OpenProgram["start"])
  BY DEF LockFits, Lock
<1>2. Fits("open", "hooks", OpenProgram["hooks"])
  BY DEF CallFits, Hooks, Storage
<1>3. Fits("open", "upgrade", OpenProgram["upgrade"])
  BY DEF UpgradeFits, Change
<1>4. Fits("open", "work", OpenProgram["work"])
  BY DEF CallFits, Hooks, Storage
<1>5. Fits("open", "back", OpenProgram["back"])
  BY DEF DowngradeFits, Change
<1>6. Fits("open", "post", OpenProgram["post"])
  BY DEF CallFits, Hooks, Storage
<1>7. Fits("open", "unlock", OpenProgram["unlock"])
  BY DEF UnlockFits, Unlock
<1>8. Fits("open", "unlockX", OpenProgram["unlockX"])
  BY DEF UnlockFits, Unlock
<1> HIDE DEF Fits
<1> QED
  BY <1>1, <1>2, <1>3, <1>4, <1>5, <1>6, <1>7, <1>8

LEMMA RenameFits ==
  \A l \in {"start", "lockDst", "hooks", "upgradeSrc", "upgradeDst", "work",
            "backSrc", "backDst", "post", "unlockSrc", "unlockDst"} :
    Fits("rename", l, RenameProgram[l])
<1> USE DEF Fits, Stage, Has, Sides, Other, FlowsTo, Flow, Steady, Labels, Outline, Done
<1> USE DEF RenameProgram, RenameOutline, Escape
<1>1. Fits("rename", "start", RenameProgram["start"])
  BY DEF LockFits, Lock
<1>2. Fits("rename", "lockDst", RenameProgram["lockDst"])
  BY DEF LockFits, Lock
<1>3. Fits("rename", "hooks", RenameProgram["hooks"])
  BY DEF CallFits, Hooks, Storage
<1>4. Fits("rename", "upgradeSrc", RenameProgram["upgradeSrc"])
  BY DEF UpgradeFits, Change
<1>5. Fits("rename", "upgradeDst", RenameProgram["upgradeDst"])
  BY DEF UpgradeFits, Change
<1>6. Fits("rename", "work", RenameProgram["work"])
  BY DEF CallFits, Hooks, Storage
<1>7. Fits("rename", "backSrc", RenameProgram["backSrc"])
  BY DEF DowngradeFits, Change
<1>8. Fits("rename", "backDst", RenameProgram["backDst"])
  BY DEF DowngradeFits, Change
<1>9. Fits("rename", "post", RenameProgram["post"])
  BY DEF CallFits, Hooks, Storage
<1>10. Fits("rename", "unlockSrc", RenameProgram["unlockSrc"])
  BY DEF UnlockFits, Unlock
<1>11. Fits("rename", "unlockDst", RenameProgram["unlockDst"])
  BY DEF UnlockFits, Unlock
<1> HIDE DEF Fits
<1> QED
  BY <1>1, <1>2, <1>3, <1>4, <1>5, <1>6, <1>7, <1>8, <1>9, <1>10, <1>11

LEMMA CopyFits ==
  \A l \in {"start", "lockSrc", "hooks", "upgrade", "work", "back", "post",
               "unlock", "unlockX", "unlockSrc"} : Fits("copy", l, CopyProgram[l])
<1> USE DEF Fits, Stage, Has, Sides, Other, FlowsTo, Flow, Steady, Labels, Outline, Done
<1> USE DEF CopyProgram, CopyOutline, Escape
<1>1. Fits("copy", "start", CopyProgram["start"])
  BY DEF LockFits, Lock
<1>2. Fits("copy", "lockSrc", CopyProgram["lockSrc"])
  BY DEF LockFits, Lock
<1>3. Fits("copy", "hooks", CopyProgram["hooks"])
  BY DEF CallFits, Hooks, Storage
<1>4. Fits("copy", "upgrade", CopyProgram["upgrade"])
  BY DEF UpgradeFits, Change
<1>5. Fits("copy", "work", CopyProgram["work"])
  BY DEF CallFits, Hooks, Storage
<1>6. Fits("copy", "back", CopyProgram["back"])
  BY DEF DowngradeFits, Change
<1>7. Fits("copy", "post", CopyProgram["post"])
  BY DEF CallFits, Hooks, Storage
<1>8. Fits("copy", "unlock", CopyProgram["unlock"])
  BY DEF UnlockFits, Unlock
<1>9. Fits("copy", "unlockX", CopyProgram["unlockX"])
  BY DEF UnlockFits, Unlock
<1>10. Fits("copy", "unlockSrc", CopyProgram["unlockSrc"])
  BY DEF UnlockFits, Unlock
<1> HIDE DEF Fits
<1> QED
  BY <1>1, <1>2, <1>3, <1>4, <1>5, <1>6, <1>7, <1>8, <1>9, <1>10

LEMMA OutlineOf ==
  ASSUME NEW o \in Operations, NEW l \in Labels(o)
  PROVE  Fits(o, l, Program(o)[l])
<1> USE DEF Program, Labels, Outline, Done
<1>1. CASE o = "read"
  BY <1>1, ReadFits DEF ReadOutline
<1>2. CASE o \in {"write", "delete", "put"}
  BY <1>2, WriteFits DEF WriteOutline, PutStreamProgram
<1>3. CASE o = "open"
  BY <1>3, OpenFits DEF WriteOutline
<1>4. CASE o = "rename"
  BY <1>4, RenameFits DEF RenameOutline
<1>5. CASE o = "copy"
  BY <1>5, CopyFits DEF CopyOutline
<1> QED
  BY <1>1, <1>2, <1>3, <1>4, <1>5 DEF Operations

-----------------------------------------------------------------------------
(***************************************************************************)
(* What the outline says of the locks of a process that runs job j and is  *)
(* at label l, and inside lockFile or unlockFile at path n.                *)
(***************************************************************************)
JobTypes == [op : Operations, src : Paths, dst : Paths]

Place(j, side) == IF side = "src" THEN j.src ELSE j.dst

\* The part of the sequence, of length m, that is held shared at a stage.
FirstHeld(s, n) ==
  CASE s = "exclusive" -> 2
    [] s \in {"giving", "anyGiving"} -> n
    [] s = "givingX" -> IF n = 1 THEN 2 ELSE n
    [] OTHER -> 1

LastHeld(s, n, m) ==
  CASE s = "free" -> 0
    [] s = "taking" -> n - 1
    [] OTHER -> m

Between(s, first, last, k) == \E i \in first..last : s[i] = k

\* At this stage the operation may hold k shared on this side, or surely does.
MayHold(j, l, n, side, k) ==
  LET s == LockSequence(Place(j, side))
      stage == Stage(j.op, l, side)
  IN Between(s, FirstHeld(stage, n), LastHeld(stage, n, Len(s)), k)

SurelyHolds(j, l, n, side, k) ==
  /\ Stage(j.op, l, side) \notin {"either", "any", "anyGiving"}
  /\ MayHold(j, l, n, side, k)

One(b) == IF b THEN 1 ELSE 0

Most(j, l, n, k) == One(MayHold(j, l, n, "src", k)) + One(MayHold(j, l, n, "dst", k))

Least(j, l, n, k) ==
  One(SurelyHolds(j, l, n, "src", k)) + One(SurelyHolds(j, l, n, "dst", k))

HasExclusive(j, l, n, side) ==
  \/ Stage(j.op, l, side) = "exclusive"
  \/ Stage(j.op, l, side) = "givingX" /\ n = 1

MayHaveExclusive(j, l, n, side) ==
  HasExclusive(j, l, n, side) \/ Stage(j.op, l, side) = "either"

(***************************************************************************)
(* The locks sh and ex of a process against the outline: it has what the   *)
(* running operation needs, and beyond that only what operations before    *)
(* left behind that an exception has ended (esc): twice each path for each *)
(* of the d jobs.                                                          *)
(***************************************************************************)
Holding(j, l, n, sh, ex, esc, d) ==
  /\ \A k \in Paths :
       /\ Least(j, l, n, k) <= sh[k]
       /\ sh[k] <= 2 * d + Most(j, l, n, k)
       /\ ~esc => sh[k] <= Most(j, l, n, k)
       /\ ~esc /\ ex[k] =>
            \E side \in Sides : MayHaveExclusive(j, l, n, side) /\ k = Place(j, side)
  /\ \A side \in Sides :
       /\ HasExclusive(j, l, n, side) => ex[Place(j, side)]
       /\ Stage(j.op, l, side) = "either" =>
            ex[Place(j, side)] \/ sh[Place(j, side)] > 0

\* The locks of a process between two jobs, of which d are done.
Resting(sh, ex, esc, clo, d) ==
  \A k \in Paths :
    /\ sh[k] <= 2 * d
    /\ ~esc /\ ~clo => sh[k] = 0 /\ ~ex[k]

AllLabels == UNION {Labels(o) : o \in Operations}

ControlTyped ==
  /\ job \in [Procs -> JobTypes \cup {NoJob}]
  /\ pc \in [Procs -> AllLabels \cup {Done}]
  /\ idx \in [Procs -> Nat \ {0}]
  /\ left \in [Procs -> 0..MaxJobs]
  /\ escaped \in [Procs -> BOOLEAN]

InJob(p) ==
  /\ job[p] \in Jobs[p]
  /\ pc[p] \in Labels(job[p].op)
  /\ Instr(p).do \in {"lock", "unlock"} => idx[p] <= Len(LockSequence(PathOf(p)))
  /\ ~closing[p]
  /\ left[p] < MaxJobs
  /\ Holding(job[p], pc[p], idx[p], shared[p], exclusive[p], escaped[p],
             MaxJobs - 1 - left[p])

BetweenJobs(p) ==
  /\ idx[p] = 1
  /\ Resting(shared[p], exclusive[p], escaped[p], closing[p], MaxJobs - left[p])

Outlined(p) == IF Busy(p) THEN InJob(p) ELSE BetweenJobs(p)

OutlineKept == \A p \in Procs : Outlined(p)

(***************************************************************************)
(* The invariant: rows that cover their holders, and every process at a    *)
(* point of its program with the locks that the outline says.              *)
(***************************************************************************)
ViewInv == TypeOK /\ RowCoversHolders /\ ControlTyped /\ OutlineKept

(***************************************************************************)
(* The lock sequence of a path: the path itself and the folders above, all *)
(* different.                                                              *)
(***************************************************************************)
LEMMA SequenceOf ==
  ASSUME NEW j \in JobTypes, NEW side \in Sides, NEW s, s = LockSequence(Place(j, side))
  PROVE  /\ Place(j, side) \in Paths
         /\ Len(s) \in Nat \ {0} /\ s[1] = Place(j, side)
         /\ \A i \in 1..Len(s) : s[i] \in Paths
         /\ \A i, h \in 1..Len(s) : s[i] = s[h] => i = h
<1>1. Place(j, side) \in Paths
  BY DEF JobTypes, Place
<1>2. Parents[Place(j, side)] \in Seq(Paths)
  BY <1>1, ParentsAssumption
<1>3. \A i, h \in 1..Len(s) : s[i] = s[h] => i = h
  BY <1>1, SequenceAssumption
<1>4. Len(s) \in Nat \ {0} /\ s[1] = Place(j, side) /\ \A i \in 1..Len(s) : s[i] \in Paths
  BY <1>1, <1>2 DEF LockSequence
<1> QED
  BY <1>1, <1>3, <1>4

\* From one point of a program to another an operation is not said to hold
\* more on a side than before, nor less to be possibly held.
Loosens(j, l, n, l2, n2, side) ==
  /\ \A k \in Paths : MayHold(j, l, n, side, k) => MayHold(j, l2, n2, side, k)
  /\ \A k \in Paths : SurelyHolds(j, l2, n2, side, k) => SurelyHolds(j, l, n, side, k)
  /\ HasExclusive(j, l2, n2, side) => HasExclusive(j, l, n, side)
  /\ Stage(j.op, l2, side) = "either" =>
       \/ Stage(j.op, l, side) = "either"
       \/ HasExclusive(j, l, n, side)
       \/ SurelyHolds(j, l, n, side, Place(j, side))

\* The same, and an exclusive lock is still accounted for.
LoosensAll(j, l, n, l2, n2, side) ==
  /\ Loosens(j, l, n, l2, n2, side)
  /\ MayHaveExclusive(j, l, n, side) => MayHaveExclusive(j, l2, n2, side)

(***************************************************************************)
(* Where control flows within the outline, the account only loosens.       *)
(***************************************************************************)
LEMMA FlowLoosens ==
  ASSUME NEW j \in JobTypes, NEW l, NEW l2, NEW n \in Nat \ {0}, NEW side \in Sides,
         FlowsTo(j.op, l, l2, side)
  PROVE  LoosensAll(j, l, n, l2, 1, side)
<1> DEFINE s == LockSequence(Place(j, side))
<1>1. Place(j, side) \in Paths /\ Len(s) \in Nat \ {0} /\ s[1] = Place(j, side)
  BY SequenceOf
<1> HIDE DEF s
<1>2. \A k : MayHold(j, l, n, side, k) => MayHold(j, l2, 1, side, k)
  BY <1>1 DEF MayHold, Between, FirstHeld, LastHeld, FlowsTo, Flow, Steady, s
<1>3. \A k : SurelyHolds(j, l2, 1, side, k) => SurelyHolds(j, l, n, side, k)
  BY <1>1 DEF SurelyHolds, MayHold, Between, FirstHeld, LastHeld, FlowsTo, Flow, Steady, s
<1>4. Stage(j.op, l, side) = "taken" => SurelyHolds(j, l, n, side, Place(j, side))
  BY <1>1 DEF SurelyHolds, MayHold, Between, FirstHeld, LastHeld, s
<1> QED
  BY <1>2, <1>3, <1>4
  DEF LoosensAll, Loosens, HasExclusive, MayHaveExclusive, FlowsTo, Flow, Steady

\* On the side that lockFile or unlockFile is not about nothing depends on idx.
LEMMA SteadyLoosens ==
  ASSUME NEW j, NEW l, NEW n, NEW n2, NEW side, Stage(j.op, l, side) \in Steady
  PROVE  LoosensAll(j, l, n, l, n2, side)
BY DEF LoosensAll, Loosens, HasExclusive, MayHaveExclusive, SurelyHolds, MayHold, FirstHeld,
       LastHeld, Steady

\* Nothing is known any more of what lockFile has taken on a side.
LEMMA RefusedLoosens ==
  ASSUME NEW j \in JobTypes, NEW l, NEW l2, NEW n \in Nat \ {0}, NEW side \in Sides,
         Stage(j.op, l, side) = "taking", Stage(j.op, l2, side) = "any",
         n <= Len(LockSequence(Place(j, side)))
  PROVE  LoosensAll(j, l, n, l2, 1, side)
<1> DEFINE s == LockSequence(Place(j, side))
<1>1. Len(s) \in Nat \ {0} /\ n <= Len(s)
  BY SequenceOf
<1> HIDE DEF s
<1>2. \A k : MayHold(j, l, n, side, k) => MayHold(j, l2, 1, side, k)
  BY <1>1 DEF MayHold, Between, FirstHeld, LastHeld, s
<1> QED
  BY <1>2 DEF LoosensAll, Loosens, HasExclusive, MayHaveExclusive, SurelyHolds

\* Path k joins what a side holds, or leaves it.
SideTaken(j, l, n, l2, n2, side, k) ==
  /\ \A i : MayHold(j, l2, n2, side, i) <=> MayHold(j, l, n, side, i) \/ i = k
  /\ \A i : SurelyHolds(j, l2, n2, side, i) <=> SurelyHolds(j, l, n, side, i) \/ i = k
  /\ ~MayHold(j, l, n, side, k)
  /\ Stage(j.op, l, side) = "taking" /\ Stage(j.op, l2, side) \in {"taking", "taken"}

SideGiven(j, l, n, l2, n2, side, k) ==
  /\ \A i : MayHold(j, l, n, side, i) <=> MayHold(j, l2, n2, side, i) \/ i = k
  /\ ~MayHold(j, l2, n2, side, k)
  /\ \/ \A i : /\ SurelyHolds(j, l, n, side, i) <=> MayHold(j, l, n, side, i)
               /\ SurelyHolds(j, l2, n2, side, i) <=> MayHold(j, l2, n2, side, i)
     \/ \A i : ~SurelyHolds(j, l2, n2, side, i) /\ ~SurelyHolds(j, l2, n2, Other(side), i)
  /\ ~MayHaveExclusive(j, l, n, side) /\ ~MayHaveExclusive(j, l2, n2, side)

(***************************************************************************)
(* One call of lockFile: path n joins those that are held.                 *)
(***************************************************************************)
LEMMA SideTakes ==
  ASSUME NEW j \in JobTypes, NEW l, NEW l2, NEW n \in Nat \ {0}, NEW n2, NEW side \in Sides,
         NEW s, s = LockSequence(Place(j, side)),
         Stage(j.op, l, side) = "taking", n <= Len(s),
         \/ l2 = l /\ n2 = n + 1
         \/ n = Len(s) /\ Stage(j.op, l2, side) = "taken"
  PROVE  SideTaken(j, l, n, l2, n2, side, s[n])
<1>1. Len(s) \in Nat \ {0} /\ \A i, h \in 1..Len(s) : s[i] = s[h] => i = h
  BY SequenceOf
<1>2. \A k : MayHold(j, l, n, side, k) <=> \E i \in 1..(n - 1) : s[i] = k
  BY DEF MayHold, Between, FirstHeld, LastHeld
<1>3. \A k : MayHold(j, l2, n2, side, k) <=> \E i \in 1..n : s[i] = k
  <2>1. CASE l2 = l /\ n2 = n + 1
    BY <2>1 DEF MayHold, Between, FirstHeld, LastHeld
  <2>2. CASE n = Len(s) /\ Stage(j.op, l2, side) = "taken"
    BY <2>2 DEF MayHold, Between, FirstHeld, LastHeld
  <2> QED
    BY <2>1, <2>2
<1>4. \A k : (\E i \in 1..n : s[i] = k) <=> (\E i \in 1..(n - 1) : s[i] = k) \/ k = s[n]
  OBVIOUS
<1>5. ~ \E i \in 1..(n - 1) : s[i] = s[n]
  BY <1>1
<1>6. Stage(j.op, l2, side) \in {"taking", "taken"}
  OBVIOUS
<1> QED
  BY <1>2, <1>3, <1>4, <1>5, <1>6 DEF SurelyHolds, SideTaken

(***************************************************************************)
(* One call of unlockFile: path n leaves those that are held.              *)
(***************************************************************************)
LEMMA SideGives ==
  ASSUME NEW j \in JobTypes, NEW l, NEW l2, NEW n \in Nat \ {0}, NEW n2, NEW side \in Sides,
         NEW s, s = LockSequence(Place(j, side)),
         \/ Stage(j.op, l, side) \in {"giving", "anyGiving"}
         \/ Stage(j.op, l, side) = "givingX" /\ n # 1,
         n <= Len(s),
         \/ l2 = l /\ n2 = n + 1
         \/ n = Len(s) /\ Stage(j.op, l2, side) = "free",
         Stage(j.op, l, side) = "anyGiving" => Stage(j.op, l2, Other(side)) = "free"
  PROVE  /\ SideGiven(j, l, n, l2, n2, side, s[n])
         /\ Stage(j.op, l, side) # "anyGiving" => SurelyHolds(j, l, n, side, s[n])
<1>1. Len(s) \in Nat \ {0} /\ \A i, h \in 1..Len(s) : s[i] = s[h] => i = h
  BY SequenceOf
<1>2. \A k : MayHold(j, l, n, side, k) <=> \E i \in n..Len(s) : s[i] = k
  BY DEF MayHold, Between, FirstHeld, LastHeld
<1>3. \A k : MayHold(j, l2, n2, side, k) <=> \E i \in (n + 1)..Len(s) : s[i] = k
  <2>1. CASE l2 = l /\ n2 = n + 1
    BY <2>1 DEF MayHold, Between, FirstHeld, LastHeld
  <2>2. CASE n = Len(s) /\ Stage(j.op, l2, side) = "free"
    <3>1. (n + 1)..Len(s) = {} /\ 1..0 = {}
      BY <1>1, <2>2
    <3> QED
      BY <2>2, <3>1 DEF MayHold, Between, FirstHeld, LastHeld
  <2> QED
    BY <2>1, <2>2
<1>4. \A k : (\E i \in n..Len(s) : s[i] = k) <=>
                (\E i \in (n + 1)..Len(s) : s[i] = k) \/ k = s[n]
  BY <1>1
<1>5. ~ \E i \in (n + 1)..Len(s) : s[i] = s[n]
  BY <1>1
<1>6. /\ Stage(j.op, l2, side) \in {Stage(j.op, l, side), "free"}
      /\ ~MayHaveExclusive(j, l2, n2, side) /\ ~MayHaveExclusive(j, l, n, side)
  BY DEF MayHaveExclusive, HasExclusive
<1>7. \A k : Stage(j.op, l, side) = "anyGiving" => ~SurelyHolds(j, l2, n2, side, k)
  BY <1>1, <1>3, <1>6 DEF SurelyHolds, MayHold, Between, FirstHeld, LastHeld
<1>8. \A k : Stage(j.op, l, side) = "anyGiving" => ~SurelyHolds(j, l2, n2, Other(side), k)
  <2>1. Other(side) \in Sides
    BY DEF Other, Sides
  <2> DEFINE o == Other(side)
  <2> HIDE DEF o
  <2>2. 1..0 = {}
    OBVIOUS
  <2>3. Stage(j.op, l2, o) = "free" => \A k : ~SurelyHolds(j, l2, n2, o, k)
    BY <2>2 DEF SurelyHolds, MayHold, Between, FirstHeld, LastHeld
  <2> QED
    BY <2>3 DEF o
<1>9. \/ \A k : /\ SurelyHolds(j, l, n, side, k) <=> MayHold(j, l, n, side, k)
                /\ SurelyHolds(j, l2, n2, side, k) <=> MayHold(j, l2, n2, side, k)
      \/ \A k : ~SurelyHolds(j, l2, n2, side, k) /\ ~SurelyHolds(j, l2, n2, Other(side), k)
  BY <1>6, <1>7, <1>8 DEF SurelyHolds
<1>10. MayHold(j, l, n, side, s[n]) /\ ~MayHold(j, l2, n2, side, s[n])
  BY <1>1, <1>2, <1>3, <1>4, <1>5
<1>11. Stage(j.op, l, side) # "anyGiving" => SurelyHolds(j, l, n, side, s[n])
  BY <1>10 DEF SurelyHolds
<1>12. \A k : MayHold(j, l, n, side, k) <=> MayHold(j, l2, n2, side, k) \/ k = s[n]
  BY <1>2, <1>3, <1>4
<1>13. SideGiven(j, l, n, l2, n2, side, s[n])
  BY <1>6, <1>9, <1>10, <1>12 DEF SideGiven
<1> QED
  BY <1>11, <1>13

-----------------------------------------------------------------------------
(***************************************************************************)
(* How the account of the locks changes with each kind of call.  a is the  *)
(* side the call is about.                                                 *)
(***************************************************************************)
LEMMA SidesOf ==
  ASSUME NEW a \in Sides
  PROVE  /\ Other(a) \in Sides /\ Other(a) # a /\ \A side \in Sides : side \in {a, Other(a)}
         /\ \A j, l, n, k :
              /\ Most(j, l, n, k) =
                   One(MayHold(j, l, n, a, k)) + One(MayHold(j, l, n, Other(a), k))
              /\ Least(j, l, n, k) =
                   One(SurelyHolds(j, l, n, a, k)) + One(SurelyHolds(j, l, n, Other(a), k))
BY DEF Sides, Other, Most, Least, One

\* What an operation surely holds it holds; nothing is held more than twice.
LEMMA Counts ==
  ASSUME NEW j, NEW l, NEW n, NEW k
  PROVE  /\ Most(j, l, n, k) \in 0..2 /\ Least(j, l, n, k) \in 0..Most(j, l, n, k)
         /\ \A a \in Sides : SurelyHolds(j, l, n, a, k) => Least(j, l, n, k) >= 1
BY DEF Most, Least, One, SurelyHolds, Sides

\* No locks change, and nothing is said of them that was not said before.
LEMMA HoldingLoosens ==
  ASSUME NEW j \in JobTypes, NEW l, NEW l2, NEW n, NEW n2, NEW d \in Nat,
         NEW sh \in [Paths -> Nat], NEW ex \in [Paths -> BOOLEAN], NEW esc \in BOOLEAN,
         Holding(j, l, n, sh, ex, esc, d),
         \A side \in Sides :
           /\ Loosens(j, l, n, l2, n2, side)
           /\ MayHaveExclusive(j, l, n, side) =>
                MayHaveExclusive(j, l2, n2, side) \/ ~ex[Place(j, side)]
  PROVE  Holding(j, l2, n2, sh, ex, esc, d)
<1>0. \A side \in Sides : Place(j, side) \in Paths
  BY DEF JobTypes, Place
<1>1. ASSUME NEW k \in Paths
      PROVE  Least(j, l2, n2, k) <= Least(j, l, n, k) /\ Most(j, l, n, k) <= Most(j, l2, n2, k)
  BY DEF Loosens, Least, Most, One, Sides
<1>2. ASSUME NEW k \in Paths
      PROVE  /\ Least(j, l2, n2, k) <= sh[k]
             /\ sh[k] <= 2 * d + Most(j, l2, n2, k)
             /\ ~esc => sh[k] <= Most(j, l2, n2, k)
  <2>1. /\ Least(j, l, n, k) <= sh[k]
        /\ sh[k] <= 2 * d + Most(j, l, n, k)
        /\ ~esc => sh[k] <= Most(j, l, n, k)
    BY DEF Holding
  <2>2. /\ Most(j, l, n, k) \in Nat /\ Least(j, l, n, k) \in Nat
        /\ Most(j, l2, n2, k) \in Nat /\ Least(j, l2, n2, k) \in Nat
    BY Counts
  <2> QED
    BY <1>1, <2>1, <2>2
<1>3. ASSUME NEW k \in Paths, ~esc, ex[k]
      PROVE  \E side \in Sides : MayHaveExclusive(j, l2, n2, side) /\ k = Place(j, side)
  BY <1>3 DEF Holding
<1>4. ASSUME NEW side \in Sides
      PROVE  /\ HasExclusive(j, l2, n2, side) => ex[Place(j, side)]
             /\ Stage(j.op, l2, side) = "either" =>
                  ex[Place(j, side)] \/ sh[Place(j, side)] > 0
  <2>1. ASSUME SurelyHolds(j, l, n, side, Place(j, side)) PROVE sh[Place(j, side)] > 0
    <3>1. Least(j, l, n, Place(j, side)) >= 1 /\ Least(j, l, n, Place(j, side)) \in Nat
      BY <2>1, Counts
    <3> QED
      BY <1>0, <3>1 DEF Holding
  <2> QED
    BY <2>1 DEF Loosens, Holding
<1> QED
  BY <1>2, <1>3, <1>4 DEF Holding

\* The shared locks with one more or one less on path k, the exclusive ones
\* with or without k.
OneMore(sh, k) == [sh EXCEPT ![k] = @ + 1]
OneLess(sh, k) == [sh EXCEPT ![k] = IF @ > 0 THEN @ - 1 ELSE @]
With(ex, k) == [ex EXCEPT ![k] = TRUE]
Without(ex, k) == [ex EXCEPT ![k] = FALSE]

\* A shared lock on path k, which joins what side a holds.
LEMMA HoldingTakes ==
  ASSUME NEW j \in JobTypes, NEW l, NEW l2, NEW n, NEW n2, NEW d \in Nat,
         NEW sh \in [Paths -> Nat], NEW ex \in [Paths -> BOOLEAN], NEW esc \in BOOLEAN,
         Holding(j, l, n, sh, ex, esc, d), NEW a \in Sides, NEW k \in Paths,
         SideTaken(j, l, n, l2, n2, a, k),
         LoosensAll(j, l, n, l2, n2, Other(a))
  PROVE  /\ sh[k] <= 2 * d + 1
         /\ Holding(j, l2, n2, OneMore(sh, k), ex, esc, d)
<1> DEFINE sh2 == OneMore(sh, k)
<1>0. /\ \A side \in Sides : Place(j, side) \in Paths
      /\ \A i \in Paths : sh2[i] = IF i = k THEN sh[i] + 1 ELSE sh[i]
      /\ \A i \in Paths : sh[i] \in Nat
  BY DEF JobTypes, Place, OneMore
<1> HIDE DEF sh2
<1>9. /\ \A i : MayHold(j, l2, n2, a, i) <=> MayHold(j, l, n, a, i) \/ i = k
      /\ \A i : SurelyHolds(j, l2, n2, a, i) <=> SurelyHolds(j, l, n, a, i) \/ i = k
      /\ ~MayHold(j, l, n, a, k)
      /\ Stage(j.op, l, a) = "taking" /\ Stage(j.op, l2, a) \in {"taking", "taken"}
  BY DEF SideTaken
<1>1. ASSUME NEW i \in Paths
      PROVE  /\ Least(j, l2, n2, i) <= Least(j, l, n, i) + (IF i = k THEN 1 ELSE 0)
             /\ Most(j, l, n, i) + (IF i = k THEN 1 ELSE 0) <= Most(j, l2, n2, i)
             /\ Most(j, l, n, k) <= 1
  <2>1. /\ MayHold(j, l, n, Other(a), i) => MayHold(j, l2, n2, Other(a), i)
        /\ SurelyHolds(j, l2, n2, Other(a), i) => SurelyHolds(j, l, n, Other(a), i)
    BY DEF LoosensAll, Loosens
  <2>2. ~SurelyHolds(j, l, n, a, k)
    BY <1>9 DEF SurelyHolds
  <2> QED
    BY <1>9, <2>1, <2>2, SidesOf DEF One
<1>2. ASSUME NEW i \in Paths
      PROVE  /\ Least(j, l2, n2, i) <= sh2[i]
             /\ sh2[i] <= 2 * d + Most(j, l2, n2, i)
             /\ ~esc => sh2[i] <= Most(j, l2, n2, i)
             /\ sh[k] <= 2 * d + 1
  <2>1. /\ Least(j, l, n, i) <= sh[i]
        /\ sh[i] <= 2 * d + Most(j, l, n, i) /\ sh[k] <= 2 * d + Most(j, l, n, k)
        /\ ~esc => sh[i] <= Most(j, l, n, i)
    BY DEF Holding
  <2>2. /\ Most(j, l, n, i) \in Nat /\ Least(j, l, n, i) \in Nat /\ Most(j, l, n, k) \in Nat
        /\ Most(j, l2, n2, i) \in Nat /\ Least(j, l2, n2, i) \in Nat
    BY Counts
  <2> QED
    BY <1>0, <1>1, <2>1, <2>2
<1>3. ASSUME NEW i \in Paths, ~esc, ex[i]
      PROVE  \E side \in Sides : MayHaveExclusive(j, l2, n2, side) /\ i = Place(j, side)
  <2>1. PICK side \in Sides : MayHaveExclusive(j, l, n, side) /\ i = Place(j, side)
    BY <1>3 DEF Holding
  <2>2. side = Other(a)
    BY <1>9, <2>1, SidesOf DEF MayHaveExclusive, HasExclusive
  <2> QED
    BY <2>1, <2>2 DEF LoosensAll
<1>4. ASSUME NEW side \in Sides
      PROVE  /\ HasExclusive(j, l2, n2, side) => ex[Place(j, side)]
             /\ Stage(j.op, l2, side) = "either" =>
                  ex[Place(j, side)] \/ sh2[Place(j, side)] > 0
  <2>1. CASE side = a
    BY <1>9, <2>1 DEF HasExclusive
  <2>2. CASE side = Other(a)
    <3>1. ASSUME SurelyHolds(j, l, n, side, Place(j, side)) PROVE sh[Place(j, side)] > 0
      <4>1. Least(j, l, n, Place(j, side)) >= 1 /\ Least(j, l, n, Place(j, side)) \in Nat
        BY <3>1, Counts
      <4> QED
        BY <1>0, <4>1 DEF Holding
    <3>2. sh[Place(j, side)] > 0 => sh2[Place(j, side)] > 0
      BY <1>0
    <3> QED
      BY <2>2, <3>1, <3>2 DEF LoosensAll, Loosens, Holding
  <2> QED
    BY <2>1, <2>2, SidesOf
<1> QED
  BY <1>2, <1>3, <1>4 DEF Holding, sh2

\* A release of path k, which leaves what side a holds.
LEMMA HoldingGives ==
  ASSUME NEW j \in JobTypes, NEW l, NEW l2, NEW n, NEW n2, NEW d \in Nat,
         NEW sh \in [Paths -> Nat], NEW ex \in [Paths -> BOOLEAN], NEW esc \in BOOLEAN,
         Holding(j, l, n, sh, ex, esc, d), NEW a \in Sides, NEW k \in Paths,
         SideGiven(j, l, n, l2, n2, a, k),
         Stage(j.op, l2, Other(a)) # "either",
         LoosensAll(j, l, n, l2, n2, Other(a))
  PROVE  Holding(j, l2, n2, OneLess(sh, k), ex, esc, d)
<1> DEFINE sh2 == OneLess(sh, k)
<1>0. /\ \A i \in Paths : sh2[i] = IF i = k /\ sh[i] > 0 THEN sh[i] - 1 ELSE sh[i]
      /\ \A i \in Paths : sh[i] \in Nat
  BY DEF OneLess
<1> HIDE DEF sh2
<1>9. /\ \A i : MayHold(j, l, n, a, i) <=> MayHold(j, l2, n2, a, i) \/ i = k
      /\ ~MayHold(j, l2, n2, a, k)
      /\ \/ \A i : /\ SurelyHolds(j, l, n, a, i) <=> MayHold(j, l, n, a, i)
                   /\ SurelyHolds(j, l2, n2, a, i) <=> MayHold(j, l2, n2, a, i)
         \/ \A i : ~SurelyHolds(j, l2, n2, a, i) /\ ~SurelyHolds(j, l2, n2, Other(a), i)
      /\ ~MayHaveExclusive(j, l, n, a) /\ ~MayHaveExclusive(j, l2, n2, a)
  BY DEF SideGiven
<1>1. ASSUME NEW i \in Paths
      PROVE  /\ \/ Least(j, l2, n2, i) + (IF i = k THEN 1 ELSE 0) <= Least(j, l, n, i)
                \/ Least(j, l2, n2, i) = 0
             /\ Most(j, l, n, i) <= Most(j, l2, n2, i) + (IF i = k THEN 1 ELSE 0)
  <2>1. /\ MayHold(j, l, n, Other(a), i) => MayHold(j, l2, n2, Other(a), i)
        /\ SurelyHolds(j, l2, n2, Other(a), i) => SurelyHolds(j, l, n, Other(a), i)
    BY DEF LoosensAll, Loosens
  <2> QED
    BY <1>9, <2>1, SidesOf DEF One
<1>2. ASSUME NEW i \in Paths
      PROVE  /\ Least(j, l2, n2, i) <= sh2[i]
             /\ sh2[i] <= 2 * d + Most(j, l2, n2, i)
             /\ ~esc => sh2[i] <= Most(j, l2, n2, i)
  <2>1. /\ Least(j, l, n, i) <= sh[i]
        /\ sh[i] <= 2 * d + Most(j, l, n, i)
        /\ ~esc => sh[i] <= Most(j, l, n, i)
    BY DEF Holding
  <2>2. /\ Most(j, l, n, i) \in Nat /\ Least(j, l, n, i) \in Nat
        /\ Most(j, l2, n2, i) \in Nat /\ Least(j, l2, n2, i) \in Nat
    BY Counts
  <2> QED
    BY <1>0, <1>1, <2>1, <2>2
<1>3. ASSUME NEW i \in Paths, ~esc, ex[i]
      PROVE  \E side \in Sides : MayHaveExclusive(j, l2, n2, side) /\ i = Place(j, side)
  <2>1. PICK side \in Sides : MayHaveExclusive(j, l, n, side) /\ i = Place(j, side)
    BY <1>3 DEF Holding
  <2>2. side = Other(a)
    BY <1>9, <2>1, SidesOf
  <2> QED
    BY <2>1, <2>2 DEF LoosensAll
<1>4. ASSUME NEW side \in Sides
      PROVE  /\ HasExclusive(j, l2, n2, side) => ex[Place(j, side)]
             /\ Stage(j.op, l2, side) # "either"
  <2>1. CASE side = a
    BY <1>9, <2>1 DEF HasExclusive, MayHaveExclusive
  <2>2. CASE side = Other(a)
    BY <2>2 DEF LoosensAll, Loosens, Holding
  <2> QED
    BY <2>1, <2>2, SidesOf
<1> QED
  BY <1>2, <1>3, <1>4 DEF Holding, sh2

(***************************************************************************)
(* An upgrade: what the provider grants is the only shared lock that the   *)
(* process has on the path, so it is the one that this side holds.         *)
(***************************************************************************)
LEMMA HoldingUpgrades ==
  ASSUME NEW j \in JobTypes, NEW l, NEW l2, NEW n \in Nat \ {0}, NEW d \in Nat,
         NEW sh \in [Paths -> Nat], NEW ex \in [Paths -> BOOLEAN], NEW esc \in BOOLEAN,
         Holding(j, l, n, sh, ex, esc, d), NEW a \in Sides, NEW k, k = Place(j, a),
         Stage(j.op, l, a) = "taken", Stage(j.op, l2, a) = "exclusive",
         Stage(j.op, l2, Other(a)) # "either",
         LoosensAll(j, l, n, l2, 1, Other(a)),
         sh[k] <= 1
  PROVE  /\ sh[k] = 1
         /\ Holding(j, l2, 1, OneLess(sh, k), With(ex, k), esc, d)
<1> DEFINE sh2 == OneLess(sh, k)
           ex2 == With(ex, k)
           s == LockSequence(Place(j, a))
<1>0. /\ \A side \in Sides : Place(j, side) \in Paths
      /\ k \in Paths
      /\ \A i \in Paths : sh2[i] = IF i = k /\ sh[i] > 0 THEN sh[i] - 1 ELSE sh[i]
      /\ \A i \in Paths : ex2[i] <=> (i = k \/ ex[i])
      /\ \A i \in Paths : sh[i] \in Nat
  BY DEF JobTypes, Place, OneLess, With
<1>1. /\ Len(s) \in Nat \ {0} /\ s[1] = k
      /\ \A i, h \in 1..Len(s) : s[i] = s[h] => i = h
  BY SequenceOf
<1> HIDE DEF sh2, ex2, s
<1>2. /\ \A i : MayHold(j, l, n, a, i) <=> SurelyHolds(j, l, n, a, i)
      /\ \A i : MayHold(j, l, n, a, i) <=> \E h \in 1..Len(s) : s[h] = i
      /\ \A i : MayHold(j, l2, 1, a, i) <=> SurelyHolds(j, l2, 1, a, i)
      /\ \A i : MayHold(j, l2, 1, a, i) <=> \E h \in 2..Len(s) : s[h] = i
  BY DEF MayHold, SurelyHolds, Between, FirstHeld, LastHeld, s
<1>3. \A i : MayHold(j, l, n, a, i) <=> MayHold(j, l2, 1, a, i) \/ i = k
  <2>1. \A h : h \in 1..Len(s) <=> h \in 2..Len(s) \/ h = 1
    BY <1>1
  <2> QED
    BY <1>1, <1>2, <2>1
<1>4. ~MayHold(j, l2, 1, a, k)
  BY <1>1, <1>2
<1>5. ASSUME NEW i \in Paths
      PROVE  /\ Least(j, l2, 1, i) + (IF i = k THEN 1 ELSE 0) <= Least(j, l, n, i)
             /\ Most(j, l, n, i) <= Most(j, l2, 1, i) + (IF i = k THEN 1 ELSE 0)
  <2>1. /\ MayHold(j, l, n, Other(a), i) => MayHold(j, l2, 1, Other(a), i)
        /\ SurelyHolds(j, l2, 1, Other(a), i) => SurelyHolds(j, l, n, Other(a), i)
    BY DEF LoosensAll, Loosens
  <2>2. /\ MayHold(j, l, n, a, i) <=> MayHold(j, l2, 1, a, i) \/ i = k
        /\ SurelyHolds(j, l, n, a, i) <=> SurelyHolds(j, l2, 1, a, i) \/ i = k
        /\ ~SurelyHolds(j, l2, 1, a, k)
    BY <1>2, <1>3, <1>4
  <2>3. /\ One(SurelyHolds(j, l2, 1, a, i)) + (IF i = k THEN 1 ELSE 0)
             <= One(SurelyHolds(j, l, n, a, i))
        /\ One(MayHold(j, l, n, a, i))
             <= One(MayHold(j, l2, 1, a, i)) + (IF i = k THEN 1 ELSE 0)
    BY <2>2 DEF One
  <2>4. /\ One(SurelyHolds(j, l2, 1, Other(a), i)) <= One(SurelyHolds(j, l, n, Other(a), i))
        /\ One(MayHold(j, l, n, Other(a), i)) <= One(MayHold(j, l2, 1, Other(a), i))
    BY <2>1 DEF One
  <2> QED
    BY <2>3, <2>4, SidesOf DEF One
<1>6. ASSUME NEW i \in Paths
      PROVE  /\ Least(j, l2, 1, i) <= sh2[i]
             /\ sh2[i] <= 2 * d + Most(j, l2, 1, i)
             /\ ~esc => sh2[i] <= Most(j, l2, 1, i)
             /\ sh[k] = 1
  <2>1. /\ Least(j, l, n, i) <= sh[i] /\ Least(j, l, n, k) <= sh[k]
        /\ sh[i] <= 2 * d + Most(j, l, n, i)
        /\ ~esc => sh[i] <= Most(j, l, n, i)
    BY <1>0 DEF Holding
  <2>2. /\ Most(j, l, n, i) \in Nat /\ Least(j, l, n, i) \in Nat /\ Least(j, l, n, k) \in Nat
        /\ Most(j, l2, 1, i) \in Nat /\ Least(j, l2, 1, i) \in Nat
    BY Counts
  <2>3. Least(j, l, n, k) >= 1
    BY <1>2, <1>3, Counts
  <2> QED
    BY <1>0, <1>5, <2>1, <2>2, <2>3
<1>7. ASSUME NEW i \in Paths, ~esc, ex2[i]
      PROVE  \E side \in Sides : MayHaveExclusive(j, l2, 1, side) /\ i = Place(j, side)
  <2>1. CASE i = k
    BY <2>1 DEF MayHaveExclusive, HasExclusive
  <2>2. CASE i # k
    <3>1. PICK side \in Sides : MayHaveExclusive(j, l, n, side) /\ i = Place(j, side)
      BY <1>0, <1>7, <2>2 DEF Holding
    <3>2. side = Other(a)
      BY <2>2, <3>1, SidesOf
    <3> QED
      BY <3>1, <3>2 DEF LoosensAll
  <2> QED
    BY <2>1, <2>2
<1>8. ASSUME NEW side \in Sides
      PROVE  /\ HasExclusive(j, l2, 1, side) => ex2[Place(j, side)]
             /\ Stage(j.op, l2, side) # "either"
  <2>1. CASE side = a
    BY <1>0, <2>1
  <2>2. CASE side = Other(a)
    BY <1>0, <2>2 DEF LoosensAll, Loosens, Holding
  <2> QED
    BY <2>1, <2>2, SidesOf
<1> QED
  BY <1>0, <1>6, <1>7, <1>8 DEF Holding, sh2, ex2

(***************************************************************************)
(* A downgrade: the row was exclusive, so the process had no shared lock   *)
(* on the path and has one now.                                            *)
(***************************************************************************)
LEMMA HoldingDowngrades ==
  ASSUME NEW j \in JobTypes, NEW l, NEW l2, NEW n \in Nat \ {0}, NEW d \in Nat,
         NEW sh \in [Paths -> Nat], NEW ex \in [Paths -> BOOLEAN], NEW esc \in BOOLEAN,
         Holding(j, l, n, sh, ex, esc, d), NEW a \in Sides, NEW k, k = Place(j, a),
         \/ Stage(j.op, l, a) = "exclusive" /\ Stage(j.op, l2, a) = "taken"
         \/ Stage(j.op, l, a) = "either" /\ Stage(j.op, l2, a) = "any",
         ~HasExclusive(j, l2, 1, Other(a)),
         LoosensAll(j, l, n, l2, 1, Other(a)),
         sh[k] = 0
  PROVE  Holding(j, l2, 1, OneMore(sh, k), Without(ex, k), esc, d)
<1> DEFINE sh2 == OneMore(sh, k)
           ex2 == Without(ex, k)
           s == LockSequence(Place(j, a))
<1>0. /\ \A side \in Sides : Place(j, side) \in Paths
      /\ k \in Paths
      /\ \A i \in Paths : sh2[i] = IF i = k THEN sh[i] + 1 ELSE sh[i]
      /\ \A i \in Paths : ex2[i] <=> (i # k /\ ex[i])
      /\ \A i \in Paths : sh[i] \in Nat
  BY DEF JobTypes, Place, OneMore, Without
<1>1. Len(s) \in Nat \ {0} /\ s[1] = k
  BY SequenceOf
<1> HIDE DEF sh2, ex2, s
<1>2. /\ \A i : SurelyHolds(j, l2, 1, a, i) /\ i # k => SurelyHolds(j, l, n, a, i)
      /\ \A i : MayHold(j, l, n, a, i) => MayHold(j, l2, 1, a, i)
      /\ MayHold(j, l2, 1, a, k)
  <2>1. \A h : h \in 1..Len(s) <=> h \in 2..Len(s) \/ h = 1
    BY <1>1
  <2>2. \A i : MayHold(j, l2, 1, a, i) <=> \E h \in 1..Len(s) : s[h] = i
    BY DEF MayHold, Between, FirstHeld, LastHeld, s
  <2>3. CASE Stage(j.op, l, a) = "exclusive"
    <3>1. \A i : MayHold(j, l, n, a, i) <=> \E h \in 2..Len(s) : s[h] = i
      BY <2>3 DEF MayHold, Between, FirstHeld, LastHeld, s
    <3> QED
      BY <1>1, <2>1, <2>2, <2>3, <3>1 DEF SurelyHolds
  <2>4. CASE Stage(j.op, l, a) = "either" /\ Stage(j.op, l2, a) = "any"
    <3>1. \A i : MayHold(j, l, n, a, i) <=> \E h \in 1..Len(s) : s[h] = i
      BY <2>4 DEF MayHold, Between, FirstHeld, LastHeld, s
    <3> QED
      BY <1>1, <2>1, <2>2, <2>4, <3>1 DEF SurelyHolds
  <2> QED
    BY <2>3, <2>4
<1>3. /\ \A i \in Paths : MayHold(j, l, n, Other(a), i) => MayHold(j, l2, 1, Other(a), i)
      /\ \A i \in Paths :
           SurelyHolds(j, l2, 1, Other(a), i) => SurelyHolds(j, l, n, Other(a), i)
  BY DEF LoosensAll, Loosens
<1>4. ~SurelyHolds(j, l, n, Other(a), k)
  <2>1. Least(j, l, n, k) <= 0
    BY <1>0 DEF Holding
  <2> QED
    BY <2>1, Counts, SidesOf
<1>5. ASSUME NEW i \in Paths
      PROVE  /\ i # k => Least(j, l2, 1, i) <= Least(j, l, n, i)
             /\ i = k => Least(j, l2, 1, i) <= 1 /\ Most(j, l2, 1, i) >= 1
             /\ Most(j, l, n, i) <= Most(j, l2, 1, i)
  BY <1>2, <1>3, <1>4, SidesOf DEF One
<1>6. ASSUME NEW i \in Paths
      PROVE  /\ Least(j, l2, 1, i) <= sh2[i]
             /\ sh2[i] <= 2 * d + Most(j, l2, 1, i)
             /\ ~esc => sh2[i] <= Most(j, l2, 1, i)
  <2>1. /\ Least(j, l, n, i) <= sh[i]
        /\ sh[i] <= 2 * d + Most(j, l, n, i)
        /\ ~esc => sh[i] <= Most(j, l, n, i)
    BY <1>0 DEF Holding
  <2>2. /\ Most(j, l, n, i) \in Nat /\ Least(j, l, n, i) \in Nat
        /\ Most(j, l2, 1, i) \in Nat /\ Least(j, l2, 1, i) \in Nat
    BY Counts
  <2> QED
    BY <1>0, <1>5, <2>1, <2>2
<1>7. ASSUME NEW i \in Paths, ~esc, ex2[i]
      PROVE  \E side \in Sides : MayHaveExclusive(j, l2, 1, side) /\ i = Place(j, side)
  <2>1. PICK side \in Sides : MayHaveExclusive(j, l, n, side) /\ i = Place(j, side)
    BY <1>0, <1>7 DEF Holding
  <2>2. side = Other(a)
    BY <1>0, <1>7, <2>1, SidesOf
  <2> QED
    BY <2>1, <2>2 DEF LoosensAll
<1>8. ASSUME NEW side \in Sides
      PROVE  /\ ~HasExclusive(j, l2, 1, side)
             /\ Stage(j.op, l2, side) = "either" =>
                  ex2[Place(j, side)] \/ sh2[Place(j, side)] > 0
  <2>1. CASE side = a
    BY <2>1 DEF HasExclusive
  <2>2. CASE side = Other(a)
    <3>1. ASSUME SurelyHolds(j, l, n, side, Place(j, side)) PROVE sh[Place(j, side)] > 0
      <4>1. Least(j, l, n, Place(j, side)) >= 1 /\ Least(j, l, n, Place(j, side)) \in Nat
        BY <3>1, Counts
      <4> QED
        BY <1>0, <4>1 DEF Holding
    <3>2. Stage(j.op, l2, side) = "either" => ex[Place(j, side)] \/ sh[Place(j, side)] > 0
      BY <2>2, <3>1 DEF LoosensAll, Loosens, Holding
    <3>3. Place(j, side) \in Paths
      BY <1>0
    <3> QED
      BY <1>0, <2>2, <3>2, <3>3
  <2> QED
    BY <2>1, <2>2, SidesOf
<1> QED
  BY <1>6, <1>7, <1>8 DEF Holding, sh2, ex2

(***************************************************************************)
(* unlockFile gives the path itself back, that was held exclusively.       *)
(***************************************************************************)
LEMMA HoldingGivesExclusive ==
  ASSUME NEW j \in JobTypes, NEW l, NEW l2, NEW n2, NEW d \in Nat,
         NEW sh \in [Paths -> Nat], NEW ex \in [Paths -> BOOLEAN], NEW esc \in BOOLEAN,
         Holding(j, l, 1, sh, ex, esc, d), NEW a \in Sides, NEW k, k = Place(j, a),
         Stage(j.op, l, a) = "givingX",
         \/ l2 = l /\ n2 = 2
         \/ Len(LockSequence(k)) = 1 /\ Stage(j.op, l2, a) = "free",
         ~MayHaveExclusive(j, l, 1, Other(a)),
         Stage(j.op, l2, Other(a)) # "either",
         LoosensAll(j, l, 1, l2, n2, Other(a))
  PROVE  Holding(j, l2, n2, sh, Without(ex, k), esc, d)
<1> DEFINE ex2 == Without(ex, k)
           s == LockSequence(Place(j, a))
<1>0. /\ \A side \in Sides : Place(j, side) \in Paths
      /\ k \in Paths
      /\ \A i \in Paths : ex2[i] <=> (i # k /\ ex[i])
      /\ Len(s) \in Nat \ {0}
  BY SequenceOf DEF JobTypes, Place, Without
<1> HIDE DEF ex2, s
<1>1. \A i : MayHold(j, l, 1, a, i) <=> MayHold(j, l2, n2, a, i)
  <2>1. CASE l2 = l /\ n2 = 2
    BY <2>1 DEF MayHold, FirstHeld, LastHeld
  <2>2. CASE Len(s) = 1 /\ Stage(j.op, l2, a) = "free"
    <3>1. 2..1 = {} /\ 1..0 = {}
      OBVIOUS
    <3> QED
      BY <2>2, <3>1 DEF MayHold, Between, FirstHeld, LastHeld, s
  <2> QED
    BY <2>1, <2>2 DEF s
<1>2. \A i : SurelyHolds(j, l2, n2, a, i) => SurelyHolds(j, l, 1, a, i)
  BY <1>1 DEF SurelyHolds
<1>3. ~MayHaveExclusive(j, l2, n2, a)
  BY DEF MayHaveExclusive, HasExclusive
<1>4. ASSUME NEW i \in Paths
      PROVE  Least(j, l2, n2, i) <= Least(j, l, 1, i) /\ Most(j, l, 1, i) <= Most(j, l2, n2, i)
  BY <1>1, <1>2, SidesOf DEF One, LoosensAll, Loosens
<1>5. ASSUME NEW i \in Paths
      PROVE  /\ Least(j, l2, n2, i) <= sh[i]
             /\ sh[i] <= 2 * d + Most(j, l2, n2, i)
             /\ ~esc => sh[i] <= Most(j, l2, n2, i)
  <2>1. /\ Least(j, l, 1, i) <= sh[i]
        /\ sh[i] <= 2 * d + Most(j, l, 1, i)
        /\ ~esc => sh[i] <= Most(j, l, 1, i)
    BY DEF Holding
  <2>2. /\ Most(j, l, 1, i) \in Nat /\ Least(j, l, 1, i) \in Nat
        /\ Most(j, l2, n2, i) \in Nat /\ Least(j, l2, n2, i) \in Nat
    BY Counts
  <2> QED
    BY <1>4, <2>1, <2>2
<1>6. ASSUME NEW i \in Paths, ~esc PROVE ~ex2[i]
  BY <1>0, <1>6, SidesOf DEF Holding
<1>7. ASSUME NEW side \in Sides
      PROVE  ~HasExclusive(j, l2, n2, side) /\ Stage(j.op, l2, side) # "either"
  BY <1>3, SidesOf DEF MayHaveExclusive, LoosensAll, Loosens
<1> QED
  BY <1>5, <1>6, <1>7 DEF Holding, ex2

(***************************************************************************)
(* The end of an operation: it has given everything back, or an exception  *)
(* leaves behind at most what it held.                                     *)
(***************************************************************************)
LEMMA HoldingEnds ==
  ASSUME NEW j \in JobTypes, NEW n, NEW d \in Nat,
         NEW sh \in [Paths -> Nat], NEW ex \in [Paths -> BOOLEAN], NEW esc \in BOOLEAN,
         Holding(j, Done, n, sh, ex, esc, d),
         \A side \in Sides : Stage(j.op, Done, side) = "free"
  PROVE  Resting(sh, ex, esc, FALSE, d + 1)
<1>1. ASSUME NEW k \in Paths PROVE Most(j, Done, n, k) = 0
  BY DEF Most, One, MayHold, Between, FirstHeld, LastHeld, Sides
<1>2. \A side \in Sides : ~MayHaveExclusive(j, Done, n, side)
  BY DEF MayHaveExclusive, HasExclusive
<1>3. \A k \in Paths : sh[k] <= 2 * (d + 1) /\ (~esc => sh[k] = 0)
  BY <1>1 DEF Holding
<1> QED
  BY <1>2, <1>3 DEF Holding, Resting

LEMMA HoldingEscapes ==
  ASSUME NEW j \in JobTypes, NEW l, NEW n, NEW d \in Nat,
         NEW sh \in [Paths -> Nat], NEW ex, NEW esc \in BOOLEAN,
         Holding(j, l, n, sh, ex, esc, d)
  PROVE  Resting(sh, ex, TRUE, FALSE, d + 1)
<1>1. \A k \in Paths : Most(j, l, n, k) \in 0..2
  BY Counts
<1> QED
  BY <1>1 DEF Holding, Resting

\* The stages at the end and at the start of an operation.
LEMMA DoneIsFree ==
  ASSUME NEW o \in Operations, NEW side \in Sides
  PROVE  Stage(o, Done, side) = "free"
BY DEF Operations, Sides, Stage, Outline, Done, Has, ReadOutline, WriteOutline, RenameOutline,
       CopyOutline

LEMMA StartIsFree ==
  ASSUME NEW o \in Operations, NEW side \in Sides
  PROVE  "start" \in Labels(o) /\ Stage(o, "start", side) \in {"free", "taking"}
BY DEF Operations, Sides, Stage, Outline, Done, Has, Labels, ReadOutline, WriteOutline,
       RenameOutline, CopyOutline

\* A job begins with nothing of its own.
LEMMA HoldingStarts ==
  ASSUME NEW j \in JobTypes, NEW d \in Nat,
         NEW sh \in [Paths -> Nat], NEW ex \in [Paths -> BOOLEAN], NEW esc \in BOOLEAN,
         Resting(sh, ex, esc, FALSE, d)
  PROVE  Holding(j, "start", 1, sh, ex, esc, d)
<1>0. j.op \in Operations
  BY DEF JobTypes
<1>1. \A side \in Sides : \A k : ~MayHold(j, "start", 1, side, k)
  BY <1>0, StartIsFree DEF MayHold, Between, FirstHeld, LastHeld
<1>2. \A k : Most(j, "start", 1, k) = 0 /\ Least(j, "start", 1, k) = 0
  BY <1>1 DEF Most, Least, One, SurelyHolds, Sides
<1>3. \A side \in Sides : ~MayHaveExclusive(j, "start", 1, side)
  BY <1>0, StartIsFree DEF MayHaveExclusive, HasExclusive
<1> QED
  BY <1>2, <1>3 DEF Holding, Resting, MayHaveExclusive

-----------------------------------------------------------------------------
(***************************************************************************)
(* Where control goes on.  First, what a process is at.                    *)
(***************************************************************************)
LEMMA AtInstruction ==
  ASSUME NEW p \in Procs, InJob(p), NEW a, a = Instr(p).on
  PROVE  /\ job[p] \in JobTypes /\ job[p].op \in Operations
         /\ Fits(job[p].op, pc[p], Instr(p))
         /\ a \in Sides => PathOf(p) = Place(job[p], a)
<1>1. job[p] \in JobTypes /\ job[p].op \in Operations
  BY JobsAssumption DEF InJob, JobTypes
<1>2. Fits(job[p].op, pc[p], Program(job[p].op)[pc[p]])
  BY <1>1, OutlineOf DEF InJob
<1> QED
  BY <1>1, <1>2 DEF Instr, PathOf, Place, Sides

\* The labels are neither of the two ways out.
LEMMA LabelsInside ==
  ASSUME NEW o \in Operations, NEW l \in Labels(o)
  PROVE  l \in AllLabels /\ l \notin {Done, Escape}
<1>0. l \in AllLabels
  BY DEF AllLabels
<1> SUFFICES l \notin {Done, Escape}
  BY <1>0
<1> USE DEF Labels, Outline, Done, Escape
<1>1. CASE o = "read"
  BY <1>1 DEF ReadOutline
<1>2. CASE o \in {"write", "delete", "put", "open"}
  BY <1>2 DEF WriteOutline
<1>3. CASE o = "rename"
  BY <1>3 DEF RenameOutline
<1>4. CASE o = "copy"
  BY <1>4 DEF CopyOutline
<1> QED
  BY <1>1, <1>2, <1>3, <1>4 DEF Operations

\* NoJob is none of the jobs.
LEMMA JobIsBusy ==
  ASSUME NEW p \in Procs, NEW j \in Jobs[p]
  PROVE  j \in JobTypes /\ j # NoJob
<1>1. j \in JobTypes
  BY JobsAssumption DEF JobTypes
<1>2. NoJob.op \notin Operations
  BY DEF NoJob, Operations
<1> QED
  BY <1>1, <1>2 DEF JobTypes

\* A path has a sequence of at least itself.
LEMMA SequenceLength ==
  ASSUME NEW k \in Paths
  PROVE  Len(LockSequence(k)) \in Nat /\ Len(LockSequence(k)) >= 1
<1>1. Parents[k] \in Seq(Paths)
  BY ParentsAssumption
<1> QED
  BY <1>1 DEF LockSequence

\* What a step of p leaves of the other processes.
ControlOfOthers(p) ==
  \A q \in Procs \ {p} :
    /\ job'[q] = job[q] /\ pc'[q] = pc[q] /\ idx'[q] = idx[q]
    /\ left'[q] = left[q] /\ escaped'[q] = escaped[q]

LocksOfOthers(p) ==
  \A q \in Procs \ {p} :
    closing'[q] = closing[q] /\ shared'[q] = shared[q] /\ exclusive'[q] = exclusive[q]

(***************************************************************************)
(* Control goes on at a label of the program.                              *)
(***************************************************************************)
LEMMA GoesOn ==
  ASSUME ControlTyped, NEW p \in Procs, InJob(p), UNCHANGED closing,
         NEW l \in Labels(job[p].op), GoTo(p, l),
         Holding(job[p], l, 1, shared'[p], exclusive'[p], escaped[p], MaxJobs - 1 - left[p])
  PROVE  ControlTyped' /\ ControlOfOthers(p) /\ Outlined(p)'
<1>1. job[p] \in JobTypes /\ job[p].op \in Operations /\ job[p] # NoJob
  BY AtInstruction, JobIsBusy DEF InJob
<1>2. l \in AllLabels /\ l \notin {Done, Escape}
  BY <1>1, LabelsInside
<1>3. /\ idx' = [idx EXCEPT ![p] = 1] /\ pc' = [pc EXCEPT ![p] = l]
      /\ job' = [job EXCEPT ![p] = @]
      /\ escaped' = [escaped EXCEPT ![p] = @ /\ TRUE] /\ left' = [left EXCEPT ![p] = @]
  BY <1>2 DEF GoTo
<1>4. ControlTyped' /\ ControlOfOthers(p)
  BY <1>1, <1>2, <1>3 DEF ControlTyped, ControlOfOthers
<1>5. /\ job'[p] = job[p] /\ pc'[p] = l /\ idx'[p] = 1 /\ left'[p] = left[p]
      /\ escaped'[p] = escaped[p] /\ closing'[p] = closing[p]
  BY <1>3 DEF ControlTyped
<1>6. PathOf(p)' \in Paths
  BY <1>1, <1>5 DEF PathOf, JobTypes
<1>7. 1 <= Len(LockSequence(PathOf(p)'))
  BY <1>6, SequenceLength
<1>8. InJob(p)'
  BY <1>5, <1>7 DEF InJob
<1> QED
  BY <1>1, <1>4, <1>5, <1>8 DEF Outlined, Busy

\* It stays there for the next path of the sequence.
LEMMA NextPathOn ==
  ASSUME ControlTyped, NEW p \in Procs, InJob(p), UNCHANGED closing, NEW l, NextPath(p, l),
         idx[p] < Len(LockSequence(PathOf(p))),
         Holding(job[p], pc[p], idx[p] + 1, shared'[p], exclusive'[p], escaped[p],
                 MaxJobs - 1 - left[p])
  PROVE  ControlTyped' /\ ControlOfOthers(p) /\ Outlined(p)'
<1>1. idx' = [idx EXCEPT ![p] = @ + 1] /\ UNCHANGED <<job, pc, left, escaped>>
  BY DEF NextPath
<1>2. idx'[p] = idx[p] + 1 /\ idx[p] \in Nat \ {0} /\ \A q \in Procs \ {p} : idx'[q] = idx[q]
  BY <1>1 DEF ControlTyped
<1>3. ControlTyped' /\ ControlOfOthers(p)
  BY <1>1, <1>2 DEF ControlTyped, ControlOfOthers
<1>4. PathOf(p) \in Paths /\ PathOf(p)' = PathOf(p)
  BY <1>1, AtInstruction DEF PathOf, JobTypes, Instr
<1>5. idx'[p] <= Len(LockSequence(PathOf(p)))
  BY <1>2, <1>4, SequenceLength
<1>6. InJob(p)'
  BY <1>1, <1>2, <1>4, <1>5 DEF InJob, Instr
<1>7. Busy(p)'
  <2>1. job[p] # NoJob
    BY JobIsBusy DEF InJob
  <2> QED
    BY <1>1, <2>1 DEF Busy
<1> QED
  BY <1>3, <1>6, <1>7 DEF Outlined

(***************************************************************************)
(* Control leaves the operation, which has given everything back, or by an *)
(* exception.                                                              *)
(***************************************************************************)
LEMMA Leaves ==
  ASSUME TypeOK', ControlTyped, NEW p \in Procs, InJob(p), UNCHANGED closing,
         NEW l \in {Done, Escape}, GoTo(p, l), NEW n,
         Holding(job[p], IF l = Done THEN Done ELSE pc[p], n, shared'[p], exclusive'[p],
                 escaped[p], MaxJobs - 1 - left[p])
  PROVE  ControlTyped' /\ ControlOfOthers(p) /\ Outlined(p)'
<1> DEFINE fresh == \A k \in Paths : ~Relies(p, k)'
           esc2 == (escaped[p] \/ l = Escape) /\ ~fresh
           left2 == IF fresh THEN MaxJobs ELSE left[p]
<1>0. /\ left[p] \in Nat /\ left[p] < MaxJobs /\ MaxJobs \in Nat /\ escaped[p] \in BOOLEAN
      /\ shared'[p] \in [Paths -> Nat] /\ exclusive'[p] \in [Paths -> BOOLEAN]
      /\ closing'[p] = FALSE /\ closing[p] = FALSE
  <2>1. closing'[p] \in BOOLEAN /\ shared'[p] \in [Paths -> 0..MaxShared]
    BY DEF TypeOK
  <2> QED
    BY <2>1, MaxJobsAssumption, BoundsAssumption DEF TypeOK, ControlTyped, InJob
<1>1. /\ idx' = [idx EXCEPT ![p] = 1] /\ pc' = [pc EXCEPT ![p] = Done]
      /\ job' = [job EXCEPT ![p] = NoJob]
      /\ escaped' = [escaped EXCEPT ![p] = esc2] /\ left' = [left EXCEPT ![p] = left2]
  BY DEF GoTo
<1>2. esc2 \in BOOLEAN /\ left2 \in 0..MaxJobs
  BY <1>0 DEF ControlTyped
<1> HIDE DEF esc2, left2
<1>3. ControlTyped' /\ ControlOfOthers(p)
  <2>1. /\ job' \in [Procs -> JobTypes \cup {NoJob}]
        /\ idx' \in [Procs -> Nat \ {0}]
        /\ escaped' \in [Procs -> BOOLEAN]
        /\ left' \in [Procs -> 0..MaxJobs]
    BY <1>1, <1>2 DEF ControlTyped
  <2>2. pc' \in [Procs -> AllLabels \cup {Done}]
    BY <1>1 DEF ControlTyped
  <2>3. ControlOfOthers(p)
    BY <1>1 DEF ControlTyped, ControlOfOthers
  <2> QED
    BY <2>1, <2>2, <2>3 DEF ControlTyped
<1>4. /\ job'[p] = NoJob /\ idx'[p] = 1 /\ left'[p] = left2 /\ escaped'[p] = esc2
  BY <1>1 DEF ControlTyped
<1>5. Resting(shared'[p], exclusive'[p], esc2, FALSE, MaxJobs - left2)
  <2>1. CASE fresh
    <3>1. \A k \in Paths : shared'[p][k] = 0 /\ ~exclusive'[p][k]
      BY <1>0, <2>1 DEF Relies, Holds
    <3>2. MaxJobs - left2 = 0
      BY <1>0, <2>1 DEF left2
    <3> QED
      BY <3>1, <3>2 DEF Resting
  <2>2. CASE ~fresh
    <3> DEFINE d == MaxJobs - 1 - left[p]
    <3>1. d \in Nat /\ d + 1 = MaxJobs - left2
      BY <1>0, <2>2 DEF left2
    <3>2. job[p] \in JobTypes /\ job[p].op \in Operations
      BY AtInstruction
    <3> HIDE DEF d
    <3>3. CASE l = Done
      <4>1. Holding(job[p], Done, n, shared'[p], exclusive'[p], escaped[p], d)
        BY <3>3 DEF d
      <4>2. esc2 = escaped[p]
        BY <1>0, <2>2, <3>3 DEF esc2, Done, Escape
      <4> QED
        BY <1>0, <3>1, <3>2, <4>1, <4>2, HoldingEnds, DoneIsFree
    <3>4. CASE l = Escape
      <4>1. Holding(job[p], pc[p], n, shared'[p], exclusive'[p], escaped[p], d)
        BY <3>4 DEF d, Done, Escape
      <4>2. esc2 = TRUE
        BY <2>2, <3>4 DEF esc2
      <4> QED
        BY <1>0, <3>1, <3>2, <4>1, <4>2, HoldingEscapes
    <3> QED
      BY <3>3, <3>4
  <2> QED
    BY <2>1, <2>2
<1>6. BetweenJobs(p)'
  BY <1>0, <1>4, <1>5 DEF BetweenJobs
<1> QED
  BY <1>3, <1>4, <1>6 DEF Outlined, Busy

\* A process that a step leaves alone is where it was.
LEMMA OthersKept ==
  ASSUME OutlineKept, NEW p \in Procs, ControlOfOthers(p), LocksOfOthers(p), Outlined(p)'
  PROVE  OutlineKept'
<1> SUFFICES ASSUME NEW q \in Procs, q # p PROVE Outlined(q)'
  BY DEF OutlineKept
<1>1. /\ job'[q] = job[q] /\ pc'[q] = pc[q] /\ idx'[q] = idx[q]
      /\ left'[q] = left[q] /\ escaped'[q] = escaped[q]
      /\ closing'[q] = closing[q] /\ shared'[q] = shared[q] /\ exclusive'[q] = exclusive[q]
  BY DEF ControlOfOthers, LocksOfOthers
<1>2. Outlined(q)
  BY DEF OutlineKept
<1>3. Busy(q)' = Busy(q) /\ Instr(q)' = Instr(q) /\ PathOf(q)' = PathOf(q)
  BY <1>1 DEF Busy, Instr, PathOf
<1>4. InJob(q) => InJob(q)'
  BY <1>1, <1>3 DEF InJob
<1>5. BetweenJobs(q) => BetweenJobs(q)'
  BY <1>1 DEF BetweenJobs
<1> QED
  BY <1>2, <1>3, <1>4, <1>5 DEF Outlined

-----------------------------------------------------------------------------
(***************************************************************************)
(* The steps.  What is known of a process inside an operation:             *)
(***************************************************************************)
LEMMA InsideJob ==
  ASSUME ViewInv, NEW p \in Procs, Busy(p), NEW d, d = MaxJobs - 1 - left[p]
  PROVE  /\ InJob(p)
         /\ job[p] \in JobTypes /\ job[p].op \in Operations
         /\ Fits(job[p].op, pc[p], Instr(p))
         /\ Instr(p).on \in Sides => PathOf(p) = Place(job[p], Instr(p).on)
         /\ shared[p] \in [Paths -> Nat] /\ exclusive[p] \in [Paths -> BOOLEAN]
         /\ escaped[p] \in BOOLEAN /\ idx[p] \in Nat \ {0}
         /\ d \in Nat /\ 2 * d + 2 <= MaxShared
         /\ Holding(job[p], pc[p], idx[p], shared[p], exclusive[p], escaped[p], d)
<1>1. InJob(p)
  BY DEF ViewInv, OutlineKept, Outlined
<1>2. /\ shared[p] \in [Paths -> Nat] /\ exclusive[p] \in [Paths -> BOOLEAN]
      /\ escaped[p] \in BOOLEAN /\ idx[p] \in Nat \ {0}
  BY BoundsAssumption DEF ViewInv, TypeOK, ControlTyped
<1>3. d \in Nat /\ 2 * d + 2 <= MaxShared
  <2>1. left[p] \in 0..MaxJobs /\ left[p] < MaxJobs
    BY <1>1 DEF ViewInv, ControlTyped, InJob
  <2> QED
    BY <2>1, MaxJobsAssumption, BoundsAssumption
<1>4. Holding(job[p], pc[p], idx[p], shared[p], exclusive[p], escaped[p], d)
  BY <1>1 DEF InJob
<1> QED
  BY <1>1, <1>2, <1>3, <1>4, AtInstruction

\* What a provider call of p on path k does to the locks p remembers.
LEMMA CallRemembers ==
  ASSUME TypeOK, UNCHANGED closing, NEW p \in Procs, NEW k \in Paths
  PROVE  /\ AcquireShared(p, k) =>
              /\ LocksOfOthers(p) /\ exclusive'[p] = exclusive[p]
              /\ shared'[p] = OneMore(shared[p], k)
         /\ ReleaseShared(p, k) =>
              /\ LocksOfOthers(p) /\ exclusive'[p] = exclusive[p]
              /\ shared'[p] = OneLess(shared[p], k)
         /\ ReleaseExclusive(p, k) =>
              /\ LocksOfOthers(p) /\ shared'[p] = shared[p]
              /\ exclusive'[p] = Without(exclusive[p], k)
         /\ ChangeToShared(p, k) =>
              /\ LocksOfOthers(p) /\ exclusive'[p] = Without(exclusive[p], k)
              /\ shared'[p] = OneMore(shared[p], k)
         /\ shared[p][k] > 0 /\ ChangeToExclusive(p, k) =>
              /\ LocksOfOthers(p) /\ exclusive'[p] = With(exclusive[p], k)
              /\ shared'[p] = OneLess(shared[p], k)
<1> USE DEF TypeOK, LocksOfOthers, OneMore, OneLess, With, Without
<1>1. ASSUME AcquireShared(p, k)
      PROVE  /\ LocksOfOthers(p) /\ exclusive'[p] = exclusive[p]
             /\ shared'[p] = OneMore(shared[p], k)
  BY <1>1 DEF AcquireShared
<1>2. ASSUME ReleaseShared(p, k)
      PROVE  /\ LocksOfOthers(p) /\ exclusive'[p] = exclusive[p]
             /\ shared'[p] = OneLess(shared[p], k)
  BY <1>2 DEF ReleaseShared
<1>3. ASSUME ReleaseExclusive(p, k)
      PROVE  /\ LocksOfOthers(p) /\ shared'[p] = shared[p]
             /\ exclusive'[p] = Without(exclusive[p], k)
  BY <1>3 DEF ReleaseExclusive
<1>4. ASSUME ChangeToShared(p, k)
      PROVE  /\ LocksOfOthers(p) /\ exclusive'[p] = Without(exclusive[p], k)
             /\ shared'[p] = OneMore(shared[p], k)
  BY <1>4 DEF ChangeToShared
<1>5. ASSUME shared[p][k] > 0, ChangeToExclusive(p, k)
      PROVE  /\ LocksOfOthers(p) /\ exclusive'[p] = With(exclusive[p], k)
             /\ shared'[p] = OneLess(shared[p], k)
  BY <1>5 DEF ChangeToExclusive
<1> QED
  BY <1>1, <1>2, <1>3, <1>4, <1>5

\* A step that makes no provider call changes nothing about rows and locks.
LEMMA NoCall ==
  ASSUME TypeOK, RowCoversHolders, UNCHANGED vars, NEW p \in Procs
  PROVE  /\ TypeOK' /\ RowCoversHolders' /\ LocksOfOthers(p)
         /\ shared'[p] = shared[p] /\ exclusive'[p] = exclusive[p]
<1>1. RowCoversHolders'
  BY Untouched DEF vars, RowCoversHolders
<1> QED
  BY <1>1 DEF vars, TypeOK, LocksOfOthers

\* A call that keeps to the protocol.
LEMMA DisciplinedKeeps ==
  ASSUME TypeOK, RowCoversHolders, UNCHANGED closing, NEW p \in Procs, NEW k \in Paths,
         Disciplined(p, k)
  PROVE  TypeOK' /\ RowCoversHolders'
<1>1. RowCoversHolders'
  BY DisciplinedCovers DEF IInv
<1> QED
  BY <1>1, CallTyped DEF Disciplined

(***************************************************************************)
(* A step without a provider call: control goes on within the outline, or  *)
(* leaves it by an exception.                                              *)
(***************************************************************************)
LEMMA MovesOn ==
  ASSUME ViewInv, NEW p \in Procs, Busy(p), UNCHANGED vars, NEW l, GoTo(p, l),
         \/ l = Escape
         \/ /\ l \in Labels(job[p].op)
            /\ \A side \in Sides :
                 /\ Loosens(job[p], pc[p], idx[p], l, 1, side)
                 /\ MayHaveExclusive(job[p], pc[p], idx[p], side) =>
                      \/ MayHaveExclusive(job[p], l, 1, side)
                      \/ ~exclusive[p][Place(job[p], side)]
  PROVE  ViewInv'
<1> DEFINE d == MaxJobs - 1 - left[p]
<1>1. /\ InJob(p) /\ job[p] \in JobTypes /\ d \in Nat
      /\ shared[p] \in [Paths -> Nat] /\ exclusive[p] \in [Paths -> BOOLEAN]
      /\ escaped[p] \in BOOLEAN
      /\ Holding(job[p], pc[p], idx[p], shared[p], exclusive[p], escaped[p], d)
  BY InsideJob
<1>2. /\ TypeOK' /\ RowCoversHolders' /\ LocksOfOthers(p) /\ closing' = closing
      /\ shared'[p] = shared[p] /\ exclusive'[p] = exclusive[p]
  BY NoCall DEF ViewInv, vars
<1>3. ControlTyped
  BY DEF ViewInv
<1>4. CASE l = Escape
  <2>1. Escape # Done
    BY DEF Escape, Done
  <2>2. ControlTyped' /\ ControlOfOthers(p) /\ Outlined(p)'
    BY <1>1, <1>2, <1>3, <1>4, <2>1, Leaves
  <2> QED
    BY <1>2, <2>2, OthersKept DEF ViewInv
<1>5. CASE l # Escape
  <2>1. Holding(job[p], l, 1, shared[p], exclusive[p], escaped[p], d)
    BY <1>1, <1>5, HoldingLoosens
  <2>2. ControlTyped' /\ ControlOfOthers(p) /\ Outlined(p)'
    BY <1>1, <1>2, <1>3, <1>5, <2>1, GoesOn
  <2> QED
    BY <1>2, <2>2, OthersKept DEF ViewInv
<1> QED
  BY <1>4, <1>5

\* The hooks and the storage call.
LEMMA RunHooksStep ==
  ASSUME ViewInv, NEW p \in Procs, RunHooks(p) \/ StorageCall(p)
  PROVE  ViewInv'
<1>1. /\ Busy(p) /\ UNCHANGED vars /\ Instr(p).do \in {"hooks", "storage"}
      /\ \E l \in Instr(p).next : GoTo(p, l)
  BY DEF RunHooks, StorageCall, Doing
<1>2. PICK l \in Instr(p).next : GoTo(p, l)
  BY <1>1
<1>3. job[p] \in JobTypes /\ Fits(job[p].op, pc[p], Instr(p)) /\ idx[p] \in Nat \ {0}
  BY <1>1, InsideJob
<1>4. CallFits(job[p].op, pc[p], Instr(p))
  BY <1>1, <1>3 DEF Fits
<1>5. CASE l = Escape
  BY <1>1, <1>2, <1>5, MovesOn
<1>6. CASE l # Escape
  <2>1. l \in Labels(job[p].op) /\ \A side \in Sides : FlowsTo(job[p].op, pc[p], l, side)
    BY <1>2, <1>4, <1>6 DEF CallFits, Sides
  <2>2. \A side \in Sides : LoosensAll(job[p], pc[p], idx[p], l, 1, side)
    BY <1>3, <2>1, FlowLoosens
  <2> QED
    BY <1>1, <1>2, <2>1, <2>2, MovesOn DEF LoosensAll
<1> QED
  BY <1>5, <1>6

(***************************************************************************)
(* A step with a provider call that is granted: control goes on at l2, or  *)
(* at the same label with the next path, or leaves the operation.          *)
(***************************************************************************)
LEMMA CalledAndOn ==
  ASSUME ViewInv, NEW p \in Procs, Busy(p), UNCHANGED closing, LocksOfOthers(p),
         TypeOK', RowCoversHolders', NEW l \in Labels(job[p].op) \cup {Done}, GoTo(p, l),
         Holding(job[p], l, 1, shared'[p], exclusive'[p], escaped[p], MaxJobs - 1 - left[p])
  PROVE  ViewInv'
<1>1. ControlTyped /\ InJob(p)
  BY InsideJob DEF ViewInv
<1>2. CASE l = Done
  <2>1. ControlTyped' /\ ControlOfOthers(p) /\ Outlined(p)'
    BY <1>1, <1>2, Leaves
  <2> QED
    BY <2>1, OthersKept DEF ViewInv
<1>3. CASE l # Done
  <2>1. ControlTyped' /\ ControlOfOthers(p) /\ Outlined(p)'
    BY <1>1, <1>3, GoesOn
  <2> QED
    BY <2>1, OthersKept DEF ViewInv
<1> QED
  BY <1>2, <1>3

LEMMA CalledAndNext ==
  ASSUME ViewInv, NEW p \in Procs, Busy(p), UNCHANGED closing, LocksOfOthers(p),
         TypeOK', RowCoversHolders', NEW l \in Labels(job[p].op) \cup {Done}, NextPath(p, l),
         idx[p] <= Len(LockSequence(PathOf(p))),
         idx[p] < Len(LockSequence(PathOf(p))) =>
           Holding(job[p], pc[p], idx[p] + 1, shared'[p], exclusive'[p], escaped[p],
                   MaxJobs - 1 - left[p]),
         idx[p] = Len(LockSequence(PathOf(p))) =>
           Holding(job[p], l, 1, shared'[p], exclusive'[p], escaped[p], MaxJobs - 1 - left[p])
  PROVE  ViewInv'
<1>1. ControlTyped /\ InJob(p) /\ idx[p] \in Nat
  BY InsideJob DEF ViewInv
<1>2. Len(LockSequence(PathOf(p))) \in Nat
  <2>1. PathOf(p) \in Paths
    BY InsideJob DEF PathOf, JobTypes
  <2> QED
    BY <2>1, SequenceLength
<1>3. CASE idx[p] < Len(LockSequence(PathOf(p)))
  <2>1. ControlTyped' /\ ControlOfOthers(p) /\ Outlined(p)'
    BY <1>1, <1>3, NextPathOn
  <2> QED
    BY <2>1, OthersKept DEF ViewInv
<1>4. CASE idx[p] = Len(LockSequence(PathOf(p)))
  <2>1. GoTo(p, l)
    BY <1>1, <1>4 DEF NextPath
  <2> QED
    BY <1>4, <2>1, CalledAndOn
<1> QED
  BY <1>1, <1>2, <1>3, <1>4

(***************************************************************************)
(* lockFile.  The bound on the shared locks of one process is never met.   *)
(***************************************************************************)
LEMMA LockFileStep ==
  ASSUME ViewInv, NEW p \in Procs, LockFile(p)
  PROVE  ViewInv' /\ (UNCHANGED vars \/ \E k \in Paths : Disciplined(p, k))
<1> DEFINE j == job[p]
           l == pc[p]
           n == idx[p]
           i == Instr(p)
           a == i.on
           d == MaxJobs - 1 - left[p]
           s == LockSequence(Place(j, a))
           k == s[n]
<1>1. /\ Busy(p) /\ i.do = "lock" /\ UNCHANGED closing
  BY DEF LockFile, Doing
<1>2. /\ InJob(p) /\ j \in JobTypes /\ j.op \in Operations /\ Fits(j.op, l, i)
      /\ a \in Sides => PathOf(p) = Place(j, a)
      /\ shared[p] \in [Paths -> Nat] /\ exclusive[p] \in [Paths -> BOOLEAN]
      /\ escaped[p] \in BOOLEAN /\ n \in Nat \ {0}
      /\ d \in Nat /\ 2 * d + 2 <= MaxShared
      /\ Holding(j, l, n, shared[p], exclusive[p], escaped[p], d)
  BY <1>1, InsideJob
<1>3. LockFits(j.op, l, i)
  BY <1>1, <1>2 DEF Fits
<1>4. a \in Sides /\ PathOf(p) = Place(j, a) /\ i.type = "S" /\ i.ok \in Labels(j.op)
  BY <1>2, <1>3 DEF LockFits
<1>5. n <= Len(s) /\ k \in Paths
  <2>1. n <= Len(s)
    BY <1>1, <1>2, <1>4 DEF InJob
  <2> QED
    BY <1>2, <1>4, <2>1, SequenceOf
<1>6. IF AcquireSharedGranted(p, k)
        THEN AcquireShared(p, k) /\ NextPath(p, i.ok)
        ELSE UNCHANGED <<rows, own>> /\ GoTo(p, i.fail)
  BY <1>4 DEF LockFile
<1>7. TypeOK /\ RowCoversHolders
  BY DEF ViewInv
<1>8. CASE ~AcquireSharedGranted(p, k)
  <2>1. UNCHANGED vars /\ GoTo(p, i.fail)
    BY <1>1, <1>6, <1>8 DEF vars, rows, own
  <2>2. CASE i.fail = Escape
    BY <1>1, <2>1, <2>2, MovesOn
  <2>3. CASE i.fail # Escape
    <3>1. /\ i.fail \in Labels(j.op) /\ Stage(j.op, l, a) = "taking"
          /\ Stage(j.op, i.fail, a) = "any" /\ FlowsTo(j.op, l, i.fail, Other(a))
      BY <1>3, <2>3 DEF LockFits
    <3>2. LoosensAll(j, l, n, i.fail, 1, a)
      BY <1>2, <1>4, <1>5, <3>1, RefusedLoosens
    <3>3. LoosensAll(j, l, n, i.fail, 1, Other(a))
      BY <1>2, <1>4, <3>1, FlowLoosens, SidesOf
    <3>4. \A side \in Sides : LoosensAll(j, l, n, i.fail, 1, side)
      BY <1>4, <3>2, <3>3, SidesOf
    <3> QED
      BY <1>1, <2>1, <3>1, <3>4, MovesOn DEF LoosensAll
  <2> QED
    BY <2>2, <2>3
<1>9. CASE AcquireSharedGranted(p, k)
  <2>1. AcquireShared(p, k) /\ NextPath(p, i.ok)
    BY <1>6, <1>9
  <2>2. ASSUME NEW l2, NEW n2,
               \/ l2 = l /\ n2 = n + 1
               \/ n = Len(s) /\ l2 = i.ok /\ n2 = 1
        PROVE  /\ shared[p][k] <= 2 * d + 1
               /\ Holding(j, l2, n2, OneMore(shared[p], k), exclusive[p], escaped[p], d)
    <3>1. /\ Stage(j.op, l, a) = "taking" /\ Stage(j.op, i.ok, a) = "taken"
          /\ Stage(j.op, l, Other(a)) \in Steady /\ FlowsTo(j.op, l, i.ok, Other(a))
      BY <1>3 DEF LockFits
    <3>2. LoosensAll(j, l, n, l2, n2, Other(a))
      <4>1. CASE l2 = l /\ n2 = n + 1
        BY <3>1, <4>1, SteadyLoosens
      <4>2. CASE n = Len(s) /\ l2 = i.ok /\ n2 = 1
        BY <1>2, <1>4, <3>1, <4>2, FlowLoosens, SidesOf
      <4> QED
        BY <2>2, <4>1, <4>2
    <3>3. /\ s = LockSequence(Place(j, a)) /\ k = s[n]
          /\ \/ l2 = l /\ n2 = n + 1
             \/ n = Len(s) /\ Stage(j.op, l2, a) = "taken"
      BY <2>2, <3>1
    <3>4. j \in JobTypes /\ n \in Nat \ {0} /\ a \in Sides /\ n <= Len(s)
      BY <1>2, <1>4, <1>5
    <3>5. /\ d \in Nat /\ shared[p] \in [Paths -> Nat] /\ exclusive[p] \in [Paths -> BOOLEAN]
          /\ escaped[p] \in BOOLEAN /\ k \in Paths
          /\ Holding(j, l, n, shared[p], exclusive[p], escaped[p], d)
      BY <1>2, <1>5
    <3> HIDE DEF j, l, n, i, a, s, k
    <3>6. SideTaken(j, l, n, l2, n2, a, k)
      BY <3>1, <3>3, <3>4, SideTakes
    <3>7. shared[p][k] <= 2 * d + 1
      BY <3>2, <3>4, <3>5, <3>6, HoldingTakes
    <3>8. Holding(j, l2, n2, OneMore(shared[p], k), exclusive[p], escaped[p], d)
      BY <3>2, <3>4, <3>5, <3>6, HoldingTakes
    <3> QED
      BY <3>7, <3>8
  <2>3. shared[p][k] <= 2 * d + 1 /\ shared[p][k] \in Nat
    BY <1>2, <1>5, <2>2
  <2>4. shared[p][k] < MaxShared
    BY <1>2, <2>3, BoundsAssumption
  <2>5. Disciplined(p, k) /\ TypeOK' /\ RowCoversHolders'
    BY <1>1, <1>5, <1>7, <2>1, <2>4, DisciplinedKeeps DEF Disciplined
  <2>6. /\ LocksOfOthers(p) /\ exclusive'[p] = exclusive[p]
        /\ shared'[p] = OneMore(shared[p], k)
    BY <1>1, <1>5, <1>7, <2>1, CallRemembers
  <2>7. /\ n < Len(s) => Holding(j, l, n + 1, shared'[p], exclusive'[p], escaped[p], d)
        /\ n = Len(s) => Holding(j, i.ok, 1, shared'[p], exclusive'[p], escaped[p], d)
    BY <2>2, <2>6
  <2> QED
    BY <1>1, <1>4, <1>5, <2>1, <2>5, <2>6, <2>7, CalledAndNext
<1> QED
  BY <1>8, <1>9

(***************************************************************************)
(* unlockFile.  On the command line, where a release takes a unit out of   *)
(* the row whoever has put it there, the process has what it releases: all *)
(* operations but a rename keep book of it.                                *)
(***************************************************************************)
NoRenameWithoutCache == \A p \in Procs \ Caching : \A j \in Jobs[p] : j.op # "rename"

LEMMA UnlockFileStep ==
  ASSUME NoRenameWithoutCache, ViewInv, NEW p \in Procs, UnlockFile(p),
         NEW k, k = LockSequence(PathOf(p))[idx[p]]
  PROVE  /\ ViewInv' /\ k \in Paths /\ Disciplined(p, k)
         /\ p \notin Caching => Holds(p, k)
<1> DEFINE j == job[p]
           l == pc[p]
           n == idx[p]
           i == Instr(p)
           a == i.on
           d == MaxJobs - 1 - left[p]
           s == LockSequence(Place(j, a))
<1>1. /\ Busy(p) /\ i.do = "unlock" /\ UNCHANGED closing /\ NextPath(p, i.ok)
  BY DEF UnlockFile, Doing
<1>2. /\ InJob(p) /\ j \in JobTypes /\ j.op \in Operations /\ Fits(j.op, l, i)
      /\ a \in Sides => PathOf(p) = Place(j, a)
      /\ shared[p] \in [Paths -> Nat] /\ exclusive[p] \in [Paths -> BOOLEAN]
      /\ escaped[p] \in BOOLEAN /\ n \in Nat \ {0}
      /\ d \in Nat
      /\ Holding(j, l, n, shared[p], exclusive[p], escaped[p], d)
  BY <1>1, InsideJob
<1>3. UnlockFits(j.op, l, i)
  BY <1>1, <1>2 DEF Fits
<1>4. a \in Sides /\ PathOf(p) = Place(j, a) /\ i.ok \in Labels(j.op) \cup {Done}
  BY <1>2, <1>3 DEF UnlockFits
<1>5. n <= Len(s) /\ k = s[n] /\ k \in Paths /\ Place(j, a) = s[1]
  <2>1. n <= Len(s) /\ k = s[n]
    BY <1>1, <1>2, <1>4 DEF InJob
  <2> QED
    BY <1>2, <1>4, <2>1, SequenceOf
<1>6. TypeOK /\ RowCoversHolders
  BY DEF ViewInv
<1>7. /\ Stage(j.op, i.ok, a) = "free" /\ Stage(j.op, l, Other(a)) \in {"free", "taken", "any"}
      /\ Stage(j.op, i.ok, Other(a)) # "either" /\ FlowsTo(j.op, l, i.ok, Other(a))
  BY <1>3 DEF UnlockFits
<1>8. ASSUME NEW l2, NEW n2,
             \/ l2 = l /\ n2 = n + 1
             \/ n = Len(s) /\ l2 = i.ok /\ n2 = 1
      PROVE  /\ LoosensAll(j, l, n, l2, n2, Other(a))
             /\ Stage(j.op, l2, Other(a)) # "either"
  <2>1. CASE l2 = l /\ n2 = n + 1
    BY <1>7, <2>1, SteadyLoosens DEF Steady
  <2>2. CASE n = Len(s) /\ l2 = i.ok /\ n2 = 1
    BY <1>2, <1>4, <1>7, <2>2, FlowLoosens, SidesOf
  <2> QED
    BY <1>8, <2>1, <2>2
<1>9. CASE n = 1 /\ i.type = "X"
  <2>1. ReleaseExclusive(p, k)
    BY <1>9 DEF UnlockFile
  <2>2. Stage(j.op, l, a) = "givingX" /\ k = Place(j, a)
    BY <1>3, <1>5, <1>9 DEF UnlockFits
  <2>3. exclusive[p][k]
    BY <1>2, <1>4, <1>9, <2>2 DEF Holding, HasExclusive
  <2>4. Disciplined(p, k) /\ TypeOK' /\ RowCoversHolders'
    BY <1>1, <1>5, <1>6, <2>1, <2>3, DisciplinedKeeps DEF Disciplined
  <2>5. /\ LocksOfOthers(p) /\ shared'[p] = shared[p]
        /\ exclusive'[p] = Without(exclusive[p], k)
    BY <1>1, <1>5, <1>6, <2>1, CallRemembers
  <2>6. ASSUME NEW l2, NEW n2,
               \/ l2 = l /\ n2 = n + 1
               \/ n = Len(s) /\ l2 = i.ok /\ n2 = 1
        PROVE  Holding(j, l2, n2, shared[p], Without(exclusive[p], k), escaped[p], d)
    <3>1. LoosensAll(j, l, 1, l2, n2, Other(a)) /\ Stage(j.op, l2, Other(a)) # "either"
      BY <1>8, <1>9, <2>6
    <3>2. ~MayHaveExclusive(j, l, 1, Other(a))
      BY <1>7 DEF MayHaveExclusive, HasExclusive
    <3>3. \/ l2 = l /\ n2 = 2
          \/ Len(LockSequence(k)) = 1 /\ Stage(j.op, l2, a) = "free"
      BY <1>7, <1>9, <2>2, <2>6
    <3>4. Holding(j, l, 1, shared[p], exclusive[p], escaped[p], d)
      BY <1>2, <1>9
    <3> QED
      BY <1>2, <1>4, <2>2, <3>1, <3>2, <3>3, <3>4, HoldingGivesExclusive
  <2>7. /\ n < Len(s) => Holding(j, l, n + 1, shared'[p], exclusive'[p], escaped[p], d)
        /\ n = Len(s) => Holding(j, i.ok, 1, shared'[p], exclusive'[p], escaped[p], d)
    BY <2>5, <2>6
  <2>8. ViewInv'
    BY <1>1, <1>4, <1>5, <2>4, <2>5, <2>7, CalledAndNext
  <2> QED
    BY <1>5, <2>3, <2>4, <2>8 DEF Holds
<1>10. CASE ~(n = 1 /\ i.type = "X")
  <2>1. ReleaseShared(p, k)
    BY <1>10 DEF UnlockFile
  <2>2. /\ \/ Stage(j.op, l, a) = "giving"
           \/ Stage(j.op, l, a) = "givingX" /\ n # 1
           \/ j.op = "rename" /\ Stage(j.op, l, a) = "anyGiving"
        /\ Stage(j.op, l, a) = "anyGiving" =>
             Stage(j.op, l, Other(a)) = "free" /\ Stage(j.op, i.ok, Other(a)) = "free"
    BY <1>3, <1>10 DEF UnlockFits
  <2>3. ASSUME NEW l2, NEW n2,
               \/ l2 = l /\ n2 = n + 1
               \/ n = Len(s) /\ l2 = i.ok /\ n2 = 1
        PROVE  /\ SideGiven(j, l, n, l2, n2, a, k)
               /\ Stage(j.op, l, a) # "anyGiving" => SurelyHolds(j, l, n, a, k)
    <3>1. \/ Stage(j.op, l, a) \in {"giving", "anyGiving"}
          \/ Stage(j.op, l, a) = "givingX" /\ n # 1
      BY <2>2
    <3>3. /\ \/ l2 = l /\ n2 = n + 1
             \/ n = Len(s) /\ Stage(j.op, l2, a) = "free"
          /\ Stage(j.op, l, a) = "anyGiving" => Stage(j.op, l2, Other(a)) = "free"
      <4>1. CASE l2 = l /\ n2 = n + 1
        BY <2>2, <4>1
      <4>2. CASE n = Len(s) /\ l2 = i.ok /\ n2 = 1
        BY <1>7, <2>2, <4>2
      <4> QED
        BY <2>3, <4>1, <4>2
    <3>2. j \in JobTypes /\ n \in Nat \ {0} /\ a \in Sides /\ n <= Len(s) /\ k = s[n]
          /\ s = LockSequence(Place(j, a))
      BY <1>2, <1>4, <1>5
    <3> HIDE DEF j, l, n, i, a, d, s
    <3> QED
      BY <3>1, <3>2, <3>3, SideGives
  <2>4. p \notin Caching => shared[p][k] > 0
    <3> SUFFICES ASSUME p \notin Caching PROVE shared[p][k] > 0
      OBVIOUS
    <3>1. j \in Jobs[p] /\ j.op # "rename"
      BY <1>2 DEF NoRenameWithoutCache, InJob
    <3>2. Stage(j.op, l, a) # "anyGiving"
      BY <2>2, <3>1
    <3>3. SurelyHolds(j, l, n, a, k)
      <4>1. n < Len(s) \/ n = Len(s)
        BY <1>2, <1>4, <1>5, SequenceOf
      <4> QED
        BY <2>3, <3>2, <4>1
    <3>4. Least(j, l, n, k) >= 1 /\ Least(j, l, n, k) \in Nat
      BY <1>4, <3>3, Counts
    <3>5. Least(j, l, n, k) <= shared[p][k] /\ shared[p][k] \in Nat
      BY <1>2, <1>5 DEF Holding
    <3> QED
      BY <3>4, <3>5
  <2>5. Disciplined(p, k) /\ TypeOK' /\ RowCoversHolders'
    BY <1>1, <1>5, <1>6, <2>1, <2>4, DisciplinedKeeps DEF Disciplined
  <2>6. /\ LocksOfOthers(p) /\ exclusive'[p] = exclusive[p]
        /\ shared'[p] = OneLess(shared[p], k)
    BY <1>1, <1>5, <1>6, <2>1, CallRemembers
  <2>7. ASSUME NEW l2, NEW n2,
               \/ l2 = l /\ n2 = n + 1
               \/ n = Len(s) /\ l2 = i.ok /\ n2 = 1
        PROVE  Holding(j, l2, n2, OneLess(shared[p], k), exclusive[p], escaped[p], d)
    <3>1. SideGiven(j, l, n, l2, n2, a, k)
      BY <2>3, <2>7
    <3>2. LoosensAll(j, l, n, l2, n2, Other(a)) /\ Stage(j.op, l2, Other(a)) # "either"
      BY <1>8, <2>7
    <3>3. j \in JobTypes /\ a \in Sides
      BY <1>2, <1>4
    <3>4. /\ d \in Nat /\ shared[p] \in [Paths -> Nat] /\ exclusive[p] \in [Paths -> BOOLEAN]
          /\ escaped[p] \in BOOLEAN /\ k \in Paths
          /\ Holding(j, l, n, shared[p], exclusive[p], escaped[p], d)
      BY <1>2, <1>5
    <3> HIDE DEF j, l, n, i, a, s
    <3> QED
      BY <3>1, <3>2, <3>3, <3>4, HoldingGives
  <2>8. /\ n < Len(s) => Holding(j, l, n + 1, shared'[p], exclusive'[p], escaped[p], d)
        /\ n = Len(s) => Holding(j, i.ok, 1, shared'[p], exclusive'[p], escaped[p], d)
    BY <2>6, <2>7
  <2>9. ViewInv'
    BY <1>1, <1>4, <1>5, <2>5, <2>6, <2>8, CalledAndNext
  <2> QED
    BY <1>5, <2>4, <2>5, <2>9 DEF Holds
<1> QED
  BY <1>9, <1>10

\* A rename that does not know whether it has the exclusive lock is refused
\* the downgrade.
LEMMA RefusedDowngrade ==
  ASSUME NEW j, NEW l, NEW l2, NEW n, NEW side,
         Stage(j.op, l, side) = "either", Stage(j.op, l2, side) = "any"
  PROVE  Loosens(j, l, n, l2, 1, side)
BY DEF Loosens, HasExclusive, SurelyHolds, MayHold, FirstHeld, LastHeld

\* Where an operation has all paths of a side, it has the path itself shared.
LEMMA TakenHolds ==
  ASSUME NEW j \in JobTypes, NEW l, NEW n, NEW d, NEW sh \in [Paths -> Nat], NEW ex, NEW esc,
         Holding(j, l, n, sh, ex, esc, d), NEW side \in Sides, Stage(j.op, l, side) = "taken"
  PROVE  sh[Place(j, side)] >= 1
<1> DEFINE s == LockSequence(Place(j, side))
<1>1. Place(j, side) \in Paths /\ Len(s) \in Nat \ {0} /\ s[1] = Place(j, side)
  BY SequenceOf
<1> HIDE DEF s
<1>2. SurelyHolds(j, l, n, side, Place(j, side))
  BY <1>1 DEF SurelyHolds, MayHold, Between, FirstHeld, LastHeld, s
<1>3. Least(j, l, n, Place(j, side)) >= 1 /\ Least(j, l, n, Place(j, side)) \in Nat
  BY <1>2, Counts
<1> QED
  BY <1>1, <1>3 DEF Holding

(***************************************************************************)
(* changeLock.  An upgrade is granted on the only lock in the row, which   *)
(* is the process's own; a downgrade only to the holder.                   *)
(***************************************************************************)
LEMMA ChangeLockStep ==
  ASSUME ViewInv, NEW p \in Procs, ChangeLock(p)
  PROVE  ViewInv' /\ (UNCHANGED vars \/ \E k \in Paths : Disciplined(p, k))
<1> DEFINE j == job[p]
           l == pc[p]
           n == idx[p]
           i == Instr(p)
           a == i.on
           d == MaxJobs - 1 - left[p]
           k == Place(j, a)
<1>1. /\ Busy(p) /\ i.do = "change" /\ UNCHANGED closing
  BY DEF ChangeLock, Doing
<1>2. /\ InJob(p) /\ j \in JobTypes /\ j.op \in Operations /\ Fits(j.op, l, i)
      /\ a \in Sides => PathOf(p) = Place(j, a)
      /\ shared[p] \in [Paths -> Nat] /\ exclusive[p] \in [Paths -> BOOLEAN]
      /\ escaped[p] \in BOOLEAN /\ n \in Nat \ {0}
      /\ d \in Nat /\ 2 * d + 2 <= MaxShared
      /\ Holding(j, l, n, shared[p], exclusive[p], escaped[p], d)
  BY <1>1, InsideJob
<1>3. \/ i.type = "X" /\ UpgradeFits(j.op, l, i)
      \/ i.type = "S" /\ DowngradeFits(j.op, l, i)
  BY <1>1, <1>2 DEF Fits
<1>4. a \in Sides /\ PathOf(p) = k /\ k \in Paths /\ i.ok \in Labels(j.op)
  BY <1>2, <1>3, SequenceOf DEF UpgradeFits, DowngradeFits
<1>5. TypeOK /\ RowCoversHolders /\ RowCovers(k)
  BY <1>4 DEF ViewInv, RowCoversHolders
<1>6. CASE i.type = "X"
  <2>1. UpgradeFits(j.op, l, i)
    BY <1>3, <1>6
  <2>2. IF ChangeToExclusiveGranted(p, k)
          THEN ChangeToExclusive(p, k) /\ GoTo(p, i.ok)
          ELSE UNCHANGED <<rows, own>> /\ GoTo(p, i.fail)
    BY <1>4, <1>6 DEF ChangeLock
  <2>3. CASE ChangeToExclusiveGranted(p, k)
    <3>1. ChangeToExclusive(p, k) /\ GoTo(p, i.ok) /\ shared[p][k] <= 1
      BY <2>2, <2>3 DEF ChangeToExclusiveGranted
    <3>2. LoosensAll(j, l, n, i.ok, 1, Other(a))
      BY <1>2, <1>4, <2>1, FlowLoosens, SidesOf DEF UpgradeFits
    <3>3. /\ Stage(j.op, l, a) = "taken" /\ Stage(j.op, i.ok, a) = "exclusive"
          /\ Stage(j.op, i.ok, Other(a)) # "either"
      BY <2>1 DEF UpgradeFits
    <3>4. /\ shared[p][k] = 1
          /\ Holding(j, i.ok, 1, OneLess(shared[p], k), With(exclusive[p], k), escaped[p], d)
      <4>1. /\ d \in Nat /\ shared[p] \in [Paths -> Nat] /\ exclusive[p] \in [Paths -> BOOLEAN]
            /\ escaped[p] \in BOOLEAN /\ j \in JobTypes /\ n \in Nat \ {0} /\ a \in Sides
            /\ Holding(j, l, n, shared[p], exclusive[p], escaped[p], d) /\ shared[p][k] <= 1
            /\ k = Place(j, a)
        BY <1>2, <1>4, <3>1
      <4> HIDE DEF j, l, n, i, a, k
      <4>2. Holding(j, i.ok, 1, OneLess(shared[p], k), With(exclusive[p], k), escaped[p], d)
        BY <3>2, <3>3, <4>1, HoldingUpgrades
      <4>3. shared[p][k] >= 1
        BY <3>3, <4>1, TakenHolds
      <4>4. shared[p][k] \in Nat
        BY <1>4, <4>1
      <4> QED
        BY <4>1, <4>2, <4>3, <4>4
    <3>5. Disciplined(p, k) /\ TypeOK' /\ RowCoversHolders'
      BY <1>1, <1>4, <1>5, <3>1, <3>4, DisciplinedKeeps DEF Disciplined
    <3>6. /\ LocksOfOthers(p) /\ exclusive'[p] = With(exclusive[p], k)
          /\ shared'[p] = OneLess(shared[p], k)
      BY <1>1, <1>4, <1>5, <3>1, <3>4, CallRemembers
    <3>7. Holding(j, i.ok, 1, shared'[p], exclusive'[p], escaped[p], d)
      BY <3>4, <3>6
    <3> QED
      BY <1>1, <1>4, <3>1, <3>5, <3>6, <3>7, CalledAndOn
  <2>4. CASE ~ChangeToExclusiveGranted(p, k)
    <3>1. UNCHANGED vars /\ GoTo(p, i.fail) /\ i.fail \in Labels(j.op)
      BY <1>1, <2>1, <2>2, <2>4 DEF vars, rows, own, UpgradeFits
    <3>2. LoosensAll(j, l, n, i.fail, 1, a)
      BY <1>2, <1>4, <2>1, FlowLoosens DEF UpgradeFits
    <3>3. LoosensAll(j, l, n, i.fail, 1, Other(a))
      BY <1>2, <1>4, <2>1, FlowLoosens, SidesOf DEF UpgradeFits
    <3>4. \A side \in Sides : LoosensAll(j, l, n, i.fail, 1, side)
      BY <1>4, <3>2, <3>3, SidesOf
    <3> QED
      BY <1>1, <3>1, <3>4, MovesOn DEF LoosensAll
  <2> QED
    BY <2>3, <2>4
<1>7. CASE i.type = "S"
  <2>1. DowngradeFits(j.op, l, i)
    BY <1>3, <1>7
  <2>2. IF ChangeToSharedGranted(p, k)
          THEN ChangeToShared(p, k) /\ GoTo(p, i.ok)
          ELSE UNCHANGED <<rows, own>> /\ GoTo(p, i.fail)
    BY <1>4, <1>7 DEF ChangeLock
  <2>3. /\ Stage(j.op, l, a) = "exclusive" => exclusive[p][k]
        /\ Stage(j.op, l, a) = "either" => exclusive[p][k] \/ shared[p][k] > 0
    BY <1>2, <1>4 DEF Holding, HasExclusive
  <2>4. CASE ChangeToSharedGranted(p, k)
    <3>1. ChangeToShared(p, k) /\ GoTo(p, i.ok) /\ lock[k] = ExclusiveValue
      BY <2>2, <2>4 DEF ChangeToSharedGranted
    <3>2. shared[p][k] = 0
      <4>1. Units(k) = {}
        BY <1>5, <3>1 DEF RowCovers
      <4>2. ~(shared[p][k] > 0)
        BY <1>4, <1>5, <4>1, SharedHasUnit
      <4> QED
        BY <1>2, <1>4, <4>2
    <3>3. exclusive[p][k]
      BY <2>1, <2>3, <3>2 DEF DowngradeFits
    <3>4. LoosensAll(j, l, n, i.ok, 1, Other(a))
      BY <1>2, <1>4, <2>1, FlowLoosens, SidesOf DEF DowngradeFits
    <3>5. /\ \/ Stage(j.op, l, a) = "exclusive" /\ Stage(j.op, i.ok, a) = "taken"
             \/ Stage(j.op, l, a) = "either" /\ Stage(j.op, i.ok, a) = "any"
          /\ ~HasExclusive(j, i.ok, 1, Other(a))
      BY <2>1 DEF DowngradeFits, HasExclusive
    <3>6. Holding(j, i.ok, 1, OneMore(shared[p], k), Without(exclusive[p], k), escaped[p], d)
      BY <1>2, <1>4, <3>2, <3>4, <3>5, HoldingDowngrades
    <3>7. Disciplined(p, k) /\ TypeOK' /\ RowCoversHolders'
      <4>1. shared[p][k] < MaxShared
        BY <1>2, <3>2, BoundsAssumption
      <4> QED
        BY <1>1, <1>4, <1>5, <3>1, <3>3, <4>1, DisciplinedKeeps DEF Disciplined
    <3>8. /\ LocksOfOthers(p) /\ exclusive'[p] = Without(exclusive[p], k)
          /\ shared'[p] = OneMore(shared[p], k)
      BY <1>1, <1>4, <1>5, <3>1, CallRemembers
    <3>9. Holding(j, i.ok, 1, shared'[p], exclusive'[p], escaped[p], d)
      BY <3>6, <3>8
    <3> QED
      BY <1>1, <1>4, <3>1, <3>7, <3>8, <3>9, CalledAndOn
  <2>5. CASE ~ChangeToSharedGranted(p, k)
    <3>1. UNCHANGED vars /\ GoTo(p, i.fail)
      BY <1>1, <2>2, <2>5 DEF vars, rows, own
    <3>2. ~exclusive[p][k]
      BY <1>5, <2>5 DEF RowCovers, ChangeToSharedGranted
    <3>3. /\ Stage(j.op, l, a) = "either" /\ Stage(j.op, i.fail, a) = "any"
          /\ i.fail \in Labels(j.op) /\ FlowsTo(j.op, l, i.fail, Other(a))
      BY <2>1, <2>3, <3>2 DEF DowngradeFits
    <3>4. Loosens(j, l, n, i.fail, 1, a)
      BY <3>3, RefusedDowngrade
    <3>5. LoosensAll(j, l, n, i.fail, 1, Other(a))
      BY <1>2, <1>4, <3>3, FlowLoosens, SidesOf
    <3>6. \A side \in Sides :
            /\ Loosens(j, l, n, i.fail, 1, side)
            /\ MayHaveExclusive(j, l, n, side) =>
                 MayHaveExclusive(j, i.fail, 1, side) \/ ~exclusive[p][Place(j, side)]
      BY <1>4, <3>2, <3>4, <3>5, SidesOf DEF LoosensAll
    <3> QED
      BY <1>1, <3>1, <3>3, <3>6, MovesOn
  <2> QED
    BY <2>4, <2>5
<1> QED
  BY <1>3, <1>6, <1>7

\* A request takes up a job.
LEMMA StartJobStep ==
  ASSUME ViewInv, NEW p \in Procs, StartJob(p)
  PROVE  ViewInv'
<1>1. /\ job[p] = NoJob /\ ~closing[p] /\ left[p] > 0 /\ UNCHANGED <<idx, escaped>>
      /\ UNCHANGED vars /\ pc' = [pc EXCEPT ![p] = "start"]
      /\ left' = [left EXCEPT ![p] = @ - 1]
      /\ \E j \in Jobs[p] : job' = [job EXCEPT ![p] = j]
  BY DEF StartJob, Busy
<1>2. PICK j \in Jobs[p] : job' = [job EXCEPT ![p] = j]
  BY <1>1
<1>3. j \in JobTypes /\ j # NoJob /\ j.op \in Operations /\ "start" \in Labels(j.op)
  BY JobIsBusy, StartIsFree DEF JobTypes, Sides
<1>4. ControlTyped /\ TypeOK /\ RowCoversHolders /\ BetweenJobs(p)
  BY <1>1 DEF ViewInv, OutlineKept, Outlined, Busy
<1>5. /\ TypeOK' /\ RowCoversHolders' /\ LocksOfOthers(p) /\ closing' = closing
      /\ shared'[p] = shared[p] /\ exclusive'[p] = exclusive[p]
  BY <1>1, <1>4, NoCall DEF vars
<1>6. left[p] \in 0..MaxJobs /\ MaxJobs \in Nat
  BY <1>4, MaxJobsAssumption DEF ControlTyped
<1>7. ControlTyped' /\ ControlOfOthers(p)
  <2>1. "start" \in AllLabels
    BY <1>3, LabelsInside
  <2>2. pc' \in [Procs -> AllLabels \cup {Done}]
    BY <1>1, <1>4, <2>1 DEF ControlTyped
  <2>3. left' \in [Procs -> 0..MaxJobs]
    BY <1>1, <1>4, <1>6 DEF ControlTyped
  <2>4. job' \in [Procs -> JobTypes \cup {NoJob}]
    BY <1>2, <1>3, <1>4 DEF ControlTyped
  <2>5. ControlOfOthers(p)
    BY <1>1, <1>2, <1>4 DEF ControlTyped, ControlOfOthers
  <2> QED
    BY <1>1, <1>4, <2>2, <2>3, <2>4, <2>5 DEF ControlTyped
<1>8. /\ job'[p] = j /\ pc'[p] = "start" /\ idx'[p] = 1 /\ left'[p] = left[p] - 1
      /\ escaped'[p] = escaped[p] /\ closing'[p] = FALSE
  <2>1. closing[p] = FALSE
    BY <1>1, <1>4 DEF TypeOK
  <2> QED
    BY <1>1, <1>2, <1>4, <1>5, <2>1 DEF ControlTyped, BetweenJobs
<1>9. Holding(j, "start", 1, shared[p], exclusive[p], escaped[p], MaxJobs - 1 - left'[p])
  <2>1. MaxJobs - 1 - left'[p] = MaxJobs - left[p] /\ MaxJobs - left[p] \in Nat
    BY <1>6, <1>8
  <2>2. /\ shared[p] \in [Paths -> Nat] /\ exclusive[p] \in [Paths -> BOOLEAN]
        /\ escaped[p] \in BOOLEAN /\ closing[p] = FALSE
    BY <1>1, <1>4, BoundsAssumption DEF TypeOK, ControlTyped
  <2>3. Resting(shared[p], exclusive[p], escaped[p], FALSE, MaxJobs - left[p])
    BY <1>4, <2>2 DEF BetweenJobs
  <2> QED
    BY <1>3, <2>1, <2>2, <2>3, HoldingStarts
<1>10. InJob(p)'
  <2>1. PathOf(p)' \in Paths
    BY <1>3, <1>8 DEF PathOf, JobTypes
  <2>2. 1 <= Len(LockSequence(PathOf(p)'))
    BY <2>1, SequenceLength
  <2>3. left'[p] < MaxJobs
    BY <1>6, <1>8
  <2> QED
    BY <1>3, <1>5, <1>8, <1>9, <2>2, <2>3 DEF InJob
<1>11. Outlined(p)'
  BY <1>3, <1>8, <1>10 DEF Outlined, Busy
<1> QED
  BY <1>5, <1>7, <1>11, OthersKept DEF ViewInv

\* What a step of p does to the rows and to the locks that are remembered.
Orderly(p) ==
  \/ UNCHANGED <<rows, own>>
  \/ \E k \in Paths : Disciplined(p, k)
  \/ EndReleaseAll(p)

(***************************************************************************)
(* The request ends: releaseAll releases what exceptions have left behind, *)
(* nothing more than the process holds.                                    *)
(***************************************************************************)
LEMMA EndRequestStep ==
  ASSUME ViewInv, NEW p \in Procs, EndRequest(p)
  PROVE  ViewInv' /\ Orderly(p)
<1>1. /\ ~Busy(p) /\ BetweenJobs(p) /\ TypeOK /\ RowCoversHolders /\ ControlTyped
  BY DEF EndRequest, ViewInv, OutlineKept, Outlined
<1>2. CASE ~closing[p] /\ BeginReleaseAll(p) /\ UNCHANGED control
  <2>1. /\ UNCHANGED <<rows, own, control>> /\ closing' = [closing EXCEPT ![p] = TRUE]
    BY <1>2 DEF BeginReleaseAll
  <2>2. TypeOK'
    BY <1>1, <2>1 DEF TypeOK, rows, own
  <2>3. RowCoversHolders'
    BY <1>1, <2>1, Untouched DEF RowCoversHolders, rows, own
  <2>4. ControlTyped' /\ ControlOfOthers(p) /\ LocksOfOthers(p)
    BY <1>1, <2>1 DEF ControlTyped, ControlOfOthers, LocksOfOthers, control, own, TypeOK
  <2>5. ~Busy(p)' /\ BetweenJobs(p)'
    <3>1. closing'[p] = TRUE
      BY <1>1, <2>1 DEF TypeOK
    <3> QED
      BY <1>1, <2>1, <3>1 DEF Busy, BetweenJobs, Resting, control, own
  <2> QED
    BY <2>1, <2>2, <2>3, <2>4, <2>5, OthersKept DEF ViewInv, Outlined, Orderly
<1>3. ASSUME closing[p], UNCHANGED <<closing, control>>,
             NEW k \in Paths, ReleaseAllShared(p, k) \/ ReleaseAllExclusive(p, k)
      PROVE  ViewInv' /\ Orderly(p)
  <2>1. /\ Disciplined(p, k)
        /\ ReleaseShared(p, k) \/ ReleaseExclusive(p, k)
    BY <1>3 DEF Disciplined, ReleaseAllShared, ReleaseAllExclusive
  <2>2. TypeOK' /\ RowCoversHolders'
    BY <1>1, <1>3, <2>1, DisciplinedKeeps
  <2>3. /\ LocksOfOthers(p)
        /\ \/ shared'[p] = OneLess(shared[p], k) /\ exclusive'[p] = exclusive[p]
           \/ shared'[p] = shared[p] /\ exclusive'[p] = Without(exclusive[p], k)
    BY <1>1, <1>3, <2>1, CallRemembers
  <2>4. ControlTyped' /\ ControlOfOthers(p)
    BY <1>1, <1>3 DEF ControlTyped, ControlOfOthers, control
  <2>5. ~Busy(p)' /\ BetweenJobs(p)'
    <3>1. ASSUME NEW i \in Paths PROVE shared'[p][i] <= shared[p][i]
      <4>1. shared[p] \in [Paths -> Nat]
        BY <1>1, BoundsAssumption DEF TypeOK
      <4> QED
        BY <2>3, <4>1 DEF OneLess
    <3>2. left[p] \in 0..MaxJobs /\ MaxJobs \in Nat
      BY <1>1, MaxJobsAssumption DEF ControlTyped
    <3>3. ASSUME NEW i \in Paths PROVE shared'[p][i] <= 2 * (MaxJobs - left[p])
      <4>1. shared[p][i] \in Nat /\ shared'[p][i] \in Nat
        BY <1>1, <2>2, BoundsAssumption DEF TypeOK
      <4>2. shared[p][i] <= 2 * (MaxJobs - left[p])
        BY <1>1 DEF BetweenJobs, Resting
      <4> QED
        BY <3>1, <3>2, <4>1, <4>2
    <3> QED
      BY <1>1, <1>3, <3>3 DEF Busy, BetweenJobs, Resting, control
  <2> QED
    BY <2>1, <2>2, <2>3, <2>4, <2>5, OthersKept DEF ViewInv, Outlined, Orderly
<1>4. CASE /\ closing[p] /\ EndReleaseAll(p) /\ UNCHANGED <<job, pc, idx>>
           /\ left' = [left EXCEPT ![p] = MaxJobs]
           /\ escaped' = [escaped EXCEPT ![p] = FALSE]
  <2>1. RowCoversHolders'
    BY <1>1, <1>4, EndReleaseAllStep DEF IInv
  <2>2. TypeOK' /\ LocksOfOthers(p) /\ shared' = shared /\ exclusive' = exclusive
    <3>1. lock' \in [Paths -> {NoRow, ExclusiveValue} \cup Nat]
      BY <1>1, <1>4 DEF EndReleaseAll, ReleaseKept, TypeOK, NoRow, ExclusiveValue
    <3> QED
      BY <1>1, <1>4, <3>1 DEF EndReleaseAll, ReleaseKept, TypeOK, LocksOfOthers
  <2>3. ControlTyped' /\ ControlOfOthers(p)
    BY <1>1, <1>4, MaxJobsAssumption DEF ControlTyped, ControlOfOthers
  <2>4. ~Busy(p)' /\ BetweenJobs(p)'
    <3>1. left'[p] = MaxJobs /\ MaxJobs - MaxJobs = 0
      BY <1>1, <1>4, MaxJobsAssumption DEF ControlTyped
    <3>2. \A k \in Paths : shared'[p][k] = 0 /\ ~exclusive'[p][k]
      BY <1>1, <1>4, <2>2, BoundsAssumption DEF EndReleaseAll, Holds, TypeOK
    <3> QED
      BY <1>1, <1>4, <3>1, <3>2 DEF Busy, BetweenJobs, Resting
  <2> QED
    BY <1>4, <2>1, <2>2, <2>3, <2>4, OthersKept DEF ViewInv, Outlined, Orderly
<1> QED
  BY <1>2, <1>3, <1>4 DEF EndRequest

(***************************************************************************)
(* The invariant, where no process on the command line runs a rename: its  *)
(* unlockFile may release more than it holds, and takes the lock of        *)
(* another process out of the row.                                         *)
(***************************************************************************)
LEMMA ViewStepKeeps ==
  ASSUME NoRenameWithoutCache, ViewInv, NEW p \in Procs, ViewStep(p)
  PROVE  ViewInv' /\ Orderly(p)
<1> USE DEF Orderly
<1>1. UNCHANGED vars => UNCHANGED <<rows, own>>
  BY DEF vars, rows, own
<1>2. CASE StartJob(p)
  BY <1>1, <1>2, StartJobStep DEF StartJob
<1>3. CASE LockFile(p)
  BY <1>1, <1>3, LockFileStep
<1>4. CASE UnlockFile(p)
  BY <1>4, UnlockFileStep
<1>5. CASE ChangeLock(p)
  BY <1>1, <1>5, ChangeLockStep
<1>6. CASE RunHooks(p) \/ StorageCall(p)
  BY <1>1, <1>6, RunHooksStep DEF RunHooks, StorageCall
<1>7. CASE EndRequest(p)
  BY <1>7, EndRequestStep
<1> QED
  BY <1>2, <1>3, <1>4, <1>5, <1>6, <1>7 DEF ViewStep

LEMMA ViewInductive ==
  ASSUME NoRenameWithoutCache
  PROVE  ViewSpec => []ViewInv
<1>1. ViewInit => ViewInv
  <2> SUFFICES ASSUME ViewInit PROVE ViewInv
    OBVIOUS
  <2>1. Init /\ TypeOK
    BY BoundsAssumption DEF ViewInit, Init, TypeOK
  <2>2. RowCoversHolders
    BY <2>1, RowCoversHoldersAtInit
  <2>3. ControlTyped
    BY MaxJobsAssumption DEF ViewInit, ControlTyped
  <2>4. ASSUME NEW p \in Procs PROVE Outlined(p)
    <3>1. MaxJobs - MaxJobs = 0
      BY MaxJobsAssumption
    <3> QED
      BY <2>1, <3>1 DEF ViewInit, Init, Outlined, Busy, BetweenJobs, Resting
  <2> QED
    BY <2>1, <2>2, <2>3, <2>4 DEF ViewInv, OutlineKept
<1>2. ViewInv /\ [ViewNext]_viewVars => ViewInv'
  <2> SUFFICES ASSUME ViewInv, [ViewNext]_viewVars PROVE ViewInv'
    OBVIOUS
  <2>1. CASE ViewNext
    BY <2>1, ViewStepKeeps DEF ViewNext
  <2>2. CASE UNCHANGED viewVars
    <3>1. TypeOK' /\ ControlTyped'
      BY <2>2 DEF ViewInv, viewVars, vars, control, TypeOK, ControlTyped
    <3>2. RowCoversHolders'
      BY <2>2, Untouched DEF ViewInv, viewVars, vars, RowCoversHolders
    <3>3. ASSUME NEW p \in Procs PROVE Outlined(p)'
      <4>1. Outlined(p)
        BY DEF ViewInv, OutlineKept
      <4>2. Busy(p)' = Busy(p) /\ Instr(p)' = Instr(p) /\ PathOf(p)' = PathOf(p)
        BY <2>2 DEF viewVars, control, Busy, Instr, PathOf
      <4>3. InJob(p) => InJob(p)'
        BY <2>2, <4>2 DEF viewVars, vars, control, InJob
      <4>4. BetweenJobs(p) => BetweenJobs(p)'
        BY <2>2 DEF viewVars, vars, control, BetweenJobs
      <4> QED
        BY <4>1, <4>2, <4>3, <4>4 DEF Outlined
    <3> QED
      BY <3>1, <3>2, <3>3 DEF ViewInv, OutlineKept
  <2> QED
    BY <2>1, <2>2
<1> QED
  BY <1>1, <1>2, PTL DEF ViewSpec

-----------------------------------------------------------------------------
(***************************************************************************)
(* Every process is at a label of the program of one of its jobs, or       *)
(* between two jobs.                                                       *)
(***************************************************************************)
THEOREM ViewTypeCorrect ==
  ASSUME NoRenameWithoutCache
  PROVE  ViewSpec => []ViewTypeOK
<1>1. ViewInv => ViewTypeOK
  <2> SUFFICES ASSUME ViewInv PROVE ViewTypeOK
    OBVIOUS
  <2>1. ASSUME NEW p \in Procs, Busy(p)
        PROVE  job[p] \in Jobs[p] /\ pc[p] \in DOMAIN Program(job[p].op)
    <3>1. job[p] \in Jobs[p] /\ pc[p] \in Labels(job[p].op) /\ job[p].op \in Operations
      BY <2>1, InsideJob DEF InJob
    <3> QED
      BY <3>1, LabelsOf
  <2> QED
    BY <2>1 DEF ViewInv, ControlTyped, ViewTypeOK, Busy
<1> QED
  BY <1>1, ViewInductive, PTL

(***************************************************************************)
(* What a process has when its job is in the storage call: the paths it    *)
(* changes exclusively, the others shared, and all folders above shared.   *)
(***************************************************************************)
LEMMA StorageStages ==
  ASSUME NEW j \in JobTypes, NEW l \in Labels(j.op), Program(j.op)[l].do = "storage",
         NEW x \in Accesses(j)
  PROVE  \E side \in Sides :
           /\ x[1] = Place(j, side)
           /\ Stage(j.op, l, side) = IF x[2] = "X" THEN "exclusive" ELSE "taken"
<1>0. j.op \in Operations
  BY DEF JobTypes
<1> USE DEF Program, Labels, Outline, Done, Stage, Has, Sides, Place, Accesses
<1> USE DEF Lock, Unlock, Change, Hooks, Storage
<1>1. CASE j.op = "read"
  BY <1>1 DEF ReadProgram, ReadOutline
<1>2. CASE j.op \in {"write", "delete", "put"}
  BY <1>2 DEF WriteProgram, PutStreamProgram, WriteOutline
<1>3. CASE j.op = "open"
  <2>1. l \in DOMAIN WriteOutline /\ OpenProgram[l].do = "storage"
    BY <1>3
  <2>2. OpenProgram["post"].do = "hooks"
    BY DEF OpenProgram, WriteProgram
  <2>3. l # "work" => OpenProgram[l] = WriteProgram[l]
    BY <2>1, <2>2 DEF OpenProgram, WriteProgram, WriteOutline
  <2>4. WriteProgram[l].do = "storage" => l = "work"
    BY <2>1 DEF WriteProgram, WriteOutline
  <2> QED
    BY <1>3, <2>1, <2>3, <2>4 DEF WriteOutline
<1>4. CASE j.op = "rename"
  BY <1>4 DEF RenameProgram, RenameOutline
<1>5. CASE j.op = "copy"
  BY <1>5 DEF CopyProgram, CopyOutline
<1> QED
  BY <1>0, <1>1, <1>2, <1>3, <1>4, <1>5 DEF Operations

LEMMA StorageHolds ==
  ASSUME ViewInv, NEW p \in Procs, Doing(p, "storage"), NEW x \in Accesses(job[p])
  PROVE  /\ x[1] \in Paths
         /\ IF x[2] = "X" THEN exclusive[p][x[1]] ELSE shared[p][x[1]] > 0
         /\ \A h \in DOMAIN Parents[x[1]] :
              Parents[x[1]][h] \in Paths /\ shared[p][Parents[x[1]][h]] > 0
<1> DEFINE j == job[p]
           l == pc[p]
           n == idx[p]
           d == MaxJobs - 1 - left[p]
           s == LockSequence(x[1])
<1>1. /\ InJob(p) /\ j \in JobTypes /\ j.op \in Operations
      /\ shared[p] \in [Paths -> Nat]
      /\ Holding(j, l, n, shared[p], exclusive[p], escaped[p], d)
  BY InsideJob DEF Doing
<1>2. l \in Labels(j.op) /\ Program(j.op)[l].do = "storage"
  BY <1>1 DEF InJob, Doing, Instr
<1>3. PICK side \in Sides :
        /\ x[1] = Place(j, side)
        /\ Stage(j.op, l, side) = IF x[2] = "X" THEN "exclusive" ELSE "taken"
  BY <1>1, <1>2, StorageStages
<1>4. /\ x[1] \in Paths /\ Len(s) \in Nat \ {0} /\ s[1] = x[1]
      /\ \A h \in 1..Len(s) : s[h] \in Paths
  BY <1>1, <1>3, SequenceOf
<1>5. /\ DOMAIN Parents[x[1]] = 1..Len(Parents[x[1]])
      /\ \A h \in DOMAIN Parents[x[1]] :
           h + 1 \in 2..Len(s) /\ Parents[x[1]][h] = s[h + 1]
  <2>1. Parents[x[1]] \in Seq(Paths)
    BY <1>4, ParentsAssumption
  <2> QED
    BY <2>1 DEF LockSequence
<1>6. ASSUME NEW k \in Paths, SurelyHolds(j, l, n, side, k)
      PROVE  shared[p][k] > 0
  <2>1. Least(j, l, n, k) >= 1 /\ Least(j, l, n, k) \in Nat
    BY <1>6, Counts
  <2> QED
    BY <1>1, <2>1 DEF Holding
<1> HIDE DEF j, l, n, d, s
<1>7. ASSUME NEW h \in 2..Len(s) PROVE SurelyHolds(j, l, n, side, s[h])
  BY <1>3, <1>4 DEF SurelyHolds, MayHold, Between, FirstHeld, LastHeld, s
<1>8. x[2] # "X" => SurelyHolds(j, l, n, side, s[1])
  BY <1>3, <1>4 DEF SurelyHolds, MayHold, Between, FirstHeld, LastHeld, s
<1>9. x[2] = "X" => exclusive[p][x[1]]
  BY <1>1, <1>3 DEF Holding, HasExclusive
<1>10. \A h \in DOMAIN Parents[x[1]] :
         Parents[x[1]][h] \in Paths /\ shared[p][Parents[x[1]][h]] > 0
  BY <1>4, <1>5, <1>6, <1>7
<1>11. x[2] # "X" => shared[p][x[1]] > 0
  BY <1>4, <1>6, <1>8
<1> QED
  BY <1>4, <1>9, <1>10, <1>11

(***************************************************************************)
(* Why View locks: no storage call disturbs another one.  Whoever changes  *)
(* a path has its row exclusively; whoever works on it or below it would   *)
(* have a unit in that row.                                                *)
(***************************************************************************)
THEOREM OperationsIsolated ==
  ASSUME NoRenameWithoutCache
  PROVE  ViewSpec => []StorageIsolated
<1>1. ViewInv => StorageIsolated
  <2> SUFFICES ASSUME ViewInv, NEW p \in Procs, NEW q \in Procs, p # q,
                      Doing(p, "storage"), Doing(q, "storage"),
                      NEW x \in Accesses(job[p]), NEW y \in Accesses(job[q]),
                      x[2] = "X", x[1] = y[1] \/ Above(x[1], y[1])
               PROVE  FALSE
    BY DEF StorageIsolated, Disturbs
  <2>1. x[1] \in Paths /\ exclusive[p][x[1]]
    BY StorageHolds
  <2>2. RowCovers(x[1]) /\ TypeOK
    BY <2>1 DEF ViewInv, RowCoversHolders
  <2>3. ~exclusive[q][x[1]]
    BY <2>1, <2>2 DEF RowCovers
  <2>4. ~(shared[q][x[1]] > 0)
    <3>1. Units(x[1]) = {}
      BY <2>1, <2>2 DEF RowCovers
    <3> QED
      BY <2>1, <2>2, <3>1, SharedHasUnit
  <2>5. exclusive[q][x[1]] \/ shared[q][x[1]] > 0
    <3>1. CASE x[1] = y[1]
      BY <3>1, StorageHolds
    <3>2. CASE Above(x[1], y[1])
      BY <3>2, StorageHolds DEF Above
    <3> QED
      BY <3>1, <3>2
  <2> QED
    BY <2>3, <2>4, <2>5
<1> QED
  BY <1>1, ViewInductive, PTL

(***************************************************************************)
(* Whatever way an operation ends, it has given back every lock it took,   *)
(* unless an exception escaped it.                                         *)
(***************************************************************************)
THEOREM OperationsLeaveNothing ==
  ASSUME NoRenameWithoutCache
  PROVE  ViewSpec => []JobsLeaveNothing
<1>1. ViewInv => JobsLeaveNothing
  <2> SUFFICES ASSUME ViewInv, NEW p \in Procs, ~Busy(p), ~closing[p], ~escaped[p],
                      NEW k \in Paths
               PROVE  ~Holds(p, k)
    BY DEF JobsLeaveNothing
  <2>1. BetweenJobs(p)
    BY DEF ViewInv, OutlineKept, Outlined
  <2>2. shared[p][k] = 0 /\ ~exclusive[p][k]
    BY <2>1 DEF BetweenJobs, Resting
  <2> QED
    BY <2>2 DEF Holds
<1> QED
  BY <1>1, ViewInductive, PTL

(***************************************************************************)
(* No operation leaves a lock in a row that no living process has put      *)
(* there.                                                                  *)
(***************************************************************************)
THEOREM OperationsLeakNothing ==
  ASSUME NoRenameWithoutCache
  PROVE  ViewSpec => []NoStrayLock
<1>1. ViewInit => NoStrayLock
  BY DEF ViewInit, Init, NoStrayLock, NoRow, ExclusiveValue
<1>2. ASSUME ViewInv, NoStrayLock, [ViewNext]_viewVars
      PROVE  NoStrayLock'
  <2>1. TypeOK /\ IInv /\ \A k \in Paths : RowCovers(k) /\ Exact(k)
    BY <1>2 DEF ViewInv, IInv, RowCoversHolders, NoStrayLock, Exact
  <2>2. CASE UNCHANGED <<rows, own>>
    <3>1. \A k \in Paths : Exact(k)'
      BY <2>1, <2>2, ExactUntouched DEF rows, own, Contribution
    <3> QED
      BY <3>1 DEF NoStrayLock, Exact
  <2>3. ASSUME NEW p \in Procs, EndReleaseAll(p) PROVE NoStrayLock'
    <3>1. \A k \in Paths : Exact(k)'
      BY <2>1, <2>3, EndReleaseAllExact
    <3> QED
      BY <3>1 DEF NoStrayLock, Exact
  <2>4. ASSUME NEW p \in Procs, Orderly(p) PROVE NoStrayLock'
    BY <1>2, <2>1, <2>2, <2>3, <2>4, DisciplinedExact DEF Orderly
  <2>5. CASE ViewNext
    BY <1>2, <2>4, <2>5, ViewStepKeeps DEF ViewNext
  <2>6. CASE UNCHANGED viewVars
    BY <2>2, <2>6 DEF viewVars, vars, rows, own
  <2> QED
    BY <1>2, <2>5, <2>6
<1>3. ViewInv /\ NoStrayLock /\ [ViewNext]_viewVars => NoStrayLock'
  BY <1>2
<1> QED
  BY <1>1, <1>3, ViewInductive, PTL DEF ViewSpec

(***************************************************************************)
(* On the command line an operation releases only what it holds: all       *)
(* operations but a rename keep account of what they have taken.           *)
(***************************************************************************)
THEOREM OnlyOwnReleased ==
  ASSUME NoRenameWithoutCache
  PROVE  ViewSpec => ReleasesOnlyOwn
<1>1. ViewInv =>
        \A p \in Procs \ Caching, k \in Paths :
          UnlockFile(p) /\ k = LockSequence(PathOf(p))[idx[p]] => Holds(p, k)
  BY UnlockFileStep
<1> QED
  BY <1>1, ViewInductive, PTL DEF ViewSpec, ReleasesOnlyOwn
=============================================================================
