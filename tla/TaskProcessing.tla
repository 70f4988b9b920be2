--------------------------- MODULE TaskProcessing ---------------------------
(***************************************************************************)
(* Tasks for AI providers (lib/private/TaskProcessing/Manager.php and      *)
(* Db/TaskMapper.php).  A request stores a task; an executor claims the    *)
(* oldest scheduled one, lets a provider work on it and stores what comes  *)
(* out; users cancel and delete tasks meanwhile.                           *)
(*                                                                         *)
(* Executors are runs of SynchronousBackgroundJob from the job list, the   *)
(* occ command taskprocessing:worker, external apps that ask for tasks     *)
(* over HTTP (TaskProcessingApiController), and requests that call runTask *)
(* and process their task themselves.                                      *)
(*                                                                         *)
(* Every SQL statement is a step.  Manager reads a task, decides, and      *)
(* writes all its columns back without a look at what the row has become:  *)
(* copy is what such a call is about to write.  Only claiming compares.    *)
(* A task is its status here; output, progress and times go with it.       *)
(***************************************************************************)
EXTENDS Naturals, FiniteSets

CONSTANTS
  Direct,     \* tasks of requests that call runTask
  Queued,     \* tasks of requests that call scheduleTask
  Types,      \* task types
  Sync,       \* those whose preferred provider is an ISynchronousProvider
  TypeOf,     \* TypeOf[t]: the task type of t
  Crons,      \* processes that run jobs of the job list
  Workers,    \* taskprocessing:worker commands
  Apps,       \* external apps, providers of the other types
  Clients,    \* requests that cancel
  Sites,      \* the installations to look at: a database and who takes part
  Env         \* {"crash"}: one process may be killed

Tasks == Direct \cup Queued
Executors == Crons \cup Workers \cup Apps
Procs == Tasks \cup Executors \cup Clients

(***************************************************************************)
(*  "skip"   SELECT ... FOR UPDATE SKIP LOCKED and UPDATE in a transaction *)
(*  "retry"  SQLite and Oracle: SELECT, then an UPDATE of a task that is   *)
(*           still scheduled, then a SELECT of the task                    *)
(***************************************************************************)
DatabaseKinds == {"skip", "retry"}

ASSUME TypesAssumption == Sync \subseteq Types /\ TypeOf \in [Tasks -> Types]
ASSUME SitesAssumption == Sites \subseteq [db : DatabaseKinds, procs : SUBSET Procs]
ASSUME EnvAssumption == Env \subseteq {"crash"}
ASSUME DistinctAssumption ==
  /\ Direct \cap Queued = {} /\ Crons \cap Workers = {}
  /\ (Crons \cup Workers) \cap Apps = {}
  /\ Clients \cap (Tasks \cup Executors) = {} /\ Tasks \cap Executors = {}
ASSUME FiniteAssumption == IsFiniteSet(Tasks) /\ IsFiniteSet(Crons)

VARIABLES
  site,     \* the installation
  status,   \* status[t]: that of t's row, "none" before it is stored and once deleted
  jobs,     \* jobs[i]: the rows of SynchronousBackgroundJob in the job list
  pc,       \* pc[p]: the next statement of p
  task,     \* task[p]: the task p is at
  copy,     \* copy[p]: the status in the copy p is about to write
  held,     \* held[c]: the job row c has been given by the job list
  todo,     \* todo[c]: the types this run has still to claim from, or to look at
  claims,   \* history: how often t was claimed (2: more than once)
  lost      \* history: a process was cut short

row == <<status, claims>>
vars == <<site, row, jobs, pc, task, copy, held, todo, lost>>

Statuses == {"none", "SCHEDULED", "RUNNING", "SUCCESSFUL", "FAILED", "CANCELLED"}
Labels == {"away", "new", "add", "insert", "reset", "polling", "done", "idle", "reserved",
           "claiming", "locking", "rereading", "claimed", "working", "report",
           "result", "error", "cancel", "checking", "readd", "reinsert", "rereset"}

AtTask == {"locking", "rereading", "claimed", "working", "report", "result", "error", "cancel"}

NoTask == "none"
NoJob == 0

ASSUME NoTaskAssumption == NoTask \notin Tasks

\* Enough ids for the rows there can be and those that runners still know.
JobIds == 1 .. 2 * Cardinality(Crons) + Cardinality(Tasks)

TypeOK ==
  /\ site \in Sites
  /\ status \in [Tasks -> Statuses]
  /\ jobs \in [JobIds -> {"none", "free", "reserved"}]
  /\ pc \in [Procs -> Labels]
  /\ task \in [Procs -> Tasks \cup {NoTask}]
  /\ \A p \in Procs : task[p] # NoTask <=> pc[p] \in AtTask
  /\ copy \in [Procs -> Statuses]
  /\ held \in [Crons -> JobIds \cup {NoJob}]
  /\ todo \in [Crons -> SUBSET Sync]
  /\ claims \in [Tasks -> 0..2]
  /\ lost \in BOOLEAN

Init ==
  /\ site \in Sites
  /\ status = [t \in Tasks |-> "none"]
  /\ jobs = [i \in JobIds |-> "none"]
  /\ pc = [p \in Procs |-> CASE p \notin site.procs -> "away"
                         [] p \in Tasks \cap site.procs -> "new"
                         [] OTHER -> "idle"]
  /\ task = [p \in Procs |-> NoTask]
  /\ copy = [p \in Procs |-> "none"]
  /\ held = [c \in Crons |-> NoJob]
  /\ todo = [c \in Crons |-> {}]
  /\ claims = [t \in Tasks |-> 0]
  /\ lost = FALSE

-----------------------------------------------------------------------------
IsSync(t) == TypeOf[t] \in Sync
Scheduled(types) == {t \in Tasks : status[t] = "SCHEDULED" /\ TypeOf[t] \in types}
Open(t) == status[t] \in {"SCHEDULED", "RUNNING"}

Go(p, l) == pc' = [pc EXCEPT ![p] = l]

\* TaskMapper::update: of a row that is gone it changes nothing.
Update(t, s) == status' = [status EXCEPT ![t] = IF @ = "none" THEN "none" ELSE s]

Copy(p, t, s) ==
  /\ task' = [task EXCEPT ![p] = t]
  /\ copy' = [copy EXCEPT ![p] = s]

Forget(p) == Copy(p, NoTask, "none")

\* What a process does after its last statement.
Rest(p) == IF p \in Tasks THEN "done" ELSE "idle"

-----------------------------------------------------------------------------
(***************************************************************************)
(* Requests.  scheduleTask stores the task and lists the job if a          *)
(* synchronous provider is preferred; runTask stores it and goes on with   *)
(* processTask, or schedules it and polls once a second.                   *)
(***************************************************************************)
AfterStore(t) ==
  CASE IsSync(t) /\ t \in Queued    -> "add"
    [] IsSync(t) /\ t \in Direct    -> "claimed"
    [] ~ IsSync(t) /\ t \in Queued  -> "done"
    [] ~ IsSync(t) /\ t \in Direct  -> "polling"

Store(t) ==
  /\ pc[t] = "new"
  /\ status' = [status EXCEPT ![t] = "SCHEDULED"]
  /\ Go(t, AfterStore(t))
  /\ IF AfterStore(t) = "claimed" THEN Copy(t, t, "RUNNING") ELSE UNCHANGED <<task, copy>>
  /\ UNCHANGED <<site, jobs, held, todo, claims, lost>>

\* Mutant: cancelled tasks are waited for as well.
PollForResult(t) ==
  /\ pc[t] = "polling" /\ status[t] \in {"none", "SUCCESSFUL", "FAILED"}
  /\ Go(t, "done")
  /\ UNCHANGED <<site, row, jobs, task, copy, held, todo, lost>>

Poll(t) ==
  /\ pc[t] = "polling" /\ ~ Open(t)
  /\ Go(t, "done")
  /\ UNCHANGED <<site, row, jobs, task, copy, held, todo, lost>>

-----------------------------------------------------------------------------
(***************************************************************************)
(* JobList::add: a look-up, then an INSERT or an UPDATE of all such rows   *)
(* that drops their reservation.  A run goes through "add" when a task has *)
(* failed, and through "readd" at its end.                                 *)
(***************************************************************************)
Listed == {i \in JobIds : jobs[i] # "none"}

AddLook(p) ==
  /\ \/ pc[p] = "add" /\ Go(p, IF Listed = {} THEN "insert" ELSE "reset")
     \/ pc[p] = "readd" /\ Go(p, IF Listed = {} THEN "reinsert" ELSE "rereset")
  /\ UNCHANGED <<site, row, jobs, task, copy, held, todo, lost>>

AfterAdd(p) == IF p \in Crons /\ pc[p] \in {"insert", "reset"} THEN "claiming" ELSE Rest(p)

\* Ids of the list are never used again; here, never while somebody knows them.
NewId == CHOOSE i \in JobIds : jobs[i] = "none" /\ \A c \in Crons : held[c] # i

AddWrite(p) ==
  /\ \/ pc[p] \in {"insert", "reinsert"} /\ jobs' = [jobs EXCEPT ![NewId] = "free"]
     \/ /\ pc[p] \in {"reset", "rereset"}
        /\ jobs' = [i \in JobIds |-> IF i \in Listed THEN "free" ELSE "none"]
  /\ Go(p, AfterAdd(p))
  /\ UNCHANGED <<site, row, task, copy, held, todo, lost>>

-----------------------------------------------------------------------------
(***************************************************************************)
(* The job.  The list hands its row to a runner, which reserves it;        *)
(* QueuedJob::start removes the row before the run.  The run claims one    *)
(* task of every type and processes it, then looks whether any type has    *)
(* another one, and lists itself again.                                    *)
(***************************************************************************)
Reserve(c) ==
  /\ pc[c] = "idle"
  /\ \E i \in JobIds :
       /\ jobs[i] = "free"
       /\ jobs' = [jobs EXCEPT ![i] = "reserved"]
       /\ held' = [held EXCEPT ![c] = i]
  /\ Go(c, "reserved")
  /\ UNCHANGED <<site, row, task, copy, todo, lost>>

StartJob(c) ==
  /\ pc[c] = "reserved"
  /\ jobs' = [jobs EXCEPT ![held[c]] = "none"]
  /\ held' = [held EXCEPT ![c] = NoJob]
  /\ todo' = [todo EXCEPT ![c] = Sync]
  /\ Go(c, "claiming")
  /\ UNCHANGED <<site, row, task, copy, lost>>

\* A type without a scheduled task; in the end, the loop is over.
NothingToClaim(c) ==
  /\ pc[c] = "claiming"
  /\ \E y \in todo[c] : Scheduled({y}) = {} /\ todo' = [todo EXCEPT ![c] = @ \ {y}]
  /\ UNCHANGED <<site, row, jobs, pc, task, copy, held, lost>>

\* Mutant: the run does not look whether there are more tasks.
EndLoopNoCheck(c) ==
  /\ pc[c] = "claiming" /\ todo[c] = {}
  /\ Go(c, "idle")
  /\ UNCHANGED <<site, row, jobs, task, copy, held, todo, lost>>

EndLoop(c) ==
  /\ pc[c] = "claiming" /\ todo[c] = {}
  /\ todo' = [todo EXCEPT ![c] = Sync]
  /\ Go(c, "checking")
  /\ UNCHANGED <<site, row, jobs, task, copy, held, lost>>

Check(c) ==
  /\ pc[c] = "checking"
  /\ \E y \in todo[c] :
       \/ /\ Scheduled({y}) = {}
          /\ todo' = [todo EXCEPT ![c] = @ \ {y}]
          /\ Go(c, IF todo[c] = {y} THEN "idle" ELSE "checking")
       \/ /\ Scheduled({y}) # {}
          /\ todo' = [todo EXCEPT ![c] = {}]
          /\ Go(c, "readd")
  /\ UNCHANGED <<site, row, jobs, task, copy, held, lost>>

\* A reservation counts no more after 12 hours.
Expire(i) ==
  /\ jobs[i] = "reserved" /\ \A c \in Crons : held[c] # i
  /\ jobs' = [jobs EXCEPT ![i] = "free"]
  /\ UNCHANGED <<site, row, pc, task, copy, held, todo, lost>>

-----------------------------------------------------------------------------
(***************************************************************************)
(* Claiming (claimOldestScheduledTask).  Which of the scheduled tasks is   *)
(* the oldest is left open: times are in seconds, and SKIP LOCKED passes   *)
(* over tasks that are being claimed.                                      *)
(***************************************************************************)
Claimable(e) ==
  CASE e \in Crons   -> IF pc[e] = "claiming" THEN Scheduled(todo[e]) ELSE {}
    [] e \in Workers -> IF pc[e] = "idle" THEN Scheduled(Sync) ELSE {}
    [] e \in Apps    -> IF pc[e] = "idle" THEN Scheduled(Types \ Sync) ELSE {}

\* Mutant: the former guard of lockTask, "not running".
MayLockUnlessRunning(t) == status[t] \notin {"none", "RUNNING"}

\* lockTask: the only UPDATE that looks at the status.
MayLock(t) == status[t] = "SCHEDULED"

Lock(t) ==
  /\ status' = [status EXCEPT ![t] = "RUNNING"]
  /\ claims' = [claims EXCEPT ![t] = IF @ = 2 THEN 2 ELSE @ + 1]

\* A run is done with a type when it has claimed a task of it.
Crossed(e, t) ==
  todo' = IF e \in Crons THEN [todo EXCEPT ![e] = @ \ {TypeOf[t]}] ELSE todo

\* The caller has a task: an external app gets it with the response.
Taken(e, t) ==
  /\ Go(e, IF e \in Apps THEN "working" ELSE "claimed")
  /\ Copy(e, t, "RUNNING")

ClaimSkipLocked(e) ==
  /\ site.db = "skip"
  /\ \E t \in Claimable(e) : Lock(t) /\ Crossed(e, t) /\ Taken(e, t)
  /\ UNCHANGED <<site, jobs, held, lost>>

FindOldest(e) ==
  /\ site.db = "retry"
  /\ \E t \in Claimable(e) : Copy(e, t, "none")
  /\ Go(e, "locking")
  /\ UNCHANGED <<site, row, jobs, held, todo, lost>>

LockTask(e) ==
  /\ pc[e] = "locking"
  /\ \/ /\ MayLock(task[e])
        /\ Lock(task[e]) /\ Crossed(e, task[e])
        /\ Go(e, "rereading")
        /\ UNCHANGED <<task, copy>>
     \/ /\ ~ MayLock(task[e])    \* the next attempt, or the next call
        /\ Go(e, IF e \in Crons THEN "claiming" ELSE "idle")
        /\ Forget(e)
        /\ UNCHANGED <<row, todo>>
  /\ UNCHANGED <<site, jobs, held, lost>>

\* find throws when the task has been deleted, which nobody catches: a run
\* ends without its last look.
Reread(e) ==
  /\ pc[e] = "rereading"
  /\ \/ status[task[e]] # "none" /\ Taken(e, task[e]) /\ UNCHANGED <<todo, lost>>
     \/ /\ status[task[e]] = "none"
        /\ Go(e, "idle") /\ Forget(e)
        /\ todo' = IF e \in Crons THEN [todo EXCEPT ![e] = {}] ELSE todo
        /\ lost' = (lost \/ e \in Crons)
  /\ UNCHANGED <<site, row, jobs, held>>

-----------------------------------------------------------------------------
(***************************************************************************)
(* Working on a task: processTask, and the requests of an external app.    *)
(* processTask writes RUNNING whatever the row says by now, then the       *)
(* provider reports progress (setTaskProgress, setTaskIntermediateOutput)  *)
(* until it has a result, or fails (setTaskResult).  prepareInputData may  *)
(* fail before all that.                                                   *)
(***************************************************************************)
StartWork(e) ==
  /\ pc[e] = "claimed"
  /\ Update(task[e], "RUNNING")
  /\ Go(e, "working")
  /\ UNCHANGED <<site, jobs, task, copy, held, todo, claims, lost>>

\* Mutant: only deleted tasks are turned away.
RefusedDeleted(t) == status[t] = "none"

\* setTaskProgress and setTaskResult turn away who comes for such a task.
Refused(t) == status[t] \in {"none", "CANCELLED"}

\* With neither output nor error setTaskResult writes the status it has read.
BeginReport(e) ==
  /\ pc[e] = "working" /\ ~ Refused(task[e])
  /\ \E s \in {"RUNNING"} \cup (IF e \in Apps THEN {status[task[e]]} ELSE {}) :
       Copy(e, task[e], s)
  /\ Go(e, "report")
  /\ UNCHANGED <<site, row, jobs, held, todo, lost>>

\* Mutant: after an error the run goes on with the task it has given up.
AfterWorkAgain(e, fine) ==
  CASE e \in Crons /\ fine   -> "claiming"
    [] e \in Crons /\ ~ fine -> "working"
    [] OTHER                 -> Rest(e)

(***************************************************************************)
(* processTask returns FALSE after an error, and a run lists its job again *)
(* for that; of a deleted task it returns TRUE.                            *)
(***************************************************************************)
AfterWork(e, fine) ==
  CASE e \in Crons /\ fine   -> "claiming"
    [] e \in Crons /\ ~ fine -> "add"
    [] OTHER                 -> Rest(e)

\* An output that does not fit its type is stored as a failure.
BeginResult(e) ==
  /\ \/ pc[e] = "working"
       /\ \E s \in {"SUCCESSFUL", "FAILED"} : Copy(e, task[e], s)
       /\ Go(e, "result")
     \/ pc[e] \in {"working", "claimed"}
       /\ Copy(e, task[e], "FAILED")
       /\ Go(e, "error")
  /\ ~ Refused(task[e])
  /\ UNCHANGED <<site, row, jobs, held, todo, lost>>

ResultRefused(e) ==
  /\ pc[e] \in {"working", "claimed"} /\ Refused(task[e])
  /\ \E fine \in BOOLEAN :
       /\ status[task[e]] = "none" => fine
       /\ status[task[e]] = "CANCELLED" /\ pc[e] = "claimed" => ~ fine
       /\ Go(e, AfterWork(e, fine))
  /\ Forget(e)
  /\ UNCHANGED <<site, row, jobs, held, todo, lost>>

Write(p) ==
  /\ pc[p] \in {"report", "result", "error", "cancel"}
  /\ Update(task[p], copy[p])
  /\ IF pc[p] = "report"
     THEN Go(p, "working") /\ UNCHANGED <<task, copy>>
     ELSE Go(p, AfterWork(p, pc[p] # "error")) /\ Forget(p)
  /\ UNCHANGED <<site, jobs, held, todo, claims, lost>>

-----------------------------------------------------------------------------
(***************************************************************************)
(* Users.  cancelTask reads the task and writes it back as cancelled;      *)
(* deleting is one statement, which RemoveOldTasksBackgroundJob makes too. *)
(***************************************************************************)
Cancel(k, t) ==
  /\ pc[k] = "idle" /\ Open(t)
  /\ Copy(k, t, "CANCELLED")
  /\ Go(k, "cancel")
  /\ UNCHANGED <<site, row, jobs, held, todo, lost>>

Delete(t) ==
  /\ status[t] # "none"
  /\ status' = [status EXCEPT ![t] = "none"]
  /\ UNCHANGED <<site, jobs, pc, task, copy, held, todo, claims, lost>>

\* A process is killed, or an external app loses the task it has been given.
Crash(p) ==
  /\ "crash" \in Env /\ ~ lost
  /\ pc[p] \notin {"away", "new", "idle", "done"}
  /\ Go(p, Rest(p)) /\ Forget(p)
  /\ held' = IF p \in Crons THEN [held EXCEPT ![p] = NoJob] ELSE held
  /\ todo' = IF p \in Crons THEN [todo EXCEPT ![p] = {}] ELSE todo
  /\ lost' = TRUE
  /\ UNCHANGED <<site, row, jobs>>

Request(t) == Store(t) \/ Poll(t)
Job(c) == Reserve(c) \/ StartJob(c) \/ NothingToClaim(c) \/ EndLoop(c) \/ Check(c)
Claim(e) == ClaimSkipLocked(e) \/ FindOldest(e)
Claiming(e) == LockTask(e) \/ Reread(e)
Work(e) == StartWork(e) \/ BeginResult(e) \/ ResultRefused(e)
Statement(p) == AddLook(p) \/ AddWrite(p) \/ Write(p)

Stopped == (\A p \in Procs : pc[p] \in {"away", "idle", "done"}) /\ UNCHANGED vars

Next ==
  \/ \E t \in Tasks : Request(t) \/ Delete(t)
  \/ \E c \in Crons : Job(c)
  \/ \E i \in JobIds : Expire(i)
  \/ \E e \in Executors : Claim(e) \/ Claiming(e)
  \/ \E e \in Executors \cup Direct : Work(e) \/ BeginReport(e)
  \/ \E k \in Clients, t \in Tasks : Cancel(k, t)
  \/ \E p \in Procs : Statement(p) \/ Crash(p)
  \/ Stopped

(***************************************************************************)
(* Fairness: who has begun goes on; runners come back to the job list and  *)
(* external apps for tasks, workers need not.  A provider ends in finite   *)
(* time: it may report for a while, so its result is what has to come when *)
(* it can again and again.                                                 *)
(***************************************************************************)
Continue(p) ==
  \/ Statement(p)
  \/ p \in Tasks /\ Poll(p)
  \/ p \in Crons /\ Job(p)
  \/ p \in Crons \cup Apps /\ Claim(p)
  \/ p \in Executors /\ Claiming(p)

Fairness ==
  /\ \A p \in Procs : WF_vars(Continue(p))
  /\ \A e \in Executors \cup Direct : SF_vars(Work(e))

Spec == Init /\ [][Next]_vars /\ Fairness

-----------------------------------------------------------------------------
(***************************************************************************)
(* A task is claimed once at most, however executors, cancelling users,    *)
(* late writes and crashes interleave: no late write makes it SCHEDULED    *)
(* again, and no claim takes a task that has ended.  (A runTask request    *)
(* does not claim the task it processes.)                                  *)
(***************************************************************************)
ClaimedOnce == \A t \in Tasks : claims[t] <= 1

\* A run that has still to look at type y, if only when it is over.
WillLook(c, y) ==
  \/ pc[c] \in {"reserved", "claiming", "locking", "rereading", "claimed", "working",
                "report", "result", "error", "add", "insert", "reset",
                "readd", "reinsert", "rereset"}
  \/ pc[c] = "checking" /\ y \in todo[c]

(***************************************************************************)
(* No scheduled task is forgotten: as long as nobody was cut short, while  *)
(* a task of a synchronous provider waits, its request has still to list   *)
(* the job or to process the task itself, or the job is listed, or a run   *)
(* of it has still to look.  The list drops the job before the run and an  *)
(* add in two statements may find the row and miss it.                     *)
(***************************************************************************)
JobListed ==
  lost \/ \A t \in Scheduled(Sync) :
            \/ pc[t] # "done"
            \/ Listed # {}
            \/ \E c \in Crons : WillLook(c, TypeOf[t])

\* Somebody is going to write a status whatever the row says by then.
Undecided(t) ==
  \E p \in Procs :
    task[p] = t /\ pc[p] \in {"rereading", "claimed", "report", "result", "error", "cancel"}

AtWork(t) == \E e \in Procs : task[e] = t /\ pc[e] = "working"

Settled(t) ==
  /\ ~ Undecided(t)
  /\ status[t] = "CANCELLED" \/ (status[t] \in {"SUCCESSFUL", "FAILED"} /\ ~ AtWork(t))

(***************************************************************************)
(* The end of a task is its end.  A cancelled task stays cancelled, though *)
(* its provider goes on, reports and delivers, and a task that nobody      *)
(* works on any more keeps its result whoever comes to cancel or to claim  *)
(* it; all that can still be done is to delete it.  Only somebody who has  *)
(* decided before the end may write after it, so nobody decides later.     *)
(***************************************************************************)
EndIsFinal ==
  [][\A t \in Tasks :
       Settled(t) => status'[t] = "none" \/ (status'[t] = status[t] /\ Settled(t)')]_vars

(***************************************************************************)
(* Every task ends for good, unless a process was cut short: it does not   *)
(* wait for ever for a run of the job, nor is it left RUNNING by whoever   *)
(* wrote last.  So runTask, which polls, returns.                          *)
(***************************************************************************)
EveryTaskEnds == \A t \in Tasks : <>[](lost \/ (~ Open(t) /\ pc[t] \in {"away", "new", "done"}))
=============================================================================
