------------------------------ MODULE JobList -------------------------------
(***************************************************************************)
(* The background job list (lib/private/BackgroundJob/JobList.php) and the *)
(* processes that work it off: cron runs (core/Service/CronService.php)    *)
(* and job workers (core/Command/Background/JobWorker.php).                *)
(*                                                                         *)
(* The list is one row of oc_jobs per job.  A runner asks getNext for the  *)
(* job checked longest ago, reserves it with an UPDATE that compares what  *)
(* it has read, runs it (Job::start, TimedJob::start, QueuedJob::start),   *)
(* and removes the reservation.  Every SQL statement is a step.  A web     *)
(* cron call is a cron run that stops after one job; the filters of        *)
(* getNext (time-sensitive jobs, job classes) only shrink the choice and   *)
(* are left out.  Apps add and remove queued jobs at any time.             *)
(***************************************************************************)
EXTENDS Integers, FiniteSets

CONSTANTS
  Procs,        \* runners
  Workers,      \* those that are job workers; the others are cron runs
  Adders,       \* processes in which apps add queued jobs
  Timed,        \* rows of TimedJobs, always listed
  Queued,       \* rows of QueuedJobs, each inserted once at most
  Unbuildable,  \* rows of jobs whose app is disabled
  KeyOf,        \* KeyOf[i]: class and argument of a queued row
  ClassOf,      \* ClassOf[i]: the class of a row
  NoParallel,   \* the classes that do not allow parallel runs
  Interval,     \* the interval of a TimedJob
  BlockFor,     \* 6 h: how long a reservation blocks its class
  ReserveFor,   \* 12 h: after which a reservation counts no more
  RecheckCap,   \* 48 h: the longest time a job is not looked at
  Env,          \* liberties the runners take, see EnvKinds
  MaxAdds,      \* bound: calls of add
  MaxTime       \* bound: the last instant of the clock

(***************************************************************************)
(*  "slow"   a job runs as long as its interval (queued: as ReserveFor)    *)
(*  "stall"  time passes, or a run of the same job ends, between the       *)
(*           statements of getNext, or time between getNext and start      *)
(*  "late"   time passes between a run and the statement that gives the    *)
(*           job back                                                      *)
(***************************************************************************)
EnvKinds == {"slow", "stall", "late"}

Ids == Timed \cup Queued \cup Unbuildable
Keys == {KeyOf[i] : i \in Queued}

ASSUME EnvAssumption == Env \subseteq EnvKinds
ASSUME WorkersAssumption == Workers \subseteq Procs
ASSUME KindsAssumption ==
  Timed \cap Queued = {} /\ Unbuildable \cap (Timed \cup Queued) = {}
ASSUME NoneAssumption == "none" \notin Ids
ASSUME FiniteAssumption == IsFiniteSet(Procs)
ASSUME TimesAssumption ==
  /\ Interval \in Nat \ {0} /\ BlockFor \in Nat \ {0} /\ RecheckCap \in Nat \ {0}
  /\ ReserveFor \in Nat /\ MaxTime \in Nat
  /\ BlockFor < ReserveFor /\ Interval < ReserveFor /\ ReserveFor < MaxTime

VARIABLES
  row,        \* row[i]: the row of oc_jobs, or NoRow
  used,       \* the queued rows inserted so far: ids are not reused
  now,        \* the clock
  pc,         \* pc[p]: the next statement of runner p
  read,       \* read[p]: the row getNext has read, with its id
  job,        \* job[p]: p's currentJob: the id, its lastRun, when it was reserved
  executed,   \* executed[p]: the jobs this cron run has executed
  visited,    \* visited[p][c]: alreadyVisitedParallelBlocked
  adding,     \* adding[a]: the add call that a is in, after its look-up
  adds,       \* history: add calls made, per key of queued jobs
  writes,     \* history: how often add has written a queued row
  runs,       \* history: runs begun of a queued row
  owed,       \* history: keys with an add call since the last run began
  orphaned    \* history: rows that a killed runner left reserved

list == <<row, used>>
history == <<adds, writes, runs, owed, orphaned>>
runner == <<pc, read, job, executed, visited>>
vars == <<list, now, runner, adding, history>>

NoRow == [reserved |-> -1, checked |-> -1, last |-> -1]
Listed(i) == row[i] # NoRow
NewRow(firstCheck) == [reserved |-> 0, checked |-> firstCheck, last |-> 0]

NoRead == [id |-> "none"]
NoJob == [id |-> "none"]
NotAdding == [key |-> "none"]

Start == ReserveFor + 1    \* the clock starts later than "never", which is 0
Times == 0 .. MaxTime + ReserveFor + RecheckCap

Labels == {"idle", "next", "blocked?", "skip", "reserve", "reset", "repeat",
           "start", "running", "finish", "unlock"}

TypeOK ==
  /\ row \in [Ids -> {NoRow} \cup [reserved : Times, checked : Times, last : Times]]
  /\ used \subseteq Queued
  /\ now \in Start..MaxTime
  /\ pc \in [Procs -> Labels]
  /\ \A p \in Procs : read[p] = NoRead \/ read[p].id \in Ids
  /\ \A p \in Procs : job[p] = NoJob \/ job[p].id \in Timed \cup Queued
  /\ executed \in [Procs -> SUBSET Ids]
  /\ visited \in [Procs -> [NoParallel -> Ids \cup {"none"}]]
  /\ \A a \in Adders : adding[a] = NotAdding \/ adding[a].key \in Keys
  /\ owed \subseteq Keys
  /\ orphaned \subseteq Ids

NothingVisited == [c \in NoParallel |-> "none"]

\* The jobs of the disabled app have just been put off.
Init ==
  /\ row = [i \in Ids |-> IF i \in Queued THEN NoRow
                           ELSE NewRow(IF i \in Timed THEN Start ELSE Start + ReserveFor)]
  /\ used = {}
  /\ now = Start
  /\ pc = [p \in Procs |-> "idle"]
  /\ read = [p \in Procs |-> NoRead]
  /\ job = [p \in Procs |-> NoJob]
  /\ executed = [p \in Procs |-> {}]
  /\ visited = [p \in Procs |-> NothingVisited]
  /\ adding = [a \in Adders |-> NotAdding]
  /\ adds = [k \in Keys |-> 0]
  /\ writes = [i \in Queued |-> 0]
  /\ runs = [i \in Queued |-> 0]
  /\ owed = {}
  /\ orphaned = {}

-----------------------------------------------------------------------------
\* Mutant: setting a column of a row that is gone creates the row.
Upsert(i, new) == row' = [row EXCEPT ![i] = new]

(***************************************************************************)
(* Statements on the table.  An UPDATE of a row that is gone does nothing. *)
(***************************************************************************)
Update(i, new) == row' = [row EXCEPT ![i] = IF Listed(i) THEN new ELSE NoRow]

SetChecked(i, t) == Update(i, [row[i] EXCEPT !.checked = t])
Unreserve(i) == Update(i, [row[i] EXCEPT !.reserved = 0])

Go(p, l) == pc' = [pc EXCEPT ![p] = l]

ForgetRead(p) == read' = [read EXCEPT ![p] = NoRead]

\* The runner's process ends.
End(p) ==
  /\ pc' = [pc EXCEPT ![p] = "idle"]
  /\ read' = [read EXCEPT ![p] = NoRead]
  /\ job' = [job EXCEPT ![p] = NoJob]
  /\ executed' = [executed EXCEPT ![p] = {}]
  /\ visited' = [visited EXCEPT ![p] = NothingVisited]

-----------------------------------------------------------------------------
(***************************************************************************)
(* getNext                                                                 *)
(***************************************************************************)
Due(i) == Listed(i) /\ row[i].reserved <= now - ReserveFor /\ row[i].checked <= now

MustCheckClass(i) == i \notin Unbuildable /\ ClassOf[i] \in NoParallel

\* The SELECT, also the first one of a new process.  Without a row getNext
\* returns null: cron ends, a worker waits.
Select(p) ==
  /\ pc[p] \in {"idle", "next"}
  /\ \/ /\ \E i \in Ids :
             /\ Due(i)
             /\ \A j \in Ids : Due(j) => row[i].checked <= row[j].checked
             /\ read' = [read EXCEPT ![p] =
                        [id |-> i, reserved |-> row[i].reserved,
                         checked |-> row[i].checked, last |-> row[i].last]]
             /\ Go(p, IF MustCheckClass(i) THEN "blocked?" ELSE "reserve")
        /\ UNCHANGED <<job, executed, visited>>
     \/ /\ \A i \in Ids : ~Due(i)
        /\ IF p \in Workers THEN UNCHANGED runner ELSE End(p)
  /\ UNCHANGED <<list, now, adding, history>>

HasReservedJob(c) ==
  \E i \in Ids : Listed(i) /\ ClassOf[i] = c /\ row[i].reserved > now - BlockFor

\* A blocked job is put off, and the second time round getNext gives up.
CheckClass(p) ==
  /\ pc[p] = "blocked?"
  /\ LET i == read[p].id
         c == ClassOf[i]
     IN IF ~HasReservedJob(c)
          THEN /\ visited' = [visited EXCEPT ![p][c] = "none"]
               /\ Go(p, "reserve")
               /\ UNCHANGED <<read, job, executed>>
          ELSE IF visited[p][c] # i
          THEN /\ visited' = [visited EXCEPT ![p][c] = IF @ = "none" THEN i ELSE @]
               /\ Go(p, "skip")
               /\ UNCHANGED <<read, job, executed>>
          ELSE IF p \in Workers
          THEN Go(p, "next") /\ ForgetRead(p) /\ UNCHANGED <<job, executed, visited>>
          ELSE End(p)
  /\ UNCHANGED <<list, now, adding, history>>

Skip(p) ==
  /\ pc[p] = "skip"
  /\ SetChecked(read[p].id, now + 1)
  /\ Go(p, "next")
  /\ ForgetRead(p)
  /\ UNCHANGED <<used, now, job, executed, visited, adding, history>>

NextPossibleRun(p) == read[p].last + Interval

\* A TimedJob before its time is put off.
Defer(p) ==
  /\ pc[p] = "reserve"
  /\ read[p].id \in Timed
  /\ now < NextPossibleRun(p)
  /\ SetChecked(read[p].id,
       IF NextPossibleRun(p) < now + RecheckCap THEN NextPossibleRun(p) ELSE now + RecheckCap)
  /\ Go(p, "next")
  /\ ForgetRead(p)
  /\ UNCHANGED <<used, now, job, executed, visited, adding, history>>

\* Mutant: the UPDATE does not compare.
UntouchedAlways(p) == Listed(read[p].id)

\* Is the row as p has read it?
Untouched(p) ==
  LET i == read[p].id
  IN /\ row[i].reserved = read[p].reserved
     /\ row[i].checked = read[p].checked

\* The UPDATE that decides; "try again" when it changed nothing.
Reserve(p) ==
  /\ pc[p] = "reserve"
  /\ LET i == read[p].id
     IN /\ i \in Timed => now >= NextPossibleRun(p)
        /\ IF ~Untouched(p)
             THEN Go(p, "next") /\ ForgetRead(p) /\ UNCHANGED <<row, job, orphaned>>
             ELSE /\ row' = [row EXCEPT ![i].reserved = now, ![i].checked = now]
                  /\ orphaned' = orphaned \ {i}
                  /\ IF i \in Unbuildable
                       THEN Go(p, "reset") /\ UNCHANGED <<read, job>>
                       ELSE /\ job' = [job EXCEPT ![p] =
                                         [id |-> i, last |-> read[p].last, at |-> now]]
                            /\ ForgetRead(p)
                            /\ Go(p, IF i \in executed[p] THEN "repeat" ELSE "start")
  /\ UNCHANGED <<used, now, executed, visited, adding, adds, writes, runs, owed>>

\* A job that cannot be built is not looked at for twelve hours.
ResetUnbuildable(p) ==
  /\ pc[p] = "reset"
  /\ Update(read[p].id,
       [row[read[p].id] EXCEPT !.reserved = 0, !.checked = now + ReserveFor])
  /\ Go(p, "next")
  /\ ForgetRead(p)
  /\ UNCHANGED <<used, now, job, executed, visited, adding, history>>

-----------------------------------------------------------------------------
(***************************************************************************)
(* Running the job                                                         *)
(***************************************************************************)

\* A cron run that gets a job for the second time gives it back and ends.
Repeat(p) ==
  /\ pc[p] = "repeat"
  /\ Unreserve(job[p].id)
  /\ End(p)
  /\ UNCHANGED <<used, now, adding, history>>

\* Mutant: a QueuedJob is removed when it has run.
StartQueuedKeepsRow(p) ==
  /\ pc[p] = "start"
  /\ job[p].id \in Queued
  /\ runs' = [runs EXCEPT ![job[p].id] = @ + 1]
  /\ owed' = owed \ {KeyOf[job[p].id]}
  /\ Go(p, "running")
  /\ UNCHANGED <<list, now, read, job, executed, visited, adding, adds, writes, orphaned>>

\* QueuedJob::start: removeById, and then the run begins.
StartQueued(p) ==
  /\ pc[p] = "start"
  /\ job[p].id \in Queued
  /\ row' = [row EXCEPT ![job[p].id] = NoRow]
  /\ runs' = [runs EXCEPT ![job[p].id] = @ + 1]
  /\ owed' = owed \ {KeyOf[job[p].id]}
  /\ orphaned' = orphaned \ {job[p].id}
  /\ Go(p, "running")
  /\ UNCHANGED <<used, now, read, job, executed, visited, adding, adds, writes>>

\* Mutant: TimedJob::start relies on getNext for the interval.
StartTimedUnchecked(p) ==
  /\ pc[p] = "start"
  /\ job[p].id \in Timed
  /\ Update(job[p].id, [row[job[p].id] EXCEPT !.last = now])
  /\ Go(p, "running")
  /\ UNCHANGED <<used, now, read, job, executed, visited, adding, history>>

\* TimedJob::start: not before the interval is over, by the lastRun that
\* getNext has read; setLastRun, and the run begins.
StartTimed(p) ==
  /\ pc[p] = "start"
  /\ job[p].id \in Timed
  /\ IF now - job[p].last > Interval
       THEN /\ Update(job[p].id, [row[job[p].id] EXCEPT !.last = now])
            /\ Go(p, "running")
       ELSE UNCHANGED row /\ Go(p, "finish")
  /\ UNCHANGED <<used, now, read, job, executed, visited, adding, history>>

\* No other runner is in getNext with an old copy of p's row.
NobodyReads(p) ==
  "stall" \in Env \/
    \A q \in Procs : pc[q] \in {"blocked?", "reserve"} => read[q].id # job[p].id

\* Mutant: at its end a QueuedJob is removed by class and argument.
EndRunRemoves(p) ==
  /\ pc[p] = "running"
  /\ NobodyReads(p)
  /\ row' = [i \in Ids |->
       IF {i, job[p].id} \subseteq Queued /\ KeyOf[i] = KeyOf[job[p].id] THEN NoRow ELSE row[i]]
  /\ Go(p, "finish")
  /\ UNCHANGED <<used, now, read, job, executed, visited, adding, history>>

\* The run ends: setExecutionTime, or an exception, which is only logged.
EndRun(p) ==
  /\ pc[p] = "running"
  /\ NobodyReads(p)
  /\ Unreserve(job[p].id) \/ UNCHANGED row
  /\ Go(p, "finish")
  /\ UNCHANGED <<used, now, read, job, executed, visited, adding, history>>

\* Mutant: setLastJob leaves the reservation alone.
FinishKeepsReservation(p) ==
  /\ pc[p] = "finish"
  /\ NobodyReads(p)
  /\ p \notin Workers
  /\ executed' = [executed EXCEPT ![p] = @ \cup {job[p].id}]
  /\ job' = [job EXCEPT ![p] = NoJob]
  /\ Go(p, "next")
  /\ UNCHANGED <<row, used, now, read, visited, adding, history>>

\* setLastJob, that is unlockJob.  Cron remembers the job, and asks for another
\* one unless its time is over.
Finish(p) ==
  /\ pc[p] = "finish"
  /\ NobodyReads(p)
  /\ Unreserve(job[p].id)
  /\ IF p \in Workers
       THEN Go(p, "unlock") /\ UNCHANGED <<read, job, executed, visited>>
       ELSE \/ End(p)
            \/ /\ executed' = [executed EXCEPT ![p] = @ \cup {job[p].id}]
               /\ job' = [job EXCEPT ![p] = NoJob]
               /\ Go(p, "next")
               /\ UNCHANGED <<read, visited>>
  /\ UNCHANGED <<used, now, adding, history>>

\* A worker calls unlockJob once more, then stops or goes on.
UnlockAgain(p) ==
  /\ pc[p] = "unlock"
  /\ Unreserve(job[p].id)
  /\ \/ End(p)
     \/ /\ job' = [job EXCEPT ![p] = NoJob]
        /\ Go(p, "next")
        /\ UNCHANGED <<read, executed, visited>>
  /\ UNCHANGED <<used, now, adding, history>>

\* A waiting worker is stopped.
StopWorker(p) ==
  /\ p \in Workers
  /\ pc[p] = "next"
  /\ End(p)
  /\ UNCHANGED <<list, now, adding, history>>

\* Command-line cron dies of a fatal error in a job: its shutdown function
\* gives the job back.
Fatal(p) ==
  /\ p \notin Workers
  /\ pc[p] \in {"start", "running", "finish"}
  /\ NobodyReads(p)
  /\ Unreserve(job[p].id)
  /\ End(p)
  /\ UNCHANGED <<used, now, adding, history>>

\* The process is killed.
Kill(p) ==
  /\ pc[p] # "idle"
  /\ LET left == IF pc[p] \in {"repeat", "start", "running", "finish"} THEN {job[p].id}
                 ELSE IF pc[p] = "reset" THEN {read[p].id} ELSE {}
     IN orphaned' = orphaned \cup {i \in left : row[i].reserved > 0}
  /\ End(p)
  /\ UNCHANGED <<list, now, adding, adds, writes, runs, owed>>

-----------------------------------------------------------------------------
(***************************************************************************)
(* What apps do with queued jobs                                           *)
(***************************************************************************)
Has(k) == \E i \in Queued : Listed(i) /\ KeyOf[i] = k

\* add, and scheduleAfter: has first, ...
BeginAdd(a, k) ==
  /\ adding[a] = NotAdding
  /\ adds[k] < MaxAdds
  /\ adding' = [adding EXCEPT ![a] = [key |-> k, found |-> Has(k)]]
  /\ adds' = [adds EXCEPT ![k] = @ + 1]
  /\ owed' = owed \cup {k}
  /\ UNCHANGED <<list, now, runner, writes, runs, orphaned>>

\* ... then the INSERT of a new row or the UPDATE of the old ones.
EndAdd(a) ==
  /\ adding[a] # NotAdding
  /\ \E firstCheck \in {now, now + 1} :
       IF adding[a].found
         THEN /\ row' = [i \in Ids |->
                   IF i \in Queued /\ Listed(i) /\ KeyOf[i] = adding[a].key
                     THEN NewRow(firstCheck) ELSE row[i]]
              /\ writes' = [i \in Queued |->
                   IF Listed(i) /\ KeyOf[i] = adding[a].key THEN writes[i] + 1 ELSE writes[i]]
              /\ UNCHANGED used
         ELSE \E i \in Queued \ used :
                /\ KeyOf[i] = adding[a].key
                /\ row' = [row EXCEPT ![i] = NewRow(firstCheck)]
                /\ writes' = [writes EXCEPT ![i] = @ + 1]
                /\ used' = used \cup {i}
  /\ adding' = [adding EXCEPT ![a] = NotAdding]
  /\ orphaned' = {i \in orphaned : row'[i].reserved > 0}
  /\ UNCHANGED <<now, runner, adds, runs, owed>>

\* remove(class, argument)
Remove(k) ==
  /\ Has(k)
  /\ row' = [i \in Ids |-> IF i \in Queued /\ KeyOf[i] = k THEN NoRow ELSE row[i]]
  /\ owed' = owed \ {k}
  /\ orphaned' = {i \in orphaned : row'[i].reserved > 0}
  /\ UNCHANGED <<used, now, runner, adding, adds, writes, runs>>

(***************************************************************************)
(* Time.  Unless "slow", a runner is done with a TimedJob before the       *)
(* interval is over, and with any job within twelve hours; unless "stall", *)
(* getNext takes no time, nor what follows up to start.                    *)
(***************************************************************************)
Limit(p) == IF job[p].id \in Timed THEN Interval ELSE ReserveFor

InTime(p) ==
  /\ "stall" \notin Env => pc[p] \in {"idle", "next", "running", "finish", "unlock"}
  /\ "late" \notin Env => pc[p] \notin {"finish", "unlock"}
  /\ "slow" \notin Env /\ job[p] # NoJob => now + 1 < job[p].at + Limit(p)

Tick ==
  /\ now < MaxTime
  /\ \A p \in Procs : InTime(p)
  /\ now' = now + 1
  /\ UNCHANGED <<list, runner, adding, history>>

RunnerStep(p) ==
  \/ StopWorker(p)
  \/ Select(p) \/ CheckClass(p) \/ Skip(p) \/ Defer(p) \/ Reserve(p)
  \/ ResetUnbuildable(p)
  \/ Repeat(p) \/ StartQueued(p) \/ StartTimed(p) \/ EndRun(p)
  \/ Finish(p) \/ UnlockAgain(p)

Next ==
  \/ Tick
  \/ \E p \in Procs : RunnerStep(p) \/ Fatal(p) \/ Kill(p)
  \/ \E a \in Adders : EndAdd(a) \/ \E k \in Keys : BeginAdd(a, k)
  \/ \E k \in Keys : Remove(k)

Spec == Init /\ [][Next]_vars

-----------------------------------------------------------------------------
Running(p, i) == pc[p] = "running" /\ job[p].id = i

(***************************************************************************)
(* What a reservation is for: no TimedJob is run by two runners at a time. *)
(* It takes the compare in the UPDATE of getNext, the order of             *)
(* setExecutionTime, setLastJob and unlockJob, none of which looks at who  *)
(* has reserved the row, and the interval.                                 *)
(***************************************************************************)
OneRunner ==
  \A i \in Timed : \A p, q \in Procs : Running(p, i) /\ Running(q, i) => p = q

(***************************************************************************)
(* No job stays reserved after its run, whether it succeeded, failed, was  *)
(* not due or was handed out twice: a reserved row has a runner that will  *)
(* give it back, or one that was killed.                                   *)
(***************************************************************************)
NoStrayReservation ==
  \A i \in Ids : Listed(i) /\ row[i].reserved > 0 =>
    \/ i \in orphaned
    \/ \E p \in Procs :
         \/ pc[p] \in {"repeat", "start", "running", "finish"} /\ job[p].id = i
         \/ pc[p] = "reset" /\ read[p].id = i

(***************************************************************************)
(* No queued job is lost: after add has returned, the job is listed or a   *)
(* run of it has begun since add was called, also when add found the row   *)
(* of a job that was just being started.                                   *)
(***************************************************************************)
AddNotLost ==
  \A k \in owed : Has(k) \/ \E a \in Adders : adding[a] # NotAdding /\ adding[a].key = k

(***************************************************************************)
(* IJobList.php:24: "a QueuedJob will only run once": a row is run as often *)
(* as add has written it at most, with add calls between the reservation   *)
(* and the run, several runners with copies of the row, and runners that   *)
(* are killed. (An add that finds the job writes all its rows, of which    *)
(* two add calls at once may have inserted one each: a job may be run more *)
(* often than it was added.)                                               *)
(***************************************************************************)
OneRunPerWrite == \A i \in Queued : runs[i] <= writes[i]

(***************************************************************************)
(* IJobList.php:25: "a TimedJob will only run at a specific interval": a   *)
(* run begins only when the last one, whoever began it, began more than    *)
(* the interval ago (TimedJob.php:77).                                     *)
(***************************************************************************)
IntervalRespected ==
  [][\A p \in Procs, i \in Timed :
       pc[p] = "start" /\ job[p].id = i /\ pc'[p] = "running"
         => now - row[i].last > Interval]_vars

(***************************************************************************)
(* IParallelAwareJob.php:16: "Set this to false to prevent two Jobs from   *)
(* the same class from running in parallel".                               *)
(***************************************************************************)
NoParallelRuns ==
  \A p, q \in Procs :
    p # q /\ pc[p] = "running" /\ pc[q] = "running" /\ ClassOf[job[p].id] \in NoParallel
      => ClassOf[job[p].id] # ClassOf[job[q].id]
=============================================================================
