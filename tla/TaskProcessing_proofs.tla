----------------------- MODULE TaskProcessing_proofs ------------------------
(***************************************************************************)
(* Proofs about task processing, for any numbers of requests, executors,   *)
(* users and task types, any installation, with and without kills: typing, *)
(* that a task is claimed once at most, that the end of a task is its end, *)
(* and that no scheduled task is forgotten.                                *)
(***************************************************************************)
EXTENDS TaskProcessing, FiniteSetTheorems, TLAPS

(***************************************************************************)
(* The sets of processes, as the proofs need them.                         *)
(***************************************************************************)
LEMMA ProcsApart ==
  /\ Tasks \subseteq Procs /\ Executors \subseteq Procs /\ Clients \subseteq Procs
  /\ Crons \subseteq Executors /\ Apps \subseteq Executors /\ Workers \subseteq Executors
  /\ Direct \subseteq Tasks /\ Queued \subseteq Tasks
  /\ Tasks \cap Executors = {} /\ Crons \cap Apps = {} /\ Workers \cap Apps = {}
  /\ Clients \cap (Tasks \cup Executors) = {}
BY DistinctAssumption DEF Procs, Executors, Tasks

(***************************************************************************)
(* Every statement keeps the state well typed; a process has a task        *)
(* exactly while it is at one.                                             *)
(***************************************************************************)
LEMMA TypingStep == TypeOK /\ [Next]_vars => TypeOK'
<1> SUFFICES ASSUME TypeOK, [Next]_vars PROVE TypeOK'
  OBVIOUS
<1> USE ProcsApart, NoTaskAssumption DEF TypeOK, row, Go, Copy, Forget, AtTask, Labels,
   Statuses
<1>1. ASSUME NEW t \in Tasks, Store(t) PROVE TypeOK'
  <2>1. AfterStore(t) \in {"add", "claimed", "done", "polling"}
    BY DEF AfterStore, IsSync, Tasks
  <2>2. task[t] = NoTask
    BY <1>1 DEF Store
  <2> QED
    BY <1>1, <2>1, <2>2 DEF Store
<1>2. ASSUME NEW t \in Tasks, Poll(t) PROVE TypeOK'
  BY <1>2 DEF Poll
<1>3. ASSUME NEW t \in Tasks, Delete(t) PROVE TypeOK'
  BY <1>3 DEF Delete
<1>4. ASSUME NEW c \in Crons, Reserve(c) PROVE TypeOK'
  BY <1>4 DEF Reserve
<1>5. ASSUME NEW c \in Crons, StartJob(c) PROVE TypeOK'
  BY <1>5 DEF StartJob
<1>6. ASSUME NEW c \in Crons, NothingToClaim(c) PROVE TypeOK'
  BY <1>6 DEF NothingToClaim
<1>7. ASSUME NEW c \in Crons, EndLoop(c) PROVE TypeOK'
  BY <1>7 DEF EndLoop
<1>8. ASSUME NEW c \in Crons, Check(c) PROVE TypeOK'
  BY <1>8 DEF Check
<1>9. ASSUME NEW i \in JobIds, Expire(i) PROVE TypeOK'
  BY <1>9 DEF Expire
<1>10. ASSUME NEW e \in Executors, ClaimSkipLocked(e) PROVE TypeOK'
  <2>1. PICK t \in Claimable(e) : Lock(t) /\ Crossed(e, t) /\ Taken(e, t)
    BY <1>10 DEF ClaimSkipLocked
  <2>2. t \in Tasks
    BY <2>1 DEF Claimable, Scheduled, Executors
  <2>3. claims' \in [Tasks -> 0..2] /\ status' \in [Tasks -> Statuses]
    BY <2>1, <2>2 DEF Lock
  <2>4. todo' \in [Crons -> SUBSET Sync]
    BY <2>1 DEF Crossed
  <2> QED
    BY <1>10, <2>1, <2>2, <2>3, <2>4 DEF ClaimSkipLocked, Taken
<1>11. ASSUME NEW e \in Executors, FindOldest(e) PROVE TypeOK'
  <2>1. PICK t \in Claimable(e) : Copy(e, t, "none")
    BY <1>11 DEF FindOldest
  <2>2. t \in Tasks
    BY <2>1 DEF Claimable, Scheduled, Executors
  <2> QED
    BY <1>11, <2>1, <2>2 DEF FindOldest
<1>12. ASSUME NEW e \in Executors, LockTask(e) PROVE TypeOK'
  <2>1. task[e] \in Tasks
    BY <1>12 DEF LockTask
  <2>2. CASE MayLock(task[e])
    <3>1. claims' \in [Tasks -> 0..2] /\ status' \in [Tasks -> Statuses]
      BY <1>12, <2>1, <2>2 DEF Lock, LockTask
    <3>2. todo' \in [Crons -> SUBSET Sync]
      BY <1>12, <2>2 DEF Crossed, LockTask
    <3> QED
      BY <1>12, <2>2, <3>1, <3>2 DEF LockTask
  <2>3. CASE ~ MayLock(task[e])
    BY <1>12, <2>3 DEF LockTask
  <2> QED
    BY <2>2, <2>3
<1>13. ASSUME NEW e \in Executors, Reread(e) PROVE TypeOK'
  <2>1. task[e] \in Tasks
    BY <1>13 DEF Reread
  <2>2. todo' \in [Crons -> SUBSET Sync]
    BY <1>13 DEF Reread
  <2>. lost' \in BOOLEAN
    BY <1>13, Zenon DEF Reread
  <2>3. CASE status[task[e]] # "none"
    <3>1. PICK l \in {"working", "claimed"} : pc' = [pc EXCEPT ![e] = l]
      BY <1>13, <2>3 DEF Reread, Taken
    <3>2. task' = [task EXCEPT ![e] = task[e]] /\ copy' = [copy EXCEPT ![e] = "RUNNING"]
      BY <1>13, <2>3 DEF Reread, Taken
    <3>3. UNCHANGED <<site, row, jobs, held>>
      BY <1>13 DEF Reread
    <3> QED
      BY <1>13, <2>1, <2>2, <3>1, <3>2, <3>3
  <2>4. CASE status[task[e]] = "none"
    BY <1>13, <2>2, <2>4 DEF Reread
  <2> QED
    BY <2>3, <2>4
<1>14. ASSUME NEW e \in Executors \cup Direct, StartWork(e) PROVE TypeOK'
  BY <1>14 DEF StartWork, Update
<1>15. ASSUME NEW e \in Executors \cup Direct, BeginResult(e) PROVE TypeOK'
  BY <1>15 DEF BeginResult
<1>16. ASSUME NEW e \in Executors \cup Direct, ResultRefused(e) PROVE TypeOK'
  BY <1>16 DEF ResultRefused, AfterWork, Rest
<1>17. ASSUME NEW e \in Executors \cup Direct, BeginReport(e) PROVE TypeOK'
  BY <1>17 DEF BeginReport
<1>18. ASSUME NEW k \in Clients, NEW t \in Tasks, Cancel(k, t) PROVE TypeOK'
  BY <1>18 DEF Cancel
<1>19. ASSUME NEW p \in Procs, AddLook(p) PROVE TypeOK'
  BY <1>19 DEF AddLook
<1>20. ASSUME NEW p \in Procs, AddWrite(p) PROVE TypeOK'
  <2>1. AfterAdd(p) \in {"claiming", "done", "idle"}
    BY DEF AfterAdd, Rest
  <2>2. jobs' \in [JobIds -> {"none", "free", "reserved"}]
    BY <1>20 DEF AddWrite
  <2> QED
    BY <1>20, <2>1, <2>2 DEF AddWrite
<1>21. ASSUME NEW p \in Procs, Write(p) PROVE TypeOK'
  <2>1. task[p] \in Tasks
    BY <1>21 DEF Write
  <2>2. status' \in [Tasks -> Statuses]
    BY <1>21, <2>1 DEF Write, Update
  <2>4. CASE pc[p] = "report"
    BY <1>21, <2>1, <2>2, <2>4 DEF Write
  <2>5. CASE pc[p] # "report"
    <3>1. AfterWork(p, pc[p] # "error") \in {"claiming", "add", "done", "idle"}
      BY DEF AfterWork, Rest
    <3>2. PICK l \in {"claiming", "add", "done", "idle"} : pc' = [pc EXCEPT ![p] = l]
      BY <1>21, <2>5, <3>1 DEF Write
    <3>3. /\ task' = [task EXCEPT ![p] = NoTask] /\ copy' = [copy EXCEPT ![p] = "none"]
          /\ UNCHANGED <<site, jobs, held, todo, claims, lost>>
      BY <1>21, <2>5 DEF Write
    <3> QED
      BY <2>2, <3>2, <3>3
  <2> QED
    BY <2>4, <2>5
<1>22. ASSUME NEW p \in Procs, Crash(p) PROVE TypeOK'
  BY <1>22 DEF Crash, Rest
<1>23. CASE UNCHANGED vars
  BY <1>23 DEF vars
<1> QED
  BY <1>1, <1>2, <1>3, <1>4, <1>5, <1>6, <1>7, <1>8, <1>9, <1>10, <1>11, <1>12,
     <1>13, <1>14, <1>15, <1>16, <1>17, <1>18, <1>19, <1>20, <1>21, <1>22, <1>23
  DEF Next, Request, Job, Claim, Claiming, Work, Statement, Stopped

\* Processes, rows, copies and the list stay well typed in every reachable
\* state: no call is at a task it has not read.
THEOREM TypeCorrect == Spec => []TypeOK
<1>1. Init => TypeOK
  <2> SUFFICES ASSUME Init PROVE TypeOK
    OBVIOUS
  <2>1. pc \in [Procs -> {"away", "new", "idle"}]
    BY DEF Init
  <2>2. task = [p \in Procs |-> NoTask]
    BY DEF Init
  <2>3. /\ site \in Sites /\ status = [t \in Tasks |-> "none"]
        /\ jobs = [i \in JobIds |-> "none"] /\ copy = [p \in Procs |-> "none"]
        /\ held = [c \in Crons |-> NoJob] /\ todo = [c \in Crons |-> {}]
        /\ claims = [t \in Tasks |-> 0] /\ lost = FALSE
    BY DEF Init
  <2>4. \A p \in Procs : task[p] # NoTask <=> pc[p] \in AtTask
    BY <2>1, <2>2 DEF AtTask
  <2>5. pc \in [Procs -> Labels]
    BY <2>1 DEF Labels
  <2>6. status \in [Tasks -> Statuses] /\ copy \in [Procs -> Statuses]
    BY <2>3 DEF Statuses
  <2>7. claims \in [Tasks -> 0..2]
    BY <2>3
  <2>8. jobs \in [JobIds -> {"none", "free", "reserved"}] /\ held \in [Crons -> JobIds \cup {NoJob}]
    BY <2>3
  <2> QED
    BY <2>2, <2>3, <2>4, <2>5, <2>6, <2>7, <2>8 DEF TypeOK
<1> QED
  BY <1>1, TypingStep, PTL DEF Spec

-----------------------------------------------------------------------------
(***************************************************************************)
(* Why a task is claimed once.  ClaimedOnce is not inductive: a claim      *)
(* looks at the status only, and statuses are written from copies.  What   *)
(* has to be added is that a task that waits has never been claimed, that  *)
(* nobody is about to write SCHEDULED, and for that (an external app may   *)
(* write back the status it has read) that who works on a task of an       *)
(* external app has claimed it.                                            *)
(***************************************************************************)
NewUntouched == \A t \in Tasks : pc[t] = "new" => status[t] = "none" /\ claims[t] = 0

WaitingUnclaimed == \A t \in Tasks : status[t] = "SCHEDULED" => claims[t] = 0

Writing == {"report", "result", "error", "cancel"}
CopiesEnd == \A p \in Procs : pc[p] \in Writing => copy[p] # "SCHEDULED"

AppsClaim ==
  \A e \in Apps : pc[e] \in {"rereading", "working"} \cup Writing => claims[task[e]] > 0

AppsNeverStart == \A e \in Apps : pc[e] # "claimed"

ClaimInv ==
  /\ NewUntouched /\ WaitingUnclaimed /\ CopiesEnd /\ AppsClaim /\ AppsNeverStart
  /\ ClaimedOnce

(***************************************************************************)
(* Why no task is forgotten.  A request that has found the job listed may  *)
(* come too late with its update, the row being gone; a run that is about  *)
(* to list itself likewise.  So neither may count as somebody who will see *)
(* to it, and still somebody does.  Requests are at their own task only.   *)
(***************************************************************************)
OwnTask ==
  \A t \in Tasks : /\ pc[t] \in AtTask => task[t] = t
                   /\ pc[t] \notin {"readd", "reinsert", "rereset"}

SurelyLooks(c, y) == WillLook(c, y) /\ pc[c] # "rereset"

SurelyListed ==
  lost \/ \A t \in Scheduled(Sync) :
            \/ pc[t] \notin {"reset", "done"}
            \/ Listed # {}
            \/ \E c \in Crons : SurelyLooks(c, TypeOf[t])

ListInv == OwnTask /\ SurelyListed

(***************************************************************************)
(* Every statement keeps it.                                               *)
(***************************************************************************)
LEMMA ClaimStep == TypeOK /\ ClaimInv /\ [Next]_vars => ClaimInv'
<1> SUFFICES ASSUME TypeOK, ClaimInv, [Next]_vars PROVE ClaimInv'
  OBVIOUS
<1> USE ProcsApart, NoTaskAssumption
    DEF TypeOK, ClaimInv, NewUntouched, WaitingUnclaimed, CopiesEnd, AppsClaim,
        AppsNeverStart, ClaimedOnce, Writing, row, Go, Copy, Forget
<1>1. ASSUME NEW t \in Tasks, Store(t) PROVE ClaimInv'
  <2>1. /\ AfterStore(t) \in {"add", "claimed", "done", "polling"}
        /\ pc[t] = "new" /\ UNCHANGED claims
        /\ pc' = [pc EXCEPT ![t] = AfterStore(t)]
        /\ status' = [status EXCEPT ![t] = "SCHEDULED"]
    BY <1>1 DEF Store, AfterStore, IsSync, Tasks
  <2>2. \A p \in Procs : p # t => task'[p] = task[p] /\ copy'[p] = copy[p]
    BY <1>1 DEF Store
  <2> QED
    BY <2>1, <2>2
<1>2. ASSUME NEW t \in Tasks, Poll(t) PROVE ClaimInv'
  BY <1>2 DEF Poll
<1>3. ASSUME NEW t \in Tasks, Delete(t) PROVE ClaimInv'
  BY <1>3 DEF Delete
<1>4. ASSUME NEW c \in Crons, Job(c) PROVE ClaimInv'
  <2>1. UNCHANGED <<status, claims, task, copy>>
    BY <1>4 DEF Job, Reserve, StartJob, NothingToClaim, EndLoop, Check
  <2>2. PICK l \in {"reserved", "claiming", "checking", "idle", "readd"} :
          pc' = [pc EXCEPT ![c] = l]
    <3>1. ASSUME Check(c)
          PROVE  \E l \in {"checking", "idle", "readd"} : pc' = [pc EXCEPT ![c] = l]
      BY <3>1 DEF Check
    <3>2. ASSUME NothingToClaim(c) PROVE pc' = [pc EXCEPT ![c] = "claiming"]
      BY <3>2 DEF NothingToClaim
    <3> QED
      BY <1>4, <3>1, <3>2 DEF Job, Reserve, StartJob, EndLoop
  <2> QED
    BY <2>1, <2>2
<1>5. ASSUME NEW i \in JobIds, Expire(i) PROVE ClaimInv'
  BY <1>5 DEF Expire
<1>6. ASSUME NEW e \in Executors, ClaimSkipLocked(e) PROVE ClaimInv'
  <2>1. PICK t \in Claimable(e) : Lock(t) /\ Crossed(e, t) /\ Taken(e, t)
    BY <1>6 DEF ClaimSkipLocked
  <2>2. t \in Tasks /\ status[t] = "SCHEDULED" /\ claims[t] = 0
    BY <2>1 DEF Claimable, Scheduled, Executors
  <2>3. claims' = [claims EXCEPT ![t] = 1] /\ status' = [status EXCEPT ![t] = "RUNNING"]
    BY ONLY <2>1, <2>2 DEF Lock
  <2> QED
    BY <2>1, <2>2, <2>3 DEF Taken
<1>7. ASSUME NEW e \in Executors, FindOldest(e) PROVE ClaimInv'
  BY <1>7 DEF FindOldest
<1>8. ASSUME NEW e \in Executors, LockTask(e) PROVE ClaimInv'
  <2>1. task[e] \in Tasks
    BY <1>8 DEF LockTask, AtTask
  <2>2. CASE MayLock(task[e])
    <3>1. /\ claims' = [claims EXCEPT ![task[e]] = 1]
          /\ status' = [status EXCEPT ![task[e]] = "RUNNING"]
      BY <1>8, <2>1, <2>2 DEF Lock, LockTask, MayLock
    <3> QED
      BY <1>8, <2>1, <2>2, <3>1 DEF LockTask, MayLock
  <2>3. CASE ~ MayLock(task[e])
    BY <1>8, <2>3 DEF LockTask
  <2> QED
    BY <2>2, <2>3
<1>9. ASSUME NEW e \in Executors, Reread(e) PROVE ClaimInv'
  <2>1. UNCHANGED <<status, claims>> /\ pc[e] = "rereading"
    BY <1>9 DEF Reread
  <2>2. CASE status[task[e]] # "none"
    BY <1>9, <2>1, <2>2 DEF Reread, Taken
  <2>3. CASE status[task[e]] = "none"
    BY <1>9, <2>1, <2>3 DEF Reread
  <2> QED
    BY <2>2, <2>3
<1>10. ASSUME NEW e \in Executors \cup Direct, StartWork(e) PROVE ClaimInv'
  <2>1. task[e] \in Tasks /\ e \notin Apps
    BY <1>10 DEF StartWork, AtTask
  <2> QED
    BY <1>10, <2>1 DEF StartWork, Update
<1>11. ASSUME NEW e \in Executors \cup Direct, BeginResult(e) PROVE ClaimInv'
  BY <1>11 DEF BeginResult
<1>12. ASSUME NEW e \in Executors \cup Direct, ResultRefused(e) PROVE ClaimInv'
  BY <1>12 DEF ResultRefused, AfterWork, Rest
<1>13. ASSUME NEW e \in Executors \cup Direct, BeginReport(e) PROVE ClaimInv'
  <2>1. task[e] \in Tasks
    BY <1>13 DEF BeginReport, AtTask
  <2>2. PICK s : /\ s = "RUNNING" \/ (e \in Apps /\ s = status[task[e]])
                 /\ copy' = [copy EXCEPT ![e] = s]
                 /\ task' = [task EXCEPT ![e] = task[e]]
    BY <1>13 DEF BeginReport
  <2>3. s # "SCHEDULED"
    BY <1>13, <2>1, <2>2 DEF BeginReport
  <2> QED
    BY <1>13, <2>2, <2>3 DEF BeginReport
<1>14. ASSUME NEW k \in Clients, NEW t \in Tasks, Cancel(k, t) PROVE ClaimInv'
  BY <1>14 DEF Cancel
<1>15. ASSUME NEW p \in Procs, AddLook(p) PROVE ClaimInv'
  BY <1>15 DEF AddLook
<1>16. ASSUME NEW p \in Procs, AddWrite(p) PROVE ClaimInv'
  <2>1. AfterAdd(p) \in {"claiming", "done", "idle"}
    BY DEF AfterAdd, Rest
  <2> QED
    BY <1>16, <2>1 DEF AddWrite
<1>17. ASSUME NEW p \in Procs, Write(p) PROVE ClaimInv'
  <2>1. task[p] \in Tasks /\ pc[p] \in Writing
    BY <1>17 DEF Write, AtTask
  <2>2. /\ \A t \in Tasks : status'[t] = "SCHEDULED" => status[t] = "SCHEDULED"
        /\ \A t \in Tasks : status[t] = "none" => status'[t] = "none"
        /\ UNCHANGED claims
    BY <1>17, <2>1 DEF Write, Update
  <2>3. CASE pc[p] = "report"
    BY <1>17, <2>1, <2>2, <2>3 DEF Write
  <2>4. CASE pc[p] # "report"
    <3>1. AfterWork(p, pc[p] # "error") \in {"claiming", "add", "done", "idle"}
      BY DEF AfterWork, Rest
    <3>2. PICK l \in {"claiming", "add", "done", "idle"} : pc' = [pc EXCEPT ![p] = l]
      BY <1>17, <2>4, <3>1 DEF Write
    <3>3. task' = [task EXCEPT ![p] = NoTask] /\ copy' = [copy EXCEPT ![p] = "none"]
      BY <1>17, <2>4 DEF Write
    <3> QED
      BY <2>2, <3>2, <3>3
  <2> QED
    BY <2>3, <2>4
<1>18. ASSUME NEW p \in Procs, Crash(p) PROVE ClaimInv'
  BY <1>18 DEF Crash, Rest
<1>19. CASE UNCHANGED vars
  BY <1>19 DEF vars
<1> QED
  BY <1>1, <1>2, <1>3, <1>4, <1>5, <1>6, <1>7, <1>8, <1>9, <1>10, <1>11, <1>12,
     <1>13, <1>14, <1>15, <1>16, <1>17, <1>18, <1>19
  DEF Next, Request, Claim, Claiming, Work, Statement, Stopped

\* Requests that have not stored their task yet have none that could be
\* claimed, and nobody has anything to write.
LEMMA ClaimInit == Init => ClaimInv
<1> SUFFICES ASSUME Init PROVE ClaimInv
  OBVIOUS
<1>1. \A p \in Procs : pc[p] \in {"away", "new", "idle"}
  BY DEF Init
<1>2. \A t \in Tasks : status[t] = "none" /\ claims[t] = 0
  BY DEF Init
<1>3. \A e \in Apps : e \in Procs
  BY ProcsApart
<1> QED
  BY <1>1, <1>2, <1>3
  DEF ClaimInv, NewUntouched, WaitingUnclaimed, CopiesEnd, AppsClaim, AppsNeverStart,
      ClaimedOnce, Writing

\* A task is claimed once at most, whoever cancels it, reports on it or is
\* killed meanwhile, with SKIP LOCKED as with the bounded retry.
THEOREM Claimed == Spec => []ClaimedOnce
<1>1. ClaimInv => ClaimedOnce
  BY DEF ClaimInv
<1>2. Spec => []TypeOK
  BY TypeCorrect
<1> QED
  BY <1>1, <1>2, ClaimInit, ClaimStep, PTL DEF Spec

-----------------------------------------------------------------------------
(***************************************************************************)
(* The end of a task.  Who is at a settled task has only read it before    *)
(* its claim, or still works on it though it is cancelled; neither can     *)
(* decide to write any more.                                               *)
(***************************************************************************)
LEMMA EndStep ==
  ASSUME TypeOK, ClaimInv, [Next]_vars, NEW t \in Tasks, Settled(t)
  PROVE  status'[t] = "none" \/ (status'[t] = status[t] /\ Settled(t)')
<1> USE ProcsApart, NoTaskAssumption DEF TypeOK, row, Go, Copy, Forget
<1> DEFINE Deciders == {"rereading", "claimed", "report", "result", "error", "cancel"}
           Kept == status'[t] = status[t] /\ Settled(t)'
<1>1. /\ \A p \in Procs : task[p] = t => pc[p] \notin Deciders
      /\ status[t] \in {"CANCELLED", "SUCCESSFUL", "FAILED"}
      /\ status[t] # "CANCELLED" => \A p \in Procs : task[p] = t => pc[p] # "working"
  BY DEF Settled, Undecided, AtWork
<1>2. ASSUME status'[t] = status[t],
             \A p \in Procs : task'[p] = t /\ pc'[p] \in Deciders \cup {"working"}
                                => task[p] = t /\ pc[p] = pc'[p]
      PROVE  Kept
  BY <1>1, <1>2 DEF Settled, Undecided, AtWork
<1>3. ASSUME NEW r \in Tasks, Store(r) PROVE Kept
  <2>1. r # t
    BY <1>1, <1>3 DEF Store, ClaimInv, NewUntouched
  <2>2. \A p \in Procs : p # r => task'[p] = task[p] /\ pc'[p] = pc[p]
    BY <1>3 DEF Store
  <2>3. task'[r] \in {r, NoTask}
    BY <1>3 DEF Store, AtTask
  <2> QED
    BY <1>2, <1>3, <2>1, <2>2, <2>3 DEF Store
<1>4. ASSUME NEW r \in Tasks, Poll(r) PROVE Kept
  BY <1>2, <1>4 DEF Poll
<1>5. ASSUME NEW r \in Tasks, Delete(r) PROVE status'[t] = "none" \/ Kept
  BY <1>2, <1>5 DEF Delete
<1>6. ASSUME NEW c \in Crons, Job(c) PROVE Kept
  <2>1. UNCHANGED <<status, task>>
    BY <1>6 DEF Job, Reserve, StartJob, NothingToClaim, EndLoop, Check
  <2>2. PICK l \in {"reserved", "claiming", "checking", "idle", "readd"} :
          pc' = [pc EXCEPT ![c] = l]
    <3>1. ASSUME Check(c)
          PROVE  \E l \in {"checking", "idle", "readd"} : pc' = [pc EXCEPT ![c] = l]
      BY <3>1 DEF Check
    <3>2. ASSUME NothingToClaim(c) PROVE pc' = [pc EXCEPT ![c] = "claiming"]
      BY <3>2 DEF NothingToClaim
    <3> QED
      BY <1>6, <3>1, <3>2 DEF Job, Reserve, StartJob, EndLoop
  <2> QED
    BY <1>2, <2>1, <2>2
<1>7. ASSUME NEW i \in JobIds, Expire(i) PROVE Kept
  BY <1>2, <1>7 DEF Expire
<1>8. ASSUME NEW e \in Executors, ClaimSkipLocked(e) PROVE Kept
  <2>1. PICK r \in Claimable(e) : Lock(r) /\ Crossed(e, r) /\ Taken(e, r)
    BY <1>8 DEF ClaimSkipLocked
  <2>2. r \in Tasks /\ status[r] = "SCHEDULED"
    BY <2>1 DEF Claimable, Scheduled, Executors
  <2> QED
    BY <1>1, <1>2, <2>1, <2>2 DEF Lock, Taken
<1>9. ASSUME NEW e \in Executors, FindOldest(e) PROVE Kept
  BY <1>2, <1>9 DEF FindOldest
<1>10. ASSUME NEW e \in Executors, LockTask(e) PROVE Kept
  <2>1. CASE MayLock(task[e])
    BY <1>1, <1>2, <1>10, <2>1 DEF LockTask, MayLock, Lock
  <2>2. CASE ~ MayLock(task[e])
    BY <1>2, <1>10, <2>2 DEF LockTask
  <2> QED
    BY <2>1, <2>2
<1>11. ASSUME NEW e \in Executors, Reread(e) PROVE Kept
  <2>1. UNCHANGED <<status, claims>> /\ pc[e] = "rereading" /\ task[e] # t
    BY <1>1, <1>11 DEF Reread
  <2>2. \A p \in Procs : p # e => task'[p] = task[p] /\ pc'[p] = pc[p]
    BY <1>11 DEF Reread, Taken
  <2>3. task'[e] \in {task[e], NoTask}
    BY <1>11 DEF Reread, Taken
  <2> QED
    BY <1>2, <2>1, <2>2, <2>3
<1>12. ASSUME NEW e \in Executors \cup Direct, StartWork(e) PROVE Kept
  BY <1>1, <1>2, <1>12 DEF StartWork, Update
<1>13. ASSUME NEW e \in Executors \cup Direct, BeginResult(e) \/ BeginReport(e) PROVE Kept
  <2>1. /\ ~ Refused(task[e]) /\ pc[e] \in {"working", "claimed"}
        /\ UNCHANGED status /\ task' = [task EXCEPT ![e] = task[e]]
    BY <1>13 DEF BeginResult, BeginReport
  <2>2. task[e] # t
    BY <1>1, <2>1 DEF Refused
  <2>3. \A p \in Procs : p # e => pc'[p] = pc[p]
    BY <1>13 DEF BeginResult, BeginReport
  <2> QED
    BY <1>2, <2>1, <2>2, <2>3
<1>14. ASSUME NEW e \in Executors \cup Direct, ResultRefused(e) PROVE Kept
  BY <1>2, <1>14 DEF ResultRefused
<1>15. ASSUME NEW k \in Clients, NEW r \in Tasks, Cancel(k, r) PROVE Kept
  BY <1>1, <1>2, <1>15 DEF Cancel, Open
<1>16. ASSUME NEW p \in Procs, AddLook(p) PROVE Kept
  BY <1>2, <1>16 DEF AddLook
<1>17. ASSUME NEW p \in Procs, AddWrite(p) PROVE Kept
  <2>1. AfterAdd(p) \in {"claiming", "done", "idle"}
    BY DEF AfterAdd, Rest
  <2> QED
    BY <1>2, <1>17, <2>1 DEF AddWrite
<1>18. ASSUME NEW p \in Procs, Write(p) PROVE Kept
  <2>1. task[p] # t /\ status'[t] = status[t]
    BY <1>1, <1>18 DEF Write, Update, AtTask
  <2>2. task'[p] \in {task[p], NoTask}
    BY <1>18 DEF Write
  <2>3. \A q \in Procs : q # p => task'[q] = task[q] /\ pc'[q] = pc[q]
    BY <1>18 DEF Write
  <2> QED
    BY <1>2, <2>1, <2>2, <2>3
<1>19. ASSUME NEW p \in Procs, Crash(p) PROVE Kept
  BY <1>2, <1>19 DEF Crash
<1>20. CASE UNCHANGED vars
  BY <1>2, <1>20 DEF vars
<1> QED
  BY <1>3, <1>4, <1>5, <1>6, <1>7, <1>8, <1>9, <1>10, <1>11, <1>12, <1>13, <1>14,
     <1>15, <1>16, <1>17, <1>18, <1>19, <1>20
  DEF Next, Request, Claim, Claiming, Work, Statement, Stopped

\* A cancelled task stays cancelled and a finished one finished, unless it is
\* deleted, whatever executors that still know it do and whoever is killed.
THEOREM EndsAreFinal == Spec => EndIsFinal
<1>1. TypeOK /\ ClaimInv /\ [Next]_vars =>
        [\A t \in Tasks : Settled(t) =>
           status'[t] = "none" \/ (status'[t] = status[t] /\ Settled(t)')]_vars
  BY EndStep
<1>2. Spec => []TypeOK
  BY TypeCorrect
<1>3. Spec => []ClaimInv
  BY <1>2, ClaimInit, ClaimStep, PTL DEF Spec
<1> QED
  BY <1>1, <1>2, <1>3, PTL DEF Spec, EndIsFinal

-----------------------------------------------------------------------------
(***************************************************************************)
(* Requests are at their own task, and never end a run of the job.         *)
(***************************************************************************)
LEMMA OwnTaskStep == TypeOK /\ OwnTask /\ [Next]_vars => OwnTask'
<1> SUFFICES ASSUME TypeOK, OwnTask, [Next]_vars, NEW t \in Tasks
             PROVE  /\ pc'[t] \in AtTask => task'[t] = t
                    /\ pc'[t] \notin {"readd", "reinsert", "rereset"}
  BY DEF OwnTask
<1> USE ProcsApart DEF TypeOK, OwnTask, AtTask, row, Go, Copy, Forget
<1>1. ASSUME UNCHANGED <<pc[t], task[t]>>
      PROVE  /\ pc'[t] \in AtTask => task'[t] = t
             /\ pc'[t] \notin {"readd", "reinsert", "rereset"}
  BY <1>1
<1>2. ASSUME NEW r \in Tasks, Request(r)
      PROVE  /\ pc'[t] \in AtTask => task'[t] = t
             /\ pc'[t] \notin {"readd", "reinsert", "rereset"}
  <2>1. CASE Store(r)
    <3>1. AfterStore(r) \in {"add", "claimed", "done", "polling"}
      BY DEF AfterStore, IsSync, Tasks
    <3> QED
      BY <2>1, <3>1 DEF Store
  <2>2. CASE Poll(r)
    BY <2>2 DEF Poll
  <2> QED
    BY <1>2, <2>1, <2>2 DEF Request
<1>3. ASSUME NEW r \in Tasks, Delete(r) PROVE UNCHANGED <<pc[t], task[t]>>
  BY <1>3 DEF Delete
<1>4. ASSUME NEW c \in Crons, Job(c) PROVE UNCHANGED <<pc[t], task[t]>>
  <2>1. c # t
    OBVIOUS
  <2> QED
    BY <1>4, <2>1 DEF Job, Reserve, StartJob, NothingToClaim, EndLoop, Check
<1>5. ASSUME NEW i \in JobIds, Expire(i) PROVE UNCHANGED <<pc[t], task[t]>>
  BY <1>5 DEF Expire
<1>6. ASSUME NEW e \in Executors, Claim(e) \/ Claiming(e)
      PROVE  UNCHANGED <<pc[t], task[t]>>
  <2>1. e # t
    OBVIOUS
  <2> QED
    BY <1>6, <2>1
    DEF Claim, Claiming, ClaimSkipLocked, FindOldest, LockTask, Reread, Taken
<1>7. ASSUME NEW e \in Executors \cup Direct, Work(e) \/ BeginReport(e)
      PROVE  /\ pc'[t] \in AtTask => task'[t] = t
             /\ pc'[t] \notin {"readd", "reinsert", "rereset"}
  BY <1>7 DEF Work, StartWork, BeginResult, ResultRefused, BeginReport, AfterWork, Rest
<1>8. ASSUME NEW k \in Clients, NEW r \in Tasks, Cancel(k, r)
      PROVE  UNCHANGED <<pc[t], task[t]>>
  <2>1. k # t
    OBVIOUS
  <2> QED
    BY <1>8, <2>1 DEF Cancel
<1>9. ASSUME NEW p \in Procs, AddLook(p)
      PROVE  /\ pc'[t] \in AtTask => task'[t] = t
             /\ pc'[t] \notin {"readd", "reinsert", "rereset"}
  BY <1>9 DEF AddLook
<1>10. ASSUME NEW p \in Procs, AddWrite(p)
      PROVE  /\ pc'[t] \in AtTask => task'[t] = t
             /\ pc'[t] \notin {"readd", "reinsert", "rereset"}
  <2>1. AfterAdd(p) \in {"claiming", "done", "idle"}
    BY DEF AfterAdd, Rest
  <2> QED
    BY <1>10, <2>1 DEF AddWrite
<1>11. ASSUME NEW p \in Procs, Write(p)
      PROVE  /\ pc'[t] \in AtTask => task'[t] = t
             /\ pc'[t] \notin {"readd", "reinsert", "rereset"}
  <2>1. AfterWork(p, pc[p] # "error") \in {"claiming", "add", "done", "idle"}
    BY DEF AfterWork, Rest
  <2>2. PICK l \in {"working", "claiming", "add", "done", "idle"} :
          /\ pc' = [pc EXCEPT ![p] = l]
          /\ l = "working" => task' = task
          /\ l # "working" => task' = [task EXCEPT ![p] = NoTask]
    BY <1>11, <2>1 DEF Write
  <2> QED
    BY <1>11, <2>2 DEF Write
<1>12. ASSUME NEW p \in Procs, Crash(p)
      PROVE  /\ pc'[t] \in AtTask => task'[t] = t
             /\ pc'[t] \notin {"readd", "reinsert", "rereset"}
  BY <1>12 DEF Crash, Rest
<1>13. CASE UNCHANGED vars
  BY <1>1, <1>13 DEF vars
<1> QED
  BY <1>1, <1>2, <1>3, <1>4, <1>5, <1>6, <1>7, <1>8, <1>9, <1>10, <1>11, <1>12, <1>13
  DEF Next, Statement, Stopped

(***************************************************************************)
(* What an executor may claim is a scheduled task, and a cron process      *)
(* claims only inside the loop of a job.                                   *)
(***************************************************************************)
LEMMA ClaimableScheduled ==
  ASSUME NEW e \in Executors, NEW r \in Claimable(e)
  PROVE  /\ r \in Tasks /\ status[r] = "SCHEDULED"
         /\ pc[e] \in {"claiming", "idle"}
         /\ e \in Crons => pc[e] = "claiming"
<1>1. CASE e \in Crons
  <2>1. Claimable(e) = IF pc[e] = "claiming" THEN Scheduled(todo[e]) ELSE {}
    BY <1>1, DistinctAssumption DEF Claimable
  <2> QED
    BY <2>1 DEF Scheduled
<1>2. CASE e \in Workers
  <2>1. Claimable(e) = IF pc[e] = "idle" THEN Scheduled(Sync) ELSE {}
    BY <1>2, DistinctAssumption DEF Claimable
  <2> QED
    BY <1>2, <2>1, DistinctAssumption DEF Scheduled
<1>3. CASE e \in Apps
  <2>1. Claimable(e) = IF pc[e] = "idle" THEN Scheduled(Types \ Sync) ELSE {}
    BY <1>3, DistinctAssumption DEF Claimable
  <2> QED
    BY <1>3, <2>1, DistinctAssumption DEF Scheduled
<1> QED
  BY <1>1, <1>2, <1>3 DEF Executors

(***************************************************************************)
(* When the list is empty there is an id for a new row: runners know at    *)
(* most one each, and there are more.                                      *)
(***************************************************************************)
LEMMA NewIdExists ==
  ASSUME TypeOK, Tasks # {}, Listed = {}
  PROVE  NewId \in JobIds
<1> DEFINE Known == {held[c] : c \in Crons}
<1>1. Cardinality(Crons) \in Nat /\ Cardinality(Tasks) \in Nat /\ Cardinality(Tasks) # 0
  BY FiniteAssumption, FS_CardinalityType, FS_EmptySet
<1>2. IsFiniteSet(Known) /\ Cardinality(Known) <= Cardinality(Crons)
  <2>1. held \in [Crons -> Known] /\ \A i \in Known : \E c \in Crons : held[c] = i
    BY DEF TypeOK
  <2>2. held \in Surjection(Crons, Known)
    BY <2>1 DEF Surjection
  <2> HIDE DEF Known
  <2> QED
    BY FiniteAssumption, <2>2, FS_Surjection
<1>3. Cardinality(JobIds) = 2 * Cardinality(Crons) + Cardinality(Tasks)
  BY <1>1, FS_Interval DEF JobIds
<1>4. ~ (JobIds \subseteq Known)
  <2> SUFFICES ASSUME JobIds \subseteq Known PROVE FALSE
    OBVIOUS
  <2>1. Cardinality(JobIds) <= Cardinality(Known)
    BY <1>2, FS_Subset
  <2>2. Cardinality(Known) \in Nat
    BY <1>2, FS_CardinalityType
  <2> QED
    BY <1>1, <1>2, <1>3, <2>1, <2>2
<1>5. PICK i \in JobIds : \A c \in Crons : held[c] # i
  BY <1>4
<1>6. jobs[i] = "none"
  BY <1>5 DEF Listed
<1> QED
  BY <1>5, <1>6 DEF NewId

(***************************************************************************)
(* As long as nobody is cut short, who has still to see to a waiting task  *)
(* is followed by somebody else who has: a row taken from the list is      *)
(* taken by a run that will look, a run looks before it is over.           *)
(***************************************************************************)
SeenTo(t) ==
  \/ pc[t] \notin {"reset", "done"}
  \/ Listed # {}
  \/ \E c \in Crons : SurelyLooks(c, TypeOf[t])

LEMMA ListStep ==
  ASSUME TypeOK, ClaimInv, OwnTask, SurelyListed, [Next]_vars
  PROVE  SurelyListed'
<1> USE ProcsApart
    DEF TypeOK, row, Go, Copy, Forget, AtTask, SeenTo, SurelyLooks, WillLook, Listed, Scheduled
<1> SUFFICES ASSUME ~ lost', NEW t \in Tasks, status'[t] = "SCHEDULED", TypeOf[t] \in Sync
             PROVE  SeenTo(t)'
  BY DEF SurelyListed
<1>1. ASSUME ~ lost, status[t] = "SCHEDULED" PROVE SeenTo(t)
  BY <1>1 DEF SurelyListed
<1>2. ASSUME ~ lost, status[t] = "SCHEDULED", UNCHANGED <<pc[t], jobs>>,
             \A c \in Crons : SurelyLooks(c, TypeOf[t]) => SurelyLooks(c, TypeOf[t])'
      PROVE  SeenTo(t)'
  BY <1>1, <1>2
<1>3. ASSUME NEW r \in Tasks, Store(r) PROVE SeenTo(t)'
  <2>1. /\ pc[r] = "new" /\ status[r] = "none"
        /\ pc' = [pc EXCEPT ![r] = AfterStore(r)]
        /\ status' = [status EXCEPT ![r] = "SCHEDULED"]
        /\ UNCHANGED <<jobs, todo, lost>>
    BY <1>3 DEF Store, ClaimInv, NewUntouched
  <2>2. CASE r = t
    BY <2>1, <2>2 DEF AfterStore, IsSync, Tasks
  <2>3. CASE r # t
    BY <1>2, <2>1, <2>3
  <2> QED
    BY <2>2, <2>3
<1>4. ASSUME NEW r \in Tasks, Poll(r) PROVE SeenTo(t)'
  <2>1. r # t
    BY <1>4 DEF Poll, Open
  <2> QED
    BY <1>2, <1>4, <2>1 DEF Poll
<1>5. ASSUME NEW r \in Tasks, Delete(r) PROVE SeenTo(t)'
  BY <1>2, <1>5 DEF Delete
<1>6. ASSUME NEW c \in Crons, Reserve(c) PROVE SeenTo(t)'
  <2>1. PICK i \in JobIds : jobs[i] = "free" /\ jobs' = [jobs EXCEPT ![i] = "reserved"]
    BY <1>6 DEF Reserve
  <2> QED
    BY <2>1
<1>7. ASSUME NEW c \in Crons, StartJob(c) PROVE SeenTo(t)'
  BY <1>7 DEF StartJob
<1>8. ASSUME NEW c \in Crons, NothingToClaim(c) PROVE SeenTo(t)'
  BY <1>2, <1>8 DEF NothingToClaim
<1>9. ASSUME NEW c \in Crons, EndLoop(c) PROVE SeenTo(t)'
  BY <1>9 DEF EndLoop
<1>10. ASSUME NEW c \in Crons, Check(c) PROVE SeenTo(t)'
  <2>1. PICK y \in todo[c] :
          \/ /\ Scheduled({y}) = {}
             /\ todo' = [todo EXCEPT ![c] = @ \ {y}]
             /\ pc' = [pc EXCEPT ![c] = IF todo[c] = {y} THEN "idle" ELSE "checking"]
          \/ pc' = [pc EXCEPT ![c] = "readd"]
    BY <1>10 DEF Check
  <2>2. pc[c] = "checking" /\ UNCHANGED <<status, jobs, lost>> /\ c # t
    BY <1>10 DEF Check
  <2>3. CASE pc' = [pc EXCEPT ![c] = "readd"]
    BY <2>2, <2>3
  <2>4. CASE /\ Scheduled({y}) = {}
             /\ todo' = [todo EXCEPT ![c] = @ \ {y}]
             /\ pc' = [pc EXCEPT ![c] = IF todo[c] = {y} THEN "idle" ELSE "checking"]
    <3>1. y # TypeOf[t]
      BY <2>2, <2>4
    <3>2. SurelyLooks(c, TypeOf[t]) => SurelyLooks(c, TypeOf[t])'
      BY <2>2, <2>4, <3>1
    <3>3. \A d \in Crons : d # c => pc'[d] = pc[d] /\ todo'[d] = todo[d]
      BY <2>4
    <3> QED
      BY <1>2, <2>2, <2>4, <3>2, <3>3
  <2> QED
    BY <2>1, <2>3, <2>4
<1>11. ASSUME NEW i \in JobIds, Expire(i) PROVE SeenTo(t)'
  <2>1. \A j \in JobIds : jobs[j] # "none" => jobs'[j] # "none"
    BY <1>11 DEF Expire
  <2> QED
    BY <1>1, <1>11, <2>1 DEF Expire
<1>12. ASSUME NEW e \in Executors, ClaimSkipLocked(e) PROVE SeenTo(t)'
  <2>1. PICK r \in Claimable(e) : Lock(r) /\ Taken(e, r)
    BY <1>12 DEF ClaimSkipLocked
  <2>2. r \in Tasks /\ pc[e] \in {"claiming", "idle"} /\ (e \in Crons => pc[e] = "claiming")
    BY <2>1, ClaimableScheduled
  <2>3. PICK l \in {"working", "claimed"} : pc' = [pc EXCEPT ![e] = l]
    BY <2>1 DEF Taken
  <2>4. e # t /\ status[t] = "SCHEDULED"
    BY <2>1, <2>2 DEF Lock
  <2>5. \A c \in Crons : c # e /\ SurelyLooks(c, TypeOf[t]) => SurelyLooks(c, TypeOf[t])'
    BY <1>12, <2>1, <2>3 DEF ClaimSkipLocked, Crossed
  <2> QED
    BY <1>2, <1>12, <2>2, <2>3, <2>4, <2>5 DEF ClaimSkipLocked
<1>13. ASSUME NEW e \in Executors, FindOldest(e) PROVE SeenTo(t)'
  <2>1. e \in Crons => pc[e] = "claiming"
    BY <1>13, ClaimableScheduled DEF FindOldest
  <2>2. e # t
    OBVIOUS
  <2> QED
    BY <1>2, <1>13, <2>1, <2>2 DEF FindOldest
<1>14. ASSUME NEW e \in Executors, LockTask(e) PROVE SeenTo(t)'
  <2>1. PICK l \in {"rereading", "claiming", "idle"} :
          pc' = [pc EXCEPT ![e] = l] /\ (e \in Crons => l # "idle")
    BY <1>14 DEF LockTask
  <2>2. status[t] = "SCHEDULED" /\ e # t
    BY <1>14 DEF LockTask, Lock
  <2>3. \A c \in Crons : c # e => todo'[c] = todo[c]
    BY <1>14 DEF LockTask, Crossed
  <2>4. UNCHANGED <<jobs, lost>> /\ pc[e] = "locking"
    BY <1>14 DEF LockTask
  <2> QED
    BY <1>2, <2>1, <2>2, <2>3, <2>4
<1>15. ASSUME NEW e \in Executors, Reread(e) PROVE SeenTo(t)'
  <2>1. e # t /\ UNCHANGED <<status, jobs>> /\ pc[e] = "rereading"
    BY <1>15 DEF Reread
  <2>2. PICK l \in {"working", "claimed", "idle"} :
          pc' = [pc EXCEPT ![e] = l] /\ (e \in Crons => l # "idle")
    BY <1>15 DEF Reread, Taken
  <2>3. ~ lost /\ \A c \in Crons : c # e => todo'[c] = todo[c]
    BY <1>15 DEF Reread
  <2> QED
    BY <1>2, <2>1, <2>2, <2>3
<1>16. ASSUME NEW e \in Executors \cup Direct, StartWork(e) PROVE SeenTo(t)'
  BY <1>2, <1>16 DEF StartWork, Update
<1>17. ASSUME NEW e \in Executors \cup Direct, BeginResult(e) PROVE SeenTo(t)'
  BY <1>2, <1>17 DEF BeginResult
<1>18. ASSUME NEW e \in Executors \cup Direct, ResultRefused(e) PROVE SeenTo(t)'
  <2>1. PICK l : pc' = [pc EXCEPT ![e] = l] /\ (e \in Crons => l \in {"claiming", "add"})
    BY <1>18 DEF ResultRefused, AfterWork
  <2>2. e # t
    BY <1>18 DEF ResultRefused, Refused, OwnTask
  <2> QED
    BY <1>2, <1>18, <2>1, <2>2 DEF ResultRefused
<1>19. ASSUME NEW e \in Executors \cup Direct, BeginReport(e) PROVE SeenTo(t)'
  BY <1>2, <1>19 DEF BeginReport
<1>20. ASSUME NEW k \in Clients, NEW r \in Tasks, Cancel(k, r) PROVE SeenTo(t)'
  BY <1>2, <1>20 DEF Cancel
<1>21. ASSUME NEW p \in Procs, AddLook(p) PROVE SeenTo(t)'
  BY <1>2, <1>21 DEF AddLook
<1>22. ASSUME NEW p \in Procs, AddWrite(p) PROVE SeenTo(t)'
  <2>1. CASE Listed # {}
    BY <1>22, <2>1 DEF AddWrite
  <2>2. CASE Listed = {} /\ pc[p] \in {"insert", "reinsert"}
    <3>1. NewId \in JobIds
      BY <2>2, NewIdExists
    <3> QED
      BY <1>22, <2>2, <3>1 DEF AddWrite
  <2>3. CASE Listed = {} /\ pc[p] \in {"reset", "rereset"}
    <3>1. pc' = [pc EXCEPT ![p] = AfterAdd(p)] /\ UNCHANGED <<status, todo, lost>>
      BY <1>22 DEF AddWrite
    <3>2. p \in Crons /\ pc[p] = "reset" => AfterAdd(p) = "claiming"
      BY DEF AfterAdd
    <3>3. p = t => pc[p] = "reset"
      BY <2>3 DEF OwnTask
    <3>4. p = t \/ pc'[t] = pc[t]
      BY <3>1
    <3>5. \A c \in Crons : SurelyLooks(c, TypeOf[t]) => SurelyLooks(c, TypeOf[t])'
      BY <2>3, <3>1, <3>2
    <3> QED
      BY <1>1, <2>3, <3>1, <3>3, <3>4, <3>5
  <2> QED
    BY <1>22, <2>1, <2>2, <2>3 DEF AddWrite
<1>23. ASSUME NEW p \in Procs, Write(p) PROVE SeenTo(t)'
  <2>1. status[t] = "SCHEDULED"
    BY <1>23 DEF Write, Update, ClaimInv, CopiesEnd, Writing
  <2>2. task[p] # t
    BY <1>23, <2>1 DEF Write, Update, ClaimInv, CopiesEnd, Writing
  <2>3. p # t
    BY <1>23, <2>2 DEF Write, OwnTask
  <2>4. p \in Crons => AfterWork(p, pc[p] # "error") \in {"claiming", "add"}
    BY DEF AfterWork
  <2>5. PICK l : pc' = [pc EXCEPT ![p] = l] /\ (p \in Crons => l \in {"claiming", "add", "working"})
    BY <1>23, <2>4 DEF Write
  <2>6. UNCHANGED <<jobs, todo, lost>> /\ pc[p] \in {"report", "result", "error", "cancel"}
    BY <1>23 DEF Write
  <2> QED
    BY <1>2, <2>1, <2>3, <2>5, <2>6
<1>24. ASSUME NEW p \in Procs, Crash(p) PROVE SeenTo(t)'
  BY <1>24 DEF Crash
<1>25. CASE UNCHANGED vars
  BY <1>2, <1>25 DEF vars
<1> QED
  BY <1>3, <1>4, <1>5, <1>6, <1>7, <1>8, <1>9, <1>10, <1>11, <1>12, <1>13, <1>14, <1>15,
     <1>16, <1>17, <1>18, <1>19, <1>20, <1>21, <1>22, <1>23, <1>24, <1>25
  DEF Next, Request, Job, Claim, Claiming, Work, Statement, Stopped

\* While a task of a synchronous provider waits, its request has still to see to
\* it, or the job is listed, or a run has still to look, unless a process was
\* cut short: the list forgets the job in no interleaving of its statements.
THEOREM Listing == Spec => []JobListed
<1>1. Init => OwnTask /\ SurelyListed
  <2> SUFFICES ASSUME Init PROVE OwnTask /\ SurelyListed
    OBVIOUS
  <2>1. \A p \in Procs : pc[p] \in {"away", "new", "idle"}
    BY DEF Init
  <2>2. \A t \in Tasks : status[t] = "none"
    BY DEF Init
  <2> QED
    BY <2>1, <2>2, ProcsApart DEF OwnTask, SurelyListed, Scheduled, AtTask
<1>2. TypeOK /\ ClaimInv /\ OwnTask /\ SurelyListed /\ [Next]_vars => (OwnTask /\ SurelyListed)'
  BY OwnTaskStep, ListStep
<1>3. SurelyListed => JobListed
  BY DEF SurelyListed, JobListed, SurelyLooks
<1>4. Spec => []TypeOK
  BY TypeCorrect
<1>5. Spec => []ClaimInv
  BY <1>4, ClaimInit, ClaimStep, PTL DEF Spec
<1> QED
  BY <1>1, <1>2, <1>3, <1>4, <1>5, PTL DEF Spec
=============================================================================
