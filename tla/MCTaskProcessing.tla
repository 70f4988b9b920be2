-------------------------- MODULE MCTaskProcessing --------------------------
(***************************************************************************)
(* Values for the constants of TaskProcessing: two scheduled tasks of a    *)
(* type with a synchronous provider, one that its request processes, and   *)
(* one of an external app.                                                 *)
(***************************************************************************)
EXTENDS TaskProcessing, TLC

CONSTANTS q1, q2, d, a, b, c1, c2, w1, x1, k1, local, remote

QueuedTasks == {q1, q2, b}
RunTasks == {d, a}
AllTypes == {local, remote}
LocalType == {local}
TypeOfTask == [t \in {q1, q2, d} |-> local] @@ [t \in {a, b} |-> remote]
TwoCrons == {c1, c2}
OneWorker == {w1}
OneApp == {x1}
OneClient == {k1}
Crashes == {"crash"}

(***************************************************************************)
(* Four small installations: two runs of the job and the list; a runTask   *)
(* request, whose task a run may claim; a worker beside a run; an external *)
(* app.                                                                    *)
(***************************************************************************)
FourSites ==
  [db : {"skip"}, procs : {{q1, q2, c1, c2}}]
    \cup [db : DatabaseKinds, procs : {{q1, d, c1, k1}, {a, b, x1, k1}}]
    \cup [db : {"retry"}, procs : {{q1, c1, w1, k1}}]
=============================================================================
