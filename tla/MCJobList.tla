----------------------------- MODULE MCJobList ------------------------------
(***************************************************************************)
(* Values for the constants of JobList: a TimedJob t, queued jobs q1, q2   *)
(* of one class, and a job u whose app is disabled.                        *)
(***************************************************************************)
EXTENDS JobList, TLC

CONSTANTS p1, p2, a1, a2, t, u, q1, q2, class, other, key, key2

Nobody == {}
Nothing == {}
TwoRunners == {p1, p2}
OneWorker == {p1}
TwoAdders == {a1, a2}
OneAdder == {a1}
TimedJob == {t}
QueuedJobs == {q1, q2}
DisabledJob == {u}
SameJob == (q1 :> key) @@ (q2 :> key)
TwoJobs == (q1 :> key) @@ (q2 :> key2)
Classes == [i \in {t, u} |-> other] @@ [i \in {q1, q2} |-> class]
QueuedClass == {class}
\* The two rows of one queued job are interchangeable.
Symmetry == Permutations(QueuedJobs)
=============================================================================
