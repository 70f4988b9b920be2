---------------------------- MODULE MCDBLocking -----------------------------
(***************************************************************************)
(* Values for the constants of DBLocking in the configurations db_*.cfg.   *)
(***************************************************************************)
EXTENDS DBLocking, TLC

CONSTANTS r1, r2, c1, c2, a

OneFile == {a}
TwoRequests == {r1, r2}
\* Web requests, which keep shared locks, and command-line processes.
WebAndCli == {r1, r2, c1, c2}

Reuse == {"reuse"}
CrashesUnowned == {"crash", "unowned"}
=============================================================================
