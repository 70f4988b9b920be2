------------------------- MODULE MCMemcacheLocking --------------------------
(***************************************************************************)
(* Values for the constants of MemcacheLocking.                            *)
(***************************************************************************)
EXTENDS MemcacheLocking, TLC

CONSTANTS r1, r2, r3

TwoRequests == {r1, r2}
ThreeRequests == {r1, r2, r3}
Symmetry == Permutations(Procs)

Crashes == {"crash"}
Together == {"together"}
Anyhow == {"together", "overlap", "refused"}
=============================================================================
