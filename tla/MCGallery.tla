----------------------------- MODULE MCGallery -----------------------------
(* The Gallery page on a small instance. *)
EXTENDS Gallery, FiniteSets

(* The instance is not trivial: there are two albums to mix up, and a place *)
(* and a folder below the first.                                            *)
ASSUME InstanceAssumption ==
  Cardinality(Albums) > 1 /\ Groups # {} /\ Cardinality(Paths) > 1
=============================================================================
