----------------------------- MODULE MCLineage -----------------------------
(* Lineage for TLC: threads are interchangeable. *)
EXTENDS Lineage, TLC

Symmetry == Permutations(Threads)
=============================================================================
