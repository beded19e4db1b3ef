-------------------------- MODULE MCAppAggregator --------------------------
(* A small instance of AppAggregator for TLC. *)
EXTENDS AppAggregator, TLC

\* Paths are interchangeable: nothing in AppAggregator tells one from another.
Symmetry == Permutations(Paths)
=============================================================================
