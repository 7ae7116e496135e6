--------------------------- MODULE MCWatchLifecycle ---------------------------
(* Instances of WatchLifecycle for TLC. *)
EXTENDS WatchLifecycle, TLC

Symmetry == Permutations(Readers)
=============================================================================
