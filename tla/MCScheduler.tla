---------------------------- MODULE MCScheduler ----------------------------
(* Instances of Scheduler for TLC. *)
EXTENDS Scheduler, TLC

Symmetry == Permutations(Clients) \cup Permutations(Processors)
=============================================================================
