----------------------------- MODULE MCScheduler -----------------------------
(***************************************************************************)
(* TLC instances of Scheduler.                                             *)
(***************************************************************************)
EXTENDS Scheduler, TLC

Symmetry == Permutations(Jobs) \union Permutations(Workers)

=============================================================================
