------------------------------ MODULE MCOutbox ------------------------------
(***************************************************************************)
(* TLC instances of Outbox.                                                *)
(***************************************************************************)
EXTENDS Outbox, TLC

Symmetry == Permutations(Keys)

=============================================================================
