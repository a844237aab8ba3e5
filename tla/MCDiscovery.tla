----------------------------- MODULE MCDiscovery -----------------------------
(***************************************************************************)
(* TLC instances of Discovery.                                             *)
(***************************************************************************)
EXTENDS Discovery, TLC

Symmetry ==
  Permutations(Collectors) \union Permutations(Vouchers) \union Permutations(Versions)

=============================================================================
