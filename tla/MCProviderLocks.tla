---------------------------- MODULE MCProviderLocks ----------------------------
(***************************************************************************)
(* Instances of ProviderLocks for TLC.                                     *)
(***************************************************************************)
EXTENDS ProviderLocks, TLC

Symmetry == Permutations(Aliases) \cup Permutations(Callers)

=============================================================================
