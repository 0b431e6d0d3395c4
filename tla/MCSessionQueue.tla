---------------------------- MODULE MCSessionQueue ----------------------------
(***************************************************************************)
(* Instances of SessionQueue for TLC.                                      *)
(***************************************************************************)
EXTENDS SessionQueueInvariant, TLC

Symmetry == Permutations(Processes)

=============================================================================
