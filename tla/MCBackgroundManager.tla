------------------------ MODULE MCBackgroundManager ------------------------
(***************************************************************************)
(* Instances of BackgroundManager for TLC.                                 *)
(***************************************************************************)
EXTENDS BackgroundInvariant

=============================================================================
