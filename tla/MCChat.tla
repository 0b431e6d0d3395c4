------------------------------- MODULE MCChat -------------------------------
(***************************************************************************)
(* Instances of Chat for TLC.                                              *)
(***************************************************************************)
EXTENDS ChatInvariant

CONSTANT m1

OneMessage == <<m1>>

=============================================================================
