------------------------------- MODULE MCTeams -------------------------------
(***************************************************************************)
(* Instances of Teams for TLC.                                             *)
(***************************************************************************)
EXTENDS Teams

=============================================================================
