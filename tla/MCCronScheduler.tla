--------------------------- MODULE MCCronScheduler ---------------------------
(***************************************************************************)
(* Instances of CronScheduler for TLC.                                     *)
(***************************************************************************)
EXTENDS CronScheduler

=============================================================================
