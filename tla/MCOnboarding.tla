---------------------------- MODULE MCOnboarding ----------------------------
(***************************************************************************)
(* An instance of Onboarding for TLC.                                      *)
(***************************************************************************)
EXTENDS OnboardingInvariant

=============================================================================
