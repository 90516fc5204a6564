--------------------------- MODULE MCLaunchPacing ---------------------------
(***************************************************************************)
(* LaunchPacing for TLC: two interchangeable accounts.                     *)
(***************************************************************************)
EXTENDS LaunchPacing, TLC

=============================================================================
