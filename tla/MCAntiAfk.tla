------------------------------- MODULE MCAntiAfk -------------------------------
(* AntiAfk for TLC. *)
EXTENDS AntiAfk, TLC

=============================================================================
