---------------------------- MODULE MCGameLauncher ----------------------------
(* Small instances of GameLauncher: two accounts configured for one server. *)
EXTENDS GameLauncher, TLC

CONSTANTS ramp, worker, a1, a2, s1

MCServer == [u \in {a1, a2} |-> s1]

=============================================================================
