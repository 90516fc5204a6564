-------------------------- MODULE MCLogHandleCache --------------------------
(* Small instances of LogHandleCache: one log file of each of two accounts. *)
EXTENDS LogHandleCache, TLC

CONSTANTS k1, k2, u1, u2

MCOwner == (k1 :> u1 @@ k2 :> u2)
=============================================================================
