--------------------------- MODULE MCWebhookGate ---------------------------
(***************************************************************************)
(* WebhookGate for TLC: every constant is given by the cfg.  No symmetry,  *)
(* because liveness is checked.                                            *)
(***************************************************************************)
EXTENDS WebhookGate
=============================================================================
