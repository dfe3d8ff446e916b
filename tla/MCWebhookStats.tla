--------------------------- MODULE MCWebhookStats ---------------------------
(* Two deliveries of two types, and a clock that outlives the hash.         *)
EXTENDS WebhookStats, TLC

CONSTANTS d1, d2, login, order

MCEventType == (d1 :> login) @@ (d2 :> order)
=============================================================================
