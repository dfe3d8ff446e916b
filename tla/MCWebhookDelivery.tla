------------------------- MODULE MCWebhookDelivery -------------------------
(***************************************************************************)
(* Instances of WebhookDelivery for TLC: a subscription of each priority   *)
(* in Subscriptions, all listening to every event; two clients.            *)
(***************************************************************************)
EXTENDS WebhookDelivery

CONSTANTS sHigh, sMedium, sLow, c1, c2

MCClientId == [s \in Subscriptions |-> IF s = sLow THEN c2 ELSE c1]
MCPriority == [s \in Subscriptions |->
                 CASE s = sHigh -> "HIGH" [] s = sMedium -> "MEDIUM" [] s = sLow -> "LOW"]
MCListens  == [e \in Events |-> Subscriptions]
=============================================================================
