------------------------ MODULE WebhookSubscriptions ------------------------
(* The webhook subscriptions, as far as every module about them looks.      *)

CONSTANTS
    Subscriptions,  \* the _id of every webhook subscription
    clientId        \* the clientId of each; clients may share one
=============================================================================
