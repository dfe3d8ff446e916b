-------------------------- MODULE MCWebhookSystem --------------------------
(***************************************************************************)
(* Instances of WebhookSystem for TLC: a subscription of HIGH priority,    *)
(* whose client id is its _id, the case in which the lookup of a retry     *)
(* succeeds.                                                               *)
(***************************************************************************)
EXTENDS WebhookSystem, TLC

CONSTANT Limit

MCClientId == [s \in Subscriptions |-> s]
MCPriority == [s \in Subscriptions |-> "HIGH"]
MCListens  == [e \in Events |-> Subscriptions]
MCLimit    == [s \in Subscriptions |-> Limit]

Symmetry == Permutations(Retriers)
=============================================================================
