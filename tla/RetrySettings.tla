--------------------------- MODULE RetrySettings ---------------------------
(***************************************************************************)
(* The requests that retry a delivery, and what they read of a             *)
(* subscription's retryConfig.                                             *)
(***************************************************************************)
EXTENDS WebhookSubscriptions, Naturals, FiniteSets

CONSTANTS
    Retriers,           \* the retry requests
    maxRetries          \* of each subscription

ASSUME RetriersFinite == IsFiniteSet(Retriers)

\* RetryConfigSchema: a limit of at least 1.
ASSUME RetryConfig == maxRetries \in [Subscriptions -> Nat \ {0}]
=============================================================================
