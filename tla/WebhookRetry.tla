---------------------------- MODULE WebhookRetry ----------------------------
(***************************************************************************)
(* The delivery records in MongoDB and the requests that retry them:       *)
(* WebhooksService.retryFailedWebhook, which POST /retry/:deliveryId runs, *)
(* with the reads and writes of the two repositories it awaits.            *)
(*                                                                         *)
(* Every await is a point where other requests and the consumers run, so a *)
(* retry is four steps: read the delivery, read the subscription, write    *)
(* the delivery, add an entry to the sorted set 'webhook:retries'.  It     *)
(* decides on the attempt count that it read in the first one.             *)
(*                                                                         *)
(* The rest of the system touches a record in two ways, and this module    *)
(* has one action for each: CreateDelivery and ConsumerMarksSuccess.       *)
(* WebhookSystem shows that the webhook pipeline does nothing else to it.  *)
(***************************************************************************)
EXTENDS RetrySettings

CONSTANTS
    Deliveries,         \* the _id of every delivery that may be created
    subscriptionOf      \* the subscription each is created for

\* What createDelivery stores as the webhookId of the record.
webhookId == [d \in Deliveries |-> clientId[subscriptionOf[d]]]

VARIABLES
    status,         \* status[d] of the record, "absent" before it exists
    attemptCount,   \* attemptCount[d] of the record
    isActive,       \* isActive[s] of the subscription
    target,         \* the delivery a retry request names
    pc,             \* where a retry request is
    seen,           \* the attemptCount it read
    retries,        \* the members of the sorted set 'webhook:retries'
    granted         \* history: the requests whose increment was written

dbVars    == <<status, attemptCount, isActive>>
retryVars == <<target, pc, seen, retries, granted>>
vars      == <<dbVars, retryVars>>

Status   == {"absent", "pending", "success", "failed"}
Awaiting == {"findSubscription", "markFailed", "markPending", "zadd"}
PC       == Awaiting \cup {"findDelivery", "requeued", "failed", "error"}

\* The requests whose increment of d's attempt count reached the database.
Granted(d) == {r \in granted : target[r] = d}

TypeOK ==
    /\ status \in [Deliveries -> Status]
    /\ attemptCount \in [Deliveries -> Nat]
    /\ isActive \in [Subscriptions -> BOOLEAN]
    /\ target \in [Retriers -> Deliveries]
    /\ pc \in [Retriers -> PC]
    /\ seen \in [Retriers -> Nat]
    /\ retries \subseteq [id : Deliveries, attemptCount : Nat]
    /\ granted \subseteq Retriers

Init ==
    /\ status = [d \in Deliveries |-> "absent"]
    /\ attemptCount = [d \in Deliveries |-> 0]
    /\ isActive \in [Subscriptions -> BOOLEAN]
    /\ target \in [Retriers -> Deliveries]
    /\ pc = [r \in Retriers |-> "findDelivery"]
    /\ seen = [r \in Retriers |-> 0]
    /\ retries = {}
    /\ granted = {}

-----------------------------------------------------------------------------
(* The record as the rest of the system changes it. *)

\* processSubscription stores the record: status 'pending', attemptCount 0.
CreateDelivery(d) ==
    /\ status[d] = "absent"
    /\ status' = [status EXCEPT ![d] = "pending"]
    /\ UNCHANGED <<attemptCount, isActive, retryVars>>

\* processDelivery, on any message that carries the id: no look at the status.
ConsumerMarksSuccess(d) ==
    /\ status[d] # "absent"
    /\ status' = [status EXCEPT ![d] = "success"]
    /\ UNCHANGED <<attemptCount, isActive, retryVars>>

\* deactivateSubscription, or updateSubscription with another isActive.
SetActive(s, active) ==
    /\ isActive' = [isActive EXCEPT ![s] = active]
    /\ UNCHANGED <<status, attemptCount, retryVars>>

-----------------------------------------------------------------------------
(* retryFailedWebhook *)

Goto(r, label) == pc' = [pc EXCEPT ![r] = label]

\* 'Delivery not found' is an error; the status of a found one is not looked at.
FindDelivery(r) ==
    /\ pc[r] = "findDelivery"
    /\ IF status[target[r]] = "absent"
         THEN Goto(r, "error") /\ UNCHANGED seen
         ELSE Goto(r, "findSubscription")
              /\ seen' = [seen EXCEPT ![r] = attemptCount[target[r]]]
    /\ UNCHANGED <<dbVars, target, retries, granted>>

\* findById(delivery.webhookId): the _id of a subscription is compared with
\* what the record calls webhookId.
SubscriptionFound(r) ==
    /\ webhookId[target[r]] \in Subscriptions
    /\ isActive[webhookId[target[r]]]

LimitReachedOffByOne(n, s) == n > maxRetries[s]
LimitReachedTooSoon(n, s)  == n + 1 >= maxRetries[s]
LimitReached(n, s) == n >= maxRetries[s]

\* The lookup and, in the same continuation, the check of the retry limit.
FindSubscription(r) ==
    /\ pc[r] = "findSubscription"
    /\ IF ~SubscriptionFound(r) THEN Goto(r, "error")
       ELSE IF LimitReached(seen[r], webhookId[target[r]])
              THEN Goto(r, "markFailed") ELSE Goto(r, "markPending")
    /\ UNCHANGED <<dbVars, target, seen, retries, granted>>

\* The limit is reached: the record becomes 'failed', and so is the answer.
MarkFailed(r) ==
    /\ pc[r] = "markFailed"
    /\ status' = [status EXCEPT ![target[r]] = "failed"]
    /\ Goto(r, "failed")
    /\ UNCHANGED <<attemptCount, isActive, target, seen, retries, granted>>

MarkPendingAndAnswer(r) ==
    /\ pc[r] = "markPending"
    /\ status' = [status EXCEPT ![target[r]] = "pending"]
    /\ attemptCount' = [attemptCount EXCEPT ![target[r]] = seen[r] + 1]
    /\ granted' = granted \cup {r}
    /\ Goto(r, "requeued")
    /\ UNCHANGED <<isActive, target, seen, retries>>

\* The record becomes 'pending' with the count that was read, plus one.
MarkPending(r) ==
    /\ pc[r] = "markPending"
    /\ status' = [status EXCEPT ![target[r]] = "pending"]
    /\ attemptCount' = [attemptCount EXCEPT ![target[r]] = seen[r] + 1]
    /\ granted' = granted \cup {r}
    /\ Goto(r, "zadd")
    /\ UNCHANGED <<isActive, target, seen, retries>>

\* zadd, scored with min(initialDelay * 2^attemptCount, maxDelay); nothing reads
\* the score or the entry.  The answer is 'requeued'.
AddRetryEntry(r) ==
    /\ pc[r] = "zadd"
    /\ retries' = retries \cup {[id |-> target[r], attemptCount |-> seen[r]]}
    /\ Goto(r, "requeued")
    /\ UNCHANGED <<dbVars, target, seen, granted>>

\* A query or command rejects: the error is answered, what was written stays.
RetryFails(r) ==
    /\ pc[r] \in Awaiting \cup {"findDelivery"}
    /\ Goto(r, "error")
    /\ UNCHANGED <<dbVars, target, seen, retries, granted>>

\* The process stops: the requests it was serving are gone.
AbandonRetries ==
    /\ pc' = [r \in Retriers |-> IF pc[r] \in Awaiting THEN "error" ELSE pc[r]]
    /\ UNCHANGED <<dbVars, target, seen, retries, granted>>

RetryStep(r) ==
    \/ FindDelivery(r)
    \/ FindSubscription(r)
    \/ MarkFailed(r)
    \/ MarkPending(r)
    \/ AddRetryEntry(r)
    \/ RetryFails(r)

Next ==
    \/ \E d \in Deliveries : CreateDelivery(d) \/ ConsumerMarksSuccess(d)
    \/ \E s \in Subscriptions, active \in BOOLEAN : SetActive(s, active)
    \/ \E r \in Retriers : RetryStep(r)
    \/ AbandonRetries

Spec == Init /\ [][Next]_vars

-----------------------------------------------------------------------------
(* Properties *)

\* The attempt count of a record never passes the retry limit of the
\* subscription it is looked up by, however the reads and writes of concurrent
\* retries interleave; with no such subscription it never leaves 0.
AttemptsWithinLimit ==
    \A d \in Deliveries :
        \/ attemptCount[d] = 0
        \/ /\ webhookId[d] \in Subscriptions
           /\ attemptCount[d] <= maxRetries[webhookId[d]]

\* A delivery is given up ('failed') only after maxRetries increments of its
\* attempt count were written, although concurrent retries overwrite each
\* other's counts and a count that was read is used after it is stale.
FailedOnlyAfterLimit ==
    \A d \in Deliveries : status[d] = "failed" =>
        /\ webhookId[d] \in Subscriptions
        /\ Cardinality(Granted(d)) >= maxRetries[webhookId[d]]

\* A request is answered 'requeued' only when its entry is in the sorted set:
\* a failure between the write of the record and zadd never is.
RequeuedHasEntry ==
    \A r \in Retriers : pc[r] = "requeued" =>
        \E e \in retries : e.id = target[r] /\ e.attemptCount = seen[r]
=============================================================================
