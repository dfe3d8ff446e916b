------------------------- MODULE WebhookRetryProofs -------------------------
(***************************************************************************)
(* Proofs about WebhookRetry, for any deliveries, subscriptions and retry  *)
(* limits, and any finite number of concurrent retry requests.             *)
(*                                                                         *)
(* Concurrent retries lose increments: two of them read n and both write   *)
(* n + 1.  What survives is that no count, neither the one stored nor one  *)
(* a request holds, is ahead of the number of increments written.          *)
(***************************************************************************)
EXTENDS WebhookRetry, FiniteSetTheorems, TLAPS

\* The requests that still act on the count they read.
Holding(r) == pc[r] \in {"findSubscription", "markFailed", "markPending"}

\* A request writes its increment once.
GrantedOnce == \A r \in granted : pc[r] \in {"zadd", "requeued", "error"}

\* No count is ahead of the increments written.
CountsBacked ==
    /\ \A d \in Deliveries : attemptCount[d] <= Cardinality(Granted(d))
    /\ \A r \in Retriers : Holding(r) =>
           seen[r] <= Cardinality(Granted(target[r]))

\* Past the lookup, the subscription of the request is known.
LookedUp ==
    \A r \in Retriers : pc[r] \in {"markFailed", "markPending", "zadd"} =>
        webhookId[target[r]] \in Subscriptions

\* What the check of the limit established still holds when it is acted upon.
LimitChecked ==
    \A r \in Retriers :
        /\ pc[r] = "markPending" => seen[r] < maxRetries[webhookId[target[r]]]
        /\ pc[r] = "markFailed"  => seen[r] >= maxRetries[webhookId[target[r]]]

TypeInv == TypeOK /\ LookedUp

Inv ==
    /\ TypeInv
    /\ GrantedOnce
    /\ CountsBacked
    /\ LimitChecked
    /\ AttemptsWithinLimit
    /\ FailedOnlyAfterLimit

-----------------------------------------------------------------------------
(* Type correctness *)

LEMMA InitTypeInv == Init => TypeInv
BY DEF Init, TypeInv, TypeOK, LookedUp, Status, PC, Awaiting

LEMMA NextTypeInv == TypeInv /\ [Next]_vars => TypeInv'
<1> SUFFICES ASSUME TypeInv, [Next]_vars PROVE TypeInv'
    OBVIOUS
<1> USE DEF TypeInv, TypeOK, LookedUp, Status, PC, Awaiting, Goto, retryVars, dbVars
<1>1. ASSUME NEW d \in Deliveries, CreateDelivery(d) PROVE TypeInv'
    BY <1>1 DEF CreateDelivery
<1>2. ASSUME NEW d \in Deliveries, ConsumerMarksSuccess(d) PROVE TypeInv'
    BY <1>2 DEF ConsumerMarksSuccess
<1>3. ASSUME NEW s \in Subscriptions, NEW active \in BOOLEAN, SetActive(s, active)
      PROVE  TypeInv'
    BY <1>3 DEF SetActive
<1>4. ASSUME NEW r \in Retriers, FindDelivery(r) PROVE TypeInv'
    BY <1>4 DEF FindDelivery
<1>5. ASSUME NEW r \in Retriers, FindSubscription(r) PROVE TypeInv'
    BY <1>5 DEF FindSubscription, SubscriptionFound
<1>6. ASSUME NEW r \in Retriers, MarkFailed(r) PROVE TypeInv'
    BY <1>6 DEF MarkFailed
<1>7. ASSUME NEW r \in Retriers, MarkPending(r) PROVE TypeInv'
    BY <1>7 DEF MarkPending
<1>8. ASSUME NEW r \in Retriers, AddRetryEntry(r) PROVE TypeInv'
    BY <1>8 DEF AddRetryEntry
<1>9. ASSUME NEW r \in Retriers, RetryFails(r) PROVE TypeInv'
    BY <1>9 DEF RetryFails
<1>10. ASSUME AbandonRetries PROVE TypeInv'
    BY <1>10 DEF AbandonRetries
<1>11. ASSUME UNCHANGED vars PROVE TypeInv'
    BY <1>11 DEF vars
<1>12. QED
    BY <1>1, <1>2, <1>3, <1>4, <1>5, <1>6, <1>7, <1>8, <1>9, <1>10, <1>11
    DEF Next, RetryStep

\* The records, the requests and the retry entries stay well typed: the status
\* is one of the four the code writes, and a request that got past its lookup
\* names a subscription that exists.
THEOREM TypeCorrect == Spec => []TypeOK
<1>1. TypeInv => TypeOK
    BY DEF TypeInv
<1>2. QED
    BY InitTypeInv, NextTypeInv, <1>1, PTL DEF Spec

-----------------------------------------------------------------------------
(* The increments written *)

\* They are finitely many, so that they can be counted.
LEMMA GrantedFinite ==
    ASSUME TypeOK
    PROVE  \A d \in Deliveries : IsFiniteSet(Granted(d)) /\ Cardinality(Granted(d)) \in Nat
<1> SUFFICES ASSUME NEW d \in Deliveries
             PROVE  IsFiniteSet(Granted(d)) /\ Cardinality(Granted(d)) \in Nat
    OBVIOUS
<1>1. Granted(d) \in SUBSET Retriers
    BY DEF Granted, TypeOK
<1>2. QED
    BY <1>1, RetriersFinite, FS_Subset, FS_CardinalityType

\* Writing one more adds it to those of its delivery and to no other.
LEMMA GrantOne ==
    ASSUME TypeOK, GrantedOnce, NEW r \in Retriers, MarkPending(r)
    PROVE  \A d \in Deliveries :
             /\ d = target[r] => Cardinality(Granted(d)') = Cardinality(Granted(d)) + 1
             /\ d # target[r] => Granted(d)' = Granted(d)
<1>1. r \notin granted
    BY DEF GrantedOnce, MarkPending
<1>2. ASSUME NEW d \in Deliveries, d = target[r]
      PROVE  Cardinality(Granted(d)') = Cardinality(Granted(d)) + 1
  <2>1. Granted(d)' = Granted(d) \cup {r} /\ r \notin Granted(d)
      BY <1>1, <1>2 DEF Granted, MarkPending
  <2>2. QED
      BY <2>1, GrantedFinite, FS_AddElement
<1>3. ASSUME NEW d \in Deliveries, d # target[r]
      PROVE  Granted(d)' = Granted(d)
    BY <1>3 DEF Granted, MarkPending
<1>4. QED
    BY <1>2, <1>3

\* No other step writes one.
LEMMA GrantNone ==
    ASSUME target' = target, granted' = granted
    PROVE  \A d : Granted(d)' = Granted(d)
BY DEF Granted

-----------------------------------------------------------------------------
(* The inductive invariant *)

LEMMA InitInv == Init => Inv
<1> SUFFICES ASSUME Init PROVE Inv
    OBVIOUS
<1>1. \A d : Granted(d) = {}
    BY DEF Init, Granted
<1>2. TypeInv
    BY InitTypeInv
<1>3. CountsBacked
    BY <1>1, FS_EmptySet DEF Init, CountsBacked, Holding
<1>4. GrantedOnce /\ LimitChecked /\ AttemptsWithinLimit /\ FailedOnlyAfterLimit
    BY DEF Init, GrantedOnce, LimitChecked, AttemptsWithinLimit, FailedOnlyAfterLimit
<1>5. QED
    BY <1>2, <1>3, <1>4 DEF Inv

LEMMA NextInv == Inv /\ [Next]_vars => Inv'
<1> SUFFICES ASSUME Inv, [Next]_vars PROVE Inv'
    OBVIOUS
<1>t. TypeOK /\ TypeInv'
    BY NextTypeInv DEF Inv, TypeInv
<1>c. \A d \in Deliveries : Cardinality(Granted(d)) \in Nat
    BY <1>t, GrantedFinite
<1> DEFINE Rest == GrantedOnce /\ CountsBacked /\ LimitChecked
                     /\ AttemptsWithinLimit /\ FailedOnlyAfterLimit
<1> USE DEF Inv, TypeOK, GrantedOnce, CountsBacked, Holding, LimitChecked,
            AttemptsWithinLimit, FailedOnlyAfterLimit, Goto
<1>1. ASSUME NEW d \in Deliveries, CreateDelivery(d) PROVE Rest'
    BY <1>1, <1>t, <1>c, GrantNone DEF CreateDelivery, retryVars
<1>2. ASSUME NEW d \in Deliveries, ConsumerMarksSuccess(d) PROVE Rest'
    BY <1>2, <1>t, <1>c, GrantNone DEF ConsumerMarksSuccess, retryVars
<1>3. ASSUME NEW s \in Subscriptions, NEW active \in BOOLEAN, SetActive(s, active)
      PROVE  Rest'
    BY <1>3, <1>t, <1>c, GrantNone DEF SetActive, retryVars
<1>4. ASSUME NEW r \in Retriers, FindDelivery(r) PROVE Rest'
    BY <1>4, <1>t, <1>c, GrantNone DEF FindDelivery, dbVars
<1>5. ASSUME NEW r \in Retriers, FindSubscription(r) PROVE Rest'
    BY <1>5, <1>t, <1>c, GrantNone, RetryConfig
    DEF FindSubscription, SubscriptionFound, LimitReached, dbVars
<1>6. ASSUME NEW r \in Retriers, MarkFailed(r) PROVE Rest'
    BY <1>6, <1>t, <1>c, GrantNone, RetryConfig DEF MarkFailed, TypeInv, LookedUp
<1>7. ASSUME NEW r \in Retriers, MarkPending(r) PROVE Rest'
  <2> PICK d \in Deliveries : d = target[r]
      BY <1>t
  <2>0. webhookId[d] \in Subscriptions
      BY <1>7, <1>t DEF MarkPending, TypeInv, LookedUp
  <2>1. /\ Cardinality(Granted(d)') = Cardinality(Granted(d)) + 1
        /\ \A e \in Deliveries : e # d => Granted(e)' = Granted(e)
      BY <1>7, <1>t, GrantOne
  <2>2. /\ seen[r] \in Nat
        /\ seen[r] <= Cardinality(Granted(d))
        /\ seen[r] < maxRetries[webhookId[d]]
      BY <1>7, <1>t DEF MarkPending
  <2>3. \A e \in Deliveries : /\ Cardinality(Granted(e)') \in Nat
                              /\ Cardinality(Granted(e)) <= Cardinality(Granted(e)')
      BY <2>1, <1>c
  <2>4. GrantedOnce'
      BY <1>7, <1>t DEF MarkPending
  <2>5. \A e \in Deliveries : attemptCount'[e] <= Cardinality(Granted(e)')
      BY <1>7, <1>t, <1>c, <2>0, <2>1, <2>2 DEF MarkPending
  <2>6. ASSUME NEW q \in Retriers, NEW e \in Deliveries, e = target'[q], Holding(q)'
        PROVE  seen'[q] <= Cardinality(Granted(e)')
    <3>1. Holding(q) /\ seen'[q] = seen[q] /\ e = target[q]
        BY <1>7, <2>6 DEF MarkPending
    <3>2. seen[q] \in Nat /\ seen[q] <= Cardinality(Granted(e))
        BY <1>t, <3>1
    <3>3. QED
        BY <1>c, <2>3, <3>1, <3>2
  <2>7. CountsBacked'
      BY <1>t, <2>5, <2>6 DEF TypeInv
  <2>8. LimitChecked'
      BY <1>7, <2>0 DEF MarkPending
  <2>9. AttemptsWithinLimit'
      BY <1>7, <2>0, <2>2, RetryConfig DEF MarkPending
  <2>10. ASSUME NEW e \in Deliveries, status'[e] = "failed"
         PROVE  /\ webhookId[e] \in Subscriptions
                /\ Cardinality(Granted(e)') >= maxRetries[webhookId[e]]
    <3>1. e # d /\ status[e] = "failed"
        BY <1>7, <1>t, <2>10 DEF MarkPending
    <3>2. QED
        BY <2>1, <3>1
  <2>11. QED
      BY <2>4, <2>7, <2>8, <2>9, <2>10
<1>8. ASSUME NEW r \in Retriers, AddRetryEntry(r) PROVE Rest'
    BY <1>8, <1>t, <1>c, GrantNone DEF AddRetryEntry, dbVars
<1>9. ASSUME NEW r \in Retriers, RetryFails(r) PROVE Rest'
    BY <1>9, <1>t, <1>c, GrantNone DEF RetryFails, dbVars, Awaiting
<1>10. ASSUME AbandonRetries PROVE Rest'
    BY <1>10, <1>t, <1>c, GrantNone DEF AbandonRetries, dbVars, Awaiting
<1>11. ASSUME UNCHANGED vars PROVE Rest'
    BY <1>11, <1>t, <1>c, GrantNone DEF vars, dbVars, retryVars
<1>12. Rest'
    BY <1>1, <1>2, <1>3, <1>4, <1>5, <1>6, <1>7, <1>8, <1>9, <1>10, <1>11
    DEF Next, RetryStep
<1>13. QED
    BY <1>12, <1>t

LEMMA InvHolds == Spec => []Inv
BY InitInv, NextInv, PTL DEF Spec

\* No interleaving of retries drives the attempt count of a delivery past the
\* retry limit of its subscription.
THEOREM AttemptsBounded == Spec => []AttemptsWithinLimit
<1>1. Inv => AttemptsWithinLimit
    BY DEF Inv
<1>2. QED
    BY InvHolds, <1>1, PTL

\* No interleaving of retries gives a delivery up before its retries were used.
THEOREM FailureEarned == Spec => []FailedOnlyAfterLimit
<1>1. Inv => FailedOnlyAfterLimit
    BY DEF Inv
<1>2. QED
    BY InvHolds, <1>1, PTL

\* A request answers 'requeued' only once its retry entry is stored.
THEOREM AnswerBacked == Spec => []RequeuedHasEntry
<1>1. Init => RequeuedHasEntry
    BY DEF Init, RequeuedHasEntry
<1>2. TypeOK /\ RequeuedHasEntry /\ [Next]_vars => RequeuedHasEntry'
  <2> SUFFICES ASSUME TypeOK, RequeuedHasEntry, [Next]_vars,
                      NEW q \in Retriers, pc'[q] = "requeued"
               PROVE  \E e \in retries' : e.id = target'[q] /\ e.attemptCount = seen'[q]
      BY DEF RequeuedHasEntry
  <2> USE DEF TypeOK, RequeuedHasEntry, Goto, dbVars, retryVars
  <2>1. CASE \E r \in Retriers : FindDelivery(r)
      BY <2>1 DEF FindDelivery
  <2>2. CASE \E r \in Retriers : AddRetryEntry(r)
    <3>1. PICK r \in Retriers : AddRetryEntry(r)
        BY <2>2
    <3>2. CASE q = r
      <4> DEFINE e == [id |-> target[r], attemptCount |-> seen[r]]
      <4>1. e \in retries' /\ target' = target /\ seen' = seen
          BY <3>1 DEF AddRetryEntry
      <4>2. e.id = target[r] /\ e.attemptCount = seen[r]
          OBVIOUS
      <4> HIDE DEF e
      <4>3. QED
          BY <3>2, <4>1, <4>2
    <3>3. CASE q # r
        BY <3>1, <3>3 DEF AddRetryEntry
    <3>4. QED
        BY <3>2, <3>3
  <2>3. CASE UNCHANGED <<target, seen, retries>> /\ pc[q] = "requeued"
      BY <2>3
  <2>4. QED
      BY <2>1, <2>2, <2>3
      DEF Next, RetryStep, CreateDelivery, ConsumerMarksSuccess, SetActive, FindSubscription,
          MarkFailed, MarkPending, RetryFails, AbandonRetries, Awaiting, vars
<1>3. QED
    BY TypeCorrect, <1>1, <1>2, PTL DEF Spec
=============================================================================
