--------------------------- MODULE WebhookSystem ---------------------------
(***************************************************************************)
(* The webhook pipeline (WebhookDelivery) together with the requests that  *)
(* retry its deliveries (WebhookRetry): they share the delivery records    *)
(* and the subscriptions in MongoDB, and the process that runs them.       *)
(***************************************************************************)
EXTENDS WebhookDelivery, RetrySettings

VARIABLES target, pc, seen, retries, granted

retryVars    == <<target, pc, seen, retries, granted>>
pipelineVars == <<producerVars, channelVars, consumerVars, processVars, lost>>
sysVars      == <<vars, retryVars>>

\* A delivery is created for the subscription in its name.
Retry == INSTANCE WebhookRetry WITH subscriptionOf <- [d \in Deliveries |-> d[2]]

SysInit == Init /\ Retry!Init

\* A step of the tasks, the consumers or an event.
PipelineStep ==
    /\ \/ \E e \in Events : TriggerEvent(e) \/ TriggerEventFails(e)
       \/ \E d \in Deliveries : TaskStep(d)
       \/ ConsumerStep
       \/ Signal \/ Restart
    /\ UNCHANGED retryVars

\* A stop of the process takes the retry requests with it.
Stop == (Exit \/ Crash) /\ Retry!AbandonRetries

RetryRequest(r) == Running /\ Retry!RetryStep(r) /\ UNCHANGED pipelineVars

SysNext ==
    \/ PipelineStep
    \/ Stop
    \/ \E r \in Retriers : RetryRequest(r)
    \/ \E s \in Subscriptions, active \in BOOLEAN :
         Retry!SetActive(s, active) /\ UNCHANGED pipelineVars

SysSpec == SysInit /\ [][SysNext]_sysVars

\* The fairness of the pipeline, and a request once begun goes on.
SysFairness ==
    /\ WF_sysVars(TasksGoOn /\ UNCHANGED retryVars)
    /\ WF_sysVars(ConsumersGoOn /\ UNCHANGED retryVars)
    /\ \A r \in Retriers : WF_sysVars(RetryRequest(r))

SysLiveSpec == SysSpec /\ SysFairness

-----------------------------------------------------------------------------
(* Properties *)

\* What WebhookRetry says of concurrent retries, beside the pipeline.
AttemptsWithinLimit  == Retry!AttemptsWithinLimit
FailedOnlyAfterLimit == Retry!FailedOnlyAfterLimit
RequeuedHasEntry     == Retry!RequeuedHasEntry

\* The pipeline touches the delivery records in no way that WebhookRetry does
\* not allow for: what is proved of retries there holds of the whole system.
ImplementsRetry == Retry!Spec

\* With retries too, one that is still 'pending' is accounted for as in the
\* pipeline alone, or was put back by a retry, which nothing picks up again.
PendingIsAccountedForOrRetried ==
    \A d \in Deliveries : status[d] = "pending" =>
        AccountedFor(d) \/ \E r \in granted : target[r] = d

\* "Queue for retry": a delivery whose retry was answered 'requeued' is attempted
\* again, in a process that nothing disturbs.
RequeuedIsAttempted ==
    [](mode = "up") =>
        \A r \in Retriers : pc[r] = "requeued" ~> status[target[r]] # "pending"
=============================================================================
