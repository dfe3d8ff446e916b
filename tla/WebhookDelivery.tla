-------------------------- MODULE WebhookDelivery --------------------------
(***************************************************************************)
(* The webhook pipeline of one nano-pulse-express process: the tasks that  *)
(* WebhooksService.processWebhookEvent starts for an event, the channels   *)
(* they hand deliveries to, and the consumers of WebhookConsumerService.   *)
(*                                                                         *)
(*   HIGH         a Redis list and, for the same delivery, Redis pub/sub   *)
(*   MEDIUM, LOW  a Kafka topic each (one partition)                       *)
(*                                                                         *)
(* MongoDB, Redis and Kafka outlive the process; the tasks, the handlers,  *)
(* the pub/sub messages and the positions of the Kafka consumer do not.    *)
(* Every await is a point where the other tasks and handlers run.          *)
(*                                                                         *)
(* A delivery is named <<event, subscription>>; so is the message about    *)
(* it.  A message carries no id when createDelivery returned undefined.    *)
(***************************************************************************)
EXTENDS WebhookSubscriptions, Integers, Sequences, FiniteSets

CONSTANTS
    Events,         \* the POST /events requests, one event each
    priority,       \* of each subscription: "HIGH", "MEDIUM" or "LOW"
    listens,        \* the subscriptions whose events contain an event's type
    KafkaHandlers,  \* which eachMessage handlers a start may install
    MaxCrashes,     \* bounds: times the process is killed,
    MaxSignals,     \*         gets SIGTERM or SIGINT,
    MaxFaults,      \*         database, Redis and Kafka operations that fail,
    MaxDisturbances \*         and all of these together

ASSUME PipelineConstants ==
    /\ priority \in [Subscriptions -> {"HIGH", "MEDIUM", "LOW"}]
    /\ listens \in [Events -> SUBSET Subscriptions]
    /\ KafkaHandlers \subseteq {"webhook", "userAuth", "none"}
    /\ MaxCrashes \in Nat /\ MaxSignals \in Nat /\ MaxFaults \in Nat

Deliveries == Events \X Subscriptions
Topics     == {"MEDIUM", "LOW"}
Priority(d) == priority[d[2]]

VARIABLES
    status, attemptCount,   \* the delivery records
    isActive,               \* the subscriptions; nothing here changes it
    response,               \* what POST /events answered
    task,                   \* the processSubscription call of a delivery
    noId,                   \* the deliveries whose task got no record back
    highQueue,              \* the Redis list, the next one to pop first
    pubsub,                 \* published messages on their way to redisSub
    topic,                  \* the log of each topic
    committed, position,    \* of the consumer group, of the running consumer
    handlers,               \* the running calls of the consumers
    notified,               \* 'notification' events emitted for a delivery
    misrouted,              \* deliveries emitted as a 'userAuthEvent'
    lost,                   \* history: the steps of a delivery that came to nothing
    mode,                   \* "up", "stopping" (shutdown began) or "down"
    kafkaHandler,           \* the eachMessage handler of this process
    crashes, signals, faults

dbVars       == <<status, attemptCount, isActive>>
producerVars == <<response, task, noId>>
channelVars  == <<highQueue, pubsub, topic>>
consumerVars == <<committed, position, handlers, notified, misrouted>>
processVars  == <<mode, kafkaHandler, crashes, signals, faults>>
vars == <<dbVars, producerVars, channelVars, consumerVars, processVars, lost>>

InMemory   == {"create", "send", "publish", "stats"}
TaskState  == InMemory \cup {"none", "done", "rejected", "lost"}
Handler    == [path : {"queue", "pubsub"} \cup Topics, id : Deliveries,
               stage : {"update", "emit", "authEvent"}]
\* How a delivery can be lost: its message was not sent, the process ended
\* between rpop and the update, or the update of its record failed.
Loss       == {"unsent", "cut", "unmarked"}
NoResponse == [answer |-> "none", processed |-> 0, failed |-> 0]

TypeOK ==
    /\ status \in [Deliveries -> {"absent", "pending", "success", "failed"}]
    /\ attemptCount \in [Deliveries -> Nat]
    /\ isActive \in [Subscriptions -> BOOLEAN]
    /\ response \in [Events -> [answer : {"none", "accepted", "error"},
                              processed : Nat, failed : Nat]]
    /\ task \in [Deliveries -> TaskState]
    /\ noId \subseteq Deliveries
    /\ highQueue \in Seq(Deliveries)
    /\ pubsub \subseteq Deliveries
    /\ topic \in [Topics -> Seq(Deliveries)]
    /\ committed \in [Topics -> Nat]
    /\ position \in [Topics -> Nat]
    /\ \A t \in Topics : committed[t] <= position[t] /\ position[t] <= Len(topic[t])
    /\ handlers \subseteq Handler
    /\ notified \in [Deliveries -> Nat]
    /\ misrouted \subseteq Deliveries
    /\ lost \subseteq Deliveries \X Loss
    /\ mode \in {"up", "stopping", "down"}
    /\ kafkaHandler \in KafkaHandlers
    /\ crashes \in 0..MaxCrashes /\ signals \in 0..MaxSignals /\ faults \in 0..MaxFaults

Init ==
    /\ status = [d \in Deliveries |-> "absent"]
    /\ attemptCount = [d \in Deliveries |-> 0]
    /\ isActive \in [Subscriptions -> BOOLEAN]
    /\ response = [e \in Events |-> NoResponse]
    /\ task = [d \in Deliveries |-> "none"]
    /\ noId = {}
    /\ highQueue = <<>>
    /\ pubsub = {}
    /\ topic = [t \in Topics |-> <<>>]
    /\ committed = [t \in Topics |-> 0]
    /\ position = [t \in Topics |-> 0]
    /\ handlers = {}
    /\ notified = [d \in Deliveries |-> 0]
    /\ misrouted = {}
    /\ lost = {}
    /\ mode = "up"
    /\ kafkaHandler \in KafkaHandlers
    /\ crashes = 0
    /\ signals = 0
    /\ faults = 0

Running == mode # "down"
Loses(d, how) == lost' = lost \cup {<<d, how>>}
MoreMay == crashes + signals + faults < MaxDisturbances
Fault   == faults < MaxFaults /\ MoreMay /\ faults' = faults + 1
\* Once the shutdown began, connections close: what is still issued may fail.
Fails   == IF mode = "stopping" THEN UNCHANGED faults ELSE Fault

-----------------------------------------------------------------------------
(* processWebhookEvent and processSubscription *)

\* One task for each active subscription to the event's type.  allSettled gets
\* one element, the array of the tasks, and is fulfilled at once: the answer
\* counts 1 and 0 whatever becomes of the tasks.
TriggerEvent(e) ==
    /\ Running
    /\ response[e] = NoResponse
    /\ response' = [response EXCEPT ![e] = [answer |-> "accepted", processed |-> 1, failed |-> 0]]
    /\ task' = [d \in Deliveries |->
                  IF d[1] = e /\ d[2] \in listens[e] /\ isActive[d[2]]
                    THEN "create" ELSE task[d]]
    /\ UNCHANGED <<dbVars, noId, channelVars, consumerVars, processVars, lost>>

\* The subscriptions cannot be read: the error is answered and no task starts.
TriggerEventFails(e) ==
    /\ Running /\ Fails
    /\ response[e] = NoResponse
    /\ response' = [response EXCEPT ![e] = [NoResponse EXCEPT !.answer = "error"]]
    /\ UNCHANGED <<dbVars, task, noId, channelVars, consumerVars,
                   mode, kafkaHandler, crashes, signals, lost>>

\* createDelivery stores the record...
CreateDelivery(d) ==
    /\ Running /\ task[d] = "create"
    /\ status' = [status EXCEPT ![d] = "pending"]
    /\ task' = [task EXCEPT ![d] = "send"]
    /\ UNCHANGED <<attemptCount, isActive, response, noId,
                   channelVars, consumerVars, processVars, lost>>

\* ...or fails, which it swallows: the task goes on without an id, whether or
\* not the record was stored.  (A payload of null never is: the model of the
\* record requires one.)
CreateDeliveryFails(d) ==
    /\ Running /\ task[d] = "create" /\ Fails
    /\ status' \in {status, [status EXCEPT ![d] = "pending"]}
    /\ noId' = noId \cup {d}
    /\ task' = [task EXCEPT ![d] = "send"]
    /\ UNCHANGED <<attemptCount, isActive, response,
                   channelVars, consumerVars, mode, kafkaHandler, crashes, signals, lost>>

\* The error is rethrown and nobody awaits the task: the unhandled rejection
\* is an uncaughtException, whose handler shuts the process down.
Reject(d) ==
    /\ task' = [task EXCEPT ![d] = "rejected"]
    /\ mode' = "stopping"

\* An event without a payload: the record is refused likewise, and the signature
\* of an undefined payload throws.  (Counted as a failure, for each task.)
PayloadMissing(d) ==
    /\ Running /\ task[d] = "create" /\ Fails
    /\ Reject(d)
    /\ UNCHANGED <<dbVars, response, noId, channelVars,
                   consumerVars, kafkaHandler, crashes, signals, lost>>

PushNothing(d) ==
    /\ Running /\ task[d] = "send" /\ Priority(d) = "HIGH"
    /\ task' = [task EXCEPT ![d] = "publish"]
    /\ UNCHANGED <<dbVars, response, noId, channelVars,
                   consumerVars, processVars, lost>>

\* HIGH: lpush, then publish of the same message.
PushHigh(d) ==
    /\ Running /\ task[d] = "send" /\ Priority(d) = "HIGH"
    /\ highQueue' = Append(highQueue, d)
    /\ task' = [task EXCEPT ![d] = "publish"]
    /\ UNCHANGED <<dbVars, response, noId, pubsub, topic,
                   consumerVars, processVars, lost>>

PushHighFails(d) ==
    /\ Running /\ task[d] = "send" /\ Priority(d) = "HIGH" /\ Fails
    /\ \/ highQueue' = Append(highQueue, d) /\ UNCHANGED lost
       \/ Loses(d, "unsent") /\ UNCHANGED highQueue
    /\ Reject(d)
    /\ UNCHANGED <<dbVars, response, noId, pubsub, topic,
                   consumerVars, kafkaHandler, crashes, signals>>

Publish(d) ==
    /\ Running /\ task[d] = "publish"
    /\ pubsub' = pubsub \cup {d}
    /\ task' = [task EXCEPT ![d] = "stats"]
    /\ UNCHANGED <<dbVars, response, noId, highQueue, topic,
                   consumerVars, processVars, lost>>

\* No subscriber is connected: the command succeeds and the message is gone.
PublishUnheard(d) ==
    /\ Running /\ task[d] = "publish" /\ Fails
    /\ task' = [task EXCEPT ![d] = "stats"]
    /\ UNCHANGED <<dbVars, response, noId, channelVars,
                   consumerVars, mode, kafkaHandler, crashes, signals, lost>>

PublishFails(d) ==
    /\ Running /\ task[d] = "publish" /\ Fails
    /\ Reject(d)
    /\ UNCHANGED <<dbVars, response, noId, channelVars,
                   consumerVars, kafkaHandler, crashes, signals, lost>>

ProduceNothing(d) ==
    /\ Running /\ task[d] = "send" /\ Priority(d) \in Topics
    /\ task' = [task EXCEPT ![d] = "stats"]
    /\ UNCHANGED <<dbVars, response, noId, channelVars,
                   consumerVars, processVars, lost>>

\* MEDIUM and LOW: kafka_produce.
Produce(d) ==
    /\ Running /\ task[d] = "send" /\ Priority(d) \in Topics
    /\ topic' = [topic EXCEPT ![Priority(d)] = Append(@, d)]
    /\ task' = [task EXCEPT ![d] = "stats"]
    /\ UNCHANGED <<dbVars, response, noId, highQueue, pubsub,
                   consumerVars, processVars, lost>>

\* The answer was lost and the producer, which is not idempotent, sent again.
ProduceTwice(d) ==
    /\ Running /\ task[d] = "send" /\ Priority(d) \in Topics /\ Fault
    /\ topic' = [topic EXCEPT ![Priority(d)] = @ \o <<d, d>>]
    /\ task' = [task EXCEPT ![d] = "stats"]
    /\ UNCHANGED <<dbVars, response, noId, highQueue, pubsub,
                   consumerVars, mode, kafkaHandler, crashes, signals, lost>>

\* kafka_produce swallows its error: the task goes on as if it had succeeded.
ProduceFails(d) ==
    /\ Running /\ task[d] = "send" /\ Priority(d) \in Topics /\ Fails
    /\ task' = [task EXCEPT ![d] = "stats"]
    /\ Loses(d, "unsent")
    /\ UNCHANGED <<dbVars, response, noId, channelVars,
                   consumerVars, mode, kafkaHandler, crashes, signals>>

\* updateRealtimeStats, which swallows its error (WebhookStats has what it writes).
UpdateStats(d) ==
    /\ Running /\ task[d] = "stats"
    /\ task' = [task EXCEPT ![d] = "done"]
    /\ UNCHANGED <<dbVars, response, noId, channelVars, consumerVars, processVars, lost>>

-----------------------------------------------------------------------------
(* The consumers *)

Handling(paths) == {h \in handlers : h.path \in paths}
Started(p, d, s) == handlers' = handlers \cup {[path |-> p, id |-> d, stage |-> s]}

PeekHigh ==
    /\ Running /\ highQueue # <<>> /\ Handling({"queue"}) = {}
    /\ Started("queue", Head(highQueue), "update")
    /\ UNCHANGED <<dbVars, producerVars, channelVars, committed, position,
                   notified, misrouted, processVars, lost>>

\* processRedisQueue handles one message at a time; rpop removes it first.
PopHigh ==
    /\ Running /\ highQueue # <<>> /\ Handling({"queue"}) = {}
    /\ Started("queue", Head(highQueue), "update")
    /\ highQueue' = Tail(highQueue)
    /\ UNCHANGED <<dbVars, producerVars, pubsub, topic, committed, position,
                   notified, misrouted, processVars, lost>>

EmitOnReceive(d) ==
    /\ Running /\ d \in pubsub
    /\ Started("pubsub", d, "emit")
    /\ pubsub' = pubsub \ {d}
    /\ UNCHANGED <<dbVars, producerVars, highQueue, topic, committed, position,
                   notified, misrouted, processVars, lost>>

\* The redisSub 'message' listener: any number of calls at a time.
ReceivePublished(d) ==
    /\ Running /\ d \in pubsub
    /\ Started("pubsub", d, "update")
    /\ pubsub' = pubsub \ {d}
    /\ UNCHANGED <<dbVars, producerVars, highQueue, topic, committed, position,
                   notified, misrouted, processVars, lost>>

EachMessageNotAwaited(t) ==
    /\ Running /\ kafkaHandler # "none"
    /\ position[t] < Len(topic[t])
    /\ Started("pubsub", topic[t][position[t] + 1],
               IF kafkaHandler = "webhook" THEN "update" ELSE "authEvent")
    /\ position' = [position EXCEPT ![t] = @ + 1]
    /\ UNCHANGED <<dbVars, producerVars, channelVars, committed,
                   notified, misrouted, processVars, lost>>

EachMessageAgain(t) ==
    /\ Running /\ kafkaHandler # "none"
    /\ position[t] < Len(topic[t])
    /\ Started(t, topic[t][position[t] + 1],
               IF kafkaHandler = "webhook" THEN "update" ELSE "authEvent")
    /\ UNCHANGED <<dbVars, producerVars, channelVars, committed, position,
                   notified, misrouted, processVars, lost>>

\* kafkajs gives the next message of a topic to the eachMessage handler it runs,
\* if a consumer started (KafkaConsumerStartup says which one does).
EachMessage(t) ==
    /\ Running /\ kafkaHandler # "none"
    /\ Handling(Topics) = {} /\ position[t] < Len(topic[t])
    /\ Started(t, topic[t][position[t] + 1],
               IF kafkaHandler = "webhook" THEN "update" ELSE "authEvent")
    /\ UNCHANGED <<dbVars, producerVars, channelVars, committed, position,
                   notified, misrouted, processVars, lost>>

\* A handler returns; for Kafka the message counts as handled.
Finish(h) ==
    /\ handlers' = handlers \ {h}
    /\ position' = [t \in Topics |-> position[t] + IF h.path = t THEN 1 ELSE 0]

\* updateDeliveryStatus: an id that is undefined matches no record.
UpdatedStatus(h) == IF h.id \in noId THEN status ELSE [status EXCEPT ![h.id] = "success"]

MarkAndReset(h) ==
    /\ Running /\ h \in handlers /\ h.stage = "update"
    /\ status' = UpdatedStatus(h)
    /\ attemptCount' = IF h.id \in noId THEN attemptCount ELSE [attemptCount EXCEPT ![h.id] = 0]
    /\ handlers' = (handlers \ {h}) \cup {[h EXCEPT !.stage = "emit"]}
    /\ UNCHANGED <<isActive, producerVars, channelVars, committed,
                   position, notified, misrouted, processVars, lost>>

\* processDelivery: the record becomes 'success', whatever it was.
MarkSuccess(h) ==
    /\ Running /\ h \in handlers /\ h.stage = "update"
    /\ status' = UpdatedStatus(h)
    /\ handlers' = (handlers \ {h}) \cup {[h EXCEPT !.stage = "emit"]}
    /\ UNCHANGED <<attemptCount, isActive, producerVars, channelVars, committed,
                   position, notified, misrouted, processVars, lost>>

\* The update fails, applied or not: the error is logged, the message is done
\* with ("@todo - Requeue Delivery if failed").  A pub/sub message is no loss: the
\* list had one of the same delivery.
MarkSuccessFails(h) ==
    /\ Running /\ h \in handlers /\ h.stage = "update" /\ Fails
    /\ \/ status' = UpdatedStatus(h) /\ UNCHANGED lost
       \/ /\ IF h.path = "pubsub" THEN UNCHANGED lost ELSE Loses(h.id, "unmarked")
          /\ UNCHANGED status
    /\ Finish(h)
    /\ UNCHANGED <<attemptCount, isActive, producerVars, channelVars, committed,
                   notified, misrouted, mode, kafkaHandler, crashes, signals>>

\* Everything connected is notified.
EmitNotification(h) ==
    /\ Running /\ h \in handlers /\ h.stage = "emit"
    /\ notified' = [notified EXCEPT ![h.id] = @ + 1]
    /\ Finish(h)
    /\ UNCHANGED <<dbVars, producerVars, channelVars, committed, misrouted, processVars, lost>>

\* processAuthEvent on a webhook message: an event with undefined fields.
EmitAuthEvent(h) ==
    /\ Running /\ h \in handlers /\ h.stage = "authEvent"
    /\ misrouted' = misrouted \cup {h.id}
    /\ Finish(h)
    /\ UNCHANGED <<dbVars, producerVars, channelVars, committed, notified, processVars, lost>>

\* kafkajs commits what was handled, at the end of a batch.
Commit(t) ==
    /\ Running /\ committed[t] < position[t]
    /\ committed' = [committed EXCEPT ![t] = position[t]]
    /\ UNCHANGED <<dbVars, producerVars, channelVars, position, handlers,
                   notified, misrouted, processVars, lost>>

\* The session of the consumer times out between two messages: it rejoins the
\* group and goes on from what was committed.
SessionLost ==
    /\ Running /\ Fault
    /\ Handling(Topics) = {} /\ position # committed
    /\ position' = committed
    /\ UNCHANGED <<dbVars, producerVars, channelVars, committed, handlers,
                   notified, misrouted, mode, kafkaHandler, crashes, signals, lost>>

-----------------------------------------------------------------------------
(* The process *)

\* What a process that ends loses for good: the messages not sent yet, and the
\* one popped from the list whose record is not marked.
LostAtEnd ==
    {<<d, "unsent">> : d \in {c \in Deliveries : task[c] = "send"}} \cup
    {<<h.id, "cut">> : h \in {k \in Handling({"queue"}) : k.stage = "update"}}

ResumeFromLatest ==
    /\ mode' = "down"
    /\ task' = [d \in Deliveries |-> IF task[d] \in InMemory THEN "lost" ELSE task[d]]
    /\ pubsub' = {}
    /\ handlers' = {}
    /\ lost' = lost \cup LostAtEnd
    /\ position' = [t \in Topics |-> Len(topic[t])]
    /\ UNCHANGED <<dbVars, response, noId, highQueue, topic, committed,
                   notified, misrouted, kafkaHandler, signals, faults>>

\* What a process that ends takes with it; the next one reads on from the
\* offsets committed.
LoseMemory ==
    /\ mode' = "down"
    /\ task' = [d \in Deliveries |-> IF task[d] \in InMemory THEN "lost" ELSE task[d]]
    /\ pubsub' = {}
    /\ handlers' = {}
    /\ lost' = lost \cup LostAtEnd
    /\ position' = committed
    /\ UNCHANGED <<dbVars, response, noId, highQueue, topic, committed,
                   notified, misrouted, kafkaHandler, signals, faults>>

\* SIGTERM or SIGINT.
Signal ==
    /\ mode = "up" /\ signals < MaxSignals /\ MoreMay
    /\ mode' = "stopping" /\ signals' = signals + 1
    /\ UNCHANGED <<dbVars, producerVars, channelVars, consumerVars, kafkaHandler, crashes, faults, lost>>

\* The shutdown ends in process.exit(0); it waits for no task and no handler.
Exit  == mode = "stopping" /\ LoseMemory /\ UNCHANGED crashes

Crash == Running /\ crashes < MaxCrashes /\ MoreMay /\ LoseMemory /\ crashes' = crashes + 1

Restart ==
    /\ mode = "down"
    /\ mode' = "up"
    /\ kafkaHandler' \in KafkaHandlers
    /\ UNCHANGED <<dbVars, producerVars, channelVars, consumerVars, crashes, signals, faults, lost>>

-----------------------------------------------------------------------------
TaskStep(d) ==
    \/ CreateDelivery(d) \/ CreateDeliveryFails(d) \/ PayloadMissing(d)
    \/ PushHigh(d) \/ PushHighFails(d)
    \/ Publish(d) \/ PublishUnheard(d) \/ PublishFails(d)
    \/ Produce(d) \/ ProduceTwice(d) \/ ProduceFails(d)
    \/ UpdateStats(d)

HandlerStep(h) ==
    \/ MarkSuccess(h) \/ MarkSuccessFails(h) \/ EmitNotification(h) \/ EmitAuthEvent(h)

ConsumerStep ==
    \/ PopHigh
    \/ \E d \in Deliveries : ReceivePublished(d)
    \/ \E t \in Topics : EachMessage(t)
    \/ \E h \in handlers : HandlerStep(h)
    \/ \E t \in Topics : Commit(t)
    \/ SessionLost

ProcessStep == Signal \/ Exit \/ Crash \/ Restart

Next ==
    \/ \E e \in Events : TriggerEvent(e) \/ TriggerEventFails(e)
    \/ \E d \in Deliveries : TaskStep(d)
    \/ ConsumerStep
    \/ ProcessStep

Spec == Init /\ [][Next]_vars

\* What goes on by itself in a running process: the continuations of the tasks
\* and handlers, the loops that pop and poll.  An exit that began may be held up;
\* events, signals, crashes and starts come from outside and need never happen.
TasksGoOn == \E d \in Deliveries : TaskStep(d)
ConsumersGoOn ==
    \/ PopHigh
    \/ \E d \in Deliveries : ReceivePublished(d)
    \/ \E t \in Topics : EachMessage(t) \/ Commit(t)
    \/ \E h \in handlers : HandlerStep(h)

Fairness == WF_vars(TasksGoOn) /\ WF_vars(ConsumersGoOn)

LiveSpec == Spec /\ Fairness

-----------------------------------------------------------------------------
(* Properties *)

InQueue(d)      == \E i \in DOMAIN highQueue : highQueue[i] = d
OnTopic(d, pos) == \E t \in Topics : \E i \in (pos[t] + 1)..Len(topic[t]) : topic[t][i] = d
Popped(d)       == \E h \in Handling({"queue"}) : h.id = d /\ h.stage = "update"

\* Where a delivery that is not marked can be: with its task, in the list or with
\* the one handler of the list, on a topic; or it came to nothing in one of the
\* ways the code has for that.  The copy in pub/sub and its handlers do not count.
AccountedFor(d) ==
    \/ task[d] = "send"
    \/ InQueue(d) \/ Popped(d) \/ OnTopic(d, position)
    \/ d \in noId \/ d \in misrouted
    \/ \E how \in Loss : <<d, how>> \in lost

\* What a message can come to: the record was marked, or the message carried no
\* id, or went to the user-auth handler, or the update of the record failed.
Settled(d) ==
    \/ status[d] = "success"
    \/ d \in noId \/ d \in misrouted
    \/ <<d, "unmarked">> \in lost

\* No delivery goes missing, whichever handler reads the topics, whatever fails and
\* whenever the process is killed or signalled: one that is still 'pending' is on
\* its way, or was given up at a step known by name - its record got no id, its
\* message was not sent, was taken for an auth event, was popped by a process that
\* then ended, or the update of its record failed.
PendingIsAccountedFor ==
    \A d \in Deliveries : status[d] = "pending" => AccountedFor(d)

\* An offset is committed only past messages that were settled, whatever fails and
\* whenever the process ends: a kill between two messages, a rejoin or a shutdown
\* skips none.  What the topics do lose is the update that fails ("@todo").
CommittedIsSettled ==
    \A t \in Topics : \A i \in 1..committed[t] : Settled(topic[t][i])

\* 'Webhook Delivery Successfully' is told of a delivery that has its id only after
\* its record was marked, over any channel, retransmission or restart.  Of one whose
\* createDelivery failed it is told just the same, and its record never is marked.
NoticeTrueIfId ==
    \A d \in Deliveries : notified[d] > 0 => (status[d] = "success" <=> d \notin noId)

\* Clients hear of a delivery at most once for each channel it took; once more for
\* a copy only after a failure or a restart.
NotifiedPerChannel ==
    \A d \in Deliveries : notified[d] <=
        IF Priority(d) = "HIGH" THEN 2
        ELSE (1 + faults) * (1 + faults + crashes + signals)

\* "Proper error propagation": a task that was rejected is counted as failed.
RejectionReported ==
    \A d \in Deliveries : task[d] = "rejected" => response[d[1]].failed > 0

\* Once the process stays up, what the Redis list holds gets marked, unless a
\* process ended just after popping it; and what a topic holds past the committed
\* offset gets handled while a consumer runs, whatever ended before.  Beside that
\* only a missing id, the user-auth handler and a failing update are excuses.
EventuallyDelivered ==
    <>[](mode = "up") =>
        \A d \in Deliveries : InQueue(d) \/ OnTopic(d, committed) ~>
            \/ Settled(d)
            \/ Priority(d) = "HIGH" /\ <<d, "cut">> \in lost
            \/ Priority(d) \in Topics /\ kafkaHandler = "none"
=============================================================================
