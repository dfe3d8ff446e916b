------------------------ MODULE WebhookSystemProofs ------------------------
(***************************************************************************)
(* For any events, subscriptions and priorities, and any number of         *)
(* crashes, signals and failures: what the pipeline drops, commits and     *)
(* notifies, by itself and beside requests that retry its deliveries; and  *)
(* that all it does to the records is what WebhookRetry allows for.        *)
(*                                                                         *)
(* Part 1 is about the channels, the consumers and the process, which no   *)
(* retry touches.  Part 2 is about the records, and about how often        *)
(* clients hear of a delivery.  Both are used for the pipeline alone       *)
(* (part 3) and for the system (part 4), to which part 5 carries what is   *)
(* proved of WebhookRetry.                                                 *)
(***************************************************************************)
EXTENDS WebhookSystem, SequenceTheorems, FiniteSetTheorems, TLAPS

RecordType == status \in [Deliveries -> {"absent", "pending", "success", "failed"}]

PipelineType ==
    /\ response \in [Events -> [answer : {"none", "accepted", "error"},
                              processed : Nat, failed : Nat]]
    /\ task \in [Deliveries -> TaskState]
    /\ noId \subseteq Deliveries
    /\ highQueue \in Seq(Deliveries)
    /\ pubsub \subseteq Deliveries
    /\ topic \in [Topics -> Seq(Deliveries)]
    /\ committed \in [Topics -> Nat]
    /\ position \in [Topics -> Nat]
    /\ handlers \subseteq Handler
    /\ notified \in [Deliveries -> Nat]
    /\ misrouted \subseteq Deliveries
    /\ lost \subseteq Deliveries \X Loss
    /\ mode \in {"up", "stopping", "down"}
    /\ kafkaHandler \in KafkaHandlers
    /\ crashes \in 0..MaxCrashes /\ signals \in 0..MaxSignals /\ faults \in 0..MaxFaults

Offsets == \A t \in Topics : committed[t] <= position[t] /\ position[t] <= Len(topic[t])

\* The consumer has one handler at a time, and its message is the next one.
OneAtATime ==
    \A h, k \in handlers : h.path \in Topics /\ k.path \in Topics => h = k

AtPosition ==
    \A h \in handlers : h.path \in Topics =>
        /\ position[h.path] < Len(topic[h.path])
        /\ topic[h.path][position[h.path] + 1] = h.id

\* A shutdown, and a delivery without an id, have their cause.
Calm == faults = 0 /\ signals = 0 => mode # "stopping" /\ noId = {}

\* An event that was not answered has no task.
NotAsked ==
    \A d \in Deliveries : response[d[1]] = NoResponse => task[d] = "none"

Channels == PipelineType /\ Offsets /\ OneAtATime /\ AtPosition /\ Calm /\ NotAsked

-----------------------------------------------------------------------------
(* Part 1: the channels *)

LEMMA PairOfDelivery ==
    ASSUME NEW d \in Deliveries
    PROVE  d[1] \in Events /\ d[2] \in Subscriptions
BY DEF Deliveries

LEMMA PriorityOf ==
    ASSUME NEW d \in Deliveries
    PROVE  Priority(d) \in {"HIGH", "MEDIUM", "LOW"}
BY PairOfDelivery, PipelineConstants DEF Priority

\* A topic grows at its end, by a delivery whose task sends it.
Grows(t) ==
    /\ Len(topic[t]) <= Len(topic'[t])
    /\ \A i \in 1..Len(topic[t]) : topic'[t][i] = topic[t][i]
    /\ \A i \in 1..Len(topic'[t]) : i > Len(topic[t]) => task[topic'[t][i]] = "send"

LEMMA Appended ==
    ASSUME NEW S, NEW s \in Seq(S), NEW x \in S
    PROVE  /\ Append(s, x) \in Seq(S) /\ Len(Append(s, x)) = Len(s) + 1
           /\ \A i \in 1..Len(s) : Append(s, x)[i] = s[i]
           /\ Append(s, x)[Len(s) + 1] = x
BY AppendProperties

LEMMA AppendedTwice ==
    ASSUME NEW S, NEW s \in Seq(S), NEW x \in S
    PROVE  /\ s \o <<x, x>> \in Seq(S) /\ Len(s \o <<x, x>>) = Len(s) + 2
           /\ \A i \in 1..Len(s) : (s \o <<x, x>>)[i] = s[i]
           /\ \A i \in 1..Len(s \o <<x, x>>) : i > Len(s) => (s \o <<x, x>>)[i] = x
<1>1. <<x, x>> \in Seq(S) /\ Len(<<x, x>>) = 2
    OBVIOUS
<1>2. s \o <<x, x>> \in Seq(S) /\ Len(s \o <<x, x>>) = Len(s) + 2
    BY <1>1, ConcatProperties
<1>3. Len(s) \in Nat
    BY LenProperties
<1>4. \A i \in 1..Len(s) : (s \o <<x, x>>)[i] = s[i]
    BY <1>1, <1>2, <1>3, ConcatProperties
<1>5. ASSUME NEW i \in 1..Len(s \o <<x, x>>), i > Len(s)
      PROVE  (s \o <<x, x>>)[i] = x
    <2>1. i - Len(s) \in 1..2 /\ (s \o <<x, x>>)[i] = <<x, x>>[i - Len(s)]
        BY <1>1, <1>2, <1>3, <1>5, ConcatProperties
    <2>2. <<x, x>>[i - Len(s)] = x
        BY <2>1
    <2>3. QED
        BY <2>1, <2>2
<1>6. QED
    BY <1>2, <1>4, <1>5

LEMMA TopicsGrow ==
    ASSUME PipelineType, Next
    PROVE  topic' \in [Topics -> Seq(Deliveries)] /\ \A t \in Topics : Grows(t)
<1>1. CASE UNCHANGED topic
    <2>1. \A t \in Topics : Len(topic[t]) \in Nat
        BY LenProperties DEF PipelineType
    <2>2. QED
        BY <1>1, <2>1 DEF Grows, PipelineType
<1>2. ASSUME NEW d \in Deliveries, task[d] = "send", Priority(d) \in Topics,
             topic' = [topic EXCEPT ![Priority(d)] = Append(@, d)]
      PROVE  topic' \in [Topics -> Seq(Deliveries)] /\ \A t \in Topics : Grows(t)
    <2> DEFINE s == topic[Priority(d)]
    <2>1. s \in Seq(Deliveries) /\ \A t \in Topics : topic[t] \in Seq(Deliveries) /\ Len(topic[t]) \in Nat
        BY <1>2, LenProperties DEF PipelineType
    <2>2. /\ Append(s, d) \in Seq(Deliveries) /\ Len(Append(s, d)) = Len(s) + 1
          /\ \A i \in 1..Len(s) : Append(s, d)[i] = s[i]
          /\ Append(s, d)[Len(s) + 1] = d
        BY <2>1, Appended
    <2>3. \A t \in Topics : topic'[t] = IF t = Priority(d) THEN Append(s, d) ELSE topic[t]
        BY <1>2 DEF PipelineType
    <2>4. topic' \in [Topics -> Seq(Deliveries)]
        BY <1>2, <2>2 DEF PipelineType
    <2> HIDE DEF s
    <2>5. ASSUME NEW t \in Topics PROVE Grows(t)
        <3>1. CASE t = Priority(d)
            <4>1. topic'[t] = Append(s, d) /\ topic[t] = s /\ Len(s) \in Nat
                BY <2>1, <2>3, <3>1 DEF s
            <4>2. QED
                BY <1>2, <2>2, <4>1 DEF Grows
        <3>2. CASE t # Priority(d)
            BY <2>1, <2>3, <3>2 DEF Grows
        <3>3. QED
            BY <3>1, <3>2
    <2>6. QED
        BY <2>4, <2>5
<1>3. ASSUME NEW d \in Deliveries, task[d] = "send", Priority(d) \in Topics,
             topic' = [topic EXCEPT ![Priority(d)] = @ \o <<d, d>>]
      PROVE  topic' \in [Topics -> Seq(Deliveries)] /\ \A t \in Topics : Grows(t)
    <2> DEFINE s == topic[Priority(d)]
    <2>1. s \in Seq(Deliveries) /\ \A t \in Topics : topic[t] \in Seq(Deliveries) /\ Len(topic[t]) \in Nat
        BY <1>3, LenProperties DEF PipelineType
    <2>2. /\ s \o <<d, d>> \in Seq(Deliveries) /\ Len(s \o <<d, d>>) = Len(s) + 2
          /\ \A i \in 1..Len(s) : (s \o <<d, d>>)[i] = s[i]
          /\ \A i \in 1..Len(s \o <<d, d>>) : i > Len(s) => (s \o <<d, d>>)[i] = d
        BY <2>1, AppendedTwice
    <2>3. \A t \in Topics : topic'[t] = IF t = Priority(d) THEN s \o <<d, d>> ELSE topic[t]
        BY <1>3 DEF PipelineType
    <2>4. topic' \in [Topics -> Seq(Deliveries)]
        BY <1>3, <2>2 DEF PipelineType
    <2> HIDE DEF s
    <2>5. ASSUME NEW t \in Topics PROVE Grows(t)
        <3>1. CASE t = Priority(d)
            <4>1. topic'[t] = s \o <<d, d>> /\ topic[t] = s /\ Len(s) \in Nat
                BY <2>1, <2>3, <3>1 DEF s
            <4>2. QED
                BY <1>3, <2>2, <4>1 DEF Grows
        <3>2. CASE t # Priority(d)
            BY <2>1, <2>3, <3>2 DEF Grows
        <3>3. QED
            BY <3>1, <3>2
    <2>6. QED
        BY <2>4, <2>5
<1>4. \/ UNCHANGED topic
      \/ \E d \in Deliveries : task[d] = "send" /\ Priority(d) \in Topics /\
            \/ topic' = [topic EXCEPT ![Priority(d)] = Append(@, d)]
            \/ topic' = [topic EXCEPT ![Priority(d)] = @ \o <<d, d>>]
    BY DEF Next, TaskStep, ConsumerStep, HandlerStep, ProcessStep, TriggerEvent, TriggerEventFails,
           CreateDelivery, CreateDeliveryFails, PayloadMissing, PushHigh, PushHighFails, Publish, PublishUnheard,
           PublishFails, Produce, ProduceTwice, ProduceFails, UpdateStats, PopHigh,
           ReceivePublished, EachMessage, MarkSuccess, MarkSuccessFails, EmitNotification,
           EmitAuthEvent, Commit, SessionLost, Signal, Exit, Crash, LoseMemory, Restart,
           channelVars
<1>5. QED
    BY <1>1, <1>2, <1>3, <1>4

\* The Redis list grows by a delivery whose task sends it, and loses its head.
LEMMA QueueMoves ==
    ASSUME PipelineType, Next
    PROVE  /\ highQueue' \in Seq(Deliveries)
           /\ \A i \in 1..Len(highQueue') :
                \/ \E j \in 1..Len(highQueue) : highQueue'[i] = highQueue[j]
                \/ task[highQueue'[i]] = "send"
<1>1. highQueue \in Seq(Deliveries) /\ Len(highQueue) \in Nat
    BY LenProperties DEF PipelineType
<1>2. \/ UNCHANGED highQueue
      \/ \E d \in Deliveries : task[d] = "send" /\ highQueue' = Append(highQueue, d)
      \/ highQueue # <<>> /\ highQueue' = Tail(highQueue)
    BY DEF Next, TaskStep, ConsumerStep, HandlerStep, ProcessStep, TriggerEvent, TriggerEventFails,
           CreateDelivery, CreateDeliveryFails, PayloadMissing, PushHigh, PushHighFails, Publish, PublishUnheard,
           PublishFails, Produce, ProduceTwice, ProduceFails, UpdateStats, PopHigh,
           ReceivePublished, EachMessage, MarkSuccess, MarkSuccessFails, EmitNotification,
           EmitAuthEvent, Commit, SessionLost, Signal, Exit, Crash, LoseMemory, Restart,
           channelVars
<1>3. ASSUME NEW d \in Deliveries, task[d] = "send", NEW q \in Seq(Deliveries), q = Append(highQueue, d)
      PROVE  \A i \in 1..Len(q) : \/ \E j \in 1..Len(highQueue) : q[i] = highQueue[j]
                                 \/ task[q[i]] = "send"
    <2>1. /\ Len(q) = Len(highQueue) + 1 /\ q[Len(highQueue) + 1] = d
          /\ \A i \in 1..Len(highQueue) : q[i] = highQueue[i]
        BY <1>1, <1>3, Appended
    <2>2. \A i \in 1..Len(q) : i \in 1..Len(highQueue) \/ i = Len(highQueue) + 1
        BY <1>1, <2>1
    <2>3. QED
        BY <1>3, <2>1, <2>2
<1>4. ASSUME highQueue # <<>>, NEW q \in Seq(Deliveries), q = Tail(highQueue)
      PROVE  \A i \in 1..Len(q) : \E j \in 1..Len(highQueue) : q[i] = highQueue[j]
    <2>1. /\ Len(q) = Len(highQueue) - 1
          /\ \A i \in 1..Len(q) : q[i] = highQueue[i + 1]
        BY <1>1, <1>4, HeadTailProperties
    <2>2. \A i \in 1..Len(q) : i + 1 \in 1..Len(highQueue)
        BY <1>1, <2>1
    <2>3. QED
        BY <2>1, <2>2
<1>5. highQueue' \in Seq(Deliveries)
    BY <1>1, <1>2, Appended, HeadTailProperties
<1>6. QED
    BY <1>2, <1>3, <1>4, <1>5

\* Every message and every offset has its type.
LEMMA ChannelTypes ==
    ASSUME PipelineType
    PROVE  /\ Len(highQueue) \in Nat
           /\ \A i \in 1..Len(highQueue) : highQueue[i] \in Deliveries
           /\ \A t \in Topics :
                /\ topic[t] \in Seq(Deliveries) /\ Len(topic[t]) \in Nat
                /\ \A i \in 1..Len(topic[t]) : topic[t][i] \in Deliveries
                /\ position[t] \in Nat /\ committed[t] \in Nat
BY LenProperties, ElementOfSeq DEF PipelineType

\* What came to nothing is remembered.
LEMMA LostAtEndType ==
    ASSUME PipelineType
    PROVE  LostAtEnd \subseteq Deliveries \X Loss
<1>1. \A d \in Deliveries : <<d, "unsent">> \in Deliveries \X Loss
    BY DEF Loss
<1>2. \A h \in handlers : <<h.id, "cut">> \in Deliveries \X Loss
    BY DEF PipelineType, Handler, Loss
<1>3. QED
    BY <1>1, <1>2 DEF LostAtEnd, Handling

LEMMA LostGrows ==
    ASSUME PipelineType, Next
    PROVE  lost' \subseteq Deliveries \X Loss /\ lost \subseteq lost'
<1>1. lost \subseteq Deliveries \X Loss /\ \A h \in handlers : h.id \in Deliveries
    BY DEF PipelineType, Handler
<1>2. \A d \in Deliveries, how \in Loss : <<d, how>> \in Deliveries \X Loss
    OBVIOUS
<1>3. \/ lost' = lost
      \/ \E d \in Deliveries, how \in Loss : lost' = lost \cup {<<d, how>>}
      \/ lost' = lost \cup LostAtEnd
    <2>1. CASE \E e \in Events : TriggerEvent(e) \/ TriggerEventFails(e)
        BY <2>1 DEF TriggerEvent, TriggerEventFails
    <2>2. ASSUME NEW d \in Deliveries, TaskStep(d)
          PROVE  lost' = lost \/ \E how \in Loss : lost' = lost \cup {<<d, how>>}
        BY <2>2 DEF TaskStep, CreateDelivery, CreateDeliveryFails, PayloadMissing, PushHigh,
                    PushHighFails, Publish, PublishUnheard, PublishFails, Produce, ProduceTwice,
                    ProduceFails, UpdateStats, Loses, Loss
    <2>3. CASE ConsumerStep
        <3>1. ASSUME NEW h \in handlers, HandlerStep(h)
              PROVE  lost' = lost \/ lost' = lost \cup {<<h.id, "unmarked">>}
            BY <3>1 DEF HandlerStep, MarkSuccess, MarkSuccessFails, EmitNotification,
                        EmitAuthEvent, Loses
        <3>2. CASE ~\E h \in handlers : HandlerStep(h)
            BY <2>3, <3>2 DEF ConsumerStep, PopHigh, ReceivePublished, EachMessage, Commit, SessionLost
        <3>3. QED
            BY <1>1, <3>1, <3>2 DEF Loss
    <2>4. CASE ProcessStep
        BY <2>4 DEF ProcessStep, Signal, Exit, Crash, LoseMemory, Restart
    <2>5. QED
        BY <2>1, <2>2, <2>3, <2>4 DEF Next
<1>4. QED
    BY <1>1, <1>2, <1>3, LostAtEndType

LEMMA ChannelsBegin == Init => Channels
<1> SUFFICES ASSUME Init PROVE Channels
    OBVIOUS
<1>1. Len(highQueue) = 0 /\ \A t \in Topics : Len(topic[t]) = 0
    BY EmptySeq DEF Init
<1>2. PipelineType
    BY PipelineConstants DEF Init, PipelineType, TaskState, NoResponse
<1>3. Offsets
    BY <1>1 DEF Init, Offsets
<1>4. OneAtATime /\ AtPosition /\ Calm /\ NotAsked
    BY DEF Init, OneAtATime, AtPosition, Calm, NotAsked
<1>5. QED
    BY <1>2, <1>3, <1>4 DEF Channels

\* An event starts tasks; it leaves the channels and the consumers alone.
LEMMA ChannelsEvent ==
    ASSUME Channels, NEW e \in Events, TriggerEvent(e) \/ TriggerEventFails(e)
    PROVE  Channels'
<1> USE DEF Channels, channelVars, consumerVars, processVars
<1>1. UNCHANGED <<channelVars, consumerVars, noId, mode, kafkaHandler, crashes, signals>>
    BY DEF TriggerEvent, TriggerEventFails
<1>2. faults' = faults \/ (faults < MaxFaults /\ faults' = faults + 1)
      \/ (mode = "stopping" /\ faults' = faults)
    BY DEF TriggerEvent, TriggerEventFails, Fails, Fault
<1>3. \A d \in Deliveries : task'[d] = task[d] \/ (d[1] = e /\ task'[d] = "create")
    BY DEF TriggerEvent, TriggerEventFails, PipelineType
<1>4. response[e] = NoResponse /\ task' \in [Deliveries -> TaskState]
    BY DEF TriggerEvent, TriggerEventFails, PipelineType, TaskState, InMemory
<1>5. /\ response' \in [Events -> [answer : {"none", "accepted", "error"},
                                    processed : Nat, failed : Nat]]
      /\ response'[e] # NoResponse /\ \A f \in Events : f # e => response'[f] = response[f]
    <2> DEFINE Answer == [answer : {"none", "accepted", "error"}, processed : Nat, failed : Nat]
    <2>1. PICK a \in Answer : a # NoResponse /\ response' = [response EXCEPT ![e] = a]
        <3>1. CASE TriggerEvent(e)
            BY <3>1 DEF TriggerEvent, NoResponse
        <3>2. CASE TriggerEventFails(e)
            <4>1. /\ [NoResponse EXCEPT !.answer = "error"] \in Answer
                  /\ [NoResponse EXCEPT !.answer = "error"] # NoResponse
                BY DEF NoResponse
            <4>2. QED
                BY <3>2, <4>1 DEF TriggerEventFails
        <3>3. QED
            BY <3>1, <3>2
    <2>2. response \in [Events -> Answer]
        BY DEF PipelineType
    <2>3. QED
        BY <2>1, <2>2
<1>6. PipelineType'
    BY <1>1, <1>2, <1>4, <1>5, LostGrows, PipelineConstants DEF PipelineType, Next
<1>7. Offsets' /\ OneAtATime' /\ AtPosition' /\ Calm'
    BY <1>1, <1>2, PipelineConstants DEF Offsets, OneAtATime, AtPosition, Calm, PipelineType
<1>8. NotAsked'
    BY <1>3, <1>5, PairOfDelivery DEF NotAsked
<1>9. QED
    BY <1>6, <1>7, <1>8

\* A step of a task moves the task on, and may put its delivery into a channel.
LEMMA TaskMoves ==
    ASSUME PipelineType, NEW d \in Deliveries, TaskStep(d)
    PROVE  /\ task'[d] \notin {"none", "create"} /\ \A c \in Deliveries : c # d => task'[c] = task[c]
           /\ task[d] # "none" /\ task' \in [Deliveries -> TaskState]
           /\ UNCHANGED <<response, consumerVars, kafkaHandler, crashes, signals>>
           /\ faults' = faults \/ (faults < MaxFaults /\ faults' = faults + 1)
           /\ noId' \in {noId, noId \cup {d}} /\ mode' \in {mode, "stopping"}
           /\ noId' # noId \/ mode' # mode => mode = "stopping" \/ faults' = faults + 1
BY DEF PipelineType, TaskStep, CreateDelivery, CreateDeliveryFails, PayloadMissing, PushHigh, PushHighFails,
       Publish, PublishUnheard, PublishFails, Produce, ProduceTwice, ProduceFails, UpdateStats,
       Reject, Fails, Fault, TaskState, InMemory, consumerVars, processVars

LEMMA TaskSends ==
    ASSUME PipelineType, NEW d \in Deliveries, TaskStep(d)
    PROVE  /\ pubsub' = pubsub \/ (task[d] = "publish" /\ pubsub' = pubsub \cup {d})
BY DEF PipelineType, TaskStep, CreateDelivery, CreateDeliveryFails, PayloadMissing, PushHigh, PushHighFails,
       Publish, PublishUnheard, PublishFails, Produce, ProduceTwice, ProduceFails, UpdateStats,
       Reject, Fails, Fault, channelVars

LEMMA ChannelsTask ==
    ASSUME Channels, NEW d \in Deliveries, TaskStep(d)
    PROVE  Channels'
<1>1. PipelineType /\ Offsets /\ OneAtATime /\ AtPosition /\ Calm /\ NotAsked
    BY DEF Channels
<1>2. /\ task'[d] \notin {"none", "create"} /\ \A c \in Deliveries : c # d => task'[c] = task[c]
      /\ task[d] # "none" /\ task' \in [Deliveries -> TaskState]
      /\ UNCHANGED <<response, consumerVars, kafkaHandler, crashes, signals>>
      /\ faults' = faults \/ (faults < MaxFaults /\ faults' = faults + 1)
      /\ noId' \in {noId, noId \cup {d}} /\ mode' \in {mode, "stopping"}
      /\ noId' # noId \/ mode' # mode => mode = "stopping" \/ faults' = faults + 1
    BY <1>1, TaskMoves
<1>3. /\ pubsub' = pubsub \/ (task[d] = "publish" /\ pubsub' = pubsub \cup {d})
    BY <1>1, TaskSends
<1>4. topic' \in [Topics -> Seq(Deliveries)] /\ \A t \in Topics : Grows(t)
    BY <1>1, TopicsGrow DEF Next
<1>5. highQueue' \in Seq(Deliveries)
    BY <1>1, QueueMoves DEF Next
<1>6. lost' \subseteq Deliveries \X Loss
    BY <1>1, LostGrows DEF Next
<1>7. PipelineType'
    BY <1>1, <1>2, <1>3, <1>4, <1>5, <1>6, PipelineConstants DEF PipelineType, consumerVars
<1>8. Offsets' /\ OneAtATime' /\ AtPosition'
    <2>1. \A t \in Topics : Len(topic[t]) \in Nat /\ Len(topic'[t]) \in Nat /\ position[t] \in Nat
                           /\ committed[t] \in Nat
        <3>1. \A t \in Topics : topic'[t] \in Seq(Deliveries)
            BY <1>4
        <3>2. \A t \in Topics : Len(topic'[t]) \in Nat
            BY <3>1, LenProperties
        <3>3. \A t \in Topics : Len(topic[t]) \in Nat /\ position[t] \in Nat /\ committed[t] \in Nat
            BY <1>1, ChannelTypes
        <3>4. QED
            BY <3>2, <3>3
    <2>2. Offsets' /\ OneAtATime'
        BY <1>1, <1>2, <1>4, <2>1 DEF Offsets, OneAtATime, Grows, consumerVars
    <2>3. ASSUME NEW h \in handlers, h.path \in Topics
          PROVE  position[h.path] < Len(topic'[h.path])
                 /\ topic'[h.path][position[h.path] + 1] = h.id
        <3>1. position[h.path] + 1 \in 1..Len(topic[h.path])
              /\ topic[h.path][position[h.path] + 1] = h.id
            BY <1>1, <2>1, <2>3 DEF AtPosition
        <3>2. Grows(h.path)
            BY <1>4, <2>3
        <3>3. QED
            BY <2>1, <2>3, <3>1, <3>2 DEF Grows
    <2>4. QED
        BY <1>2, <2>2, <2>3 DEF AtPosition, consumerVars
<1>9. Calm'
    BY <1>1, <1>2 DEF Calm, PipelineType
<1>10. NotAsked'
    BY <1>1, <1>2 DEF NotAsked
<1>11. QED
    BY <1>7, <1>8, <1>9, <1>10 DEF Channels

\* What no step of a consumer changes.
LEMMA ConsumerLeaves ==
    ASSUME PipelineType, ConsumerStep
    PROVE  /\ UNCHANGED <<attemptCount, isActive, response, task, noId, topic,
                          mode, kafkaHandler, crashes, signals>>
           /\ faults' = faults \/ (faults < MaxFaults /\ faults' = faults + 1)
           /\ pubsub' \subseteq pubsub
BY DEF ConsumerStep, HandlerStep, PopHigh, ReceivePublished, EachMessage, MarkSuccess,
       MarkSuccessFails, EmitNotification, EmitAuthEvent, Commit, SessionLost, Fails, Fault,
       dbVars, producerVars, channelVars, processVars

\* How a consumer's step changes the handlers and the offsets.
Starts(p, d, s) ==
    /\ handlers' = handlers \cup {[path |-> p, id |-> d, stage |-> s]}
    /\ UNCHANGED <<committed, position>>
Marks(h) ==
    /\ handlers' = (handlers \ {h}) \cup {[h EXCEPT !.stage = "emit"]}
    /\ UNCHANGED <<committed, position>>
Ends(h)    == Finish(h) /\ UNCHANGED committed
Commits(t) ==
    /\ committed' = [committed EXCEPT ![t] = position[t]]
    /\ UNCHANGED <<handlers, position>>
Rejoins ==
    /\ Handling(Topics) = {} /\ position' = committed
    /\ UNCHANGED <<handlers, committed>>

LEMMA ConsumerMoves ==
    ASSUME ConsumerStep
    PROVE  \/ highQueue # <<>> /\ Starts("queue", Head(highQueue), "update")
           \/ \E d \in pubsub : Starts("pubsub", d, "update")
           \/ \E t \in Topics, s \in {"update", "authEvent"} :
                /\ Handling(Topics) = {} /\ position[t] < Len(topic[t])
                /\ Starts(t, topic[t][position[t] + 1], s)
           \/ \E h \in handlers : Marks(h) \/ Ends(h)
           \/ \E t \in Topics : Commits(t)
           \/ Rejoins
BY DEF ConsumerStep, HandlerStep, PopHigh, ReceivePublished, EachMessage, MarkSuccess,
       MarkSuccessFails, EmitNotification, EmitAuthEvent, Commit, SessionLost,
       Starts, Marks, Ends, Commits, Rejoins, Started

\* What a step of a consumer has to keep, while topic and task stay.
ConsumerSafe ==
    /\ handlers \subseteq Handler
    /\ position \in [Topics -> Nat] /\ committed \in [Topics -> Nat]
    /\ Offsets /\ OneAtATime /\ AtPosition

LEMMA ConsumerStaysSafe ==
    ASSUME Channels, ConsumerStep
    PROVE  ConsumerSafe'
<1>1. PipelineType /\ Offsets /\ OneAtATime /\ AtPosition
    BY DEF Channels
<1>2. topic' = topic
    BY <1>1, ConsumerLeaves
<1>3. /\ Len(highQueue) \in Nat /\ highQueue \in Seq(Deliveries)
      /\ \A t \in Topics :
            /\ topic[t] \in Seq(Deliveries) /\ Len(topic[t]) \in Nat
            /\ \A i \in 1..Len(topic[t]) : topic[t][i] \in Deliveries
            /\ position[t] \in Nat /\ committed[t] \in Nat
    BY <1>1, ChannelTypes DEF PipelineType
<1>4. /\ handlers \subseteq Handler
      /\ position \in [Topics -> Nat] /\ committed \in [Topics -> Nat]
    BY <1>1 DEF PipelineType
<1> USE DEF Offsets, OneAtATime, AtPosition
<1>5. ASSUME NEW p \in {"queue", "pubsub"}, NEW d \in Deliveries, Starts(p, d, "update")
      PROVE  ConsumerSafe'
    <2> DEFINE k == [path |-> p, id |-> d, stage |-> "update"]
    <2>1. k \in Handler /\ k.path \notin Topics /\ k.id = d
        BY DEF Handler, Topics
    <2>2. handlers' = handlers \cup {k} /\ UNCHANGED <<committed, position>>
        BY <1>5 DEF Starts
    <2> HIDE DEF k
    <2>3. QED
        BY <1>1, <1>2, <1>4, <1>5, <2>1, <2>2 DEF ConsumerSafe
<1>6. ASSUME NEW t \in Topics, NEW s \in {"update", "authEvent"}, Handling(Topics) = {},
             position[t] < Len(topic[t]), Starts(t, topic[t][position[t] + 1], s)
      PROVE  ConsumerSafe'
    <2> DEFINE d == topic[t][position[t] + 1]
               k == [path |-> t, id |-> d, stage |-> s]
    <2>1. position[t] + 1 \in 1..Len(topic[t])
        BY <1>3, <1>6
    <2>2. d \in Deliveries
        BY <1>3, <2>1
    <2>3. k \in Handler /\ k.path = t /\ k.id = d
        BY <1>6, <2>2 DEF Handler
    <2>4. handlers' = handlers \cup {k} /\ UNCHANGED <<committed, position>>
        BY <1>6 DEF Starts
    <2>5. \A h \in handlers : h.path \notin Topics
        BY <1>6 DEF Handling
    <2>6. topic[t][position[t] + 1] = d
        OBVIOUS
    <2> HIDE DEF k, d
    <2>7. QED
        BY <1>1, <1>2, <1>4, <1>6, <2>2, <2>3, <2>4, <2>5, <2>6 DEF ConsumerSafe
<1>7. ASSUME NEW h \in handlers, Marks(h)
      PROVE  ConsumerSafe'
    <2> DEFINE k == [h EXCEPT !.stage = "emit"]
    <2>1. k \in Handler /\ k.path = h.path /\ k.id = h.id
        BY <1>4 DEF Handler
    <2>2. handlers' = (handlers \ {h}) \cup {k} /\ UNCHANGED <<committed, position>>
        BY <1>7 DEF Marks
    <2> HIDE DEF k
    <2>3. QED
        BY <1>1, <1>2, <1>4, <2>1, <2>2 DEF ConsumerSafe
<1>8. ASSUME NEW h \in handlers, Ends(h)
      PROVE  ConsumerSafe'
    <2>1. /\ handlers' = handlers \ {h} /\ committed' = committed
          /\ position' = [t \in Topics |-> position[t] + IF h.path = t THEN 1 ELSE 0]
        BY <1>8 DEF Ends, Finish
    <2>2. position' \in [Topics -> Nat]
        BY <1>3, <2>1
    <2>3. \A t \in Topics : position'[t] = IF h.path = t THEN position[t] + 1 ELSE position[t]
        BY <1>3, <2>1
    <2>4. Offsets'
        BY <1>1, <1>2, <1>3, <2>1, <2>3
    <2>5. OneAtATime'
        BY <1>1, <2>1
    <2>6. ASSUME NEW k \in handlers', k.path \in Topics
          PROVE  position'[k.path] = position[k.path]
        BY <1>1, <2>1, <2>3, <2>6
    <2>7. AtPosition'
        BY <1>1, <1>2, <2>1, <2>6
    <2>8. QED
        BY <1>2, <1>4, <2>1, <2>2, <2>4, <2>5, <2>7 DEF ConsumerSafe
<1>9. ASSUME NEW t \in Topics, Commits(t)
      PROVE  ConsumerSafe'
    BY <1>1, <1>2, <1>3, <1>4, <1>9 DEF ConsumerSafe, Commits
<1>10. ASSUME Rejoins PROVE ConsumerSafe'
    <2>1. \A h \in handlers : h.path \notin Topics
        BY <1>10 DEF Rejoins, Handling
    <2>2. QED
        BY <1>1, <1>2, <1>3, <1>4, <1>10, <2>1 DEF ConsumerSafe, Rejoins
<1>11. highQueue # <<>> => Head(highQueue) \in Deliveries
    BY <1>3, EmptySeq
<1>12. pubsub \subseteq Deliveries
    BY <1>1 DEF PipelineType
<1>13. QED
    BY <1>5, <1>6, <1>7, <1>8, <1>9, <1>10, <1>11, <1>12, ConsumerMoves

LEMMA ConsumerTells ==
    ASSUME PipelineType, ConsumerStep
    PROVE  notified' \in [Deliveries -> Nat] /\ misrouted' \subseteq Deliveries
<1>1. \/ notified' = notified
      \/ \E h \in handlers : notified' = [notified EXCEPT ![h.id] = @ + 1]
    BY DEF ConsumerStep, HandlerStep, PopHigh, ReceivePublished, EachMessage, MarkSuccess,
           MarkSuccessFails, EmitNotification, EmitAuthEvent, Commit, SessionLost
<1>2. misrouted' = misrouted \/ \E h \in handlers : misrouted' = misrouted \cup {h.id}
    BY DEF ConsumerStep, HandlerStep, PopHigh, ReceivePublished, EachMessage, MarkSuccess,
           MarkSuccessFails, EmitNotification, EmitAuthEvent, Commit, SessionLost
<1>3. notified \in [Deliveries -> Nat] /\ misrouted \subseteq Deliveries
      /\ \A h \in handlers : h.id \in Deliveries
    BY DEF PipelineType, Handler
<1>4. \A d \in Deliveries : [notified EXCEPT ![d] = @ + 1] \in [Deliveries -> Nat]
    BY <1>3
<1>5. QED
    BY <1>1, <1>2, <1>3, <1>4

LEMMA ChannelsConsumer ==
    ASSUME Channels, ConsumerStep
    PROVE  Channels'
<1>1. PipelineType /\ Calm /\ NotAsked
    BY DEF Channels
<1>2. /\ UNCHANGED <<attemptCount, isActive, response, task, noId, topic,
                     mode, kafkaHandler, crashes, signals>>
      /\ faults' = faults \/ (faults < MaxFaults /\ faults' = faults + 1)
      /\ pubsub' \subseteq pubsub
    BY <1>1, ConsumerLeaves
<1>3. ConsumerSafe'
    BY ConsumerStaysSafe
<1>4. notified' \in [Deliveries -> Nat] /\ misrouted' \subseteq Deliveries
    BY <1>1, ConsumerTells
<1>5. highQueue' \in Seq(Deliveries)
    BY <1>1, QueueMoves DEF Next
<1>6. lost' \subseteq Deliveries \X Loss
    BY <1>1, LostGrows DEF Next
<1>7. PipelineType'
    BY <1>1, <1>2, <1>3, <1>4, <1>5, <1>6, PipelineConstants DEF PipelineType, ConsumerSafe
<1>8. Calm' /\ NotAsked'
    BY <1>1, <1>2 DEF Calm, NotAsked, PipelineType
<1>9. QED
    BY <1>3, <1>7, <1>8 DEF Channels, ConsumerSafe

\* A process that ends takes the pub/sub messages and the handlers with it.
LEMMA ChannelsProcess ==
    ASSUME Channels, ProcessStep
    PROVE  Channels'
<1>1. PipelineType /\ Offsets /\ OneAtATime /\ AtPosition /\ Calm /\ NotAsked
    BY DEF Channels
<1>2. CASE Signal
    BY <1>1, <1>2, PipelineConstants
       DEF Signal, Channels, PipelineType, Offsets, OneAtATime, AtPosition, Calm,
                      NotAsked, dbVars, producerVars, channelVars, consumerVars
<1>3. CASE Restart
    BY <1>1, <1>3 DEF Restart, Channels, PipelineType, Offsets, OneAtATime, AtPosition, Calm,
                      NotAsked, dbVars, producerVars, channelVars, consumerVars
<1>4. ASSUME LoseMemory, crashes' \in 0..MaxCrashes PROVE Channels'
    <2>1. PipelineType'
        <3>1. lost' \subseteq Deliveries \X Loss
            BY <1>1, <1>4, LostAtEndType DEF LoseMemory, PipelineType
        <3>2. QED
            BY <1>1, <1>4, <3>1 DEF LoseMemory, PipelineType, TaskState
    <2>2. \A d \in Deliveries : task[d] = "none" => task'[d] = "none"
        BY <1>1, <1>4 DEF LoseMemory, PipelineType, InMemory
    <2>3. Offsets' /\ OneAtATime' /\ AtPosition' /\ Calm'
        BY <1>1, <1>4, ChannelTypes DEF LoseMemory, Offsets, OneAtATime, AtPosition, Calm
    <2>4. NotAsked'
        BY <1>1, <1>4, <2>2 DEF LoseMemory, NotAsked
    <2>5. QED
        BY <2>1, <2>3, <2>4 DEF Channels
<1>5. CASE Exit
    BY <1>1, <1>4, <1>5 DEF Exit, PipelineType
<1>6. CASE Crash
    BY <1>1, <1>4, <1>6, PipelineConstants DEF Crash, PipelineType
<1>7. QED
    BY <1>2, <1>3, <1>5, <1>6 DEF ProcessStep

LEMMA ChannelsKept ==
    ASSUME Channels, Next
    PROVE  Channels'
BY ChannelsEvent, ChannelsTask, ChannelsConsumer, ChannelsProcess DEF Next

-----------------------------------------------------------------------------
(* Part 2: the messages and the records *)

Message(d) ==
    \/ \E i \in 1..Len(highQueue) : highQueue[i] = d
    \/ d \in pubsub
    \/ \E t \in Topics : \E i \in 1..Len(topic[t]) : topic[t][i] = d
    \/ \E h \in handlers : h.id = d

\* Whatever else happens, the handlers and the pub/sub messages come from what
\* was there.
LEMMA HandlersMove ==
    ASSUME Next
    PROVE  \/ handlers' \in {handlers, {}} /\ ~ConsumerStep
           \/ ConsumerStep
BY DEF Next, TaskStep, ProcessStep, TriggerEvent, TriggerEventFails,
       CreateDelivery, CreateDeliveryFails, PayloadMissing, PushHigh, PushHighFails, Publish, PublishUnheard,
       PublishFails, Produce, ProduceTwice, ProduceFails, UpdateStats,
       Signal, Exit, Crash, LoseMemory, Restart, consumerVars

LEMMA PubsubMoves ==
    ASSUME Next, NEW d \in pubsub'
    PROVE  d \in pubsub \/ task[d] = "publish"
BY DEF Next, TaskStep, ConsumerStep, HandlerStep, ProcessStep, TriggerEvent, TriggerEventFails,
       CreateDelivery, CreateDeliveryFails, PayloadMissing, PushHigh, PushHighFails, Publish, PublishUnheard,
       PublishFails, Produce, ProduceTwice, ProduceFails, UpdateStats, PopHigh,
       ReceivePublished, EachMessage, MarkSuccess, MarkSuccessFails, EmitNotification,
       EmitAuthEvent, Commit, SessionLost, Signal, Exit, Crash, LoseMemory, Restart,
       channelVars

\* A handler is one there was, that marked its record or did not, or is new and
\* has a message.
LEMMA HandlersFrom ==
    ASSUME Channels, Next, NEW k \in handlers'
    PROVE  \/ k \in handlers
           \/ \E h \in handlers : Marks(h) /\ k = [h EXCEPT !.stage = "emit"]
           \/ k.stage \in {"update", "authEvent"} /\ Message(k.id)
<1>1. PipelineType
    BY DEF Channels
<1>2. CASE ~ConsumerStep
    BY <1>2, HandlersMove
<1>3. CASE highQueue # <<>> /\ Starts("queue", Head(highQueue), "update")
    <2>1. 1 \in 1..Len(highQueue) /\ Head(highQueue) = highQueue[1]
        BY <1>1, <1>3, HeadTailProperties, EmptySeq, LenProperties DEF PipelineType
    <2>2. QED
        BY <1>3, <2>1 DEF Starts, Message
<1>4. ASSUME NEW d \in pubsub, Starts("pubsub", d, "update")
      PROVE  k \in handlers \/ (k.stage = "update" /\ Message(k.id))
    BY <1>4 DEF Starts, Message
<1>5. ASSUME NEW t \in Topics, NEW s \in {"update", "authEvent"}, position[t] < Len(topic[t]),
             Starts(t, topic[t][position[t] + 1], s)
      PROVE  k \in handlers \/ (k.stage \in {"update", "authEvent"} /\ Message(k.id))
    <2>1. position[t] + 1 \in 1..Len(topic[t])
        BY <1>1, <1>5, ChannelTypes
    <2>2. QED
        BY <1>5, <2>1 DEF Starts, Message
<1>6. ASSUME NEW h \in handlers, Marks(h) \/ Ends(h)
      PROVE  k \in handlers \/ (Marks(h) /\ k = [h EXCEPT !.stage = "emit"])
    BY <1>6 DEF Marks, Ends, Finish
<1>7. CASE Rejoins \/ \E t \in Topics : Commits(t)
    BY <1>7 DEF Rejoins, Commits
<1>8. CASE ConsumerStep
    BY <1>3, <1>4, <1>5, <1>6, <1>7, <1>8, ConsumerMoves
<1>9. QED
    BY <1>2, <1>8

\* A new message of a delivery comes from the task that sends it.
LEMMA MessagesFrom ==
    ASSUME Channels, Next, NEW d \in Deliveries, Message(d)'
    PROVE  Message(d) \/ task[d] \in {"send", "publish"}
<1>1. PipelineType
    BY DEF Channels
<1>2. CASE \E i \in 1..Len(highQueue') : highQueue'[i] = d
    BY <1>1, <1>2, QueueMoves DEF Message
<1>3. CASE d \in pubsub'
    BY <1>3, PubsubMoves DEF Message
<1>4. ASSUME NEW t \in Topics, NEW i \in 1..Len(topic'[t]), topic'[t][i] = d
      PROVE  Message(d) \/ task[d] = "send"
    <2>1. Grows(t) /\ topic'[t] \in Seq(Deliveries)
        BY <1>1, TopicsGrow
    <2>2. Len(topic[t]) \in Nat /\ Len(topic'[t]) \in Nat
        BY <1>1, <2>1, ChannelTypes, LenProperties
    <2>3. i \in 1..Len(topic[t]) \/ i > Len(topic[t])
        BY <2>2
    <2>4. QED
        BY <1>4, <2>1, <2>3 DEF Grows, Message
<1>5. ASSUME NEW k \in handlers', k.id = d PROVE Message(d)
    <2>1. \A h \in handlers : [h EXCEPT !.stage = "emit"].id = h.id
        BY <1>1 DEF PipelineType, Handler
    <2>2. QED
        BY <1>5, <2>1, HandlersFrom DEF Message
<1>6. QED
    BY <1>2, <1>3, <1>4, <1>5 DEF Message

Asking(d)  == task[d] \in {"none", "create"}
Sending(d) == task[d] \in {"send", "publish", "stats"}

\* A task has its record created once, from then on it never asks again.
LEMMA TasksMoveOn ==
    ASSUME Channels, RecordType, Next, NEW d \in Deliveries
    PROVE  /\ ~Asking(d) => ~Asking(d)'
           /\ Sending(d)' => Sending(d) \/ (task[d] = "create" /\ (d \in noId' \/ status'[d] = "pending"))
           /\ noId \subseteq noId'
<1>1. PipelineType /\ NotAsked
    BY DEF Channels
<1>2. ASSUME NEW e \in Events, TriggerEvent(e) \/ TriggerEventFails(e)
      PROVE  /\ ~Asking(d) => ~Asking(d)'
             /\ Sending(d)' => Sending(d)
             /\ noId' = noId
    BY <1>1, <1>2 DEF TriggerEvent, TriggerEventFails, NotAsked, PipelineType, Asking, Sending
<1>3. ASSUME NEW c \in Deliveries, TaskStep(c)
      PROVE  /\ ~Asking(d) => ~Asking(d)'
             /\ noId \subseteq noId'
    BY <1>1, <1>3, TaskMoves DEF Asking
<1>4. ASSUME NEW c \in Deliveries, TaskStep(c), Sending(d)'
      PROVE  Sending(d) \/ (task[d] = "create" /\ (d \in noId' \/ status'[d] = "pending"))
    <2>1. CASE CreateDelivery(c) \/ CreateDeliveryFails(c)
        BY <1>1, <1>4, <2>1
           DEF PipelineType, RecordType, Sending, CreateDelivery, CreateDeliveryFails
    <2>2. CASE PayloadMissing(c)
        BY <1>1, <1>4, <2>2 DEF PipelineType, Sending, PayloadMissing, Reject
    <2>3. CASE ~(CreateDelivery(c) \/ CreateDeliveryFails(c) \/ PayloadMissing(c))
        <3>1. task[c] \in {"send", "publish", "stats"} /\ \E l \in TaskState : task' = [task EXCEPT ![c] = l]
            BY <1>4, <2>3
               DEF TaskStep, PushHigh, PushHighFails, Publish, PublishUnheard, PublishFails,
                   Produce, ProduceTwice, ProduceFails, UpdateStats, Reject, TaskState, InMemory
        <3>2. QED
            BY <1>1, <1>4, <3>1 DEF PipelineType, Sending
    <2>4. QED
        BY <2>1, <2>2, <2>3
<1>5. CASE ConsumerStep
    BY <1>1, <1>5, ConsumerLeaves DEF Asking, Sending
<1>6. CASE ProcessStep
    BY <1>1, <1>6 DEF ProcessStep, Signal, Exit, Crash, LoseMemory, Restart, producerVars,
                      PipelineType, Asking, Sending, InMemory
<1>7. QED
    BY <1>2, <1>3, <1>4, <1>5, <1>6 DEF Next

\* What the pipeline does to the records: it creates one for a task, and marks
\* one for a handler.
Creates(d) == task[d] = "create" /\ status' = [status EXCEPT ![d] = "pending"]
Succeeds(h) ==
    /\ h.stage = "update" /\ h.id \notin noId
    /\ status' = [status EXCEPT ![h.id] = "success"]

LEMMA RecordsMove ==
    ASSUME Channels, Next
    PROVE  /\ UNCHANGED <<attemptCount, isActive>>
           /\ \/ status' = status
              \/ \E d \in Deliveries : Creates(d) /\ task'[d] = "send"
              \/ \E h \in handlers : Succeeds(h) /\ task' = task /\ noId' = noId
<1>1. PipelineType
    BY DEF Channels
<1>2. CASE ~(\E d \in Deliveries : TaskStep(d)) /\ ~ConsumerStep
    BY <1>2 DEF Next, ProcessStep, TriggerEvent, TriggerEventFails, Signal, Exit, Crash,
                LoseMemory, Restart, dbVars
<1>3. ASSUME NEW d \in Deliveries, TaskStep(d)
      PROVE  /\ UNCHANGED <<attemptCount, isActive>>
             /\ status' = status \/ (Creates(d) /\ task'[d] = "send")
    <2>1. /\ UNCHANGED <<attemptCount, isActive>>
          /\ status' = status \/ (Creates(d) /\ task' = [task EXCEPT ![d] = "send"])
        BY <1>3 DEF TaskStep, CreateDelivery, CreateDeliveryFails, PayloadMissing, PushHigh, PushHighFails,
                    Publish, PublishUnheard, PublishFails, Produce, ProduceTwice, ProduceFails,
                    UpdateStats, Creates, dbVars
    <2>2. QED
        BY <1>1, <2>1 DEF PipelineType
<1>4. CASE ConsumerStep
    <2>1. UNCHANGED <<attemptCount, isActive, task, noId>>
        BY <1>1, <1>4, ConsumerLeaves
    <2>2. status' = status \/ \E h \in handlers : Succeeds(h)
        BY <1>4 DEF ConsumerStep, HandlerStep, PopHigh, ReceivePublished, EachMessage,
                    MarkSuccess, MarkSuccessFails, UpdatedStatus, EmitNotification, EmitAuthEvent,
                    Commit, SessionLost, Succeeds, dbVars
    <2>3. QED
        BY <2>1, <2>2
<1>5. QED
    BY <1>2, <1>3, <1>4

\* A delivery has no record before its task asks for one; once it is sent, it
\* has one unless the task got none back.
Records ==
    /\ RecordType
    /\ \A d \in Deliveries : Asking(d) => status[d] = "absent" /\ ~Message(d)
    /\ \A d \in Deliveries \ noId : Message(d) \/ Sending(d) => status[d] # "absent"

LEMMA RecordsBegin == Init => Records
<1> SUFFICES ASSUME Init PROVE Records
    OBVIOUS
<1>1. Len(highQueue) = 0 /\ \A t \in Topics : Len(topic[t]) = 0
    BY EmptySeq DEF Init
<1>2. \A d \in Deliveries : ~Message(d)
    BY <1>1 DEF Init, Message
<1>3. QED
    BY <1>2 DEF Init, Records, RecordType, Sending

LEMMA RecordsKept ==
    ASSUME Channels, Records, Next
    PROVE  Records'
<1>1. /\ RecordType
      /\ \A d \in Deliveries : Asking(d) => status[d] = "absent" /\ ~Message(d)
      /\ \A d \in Deliveries \ noId : Message(d) \/ Sending(d) => status[d] # "absent"
    BY DEF Records
<1>2. \/ status' = status
      \/ \E d \in Deliveries : Creates(d) /\ task'[d] = "send"
      \/ \E h \in handlers : Succeeds(h) /\ task' = task /\ noId' = noId
    BY RecordsMove
<1>3. \A h \in handlers : h.id \in Deliveries /\ Message(h.id)
    BY DEF Channels, PipelineType, Handler, Message
<1>4. /\ RecordType'
      /\ \A d \in Deliveries : status[d] # "absent" => status'[d] # "absent"
      /\ \A d \in Deliveries : status'[d] = status[d] \/ ~Asking(d)'
    BY <1>1, <1>2, <1>3 DEF RecordType, Creates, Succeeds, Asking
<1>5. ASSUME NEW d \in Deliveries, Asking(d)' PROVE status'[d] = "absent" /\ ~Message(d)'
    <2>1. Asking(d)
        BY <1>1, <1>5, TasksMoveOn
    <2>2. status'[d] = "absent"
        BY <1>1, <1>4, <1>5, <2>1
    <2>3. ~Message(d)'
        BY <1>1, <2>1, MessagesFrom DEF Asking
    <2>4. QED
        BY <2>2, <2>3
<1>6. ASSUME NEW d \in Deliveries, d \notin noId', Message(d)' \/ Sending(d)'
      PROVE  status'[d] # "absent"
    <2>1. d \notin noId
        BY <1>1, <1>6, TasksMoveOn
    <2>2. Message(d) \/ Sending(d) \/ status'[d] = "pending"
        BY <1>1, <1>6, TasksMoveOn, MessagesFrom DEF Sending
    <2>3. QED
        BY <1>1, <1>4, <2>1, <2>2
<1>7. QED
    BY <1>4, <1>5, <1>6 DEF Records

-----------------------------------------------------------------------------
(* What was settled *)

\* What is said of a delivery once, stays so.
LEMMA HistoryGrows ==
    ASSUME Channels, Next
    PROVE  lost \subseteq lost' /\ misrouted \subseteq misrouted' /\ noId \subseteq noId'
<1>1. PipelineType
    BY DEF Channels
<1>2. lost \subseteq lost'
    BY <1>1, LostGrows
<1>3. CASE \E e \in Events : TriggerEvent(e) \/ TriggerEventFails(e)
    BY <1>2, <1>3 DEF TriggerEvent, TriggerEventFails, consumerVars
<1>4. ASSUME NEW d \in Deliveries, TaskStep(d)
      PROVE  misrouted \subseteq misrouted' /\ noId \subseteq noId'
    BY <1>1, <1>4, TaskMoves DEF consumerVars
<1>5. CASE ConsumerStep
    <2>1. misrouted \subseteq misrouted'
        BY <1>5 DEF ConsumerStep, HandlerStep, PopHigh, ReceivePublished, EachMessage,
                    MarkSuccess, MarkSuccessFails, EmitNotification, EmitAuthEvent, Commit,
                    SessionLost
    <2>2. QED
        BY <1>1, <1>2, <1>5, <2>1, ConsumerLeaves
<1>6. CASE ProcessStep
    BY <1>2, <1>6 DEF ProcessStep, Signal, Exit, Crash, LoseMemory, Restart, consumerVars,
                      producerVars
<1>7. QED
    BY <1>2, <1>3, <1>4, <1>5, <1>6 DEF Next

\* A handler gets to its notification by marking the record.
LEMMA EmittersFrom ==
    ASSUME Next, NEW k \in handlers', k.stage = "emit", k \notin handlers
    PROVE  \E h \in handlers : MarkSuccess(h) /\ k = [h EXCEPT !.stage = "emit"]
<1>1. CASE ~ConsumerStep
    BY <1>1, HandlersMove
<1>2. CASE ConsumerStep
    BY <1>2 DEF ConsumerStep, HandlerStep, PopHigh, ReceivePublished, EachMessage, Started,
                MarkSuccess, MarkSuccessFails, EmitNotification, EmitAuthEvent, Finish, Commit,
                SessionLost
<1>3. QED
    BY <1>1, <1>2

\* The steps of a consumer that move a position: a handler returns, or the
\* consumer goes back to what was committed.
LEMMA PositionsMove ==
    ASSUME Next
    PROVE  \/ position' = position \/ position' = committed
           \/ \E h \in handlers : HandlerStep(h) /\ Finish(h)
<1>1. CASE ~ConsumerStep
    BY <1>1 DEF Next, TaskStep, ProcessStep, TriggerEvent, TriggerEventFails,
       CreateDelivery, CreateDeliveryFails, PayloadMissing, PushHigh, PushHighFails, Publish,
       PublishUnheard, PublishFails, Produce, ProduceTwice, ProduceFails, UpdateStats,
       Signal, Exit, Crash, LoseMemory, Restart, consumerVars
<1>2. ASSUME NEW h \in handlers, HandlerStep(h)
      PROVE  position' = position \/ (HandlerStep(h) /\ Finish(h))
    BY <1>2 DEF HandlerStep, MarkSuccess, MarkSuccessFails, EmitNotification, EmitAuthEvent
<1>3. CASE ConsumerStep
    BY <1>2, <1>3 DEF ConsumerStep, PopHigh, ReceivePublished, EachMessage, Commit, SessionLost
<1>4. QED
    BY <1>1, <1>3

\* A step of a handler settles its message, unless that comes from pub/sub or had
\* its record marked before.
LEMMA StepSettles ==
    ASSUME Channels, Records, NEW h \in handlers, HandlerStep(h),
           h.path # "pubsub", h.stage # "emit"
    PROVE  Settled(h.id)'
<1>1. RecordType /\ h.id \in Deliveries
    BY DEF Channels, PipelineType, Records, Handler
<1>2. noId' = noId
    <2>1. ConsumerStep
        BY DEF ConsumerStep
    <2>2. QED
        BY <2>1, ConsumerLeaves DEF Channels
<1>3. CASE MarkSuccess(h)
    BY <1>1, <1>2, <1>3 DEF MarkSuccess, UpdatedStatus, RecordType, Settled
<1>4. CASE MarkSuccessFails(h)
    BY <1>1, <1>2, <1>4 DEF MarkSuccessFails, UpdatedStatus, RecordType, Loses, Settled
<1>5. CASE EmitAuthEvent(h)
    BY <1>5 DEF EmitAuthEvent, Settled
<1>6. QED
    BY <1>3, <1>4, <1>5 DEF HandlerStep, EmitNotification

Emitted ==
    \A h \in handlers : h.stage = "emit" /\ h.id \notin noId => status[h.id] = "success"

\* Of a delivery without an id the record is never marked.
NoIdUnmarked == \A d \in noId : status[d] # "success"

\* Stronger than CommittedIsSettled: what the consumer got past was settled.
PassedIsSettled ==
    \A t \in Topics : \A i \in 1..position[t] : Settled(topic[t][i])

Marked == Emitted /\ NoIdUnmarked /\ NoticeTrueIfId /\ PassedIsSettled

LEMMA MarkedKept ==
    ASSUME Channels, Records, Marked, Next
    PROVE  Marked'
<1>1. PipelineType /\ Offsets /\ AtPosition
    BY DEF Channels
<1>2. RecordType /\ \A d \in Deliveries : Asking(d) => status[d] = "absent" /\ ~Message(d)
    BY DEF Records
<1>3. Emitted /\ NoIdUnmarked /\ NoticeTrueIfId /\ PassedIsSettled
    BY DEF Marked
<1>4. \A h \in handlers : h.id \in Deliveries
    BY <1>1 DEF PipelineType, Handler
<1>5. \A d \in Deliveries : status[d] = "success" => status'[d] = "success"
    BY <1>2, <1>4, RecordsMove DEF RecordType, Creates, Succeeds, Asking
<1>6. lost \subseteq lost' /\ misrouted \subseteq misrouted' /\ noId \subseteq noId'
    BY HistoryGrows
<1>7. Emitted'
    <2>1. ASSUME NEW k \in handlers', k.stage = "emit", k.id \notin noId'
          PROVE  status'[k.id] = "success"
        <3>1. CASE k \in handlers
            BY <1>3, <1>4, <1>5, <1>6, <2>1, <3>1 DEF Emitted
        <3>2. CASE k \notin handlers
            <4>1. PICK h \in handlers : MarkSuccess(h) /\ k = [h EXCEPT !.stage = "emit"]
                BY <2>1, <3>2, EmittersFrom
            <4>2. k.id = h.id
                BY <1>1, <4>1 DEF PipelineType, Handler
            <4>3. QED
                BY <1>2, <1>4, <1>6, <2>1, <4>1, <4>2 DEF MarkSuccess, UpdatedStatus, RecordType
        <3>3. QED
            BY <3>1, <3>2
    <2>2. QED
        BY <2>1 DEF Emitted
<1>8. NoIdUnmarked'
    <2>1. ASSUME NEW d \in noId', status'[d] = "success" PROVE FALSE
        <3>1. noId' = noId \/ \E c \in Deliveries : CreateDeliveryFails(c) /\ noId' = noId \cup {c}
            BY DEF Next, TaskStep, ConsumerStep, HandlerStep, ProcessStep, TriggerEvent,
                   TriggerEventFails, CreateDelivery, CreateDeliveryFails, PayloadMissing, PushHigh,
                   PushHighFails, Publish, PublishUnheard, PublishFails, Produce, ProduceTwice,
                   ProduceFails, UpdateStats, PopHigh, ReceivePublished, EachMessage, MarkSuccess,
                   MarkSuccessFails, EmitNotification, EmitAuthEvent, Commit, SessionLost, Signal,
                   Exit, Crash, LoseMemory, Restart, producerVars
        <3>2. ASSUME NEW c \in Deliveries, CreateDeliveryFails(c), noId' = noId \cup {c} PROVE FALSE
            <4>1. status[c] = "absent" /\ status' \in {status, [status EXCEPT ![c] = "pending"]}
                BY <1>2, <3>2 DEF CreateDeliveryFails, Asking
            <4>2. d \in Deliveries /\ status[d] # "success"
                BY <1>1, <1>3, <2>1, <3>2, <4>1 DEF PipelineType, NoIdUnmarked
            <4>3. QED
                BY <1>2, <2>1, <4>1, <4>2 DEF RecordType
        <3>3. CASE noId' = noId
            <4>1. d \in Deliveries /\ d \in noId /\ status[d] # "success"
                BY <1>1, <1>3, <2>1, <3>3 DEF PipelineType, NoIdUnmarked
            <4>2. QED
                BY <1>2, <1>4, <2>1, <4>1, RecordsMove DEF RecordType, Creates, Succeeds
        <3>4. QED
            BY <3>1, <3>2, <3>3
    <2>2. QED
        BY <2>1 DEF NoIdUnmarked
<1>9. NoticeTrueIfId'
    <2>1. ASSUME NEW d \in Deliveries, d \notin noId', notified'[d] > 0
          PROVE  status'[d] = "success"
        <3>1. notified[d] > 0 \/ \E h \in handlers : h.id = d /\ EmitNotification(h)
            BY <1>1, <2>1
               DEF PipelineType, Next, TaskStep, ConsumerStep, HandlerStep, ProcessStep,
                   TriggerEvent, TriggerEventFails, CreateDelivery, CreateDeliveryFails,
                   PayloadMissing, PushHigh, PushHighFails, Publish, PublishUnheard, PublishFails,
                   Produce, ProduceTwice, ProduceFails, UpdateStats, PopHigh, ReceivePublished,
                   EachMessage, MarkSuccess, MarkSuccessFails, EmitNotification, EmitAuthEvent,
                   Commit, SessionLost, Signal, Exit, Crash, LoseMemory, Restart, consumerVars
        <3>2. d \notin noId
            BY <1>6, <2>1
        <3>3. CASE notified[d] > 0
            BY <1>3, <1>5, <2>1, <3>2, <3>3 DEF NoticeTrueIfId
        <3>4. CASE \E h \in handlers : h.id = d /\ EmitNotification(h)
            BY <1>3, <1>5, <2>1, <3>2, <3>4 DEF Emitted, EmitNotification
        <3>5. QED
            BY <3>1, <3>3, <3>4
    <2>2. QED
        BY <1>8, <2>1 DEF NoticeTrueIfId, NoIdUnmarked
<1>10. \A d \in Deliveries : Settled(d) => Settled(d)'
    BY <1>5, <1>6 DEF Settled
<1>11. PassedIsSettled'
    <2> SUFFICES ASSUME NEW t \in Topics, NEW i \in 1..position'[t]
                 PROVE  Settled(topic[t][i])'
        BY DEF PassedIsSettled
    <2>1. /\ position[t] \in Nat /\ committed[t] \in Nat /\ Len(topic[t]) \in Nat
          /\ committed[t] <= position[t] /\ position[t] <= Len(topic[t])
          /\ \A j \in 1..Len(topic[t]) : topic[t][j] \in Deliveries /\ topic'[t][j] = topic[t][j]
        BY <1>1, ChannelTypes, TopicsGrow DEF Offsets, Grows
    <2>2. ASSUME i \in 1..position[t] PROVE Settled(topic[t][i])'
        <3>1. i \in 1..Len(topic[t])
            BY <2>1, <2>2
        <3>2. PICK d \in Deliveries : d = topic[t][i] /\ d = topic'[t][i]
            BY <2>1, <3>1
        <3>3. Settled(d)
            BY <1>3, <2>2, <3>2 DEF PassedIsSettled
        <3>4. Settled(d)'
            BY <1>10, <3>3
        <3>5. QED
            BY <3>2, <3>4 DEF Settled
    <2>3. ASSUME NEW h \in handlers, HandlerStep(h), Finish(h)
          PROVE  Settled(topic[t][i])'
        <3>1. i \in 1..position[t] \/ (h.path = t /\ i = position[t] + 1)
            BY <2>1, <2>3 DEF Finish
        <3>2. CASE h.path = t /\ i = position[t] + 1
            <4>1. topic'[t][i] = h.id /\ h.path # "pubsub"
                BY <1>1, <2>1, <3>2 DEF AtPosition, Topics
            <4>2. CASE h.stage = "emit"
                <5>1. Settled(h.id)
                    BY <1>3, <4>2 DEF Emitted, Settled
                <5>2. Settled(h.id)'
                    BY <1>4, <1>10, <5>1
                <5>3. QED
                    BY <4>1, <5>2 DEF Settled
            <4>3. CASE h.stage # "emit"
                <5>1. Settled(h.id)'
                    BY <2>3, <4>1, <4>3, StepSettles
                <5>2. QED
                    BY <4>1, <5>1 DEF Settled
            <4>4. QED
                BY <4>2, <4>3
        <3>3. QED
            BY <2>2, <3>1, <3>2
    <2>4. CASE position' = position \/ position' = committed
        BY <2>1, <2>2, <2>4
    <2>5. QED
        BY <2>3, <2>4, PositionsMove
<1>12. QED
    BY <1>7, <1>8, <1>9, <1>11 DEF Marked

-----------------------------------------------------------------------------
(* What is underway *)

\* What the task sends gets into the list or onto the topic, or is lost by name.
LEMMA SentIsAccounted ==
    ASSUME Channels, Next, NEW d \in Deliveries, task[d] = "send"
    PROVE  AccountedFor(d)'
<1>1. PipelineType /\ Offsets /\ NotAsked
    BY DEF Channels
<1> USE DEF AccountedFor
<1>2. ASSUME NEW e \in Events, TriggerEvent(e) \/ TriggerEventFails(e) PROVE task'[d] = "send"
    BY <1>1, <1>2 DEF TriggerEvent, TriggerEventFails, NotAsked, PipelineType
<1>3. ASSUME NEW c \in Deliveries, c # d, TaskStep(c) PROVE task'[d] = "send"
    BY <1>1, <1>3, TaskMoves
<1>4. CASE PushHigh(d) \/ PushHighFails(d)
    <2>1. CASE highQueue' = Append(highQueue, d)
        <3>1. highQueue \in Seq(Deliveries) /\ Len(highQueue) \in Nat
            BY <1>1, LenProperties DEF PipelineType
        <3>2. /\ highQueue' \in Seq(Deliveries) /\ Len(highQueue') = Len(highQueue) + 1
              /\ highQueue'[Len(highQueue) + 1] = d
            BY <2>1, <3>1, Appended
        <3>3. DOMAIN highQueue' = 1..Len(highQueue')
            BY <3>2, LenProperties
        <3>4. InQueue(d)'
            BY <3>1, <3>2, <3>3 DEF InQueue
        <3>5. QED
            BY <3>4
    <2>2. CASE Loses(d, "unsent")
        BY <2>2 DEF Loses, Loss
    <2>3. QED
        BY <1>4, <2>1, <2>2 DEF PushHigh, PushHighFails
<1>5. CASE ProduceFails(d)
    BY <1>5 DEF ProduceFails, Loses, Loss
<1>6. CASE Produce(d) \/ ProduceTwice(d)
    <2> DEFINE t == Priority(d)
    <2>1. /\ t \in Topics /\ position' = position
          /\ topic'[t] = Append(topic[t], d) \/ topic'[t] = topic[t] \o <<d, d>>
        BY <1>1, <1>6 DEF Produce, ProduceTwice, PipelineType, consumerVars
    <2> HIDE DEF t
    <2>2. /\ topic[t] \in Seq(Deliveries) /\ Len(topic[t]) \in Nat /\ position[t] \in Nat
          /\ position[t] <= Len(topic[t])
        BY <1>1, <2>1, ChannelTypes DEF Offsets
    <2>3. Len(topic'[t]) > Len(topic[t]) /\ Len(topic'[t]) \in Nat /\ topic'[t][Len(topic[t]) + 1] = d
        <3>1. CASE topic'[t] = Append(topic[t], d)
            BY <2>2, <3>1, Appended
        <3>2. CASE topic'[t] = topic[t] \o <<d, d>>
            <4>1. Len(topic'[t]) = Len(topic[t]) + 2
                BY <2>2, <3>2, AppendedTwice
            <4>2. Len(topic[t]) + 1 \in 1..Len(topic'[t])
                BY <2>2, <4>1
            <4>3. topic'[t][Len(topic[t]) + 1] = d
                BY <2>2, <3>2, <4>2, AppendedTwice
            <4>4. QED
                BY <2>2, <4>1, <4>3
        <3>3. QED
            BY <2>1, <3>1, <3>2
    <2>4. Len(topic[t]) + 1 \in (position'[t] + 1)..Len(topic'[t])
        BY <2>1, <2>2, <2>3
    <2>5. OnTopic(d, position)'
        BY <2>1, <2>3, <2>4 DEF OnTopic
    <2>6. QED
        BY <2>5
<1>7. CASE TaskStep(d)
    BY <1>4, <1>5, <1>6, <1>7
       DEF TaskStep, CreateDelivery, CreateDeliveryFails, PayloadMissing, Publish,
           PublishUnheard, PublishFails, UpdateStats
<1>8. CASE ConsumerStep
    BY <1>1, <1>8, ConsumerLeaves
<1>9. CASE Signal \/ Restart
    BY <1>9 DEF Signal, Restart, producerVars
<1>10. CASE Exit \/ Crash
    BY <1>10 DEF Exit, Crash, LoseMemory, LostAtEnd, Loss
<1>11. QED
    BY <1>2, <1>3, <1>7, <1>8, <1>9, <1>10 DEF Next, ProcessStep

\* What is in the list stays there, or gets to the handler of the list.
LEMMA ListedIsKept ==
    ASSUME Channels, Next, NEW d \in Deliveries, InQueue(d)
    PROVE  InQueue(d)' \/ Popped(d)'
<1>1. highQueue \in Seq(Deliveries) /\ Len(highQueue) \in Nat /\ DOMAIN highQueue = 1..Len(highQueue)
    BY LenProperties DEF Channels, PipelineType
<1>2. CASE UNCHANGED highQueue
    BY <1>2 DEF InQueue
<1>3. ASSUME NEW c \in Deliveries, highQueue' = Append(highQueue, c)
      PROVE  InQueue(d)'
    <2>1. /\ highQueue' \in Seq(Deliveries) /\ Len(highQueue') = Len(highQueue) + 1
          /\ \A i \in 1..Len(highQueue) : highQueue'[i] = highQueue[i]
        BY <1>1, <1>3, Appended
    <2>2. DOMAIN highQueue' = 1..Len(highQueue')
        BY <2>1, LenProperties
    <2>3. QED
        BY <1>1, <2>1, <2>2 DEF InQueue
<1>4. CASE PopHigh
    <2> DEFINE k == [path |-> "queue", id |-> Head(highQueue), stage |-> "update"]
    <2>1. highQueue # <<>> /\ highQueue' = Tail(highQueue) /\ k \in handlers'
        BY <1>4 DEF PopHigh, Started
    <2>2. k.path = "queue" /\ k.id = Head(highQueue) /\ k.stage = "update"
        OBVIOUS
    <2> HIDE DEF k
    <2>3. /\ Head(highQueue) = highQueue[1] /\ highQueue' \in Seq(Deliveries)
          /\ Len(highQueue') = Len(highQueue) - 1
          /\ \A i \in 1..Len(highQueue') : highQueue'[i] = highQueue[i + 1]
        BY <1>1, <2>1, HeadTailProperties
    <2>4. DOMAIN highQueue' = 1..Len(highQueue')
        BY <2>3, LenProperties
    <2>5. PICK i \in 1..Len(highQueue) : highQueue[i] = d
        BY <1>1 DEF InQueue
    <2>6. CASE i = 1
        BY <2>1, <2>2, <2>3, <2>5, <2>6 DEF Popped, Handling
    <2>7. CASE i # 1
        <3>1. i - 1 \in 1..Len(highQueue') /\ (i - 1) + 1 = i
            BY <1>1, <2>3, <2>5, <2>7
        <3>2. highQueue'[i - 1] = d
            BY <2>3, <2>5, <3>1
        <3>3. QED
            BY <2>4, <3>1, <3>2 DEF InQueue
    <2>8. QED
        BY <2>6, <2>7
<1>5. UNCHANGED highQueue \/ (\E c \in Deliveries : highQueue' = Append(highQueue, c)) \/ PopHigh
    BY DEF Next, TaskStep, ConsumerStep, HandlerStep, ProcessStep, TriggerEvent, TriggerEventFails,
           CreateDelivery, CreateDeliveryFails, PayloadMissing, PushHigh, PushHighFails, Publish,
           PublishUnheard, PublishFails, Produce, ProduceTwice, ProduceFails, UpdateStats,
           ReceivePublished, EachMessage, MarkSuccess, MarkSuccessFails, EmitNotification,
           EmitAuthEvent, Commit, SessionLost, Signal, Exit, Crash, LoseMemory, Restart,
           channelVars
<1>6. QED
    BY <1>2, <1>3, <1>4, <1>5

\* What was popped stays with its handler until that settles it, or the process
\* ends.
LEMMA PoppedIsKept ==
    ASSUME Channels, Records, Next, NEW d \in Deliveries, Popped(d)
    PROVE  Popped(d)' \/ Settled(d)' \/ <<d, "cut">> \in lost'
<1>1. PICK h \in handlers : h.path = "queue" /\ h.id = d /\ h.stage = "update"
    BY DEF Popped, Handling
<1>2. CASE h \in handlers'
    BY <1>1, <1>2 DEF Popped, Handling
<1>3. CASE HandlerStep(h)
    BY <1>1, <1>3, StepSettles
<1>4. CASE Exit \/ Crash
    BY <1>1, <1>4 DEF Exit, Crash, LoseMemory, LostAtEnd, Handling
<1>5. ASSUME NEW g \in handlers, g # h, HandlerStep(g) PROVE h \in handlers'
    BY <1>5 DEF HandlerStep, MarkSuccess, MarkSuccessFails, EmitNotification, EmitAuthEvent, Finish
<1>6. ASSUME ConsumerStep, ~\E g \in handlers : HandlerStep(g) PROVE h \in handlers'
    BY <1>6 DEF ConsumerStep, PopHigh, ReceivePublished, EachMessage, Started, Commit, SessionLost
<1>7. CASE Signal \/ Restart
    BY <1>2, <1>7 DEF Signal, Restart, consumerVars
<1>8. CASE ConsumerStep
    BY <1>2, <1>3, <1>5, <1>6, <1>8
<1>9. CASE ~ConsumerStep
    <2>1. handlers' = handlers \/ Exit \/ Crash
        BY <1>9 DEF Next, TaskStep, ProcessStep, TriggerEvent, TriggerEventFails,
           CreateDelivery, CreateDeliveryFails, PayloadMissing, PushHigh, PushHighFails, Publish,
           PublishUnheard, PublishFails, Produce, ProduceTwice, ProduceFails, UpdateStats,
           Signal, Restart, consumerVars
    <2>2. QED
        BY <1>2, <1>4, <2>1
<1>10. QED
    BY <1>8, <1>9

\* What the consumer is yet to get past, it gets to and settles, whatever makes it
\* go back; a handler at its notification had the record marked.
LEMMA OnTopicIsKept ==
    ASSUME Channels, Records, Next, NEW d \in Deliveries, OnTopic(d, position)
    PROVE  \/ OnTopic(d, position)' \/ Settled(d)'
           \/ \E h \in handlers : h.id = d /\ h.stage = "emit"
<1>1. PipelineType /\ Offsets /\ AtPosition
    BY DEF Channels
<1>2. PICK t \in Topics : \E i \in (position[t] + 1)..Len(topic[t]) : topic[t][i] = d
    BY DEF OnTopic
<1>3. PICK i \in (position[t] + 1)..Len(topic[t]) : topic[t][i] = d
    BY <1>2
<1>4. /\ position[t] \in Nat /\ committed[t] \in Nat /\ Len(topic[t]) \in Nat
      /\ committed[t] <= position[t]
    BY <1>1, ChannelTypes DEF Offsets
<1>5. i \in 1..Len(topic'[t]) /\ topic'[t][i] = d
    <2>1. Grows(t) /\ topic'[t] \in Seq(Deliveries)
        BY <1>1, TopicsGrow
    <2>2. Len(topic'[t]) \in Nat /\ i \in 1..Len(topic[t])
        BY <1>3, <1>4, <2>1, LenProperties
    <2>3. QED
        BY <1>3, <1>4, <2>1, <2>2 DEF Grows
<1>6. ASSUME position'[t] \in Nat, position'[t] < i PROVE OnTopic(d, position)'
    <2>1. Len(topic'[t]) \in Nat
        BY <1>1, TopicsGrow, LenProperties
    <2>2. i \in (position'[t] + 1)..Len(topic'[t])
        BY <1>5, <1>6, <2>1
    <2>3. QED
        BY <1>5, <2>2 DEF OnTopic
<1>7. CASE position' = position \/ position' = committed
    BY <1>3, <1>4, <1>6, <1>7
<1>8. ASSUME NEW h \in handlers, HandlerStep(h), Finish(h)
      PROVE  \/ OnTopic(d, position)' \/ Settled(d)'
             \/ h.id = d /\ h.stage = "emit"
    <2>1. position'[t] = IF h.path = t THEN position[t] + 1 ELSE position[t]
        BY <1>4, <1>8 DEF Finish
    <2>2. CASE h.path = t /\ i = position[t] + 1
        <3>1. h.id = d /\ h.path # "pubsub"
            BY <1>1, <1>3, <2>2 DEF AtPosition, Topics
        <3>2. QED
            BY <1>8, <3>1, StepSettles
    <2>3. CASE ~(h.path = t /\ i = position[t] + 1)
        BY <1>3, <1>4, <1>6, <2>1, <2>3
    <2>4. QED
        BY <2>2, <2>3
<1>9. QED
    BY <1>7, <1>8, PositionsMove

\* PendingIsAccountedFor, but for the deliveries of A, which a retry put back.
Underway(A) ==
    /\ \A d \in Deliveries \ A : status[d] = "pending" => AccountedFor(d)
    /\ \A h \in handlers : h.stage = "emit" /\ h.id \notin noId \cup A => status[h.id] # "pending"

LEMMA UnderwayKept ==
    ASSUME Channels, Records, Next, NEW A, Underway(A)
    PROVE  Underway(A)'
<1>1. PipelineType
    BY DEF Channels
<1>2. RecordType /\ \A d \in Deliveries : Asking(d) => status[d] = "absent" /\ ~Message(d)
    BY DEF Records
<1>3. \A h \in handlers : h.id \in Deliveries /\ Message(h.id)
    BY <1>1 DEF PipelineType, Handler, Message
<1>4. \A d \in Deliveries : status'[d] = "pending" =>
            status[d] = "pending" \/ (Asking(d) /\ task'[d] = "send")
    BY <1>2, <1>3, RecordsMove DEF RecordType, Creates, Succeeds, Asking
<1>5. lost \subseteq lost' /\ misrouted \subseteq misrouted' /\ noId \subseteq noId'
    BY HistoryGrows
<1>6. ASSUME NEW d \in Deliveries \ A, status'[d] = "pending"
      PROVE  AccountedFor(d)'
    <2>1. ASSUME Settled(d)' PROVE AccountedFor(d)'
        BY <1>6, <2>1 DEF Settled, AccountedFor, Loss
    <2>2. CASE status[d] # "pending"
        BY <1>4, <1>6, <2>2 DEF AccountedFor
    <2>3. CASE status[d] = "pending"
        <3>1. AccountedFor(d)
            BY <1>6, <2>3 DEF Underway
        <3>2. CASE task[d] = "send"
            BY <3>2, SentIsAccounted
        <3>3. CASE InQueue(d)
            BY <3>3, ListedIsKept DEF AccountedFor
        <3>4. CASE Popped(d)
            BY <2>1, <3>4, PoppedIsKept DEF AccountedFor, Loss
        <3>5. CASE OnTopic(d, position)
            <4>1. ASSUME NEW h \in handlers, h.id = d, h.stage = "emit" PROVE d \in noId
                BY <1>6, <2>3, <4>1 DEF Underway
            <4>2. QED
                BY <1>5, <2>1, <3>5, <4>1, OnTopicIsKept DEF AccountedFor
        <3>6. CASE d \in noId \/ d \in misrouted \/ \E how \in Loss : <<d, how>> \in lost
            BY <1>5, <3>6 DEF AccountedFor
        <3>7. QED
            BY <3>1, <3>2, <3>3, <3>4, <3>5, <3>6 DEF AccountedFor
    <2>4. QED
        BY <2>2, <2>3
<1>7. ASSUME NEW k \in handlers', k.stage = "emit", k.id \notin noId' \cup A
      PROVE  status'[k.id] # "pending"
    <2>1. CASE k \in handlers
        BY <1>2, <1>3, <1>4, <1>5, <1>7, <2>1 DEF Underway
    <2>2. CASE k \notin handlers
        <3>1. PICK h \in handlers : MarkSuccess(h) /\ k = [h EXCEPT !.stage = "emit"]
            BY <1>7, <2>2, EmittersFrom
        <3>2. k.id = h.id
            BY <1>1, <3>1 DEF PipelineType, Handler
        <3>3. QED
            BY <1>2, <1>3, <1>5, <1>7, <3>1, <3>2 DEF MarkSuccess, UpdatedStatus, RecordType
    <2>3. QED
        BY <2>1, <2>2
<1>8. QED
    BY <1>6, <1>7 DEF Underway

-----------------------------------------------------------------------------
(* How often clients hear of a delivery *)

\* Each delivery travels by the channels of its priority.
Routed ==
    /\ \A i \in 1..Len(highQueue) : Priority(highQueue[i]) = "HIGH"
    /\ \A d \in pubsub : Priority(d) = "HIGH"
    /\ \A t \in Topics : \A i \in 1..Len(topic[t]) : Priority(topic[t][i]) = t
    /\ \A h \in handlers : Priority(h.id) = IF h.path \in Topics THEN h.path ELSE "HIGH"
    /\ \A d \in Deliveries : task[d] = "publish" => Priority(d) = "HIGH"

Unsent(d)  == task[d] \in {"none", "create", "send"}
Handled(p, d) == \E h \in handlers : h.path = p /\ h.id = d

\* No message before its task sends it; of one that was sent, one copy in the list
\* and one in pub/sub, which is not yet with a handler.
UnsentClear  == \A d \in Deliveries : Unsent(d) => ~Message(d)
PublishClear == \A d \in Deliveries : task[d] = "publish" => d \notin pubsub /\ ~Handled("pubsub", d)
ListedOnce   == \A i, j \in 1..Len(highQueue) : highQueue[i] = highQueue[j] => i = j
PoppedGone   == \A h \in handlers : h.path = "queue" => ~InQueue(h.id)
ReceivedGone == \A h \in handlers : h.path = "pubsub" => h.id \notin pubsub
HandledOnce  ==
    \A h, k \in handlers : h.path = k.path /\ h.path \notin Topics /\ h.id = k.id => h = k

OneCopyEach ==
    UnsentClear /\ PublishClear /\ ListedOnce /\ PoppedGone /\ ReceivedGone /\ HandledOnce

\* Whether clients may still hear of d by way of the list, or of pub/sub.
ByQueue(d)  == Unsent(d) \/ InQueue(d) \/ Handled("queue", d)
ByPubsub(d) == Unsent(d) \/ task[d] = "publish" \/ d \in pubsub \/ Handled("pubsub", d)

ToldTwice ==
    \A d \in Deliveries : Priority(d) = "HIGH" =>
        notified[d] + (IF ByQueue(d) THEN 1 ELSE 0) + (IF ByPubsub(d) THEN 1 ELSE 0) <= 2

\* The copies of a delivery on its topic, and those that the consumer is yet to
\* get past.
Copies(d) == {i \in 1..Len(topic[Priority(d)]) : topic[Priority(d)][i] = d}
Unread(d) == {i \in Copies(d) : i > position[Priority(d)]}

\* How often the consumer went back, at most: a shutdown that began has not done
\* so yet.
Rewinds == faults + crashes + signals - (IF mode = "stopping" THEN 1 ELSE 0)

ToldPerCopy ==
    \A d \in Deliveries : Priority(d) \in Topics =>
        /\ Cardinality(Copies(d)) <= 1 + faults
        /\ notified[d] + Cardinality(Unread(d)) <= Cardinality(Copies(d)) * (1 + Rewinds)

\* Stronger than NotifiedPerChannel: what was told, and what is still to be.
Told == Routed /\ OneCopyEach /\ ToldTwice /\ ToldPerCopy

\* What a step does to the messages.
Quiet ==
    /\ UNCHANGED <<highQueue, pubsub, topic, handlers, position, notified>>
    /\ \A d \in Deliveries : /\ Unsent(d)' => Unsent(d)
                             /\ task'[d] = "publish" => task[d] = "publish"
Pushes(d) ==
    /\ task[d] = "send" /\ Priority(d) = "HIGH" /\ highQueue' = Append(highQueue, d)
    /\ \E l \in {"publish", "rejected"} : task' = [task EXCEPT ![d] = l]
    /\ UNCHANGED <<pubsub, topic, handlers, position, notified>>
Publishes(d) ==
    /\ task[d] = "publish" /\ pubsub' = pubsub \cup {d} /\ task' = [task EXCEPT ![d] = "stats"]
    /\ UNCHANGED <<highQueue, topic, handlers, position, notified>>
Produces(d) ==
    /\ task[d] = "send" /\ Priority(d) \in Topics /\ task' = [task EXCEPT ![d] = "stats"]
    /\ \/ topic' = [topic EXCEPT ![Priority(d)] = Append(@, d)]
       \/ /\ topic' = [topic EXCEPT ![Priority(d)] = @ \o <<d, d>>]
          /\ faults' = faults + 1
    /\ UNCHANGED <<highQueue, pubsub, handlers, position, notified>>
Takes(p, d, s) ==
    /\ handlers' = handlers \cup {[path |-> p, id |-> d, stage |-> s]}
    /\ UNCHANGED <<task, topic, position, notified>>
Pops ==
    /\ highQueue # <<>> /\ Handling({"queue"}) = {} /\ Takes("queue", Head(highQueue), "update")
    /\ highQueue' = Tail(highQueue) /\ UNCHANGED pubsub
Receives(d) ==
    /\ d \in pubsub /\ Takes("pubsub", d, "update")
    /\ pubsub' = pubsub \ {d} /\ UNCHANGED highQueue
Polls(t) ==
    /\ Handling(Topics) = {} /\ position[t] < Len(topic[t])
    /\ \E s \in {"update", "authEvent"} : Takes(t, topic[t][position[t] + 1], s)
    /\ UNCHANGED <<highQueue, pubsub>>
GoesOn(h) ==
    /\ handlers' = (handlers \ {h}) \cup {[h EXCEPT !.stage = "emit"]}
    /\ UNCHANGED <<task, highQueue, pubsub, topic, position, notified>>
Returns(h) ==
    /\ Finish(h)
    /\ notified' \in {notified, [notified EXCEPT ![h.id] = @ + 1]}
    /\ UNCHANGED <<task, highQueue, pubsub, topic>>
GoesBack ==
    /\ position' = committed
    /\ UNCHANGED <<highQueue, topic, notified>>
    /\ \/ /\ UNCHANGED <<task, pubsub, handlers, mode>>
          /\ Handling(Topics) = {} /\ faults' = faults + 1
       \/ /\ pubsub' = {} /\ handlers' = {} /\ mode' = "down" /\ UNCHANGED faults
          /\ \A d \in Deliveries : /\ Unsent(d)' => Unsent(d)
                                   /\ task'[d] # "publish"
          /\ mode = "stopping" \/ crashes' = crashes + 1

LEMMA MessageSteps ==
    ASSUME Channels, Next
    PROVE  \/ Quiet
           \/ \E d \in Deliveries : Pushes(d) \/ Publishes(d) \/ Produces(d) \/ Receives(d)
           \/ Pops \/ \E t \in Topics : Polls(t)
           \/ \E h \in handlers : GoesOn(h) \/ Returns(h)
           \/ GoesBack
<1>1. PipelineType /\ NotAsked
    BY DEF Channels
<1>2. ASSUME NEW e \in Events, TriggerEvent(e) \/ TriggerEventFails(e) PROVE Quiet
    BY <1>1, <1>2 DEF TriggerEvent, TriggerEventFails, PipelineType, NotAsked, Quiet, Unsent,
                      channelVars, consumerVars
<1>3. ASSUME NEW d \in Deliveries, TaskStep(d)
      PROVE  Quiet \/ Pushes(d) \/ Publishes(d) \/ Produces(d)
    <2>1. UNCHANGED <<handlers, position, notified>>
        BY <1>1, <1>3, TaskMoves DEF consumerVars
    <2>2. ASSUME UNCHANGED channelVars, NEW l \in TaskState, task' = [task EXCEPT ![d] = l],
                 (l = "send" /\ task[d] = "create") \/ l \in {"done", "rejected", "stats"}
          PROVE  Quiet
        BY <1>1, <2>1, <2>2 DEF PipelineType, Quiet, Unsent, channelVars
    <2>3. CASE CreateDelivery(d) \/ CreateDeliveryFails(d) \/ PayloadMissing(d) \/ UpdateStats(d)
               \/ PublishUnheard(d) \/ PublishFails(d) \/ ProduceFails(d)
        BY <2>2, <2>3 DEF CreateDelivery, CreateDeliveryFails, PayloadMissing, UpdateStats, PublishUnheard,
                          PublishFails, ProduceFails, Reject, TaskState, InMemory
    <2>4. CASE PushHigh(d) \/ PushHighFails(d)
        BY <2>1, <2>2, <2>4 DEF PushHigh, PushHighFails, Reject, Pushes, TaskState, channelVars
    <2>5. CASE Publish(d)
        BY <2>1, <2>5 DEF Publish, Publishes
    <2>6. CASE Produce(d) \/ ProduceTwice(d)
        BY <2>1, <2>6 DEF Produce, ProduceTwice, Fault, Produces
    <2>7. QED
        BY <1>3, <2>3, <2>4, <2>5, <2>6 DEF TaskStep
<1>4. CASE ConsumerStep
    <2>1. UNCHANGED <<task, topic>>
        BY <1>1, <1>4, ConsumerLeaves
    <2>2. CASE PopHigh
        BY <2>1, <2>2 DEF PopHigh, Pops, Takes, Started
    <2>3. ASSUME NEW d \in Deliveries, ReceivePublished(d) PROVE Receives(d)
        BY <2>1, <2>3 DEF ReceivePublished, Receives, Takes, Started
    <2>4. ASSUME NEW t \in Topics, EachMessage(t) PROVE Polls(t)
        BY <2>1, <2>4 DEF EachMessage, Polls, Takes, Started, channelVars
    <2>5. ASSUME NEW h \in handlers, HandlerStep(h) PROVE GoesOn(h) \/ Returns(h)
        BY <2>1, <2>5 DEF HandlerStep, MarkSuccess, MarkSuccessFails, EmitNotification,
                          EmitAuthEvent, GoesOn, Returns, channelVars
    <2>6. ASSUME NEW t \in Topics, Commit(t) PROVE Quiet
        BY <2>1, <2>6 DEF Commit, Quiet, Unsent, channelVars
    <2>7. CASE SessionLost
        BY <2>1, <2>7 DEF SessionLost, Fault, GoesBack, channelVars
    <2>8. QED
        BY <1>4, <2>2, <2>3, <2>4, <2>5, <2>6, <2>7 DEF ConsumerStep
<1>5. CASE ProcessStep
    <2>1. CASE Signal \/ Restart
        BY <2>1 DEF Signal, Restart, Quiet, Unsent, producerVars, channelVars, consumerVars
    <2>2. CASE LoseMemory /\ (mode = "stopping" \/ crashes' = crashes + 1)
        BY <1>1, <2>2 DEF LoseMemory, GoesBack, Unsent, PipelineType, TaskState, InMemory
    <2>3. QED
        BY <1>5, <2>1, <2>2 DEF ProcessStep, Exit, Crash
<1>6. QED
    BY <1>2, <1>3, <1>4, <1>5 DEF Next

\* Of the list, the handlers and their fields.
LEMMA MessageTypes ==
    ASSUME Channels
    PROVE  /\ highQueue \in Seq(Deliveries) /\ Len(highQueue) \in Nat
           /\ \A i \in 1..Len(highQueue) : highQueue[i] \in Deliveries
           /\ pubsub \subseteq Deliveries
           /\ \A h \in handlers : h.id \in Deliveries /\ h.path \in {"queue", "pubsub"} \cup Topics
           /\ \A t \in Topics : /\ topic[t] \in Seq(Deliveries) /\ Len(topic[t]) \in Nat
                              /\ \A i \in 1..Len(topic[t]) : topic[t][i] \in Deliveries
           /\ task \in [Deliveries -> TaskState]
<1>1. PipelineType
    BY DEF Channels
<1>2. QED
    BY <1>1, ChannelTypes DEF PipelineType, Handler

\* Where the messages of the next state come from.
LEMMA ListFrom ==
    ASSUME Channels, Next, NEW i \in 1..Len(highQueue')
    PROVE  \/ \E j \in 1..Len(highQueue) : highQueue'[i] = highQueue[j]
           \/ highQueue'[i] \in Deliveries /\ Pushes(highQueue'[i])
<1> USE MessageTypes
<1>1. CASE UNCHANGED highQueue
    BY <1>1
<1>2. ASSUME NEW c \in Deliveries, Pushes(c)
      PROVE  \/ \E j \in 1..Len(highQueue) : highQueue'[i] = highQueue[j]
             \/ highQueue'[i] = c
    <2>1. /\ Len(highQueue') = Len(highQueue) + 1 /\ highQueue'[Len(highQueue) + 1] = c
          /\ \A j \in 1..Len(highQueue) : highQueue'[j] = highQueue[j]
        BY <1>2, Appended DEF Pushes
    <2>2. i \in 1..Len(highQueue) \/ i = Len(highQueue) + 1
        BY <2>1
    <2>3. QED
        BY <2>1, <2>2
<1>3. CASE Pops
    <2>1. /\ Len(highQueue') = Len(highQueue) - 1
          /\ \A j \in 1..Len(highQueue') : highQueue'[j] = highQueue[j + 1]
        BY <1>3, HeadTailProperties DEF Pops
    <2>2. i + 1 \in 1..Len(highQueue)
        BY <2>1
    <2>3. QED
        BY <2>1, <2>2
<1>4. QED
    BY <1>1, <1>2, <1>3, MessageSteps
       DEF Quiet, Publishes, Produces, Receives, Polls, GoesOn, Returns, GoesBack

LEMMA TopicFrom ==
    ASSUME Channels, Next, NEW t \in Topics, NEW i \in 1..Len(topic'[t])
    PROVE  \/ i \in 1..Len(topic[t]) /\ topic'[t][i] = topic[t][i]
           \/ /\ topic'[t][i] \in Deliveries /\ Produces(topic'[t][i])
              /\ Priority(topic'[t][i]) = t /\ i > Len(topic[t])
<1> USE MessageTypes
<1>1. CASE UNCHANGED topic
    BY <1>1
<1>2. ASSUME NEW c \in Deliveries, Produces(c)
      PROVE  \/ i \in 1..Len(topic[t]) /\ topic'[t][i] = topic[t][i]
             \/ topic'[t][i] = c /\ Priority(c) = t /\ i > Len(topic[t])
    <2>1. CASE topic'[t] = topic[t]
        BY <2>1
    <2>2. CASE Priority(c) = t /\ topic'[t] = Append(topic[t], c)
        <3>1. /\ Len(topic'[t]) = Len(topic[t]) + 1 /\ topic'[t][Len(topic[t]) + 1] = c
              /\ \A j \in 1..Len(topic[t]) : topic'[t][j] = topic[t][j]
            BY <2>2, Appended
        <3>2. i \in 1..Len(topic[t]) \/ i = Len(topic[t]) + 1
            BY <3>1
        <3>3. QED
            BY <2>2, <3>1, <3>2
    <2>3. CASE Priority(c) = t /\ topic'[t] = topic[t] \o <<c, c>>
        <3>1. /\ Len(topic'[t]) = Len(topic[t]) + 2
              /\ \A j \in 1..Len(topic[t]) : topic'[t][j] = topic[t][j]
              /\ \A j \in 1..Len(topic'[t]) : j > Len(topic[t]) => topic'[t][j] = c
            BY <2>3, AppendedTwice
        <3>2. i \in 1..Len(topic[t]) \/ i > Len(topic[t])
            BY <3>1
        <3>3. QED
            BY <2>3, <3>1, <3>2
    <2>4. topic \in [Topics -> Seq(Deliveries)]
        BY DEF Channels, PipelineType
    <2>5. QED
        BY <1>2, <2>1, <2>2, <2>3, <2>4 DEF Produces
<1>3. QED
    BY <1>1, <1>2, MessageSteps
       DEF Quiet, Pushes, Publishes, Receives, Pops, Polls, Takes, GoesOn, Returns, GoesBack

LEMMA PubsubFrom ==
    ASSUME Channels, Next, NEW d \in pubsub'
    PROVE  d \in pubsub \/ (d \in Deliveries /\ Publishes(d))
BY MessageSteps DEF Quiet, Pushes, Publishes, Produces, Receives, Pops, Polls, GoesOn, Returns, GoesBack

LEMMA HandlerFrom ==
    ASSUME Channels, Next, NEW k \in handlers'
    PROVE  \/ \E h \in handlers : k.path = h.path /\ k.id = h.id
           \/ Pops /\ k.path = "queue" /\ k.id = Head(highQueue)
           \/ Receives(k.id) /\ k.path = "pubsub"
           \/ \E t \in Topics : Polls(t) /\ k.path = t /\ k.id = topic[t][position[t] + 1]
<1>1. \A h \in handlers : [h EXCEPT !.stage = "emit"].path = h.path
                          /\ [h EXCEPT !.stage = "emit"].id = h.id
    BY DEF Channels, PipelineType, Handler
<1>2. CASE handlers' \subseteq handlers
    BY <1>2
<1>3. ASSUME NEW h \in handlers, GoesOn(h) PROVE \E g \in handlers : k.path = g.path /\ k.id = g.id
    BY <1>1, <1>3 DEF GoesOn
<1>4. ASSUME NEW p, NEW c, NEW s, Takes(p, c, s)
      PROVE  k \in handlers \/ (k.path = p /\ k.id = c)
    BY <1>4 DEF Takes
<1>5. CASE Pops
    BY <1>4, <1>5 DEF Pops
<1>6. ASSUME NEW c \in Deliveries, Receives(c) PROVE k \in handlers \/ (Receives(k.id) /\ k.path = "pubsub")
    BY <1>4, <1>6 DEF Receives
<1>7. ASSUME NEW t \in Topics, Polls(t)
      PROVE  k \in handlers \/ (k.path = t /\ k.id = topic[t][position[t] + 1])
    BY <1>4, <1>7 DEF Polls
<1>8. QED
    BY <1>2, <1>3, <1>5, <1>6, <1>7, MessageSteps
       DEF Quiet, Pushes, Publishes, Produces, Returns, Finish, GoesBack

LEMMA NewMessage ==
    ASSUME Channels, Next, NEW d \in Deliveries, Message(d)', ~Message(d)
    PROVE  Pushes(d) \/ Publishes(d) \/ Produces(d)
<1>1. CASE \E i \in 1..Len(highQueue') : highQueue'[i] = d
    BY <1>1, ListFrom DEF Message
<1>2. CASE d \in pubsub'
    BY <1>2, PubsubFrom DEF Message
<1>3. CASE \E t \in Topics : \E i \in 1..Len(topic'[t]) : topic'[t][i] = d
    BY <1>3, TopicFrom DEF Message
<1>4. ASSUME NEW k \in handlers', k.id = d PROVE FALSE
    <2>1. ~(Pops /\ d = Head(highQueue))
        <3>1. Pops => Head(highQueue) = highQueue[1] /\ 1 \in 1..Len(highQueue)
            BY MessageTypes, HeadTailProperties, EmptySeq DEF Pops
        <3>2. QED
            BY <3>1 DEF Message
    <2>2. ~Receives(d)
        BY DEF Receives, Message
    <2>3. ASSUME NEW t \in Topics, Polls(t), d = topic[t][position[t] + 1] PROVE FALSE
        <3>1. position[t] + 1 \in 1..Len(topic[t])
            BY <2>3, ChannelTypes DEF Polls, Channels
        <3>2. QED
            BY <2>3, <3>1 DEF Message
    <2>4. QED
        BY <1>4, <2>1, <2>2, <2>3, HandlerFrom DEF Message
<1>5. QED
    BY <1>1, <1>2, <1>3, <1>4 DEF Message

LEMMA RoutedKept ==
    ASSUME Channels, Routed, Next
    PROVE  Routed'
<1> USE DEF Routed
<1>1. \A i \in 1..Len(highQueue') : Priority(highQueue'[i]) = "HIGH"
    BY ListFrom DEF Pushes
<1>2. \A d \in pubsub' : Priority(d) = "HIGH"
    BY PubsubFrom DEF Publishes
<1>3. \A t \in Topics : \A i \in 1..Len(topic'[t]) : Priority(topic'[t][i]) = t
    BY TopicFrom
<1>4. ASSUME NEW k \in handlers'
      PROVE  Priority(k.id) = IF k.path \in Topics THEN k.path ELSE "HIGH"
    <2>1. Pops => Priority(Head(highQueue)) = "HIGH"
        <3>1. Pops => Head(highQueue) = highQueue[1] /\ 1 \in 1..Len(highQueue)
            BY MessageTypes, HeadTailProperties, EmptySeq DEF Pops
        <3>2. QED
            BY <3>1
    <2>2. ASSUME NEW t \in Topics, Polls(t) PROVE Priority(topic[t][position[t] + 1]) = t
        <3>1. position[t] + 1 \in 1..Len(topic[t])
            BY <2>2, ChannelTypes DEF Polls, Channels
        <3>2. QED
            BY <3>1
    <2>3. QED
        BY <2>1, <2>2, HandlerFrom DEF Receives, Topics
<1>5. ASSUME NEW d \in Deliveries, task'[d] = "publish" PROVE Priority(d) = "HIGH"
    BY <1>5, MessageSteps, MessageTypes
       DEF Quiet, Pushes, Publishes, Produces, Receives, Pops, Polls, Takes, GoesOn, Returns, GoesBack
<1>6. QED
    BY <1>1, <1>2, <1>3, <1>4, <1>5

\* A task that is yet to send was so before, and did not send in this step.
LEMMA UnsentFrom ==
    ASSUME Channels, Next, NEW d \in Deliveries
    PROVE  /\ Unsent(d)' => Unsent(d) /\ ~Pushes(d) /\ ~Publishes(d) /\ ~Produces(d)
           /\ task'[d] = "publish" => /\ task[d] = "publish" \/ Pushes(d)
                                      /\ ~Publishes(d)
<1> USE MessageTypes
<1>1. ASSUME NEW c \in Deliveries
      PROVE  /\ Pushes(c) => task'[c] \in {"publish", "rejected"}
             /\ Publishes(c) \/ Produces(c) => task'[c] = "stats"
             /\ Pushes(c) \/ Publishes(c) \/ Produces(c) =>
                  \A e \in Deliveries : e # c => task'[e] = task[e]
    BY <1>1 DEF Pushes, Publishes, Produces
<1>2. task' = task => ~Pushes(d) /\ ~Publishes(d) /\ ~Produces(d)
    BY DEF Pushes, Publishes, Produces
<1>3. CASE Quiet \/ GoesBack
    <2>1. Unsent(d)' => Unsent(d)
        BY <1>3 DEF Quiet, GoesBack, Unsent
    <2>2. task'[d] = "publish" => task[d] = "publish"
        BY <1>3 DEF Quiet, GoesBack
    <2>3. QED
        BY <1>1, <2>1, <2>2 DEF Unsent
<1>4. ASSUME NEW c \in Deliveries, Pushes(c) \/ Publishes(c) \/ Produces(c)
      PROVE  c = d \/ task'[d] = task[d]
    BY <1>1, <1>4
<1>5. CASE task' = task
    BY <1>2, <1>5 DEF Unsent
<1>6. CASE \E c \in Deliveries : Pushes(c) \/ Publishes(c) \/ Produces(c)
    BY <1>1, <1>4, <1>6 DEF Unsent
<1>7. QED
    BY <1>3, <1>5, <1>6, MessageSteps DEF Pops, Receives, Polls, Takes, GoesOn, Returns

LEMMA UnsentClearKept ==
    ASSUME Channels, UnsentClear, Next
    PROVE  UnsentClear'
BY UnsentFrom, NewMessage DEF UnsentClear

LEMMA ListKept ==
    ASSUME Channels, UnsentClear, ListedOnce, PoppedGone, Next
    PROVE  ListedOnce' /\ PoppedGone'
<1> USE MessageTypes
<1>1. DOMAIN highQueue = 1..Len(highQueue)
    BY LenProperties
<1>2. CASE UNCHANGED highQueue
    <2>1. ~Pops
        <3>1. Pops => Len(highQueue') = Len(highQueue) - 1
            BY HeadTailProperties DEF Pops
        <3>2. QED
            BY <1>2, <3>1
    <2>2. PoppedGone'
        BY <1>2, <2>1, HandlerFrom DEF PoppedGone, InQueue, Topics
    <2>3. QED
        BY <1>2, <2>2 DEF ListedOnce
<1>3. ASSUME NEW c \in Deliveries, Pushes(c) PROVE ListedOnce' /\ PoppedGone'
    <2>1. /\ Len(highQueue') = Len(highQueue) + 1 /\ highQueue'[Len(highQueue) + 1] = c
          /\ \A i \in 1..Len(highQueue) : highQueue'[i] = highQueue[i]
          /\ highQueue' \in Seq(Deliveries)
        BY <1>3, Appended DEF Pushes
    <2>2. \A i \in 1..Len(highQueue') : i \in 1..Len(highQueue) \/ i = Len(highQueue) + 1
        BY <2>1
    <2>3. (\A i \in 1..Len(highQueue) : highQueue[i] # c) /\ \A h \in handlers : h.id # c
        BY <1>3 DEF UnsentClear, Unsent, Message, Pushes
    <2>4. ListedOnce'
        BY <2>1, <2>2, <2>3 DEF ListedOnce
    <2>5. DOMAIN highQueue' = 1..Len(highQueue')
        BY <2>1, LenProperties
    <2>6. PoppedGone'
        BY <1>1, <1>3, <2>1, <2>2, <2>3, <2>5 DEF PoppedGone, InQueue, Pushes
    <2>7. QED
        BY <2>4, <2>6
<1>4. CASE Pops
    <2>1. /\ Head(highQueue) = highQueue[1] /\ 1 \in 1..Len(highQueue)
          /\ Len(highQueue') = Len(highQueue) - 1 /\ highQueue' \in Seq(Deliveries)
          /\ \A i \in 1..Len(highQueue') : highQueue'[i] = highQueue[i + 1]
        BY <1>4, HeadTailProperties, EmptySeq DEF Pops
    <2>2. \A i \in 1..Len(highQueue') : i + 1 \in 1..Len(highQueue) /\ i + 1 # 1
        BY <2>1
    <2>3. ListedOnce'
        BY <2>1, <2>2 DEF ListedOnce
    <2>4. DOMAIN highQueue' = 1..Len(highQueue')
        BY <2>1, LenProperties
    <2>5. \A d : InQueue(d)' => InQueue(d) /\ d # Head(highQueue)
        <3> SUFFICES ASSUME NEW d, InQueue(d)' PROVE InQueue(d) /\ d # Head(highQueue)
            OBVIOUS
        <3>1. PICK i \in 1..Len(highQueue') : highQueue'[i] = d
            BY <2>4 DEF InQueue
        <3>2. i + 1 \in 1..Len(highQueue) /\ i + 1 # 1 /\ highQueue[i + 1] = d
            BY <2>1, <2>2, <3>1
        <3>3. QED
            BY <1>1, <2>1, <3>2 DEF InQueue, ListedOnce
    <2>6. ASSUME NEW k \in handlers', k.path = "queue" PROVE ~InQueue(k.id)'
        BY <2>5, <2>6, HandlerFrom DEF PoppedGone, Topics
    <2>7. QED
        BY <2>3, <2>6 DEF PoppedGone
<1>5. QED
    BY <1>2, <1>3, <1>4, MessageSteps
       DEF Quiet, Publishes, Produces, Receives, Polls, GoesOn, Returns, GoesBack

LEMMA PubsubKept ==
    ASSUME Channels, UnsentClear, PublishClear, ReceivedGone, Next
    PROVE  PublishClear' /\ ReceivedGone'
<1> USE MessageTypes
<1>1. ASSUME NEW k \in handlers', k.path = "pubsub"
      PROVE  (\E h \in handlers : h.path = "pubsub" /\ h.id = k.id) \/ Receives(k.id)
    BY <1>1, HandlerFrom DEF Topics
<1>2. ASSUME NEW d \in Deliveries, task'[d] = "publish"
      PROVE  d \notin pubsub' /\ ~Handled("pubsub", d)'
    <2>1. task[d] = "publish" \/ Unsent(d)
        BY <1>2, UnsentFrom DEF Pushes, Unsent
    <2>2. d \notin pubsub /\ ~Handled("pubsub", d)
        BY <2>1 DEF PublishClear, UnsentClear, Message, Handled
    <2>3. d \notin pubsub'
        BY <1>2, <2>2, PubsubFrom, UnsentFrom
    <2>4. QED
        BY <1>1, <2>2, <2>3 DEF Handled, Receives
<1>3. ASSUME NEW k \in handlers', k.path = "pubsub" PROVE k.id \notin pubsub'
    <2>1. CASE Receives(k.id)
        BY <2>1 DEF Receives
    <2>2. ASSUME NEW h \in handlers, h.path = "pubsub", h.id = k.id PROVE k.id \notin pubsub'
        BY <2>2, PubsubFrom DEF ReceivedGone, PublishClear, Publishes, Handled
    <2>3. QED
        BY <1>1, <1>3, <2>1, <2>2
<1>4. QED
    BY <1>2, <1>3 DEF PublishClear, ReceivedGone

LEMMA HandledOnceKept ==
    ASSUME Channels, PoppedGone, ReceivedGone, HandledOnce, Next
    PROVE  HandledOnce'
<1> USE MessageTypes
<1>1. CASE handlers' \subseteq handlers
    BY <1>1 DEF HandledOnce
<1>2. ASSUME NEW p, NEW c, NEW s, Takes(p, c, s),
             p \notin Topics => \A h \in handlers : h.path # p \/ h.id # c
      PROVE  HandledOnce'
    <2> DEFINE k == [path |-> p, id |-> c, stage |-> s]
    <2>1. k.path = p /\ k.id = c /\ handlers' = handlers \cup {k}
        BY <1>2 DEF Takes
    <2> HIDE DEF k
    <2>2. QED
        BY <1>2, <2>1 DEF HandledOnce
<1>3. CASE Pops
    <2>1. \A h \in handlers : h.path # "queue"
        BY <1>3 DEF Pops, Handling
    <2>2. QED
        BY <1>2, <1>3, <2>1 DEF Pops
<1>4. ASSUME NEW c \in Deliveries, Receives(c) PROVE HandledOnce'
    <2>1. \A h \in handlers : h.path # "pubsub" \/ h.id # c
        BY <1>4 DEF Receives, ReceivedGone
    <2>2. QED
        BY <1>2, <1>4, <2>1 DEF Receives
<1>5. ASSUME NEW t \in Topics, Polls(t) PROVE HandledOnce'
    BY <1>2, <1>5 DEF Polls
<1>6. ASSUME NEW h \in handlers, GoesOn(h) PROVE HandledOnce'
    <2> DEFINE k == [h EXCEPT !.stage = "emit"]
    <2>1. k.path = h.path /\ k.id = h.id
        BY DEF Channels, PipelineType, Handler
    <2>2. handlers' = (handlers \ {h}) \cup {k}
        BY <1>6 DEF GoesOn
    <2> HIDE DEF k
    <2>3. QED
        BY <2>1, <2>2 DEF HandledOnce
<1>7. QED
    BY <1>1, <1>3, <1>4, <1>5, <1>6, MessageSteps
       DEF Quiet, Pushes, Publishes, Produces, Returns, Finish, GoesBack

LEMMA OneCopyEachKept ==
    ASSUME Channels, OneCopyEach, Next
    PROVE  OneCopyEach'
BY UnsentClearKept, ListKept, PubsubKept, HandledOnceKept DEF OneCopyEach

\* A delivery stops being on its way by the list, or by pub/sub, when the handler
\* that has it returns, and it does not get there again.
LEMMA ToldTwiceKept ==
    ASSUME Channels, Routed, OneCopyEach, ToldTwice, Next
    PROVE  ToldTwice'
<1> SUFFICES ASSUME NEW d \in Deliveries, Priority(d) = "HIGH"
             PROVE  notified'[d] + (IF ByQueue(d)' THEN 1 ELSE 0)
                                 + (IF ByPubsub(d)' THEN 1 ELSE 0) <= 2
    BY DEF ToldTwice
<1>1. ByQueue(d)' => ByQueue(d)
    <2>1. InQueue(d)' => ByQueue(d)
        <3>1. DOMAIN highQueue = 1..Len(highQueue) /\ DOMAIN highQueue' = 1..Len(highQueue')
            BY MessageTypes, ChannelsKept, LenProperties DEF Channels, PipelineType
        <3>2. QED
            BY <3>1, ListFrom DEF InQueue, ByQueue, Unsent, Pushes
    <2>2. Handled("queue", d)' => ByQueue(d)
        <3>1. Pops => Head(highQueue) = highQueue[1] /\ 1 \in DOMAIN highQueue
            BY MessageTypes, HeadTailProperties, EmptySeq, LenProperties DEF Pops
        <3>2. QED
            BY <3>1, HandlerFrom DEF Handled, InQueue, ByQueue, Topics
    <2>3. QED
        BY <2>1, <2>2, UnsentFrom DEF ByQueue
<1>2. ByPubsub(d)' => ByPubsub(d)
    <2>1. d \in pubsub' => ByPubsub(d)
        BY PubsubFrom DEF ByPubsub, Publishes
    <2>2. Handled("pubsub", d)' => ByPubsub(d)
        BY HandlerFrom DEF Handled, ByPubsub, Receives, Topics
    <2>3. task'[d] = "publish" => ByPubsub(d)
        BY UnsentFrom DEF ByPubsub, Unsent, Pushes
    <2>4. QED
        BY <2>1, <2>2, <2>3, UnsentFrom DEF ByPubsub
<1>3. /\ notified[d] \in Nat
      /\ notified[d] + (IF ByQueue(d) THEN 1 ELSE 0) + (IF ByPubsub(d) THEN 1 ELSE 0) <= 2
    BY DEF Channels, PipelineType, ToldTwice
<1>4. CASE notified'[d] = notified[d]
    BY <1>1, <1>2, <1>3, <1>4
<1>5. ASSUME NEW h \in handlers, Returns(h), h.id = d
      PROVE  /\ notified'[d] \in {notified[d], notified[d] + 1}
             /\ (ByQueue(d) /\ ~ByQueue(d)') \/ (ByPubsub(d) /\ ~ByPubsub(d)')
    <2>1. notified'[d] \in {notified[d], notified[d] + 1}
        BY <1>5 DEF Returns, Channels, PipelineType
    <2>2. ~Unsent(d)'
        BY <1>5, UnsentFrom DEF OneCopyEach, UnsentClear, Message
    <2>3. handlers' = handlers \ {h} /\ UNCHANGED <<task, highQueue, pubsub>>
        BY <1>5 DEF Returns, Finish
    <2>4. h.path \in {"queue", "pubsub"}
        BY <1>5, MessageTypes DEF Routed, Topics
    <2>5. CASE h.path = "queue"
        <3>1. ByQueue(d)
            BY <1>5, <2>5 DEF ByQueue, Handled
        <3>2. ~InQueue(d)' /\ ~Handled("queue", d)'
            BY <1>5, <2>3, <2>5
               DEF OneCopyEach, PoppedGone, HandledOnce, InQueue, Handled, Topics
        <3>3. QED
            BY <2>1, <2>2, <3>1, <3>2 DEF ByQueue
    <2>6. CASE h.path = "pubsub"
        <3>1. ByPubsub(d)
            BY <1>5, <2>6 DEF ByPubsub, Handled
        <3>2. d \notin pubsub' /\ ~Handled("pubsub", d)' /\ task'[d] # "publish"
            BY <1>5, <2>3, <2>6
               DEF OneCopyEach, PublishClear, ReceivedGone, HandledOnce, Handled, Topics
        <3>3. QED
            BY <2>1, <2>2, <3>1, <3>2 DEF ByPubsub
    <2>7. QED
        BY <2>4, <2>5, <2>6
<1>6. ASSUME NEW h \in handlers, Returns(h), h.id # d
      PROVE  notified'[d] = notified[d]
    BY <1>6 DEF Returns, Channels, PipelineType
<1>7. \/ notified'[d] = notified[d]
      \/ \E h \in handlers : Returns(h)
    BY MessageSteps
       DEF Quiet, Pushes, Publishes, Produces, Receives, Pops, Polls, Takes, GoesOn, GoesBack
<1>8. QED
    BY <1>1, <1>2, <1>3, <1>4, <1>5, <1>6, <1>7

\* Each time the consumer goes back has a disturbance of its own.
LEMMA RewindsMove ==
    ASSUME Channels, Next
    PROVE  /\ Rewinds \in Nat /\ Rewinds' \in Nat /\ Rewinds <= Rewinds'
           /\ GoesBack => Rewinds + 1 <= Rewinds'
           /\ faults \in Nat /\ faults' \in Nat /\ faults <= faults'
<1>1. PipelineType /\ Calm /\ PipelineType' /\ Calm'
    BY ChannelsKept DEF Channels
<1>2. /\ faults \in Nat /\ crashes \in Nat /\ signals \in Nat
      /\ faults' \in Nat /\ crashes' \in Nat /\ signals' \in Nat
      /\ mode = "stopping" => faults # 0 \/ signals # 0
      /\ mode' = "stopping" => faults' # 0 \/ signals' # 0
    <2>1. /\ faults \in Nat /\ crashes \in Nat /\ signals \in Nat
          /\ faults' \in Nat /\ crashes' \in Nat /\ signals' \in Nat
        BY <1>1, PipelineConstants DEF PipelineType
    <2>2. /\ mode = "stopping" => faults # 0 \/ signals # 0
          /\ mode' = "stopping" => faults' # 0 \/ signals' # 0
        BY <1>1 DEF Calm
    <2>3. QED
        BY <2>1, <2>2
<1>3. /\ faults' \in {faults, faults + 1}
      /\ mode' = "stopping" /\ mode # "stopping" => faults' = faults + 1 \/ signals' = signals + 1
      /\ mode = "stopping" /\ mode' # "stopping" => GoesBack
      /\ signals' \in {signals, signals + 1} /\ crashes' \in {crashes, crashes + 1}
    <2>1. CASE \E e \in Events : TriggerEvent(e) \/ TriggerEventFails(e)
        BY <2>1 DEF TriggerEvent, TriggerEventFails, Fails, Fault, processVars
    <2>2. CASE \E d \in Deliveries : TaskStep(d)
        BY <1>1, <2>2, TaskMoves
    <2>3. CASE ConsumerStep
        BY <1>1, <2>3, ConsumerLeaves
    <2>4. CASE Signal \/ Restart
        BY <2>4 DEF Signal, Restart
    <2>5. CASE LoseMemory /\ crashes' \in {crashes, crashes + 1}
               /\ (mode = "stopping" \/ crashes' = crashes + 1)
        BY <1>1, <2>5 DEF LoseMemory, GoesBack, Unsent, PipelineType, TaskState, InMemory
    <2>6. QED
        BY <2>1, <2>2, <2>3, <2>4, <2>5 DEF Next, ProcessStep, Exit, Crash
<1>4. GoesBack => \/ mode' = mode /\ faults' = faults + 1
                  \/ mode' # "stopping" /\ (mode = "stopping" \/ crashes' = crashes + 1)
    BY DEF GoesBack
<1>5. PICK x, y \in {0, 1} : /\ x = (IF mode = "stopping" THEN 1 ELSE 0)
                              /\ y = (IF mode' = "stopping" THEN 1 ELSE 0)
    OBVIOUS
<1>6. Rewinds = faults + crashes + signals - x /\ Rewinds' = faults' + crashes' + signals' - y
    BY <1>5 DEF Rewinds
<1>7. (x = 1 => faults # 0 \/ signals # 0) /\ (y = 1 => faults' # 0 \/ signals' # 0)
    BY <1>2, <1>5
<1>8. /\ y = 1 /\ x = 0 => faults' = faults + 1 \/ signals' = signals + 1
      /\ x = 1 /\ y = 0 => GoesBack
      /\ GoesBack => (y = x /\ faults' = faults + 1) \/ (y = 0 /\ (x = 1 \/ crashes' = crashes + 1))
    BY <1>3, <1>4, <1>5
<1>9. PICK f, c, g, f2, c2, g2 \in Nat : /\ f = faults /\ c = crashes /\ g = signals
                                         /\ f2 = faults' /\ c2 = crashes' /\ g2 = signals'
    BY <1>2
<1>10. /\ f2 \in {f, f + 1} /\ g2 \in {g, g + 1} /\ c2 \in {c, c + 1}
       /\ y = 1 /\ x = 0 => f2 = f + 1 \/ g2 = g + 1
       /\ x = 1 => f # 0 \/ g # 0
       /\ y = 1 => f2 # 0 \/ g2 # 0
    BY <1>3, <1>7, <1>8, <1>9
<1>11. /\ x = 1 /\ y = 0 => GoesBack
       /\ GoesBack => (y = x /\ f2 = f + 1) \/ (y = 0 /\ (x = 1 \/ c2 = c + 1))
    BY <1>8, <1>9
<1>12. f + c + g - x \in Nat /\ f2 + c2 + g2 - y \in Nat /\ f <= f2
    BY <1>10
<1>13. CASE (y = x /\ f2 = f + 1) \/ (y = 0 /\ (x = 1 \/ c2 = c + 1))
    <2>1. (f + c + g - x) + 1 <= f2 + c2 + g2 - y
        BY <1>10, <1>13
    <2>2. f + c + g - x <= f2 + c2 + g2 - y
        BY <1>12, <2>1
    <2>3. Rewinds = f + c + g - x /\ Rewinds' = f2 + c2 + g2 - y
        BY <1>6, <1>9
    <2>4. QED
        BY <1>9, <1>12, <2>1, <2>2, <2>3
<1>14. CASE ~GoesBack
    <2>1. f + c + g - x <= f2 + c2 + g2 - y
        BY <1>10, <1>11, <1>14
    <2>2. QED
        BY <1>6, <1>9, <1>12, <1>14, <2>1
<1>15. QED
    BY <1>11, <1>13, <1>14

LEMMA CopiesFinite ==
    ASSUME Channels, NEW d \in Deliveries, Priority(d) \in Topics, NEW S \in SUBSET Copies(d)
    PROVE  /\ IsFiniteSet(S) /\ Cardinality(S) \in Nat
           /\ Cardinality(S) <= Cardinality(Copies(d)) /\ Cardinality(Copies(d)) \in Nat
<1>1. Len(topic[Priority(d)]) \in Nat
    BY MessageTypes
<1>2. IsFiniteSet(1..Len(topic[Priority(d)]))
    BY <1>1, FS_Interval
<1>3. IsFiniteSet(Copies(d))
    BY <1>2, FS_Subset DEF Copies
<1>4. QED
    BY <1>3, FS_Subset, FS_CardinalityType

\* The copies of a delivery are made by its task, in one step.
LEMMA CopiesMove ==
    ASSUME Channels, OneCopyEach, Next, NEW d \in Deliveries, Priority(d) \in Topics
    PROVE  \/ Copies(d)' = Copies(d) /\ ~Produces(d)
           \/ /\ Copies(d) = {} /\ Produces(d)
              /\ \E n \in {1, 2} : /\ Cardinality(Copies(d)') <= n
                                   /\ n = 2 => faults' = faults + 1
<1> DEFINE t == Priority(d)
<1>1. /\ topic[t] \in Seq(Deliveries) /\ Len(topic[t]) \in Nat
      /\ topic \in [Topics -> Seq(Deliveries)]
    BY MessageTypes DEF Channels, PipelineType
<1>2. CASE ~Produces(d)
    <2>1. \A i \in 1..Len(topic'[t]) : topic'[t][i] = d => i \in 1..Len(topic[t]) /\ topic[t][i] = d
        BY <1>2, TopicFrom
    <2>2. \A i \in 1..Len(topic[t]) : i \in 1..Len(topic'[t]) /\ topic'[t][i] = topic[t][i]
        <3>1. Grows(t) /\ topic'[t] \in Seq(Deliveries)
            BY TopicsGrow DEF Channels
        <3>2. Len(topic'[t]) \in Nat
            BY <3>1, LenProperties
        <3>3. QED
            BY <1>1, <3>1, <3>2 DEF Grows
    <2>3. Copies(d)' = Copies(d)
        BY <2>1, <2>2 DEF Copies
    <2>4. QED
        BY <1>2, <2>3
<1>3. CASE Produces(d)
    <2>1. Copies(d) = {}
        BY <1>3 DEF OneCopyEach, UnsentClear, Unsent, Message, Produces, Copies
    <2>2. \A i \in Copies(d)' : i > Len(topic[t]) /\ i \in 1..Len(topic'[t])
        <3> SUFFICES ASSUME NEW i \in 1..Len(topic'[t]), topic'[t][i] = d PROVE i > Len(topic[t])
            BY DEF Copies
        <3>1. i \in 1..Len(topic[t]) => topic[t][i] # d
            BY <2>1 DEF Copies
        <3>2. QED
            BY <3>1, TopicFrom
    <2>3. PICK n \in {1, 2} : Len(topic'[t]) = Len(topic[t]) + n /\ (n = 2 => faults' = faults + 1)
        <3>1. \/ topic'[t] = Append(topic[t], d)
              \/ topic'[t] = topic[t] \o <<d, d>> /\ faults' = faults + 1
            BY <1>1, <1>3 DEF Produces
        <3>2. Len(Append(topic[t], d)) = Len(topic[t]) + 1 /\ Len(topic[t] \o <<d, d>>) = Len(topic[t]) + 2
            BY <1>1, Appended, AppendedTwice
        <3>3. QED
            BY <3>1, <3>2
    <2>4. PICK l \in Nat : l = Len(topic[t])
        BY <1>1
    <2>5. Copies(d)' \subseteq (l + 1)..(l + n)
        BY <2>2, <2>3, <2>4
    <2>6. IsFiniteSet((l + 1)..(l + n)) /\ Cardinality((l + 1)..(l + n)) = n
        BY FS_Interval
    <2>7. Cardinality(Copies(d)') <= n
        BY <2>5, <2>6, FS_Subset
    <2>8. QED
        BY <1>3, <2>1, <2>3, <2>7
<1>4. QED
    BY <1>2, <1>3

\* How the copies of a delivery, and what clients heard of it, move on.
LEMMA UnreadMoves ==
    ASSUME Channels, Routed, OneCopyEach, Next, NEW d \in Deliveries, Priority(d) \in Topics,
           Copies(d)' = Copies(d), ~Produces(d)
    PROVE  \/ notified'[d] = notified[d] /\ (GoesBack \/ Unread(d)' \subseteq Unread(d))
           \/ /\ notified'[d] \in {notified[d], notified[d] + 1}
              /\ \E x \in Unread(d) : Unread(d)' = Unread(d) \ {x}
<1> DEFINE t == Priority(d)
<1>1. /\ notified \in [Deliveries -> Nat] /\ position \in [Topics -> Nat]
      /\ AtPosition /\ PipelineType
    BY DEF Channels, PipelineType
<1>2. CASE UNCHANGED <<position, notified>>
    BY <1>2 DEF Unread
<1>3. CASE GoesBack
    BY <1>3 DEF GoesBack
<1>4. ASSUME NEW h \in handlers, Returns(h), h.path = t
      PROVE  /\ notified'[d] \in {notified[d], notified[d] + 1}
             /\ h.id = d => \E x \in Unread(d) : Unread(d)' = Unread(d) \ {x}
             /\ h.id # d => notified'[d] = notified[d] /\ Unread(d)' \subseteq Unread(d)
    <2>1. position'[t] = position[t] + 1 /\ position[t] \in Nat
        BY <1>1, <1>4 DEF Returns, Finish
    <2>2. /\ notified'[d] \in {notified[d], notified[d] + 1}
          /\ h.id # d => notified'[d] = notified[d]
        BY <1>1, <1>4 DEF Returns
    <2>3. \A i \in Copies(d) : i \in Int
        BY DEF Copies
    <2>4. Unread(d)' = {i \in Copies(d) : i > position[t] + 1}
        BY <2>1 DEF Unread
    <2>5. Unread(d)' = Unread(d) \ {position[t] + 1}
        BY <2>1, <2>3, <2>4 DEF Unread
    <2>6. h.id = d => position[t] + 1 \in Unread(d)
        <3>1. position[t] < Len(topic[t]) /\ topic[t][position[t] + 1] = h.id
            BY <1>1, <1>4 DEF AtPosition
        <3>2. position[t] + 1 \in 1..Len(topic[t])
            BY <2>1, <3>1, MessageTypes
        <3>3. QED
            BY <2>1, <3>1, <3>2 DEF Unread, Copies
    <2>7. QED
        BY <2>2, <2>5, <2>6
<1>5. ASSUME NEW h \in handlers, Returns(h), h.path # t
      PROVE  notified'[d] = notified[d] /\ Unread(d)' = Unread(d)
    <2>1. position'[t] = position[t]
        BY <1>1, <1>5 DEF Returns, Finish
    <2>2. h.id # d
        BY <1>5, MessageTypes DEF Routed, Topics
    <2>3. notified'[d] = notified[d]
        BY <1>1, <1>5, <2>2 DEF Returns
    <2>4. QED
        BY <2>1, <2>3 DEF Unread
<1>6. QED
    BY <1>2, <1>3, <1>4, <1>5, MessageSteps
       DEF Quiet, Pushes, Publishes, Produces, Receives, Pops, Polls, Takes, GoesOn

LEMMA ProductGrows ==
    ASSUME NEW c \in Nat, NEW r \in Nat, NEW q \in Nat
    PROVE  /\ r <= q => c * r <= c * q
           /\ r + 1 <= q => c * r + c <= c * q
<1>1. ASSUME r <= q PROVE c * r <= c * q
    <2>1. PICK k \in Nat : q = r + k
        <3>1. q - r \in Nat /\ q = r + (q - r)
            BY <1>1
        <3>2. QED
            BY <3>1
    <2>2. c * q = c * r + c * k /\ c * k \in Nat /\ c * r \in Nat
        BY <2>1
    <2>3. QED
        BY <2>2
<1>2. ASSUME r + 1 <= q PROVE c * r + c <= c * q
    <2>1. PICK k \in Nat : q = r + 1 + k
        <3>1. q - (r + 1) \in Nat /\ q = r + 1 + (q - (r + 1))
            BY <1>2
        <3>2. QED
            BY <3>1
    <2>2. c * q = c * r + c + c * k /\ c * k \in Nat /\ c * r \in Nat
        BY <2>1
    <2>3. QED
        BY <2>2
<1>3. QED
    BY <1>1, <1>2

LEMMA ToldPerCopyKept ==
    ASSUME Channels, Routed, OneCopyEach, ToldPerCopy, Next
    PROVE  ToldPerCopy'
<1> SUFFICES ASSUME NEW d \in Deliveries, Priority(d) \in Topics
             PROVE  /\ Cardinality(Copies(d)') <= 1 + faults'
                    /\ notified'[d] + Cardinality(Unread(d)')
                         <= Cardinality(Copies(d)') * (1 + Rewinds')
    BY DEF ToldPerCopy
<1>1. /\ Rewinds \in Nat /\ Rewinds' \in Nat /\ Rewinds <= Rewinds'
      /\ GoesBack => Rewinds + 1 <= Rewinds'
      /\ faults \in Nat /\ faults' \in Nat /\ faults <= faults'
    BY RewindsMove
<1>2. /\ Cardinality(Copies(d)) <= 1 + faults
      /\ notified[d] + Cardinality(Unread(d)) <= Cardinality(Copies(d)) * (1 + Rewinds)
    BY DEF ToldPerCopy
<1>3. Channels'
    BY ChannelsKept
<1>4. notified[d] \in Nat /\ notified'[d] \in Nat
    BY <1>3 DEF Channels, PipelineType
<1>5. Unread(d) \subseteq Copies(d) /\ Unread(d)' \subseteq Copies(d)'
    BY DEF Unread
<1>6. /\ Cardinality(Copies(d)) \in Nat /\ Cardinality(Unread(d)) \in Nat
      /\ IsFiniteSet(Copies(d)) /\ IsFiniteSet(Unread(d))
    BY <1>5, CopiesFinite
<1>7. /\ Cardinality(Copies(d)') \in Nat /\ Cardinality(Unread(d)') \in Nat
      /\ Cardinality(Unread(d)') <= Cardinality(Copies(d)')
    <2>1. IsFiniteSet(1..Len(topic'[Priority(d)]))
        <3>1. topic'[Priority(d)] \in Seq(Deliveries)
            BY <1>3 DEF Channels, PipelineType
        <3>2. QED
            BY <3>1, LenProperties, FS_Interval
    <2>2. IsFiniteSet(Copies(d)')
        BY <2>1, FS_Subset DEF Copies
    <2>3. QED
        BY <1>5, <2>2, FS_Subset, FS_CardinalityType
<1>8. PICK r, q, c, u, v, n, m \in Nat :
            /\ r = Rewinds /\ q = Rewinds' /\ c = Cardinality(Copies(d))
            /\ u = Cardinality(Unread(d)) /\ v = Cardinality(Unread(d)')
            /\ n = notified[d] /\ m = notified'[d]
    BY <1>1, <1>4, <1>6, <1>7
<1>9. r <= q /\ n + u <= c * (1 + r)
    BY <1>1, <1>2, <1>8
<1>10. c * (1 + r) <= c * (1 + q) /\ c * (1 + r) \in Nat /\ c * (1 + q) \in Nat
    BY <1>9, ProductGrows
<1>11. CASE Copies(d)' = Copies(d) /\ ~Produces(d)
    <2>1. Cardinality(Copies(d)') <= 1 + faults'
        BY <1>1, <1>2, <1>6, <1>11
    <2>2. CASE notified'[d] = notified[d] /\ Unread(d)' \subseteq Unread(d)
        <3>1. v <= u /\ m = n
            BY <1>6, <1>8, <2>2, FS_Subset
        <3>2. m + v <= c * (1 + q)
            BY <1>9, <1>10, <3>1
        <3>3. QED
            BY <1>8, <1>11, <2>1, <3>2
    <2>3. CASE notified'[d] = notified[d] /\ GoesBack
        <3>1. v <= c /\ m = n /\ r + 1 <= q
            BY <1>1, <1>7, <1>8, <1>11, <2>3
        <3>2. c * (1 + r) + c <= c * (1 + q)
            BY <3>1, ProductGrows
        <3>3. m + v <= c * (1 + q)
            BY <1>9, <1>10, <3>1, <3>2
        <3>4. QED
            BY <1>8, <1>11, <2>1, <3>3
    <2>4. CASE /\ notified'[d] \in {notified[d], notified[d] + 1}
               /\ \E x \in Unread(d) : Unread(d)' = Unread(d) \ {x}
        <3>1. v = u - 1 /\ m <= n + 1
            <4>1. PICK x \in Unread(d) : Unread(d)' = Unread(d) \ {x}
                BY <2>4
            <4>2. Cardinality(Unread(d)') = Cardinality(Unread(d)) - 1
                BY <1>6, <4>1, FS_RemoveElement
            <4>3. m \in {n, n + 1}
                BY <1>8, <2>4
            <4>4. QED
                BY <1>8, <4>2, <4>3
        <3>2. m + v <= c * (1 + q)
            BY <1>9, <1>10, <3>1
        <3>3. QED
            BY <1>8, <1>11, <2>1, <3>2
    <2>5. QED
        BY <1>11, <2>2, <2>3, <2>4, UnreadMoves
<1>12. ASSUME Copies(d) = {}, Produces(d),
              NEW k \in {1, 2}, Cardinality(Copies(d)') <= k, k = 2 => faults' = faults + 1
       PROVE  /\ Cardinality(Copies(d)') <= 1 + faults'
              /\ notified'[d] + Cardinality(Unread(d)')
                    <= Cardinality(Copies(d)') * (1 + Rewinds')
    <2>1. c = 0
        BY <1>8, <1>12, FS_EmptySet
    <2>2. c * (1 + r) = 0
        BY <2>1
    <2>3. n = 0 /\ m = n
        BY <1>8, <1>9, <1>12, <2>2 DEF Produces
    <2>4. PICK b \in Nat : b = Cardinality(Copies(d)')
        BY <1>7
    <2>5. v <= b
        BY <1>7, <1>8, <2>4
    <2>6. b * 1 <= b * (1 + q) /\ b * 1 = b
        BY <2>4, ProductGrows
    <2>7. m + v <= b * (1 + q)
        <3>1. b * (1 + q) \in Nat
            BY <2>4
        <3>2. QED
            BY <2>3, <2>5, <2>6, <3>1
    <2>8. Cardinality(Copies(d)') <= 1 + faults'
        BY <1>1, <1>7, <1>12
    <2>9. QED
        BY <1>8, <2>4, <2>7, <2>8
<1>13. QED
    BY <1>11, <1>12, CopiesMove

LEMMA ToldBegins == Init => Told
<1> SUFFICES ASSUME Init PROVE Told
    OBVIOUS
<1>1. Len(highQueue) = 0 /\ \A t \in Topics : Len(topic[t]) = 0
    BY EmptySeq DEF Init
<1>2. Routed
    BY <1>1 DEF Init, Routed
<1>3. OneCopyEach
    BY <1>1 DEF Init, OneCopyEach, UnsentClear, PublishClear, ListedOnce, PoppedGone, ReceivedGone,
                HandledOnce, Unsent, Message
<1>4. ToldTwice
    BY DEF Init, ToldTwice
<1>5. ToldPerCopy
    <2> SUFFICES ASSUME NEW d \in Deliveries, Priority(d) \in Topics
                 PROVE  /\ Cardinality(Copies(d)) <= 1 + faults
                        /\ notified[d] + Cardinality(Unread(d)) <= Cardinality(Copies(d)) * (1 + Rewinds)
        BY DEF ToldPerCopy
    <2>1. Copies(d) = {} /\ Unread(d) = {}
        BY <1>1 DEF Copies, Unread
    <2>2. notified[d] = 0 /\ faults = 0 /\ Rewinds = 0
        BY DEF Init, Rewinds
    <2>3. QED
        BY <2>1, <2>2, FS_EmptySet
<1>6. QED
    BY <1>2, <1>3, <1>4, <1>5 DEF Told

LEMMA ToldKept ==
    ASSUME Channels, Told, Next
    PROVE  Told'
BY RoutedKept, OneCopyEachKept, ToldTwiceKept, ToldPerCopyKept DEF Told

LEMMA ToldBounds ==
    ASSUME Channels, Told
    PROVE  NotifiedPerChannel
<1> SUFFICES ASSUME NEW d \in Deliveries
             PROVE  notified[d] <= IF Priority(d) = "HIGH" THEN 2
                                   ELSE (1 + faults) * (1 + faults + crashes + signals)
    BY DEF NotifiedPerChannel
<1>1. PipelineType /\ Calm
    BY DEF Channels
<1>2. notified[d] \in Nat
    BY <1>1 DEF PipelineType
<1>3. CASE Priority(d) = "HIGH"
    BY <1>2, <1>3 DEF Told, ToldTwice
<1>4. CASE Priority(d) # "HIGH"
    <2>1. Priority(d) \in Topics
        BY <1>4, PriorityOf DEF Topics
    <2>2. /\ Cardinality(Copies(d)) <= 1 + faults
          /\ notified[d] + Cardinality(Unread(d)) <= Cardinality(Copies(d)) * (1 + Rewinds)
        BY <2>1 DEF Told, ToldPerCopy
    <2>3. Cardinality(Copies(d)) \in Nat /\ Cardinality(Unread(d)) \in Nat
        BY <2>1, CopiesFinite DEF Unread
    <2>4. faults \in Nat /\ crashes \in Nat /\ signals \in Nat
        BY <1>1, PipelineConstants DEF PipelineType
    <2>5. PICK c, u, n, f, s \in Nat : /\ c = Cardinality(Copies(d)) /\ u = Cardinality(Unread(d))
                                       /\ n = notified[d] /\ f = 1 + faults
                                       /\ s = 1 + faults + crashes + signals
        BY <1>2, <2>3, <2>4
    <2>6. PICK r \in Nat : r = 1 + Rewinds /\ r <= s
        <3>1. mode = "stopping" => faults # 0 \/ signals # 0
            BY <1>1 DEF Calm
        <3>2. PICK x \in {0, 1} : x = (IF mode = "stopping" THEN 1 ELSE 0)
            OBVIOUS
        <3>3. Rewinds = faults + crashes + signals - x /\ (x = 1 => faults # 0 \/ signals # 0)
            BY <3>1, <3>2 DEF Rewinds
        <3>4. QED
            BY <2>4, <2>5, <3>3
    <2>7. c <= f /\ n + u <= c * r
        BY <2>2, <2>5, <2>6
    <2>8. c * r <= c * s /\ c * s <= f * s
        <3>1. s * c <= s * f
            BY <2>7, ProductGrows
        <3>2. s * c = c * s /\ s * f = f * s
            OBVIOUS
        <3>3. QED
            BY <2>6, <3>1, <3>2, ProductGrows
    <2>9. n <= f * s
        <3>1. c * r \in Nat /\ c * s \in Nat /\ f * s \in Nat
            OBVIOUS
        <3>2. QED
            BY <2>7, <2>8, <3>1
    <2>10. QED
        BY <1>4, <2>5, <2>9
<1>5. QED
    BY <1>3, <1>4

-----------------------------------------------------------------------------
(* Part 3: the pipeline by itself *)

\* What depends on the pipeline's own variables, and not on the records.
LEMMA ChannelsUntouched ==
    ASSUME UNCHANGED pipelineVars
    PROVE  /\ Channels' <=> Channels
           /\ UNCHANGED <<task, noId, handlers, misrouted>>
           /\ \A d \in Deliveries :
                /\ Asking(d)' <=> Asking(d)
                /\ Sending(d)' <=> Sending(d)
                /\ Message(d)' <=> Message(d)
                /\ AccountedFor(d)' <=> AccountedFor(d)
<1> USE DEF pipelineVars, producerVars, channelVars, consumerVars, processVars
<1>1. Channels' <=> Channels
    BY DEF Channels, PipelineType, Offsets, OneAtATime, AtPosition, Calm, NotAsked
<1>2. UNCHANGED <<task, noId, handlers, misrouted>>
    OBVIOUS
<1>3. ASSUME NEW d \in Deliveries
      PROVE  /\ Asking(d)' <=> Asking(d)
             /\ Sending(d)' <=> Sending(d)
    BY DEF Asking, Sending
<1>4. ASSUME NEW d \in Deliveries PROVE Message(d)' <=> Message(d)
    BY DEF Message
<1>5. ASSUME NEW d \in Deliveries PROVE AccountedFor(d)' <=> AccountedFor(d)
    BY DEF AccountedFor, InQueue, OnTopic, Popped, Handling
<1>6. QED
    BY <1>1, <1>2, <1>3, <1>4, <1>5

LEMMA ToldUntouched ==
    ASSUME Told, UNCHANGED pipelineVars
    PROVE  Told'
<1>1. UNCHANGED <<task, highQueue, pubsub, topic, handlers, position, notified, mode,
                  faults, crashes, signals>>
    BY DEF pipelineVars, producerVars, channelVars, consumerVars, processVars
<1>2. \A d : /\ InQueue(d)' = InQueue(d)
             /\ Message(d)' = Message(d)
             /\ \A p : Handled(p, d)' = Handled(p, d)
             /\ d \in Deliveries => Unsent(d)' = Unsent(d)
    BY <1>1 DEF Unsent, InQueue, Message, Handled
<1>3. Routed' /\ OneCopyEach'
    <2>1. Routed'
        BY <1>1 DEF Told, Routed
    <2>2. UnsentClear' /\ PublishClear'
        BY <1>1, <1>2 DEF Told, OneCopyEach, UnsentClear, PublishClear
    <2>3. ListedOnce' /\ ReceivedGone' /\ HandledOnce'
        BY <1>1 DEF Told, OneCopyEach, ListedOnce, ReceivedGone, HandledOnce
    <2>4. PoppedGone'
        BY <1>1, <1>2 DEF Told, OneCopyEach, PoppedGone
    <2>5. QED
        BY <2>1, <2>2, <2>3, <2>4 DEF OneCopyEach
<1>4. \A d \in Deliveries : ByQueue(d)' = ByQueue(d) /\ ByPubsub(d)' = ByPubsub(d)
    BY <1>1, <1>2 DEF ByQueue, ByPubsub
<1>5. ToldTwice'
    BY <1>1, <1>4 DEF Told, ToldTwice
<1>6. ToldPerCopy'
    BY <1>1 DEF Told, ToldPerCopy, Copies, Unread, Rewinds
<1>7. QED
    BY <1>3, <1>5, <1>6 DEF Told

PipelineInv ==
    /\ Channels /\ Records /\ Marked /\ Underway({})
    /\ attemptCount \in [Deliveries -> Nat] /\ isActive \in [Subscriptions -> BOOLEAN]

LEMMA PipelineInvHolds == Spec => []PipelineInv
<1>1. Init => PipelineInv
    <2> SUFFICES ASSUME Init PROVE PipelineInv
        OBVIOUS
    <2>1. Marked /\ Underway({})
        BY DEF Init, Marked, Emitted, NoIdUnmarked, NoticeTrueIfId, PassedIsSettled, Underway
    <2>2. attemptCount \in [Deliveries -> Nat] /\ isActive \in [Subscriptions -> BOOLEAN]
        BY DEF Init
    <2>3. QED
        BY <2>1, <2>2, ChannelsBegin, RecordsBegin DEF PipelineInv
<1>2. PipelineInv /\ [Next]_vars => PipelineInv'
    <2> SUFFICES ASSUME PipelineInv, [Next]_vars PROVE PipelineInv'
        OBVIOUS
    <2>1. CASE Next
        <3>1. UNCHANGED <<attemptCount, isActive>>
            BY <2>1, RecordsMove DEF PipelineInv
        <3>2. QED
            BY <2>1, <3>1, ChannelsKept, RecordsKept, MarkedKept, UnderwayKept DEF PipelineInv
    <2>2. CASE UNCHANGED vars
        <3>1. UNCHANGED <<dbVars, pipelineVars>>
            BY <2>2 DEF vars, pipelineVars
        <3>2. Channels'
            BY <3>1, ChannelsUntouched DEF PipelineInv
        <3>3. Records' /\ Underway({})'
            BY <3>1, ChannelsUntouched
               DEF PipelineInv, Records, RecordType, Underway, AccountedFor, dbVars
        <3>4. Marked'
            BY <3>1 DEF PipelineInv, Marked, Emitted, NoIdUnmarked, NoticeTrueIfId, PassedIsSettled,
                        Settled, dbVars, pipelineVars, producerVars, channelVars, consumerVars,
                        processVars
        <3>5. QED
            BY <3>1, <3>2, <3>3, <3>4 DEF PipelineInv, dbVars
    <2>3. QED
        BY <2>1, <2>2
<1>3. QED
    BY <1>1, <1>2, PTL DEF Spec

\* The state of the pipeline has its type, and a topic's offsets are in order.
THEOREM TypeCorrect == Spec => []TypeOK
<1>1. PipelineInv => TypeOK
    BY DEF PipelineInv, Channels, Records, PipelineType, RecordType, Offsets, TypeOK
<1>2. QED
    BY <1>1, PipelineInvHolds, PTL

\* Whatever crashes and fails, 'Webhook Delivery Successfully' is told of a delivery
\* that has its id only once it is marked; the only ones it is told of and that are
\* not marked, then or ever, are those whose createDelivery failed.
THEOREM NoticesTrue == Spec => []NoticeTrueIfId
<1>1. PipelineInv => NoticeTrueIfId
    BY DEF PipelineInv, Marked
<1>2. QED
    BY <1>1, PipelineInvHolds, PTL

\* Whatever crashes and fails, in whatever order, and whichever handler reads the
\* topics: the offsets committed cover settled messages only.
THEOREM OffsetsSkipNothing == Spec => []CommittedIsSettled
<1>1. PipelineInv => CommittedIsSettled
    <2> SUFFICES ASSUME PipelineInv, NEW t \in Topics, NEW i \in 1..committed[t]
                 PROVE  Settled(topic[t][i])
        BY DEF CommittedIsSettled
    <2>1. PipelineType /\ committed[t] <= position[t]
        BY DEF PipelineInv, Channels, Offsets
    <2>2. i \in 1..position[t]
        BY <2>1, ChannelTypes
    <2>3. QED
        BY <2>2 DEF PipelineInv, Marked, PassedIsSettled
<1>2. QED
    BY <1>1, PipelineInvHolds, PTL

\* Whatever crashes and fails, no delivery goes missing: what is 'pending' is on its
\* way or was given up at one of the steps that AccountedFor names.
THEOREM NothingGoesMissing == Spec => []PendingIsAccountedFor
<1>1. PipelineInv => PendingIsAccountedFor
    BY DEF PipelineInv, Underway, PendingIsAccountedFor
<1>2. QED
    BY <1>1, PipelineInvHolds, PTL

\* However often the process stops and whatever fails, clients hear of a HIGH
\* delivery twice at most (from the list and from pub/sub), and of another one
\* once for each copy and each time that the consumer may have gone back.
THEOREM ToldOncePerChannel == Spec => []NotifiedPerChannel
<1>1. PipelineInv /\ Told /\ [Next]_vars => Told'
    <2> SUFFICES ASSUME Channels, Told, [Next]_vars PROVE Told'
        BY DEF PipelineInv
    <2>1. CASE UNCHANGED vars
        BY <2>1, ToldUntouched DEF vars, pipelineVars
    <2>2. QED
        BY <2>1, ToldKept
<1>2. PipelineInv /\ Told => NotifiedPerChannel
    BY ToldBounds DEF PipelineInv
<1>3. QED
    BY <1>1, <1>2, ToldBegins, PipelineInvHolds, PTL DEF Spec

-----------------------------------------------------------------------------
(* Part 4: the pipeline beside requests that retry its deliveries *)

\* A request works on a record that it found.
Found ==
    /\ target \in [Retriers -> Deliveries] /\ pc \in [Retriers -> Retry!PC]
    /\ \A r \in Retriers : pc[r] \in Retry!Awaiting => status[target[r]] # "absent"

PutBack == {target[r] : r \in granted}

SysInv == Channels /\ Records /\ Found /\ granted \subseteq Retriers /\ Underway(PutBack)

LEMMA SysSteps ==
    ASSUME SysNext
    PROVE  \/ Next /\ UNCHANGED retryVars
           \/ Next /\ Retry!AbandonRetries
           \/ \E r \in Retriers : Retry!RetryStep(r) /\ UNCHANGED pipelineVars
           \/ /\ \E s \in Subscriptions, active \in BOOLEAN : Retry!SetActive(s, active)
              /\ UNCHANGED pipelineVars
BY DEF SysNext, PipelineStep, Stop, RetryRequest, Next, ProcessStep

\* A step of the pipeline is one that WebhookRetry has an action for, or none.
LEMMA PipelineImplements ==
    ASSUME Channels, Records, Next, UNCHANGED retryVars
    PROVE  Retry!Next \/ UNCHANGED Retry!vars
<1>1. UNCHANGED <<attemptCount, isActive>>
    BY RecordsMove
<1>2. CASE status' = status
    BY <1>1, <1>2 DEF retryVars, Retry!vars, Retry!dbVars, Retry!retryVars
<1>3. ASSUME NEW d \in Deliveries, Creates(d) PROVE Retry!CreateDelivery(d)
    <2>1. status[d] = "absent"
        BY <1>3 DEF Records, Creates, Asking
    <2>2. QED
        BY <1>1, <1>3, <2>1 DEF Creates, Retry!CreateDelivery, Retry!retryVars, retryVars
<1>4. ASSUME NEW h \in handlers, Succeeds(h)
      PROVE  h.id \in Deliveries /\ Retry!ConsumerMarksSuccess(h.id)
    <2>1. h.id \in Deliveries /\ Message(h.id)
        BY DEF Channels, PipelineType, Handler, Message
    <2>2. status[h.id] # "absent"
        BY <1>4, <2>1 DEF Records, Succeeds
    <2>3. QED
        BY <1>1, <1>4, <2>1, <2>2 DEF Succeeds, Retry!ConsumerMarksSuccess, Retry!retryVars, retryVars
<1>5. QED
    BY <1>2, <1>3, <1>4, RecordsMove DEF Retry!Next

LEMMA StoredStays ==
    ASSUME Channels, Records, Next, NEW d \in Deliveries, status[d] # "absent"
    PROVE  status'[d] # "absent"
<1>1. \A h \in handlers : h.id \in Deliveries
    BY DEF Channels, PipelineType, Handler
<1>2. QED
    BY <1>1, RecordsMove DEF Records, RecordType, Creates, Succeeds

\* A request changes the record that it found, to 'failed' or 'pending'.
LEMMA RetriesMove ==
    ASSUME SysInv, NEW r \in Retriers, Retry!RetryStep(r)
    PROVE  /\ Found' /\ RecordType' /\ granted \subseteq granted' /\ granted' \subseteq Retriers
           /\ target' = target
           /\ \A d \in Deliveries : (status'[d] = "absent") <=> (status[d] = "absent")
           /\ \A d \in Deliveries : status'[d] = "pending" =>
                status[d] = "pending" \/ \E q \in granted' : target[q] = d
<1>1. RecordType /\ Found /\ granted \subseteq Retriers
    BY DEF SysInv, Records
<1> USE DEF Found, RecordType, Retry!PC, Retry!Awaiting, Retry!Goto, Retry!dbVars
<1>2. CASE Retry!FindDelivery(r)
    BY <1>1, <1>2 DEF Retry!FindDelivery
<1>3. CASE Retry!FindSubscription(r)
    BY <1>1, <1>3 DEF Retry!FindSubscription
<1>4. CASE Retry!MarkFailed(r)
    BY <1>1, <1>4 DEF Retry!MarkFailed
<1>5. CASE Retry!MarkPending(r)
    BY <1>1, <1>5 DEF Retry!MarkPending
<1>6. CASE Retry!AddRetryEntry(r)
    BY <1>1, <1>6 DEF Retry!AddRetryEntry
<1>7. CASE Retry!RetryFails(r)
    BY <1>1, <1>7 DEF Retry!RetryFails
<1>8. QED
    BY <1>2, <1>3, <1>4, <1>5, <1>6, <1>7 DEF Retry!RetryStep

LEMMA SysInvHolds == SysSpec => []SysInv
<1>1. SysInit => SysInv
    <2> SUFFICES ASSUME SysInit PROVE SysInv
        OBVIOUS
    <2>1. Init /\ Retry!Init
        BY DEF SysInit
    <2>2. Underway(PutBack)
        BY <2>1 DEF Init, Underway
    <2>3. Found /\ granted \subseteq Retriers
        BY <2>1 DEF Found, Retry!Init, Retry!PC, Retry!Awaiting
    <2>4. QED
        BY <2>1, <2>2, <2>3, ChannelsBegin, RecordsBegin DEF SysInv
<1>2. SysInv /\ [SysNext]_sysVars => SysInv'
    <2> SUFFICES ASSUME SysInv, [SysNext]_sysVars PROVE SysInv'
        OBVIOUS
    <2>1. Channels /\ Records /\ Found /\ granted \subseteq Retriers /\ Underway(PutBack)
        BY DEF SysInv
    <2>2. ASSUME Next, UNCHANGED <<target, granted>>,
                 \A q \in Retriers : pc'[q] \in Retry!Awaiting => pc[q] \in Retry!Awaiting,
                 pc' \in [Retriers -> Retry!PC]
          PROVE  SysInv'
        <3>1. Found'
            BY <2>1, <2>2, StoredStays DEF Found
        <3>2. PICK A : A = PutBack
            OBVIOUS
        <3>3. Underway(A)'
            BY <2>1, <2>2, <3>2, UnderwayKept
        <3>4. A = PutBack'
            BY <2>2, <3>2 DEF PutBack
        <3>5. Underway(PutBack)'
            BY <3>3, <3>4 DEF Underway
        <3>6. QED
            BY <2>1, <2>2, <3>1, <3>5, ChannelsKept, RecordsKept DEF SysInv
    <2>3. CASE Next /\ UNCHANGED retryVars
        BY <2>1, <2>2, <2>3 DEF retryVars, Found
    <2>4. CASE Next /\ Retry!AbandonRetries
        BY <2>1, <2>2, <2>4 DEF Retry!AbandonRetries, Found, Retry!PC, Retry!Awaiting
    <2>5. ASSUME UNCHANGED pipelineVars, Found', RecordType', granted \subseteq granted',
                 granted' \subseteq Retriers, target' = target,
                 \A d \in Deliveries : (status'[d] = "absent") <=> (status[d] = "absent"),
                 \A d \in Deliveries : status'[d] = "pending" =>
                    status[d] = "pending" \/ \E q \in granted' : target[q] = d
          PROVE  SysInv'
        <3>1. Channels'
            BY <2>1, <2>5, ChannelsUntouched
        <3>2. Records'
            BY <2>1, <2>5, ChannelsUntouched DEF Records
        <3>3. PutBack \subseteq PutBack' /\ \A d \in Deliveries \ PutBack' :
                    status'[d] = "pending" => status[d] = "pending"
            BY <2>5 DEF PutBack
        <3>4. handlers' = handlers /\ \A h \in handlers : h.id \in Deliveries
            BY <2>1, <2>5, ChannelsUntouched DEF Channels, PipelineType, Handler
        <3>5. Underway(PutBack)'
            BY <2>1, <2>5, <3>3, <3>4, ChannelsUntouched DEF Underway
        <3>6. QED
            BY <2>5, <3>1, <3>2, <3>5 DEF SysInv
    <2>6. ASSUME NEW r \in Retriers, Retry!RetryStep(r), UNCHANGED pipelineVars
          PROVE  SysInv'
        BY <2>5, <2>6, RetriesMove
    <2>7. ASSUME NEW s \in Subscriptions, NEW active \in BOOLEAN, Retry!SetActive(s, active),
                 UNCHANGED pipelineVars
          PROVE  SysInv'
        <3>1. UNCHANGED <<status, target, pc, granted>>
            BY <2>7 DEF Retry!SetActive, Retry!retryVars
        <3>2. Found' /\ RecordType'
            BY <2>1, <3>1 DEF Found, Records, RecordType
        <3>3. QED
            BY <2>1, <2>5, <2>7, <3>1, <3>2
    <2>8. CASE UNCHANGED sysVars
        <3>1. UNCHANGED <<status, target, pc, granted, pipelineVars>>
            BY <2>8 DEF sysVars, vars, dbVars, pipelineVars, retryVars
        <3>2. Found' /\ RecordType'
            BY <2>1, <3>1 DEF Found, Records, RecordType
        <3>3. QED
            BY <2>1, <2>5, <3>1, <3>2
    <2>9. QED
        BY <2>3, <2>4, <2>6, <2>7, <2>8, SysSteps
<1>3. QED
    BY <1>1, <1>2, PTL DEF SysSpec

\* Whatever the pipeline and the requests do at the same time, all that happens
\* to the records is what WebhookRetry allows for: its theorems hold here.
THEOREM SystemImplementsRetry == SysSpec => ImplementsRetry
<1>1. SysInit => Retry!Init
    BY DEF SysInit
<1>2. SysInv /\ [SysNext]_sysVars => [Retry!Next]_(Retry!vars)
    <2> SUFFICES ASSUME SysInv, [SysNext]_sysVars PROVE Retry!Next \/ UNCHANGED Retry!vars
        OBVIOUS
    <2>1. CASE Next /\ UNCHANGED retryVars
        BY <2>1, PipelineImplements DEF SysInv
    <2>2. CASE Next /\ Retry!AbandonRetries
        BY <2>2 DEF Retry!Next
    <2>3. CASE \E r \in Retriers : Retry!RetryStep(r)
        BY <2>3 DEF Retry!Next
    <2>4. CASE \E s \in Subscriptions, active \in BOOLEAN : Retry!SetActive(s, active)
        BY <2>4 DEF Retry!Next
    <2>5. CASE UNCHANGED sysVars
        BY <2>5 DEF sysVars, vars, dbVars, retryVars, Retry!vars, Retry!dbVars, Retry!retryVars
    <2>6. QED
        BY <2>1, <2>2, <2>3, <2>4, <2>5, SysSteps
<1>3. QED
    BY <1>1, <1>2, SysInvHolds, PTL DEF SysSpec, ImplementsRetry, Retry!Spec

\* Beside retries too, no delivery goes missing, except for what a retry put back
\* to 'pending' and queued nowhere.
THEOREM NothingGoesMissingButByRetry == SysSpec => []PendingIsAccountedForOrRetried
<1>1. SysInv => PendingIsAccountedForOrRetried
    BY DEF SysInv, Underway, PendingIsAccountedForOrRetried, PutBack
<1>2. QED
    BY <1>1, SysInvHolds, PTL

\* Retries make clients hear of a delivery no more often: a request that puts one
\* back to 'pending' sends nothing.
THEOREM RetriesTellNobody == SysSpec => []NotifiedPerChannel
<1>1. SysInit => Told
    BY ToldBegins DEF SysInit
<1>2. SysInv /\ Told /\ [SysNext]_sysVars => Told'
    <2> SUFFICES ASSUME Channels, Told, [SysNext]_sysVars PROVE Told'
        BY DEF SysInv
    <2>1. CASE Next
        BY <2>1, ToldKept
    <2>2. CASE UNCHANGED pipelineVars
        BY <2>2, ToldUntouched
    <2>3. UNCHANGED sysVars => UNCHANGED pipelineVars
        BY DEF sysVars, vars, pipelineVars
    <2>4. QED
        BY <2>1, <2>2, <2>3, SysSteps
<1>3. SysInv /\ Told => NotifiedPerChannel
    BY ToldBounds DEF SysInv
<1>4. QED
    BY <1>1, <1>2, <1>3, SysInvHolds, PTL DEF SysSpec

-----------------------------------------------------------------------------
(* Part 5: what is proved of WebhookRetry, for the system *)

\* The theorems about WebhookRetry, of the records and the requests of the system.
Retries == INSTANCE WebhookRetryProofs WITH subscriptionOf <- [d \in Deliveries |-> d[2]]

\* The system's constants are as those theorems assume.
LEMMA RetriesAssumed == Retries!RetriersFinite /\ Retries!RetryConfig
BY RetriersFinite, RetryConfig DEF IsFiniteSet, Retries!IsFiniteSet

LEMMA RetriesCount == \A S : Retries!Cardinality(S) = Retry!Cardinality(S)
BY DEF Retries!Cardinality, Retry!Cardinality

\* Retry and Retries are the same module on the same state.
LEMMA RetriesSame == ImplementsRetry => Retries!Spec
<1> USE DEF Retry!dbVars, Retry!retryVars, Retries!dbVars, Retries!retryVars
<1>1. Retry!Init => Retries!Init
    BY DEF Retry!Init, Retries!Init
<1>2. Retry!Next => Retries!Next
    BY DEF Retry!Next, Retry!CreateDelivery, Retry!ConsumerMarksSuccess, Retry!SetActive,
           Retry!RetryStep, Retry!FindDelivery, Retry!FindSubscription, Retry!MarkFailed,
           Retry!MarkPending, Retry!AddRetryEntry, Retry!RetryFails, Retry!AbandonRetries,
           Retry!Goto, Retry!SubscriptionFound, Retry!LimitReached,
           Retry!webhookId, Retry!Awaiting,
           Retries!Next, Retries!CreateDelivery, Retries!ConsumerMarksSuccess, Retries!SetActive,
           Retries!RetryStep, Retries!FindDelivery, Retries!FindSubscription, Retries!MarkFailed,
           Retries!MarkPending, Retries!AddRetryEntry, Retries!RetryFails, Retries!AbandonRetries,
           Retries!Goto, Retries!SubscriptionFound, Retries!LimitReached,
           Retries!webhookId, Retries!Awaiting
<1>3. UNCHANGED Retry!vars => UNCHANGED Retries!vars
    BY DEF Retry!vars, Retries!vars
<1>4. [Retry!Next]_(Retry!vars) => [Retries!Next]_(Retries!vars)
    BY <1>2, <1>3
<1>5. QED
    BY <1>1, <1>4, PTL DEF ImplementsRetry, Retry!Spec, Retries!Spec

\* In the whole system, whatever the tasks, consumers and retries do at the same
\* time, the attempts of a delivery stay within the retry limit.
THEOREM SystemAttemptsBounded == SysSpec => []AttemptsWithinLimit
<1>1. Retries!AttemptsWithinLimit => AttemptsWithinLimit
    BY DEF AttemptsWithinLimit, Retries!AttemptsWithinLimit, Retry!AttemptsWithinLimit,
           Retries!webhookId, Retry!webhookId
<1>2. Retries!Spec => []Retries!AttemptsWithinLimit
    BY RetriesAssumed, Retries!AttemptsBounded
<1>3. QED
    BY <1>1, <1>2, SystemImplementsRetry, RetriesSame, PTL

\* ...a delivery is given up only for as many written increments as the limit...
THEOREM SystemFailureEarned == SysSpec => []FailedOnlyAfterLimit
<1>1. Retries!FailedOnlyAfterLimit => FailedOnlyAfterLimit
    BY RetriesCount DEF FailedOnlyAfterLimit, Retries!FailedOnlyAfterLimit,
                        Retry!FailedOnlyAfterLimit, Retries!Granted, Retry!Granted,
                        Retries!webhookId, Retry!webhookId
<1>2. Retries!Spec => []Retries!FailedOnlyAfterLimit
    BY RetriesAssumed, Retries!FailureEarned
<1>3. QED
    BY <1>1, <1>2, SystemImplementsRetry, RetriesSame, PTL

\* ...and a request answered 'requeued' has its entry stored.
THEOREM SystemAnswerBacked == SysSpec => []RequeuedHasEntry
<1>1. Retries!RequeuedHasEntry => RequeuedHasEntry
    BY DEF RequeuedHasEntry, Retries!RequeuedHasEntry, Retry!RequeuedHasEntry
<1>2. Retries!Spec => []Retries!RequeuedHasEntry
    BY RetriesAssumed, Retries!AnswerBacked
<1>3. QED
    BY <1>1, <1>2, SystemImplementsRetry, RetriesSame, PTL
=============================================================================
