------------------------ MODULE KafkaConsumerStartup ------------------------
(***************************************************************************)
(* How WebhookConsumerService and UserAuthConsumerService start the one    *)
(* kafka_consumer that kafka-connection.ts exports to both of them, and    *)
(* which of the two eachMessage handlers gets the messages.                *)
(*                                                                         *)
(* kafkajs is modelled from the calls: subscribe records its topics when   *)
(* it is called and then fetches their metadata, one call after the other; *)
(* run gives the consumer its handler, unless it has one already.          *)
(***************************************************************************)
EXTENDS Naturals, Sequences, FiniteSets

CONSTANTS
    Services,       \* {"webhook", "userAuth"}
    topicsOf,       \* the topics each service subscribes to
    MaxMessages,    \* bounds: unread messages of a topic,
    MaxFaults,      \*         connections, metadata requests and sessions that fail,
    MaxRestarts     \*         times the process is started again

ASSUME StartupConstants ==
    /\ Services = {"webhook", "userAuth"}
    /\ topicsOf["webhook"] \cap topicsOf["userAuth"] = {}
    /\ MaxMessages \in Nat /\ MaxFaults \in Nat /\ MaxRestarts \in Nat

Topics == UNION {topicsOf[s] : s \in Services}

VARIABLES
    phase,          \* how far main and bootstrap are
    pc,             \* where initializeConsumers of a service is
    registered,     \* the topics the consumer was told of
    fetching,       \* the subscribe calls that wait for metadata, in order
    running,        \* the service whose handler the consumer runs, or "none"
    groupTopics,    \* the topics that handler gets
    unread,         \* messages of each topic that the group has not handled
    faults, restarts

clientVars == <<phase, pc, registered, fetching, running, groupTopics>>
boundVars  == <<faults, restarts>>
vars       == <<clientVars, unread, boundVars>>

PC == {"boot", "redis", "subscribe", "initialized", "failed"}

TypeOK ==
    /\ phase \in {"database", "producer", "services", "exited"}
    /\ pc \in [Services -> PC]
    /\ registered \subseteq Topics
    /\ fetching \in Seq(Services) /\ Len(fetching) <= Cardinality(Services)
    /\ running \in Services \cup {"none"}
    /\ groupTopics \subseteq registered
    /\ unread \in [Topics -> 0..MaxMessages]
    /\ faults \in 0..MaxFaults /\ restarts \in 0..MaxRestarts

Init ==
    /\ phase = "database"
    /\ pc = [s \in Services |-> "boot"]
    /\ registered = {}
    /\ fetching = <<>>
    /\ running = "none"
    /\ groupTopics = {}
    /\ unread = [t \in Topics |-> 0]
    /\ faults = 0
    /\ restarts = 0

-----------------------------------------------------------------------------
\* initializeDB.
ConnectDatabase ==
    /\ phase = "database"
    /\ phase' = "producer"
    /\ UNCHANGED <<pc, registered, fetching, running, groupTopics, unread, boundVars>>

\* The database or the producer cannot be reached: main exits with 1.  An error
\* of the socket server is logged, and bootstrap goes on.
ConnectFails ==
    /\ phase \in {"database", "producer"} /\ faults < MaxFaults
    /\ phase' = "exited"
    /\ faults' = faults + 1
    /\ UNCHANGED <<pc, registered, fetching, running, groupTopics, unread, restarts>>

\* The producer is connected: bootstrap calls getInstance of both services without
\* an await between them.
\* The webhook service comes first, but awaits initializeRedisConsumer; the
\* user-auth service calls subscribe at once.
Bootstrap ==
    /\ phase = "producer"
    /\ phase' = "services"
    /\ pc' = [webhook |-> "redis", userAuth |-> "subscribe"]
    /\ registered' = topicsOf["userAuth"]
    /\ fetching' = <<"userAuth">>
    /\ UNCHANGED <<running, groupTopics, unread, boundVars>>

\* initializeRedisConsumer awaits nothing: the webhook service calls subscribe
\* before any metadata can have arrived.
SubscribeSecond(s) ==
    /\ pc[s] = "redis"
    /\ pc' = [pc EXCEPT ![s] = "subscribe"]
    /\ registered' = registered \cup topicsOf[s]
    /\ fetching' = Append(fetching, s)
    /\ UNCHANGED <<phase, running, groupTopics, unread, boundVars>>

RunOwnTopics(s) ==
    IF running = "none"
      THEN running' = s /\ groupTopics' = topicsOf[s]
      ELSE UNCHANGED <<running, groupTopics>>

\* run: the first caller's handler gets every topic registered by then; the
\* call of the other does nothing, and both report success.
Run(s) ==
    IF running = "none"
      THEN running' = s /\ groupTopics' = registered
      ELSE UNCHANGED <<running, groupTopics>>

NobodyInRedis == \A s \in Services : pc[s] # "redis"

\* The metadata arrive; subscribe returns and the service calls run.
Subscribed(s) ==
    /\ NobodyInRedis
    /\ fetching # <<>> /\ Head(fetching) = s
    /\ fetching' = Tail(fetching)
    /\ Run(s)
    /\ pc' = [pc EXCEPT ![s] = "initialized"]
    /\ UNCHANGED <<phase, registered, unread, boundVars>>

\* subscribe rejects: the error is logged and the service is not tried again;
\* its topics stay registered.
SubscribeFails(s) ==
    /\ NobodyInRedis /\ faults < MaxFaults
    /\ fetching # <<>> /\ Head(fetching) = s
    /\ fetching' = Tail(fetching)
    /\ pc' = [pc EXCEPT ![s] = "failed"]
    /\ faults' = faults + 1
    /\ UNCHANGED <<phase, registered, running, groupTopics, unread, restarts>>

\* 'consumer.crash' with an error that kafkajs does not retry: it is logged.
ConsumerCrashes ==
    /\ running # "none" /\ faults < MaxFaults
    /\ running' = "none"
    /\ groupTopics' = {}
    /\ faults' = faults + 1
    /\ UNCHANGED <<phase, pc, registered, fetching, unread, restarts>>

\* The producers of this and of the auth service.
Produced(t) ==
    /\ unread[t] < MaxMessages
    /\ unread' = [unread EXCEPT ![t] = @ + 1]
    /\ UNCHANGED <<clientVars, boundVars>>

EachMessage(t) ==
    /\ running # "none" /\ t \in groupTopics /\ unread[t] > 0
    /\ unread' = [unread EXCEPT ![t] = @ - 1]
    /\ UNCHANGED <<clientVars, boundVars>>

\* The process is killed or exits, and is started again.
Restart ==
    /\ restarts < MaxRestarts
    /\ restarts' = restarts + 1
    /\ phase' = "database"
    /\ pc' = [s \in Services |-> "boot"]
    /\ registered' = {}
    /\ fetching' = <<>>
    /\ running' = "none"
    /\ groupTopics' = {}
    /\ UNCHANGED <<unread, faults>>

Startup ==
    \/ ConnectDatabase \/ Bootstrap
    \/ \E s \in Services : SubscribeSecond(s) \/ Subscribed(s)

Next ==
    \/ Startup
    \/ \E s \in Services : SubscribeFails(s)
    \/ ConnectFails \/ ConsumerCrashes
    \/ \E t \in Topics : Produced(t) \/ EachMessage(t)
    \/ Restart

Spec == Init /\ [][Next]_vars

-----------------------------------------------------------------------------
(* Properties *)

\* A service that reports success has its topics read, whichever of the two
\* handlers runs and in whatever order the subscriptions end.
InitializedIsRead ==
    \A s \in Services : pc[s] = "initialized" /\ running # "none" =>
        topicsOf[s] \subseteq groupTopics

\* The webhook handler runs in a process only after something failed in it or in
\* the ones before: the user-auth service is always the first to subscribe.
WebhookHandlerNeedsFault == running = "webhook" => faults > 0

\* A running handler is replaced by none: messages of a topic do not move from
\* one service to the other under way.
HandlerStays == [][running # "none" => running' \in {running, "none"}]_vars
=============================================================================
