----------------------- MODULE ConsumerHandlersProofs -----------------------
(***************************************************************************)
(* For any topics, messages, failures and restarts, and any number of      *)
(* attempts: the handlers leave the startup as it is proved to be, and     *)
(* what a message that is done with has cost and achieved is accounted for.*)
(***************************************************************************)
EXTENDS ConsumerHandlers, FiniteSetTheorems, SequenceTheorems, TLAPS

-----------------------------------------------------------------------------
(* KafkaConsumerStartup: whichever service gets to run the consumer runs it for *)
(* the topics of both, that is the user-auth service unless something failed,   *)
(* and no other handler takes its place.                                        *)

Over == {"initialized", "failed"}

\* Who waits for metadata, and in which order, at every stage of the startup.
InLine ==
    \/ pc["webhook"] = "redis" /\ pc["userAuth"] = "subscribe" /\ fetching = <<"userAuth">>
    \/ /\ pc["webhook"] = "subscribe" /\ pc["userAuth"] = "subscribe"
       /\ fetching = <<"userAuth", "webhook">>
    \/ pc["webhook"] = "subscribe" /\ pc["userAuth"] \in Over /\ fetching = <<"webhook">>
    \/ pc["webhook"] \in Over /\ pc["userAuth"] \in Over /\ fetching = <<>>

Before ==
    /\ fetching = <<>> /\ running = "none" /\ groupTopics = {}
    /\ \A s \in Services : pc[s] = "boot"

Stages == IF phase = "services" THEN InLine ELSE Before

Registered ==
    /\ \A s \in Services : pc[s] \notin {"boot", "redis"} => topicsOf[s] \subseteq registered
    /\ running # "none" => groupTopics = Topics

\* Without a failure the user-auth service, first in line, runs the consumer.
FirstRuns ==
    faults = 0 /\ pc["userAuth"] \in Over => running = "userAuth"

NotYet == pc["userAuth"] \notin Over => running = "none"

Inv == TypeOK /\ Stages /\ Registered /\ FirstRuns /\ NotYet

-----------------------------------------------------------------------------
LEMMA TwoServices ==
    /\ Services = {"webhook", "userAuth"} /\ Cardinality(Services) = 2
    /\ Topics = topicsOf["webhook"] \cup topicsOf["userAuth"]
<1>1. Services = {"webhook", "userAuth"}
    BY StartupConstants
<1>2. IsFiniteSet({}) /\ Cardinality({}) = 0
    BY FS_EmptySet
<1>3. IsFiniteSet({"userAuth"}) /\ Cardinality({"userAuth"}) = 1
    BY FS_Singleton
<1>4. Cardinality({"userAuth"} \cup {"webhook"}) = 2
    BY <1>3, FS_AddElement
<1>5. Services = {"userAuth"} \cup {"webhook"}
    BY <1>1
<1>6. Topics = topicsOf["webhook"] \cup topicsOf["userAuth"]
    BY <1>1 DEF Topics
<1>7. QED
    BY <1>1, <1>4, <1>5, <1>6

LEMMA InitInv == Init => Inv
BY TwoServices, StartupConstants
DEF Init, Inv, TypeOK, PC, Stages, Before, Registered, FirstRuns, NotYet, Over

LEMMA Lines ==
    /\ Append(<<"userAuth">>, "webhook") = <<"userAuth", "webhook">>
    /\ <<>> \in Seq(Services) /\ Len(<<>>) <= 2
    /\ <<"webhook">> \in Seq(Services) /\ Len(<<"webhook">>) <= 2
    /\ <<"userAuth">> \in Seq(Services) /\ Len(<<"userAuth">>) <= 2
    /\ <<"userAuth", "webhook">> \in Seq(Services) /\ Len(<<"userAuth", "webhook">>) <= 2
<1>1. "userAuth" \in Services /\ "webhook" \in Services
    BY TwoServices
<1>2. Append(<<"userAuth">>, "webhook") = <<"userAuth", "webhook">>
    <2> DEFINE both == Append(<<"userAuth">>, "webhook")
    <2>1. <<"userAuth">> \in Seq(Services) /\ Len(<<"userAuth">>) = 1 /\ <<"userAuth">>[1] = "userAuth"
        BY <1>1
    <2>2. both \in Seq(Services) /\ Len(both) = 2 /\ both[1] = "userAuth" /\ both[2] = "webhook"
        BY <1>1, <2>1, AppendProperties
    <2>3. <<"userAuth", "webhook">> \in Seq(Services) /\ Len(<<"userAuth", "webhook">>) = 2
        BY <1>1
    <2>4. \A i \in 1..2 : both[i] = <<"userAuth", "webhook">>[i]
        BY <2>2
    <2> HIDE DEF both
    <2>5. both = <<"userAuth", "webhook">>
        BY <2>2, <2>3, <2>4, SeqEqual
    <2>6. QED
        BY <2>5 DEF both
<1>3. QED
    BY <1>1, <1>2

\* The one whose metadata arrive, and who is left.
LEMMA HeadOfLine ==
    ASSUME InLine, pc["webhook"] # "redis", fetching # <<>>
    PROVE  /\ pc["webhook"] = "subscribe"
           /\ \/ Head(fetching) = "userAuth" /\ Tail(fetching) = <<"webhook">>
              \/ /\ Head(fetching) = "webhook" /\ Tail(fetching) = <<>>
                 /\ pc["userAuth"] \in Over
<1>1. CASE fetching = <<"userAuth", "webhook">> /\ pc["webhook"] = "subscribe"
    BY <1>1
<1>2. CASE fetching = <<"webhook">> /\ pc["webhook"] = "subscribe" /\ pc["userAuth"] \in Over
    BY <1>2
<1>3. QED
    BY <1>1, <1>2 DEF InLine

\* Whoever ends its subscription finds the topics of both registered.
LEMMA SubscribedInv ==
    ASSUME Inv, NEW s \in Services, Subscribed(s)
    PROVE  Inv'
<1>1. phase = "services" /\ phase' = "services" /\ InLine
    BY DEF Inv, Stages, Before, Subscribed
<1>2. registered = Topics /\ registered' = registered
    BY <1>1, TwoServices
    DEF Inv, TypeOK, Registered, InLine, Over, Subscribed, NobodyInRedis
<1>3. /\ pc' = [pc EXCEPT ![s] = "initialized"] /\ pc \in [Services -> PC]
      /\ fetching # <<>> /\ Head(fetching) = s /\ fetching' = Tail(fetching)
      /\ pc["webhook"] # "redis"
    BY TwoServices DEF Inv, TypeOK, Subscribed, NobodyInRedis
<1>4. InLine' /\ (s = "webhook" => pc["userAuth"] \in Over)
    <2>1. CASE s = "userAuth" /\ fetching' = <<"webhook">>
        BY <1>3, <2>1, <1>1, HeadOfLine, TwoServices DEF InLine, Over
    <2>2. CASE s = "webhook" /\ fetching' = <<>> /\ pc["userAuth"] \in Over
        BY <1>3, <2>2, <1>1, HeadOfLine, TwoServices DEF InLine, Over
    <2>3. QED
        BY <1>1, <1>3, <2>1, <2>2, HeadOfLine
<1>5. fetching' \in Seq(Services) /\ Len(fetching') <= 2
    BY <1>1, <1>3, HeadOfLine, Lines
<1>6. \/ running = "none" /\ running' = s /\ groupTopics' = Topics
      \/ running # "none" /\ running' = running /\ groupTopics' = groupTopics
    BY <1>2 DEF Subscribed, Run
<1>7. TypeOK'
    BY <1>1, <1>2, <1>3, <1>5, <1>6, TwoServices
    DEF Inv, TypeOK, PC, Subscribed, boundVars
<1>8. Registered'
    BY <1>2, <1>6, TwoServices DEF Inv, Registered
<1>9. FirstRuns' /\ NotYet'
    BY <1>3, <1>4, <1>6, TwoServices
    DEF Inv, FirstRuns, NotYet, Over, Subscribed, boundVars
<1>10. QED
    BY <1>1, <1>4, <1>7, <1>8, <1>9 DEF Inv, Stages

LEMMA SubscribeFailsInv ==
    ASSUME Inv, NEW s \in Services, SubscribeFails(s)
    PROVE  Inv'
<1>1. phase = "services" /\ phase' = "services" /\ InLine
    BY DEF Inv, Stages, Before, SubscribeFails
<1>2. /\ pc' = [pc EXCEPT ![s] = "failed"] /\ pc \in [Services -> PC]
      /\ fetching # <<>> /\ Head(fetching) = s /\ fetching' = Tail(fetching)
      /\ pc["webhook"] # "redis"
    BY TwoServices DEF Inv, TypeOK, SubscribeFails, NobodyInRedis
<1>3. InLine'
    <2>1. CASE s = "userAuth" /\ fetching' = <<"webhook">>
        BY <1>1, <1>2, <2>1, HeadOfLine, TwoServices DEF InLine, Over
    <2>2. CASE s = "webhook" /\ fetching' = <<>> /\ pc["userAuth"] \in Over
        BY <1>1, <1>2, <2>2, HeadOfLine, TwoServices DEF InLine, Over
    <2>3. QED
        BY <1>1, <1>2, <2>1, <2>2, HeadOfLine
<1>4. fetching' \in Seq(Services) /\ Len(fetching') <= 2
    BY <1>1, <1>2, HeadOfLine, Lines
<1>5. faults' = faults + 1 /\ faults \in Nat /\ faults' \in 0..MaxFaults
    BY StartupConstants DEF Inv, TypeOK, SubscribeFails
<1>6. TypeOK'
    BY <1>1, <1>2, <1>4, <1>5, TwoServices DEF Inv, TypeOK, PC, SubscribeFails
<1>7. Registered'
    BY <1>1, <1>2, TwoServices DEF Inv, Registered, SubscribeFails, InLine, Over
<1>8. FirstRuns' /\ NotYet'
    BY <1>1, <1>2, <1>5, TwoServices
    DEF Inv, FirstRuns, NotYet, Over, SubscribeFails, InLine
<1>9. QED
    BY <1>1, <1>3, <1>6, <1>7, <1>8 DEF Inv, Stages

LEMMA StepInv == Inv /\ [Next]_vars => Inv'
<1> SUFFICES ASSUME Inv, [Next]_vars PROVE Inv'
    OBVIOUS
<1>1. CASE ConnectDatabase
    BY <1>1 DEF ConnectDatabase, Inv, TypeOK, Stages, Before, Registered, FirstRuns, NotYet,
        boundVars
<1>2. CASE ConnectFails
    BY <1>2, StartupConstants
    DEF ConnectFails, Inv, TypeOK, Stages, Before, Registered, FirstRuns, NotYet
<1>3. CASE Bootstrap
    <2>1. running = "none" /\ running' = "none" /\ groupTopics' = groupTopics
        BY <1>3 DEF Bootstrap, Inv, Stages, Before
    <2>2. /\ phase' = "services" /\ pc' = [webhook |-> "redis", userAuth |-> "subscribe"]
          /\ registered' = topicsOf["userAuth"] /\ fetching' = <<"userAuth">>
        BY <1>3 DEF Bootstrap
    <2>3. pc' \in [Services -> PC] /\ fetching' \in Seq(Services) /\ Len(fetching') <= 2
        BY <2>2, TwoServices DEF PC
    <2>4. groupTopics' = {}
        BY <1>3 DEF Bootstrap, Inv, Stages, Before
    <2>5. QED
        BY <1>3, <2>1, <2>2, <2>3, <2>4, TwoServices
        DEF Bootstrap, Inv, TypeOK, Stages, InLine, Registered, FirstRuns, NotYet, Over, boundVars
<1>4. ASSUME NEW s \in Services, SubscribeSecond(s) PROVE Inv'
    <2>1. phase = "services" /\ phase' = "services" /\ InLine
        BY <1>4 DEF SubscribeSecond, Inv, Stages, Before
    <2>2. s = "webhook" /\ fetching = <<"userAuth">> /\ pc["userAuth"] = "subscribe"
        BY <1>4, <2>1, TwoServices DEF SubscribeSecond, InLine, Over
    <2>3. fetching' = <<"userAuth", "webhook">>
        BY <1>4, <2>2, Lines DEF SubscribeSecond
    <2>4. pc' \in [Services -> PC] /\ pc'["webhook"] = "subscribe" /\ pc'["userAuth"] = "subscribe"
        BY <1>4, <2>2, TwoServices DEF SubscribeSecond, Inv, TypeOK, PC
    <2>5. InLine' /\ fetching' \in Seq(Services) /\ Len(fetching') <= 2
        BY <2>3, <2>4, TwoServices DEF InLine
    <2>6. running = "none" /\ running' = "none" /\ registered' = registered \cup topicsOf[s]
        BY <1>4, <2>2 DEF SubscribeSecond, Inv, NotYet, Over
    <2>7. Registered' /\ FirstRuns' /\ NotYet'
        BY <1>4, <2>2, <2>4, <2>6, TwoServices
        DEF SubscribeSecond, Inv, Registered, FirstRuns, NotYet, Over
    <2>8. TypeOK'
        BY <1>4, <2>1, <2>4, <2>5, <2>6, TwoServices
        DEF SubscribeSecond, Inv, TypeOK, boundVars
    <2>9. QED
        BY <2>1, <2>5, <2>7, <2>8 DEF Inv, Stages
<1>5. ASSUME NEW s \in Services, Subscribed(s) PROVE Inv'
    BY <1>5, SubscribedInv
<1>6. ASSUME NEW s \in Services, SubscribeFails(s) PROVE Inv'
    BY <1>6, SubscribeFailsInv
<1>7. CASE ConsumerCrashes
    <2>1. faults' = faults + 1 /\ faults \in Nat /\ faults' \in 0..MaxFaults
        BY <1>7, StartupConstants DEF ConsumerCrashes, Inv, TypeOK
    <2>2. phase = "services"
        BY <1>7 DEF ConsumerCrashes, Inv, Stages, Before
    <2>3. QED
        BY <1>7, <2>1, <2>2
        DEF ConsumerCrashes, Inv, TypeOK, Stages, InLine, Registered, FirstRuns, NotYet
<1>8. ASSUME NEW t \in Topics, Produced(t) \/ EachMessage(t) PROVE Inv'
    <2>1. unread' \in [Topics -> 0..MaxMessages]
        BY <1>8, StartupConstants DEF Produced, EachMessage, Inv, TypeOK
    <2>2. UNCHANGED <<clientVars, boundVars>>
        BY <1>8 DEF Produced, EachMessage
    <2>3. QED
        BY <2>1, <2>2 DEF clientVars, boundVars, Inv, TypeOK, Stages, InLine, Before, Registered,
            FirstRuns, NotYet
<1>9. CASE Restart
    <2>1. pc' \in [Services -> PC] /\ \A s \in Services : pc'[s] = "boot"
        BY <1>9 DEF Restart, PC
    <2>2. fetching' \in Seq(Services) /\ Len(fetching') <= 2
        BY <1>9 DEF Restart
    <2>3. restarts' \in 0..MaxRestarts
        BY <1>9, StartupConstants DEF Restart, Inv, TypeOK
    <2>4. QED
        BY <1>9, <2>1, <2>2, <2>3, TwoServices
        DEF Restart, Inv, TypeOK, Stages, Before, Registered, FirstRuns, NotYet, Over
<1>10. CASE UNCHANGED vars
    BY <1>10 DEF vars, clientVars, boundVars, Inv, TypeOK, Stages, InLine, Before, Registered,
        FirstRuns, NotYet
<1>11. QED
    BY <1>1, <1>2, <1>3, <1>4, <1>5, <1>6, <1>7, <1>8, <1>9, <1>10 DEF Next, Startup
LEMMA Invariance == Spec => []Inv
<1>1. Init => Inv
    BY InitInv
<1>2. Inv /\ [Next]_vars => Inv'
    BY StepInv
<1>3. QED
    BY <1>1, <1>2, PTL DEF Spec

\* The startup, the consumer and the unread messages have their types.
THEOREM TypeCorrect == Spec => []TypeOK
<1>1. Inv => TypeOK
    BY DEF Inv
<1>2. QED
    BY <1>1, Invariance, PTL

\* A service whose initializeConsumers reported success has all its topics read.
THEOREM TopicsAreRead == Spec => []InitializedIsRead
<1>1. Inv => InitializedIsRead
    BY DEF Inv, Registered, InitializedIsRead, Topics
<1>2. QED
    BY <1>1, Invariance, PTL

\* Only a failure makes eachMessage of the webhook service the handler.
THEOREM UserAuthComesFirst == Spec => []WebhookHandlerNeedsFault
<1>1. Inv => WebhookHandlerNeedsFault
    BY StartupConstants DEF Inv, TypeOK, FirstRuns, NotYet, WebhookHandlerNeedsFault
<1>2. QED
    BY <1>1, Invariance, PTL

\* No step gives a running consumer another handler.
THEOREM NoHandover == Spec => HandlerStays
<1>1. Inv /\ [Next]_vars => (running # "none" => running' \in {running, "none"})
    <2> SUFFICES ASSUME Inv, [Next]_vars, running # "none"
                 PROVE  running' \in {running, "none"}
        OBVIOUS
    <2>1. CASE UNCHANGED vars
        BY <2>1 DEF vars, clientVars
    <2>2. ASSUME NEW s \in Services, SubscribeSecond(s) \/ Subscribed(s) \/ SubscribeFails(s)
          PROVE  running' = running
        BY <2>2 DEF SubscribeSecond, Subscribed, SubscribeFails, Run
    <2>3. ASSUME NEW t \in Topics, Produced(t) \/ EachMessage(t) PROVE running' = running
        BY <2>3 DEF Produced, EachMessage, clientVars
    <2>4. CASE ConnectDatabase \/ ConnectFails \/ Bootstrap \/ ConsumerCrashes \/ Restart
        BY <2>4 DEF ConnectDatabase, ConnectFails, Bootstrap, ConsumerCrashes, Restart
    <2>5. QED
        BY <2>1, <2>2, <2>3, <2>4 DEF Next, Startup
<1>2. QED
    BY <1>1, Invariance, PTL DEF Spec, HandlerStays

-----------------------------------------------------------------------------
(* ConsumerHandlers *)

CallTypeOK ==
    /\ io \in BOOLEAN /\ discord \in BOOLEAN
    /\ call \in {NoCall} \cup [topic : Topics, stage : CallStages,
                               attempts : 0..RetryAttempts, inSession : BOOLEAN]
    /\ emits \in [Topics -> Nat] /\ posts \in [Topics -> Nat]
    /\ mishaps \in 0..MaxMishaps

\* Who is at work, and that the socket server is there unless something went wrong.
AtWork ==
    /\ call.stage \in CallStages => running # "none"
    /\ call.stage = "update" => running = "webhook"
    /\ phase \in {"producer", "services"} /\ ~io => mishaps > 0

\* How far sendMessage is, and what it has achieved.
Sending ==
    /\ call.stage \in {"post", "wait", "hung"} => discord
    /\ call.stage \in {"update", "post"} => call.attempts < RetryAttempts
    /\ call.stage = "returned" /\ discord =>
         posts[call.topic] > 0 \/ call.attempts = RetryAttempts

Emitted ==
    call.stage \in CallStages \ {"update", "rejected"} =>
        emits[call.topic] > 0 \/ (running = "webhook" /\ mishaps > 0)

\* What a copy may be owed to, but for the first.  A call whose session is over
\* has used one of them up already: its message will be fetched again.
Troubles == faults + mishaps + restarts
Spent    == IF call.inSession THEN 0 ELSE 1
EmitsNow == IF call.stage \in {"none", "update", "rejected"} THEN 0 ELSE 1
PostsNow == IF call.stage = "returned" THEN 1 ELSE 0
Owed ==
    \A t \in Topics :
        IF call.topic = t
          THEN emits[t] + Spent <= Troubles + EmitsNow /\ posts[t] + Spent <= Troubles + PostsNow
          ELSE emits[t] <= Troubles /\ posts[t] <= Troubles

HInv == Inv /\ CallTypeOK /\ AtWork /\ Sending /\ Emitted /\ Owed

-----------------------------------------------------------------------------
(* The startup *)

LEMMA InitHInv == HandlersInit => HInv
<1> SUFFICES ASSUME HandlersInit PROVE HInv
    OBVIOUS
<1>1. Inv
    BY InitInv DEF HandlersInit
<1>2. /\ faults = 0 /\ restarts = 0 /\ mishaps = 0 /\ phase = "database"
      /\ call = NoCall
    BY DEF HandlersInit, Init
<1>3. CallTypeOK
    <2>1. mishaps \in 0..MaxMishaps
        BY <1>2, HandlerConstants
    <2>2. emits \in [Topics -> Nat] /\ posts \in [Topics -> Nat]
        BY DEF HandlersInit
    <2>3. QED
        BY <1>2, <2>1, <2>2, Zenon DEF HandlersInit, CallTypeOK
<1>4. AtWork /\ Sending /\ Emitted /\ Owed
    BY <1>2 DEF HandlersInit, NoCall, CallStages, AtWork, Sending, Emitted, Owed, Troubles,
        Spent, EmitsNow, PostsNow
<1>5. QED
    BY <1>1, <1>3, <1>4 DEF HInv

\* A call is of a topic, and running.
LEMMA CallOfTopic ==
    ASSUME CallTypeOK, call.stage \in CallStages
    PROVE  /\ call \in [topic : Topics, stage : CallStages,
                        attempts : 0..RetryAttempts, inSession : BOOLEAN]
           /\ call # NoCall
BY DEF CallTypeOK, NoCall, CallStages

\* Every step of the handlers is one of the startup, or none.
LEMMA StepsOfStartup ==
    ASSUME CallTypeOK, [HandlersNext]_allVars
    PROVE  [Next]_vars
<1>1. CASE UNCHANGED vars
    BY <1>1
<1>2. CASE StartSocket \/ Subscribing
    BY <1>2 DEF StartSocket, Subscribing, Next, Startup
<1>3. CASE ConnectFails \/ \E s \in Services : SubscribeFails(s)
    BY <1>3 DEF Next
<1>4. CASE \E t \in Topics : Produced(t)
    BY <1>4 DEF Next
<1>5. CASE CommitOffset
    <2>1. call.topic \in Topics
        BY <1>5, CallOfTopic DEF CommitOffset, CallStages
    <2>2. QED
        BY <1>5, <2>1 DEF CommitOffset, Next
<1>6. CASE CrashBetweenCalls \/ RestartProcess
    BY <1>6 DEF CrashBetweenCalls, RestartProcess, Next
<1>7. QED
    BY <1>1, <1>2, <1>3, <1>4, <1>5, <1>6
    DEF HandlersNext, allVars, HandleStep, CallWebhook, CallUserAuth, DeliveryUpdated, Posted,
        Refused, Waited, FetchAgain, DeliveryUpdateFails, AnswerLost, PostHangs, SessionExpires

-----------------------------------------------------------------------------
(* The steps *)

LEMMA TroublesNat ==
    ASSUME HInv
    PROVE  /\ Troubles \in Nat /\ faults \in Nat /\ restarts \in Nat /\ mishaps \in Nat
           /\ RetryAttempts \in Nat \ {0}
BY StartupConstants, HandlerConstants DEF HInv, Inv, TypeOK, CallTypeOK, Troubles

\* No handler takes part: the services subscribe, producers produce.
LEMMA OthersStep ==
    ASSUME HInv, Inv',
           \/ StartSocket \/ Subscribing
           \/ /\ ConnectFails \/ \E s \in Services : SubscribeFails(s)
              /\ UNCHANGED handlerVars
           \/ (\E t \in Topics : Produced(t)) /\ UNCHANGED handlerVars
    PROVE  HInv'
<1>1. UNCHANGED <<discord, call, emits, posts>>
    BY DEF StartSocket, Subscribing, handlerVars
<1>2. /\ running # "none" => running' = running
      /\ restarts' = restarts /\ faults' \in {faults, faults + 1}
    <2>1. CASE \E s \in Services : SubscribeSecond(s) \/ Subscribed(s) \/ SubscribeFails(s)
        BY <2>1 DEF SubscribeSecond, Subscribed, SubscribeFails, Run, boundVars
    <2>2. CASE \E t \in Topics : Produced(t)
        BY <2>2 DEF Produced, clientVars, boundVars
    <2>3. CASE ConnectDatabase \/ ConnectFails \/ Bootstrap
        BY <2>3 DEF ConnectDatabase, ConnectFails, Bootstrap, boundVars
    <2>4. QED
        BY <2>1, <2>2, <2>3 DEF StartSocket, Subscribing
<1>3. /\ io' \in BOOLEAN /\ mishaps' \in 0..MaxMishaps /\ mishaps' \in {mishaps, mishaps + 1}
      /\ phase' \in {"producer", "services"} /\ ~io' => mishaps' > 0
    <2>1. CASE StartSocket
        <3>1. CASE io' = TRUE /\ UNCHANGED mishaps
            BY <3>1 DEF HInv, CallTypeOK
        <3>2. CASE io' = FALSE /\ Mishap
            <4>1. mishaps' = mishaps + 1 /\ mishaps' \in 0..MaxMishaps /\ mishaps' > 0
                BY <3>2, TroublesNat, HandlerConstants DEF Mishap
            <4>2. QED
                BY <3>2, <4>1
        <3>3. QED
            BY <2>1, <3>1, <3>2 DEF StartSocket
    <2>2. CASE UNCHANGED handlerVars
        <3>1. io' = io /\ mishaps' = mishaps
            BY <2>2 DEF handlerVars
        <3>2. phase' \in {"producer", "services"} /\ ~StartSocket
              => phase \in {"producer", "services"}
            BY DEF Subscribing, Bootstrap, SubscribeSecond, Subscribed, SubscribeFails, ConnectFails,
                Produced, clientVars
        <3>3. CASE ~StartSocket
            BY <3>1, <3>2, <3>3 DEF HInv, CallTypeOK, AtWork
        <3>4. QED
            BY <2>1, <3>3
    <2>3. QED
        BY <2>1, <2>2 DEF Subscribing
<1>4. Troubles' >= Troubles /\ Troubles' \in Nat
    BY <1>2, <1>3, TroublesNat DEF Troubles
<1>5. CallTypeOK'
    BY <1>1, <1>3 DEF HInv, CallTypeOK
<1>6. AtWork' /\ Sending' /\ Emitted'
    <2>1. mishaps > 0 => mishaps' > 0
        BY <1>3, TroublesNat
    <2>2. AtWork'
        BY <1>1, <1>2, <1>3 DEF HInv, AtWork
    <2>3. Sending'
        BY <1>1 DEF HInv, Sending
    <2>4. Emitted'
        BY <1>1, <1>2, <2>1 DEF HInv, AtWork, Emitted, CallStages
    <2>5. QED
        BY <2>2, <2>3, <2>4
<1>7. Owed'
    <2>1. Spent' = Spent /\ EmitsNow' = EmitsNow /\ PostsNow' = PostsNow
        BY <1>1 DEF Spent, EmitsNow, PostsNow
    <2>2. Spent \in 0..1 /\ EmitsNow \in 0..1 /\ PostsNow \in 0..1
        BY DEF Spent, EmitsNow, PostsNow
    <2>3. \A t \in Topics : emits[t] \in Nat /\ posts[t] \in Nat
        BY DEF HInv, CallTypeOK
    <2>4. QED
        BY <1>1, <1>4, <2>1, <2>2, <2>3, TroublesNat DEF HInv, Owed
<1>8. QED
    BY <1>5, <1>6, <1>7 DEF HInv

\* A call begins.
LEMMA CallStep ==
    ASSUME HInv, Inv', NEW t \in Topics, CallWebhook(t) \/ CallUserAuth(t)
    PROVE  HInv'
<1> DEFINE emitted == running = "userAuth" /\ io
<1>1. /\ call = NoCall /\ UNCHANGED <<vars, io, discord, posts, mishaps>>
      /\ emits' = IF emitted THEN [emits EXCEPT ![t] = @ + 1] ELSE emits
    BY DEF CallWebhook, CallUserAuth, Calls
<1>2. /\ call' = [topic |-> t, stage |-> call'.stage, attempts |-> 0, inSession |-> TRUE]
      /\ \/ running = "webhook" /\ call'.stage = "update"
         \/ running = "userAuth" /\ io /\ discord /\ call'.stage = "post"
         \/ running = "userAuth" /\ io /\ ~discord /\ call'.stage = "returned"
         \/ running = "userAuth" /\ ~io /\ call'.stage = "rejected"
    BY DEF CallWebhook, CallUserAuth, Calls, Send, NoCall
<1>3. /\ call'.topic = t /\ call'.attempts = 0 /\ call'.inSession = TRUE
      /\ call'.stage \in CallStages
    BY <1>2 DEF CallStages
<1>4. UNCHANGED <<running, phase, faults, restarts>> /\ Troubles' = Troubles
    BY <1>1 DEF vars, clientVars, boundVars, Troubles
<1>5. \A u \in Topics : /\ emits[u] \in Nat /\ posts[u] \in Nat
                        /\ emits[u] <= Troubles /\ posts[u] <= Troubles
    BY <1>1, TroublesNat
    DEF HInv, CallTypeOK, Owed, NoCall, Spent, EmitsNow, PostsNow
<1>6. CallTypeOK'
    <2>1. emits' \in [Topics -> Nat]
        BY <1>1 DEF HInv, CallTypeOK
    <2>2. call' \in [topic : Topics, stage : CallStages,
                     attempts : 0..RetryAttempts, inSession : BOOLEAN]
        <3>1. 0 \in 0..RetryAttempts
            BY TroublesNat
        <3>2. \E stage \in CallStages :
                call' = [topic |-> t, stage |-> stage, attempts |-> 0, inSession |-> TRUE]
            BY <1>2, <1>3, Zenon
        <3>3. QED
            BY <3>1, <3>2
    <2>3. QED
        BY <1>1, <2>1, <2>2 DEF HInv, CallTypeOK
<1>7. AtWork' /\ Sending'
    <2>1. AtWork'
        BY <1>1, <1>2, <1>4 DEF HInv, AtWork
    <2>2. Sending'
        BY <1>1, <1>2, <1>3, TroublesNat DEF Sending
    <2>3. QED
        BY <2>1, <2>2
<1>8. Emitted'
    <2>1. CASE emitted
        BY <1>1, <1>3, <1>5, <2>1 DEF Emitted, HInv, CallTypeOK
    <2>2. CASE ~emitted
        BY <1>2, <2>2 DEF Emitted
    <2>3. QED
        BY <2>1, <2>2
<1>9. Owed'
    <2>1. Spent' = 0 /\ PostsNow' \in 0..1
        BY <1>3 DEF Spent, PostsNow
    <2>2. EmitsNow' = IF emitted THEN 1 ELSE 0
        BY <1>2 DEF EmitsNow
    <2>3. \A u \in Topics : emits'[u] = IF u = t /\ emitted THEN emits[u] + 1 ELSE emits[u]
        BY <1>1 DEF HInv, CallTypeOK
    <2>4. QED
        BY <1>1, <1>3, <1>4, <1>5, <2>1, <2>2, <2>3, TroublesNat DEF Owed
<1>10. QED
    BY <1>6, <1>7, <1>8, <1>9 DEF HInv

\* What the steps of a call have in common: with e events and p messages more, and
\* d mishaps, the copies stay within what they are owed to.
GoesOn(e, p, d) ==
    /\ UNCHANGED <<vars, io, discord>>
    /\ call.stage \in CallStages /\ call'.stage \in CallStages
    /\ call'.stage = "update" => call.stage = "update"
    /\ call'.attempts \in 0..RetryAttempts /\ call'.inSession \in BOOLEAN
    /\ call' = [call EXCEPT !.stage = call'.stage, !.attempts = call'.attempts,
                            !.inSession = call'.inSession]
    /\ e \in 0..1 /\ emits' = [emits EXCEPT ![call.topic] = @ + e]
    /\ p \in 0..1 /\ posts' = [posts EXCEPT ![call.topic] = @ + p]
    /\ d \in 0..1 /\ mishaps' = mishaps + d /\ mishaps' \in 0..MaxMishaps
    /\ Spent' + e + EmitsNow <= Spent + d + EmitsNow'
    /\ Spent' + p + PostsNow <= Spent + d + PostsNow'

LEMMA CallGoesOn ==
    ASSUME HInv, NEW e, NEW p, NEW d, GoesOn(e, p, d)
    PROVE  CallTypeOK' /\ AtWork' /\ Owed' /\ call'.topic = call.topic
<1> USE DEF GoesOn
<1>1. call \in [topic : Topics, stage : CallStages,
                attempts : 0..RetryAttempts, inSession : BOOLEAN]
    BY CallOfTopic DEF HInv
<1>2. /\ call' \in [topic : Topics, stage : CallStages,
                    attempts : 0..RetryAttempts, inSession : BOOLEAN]
      /\ call'.topic = call.topic
    BY <1>1
<1>3. /\ UNCHANGED <<running, phase, faults, restarts>>
      /\ Troubles' = Troubles + d
    BY TroublesNat DEF vars, clientVars, boundVars, Troubles
<1>4. CallTypeOK'
    <2>1. emits' \in [Topics -> Nat] /\ posts' \in [Topics -> Nat]
        BY <1>1 DEF HInv, CallTypeOK
    <2>2. QED
        BY <1>2, <2>1 DEF HInv, CallTypeOK
<1>5. AtWork'
    <2>1. mishaps > 0 => mishaps' > 0
        BY TroublesNat
    <2>2. QED
        BY <1>3, <2>1 DEF HInv, AtWork
<1>6. Owed'
    <2>1. /\ Spent \in 0..1 /\ EmitsNow \in 0..1 /\ PostsNow \in 0..1
          /\ Spent' \in 0..1 /\ EmitsNow' \in 0..1 /\ PostsNow' \in 0..1
        BY DEF Spent, EmitsNow, PostsNow
    <2>2. \A t \in Topics :
            /\ emits[t] \in Nat /\ posts[t] \in Nat
            /\ emits'[t] = (IF call.topic = t THEN emits[t] + e ELSE emits[t])
            /\ posts'[t] = (IF call.topic = t THEN posts[t] + p ELSE posts[t])
        BY <1>1 DEF HInv, CallTypeOK
    <2>3. ASSUME NEW t \in Topics, call.topic = t
          PROVE  /\ emits'[t] + Spent' <= Troubles' + EmitsNow'
                 /\ posts'[t] + Spent' <= Troubles' + PostsNow'
        <3>1. emits[t] + Spent <= Troubles + EmitsNow /\ posts[t] + Spent <= Troubles + PostsNow
            BY <2>3 DEF HInv, Owed
        <3>2. QED
            BY <1>3, <2>1, <2>2, <2>3, <3>1, TroublesNat
    <2>4. ASSUME NEW t \in Topics, call.topic # t
          PROVE  emits'[t] <= Troubles' /\ posts'[t] <= Troubles'
        <3>1. emits[t] <= Troubles /\ posts[t] <= Troubles
            BY <2>4 DEF HInv, Owed
        <3>2. QED
            BY <1>3, <2>2, <2>4, <3>1, TroublesNat
    <2>5. QED
        BY <1>2, <2>3, <2>4 DEF Owed
<1>7. QED
    BY <1>2, <1>4, <1>5, <1>6

\* The record is updated, or not.
LEMMA UpdateStep ==
    ASSUME HInv, Inv', DeliveryUpdated \/ DeliveryUpdateFails
    PROVE  HInv'
<1>1. /\ call.stage = "update" /\ running = "webhook"
      /\ UNCHANGED <<vars, io, discord, posts>> /\ call' = [call EXCEPT !.stage = Send]
      /\ call \in [topic : Topics, stage : CallStages,
                   attempts : 0..RetryAttempts, inSession : BOOLEAN]
    BY CallOfTopic
    DEF DeliveryUpdated, DeliveryUpdateFails, Goto, HInv, AtWork, CallStages
<1>2. /\ call'.stage = Send /\ call'.attempts = call.attempts /\ call'.inSession = call.inSession
      /\ Send \in {"post", "returned"} /\ (Send = "post" <=> discord)
    BY <1>1 DEF Send
<1>3. PICK e \in 0..1, d \in 0..1 :
        /\ emits' = [emits EXCEPT ![call.topic] = @ + e]
        /\ mishaps' = mishaps + d /\ mishaps' \in 0..MaxMishaps
        /\ e = 1 \/ mishaps' > 0
    <2>1. CASE DeliveryUpdated /\ io
        <3>1. emits' = [emits EXCEPT ![call.topic] = @ + 1] /\ mishaps' = mishaps + 0
            BY <2>1, TroublesNat DEF DeliveryUpdated, OneMore
        <3>2. mishaps' \in 0..MaxMishaps
            BY <2>1 DEF DeliveryUpdated, HInv, CallTypeOK
        <3>3. QED
            BY <3>1, <3>2
    <2>2. CASE DeliveryUpdated /\ ~io
        <3>1. emits' = [emits EXCEPT ![call.topic] = @ + 0] /\ mishaps' = mishaps + 0
            BY <1>1, <2>2, TroublesNat DEF DeliveryUpdated, HInv, CallTypeOK
        <3>2. phase = "services"
            BY <1>1 DEF HInv, Inv, Stages, Before
        <3>3. mishaps' \in 0..MaxMishaps /\ mishaps' > 0
            BY <2>2, <3>2 DEF DeliveryUpdated, HInv, CallTypeOK, AtWork
        <3>4. QED
            BY <3>1, <3>3
    <2>3. CASE DeliveryUpdateFails
        <3>1. emits' = [emits EXCEPT ![call.topic] = @ + 0]
            BY <1>1, <2>3 DEF DeliveryUpdateFails, HInv, CallTypeOK
        <3>2. mishaps' = mishaps + 1 /\ mishaps' \in 0..MaxMishaps /\ mishaps' > 0
            BY <2>3, TroublesNat, HandlerConstants DEF DeliveryUpdateFails, Mishap
        <3>3. QED
            BY <3>1, <3>2
    <2>4. QED
        BY <2>1, <2>2, <2>3
<1>4. posts' = [posts EXCEPT ![call.topic] = @ + 0]
    BY <1>1 DEF HInv, CallTypeOK
<1>5. CallTypeOK' /\ AtWork' /\ Owed' /\ call'.topic = call.topic
    <2>1. /\ call'.stage \in CallStages /\ call'.attempts \in 0..RetryAttempts
          /\ call'.inSession \in BOOLEAN /\ call'.stage # "update"
          /\ call' = [call EXCEPT !.stage = call'.stage, !.attempts = call'.attempts,
                                  !.inSession = call'.inSession]
        BY <1>1, <1>2 DEF CallStages
    <2>2. /\ Spent' + e + EmitsNow <= Spent + d + EmitsNow'
          /\ Spent' + 0 + PostsNow <= Spent + d + PostsNow'
        BY <1>1, <1>2 DEF Spent, EmitsNow, PostsNow
    <2>3. call.stage \in CallStages
        BY <1>1 DEF CallStages
    <2>4. GoesOn(e, 0, d)
        <3>1. UNCHANGED <<vars, io, discord>> /\ 0 \in 0..1
            BY <1>1
        <3>2. e \in 0..1 /\ d \in 0..1
            BY <1>3
        <3>3. QED
            BY <1>3, <1>4, <2>1, <2>2, <2>3, <3>1, <3>2, Zenon DEF GoesOn
    <2>5. QED
        BY <2>4, CallGoesOn
<1>6. Sending'
    BY <1>1, <1>2 DEF HInv, Sending
<1>7. Emitted'
    <2>1. CASE e = 1
        BY <1>1, <1>3, <1>5, <2>1 DEF Emitted, HInv, CallTypeOK
    <2>2. CASE mishaps' > 0
        BY <1>1, <2>2 DEF Emitted, vars, clientVars
    <2>3. QED
        BY <1>3, <2>1, <2>2
<1>8. QED
    BY <1>5, <1>6, <1>7 DEF HInv

\* A step of sendMessage, or the end of the session.
LEMMA SendStep ==
    ASSUME HInv, Inv',
           Posted \/ (\E b \in BOOLEAN : Refused(b)) \/ Waited
           \/ AnswerLost \/ PostHangs \/ SessionExpires
    PROVE  HInv'
<1>1. /\ call.stage \in CallStages \ {"rejected"}
      /\ UNCHANGED <<vars, io, discord, emits>>
      /\ call \in [topic : Topics, stage : CallStages,
                   attempts : 0..RetryAttempts, inSession : BOOLEAN]
    BY CallOfTopic
    DEF Posted, Refused, Waited, AnswerLost, PostHangs, SessionExpires, HInv, CallStages
<1>2. \/ /\ Posted /\ call.stage = "post"
         /\ call' = [call EXCEPT !.stage = "returned"]
      \/ /\ Waited /\ call.stage = "wait"
         /\ call' = [call EXCEPT !.stage =
                       IF call.attempts < RetryAttempts THEN "post" ELSE "returned"]
      \/ /\ PostHangs /\ call.stage = "post"
         /\ call' = [call EXCEPT !.stage = "hung"]
      \/ /\ (\E b \in BOOLEAN : Refused(b)) \/ AnswerLost
         /\ call.stage = "post"
         /\ \E s \in {"wait", "returned"} :
              /\ call' = [call EXCEPT !.attempts = @ + 1, !.stage = s]
              /\ s = "returned" => ~(call.attempts + 1 < RetryAttempts)
      \/ SessionExpires /\ call.inSession /\ call' = [call EXCEPT !.inSession = FALSE]
    <2>1. CASE Posted \/ Waited \/ PostHangs \/ SessionExpires
        BY <2>1 DEF Posted, Waited, PostHangs, SessionExpires, Goto
    <2>2. CASE AnswerLost \/ \E b \in BOOLEAN : Refused(b)
        <3>1. call.stage = "post"
            BY <2>2 DEF AnswerLost, Refused
        <3>2. \E s \in {"wait", "returned"} :
                /\ call' = [call EXCEPT !.attempts = @ + 1, !.stage = s]
                /\ s = "returned" => ~(call.attempts + 1 < RetryAttempts)
            BY <2>2 DEF AnswerLost, Refused, AttemptFailed
        <3>3. QED
            BY <2>2, <3>1, <3>2
    <2>3. QED
        BY <2>1, <2>2
<1>3. /\ call'.stage \in CallStages \ {"rejected"} /\ call'.attempts \in 0..RetryAttempts
      /\ call'.inSession \in BOOLEAN
      /\ call' = [call EXCEPT !.stage = call'.stage, !.attempts = call'.attempts,
                              !.inSession = call'.inSession]
      /\ call'.stage = "update" <=> call.stage = "update"
      /\ call'.stage = "update" => call'.attempts = call.attempts
    <2>1. call.stage = "post" => call.attempts + 1 \in 0..RetryAttempts
        BY <1>1, TroublesNat DEF HInv, Sending
    <2>2. QED
        BY <1>1, <1>2, <2>1 DEF CallStages
<1>4. PICK p \in 0..1, d \in 0..1 :
        /\ posts' = [posts EXCEPT ![call.topic] = @ + p]
        /\ mishaps' = mishaps + d /\ mishaps' \in 0..MaxMishaps
        /\ Spent' <= Spent + d
        /\ PostsNow' >= PostsNow
        /\ p = 1 => d = 1 \/ PostsNow' = PostsNow + 1
        /\ p = 1 => Spent' = Spent
        /\ call'.stage = "returned" =>
             p = 1 \/ call'.attempts = RetryAttempts
             \/ (call.stage = "returned" /\ call'.attempts = call.attempts)
    <2>1. posts \in [Topics -> Nat] /\ mishaps \in 0..MaxMishaps /\ call.topic \in Topics
        BY <1>1 DEF HInv, CallTypeOK
    <2>2. (call'.inSession = call.inSession => Spent' = Spent) /\ Spent' <= Spent + 1
          /\ Spent \in 0..1 /\ Spent' \in 0..1
        BY DEF Spent
    <2>3. PostsNow \in 0..1 /\ (call.stage # "returned" => PostsNow = 0)
          /\ PostsNow' \in 0..1 /\ (call'.stage = call.stage => PostsNow' = PostsNow)
        BY DEF PostsNow
    <2>4. CASE Posted
        <3>1. posts' = [posts EXCEPT ![call.topic] = @ + 1] /\ mishaps' = mishaps + 0
            BY <2>1, <2>4, TroublesNat DEF Posted, OneMore
        <3>2. call.stage = "post" /\ call'.stage = "returned" /\ call'.inSession = call.inSession
            BY <1>1, <2>4 DEF Posted, Goto
        <3>3. PostsNow' = PostsNow + 1
            BY <3>2 DEF PostsNow
        <3> WITNESS 1 \in 0..1, 0 \in 0..1
        <3>4. QED
            BY <2>1, <2>2, <2>3, <3>1, <3>2, <3>3
    <2>5. CASE Waited \/ \E b \in BOOLEAN : Refused(b)
        <3>1. posts' = [posts EXCEPT ![call.topic] = @ + 0] /\ mishaps' = mishaps + 0
            BY <2>1, <2>5, TroublesNat DEF Waited, Refused
        <3>2. call.stage # "returned" /\ call'.inSession = call.inSession
            BY <1>1, <2>5 DEF Waited, Refused, Goto, AttemptFailed
        <3>3. call'.stage = "returned" => call'.attempts = RetryAttempts
            <4>1. CASE Waited
                BY <1>1, <4>1, TroublesNat DEF Waited, Goto
            <4>2. ASSUME NEW b \in BOOLEAN, Refused(b), call'.stage = "returned"
                  PROVE  ~(call.attempts + 1 < RetryAttempts) /\ call'.attempts = call.attempts + 1
                BY <1>1, <4>2 DEF Refused, AttemptFailed
            <4>3. QED
                BY <1>1, <1>3, <2>5, <4>1, <4>2, TroublesNat
        <3> WITNESS 0 \in 0..1, 0 \in 0..1
        <3>4. QED
            BY <2>1, <2>2, <2>3, <3>1, <3>2, <3>3
    <2>6. CASE AnswerLost
        <3>1. /\ posts' = [posts EXCEPT ![call.topic] = @ + 1]
              /\ mishaps' = mishaps + 1 /\ mishaps' \in 0..MaxMishaps
            BY <2>1, <2>6, TroublesNat, HandlerConstants DEF AnswerLost, OneMore, Mishap
        <3>2. call.stage = "post" /\ call'.inSession = call.inSession
            BY <1>1, <2>6 DEF AnswerLost, AttemptFailed
        <3> WITNESS 1 \in 0..1, 1 \in 0..1
        <3>3. QED
            BY <2>1, <2>2, <2>3, <3>1, <3>2
    <2>7. CASE PostHangs \/ SessionExpires
        <3>1. /\ posts' = [posts EXCEPT ![call.topic] = @ + 0]
              /\ mishaps' = mishaps + 1 /\ mishaps' \in 0..MaxMishaps
            BY <2>1, <2>7, TroublesNat, HandlerConstants DEF PostHangs, SessionExpires, Mishap
        <3>2. \/ call'.stage = "hung" /\ call.stage = "post"
              \/ call'.stage = call.stage /\ call'.attempts = call.attempts
            BY <1>1, <2>7 DEF PostHangs, SessionExpires, Goto
        <3> WITNESS 0 \in 0..1, 1 \in 0..1
        <3>3. QED
            BY <2>1, <2>2, <2>3, <3>1, <3>2
    <2>8. QED
        BY <2>4, <2>5, <2>6, <2>7
<1>5. CallTypeOK' /\ AtWork' /\ Owed' /\ call'.topic = call.topic
    <2>1. emits' = [emits EXCEPT ![call.topic] = @ + 0]
        BY <1>1 DEF HInv, CallTypeOK
    <2>2. EmitsNow' = EmitsNow
        BY <1>1, <1>3 DEF EmitsNow, CallStages
    <2>3. p = 0 \/ p = 1
        BY <1>4
    <2>4. /\ Spent' + 0 + EmitsNow <= Spent + d + EmitsNow'
          /\ Spent' + p + PostsNow <= Spent + d + PostsNow'
        BY <1>4, <2>2, <2>3 DEF Spent, EmitsNow, PostsNow
    <2>5. GoesOn(0, p, d)
        <3>1. UNCHANGED <<vars, io, discord>> /\ 0 \in 0..1
            BY <1>1
        <3>2. p \in 0..1 /\ d \in 0..1
            BY <1>4
        <3>3. call.stage \in CallStages /\ call'.stage \in CallStages
            BY <1>1, <1>3
        <3>4. QED
            BY <1>3, <1>4, <2>1, <2>4, <3>1, <3>2, <3>3, Zenon DEF GoesOn
    <2>6. QED
        BY <2>5, CallGoesOn
<1>6. Sending'
    <2>1. discord' = discord /\ (call.stage \in {"post", "wait", "hung"} => discord)
        BY <1>1 DEF HInv, Sending
    <2>2. call'.stage \in {"post", "wait", "hung"} => discord
        BY <1>1, <1>2, <2>1
    <2>3. call'.stage \in {"update", "post"} => call'.attempts < RetryAttempts
        BY <1>1, <1>2, TroublesNat DEF HInv, Sending
    <2>4. posts'[call.topic] = posts[call.topic] + p /\ posts[call.topic] \in Nat
        BY <1>1, <1>4 DEF HInv, CallTypeOK
    <2>5. call'.stage = "returned" /\ discord =>
            posts'[call'.topic] > 0 \/ call'.attempts = RetryAttempts
        BY <1>4, <1>5, <2>4 DEF HInv, Sending
    <2>6. QED
        BY <2>1, <2>2, <2>3, <2>5 DEF Sending
<1>7. Emitted'
    <2>1. call'.stage # "update" => emits[call.topic] > 0 \/ (running = "webhook" /\ mishaps > 0)
        BY <1>1, <1>3 DEF HInv, Emitted
    <2>2. running' = running /\ (mishaps > 0 => mishaps' > 0)
        BY <1>1, <1>4, TroublesNat DEF vars, clientVars
    <2>3. QED
        BY <1>1, <1>5, <2>1, <2>2 DEF Emitted
<1>8. QED
    BY <1>5, <1>6, <1>7 DEF HInv

LEMMA OneOwed ==
    ASSUME HInv
    PROVE  \A t \in Topics :
             /\ emits[t] \in Nat /\ emits[t] <= Troubles + 1
             /\ posts[t] \in Nat /\ posts[t] <= Troubles + 1
<1>1. \A t \in Topics : emits[t] \in Nat /\ posts[t] \in Nat
    BY DEF HInv, CallTypeOK
<1>2. QED
    BY <1>1, TroublesNat DEF HInv, Owed, Spent, EmitsNow, PostsNow

\* The call ends, well or not.
LEMMA EndStep ==
    ASSUME HInv, Inv', CommitOffset \/ FetchAgain \/ CrashBetweenCalls \/ RestartProcess
    PROVE  HInv'
<1>1. call' = NoCall /\ UNCHANGED <<discord, mishaps>>
    BY DEF CommitOffset, FetchAgain, CrashBetweenCalls, RestartProcess
<1>2. io' \in BOOLEAN /\ (phase' \in {"producer", "services"} /\ ~io' => mishaps' > 0)
    <2>1. CASE phase' = phase /\ io' = io
        BY <1>1, <2>1 DEF HInv, CallTypeOK, AtWork
    <2>2. CASE phase' = "database" /\ io' = FALSE
        BY <2>2
    <2>3. QED
        BY <2>1, <2>2 DEF CommitOffset, FetchAgain, CrashBetweenCalls, RestartProcess,
            ConsumerCrashes, Restart, EachMessage, vars, clientVars
<1>3. emits' \in [Topics -> Nat] /\ posts' \in [Topics -> Nat]
    BY DEF CommitOffset, FetchAgain, CrashBetweenCalls, RestartProcess, HInv, CallTypeOK
<1>4. \A t \in Topics : emits'[t] <= Troubles' /\ posts'[t] <= Troubles'
    <2>1. CASE CrashBetweenCalls \/ RestartProcess
        <3>1. Troubles' = Troubles + 1 /\ UNCHANGED <<emits, posts>>
            BY <1>1, <2>1, TroublesNat
            DEF CrashBetweenCalls, RestartProcess, ConsumerCrashes, Restart, Troubles
        <3>2. QED
            BY <3>1, OneOwed
    <2>2. CASE FetchAgain
        <3>1. Troubles' = Troubles /\ UNCHANGED <<emits, posts>>
            BY <2>2 DEF FetchAgain, Troubles, vars, boundVars
        <3>2. \/ EmitsNow = 0 /\ PostsNow = 0 /\ Spent \in 0..1
              \/ EmitsNow = 1 /\ PostsNow = 1 /\ Spent = 1
            BY <2>2 DEF FetchAgain, EmitsNow, PostsNow, Spent
        <3>3. \A t \in Topics : emits[t] <= Troubles /\ posts[t] <= Troubles
            BY <3>2, TroublesNat, OneOwed DEF HInv, Owed
        <3>4. QED
            BY <3>1, <3>3
    <2>3. CASE CommitOffset
        <3>1. Troubles' = Troubles
            BY <2>3 DEF CommitOffset, EachMessage, Troubles, boundVars
        <3>2. \A t \in Topics :
                IF t = call.topic THEN emits'[t] = 0 /\ posts'[t] = 0
                ELSE emits'[t] = emits[t] /\ posts'[t] = posts[t]
            BY <2>3 DEF CommitOffset, HInv, CallTypeOK
        <3>3. \A t \in Topics : t # call.topic => emits[t] <= Troubles /\ posts[t] <= Troubles
            BY DEF HInv, Owed
        <3>4. QED
            BY <3>1, <3>2, <3>3, TroublesNat
    <2>4. QED
        BY <2>1, <2>2, <2>3
<1>5. CallTypeOK'
    BY <1>1, <1>2, <1>3 DEF HInv, CallTypeOK
<1>6. AtWork' /\ Sending' /\ Emitted'
    BY <1>1, <1>2 DEF AtWork, Sending, Emitted, NoCall, CallStages
<1>7. Owed'
    <2>1. faults' \in Nat /\ restarts' \in Nat /\ mishaps' \in Nat
        BY <1>1, TroublesNat, StartupConstants DEF Inv, TypeOK
    <2>2. QED
        BY <1>1, <1>3, <1>4, <2>1 DEF Owed, Spent, EmitsNow, PostsNow, NoCall, Troubles
<1>8. QED
    BY <1>5, <1>6, <1>7 DEF HInv

LEMMA HStepInv == HInv /\ [HandlersNext]_allVars => HInv' /\ [Next]_vars
<1> SUFFICES ASSUME HInv, [HandlersNext]_allVars PROVE HInv' /\ [Next]_vars
    OBVIOUS
<1>1. [Next]_vars
    BY StepsOfStartup DEF HInv
<1>2. Inv'
    BY <1>1, StepInv DEF HInv
<1>3. CASE UNCHANGED allVars
    <2>1. UNCHANGED <<faults, restarts, running, phase, io, discord, call, emits, posts, mishaps>>
        BY <1>3 DEF allVars, vars, clientVars, boundVars, handlerVars
    <2>2. QED
        BY <1>1, <1>2, <2>1 DEF HInv, CallTypeOK, AtWork, Sending, Emitted, Owed, Troubles,
            Spent, EmitsNow, PostsNow
<1>4. CASE StartSocket \/ Subscribing
    BY <1>1, <1>2, <1>4, OthersStep
<1>5. CASE (ConnectFails \/ \E s \in Services : SubscribeFails(s)) /\ UNCHANGED handlerVars
    BY <1>1, <1>2, <1>5, OthersStep
<1>6. CASE (\E t \in Topics : Produced(t)) /\ UNCHANGED handlerVars
    BY <1>1, <1>2, <1>6, OthersStep
<1>7. CASE \E t \in Topics : CallWebhook(t) \/ CallUserAuth(t)
    BY <1>1, <1>2, <1>7, CallStep
<1>8. CASE DeliveryUpdated \/ DeliveryUpdateFails
    BY <1>1, <1>2, <1>8, UpdateStep
<1>9. CASE Posted \/ (\E b \in BOOLEAN : Refused(b)) \/ Waited
           \/ AnswerLost \/ PostHangs \/ SessionExpires
    BY <1>1, <1>2, <1>9, SendStep
<1>10. CASE CommitOffset \/ FetchAgain \/ CrashBetweenCalls \/ RestartProcess
    BY <1>1, <1>2, <1>10, EndStep
<1>11. QED
    BY <1>3, <1>4, <1>5, <1>6, <1>7, <1>8, <1>9, <1>10 DEF HandlersNext, HandleStep

LEMMA HInvariance == HandlersSpec => []HInv
<1>1. HandlersInit => HInv
    BY InitHInv
<1>2. HInv /\ [HandlersNext]_allVars => HInv'
    BY HStepInv
<1>3. QED
    BY <1>1, <1>2, PTL DEF HandlersSpec

-----------------------------------------------------------------------------
(* The theorems *)

\* The startup, the consumer and its handlers have their types.
THEOREM HandlersTypeCorrect == HandlersSpec => []HandlersTypeOK
<1>1. HInv => HandlersTypeOK
    BY DEF HInv, Inv, CallTypeOK, HandlersTypeOK
<1>2. QED
    BY <1>1, HInvariance, PTL

\* With the handlers at work too, a service that reports success has its topics
\* read, and the webhook handler runs only after a failure: without one, the events
\* of the webhook topics go to the handler of the user-auth service.
THEOREM HandlersStartup == HandlersSpec => []InitializedIsRead /\ []WebhookHandlerNeedsFault
<1>1. HandlersSpec => Spec
    <2>1. HandlersInit => Init
        BY DEF HandlersInit
    <2>2. HInv /\ [HandlersNext]_allVars => [Next]_vars
        BY HStepInv
    <2>3. QED
        BY <2>1, <2>2, HInvariance, PTL DEF HandlersSpec, Spec
<1>2. QED
    BY <1>1, TopicsAreRead, UserAuthComesFirst, PTL

\* No client and no Discord channel gets more copies of a message than the first
\* and one for each thing that went wrong, over any redeliveries.
THEOREM CopiesBounded == HandlersSpec => []CopiesAccounted
<1>1. HInv => CopiesAccounted
    <2> SUFFICES ASSUME HInv, NEW t \in Topics
                 PROVE  /\ emits[t] <= 1 + faults + mishaps + restarts
                        /\ posts[t] <= 1 + faults + mishaps + restarts
        BY DEF CopiesAccounted
    <2>1. Troubles + 1 = 1 + faults + mishaps + restarts
        BY TroublesNat DEF Troubles
    <2>2. QED
        BY <2>1, OneOwed
<1>2. QED
    BY <1>1, HInvariance, PTL

\* Only the commit of the call's own message lets its topic shrink.
LEMMA Shrinks ==
    ASSUME HInv, [HandlersNext]_allVars, NEW t \in Topics, unread'[t] < unread[t]
    PROVE  call.stage = "returned" /\ call.topic = t
<1>1. unread \in [Topics -> Nat]
    BY StartupConstants DEF HInv, Inv, TypeOK
<1>2. CASE unread' = unread
    BY <1>1, <1>2
<1>3. ASSUME NEW u \in Topics, Produced(u) PROVE FALSE
    BY <1>1, <1>3 DEF Produced
<1>4. CASE CommitOffset
    BY <1>1, <1>4 DEF CommitOffset, EachMessage
<1>5. CASE ConnectFails \/ StartSocket \/ Subscribing \/ CrashBetweenCalls \/ RestartProcess
           \/ \E s \in Services : SubscribeFails(s)
    <2>1. unread' = unread
        BY <1>5 DEF StartSocket, Subscribing, CrashBetweenCalls, RestartProcess, ConnectDatabase,
            ConnectFails, Bootstrap, SubscribeSecond, Subscribed, SubscribeFails, ConsumerCrashes,
            Restart
    <2>2. QED
        BY <1>2, <2>1
<1>6. QED
    BY <1>2, <1>3, <1>4, <1>5
    DEF HandlersNext, HandleStep, allVars, vars, CallWebhook, CallUserAuth, DeliveryUpdated, Posted,
        Refused, Waited, FetchAgain, DeliveryUpdateFails, AnswerLost, PostHangs, SessionExpires

\* A message is done with only after the clients heard of it, unless the webhook
\* handler met a failure.
THEOREM EmittedBeforeDone == HandlersSpec => DoneWasEmitted
<1>1. HInv /\ [HandlersNext]_allVars =>
        \A t \in Topics : unread'[t] < unread[t] =>
            emits[t] > 0 \/ (running = "webhook" /\ mishaps > 0)
    BY Shrinks DEF HInv, Emitted, CallStages
<1>2. QED
    BY <1>1, HInvariance, PTL DEF HandlersSpec, DoneWasEmitted

\* A message is done with only after Discord has it or all attempts were made.
THEOREM SentBeforeDone == HandlersSpec => DoneWasSent
<1>1. HInv /\ [HandlersNext]_allVars =>
        \A t \in Topics : unread'[t] < unread[t] /\ discord =>
            posts[t] > 0 \/ call.attempts = RetryAttempts
    BY Shrinks DEF HInv, Sending
<1>2. QED
    BY <1>1, HInvariance, PTL DEF HandlersSpec, DoneWasSent
=============================================================================
