-------------------------- MODULE ConsumerHandlers --------------------------
(***************************************************************************)
(* What the running Kafka consumer of KafkaConsumerStartup does with a     *)
(* message: the two eachMessage handlers, the socket server they emit to   *)
(* and the Discord messages they wait for.                                 *)
(*                                                                         *)
(* kafkajs runs one call at a time.  The consumer does not heartbeat while *)
(* it waits for a handler, and gets a message again when the handler threw *)
(* or its session is over before the offset is committed.                  *)
(***************************************************************************)
EXTENDS KafkaConsumerStartup

CONSTANTS
    RetryAttempts,  \* defaultRetryAttempts of DiscordMessageService
    MaxMishaps      \* bound: updates, answers, sessions, socket servers that fail

ASSUME HandlerConstants == RetryAttempts \in Nat \ {0} /\ MaxMishaps \in Nat

VARIABLES
    io,             \* the socket server is there to emit to
    discord,        \* DISCORD_WEBHOOK_URL is set, and NODE_ENV not 'development'
    call,           \* the eachMessage call that runs
    emits, posts,   \* history: events emitted and Discord messages that arrived
                    \* for the message of each topic that is next to be committed
    mishaps

handlerVars == <<io, discord, call, emits, posts, mishaps>>
allVars     == <<vars, handlerVars>>

CallStages == {"update", "post", "wait", "hung", "returned", "rejected"}
NoCall == [topic |-> "none", stage |-> "none", attempts |-> 0, inSession |-> TRUE]

HandlersTypeOK ==
    /\ TypeOK
    /\ io \in BOOLEAN /\ discord \in BOOLEAN
    /\ call \in {NoCall} \cup [topic : Topics, stage : CallStages,
                               attempts : 0..RetryAttempts, inSession : BOOLEAN]
    /\ emits \in [Topics -> Nat] /\ posts \in [Topics -> Nat]
    /\ mishaps \in 0..MaxMishaps

HandlersInit ==
    /\ Init
    /\ io = FALSE
    /\ discord \in BOOLEAN
    /\ call = NoCall
    /\ emits = [t \in Topics |-> 0]
    /\ posts = [t \in Topics |-> 0]
    /\ mishaps = 0

Mishap     == mishaps < MaxMishaps /\ mishaps' = mishaps + 1
Goto(s)    == call' = [call EXCEPT !.stage = s]
OneMore(f) == [f EXCEPT ![call.topic] = @ + 1]

-----------------------------------------------------------------------------
(* The handlers *)

\* With the database connected bootstrap calls initializeSocket, which logs what
\* the constructor of the server throws; the producer connects meanwhile.
StartSocket ==
    /\ ConnectDatabase
    /\ \/ io' = TRUE /\ UNCHANGED mishaps
       \/ io' = FALSE /\ Mishap
    /\ UNCHANGED <<discord, call, emits, posts>>

\* sendSuccessMessage, sendErrorMessage: the first POST is under way, or there
\* is nothing to send.
Send == IF discord THEN "post" ELSE "returned"

Calls(t, stage) ==
    /\ call = NoCall
    /\ t \in groupTopics /\ unread[t] > 0
    /\ call' = [NoCall EXCEPT !.topic = t, !.stage = stage]

\* processDelivery first awaits the update of the record.
CallWebhook(t) ==
    /\ running = "webhook"
    /\ Calls(t, "update")
    /\ UNCHANGED <<vars, io, discord, emits, posts, mishaps>>

SwallowAuthError(t) ==
    /\ running = "userAuth"
    /\ Calls(t, Send)
    /\ emits' = IF io THEN [emits EXCEPT ![t] = @ + 1] ELSE emits
    /\ UNCHANGED <<vars, io, discord, posts, mishaps>>

\* processAuthEvent emits at once; without a socket server emitToAll throws, and
\* so does the handler.
CallUserAuth(t) ==
    /\ running = "userAuth"
    /\ Calls(t, IF io THEN Send ELSE "rejected")
    /\ emits' = IF io THEN [emits EXCEPT ![t] = @ + 1] ELSE emits
    /\ UNCHANGED <<vars, io, discord, posts, mishaps>>

\* The record is updated and the clients are notified.  What emitToAll throws is
\* caught: an error message takes the place of the success message.
DeliveryUpdated ==
    /\ call.stage = "update"
    /\ emits' = IF io THEN OneMore(emits) ELSE emits
    /\ Goto(Send)
    /\ UNCHANGED <<vars, io, discord, posts, mishaps>>

DeliveryUpdateFails ==
    /\ call.stage = "update" /\ Mishap
    /\ Goto(Send)
    /\ UNCHANGED <<vars, io, discord, emits, posts>>

-----------------------------------------------------------------------------
(* sendMessage *)

PostedAndOn ==
    /\ call.stage = "post"
    /\ posts' = OneMore(posts)
    /\ call' = [call EXCEPT !.stage = "wait", !.attempts = @ + 1]
    /\ UNCHANGED <<vars, io, discord, emits, mishaps>>

Posted ==
    /\ call.stage = "post"
    /\ posts' = OneMore(posts)
    /\ Goto("returned")
    /\ UNCHANGED <<vars, io, discord, emits, mishaps>>

AttemptFailed(stage) ==
    call' = [call EXCEPT !.attempts = @ + 1, !.stage = stage]

GiveUpOnRateLimit(rateLimited) ==
    /\ call.stage = "post"
    /\ AttemptFailed(IF ~rateLimited /\ call.attempts + 1 < RetryAttempts
                       THEN "wait" ELSE "returned")
    /\ UNCHANGED <<vars, io, discord, emits, posts, mishaps>>

RateLimitIsNoAttempt(rateLimited) ==
    /\ call.stage = "post"
    /\ IF rateLimited
         THEN Goto("wait")
         ELSE AttemptFailed(IF call.attempts + 1 < RetryAttempts THEN "wait" ELSE "returned")
    /\ UNCHANGED <<vars, io, discord, emits, posts, mishaps>>

\* Discord refuses the POST.  Told 429, the loop waits for as long as it is told,
\* after the last attempt too; otherwise a second, between two attempts.
Refused(rateLimited) ==
    /\ call.stage = "post"
    /\ AttemptFailed(IF rateLimited \/ call.attempts + 1 < RetryAttempts
                       THEN "wait" ELSE "returned")
    /\ UNCHANGED <<vars, io, discord, emits, posts, mishaps>>

\* The POST arrives and its answer does not.
AnswerLost ==
    /\ call.stage = "post" /\ Mishap
    /\ posts' = OneMore(posts)
    /\ AttemptFailed(IF call.attempts + 1 < RetryAttempts THEN "wait" ELSE "returned")
    /\ UNCHANGED <<vars, io, discord, emits>>

\* axios is given no timeout.
PostHangs ==
    /\ call.stage = "post" /\ Mishap
    /\ Goto("hung")
    /\ UNCHANGED <<vars, io, discord, emits, posts>>

Waited ==
    /\ call.stage = "wait"
    /\ Goto(IF call.attempts < RetryAttempts THEN "post" ELSE "returned")
    /\ UNCHANGED <<vars, io, discord, emits, posts, mishaps>>

-----------------------------------------------------------------------------
(* The consumer *)

\* The handler runs for longer than the sessionTimeout.
SessionExpires ==
    /\ call.stage \in CallStages \ {"rejected"} /\ call.inSession /\ Mishap
    /\ call' = [call EXCEPT !.inSession = FALSE]
    /\ UNCHANGED <<vars, io, discord, emits, posts>>

\* The offset is committed, and the message is done with.
CommitOffset ==
    /\ call.stage = "returned" /\ call.inSession
    /\ EachMessage(call.topic)
    /\ call' = NoCall
    /\ emits' = [emits EXCEPT ![call.topic] = 0]
    /\ posts' = [posts EXCEPT ![call.topic] = 0]
    /\ UNCHANGED <<io, discord, mishaps>>

\* The consumer fetches the message again, after a delay or with a new session.
FetchAgain ==
    /\ \/ call.stage = "rejected"
       \/ call.stage = "returned" /\ ~call.inSession
    /\ call' = NoCall
    /\ UNCHANGED <<vars, io, discord, emits, posts, mishaps>>

\* Between two calls, or instead of the commit.
CrashBetweenCalls ==
    /\ call.stage \in {"none", "returned", "rejected"}
    /\ ConsumerCrashes
    /\ call' = NoCall
    /\ UNCHANGED <<io, discord, emits, posts, mishaps>>

\* The process takes the call and the socket server with it.
RestartProcess ==
    /\ Restart
    /\ call' = NoCall /\ io' = FALSE
    /\ UNCHANGED <<discord, emits, posts, mishaps>>

HandleStep ==
    \/ DeliveryUpdated
    \/ Posted \/ (\E b \in BOOLEAN : Refused(b)) \/ Waited
    \/ CommitOffset \/ FetchAgain

Subscribing ==
    /\ Bootstrap \/ \E s \in Services : SubscribeSecond(s) \/ Subscribed(s)
    /\ UNCHANGED handlerVars

HandlersNext ==
    \/ StartSocket \/ Subscribing
    \/ /\ ConnectFails \/ \E s \in Services : SubscribeFails(s)
       /\ UNCHANGED handlerVars
    \/ \E t \in Topics :
         \/ Produced(t) /\ UNCHANGED handlerVars
         \/ CallWebhook(t) \/ CallUserAuth(t)
    \/ HandleStep
    \/ DeliveryUpdateFails \/ AnswerLost \/ PostHangs \/ SessionExpires
    \/ CrashBetweenCalls \/ RestartProcess

HandlersSpec == HandlersInit /\ [][HandlersNext]_allVars

\* The startup goes on, a handler that got its answer goes on, and the consumer
\* polls every topic it has.
HandlersLiveSpec ==
    /\ HandlersSpec
    /\ WF_allVars(StartSocket \/ Subscribing)
    /\ WF_allVars(HandleStep)
    /\ \A t \in Topics : SF_allVars(CallWebhook(t) \/ CallUserAuth(t))

-----------------------------------------------------------------------------
(* Properties *)

\* A message is handled by the service that subscribed to its topic: webhook events
\* by WebhookConsumerService, as its comment has it, and logins by
\* UserAuthConsumerService.  Not so: the consumer the two share has one handler.
HandledByItsService == call # NoCall => call.topic \in topicsOf[running]

\* No message is done with before the clients heard of it, over any redelivery,
\* crash or restart.  Only the webhook handler may skip them, when something fails.
DoneWasEmitted ==
    [][\A t \in Topics : unread'[t] < unread[t] =>
          emits[t] > 0 \/ (running = "webhook" /\ mishaps > 0)]_allVars

\* ...nor before Discord has it or refused or lost it RetryAttempts times in one
\* call: being rate limited is no reason to give up sooner.
DoneWasSent ==
    [][\A t \in Topics : unread'[t] < unread[t] /\ discord =>
          posts[t] > 0 \/ call.attempts = RetryAttempts]_allVars

\* Clients and Discord get a message once, and once more only for a lost answer,
\* an expired session, a crash or a restart; a refusal costs no copy.
CopiesAccounted ==
    \A t \in Topics :
        /\ emits[t] <= 1 + faults + mishaps + restarts
        /\ posts[t] <= 1 + faults + mishaps + restarts

\* A handler ends whatever Discord answers, and if it answers 429 for ever; only
\* a POST without an answer keeps it.
HandlerEnds == call # NoCall ~> call = NoCall \/ call.stage = "hung"

\* Without failures no topic piles up, though the topics of both services wait for
\* one consumer, and the consumer for Discord.
EventuallyHandled ==
    \A t \in Topics : unread[t] = MaxMessages ~>
        unread[t] < MaxMessages \/ faults > 0 \/ mishaps > 0
=============================================================================
