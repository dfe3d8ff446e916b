# Verification of nano-pulse

TLA+ modules, TLC configurations and TLAPS proofs for the parts of nano-pulse
that keep state across an `await`, a process or a repository call. Paths are
relative to the repository; `express/` stands for `src/nano-pulse-express/`,
`auth/` and `workflows/` for the Java packages of `src/nano-pulse-auth` and
`src/nano-pulse-workflows`. `PROJECT.json` maps every definition to its lines.

## 1. The system

nano-pulse is an Express service (TypeScript), an authentication service and a
workflow service (Spring Boot). They share Kafka; the Express service also uses
MongoDB, Redis and Socket.IO, the two others MongoDB.

```
POST /events --> WebhooksService --+-- HIGH ---> Redis list -----> WebhookConsumerService --> MongoDB 'success'
                   | MongoDB       +-- HIGH ---> Redis pub/sub --> WebhookConsumerService --> Socket.IO
                   | 'pending'     +-- M, L ---> Kafka topics --+
POST /retry/:id ---+               auth service -> user_auth ---+-> one kafka_consumer, two services
```

### Inventory

| Component | State it keeps | Operations | What makes it correct |
|---|---|---|---|
| **Webhook events**, `express/api/services/webhooks.service.ts` | delivery records (MongoDB), list `webhook:high_priority`, statistics (Redis), a task in memory for each subscription | `processWebhookEvent`, `processSubscription`, `updateRealtimeStats` | a stored delivery is never without a task, a message or a handler; a failed task is reported |
| **Retry**, same file, `retryFailedWebhook` | the same records, sorted set `webhook:retries` | four awaited calls | the limit holds although the count is read long before it is written; giving up is earned; an answer 'requeued' has its entry |
| **Webhook consumers**, `express/api/services/consumers/webhook-consumer.service.ts` | running handlers | list loop, pub/sub listener, `eachMessage`, `processDelivery` | clients hear of a delivery after it is marked; no offset skips a message |
| **User-auth consumer**, `user-auth-consumer.service.ts` | running handler | `eachMessage`, `processAuthEvent` | gets its own topics; no message is done with before clients and Discord had it |
| **Discord messages**, `express/shared/libraries/discord/discord-message.service.ts` | the attempts of a running call | `sendMessage` | gives up after all its attempts only; keeps no handler for ever; sends few copies |
| **Statistics**, `webhooks.service.ts`, `webhooks-delivery.repository.ts` | counters and a timeline in Redis | `updateRealtimeStats`, `getWebhookStats` | counters agree and cover the last day; the figures of an answer add up |
| **Kafka client**, `express/core/connections/kafka-connection.ts`, `kafka-producer.service.ts` | one producer and one consumer for the process | `kafka_produce`, `subscribe`, `run` | whichever service starts the consumer, every topic is read |
| **API gateway**, `express/core/middlewares/api-gateway.middleware.ts` | a sorted set per address | `rateLimit`, `authenticate` (reads) | the window overshoots by a bounded number; a refusal is earned; who passes has a key |
| **HTTP application**, `express/app.module.ts`, `express/core/routes`, controllers, `response-handler.util.ts` | the request and its response | the middleware of each route, the handlers, the answers | everyone is answered, once; a request that goes wrong does not take the process with it |
| **Log routes**, `express/core/routes/logs.route.ts`, `logger.ts` | a folder for each day | four reads; each log line makes the folder of its day | as above |
| **API keys**, `express/shared/libraries/utils/api-key.util.ts` | keys in Redis | create, revoke | see the gateway |
| **Cluster**, `express/shared/libraries/cluster.service.ts` | a Map of workers | `initialize`, exit and message events, `gracefulShutdown` (called by nothing) | full strength; nobody waits for an exit that is over |
| **Process**, `express/index.ts`, `redis-connection.ts` | the process itself | start, signals, uncaught exceptions, exit | restarts take up what the channels hold |
| **Socket.IO**, `socket.service.ts` | whether the server is there; rooms, kept by the library | `initialize`, `emitToAll` and others | (emits are counted) |
| **Authentication**, `auth/services/AuthenticationService.java` | collections `users`, `tokens` | `register`, `login` | locks are earned, a login ends earlier sessions, an email has one account |
| Tokens and filter, `auth/services/TokenService.java`, `auth/filters` | `tokens` | lookups by the token string | see section 8 |
| **Workflow templates**, `workflows/services/WorkflowTemplateServiceImpl.java` | `workflow_templates`, `workflow_versions` | create, clone, import, update, activate, delete | nobody overwrites unseen content with older content; each content has a version, in order |
| Configuration, workflow executions and integrations | none that code changes | | |

Hard behaviours: every `await` of the Express service lets all other requests,
tasks and consumers run; a record is read in one step and written in another;
the tasks of an event run on after the answer, awaited by nobody; the same HIGH
delivery travels two ways at once; errors are swallowed at some levels and end
the process at others; one Kafka consumer is started by two services; a shutdown
closes connections under running handlers; MongoDB, Redis and Kafka survive the
process and its memory does not. A Kafka handler waits for Discord while the
session of its consumer runs out. In the Java services, requests interleave
between repository calls and save whole documents that they loaded earlier. The
list `hazards` of `PROJECT.json` has each at its line.

## 2. Modules

| Module | Models | Proofs |
|---|---|---|
| `WebhookSubscriptions` | the subscriptions, as far as every webhook module looks at them | |
| `RetrySettings` | the retry requests, and the limit each subscription has for them | |
| `WebhookRetry` | delivery records and `retryFailedWebhook`, any number of requests | `WebhookRetryProofs` |
| `WebhookDelivery` | events, tasks, channels, consumers and the life of one process | `WebhookSystemProofs` |
| `WebhookSystem` | `WebhookDelivery` composed with `WebhookRetry`, over the same records | `WebhookSystemProofs` |
| `KafkaConsumerStartup` | the connections of `bootstrap`, and two services that start one consumer | `ConsumerHandlersProofs` |
| `ConsumerHandlers` | extends `KafkaConsumerStartup` with what the running consumer does: both handlers, the socket server, `sendMessage` | `ConsumerHandlersProofs` |
| `WebhookStats` | the counters in Redis, and the counts of `getDeliveryAnalytics` | `WebhookStatsProofs` |
| `ApiServer` | requests in the middleware and in the handlers, and the shutdown that a rejection begins | `ApiServerProofs` |
| `RateLimiter` | `rateLimit` and `checkRateLimit` for one key | `InfrastructureProofs` |
| `ClusterService` | the primary and its workers; in no run, as the program calls none of it | `InfrastructureProofs` |
| `AuthAccounts` | `register` and `login` | `AuthAccountsProofs` |
| `WorkflowTemplates` | all requests of `WorkflowTemplateServiceImpl` that write | `WorkflowTemplatesProofs` |

`MC*` modules only give constants their values and define symmetry sets
(`RateLimiter` needs none). Definitions such as
`LimitReachedOffByOne`, `EachMessageNotAwaited` or `PurgeLate` that stand before the
definition they resemble are the *mutants*: plausible bugs, unused by the
specification, that show that each property notices when the code goes wrong.

### WebhookRetry

`status` and `attemptCount` are the fields of the delivery records, `isActive`
that of the subscriptions. A request `r` moves through `pc[r]`:
`findDelivery` -> `findSubscription` -> `markFailed` | `markPending` -> `zadd`,
one value per awaited call of `retryFailedWebhook`. `seen[r]` is the attempt
count in its `delivery` variable, never read again. `granted` is a history
variable, the requests whose increment reached the database.

Three actions stand for the rest of the program: `CreateDelivery`,
`ConsumerMarksSuccess`, `SetActive`. Every query may reject (`RetryFails`); a
write that was applied before its error is the write followed by `RetryFails`.

The lookup is modelled as it is: the record stores the subscription's *clientId*
as `webhookId`, and `findById` compares it with the *_id* of a subscription. It
succeeds only when some clientId happens to be an _id (the module allows it; in
the usual case each retry ends with 'Subscription not found'). All limits are
those of the subscription that is found. The score of an entry of `webhook:retries`,
which is the delay, is left out: nothing reads the set.

`WebhookRetry` is the abstract specification of what the rest of the system may
do to a record: `WebhookSystem` has `ImplementsRetry == Retry!Spec` as a
property, so that what is proved of `WebhookRetry` holds of the composition. It has
no run of its own: `WebhookSystem` checks its properties beside the pipeline.

### WebhookDelivery

A delivery is `<<event, subscription>>`. `task[d]` is where its
`processSubscription` call is: `create`, `send`, `publish` (HIGH), `stats` (what it
writes there is in `WebhookStats`).
`TriggerEvent` starts a task for each active subscription and answers in the
same step, because `Promise.allSettled([promises])` gets an array with one
element. `createDelivery` swallows its error (`CreateDeliveryFails`: the task
goes on without an id), `kafka_produce` too (`ProduceFails`), `lpush` and
`publish` do not (`Reject`: an unhandled rejection, whose handler begins the
shutdown). An event without a payload ends its tasks the same way (`PayloadMissing`): the
signature of nothing throws. `handlers` holds one record per running call of `processDelivery` or
`processAuthEvent`, with the channel it came by and its next await. The list has
one handler at a time, pub/sub any number, the Kafka consumer one for both
topics. `position` and `committed` are the offsets of the running consumer and of
its group.

`mode` is `up`, `stopping` (the shutdown began; connections close in some order,
so any later operation may fail) or `down`. `LoseMemory` drops what the process
held: tasks, handlers, pub/sub messages and `position`. `kafkaHandler` says which
service's `eachMessage` the process runs; which ones are possible is the result
of `KafkaConsumerStartup`, and `KafkaHandlers` chooses among them: in a process in which
nothing fails it is the user-auth service's, which takes the webhook messages of the
topics for logins (`EmitAuthEvent`, `misrouted`).

`lost` is a history variable: a delivery and the step at which it came to nothing,
which is one of three in the code. Its message was not sent (`"unsent"`), or it was popped by a
process that ended before it marked the record (`"cut"`), or the update of the record failed
(`"unmarked"`).

### WebhookSystem

The same records and process for both: pipeline steps leave the requests alone,
a stop of the process abandons them (`Retry!AbandonRetries`), and
`updateSubscription` may change `isActive` at any time.

### KafkaConsumerStartup

`phase` follows `main` and `bootstrap`: the database, then the producer, then the
services; a connection that fails ends the process (`ConnectFails`). Then
`bootstrap` calls `getInstance` of both services with no await in between. The
webhook service awaits `initializeRedisConsumer` first, so the user-auth service
calls `subscribe` first (`Bootstrap`), and the webhook service in the microtask
after (`SubscribeSecond`), before any metadata can have arrived
(`NobodyInRedis`). `run` is a no-op for the second caller. Each subscription and
the running consumer may fail, and the process may restart.

### ConsumerHandlers

`call` is the `eachMessage` call that runs: its topic, the await it is at
(`stage`: `update`, `post`, `wait`, or `hung` for a POST that is never answered),
the attempts of `sendMessage`, and whether the session of the consumer still
lasts. `CallWebhook` and `CallUserAuth` start it, `Posted`, `Refused`,
`AnswerLost`, `Waited` are the turns of the loop in `sendMessage`. A 429 sleeps and
goes on with `continue`, also after the last attempt; other errors sleep between
attempts only. A handler that returned within its session has its offset
committed (`CommitOffset`, which is `EachMessage` of `KafkaConsumerStartup`); one
that threw, or outlived its session, gets the message again (`FetchAgain`).

`io` says whether the socket server is there. `initializeSocket` only logs an
error, and `bootstrap` goes on. Without a server `emitToAll` throws: in the user-auth
handler out of `eachMessage`, in `processDelivery` into the `catch`, which sends an
error message instead. `discord` is the configuration: with no
`DISCORD_WEBHOOK_URL`, or in development, nothing is sent. `emits` and `posts` are
history variables. They count for each topic the copies of the message that is next
to be committed.

What is proved of the startup holds with the handlers at work (`HandlersStartup`). The
module starts no second call while one
runs, since kafkajs handles one message at a time (`partitionsConsumedConcurrently`
is not set).

### WebhookStats

One client. The task of a delivery creates its record, reads the clock
(`BeginUpdate`), and runs the `MULTI` (`UpdateStats`, one step in Redis; or it is
lost, and the error swallowed). The hash with `total_events` and the counters of
the types expires a `Day` after its last update, as a whole; the timeline is a
sorted set whose members are milliseconds, and never expires. `GetStats` starts the
four `countDocuments` of `Promise.all`, which end in any order while `SetStatus`
writes the records. `counted` and `overlap` are history variables. The average
response time and the success rate are left out.

### ApiServer

`asked[r]` is the request, reduced to what the code looks at: route, key, body,
date and level. `pc[r]` is where it is: in the middleware number `at[r]` of its
route's `Stack`, in its handler, or in the two file operations of a log handler
(`access`, `read`). `answer[r]` is the status sent, 0 before: the first
`response.json` sends it, each later one throws, in the `catch` of the handler
once more, and the promise of the handler is rejected. Express 4 does not await
it, so that the rejection is an `uncaughtException` and begins the shutdown
(`Conclude`, `Shutdown`). The log handlers do just that: they go on after
`badRequest` and `notFound`. `folders` are the days that have a log, which every
answer makes for its own `day`, since it is logged first; `Midnight` falls at any
time.

The handlers of the webhook routes and `rateLimit` are there by their outcomes
(the other modules have their steps); the tasks of an event run on after the
answer (`running`), and one that is rejected (`failedTask`) stops the process. The
HTTP server closes when all that wait are answered (`ExitWhenClosed`); on a signal
a second listener, that of the Redis connection, may exit before
(`ExitWhenRedisQuit`). `handled` and `hadKey` are history variables. `next()` and
the start of the next middleware are one step in the code and two here, which
adds interleavings and takes none away.

### RateLimiter

`Arrive`, `Purge`, `Count`, `Add` are the statements of `checkRateLimit` between
awaits. `now[c]` is the arrival time in milliseconds; it is both score and member
in `entries`, a set, so that requests of one millisecond count once. `FailOpen`
is the `catch` block, before or after the command took effect. `Latency` bounds
how long a check lasts; it is the one assumption about time, stated as
`Latency < Window` (windows are seconds to minutes, a check is three commands).

### ClusterService

A worker dies (`alive` -> `exiting`) before the primary hears of it
(`WorkerExit`). The listener of `exit` forks a replacement whatever the phase,
also while `gracefulShutdown` waits: the workers that shutdown waits for are
those of the Map when it was called, and no worker listens for the 'shutdown' they
are sent. The calls of `initialize` and `gracefulShutdown` in `index.ts` are
commented out, so that the module is proved about and has no run.

### AuthAccounts

A request performs `register`, `login` with the right password, or `login` with a
wrong one. Each repository call is a step. `save` writes the whole document as
loaded (`seenAttempts`, `seenNonLocked`), so that concurrent logins overwrite each
other. `User.email` has `@Indexed(unique = true)`, but automatic index creation is
off by default and no configuration turns it on: nothing stops a second document.
An email with two documents makes `findByEmail` throw, which `login` does not
catch. `before[r]` is a history variable: the requests that had finished when `r`
began.

### WorkflowTemplates

A request `r` loads the template (`Load`), saves a changed copy of the whole
document (`Save`), and, for an update, reads the latest version number
(`FindLatest`), calls `deactivatePreviousVersions` and saves a version
(`SaveVersion`). Each may throw (`RequestFails`). Of the content of a document only
the request that wrote it is kept (`by`).

`@Version Long version` is an optimistic lock. A save whose version is not null is
an update of the document with that `_id` and that version, and increments it
(Spring Data MongoDB; the code outside `src/` is modelled from this use).
Three consequences are in the actions. `create`, `clone` and `import` set the version to
0 on a new `_id`: their save finds no such document and throws, so that templates
are only there when put there by other means (`Init` allows for any). `update` saves with the
version it loaded *plus one*: its save goes through only if exactly one other save
came in between. `toWorkflowTemplate` sets neither `isActive` nor `name`, so an update
that is saved makes the template inactive.

The two queries of `WorkflowVersionRepository` are `@Query`s that return one
document, with no limit: with two versions there, both throw (`TooMany`).
`deactivatePreviousVersions` is one of them: it has no `@Update` and deactivates
nothing. `unseen[r]`, `before[r]` and `excused` are history variables: saves of the
template since `r` loaded it, requests that had finished when `r` began, and those
that were told what is wrong with them or met a call that failed (`Refuse`).

## 3. Runs

| Run | Question | Bounds, and why they are enough |
|---|---|---|
| `delivery` | does a delivery go missing anywhere but at the known steps; what do offsets and notices mean; does what a channel holds get delivered? | one event, a HIGH and a MEDIUM subscription (all kinds of channels; LOW is a second topic with the same code); all three values of `kafkaHandler`, chosen anew at the restart; a kill, a signal and two failing operations, two of these in one behaviour (`MaxDisturbances`), at any point. A shutdown adds failures of its own, which are not counted |
| `delivery_report` | *violated*: a rejected task is reported as failed | one fault |
| `system` | does the pipeline do to the records what `WebhookRetry` allows for; do concurrent retries keep within the limit and earn 'failed'; are deliveries accounted for or retried? | one HIGH delivery, whose lookup succeeds, three requests with a limit of 2: all can read the same count, and one more than the limit can ask; one kill, signal or fault. HIGH has both the list and pub/sub, so that two handlers and three requests write one record. Requests are interchangeable, hence the symmetry |
| `system_requeue` | *violated*: a delivery answered 'requeued' is attempted again | one request, no failure at all |
| `consumers` | whose topics are read; what has a message achieved that is done with, how many copies are there; do handlers end and topics get handled? | the services and topics of the code, three attempts as in the code, one unread message for each topic (each topic's message is new as soon as the last is committed), two faults of the startup (one for each service), two mishaps (a lost answer and an expired session, a socket server and an update), a restart; configured with and without Discord |
| `consumer_topics` | *violated*: a webhook event of a topic is handled by the webhook service | no fault, mishap or restart |
| `api` | who gets to a handler, is everyone answered, what stops the process, whom does that cut off? | two requests, a log request beside a request of any kind; one key, made and revoked at any time; the days 0 to 2 (before, of, and after the start: a folder that is missing because it is past, and one that is not there yet); one fault, one signal |
| `rate_limit` | how far does the set overshoot; are refusals earned? | 3 concurrent requests, limit 2, 5 requests in all (two entries and three requests that count them together), window 3, time 0..4 (entries expire within the run), commands may fail |
| `accounts` | are locks earned, sessions ended, duplicates only concurrent? | 4 requests of one email, locked after 2 failures: a login beside two failing ones and a registration |
| `workflows` | is a save lost, which versions come of the updates, in what order? | 3 requests of any kind on one template, in any interleaving: an update needs one other save, so that two updates can pass the lock; histories of none, one and two versions to begin with |
| `workflow_errors` | *violated*: a request ends in an error only for a reason | two requests (one is enough for the counterexample) |
| `stats` | do the counters cover the last day; do figures add up? | 2 deliveries of two types, so that one is counted before, and one after, the expiry; a day of 2 and times 0 to 3; 3 writes of records between the counts |

The bounds are constants named in the modules: `MaxCrashes`, `MaxSignals`,
`MaxFaults`, `MaxDisturbances` (WebhookDelivery), `MaxMessages`, `MaxFaults`, `MaxRestarts`
(KafkaConsumerStartup), `MaxMishaps` (ConsumerHandlers), `MaxTime`, `MaxWrites` (WebhookStats), `MaxTime`, `MaxArrivals` (RateLimiter), `MaxForks`
(ClusterService), `MaxDay`, `MaxFaults`, `MaxSignals` (ApiServer). Sets of events, requests and slots are finite in each run.
`CHECK_DEADLOCK FALSE` stands where the bounded inputs run out (all events
answered and channels empty, all ids or requests used up): the program is idle
then, not stuck.

## 4. What the properties say

Each module has one type invariant, and each of these is a theorem (`TypeCorrect`,
`HandlersTypeCorrect`, `ClusterTypeCorrect`); the runs `stats` and `delivery` check
theirs as well.

- **Pipeline.** `PendingIsAccountedFor`: whichever service reads the topics, whatever
  fails and whenever the process ends, a 'pending' delivery is with its task, in the
  list, popped, or on a topic, or it is one of the cases that the code gives up: no id,
  not sent, taken for a login, popped by a process that ended, update failed. No
  other step may lose one. `CommittedIsSettled`: offsets committed skip no message.
  `NoticeTrueIfId`: 'Webhook Delivery Successfully' is true of a delivery with an id,
  and never of one without. `NotifiedPerChannel`: how often clients hear of a
  delivery, in terms of the failures that happened. `EventuallyDelivered`: what the
  list or a topic holds is settled if the process stays up, whatever went wrong before
  or goes wrong then; the excuses are those of the delivery itself, and for a topic that
  no consumer runs. *Violated*:
  `RejectionReported`.
- **System.** `AttemptsWithinLimit`: no stored count passes the limit, however
  requests overwrite each other. `FailedOnlyAfterLimit`: 'failed' needs as many
  *written* increments as the limit, so that lost updates only delay giving up.
  `RequeuedHasEntry`: no failure between the two writes is answered 'requeued'.
  `ImplementsRetry`. `PendingIsAccountedForOrRetried`: only a retry adds a way to
  go missing. *Violated*: `RequeuedIsAttempted`.
- **Startup.** `InitializedIsRead`: who reports success has its topics read,
  whichever handler runs. `WebhookHandlerNeedsFault` and `HandlerStays`, which are
  only proved: without a failure it is the user-auth handler, and it is never replaced.
- **Handlers.** *Violated*: `HandledByItsService`, a message is handled by the service
  that subscribed to its topic. `DoneWasEmitted`: no offset is committed before the message was
  emitted to the clients, over redeliveries, crashes and restarts; only the webhook
  handler may skip it, when something failed. `DoneWasSent`: nor before Discord has
  the message, or one call used up all its attempts. `CopiesAccounted`: beyond the
  first, each copy has its mishap, fault or restart; refusals cost none.
  `HandlerEnds`: also if Discord answers 429 for ever; a POST without an answer is
  the one thing that keeps a handler, since axios has no timeout.
  `EventuallyHandled`: without failures no topic piles up.
- **Statistics.** `RecentCounted`: an event counted in the last day is in the total and
  in the counter of its type, and the timeline shows no more than that. `FiguresAddUp`: up to the writes between the
  first and the last count.
- **HTTP.** `HandledWasAuthorized`: a handler runs only for a request whose key was
  stored at some time since it arrived, and for none that was refused.
  `StoppedForCause`: without a signal the process stops only after a log request
  that was answered 400 or 404 and went on, or after a task that failed; no other
  path answers twice or throws. `CutOnlyBySignal`: such a stop leaves nobody
  without an answer; only a signal does. `EveryoneIsAnswered`: or a signal came.
- **Gateway.** `OvershootBounded`: entries and requests about to insert are at most
  the limit less one, plus one per concurrent request. `RejectedOnlyAtLimit`: a
  refused request was preceded by `Max` admitted ones within its window.
- **Cluster** (only proved). `FullStrength`: while the cluster runs, a replacement for
  each dead worker. `AwaitedCanExit`: no wait for an exit that is over.
- **Accounts.** `LockEarned`: no lock before `MaxFailed` wrong passwords.
  `LoginSupersedes`: no session that finished before a login began is valid after
  it, also when two logins revoke at once or one fails half-way.
  `DuplicatesOverlap`: two accounts share an email only if the registrations
  overlapped.
- **Workflows.** *Violated*: `ErrorsAreEarned`, a request ends in an error only for
  what is wrong with it, for a call that fails, or for a save it has not seen.
  `NoSaveLost`: an activation, deactivation or deletion that succeeds undid no save
  that came in between. `NoContentReturns`: nor do these, which save whole
  documents, bring back older content. `ContentHasVersion`: an update that
  succeeded is in the history. `NumberedInOrder`: version numbers grow with time;
  equal ones come from updates that overlap. No property is stated of the saves that an
  update overwrites: each update that succeeds does overwrite one (section 7).

## 5. Fairness

Weak fairness, where it is used (`delivery`, `system_requeue`, `consumers`, `api`):
the continuation of tasks and handlers (the event loop runs settled promises),
the list loop, delivery of a published message to a connected subscriber, polling
and committing by the consumer, the startup, the next step of an HTTP request. In
`consumers`, a handler that waits for Discord gets an answer, of any kind, unless its
POST hangs (`PostHangs`); and fairness of the polling is strong for each topic
(`SF` of `CallWebhook \/ CallUserAuth`): a topic is not callable while another one's
handler runs, and kafkajs takes the fetched partitions in turn.
Nothing is assumed of events, signals, faults, crashes, an exit that began,
restarts, requests before they arrive, keys, midnight, or edits of subscriptions. `EventuallyDelivered` is conditional: it speaks
of behaviours in which the process is up from some point on. An operation that is
awaited is assumed to answer or fail in the end.

## 6. Proofs

All theorems hold for every value of the constants that satisfies the named
assumptions of the modules; TLC evaluates those assumptions in the runs. (What is
assumed of the constants of `ClusterService`, which no run has, is in the statement of
its theorems.)

- **`WebhookRetryProofs`** (assumes `RetriersFinite`, `RetryConfig`): `TypeCorrect`,
  `AttemptsBounded`, `FailureEarned`, `AnswerBacked`. `AttemptsWithinLimit` is not
  inductive: a request may hold a count that others have since changed.
  The invariant adds that the count a request holds passed the check it acts upon
  (`LimitChecked`), that no count, stored or held, is ahead of the number of
  increments written (`CountsBacked`), that each request writes once
  (`GrantedOnce`), and that its subscription is known past the lookup
  (`LookedUp`). Lost updates keep counts *behind* the increments, which is the
  side both properties are safe on.
- **`WebhookStatsProofs`** (assumes `StatsConstants`): `TypeCorrect`,
  `LastDayIsCounted`, `FiguresNearlyAddUp`. The first rests on `CountInv`: a delivery is
  counted by the last step of its task (`CountedByTask`), so once; the hash outlives
  each count by a day (`OutlivesCounts`), so that whenever it goes nothing recent is
  in it; and each member of the timeline is the time that a delivery read before it was
  counted (`TimelineCounted`), so that deliveries of one millisecond make it
  smaller and never larger than what was counted. The second says how far each count
  taken is from what it would be now (`Drift`): a write that changes
  a status moves one record between two figures, and the balance of the figures
  by one at most, whichever of the four were taken before it (`DriftBounded`).
- **`InfrastructureProofs`**, of the gateway (assumes `LimiterConstants`, with `Latency < Window`):
  `OvershootIsBounded` rests on `CountIsFresh` (what a request counts lies within
  its own window) through `Prompt` (a request under way is no older than
  `Latency`): a concurrent request cannot insert an entry that is already outside.
  `Count` moves a request to "add" only below the limit; `Add` trades an adding
  request for at most one entry. `RejectionsEarned` adds that each entry is the
  arrival of an admitted request (`EntriesAdmitted`), and counts: `Max` distinct
  entries have `Max` distinct admitted indices.
  Of the cluster: `ClusterTypeCorrect`, `WorkforceKept`,
  `AwaitedWillExit`; the invariant adds that living and exiting workers are
  disjoint and that the bound leaves an id for each replacement due (`Counted`), and
  has `FullStrength` in every phase (`Replaced`): a worker that dies during
  `gracefulShutdown` is replaced too, which the theorem does not claim as right.
- **`AuthAccountsProofs`** (assumes `AccountConstants`): `LocksAreEarned` from
  `CountInv` (no count, stored or loaded, is ahead of the refused logins of that
  account, and a loaded lock was earned when it was loaded); `SessionsSuperseded`
  from `Session` (a valid token of a request that finished earlier is among those
  a login still has to revoke); `DuplicatesAreConcurrent` from `EmailInv` (who
  found no account stores none beside an earlier one).

- **`WebhookSystemProofs`** (assumes `PipelineConstants`; beside retries `RetriersFinite` and `RetryConfig`), in five parts. Part 1 is
  about the variables that no retry touches (`Channels`): the offsets are in order,
  the consumer has one handler at a time, whose message is the next one
  (`AtPosition`), and a shutdown or a delivery without an id had its cause
  (`Calm`). Part 2 relates the messages to the records (`Records`): a new message
  of a delivery comes from its task (`MessagesFrom`), so a delivery that no task
  asked a record for has neither record nor message, and one with a message has a
  record unless the task got no id back. This is what makes every step that writes a record a
  `CreateDelivery` or a `ConsumerMarksSuccess` of `WebhookRetry`.
  It also counts what clients hear (`Told`). A HIGH delivery has one copy in the list
  and one in pub/sub: `OneCopyEach` follows each from the task to the end of its handler,
  and `ToldTwice` adds to the notifications so far the copies that may still make one.
  A topic is different, since the consumer goes back to what is committed:
  `ToldPerCopy` bounds the notifications of a delivery and its copies not yet read by
  its copies, at most one plus one for each fault, times one plus the times the
  consumer went back (`Rewinds`). A shutdown that began is not such a time before
  the process is gone.
  Every step has one of a few shapes towards the messages (`MessageSteps`), which
  leaves one small fact for each shape and each conjunct.
  Part 3, the pipeline by itself: `TypeCorrect`; `NoticesTrue` and
  `OffsetsSkipNothing` from `Marked` (a handler that is about to tell has a marked
  record, or no id; the record of a delivery without an id never is marked; all that the
  consumer got past is settled, of which the committed part is a prefix);
  `NothingGoesMissing` from `Underway`: each place that `AccountedFor` names is left for
  another one, or for a loss on record (`SentIsAccounted`, `ListedIsKept`,
  `PoppedIsKept`, `OnTopicIsKept`), also when the process ends or the consumer goes back;
  `ToldOncePerChannel`. Part 4, beside retries: `SystemImplementsRetry`,
  a step simulation that adds that a request works on a record it found,
  `NothingGoesMissingButByRetry`, and `RetriesTellNobody`: the bound on notifications holds
  beside retries too, which put a record back to 'pending' and no message anywhere.
  `UnderwayKept` serves both parts: it leaves out a fixed set of deliveries, none for
  the pipeline, those put back by a retry for the system. Part 5 instantiates
  `WebhookRetryProofs` with the records of the pipeline: with `SystemImplementsRetry`
  its theorems are theorems of the system (`SystemAttemptsBounded`,
  `SystemFailureEarned`, `SystemAnswerBacked`).
- **`ConsumerHandlersProofs`** (assumes `StartupConstants`, `HandlerConstants`). Of
  the startup: `TopicsAreRead`, `UserAuthComesFirst`, `NoHandover`. None is
  inductive without the order in which the services wait for metadata (`InLine`):
  the invariant says at each stage who is in line, that nobody runs the consumer
  before the first of them is through (`NotYet`), and that whoever runs it got the
  topics of both (`Registered`). Of the handlers: each
  action is a step of the startup or leaves its variables alone, so that the invariant of
  the startup is one of `HandlersSpec` (`HandlersStartup`). `CopiesBounded`, `EmittedBeforeDone` and
  `SentBeforeDone` need what the place of a call tells: a call is of a topic of the
  running consumer (`AtWork`), one that waits for Discord has attempts left
  or used up (`Sending`), one past its emit was emitted or had a mishap
  (`Emitted`), and the copies so far are each paid for by a failure, but for the one
  of the running call (`Owed`).
- **`WorkflowTemplatesProofs`** (assumes `WorkflowConstants`): the properties of
  the run. `NothingOverwritten` and `ContentStays` need `Loaded`: the version a request
  holds is behind the stored one by as many saves as it has not seen (less one for an
  update), so that equal versions mean none (one). `ContentRecorded` needs who may have
  written a content (`Authors`) and a version (`Recorded`); `NumbersGrow` needs `Found`:
  what a request found is the number of each version that was there when it began.
- **`ApiServerProofs`** (assumes `ServerConstants`): `OnlyAuthorized`,
  `StopsForCause`, `NobodyCutOff`. The invariant says what the place of a request
  tells of its answer and its key (`Progress`): no answer before the handler; past
  the third middleware of a protected route its key was found; in the log handlers
  400 or 404 at most. `KeyKnown` links a key that is stored now to the history.

Only model-checked are the liveness properties (`EventuallyDelivered`, `HandlerEnds`,
`EventuallyHandled`, `EveryoneIsAnswered`): fairness and ENABLED are outside what the
proof system handles. The four violated properties have their counterexamples. No module
declares a RECURSIVE operator.

## 7. Findings

1. `delivery_report`: a rejected task is counted as processed, and its rejection,
   unhandled, ends the process (`webhooks.service.ts:170`, `index.ts:66`), against
   "Proper error propagation" (`webhooks.service.ts:20`).
2. `system_requeue`: nothing reads `webhook:retries`; a delivery answered
   'requeued' stays 'pending' (`webhooks.service.ts:226`), against "Queue for retry" one line
   above.
3. `consumer_topics`: in each process in which nothing fails the user-auth service runs
   the consumer that the two services share (`index.ts:119`), and webhook events of Kafka go
   to its handler: no MEDIUM or LOW delivery is ever marked. `UserAuthComesFirst` proves
   that it takes a failure to have it otherwise. `webhook-consumer.service.ts:14` has
   "Consume webhook events from Redis and Kafka", `webhooks.service.ts:16` "MEDIUM: Kafka for
   reliable processing".
4. `workflow_errors`: a valid create, clone or import ends in an error, alone and with
   no call failing (`WorkflowTemplateServiceImpl.java:44`), against "Create a new workflow
   template" (`WorkflowTemplateService.java:14`).

Also seen while modelling, visible in the actions and asserted as right by no property:

- *Workflows.* An update succeeds only if exactly one save it has not seen came in
  between, and overwrites that one, against the lock itself (`WorkflowTemplate.java:70`).
  A template with two versions can be updated no more, as both queries for one version
  throw; the README of the service has "One-to-many with WorkflowVersion" and "Enables
  versioning" (lines 50 and 60).
- *Retries.* `backoffMultiplier`, 1 to 5 in `webhooks.schema.ts:11`, is read by nothing:
  `webhooks.service.ts:216` takes 2. A retry of a delivery that succeeded puts it back to
  'pending'. Concurrent retries that read the same count are all granted, so that the
  limit bounds the stored count and not the number of grants.
- *Deliveries.* Clients are told of the success of a delivery that has no id and is
  marked nowhere. A HIGH delivery is handled, and notified, twice. `rpop` and a failing
  update lose deliveries, as their `@todo` says. The shutdown closes the database under a handler,
  whose message is then counted as done. Without a socket server the user-auth handler gets its message
  again for ever.
- *HTTP.* A log request with an invalid date or level, or for a day without logs, is
  answered and then shuts the process down. Requests of one millisecond count as one.
- *Cluster.* `gracefulShutdown` waits for workers that do not listen, and replaces those
  that die meanwhile.
- *Accounts.* A login that loaded an account before it was locked saves it unlocked.
  Registrations of one email that overlap can both succeed, though `User.java:41` declares it unique.

## 8. Not modelled, and why

- **TokenService and the JWT filter**: `saveUserToken` stores no token string, so
  that a lookup by it finds no document; the filter's outcome does not depend on
  the state modelled.
- **The text of Discord messages**, and `retryAttempts` and `retryDelay` other than the
  defaults, which no caller sets.
- **The delay of a retry**, the score of an entry that nothing reads.
- **Average response time and success rate** of the statistics; the rate of a client
  without deliveries is 0/0, which JSON writes as null.
- **Shared statistics of several subscriptions of a client**: they are one key and one
  set of records in the code as well; `WebhookStats` has its deliveries only.
- **kafkajs** beyond what the code calls: rebalances, its own restarts, more than
  one partition, retries within the consumer that the code does not see. **MongoDB, Redis**: single operations are atomic.
- **Several Express processes**: `index.ts` starts one, its cluster calls are
  commented out. `RateLimiter` is the exception, its state is in Redis.
- **`shutdown` of the consumers and services**, which nothing calls; rooms, client
  events and the middleware of the socket server, whose state is the library's; a
  `send` to a worker whose channel is closed. In `WebhookDelivery` the socket server is
  there and Discord is not waited for: `ConsumerHandlers` has both.
- **Reads, exports and the validation of workflow templates** change nothing;
  that a template is not valid is one of the outcomes of `CreateOrImport` and `Load`.
  Templates whose stored version is null, which a save would insert again and an update
  would throw on (`WorkflowTemplateServiceImpl.java:90`), are left out.
- **The lost answer of a last write**, in `AuthAccounts` and `WorkflowTemplates`: a
  write that is applied and then fails is the write followed by `RequestFails`, but a
  request that made its last write is finished in the model; that its caller gets
  an error although all was written is merged into the normal answer.
- **In `ApiServer`:** a write to the log that fails; the `catch` of `rateLimit`,
  which answers nothing and which nothing in its `try` reaches, as
  `checkRateLimit` catches its own errors; the body of a GET. Unhandled
  rejections are those of Node 15 and later, the handlers those of Express 4.
- Wording, contents of the log, configuration, analytics queries (read only),
  workflow executions and integrations (no engine runs them).

## 9. Plan

1. *Done:* pipeline, system, startup and handlers, statistics, HTTP
   application, gateway, cluster, accounts, workflows, each with proofs.
2. *Done:* proofs of every safety property that a passing run checks, for every value
   of the constants, those of `WebhookRetryProofs` stated of `SysSpec`.
3. Compose `ConsumerHandlers` with `WebhookDelivery`, so that the wait for Discord
   delays the marking of the deliveries behind it.
