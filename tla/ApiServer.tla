----------------------------- MODULE ApiServer -----------------------------
(***************************************************************************)
(* How the Express application answers a request: the stack of middleware  *)
(* it passes, the handler of its route, and what the process does when a   *)
(* handler rejects.                                                        *)
(*                                                                         *)
(* The first response.json sends the answer, each later one throws.  A     *)
(* handler is an async function that Express does not await: if it rejects *)
(* that is an uncaughtException, and the process begins to shut down.      *)
(*                                                                         *)
(* The handlers of the webhook routes are modelled by their outcome (see   *)
(* WebhookDelivery and WebhookRetry), the limits by theirs (RateLimiter);  *)
(* those of the log routes in full, with the folders that the logger makes *)
(* for each day.                                                           *)
(***************************************************************************)
EXTENDS Naturals, Sequences

CONSTANTS
    Requests,
    mayAsk,         \* the routes each request may ask for
    Keys,           \* API keys
    NoKey,          \* of a request without 'x-api-key'
    MaxDay,         \* bounds: the days,
    MaxFaults,      \*         Redis, database and file operations that fail,
    MaxSignals      \*         times the process gets SIGTERM or SIGINT

LogRoutes     == {"logs", "dates", "level", "search"}
WebhookRoutes == {"events", "stats", "retry"}
Routes        == LogRoutes \cup WebhookRoutes \cup {"welcome"}
Days          == 0..MaxDay

ASSUME ServerConstants ==
    /\ mayAsk \in [Requests -> SUBSET Routes] /\ NoKey \notin Keys
    /\ MaxDay \in Nat \ {0} /\ MaxFaults \in Nat /\ MaxSignals \in Nat

\* What a request asks for.  A date may be absent; one that is not valid is
\* "impossible", like a 30th of February, or cannot be parsed at all.
Inputs ==
    {q \in [route : Routes, key : Keys \cup {NoKey}, body : {"parsed", "malformed"},
            date : {"none", "valid", "impossible", "unparsable"},
            level : {"known", "unknown"}] :
        /\ q.body = "malformed" => q.route \in {"events", "retry"}
        /\ q.date # "none" => q.route \in LogRoutes \ {"dates"}
        /\ q.level = "unknown" => q.route = "level"
        \* past the body, the rest of a request without a key is not looked at
        /\ q.key = NoKey => q.date = "none" /\ q.level = "known"}

\* The middleware of app.module, of configureRoutes and of the routers.  That of
\* /webhooks authenticates a second time.
Stack ==
    [route \in Routes |->
        CASE route = "welcome"    -> <<"json", "rateLimit">>
          [] route \in LogRoutes  -> <<"json", "rateLimit", "authenticate">>
          [] route = "stats"      -> <<"json", "rateLimit", "authenticate", "authenticate">>
          [] route \in {"events", "retry"} ->
                 <<"json", "rateLimit", "authenticate", "authenticate", "rateLimit">>]

VARIABLES
    asked,      \* what each request asks for
    pc,         \* where it is; "stack" is the middleware number at[r]
    at,
    folder,     \* the day whose log it reads
    answer,     \* the status that was sent, 0 before
    day, folders,   \* today, and the days that have a log
    keys,       \* the API keys stored in Redis
    mode,       \* "up", "closing" or "down"
    running,    \* POST /events requests some of whose tasks still run
    handled,    \* history: the requests whose handler was called,
    hadKey,     \*          those whose key was stored since they arrived,
    failedTask, \*          those one of whose tasks was rejected
    faults, signals

requestVars == <<asked, pc, at, folder, answer>>
worldVars   == <<day, folders, keys>>
processVars == <<mode, running, failedTask, signals>>
historyVars == <<handled, hadKey>>
vars == <<requestVars, worldVars, processVars, historyVars, faults>>

Ended     == {"done", "rejected", "cut"}
UnderWay  == {r \in Requests : pc[r] \notin Ended \cup {"idle"}}
Waiting   == {r \in UnderWay : answer[r] = 0}
Protected == LogRoutes \cup WebhookRoutes

TypeOK ==
    /\ pc \in [Requests -> Ended \cup {"idle", "stack", "handler", "access", "read"}]
    /\ asked \in [Requests -> Inputs] /\ at \in [Requests -> Nat]
    /\ \A r \in Requests : pc[r] = "stack" => at[r] \in DOMAIN Stack[asked[r].route]
    /\ folder \in [Requests -> Days]
    /\ answer \in [Requests -> {0, 200, 400, 401, 404, 429, 500}]
    /\ day \in Days /\ folders \subseteq Days
    /\ keys \subseteq Keys
    /\ mode \in {"up", "closing", "down"}
    /\ failedTask \subseteq handled /\ running \subseteq handled
    /\ handled \subseteq Requests /\ hadKey \subseteq Requests
    /\ faults \in 0..MaxFaults /\ signals \in 0..MaxSignals

\* The start of the process wrote to the log of day 1; day 0 is any day before.
Init ==
    /\ asked \in [Requests -> {[route |-> "welcome", key |-> NoKey, body |-> "parsed",
                                date |-> "none", level |-> "known"]}]
    /\ pc = [r \in Requests |-> "idle"]
    /\ at = [r \in Requests |-> 1]
    /\ folder = [r \in Requests |-> 0]
    /\ answer = [r \in Requests |-> 0]
    /\ day = 1 /\ folders = {1}
    /\ keys \in SUBSET Keys
    /\ mode = "up"
    /\ running = {} /\ handled = {} /\ hadKey = {} /\ failedTask = {}
    /\ faults = 0 /\ signals = 0

Fault == faults < MaxFaults /\ faults' = faults + 1
\* The shutdown closes the database under the requests that it waits for.
DatabaseFails == IF mode = "closing" THEN UNCHANGED faults ELSE Fault

-----------------------------------------------------------------------------
(* Answers *)

Goto(r, label) == pc' = [pc EXCEPT ![r] = label]

\* Every answer is logged first, which makes the folder of the day.
Logged == folders' = folders \cup {day} /\ UNCHANGED <<day, keys>>

Shutdown == mode' = IF mode = "up" THEN "closing" ELSE mode

\* A response in the midst of a handler: what comes next is the same.
Send(r, status) == answer' = [answer EXCEPT ![r] = status]

\* The last statement of a handler, in its try or in its catch: one that was
\* answered before throws, in the catch once more, and the promise rejects.
Conclude(r, status) ==
    /\ IF answer[r] = 0
         THEN Send(r, status) /\ Goto(r, "done") /\ UNCHANGED mode
         ELSE Goto(r, "rejected") /\ Shutdown /\ UNCHANGED answer
    /\ Logged
    /\ UNCHANGED <<failedTask, signals>>

-----------------------------------------------------------------------------
(* The middleware *)

Arrive(r, q) ==
    /\ mode = "up" /\ pc[r] = "idle" /\ q.route \in mayAsk[r]
    /\ asked' = [asked EXCEPT ![r] = q]
    /\ Goto(r, "stack")
    /\ hadKey' = IF q.key \in keys THEN hadKey \cup {r} ELSE hadKey
    /\ UNCHANGED <<at, folder, answer, worldVars, processVars, handled, faults>>

At(r, middleware) == mode # "down" /\ pc[r] = "stack" /\ Stack[asked[r].route][at[r]] = middleware

\* next(): the following middleware or, after the last, the handler.
NextInStack(r) ==
    /\ IF at[r] < Len(Stack[asked[r].route])
         THEN at' = [at EXCEPT ![r] = @ + 1] /\ UNCHANGED <<pc, handled>>
         ELSE Goto(r, "handler") /\ handled' = handled \cup {r} /\ UNCHANGED at
    /\ UNCHANGED <<answer, worldVars, processVars>>

\* An answer without next().
Refuse(r, status) == Conclude(r, status) /\ UNCHANGED <<at, handled, running>>

\* A body that cannot be parsed goes to errorHandler.
Json(r) ==
    /\ At(r, "json")
    /\ IF asked[r].body = "malformed" THEN Refuse(r, 500) ELSE NextInStack(r)
    /\ UNCHANGED <<asked, folder, hadKey, faults>>

DropSilently(r) ==
    /\ At(r, "rateLimit")
    /\ \/ NextInStack(r)
       \/ Goto(r, "done") /\ UNCHANGED <<answer, at, handled, worldVars, processVars>>
    /\ UNCHANGED <<asked, folder, hadKey, faults>>

RateLimit(r) ==
    /\ At(r, "rateLimit")
    /\ NextInStack(r) \/ Refuse(r, 429)
    /\ UNCHANGED <<asked, folder, hadKey, faults>>

AnswerAndGoOn(r) ==
    /\ At(r, "authenticate")
    /\ NextInStack(r)
    /\ UNCHANGED <<asked, folder, hadKey, faults>>

\* A request without a key is refused; else the key is looked up in Redis.
Authenticate(r) ==
    /\ At(r, "authenticate")
    /\ \/ /\ IF asked[r].key \in keys THEN NextInStack(r) ELSE Refuse(r, 401)
          /\ UNCHANGED faults
       \/ asked[r].key # NoKey /\ Fault /\ Refuse(r, 500)
    /\ UNCHANGED <<asked, folder, hadKey>>

-----------------------------------------------------------------------------
(* The handlers *)

Handles(r, routes) == mode # "down" /\ pc[r] = "handler" /\ asked[r].route \in routes

Welcome(r) ==
    /\ Handles(r, {"welcome"})
    /\ Conclude(r, 200)
    /\ UNCHANGED <<asked, at, folder, historyVars, running, faults>>

\* The controller answers with what the service returned, or threw.
Controller(r) ==
    /\ Handles(r, WebhookRoutes)
    /\ \/ /\ Conclude(r, 200)
          /\ running' = IF asked[r].route = "events" THEN running \cup {r} ELSE running
          /\ UNCHANGED faults
       \/ Conclude(r, 500) /\ DatabaseFails /\ UNCHANGED running
    /\ UNCHANGED <<asked, at, folder, historyVars>>

\* The tasks of an event run on after the answer; one that fails at its channel
\* is a rejection that nobody handles.
TasksEnd(r) ==
    /\ mode # "down" /\ r \in running
    /\ running' = running \ {r}
    /\ UNCHANGED <<requestVars, worldVars, historyVars, mode, failedTask, signals, faults>>

TaskRejected(r) ==
    /\ mode # "down" /\ r \in running
    /\ failedTask' = failedTask \cup {r}
    /\ Shutdown
    /\ DatabaseFails
    /\ UNCHANGED <<requestVars, worldVars, historyVars, running, signals>>

\* GET /logs/dates.
ListDates(r) ==
    /\ Handles(r, {"dates"})
    /\ \/ Conclude(r, 200) /\ UNCHANGED faults
       \/ Conclude(r, 500) /\ Fault
    /\ UNCHANGED <<asked, at, folder, historyVars, running>>

BadInputs(r) ==
    (IF asked[r].level = "unknown" THEN 1 ELSE 0)
    + (IF asked[r].date \in {"impossible", "unparsable"} THEN 1 ELSE 0)

\* The check of the level and of the date: the handler goes on after it answers
\* badRequest.  A second badRequest throws; so does the name of the folder of a
\* date that cannot be parsed.
CheckInput(r) ==
    /\ Handles(r, LogRoutes \ {"dates"})
    /\ IF BadInputs(r) > 0 THEN Send(r, 400) /\ Logged ELSE UNCHANGED <<answer, worldVars>>
    /\ IF BadInputs(r) > 1 \/ asked[r].date = "unparsable"
         THEN Goto(r, "rejected") /\ Shutdown /\ UNCHANGED folder
         ELSE /\ Goto(r, IF asked[r].route = "logs" THEN "access" ELSE "read")
              /\ \E d \in Days :
                   /\ asked[r].date = "none" => d = day
                   /\ folder' = [folder EXCEPT ![r] = d]
              /\ UNCHANGED mode
    /\ UNCHANGED <<asked, at, historyVars, running, failedTask, signals, faults>>

AccessUnguarded(r) ==
    /\ mode # "down" /\ pc[r] = "access"
    /\ IF folder[r] \in folders
         THEN Goto(r, "read") /\ UNCHANGED mode
         ELSE Goto(r, "rejected") /\ Shutdown
    /\ UNCHANGED <<asked, at, folder, answer, worldVars, historyVars>>
    /\ UNCHANGED <<running, failedTask, signals, faults>>

\* GET /logs looks for the folder: after notFound it goes on, too.
Access(r) ==
    /\ mode # "down" /\ pc[r] = "access"
    /\ IF folder[r] \in folders
         THEN Goto(r, "read") /\ UNCHANGED <<answer, worldVars, mode>>
         ELSE /\ Logged
              /\ IF answer[r] = 0
                   THEN Send(r, 404) /\ Goto(r, "read") /\ UNCHANGED mode
                   ELSE Goto(r, "rejected") /\ Shutdown /\ UNCHANGED answer
    /\ UNCHANGED <<asked, at, folder, historyVars, running, failedTask, signals, faults>>

\* readFile, and the answer: the lines, or 'Failed to retrieve logs'.
ReadLog(r) ==
    /\ mode # "down" /\ pc[r] = "read"
    /\ \/ folder[r] \in folders /\ Conclude(r, 200) /\ UNCHANGED faults
       \/ folder[r] \notin folders /\ Conclude(r, 500) /\ UNCHANGED faults
       \/ Conclude(r, 500) /\ Fault
    /\ UNCHANGED <<asked, at, folder, historyVars, running>>

-----------------------------------------------------------------------------
(* The surroundings and the process *)

\* createApiKey and revokeApiKey.
StoreKey(k) ==
    /\ keys' = keys \cup {k}
    /\ hadKey' = hadKey \cup {r \in UnderWay : asked[r].key = k}
    /\ UNCHANGED <<requestVars, day, folders, processVars, handled, faults>>

RevokeKey(k) ==
    /\ keys' = keys \ {k}
    /\ UNCHANGED <<requestVars, day, folders, processVars, historyVars, faults>>

Midnight ==
    /\ day < MaxDay
    /\ day' = day + 1
    /\ UNCHANGED <<requestVars, folders, keys, processVars, historyVars, faults>>

\* Anything else in the process that logs.
LogWritten ==
    /\ mode # "down" /\ Logged
    /\ UNCHANGED <<requestVars, processVars, historyVars, faults>>

Signal ==
    /\ mode # "down" /\ signals < MaxSignals
    /\ signals' = signals + 1
    /\ Shutdown
    /\ UNCHANGED <<requestVars, worldVars, running, failedTask, historyVars, faults>>

\* What is under way when the process ends is never answered.
ProcessEnds ==
    /\ mode' = "down"
    /\ pc' = [r \in Requests |-> IF r \in UnderWay THEN "cut" ELSE pc[r]]
    /\ running' = {}
    /\ UNCHANGED <<asked, at, folder, answer, worldVars, failedTask, signals, historyVars, faults>>

ExitAtOnce == mode = "closing" /\ ProcessEnds

\* shutdown: process.exit once the HTTP server has closed, which waits for the
\* requests that are not answered yet.
ExitWhenClosed == mode = "closing" /\ Waiting = {} /\ ProcessEnds

\* On a signal the listener of redis-connection exits as well, when Redis quit.
ExitWhenRedisQuit == mode = "closing" /\ signals > 0 /\ ProcessEnds

Step(r) ==
    \/ Json(r) \/ RateLimit(r) \/ Authenticate(r)
    \/ Welcome(r) \/ Controller(r) \/ ListDates(r)
    \/ CheckInput(r) \/ Access(r) \/ ReadLog(r)

Next ==
    \/ \E r \in Requests : Step(r) \/ TasksEnd(r) \/ TaskRejected(r)
    \/ \E r \in Requests, q \in Inputs : Arrive(r, q)
    \/ \E k \in Keys : StoreKey(k) \/ RevokeKey(k)
    \/ Midnight \/ LogWritten
    \/ Signal \/ ExitWhenClosed \/ ExitWhenRedisQuit

Spec == Init /\ [][Next]_vars

\* A request goes on by itself: what it awaits answers or fails.
LiveSpec == Spec /\ \A r \in Requests : WF_vars(Step(r))

-----------------------------------------------------------------------------
(* Properties *)

\* A handler runs only for a request whose key was stored at some time since it
\* arrived, whatever keys are made and revoked while it passes the middleware;
\* and never for one that was refused.
HandledWasAuthorized ==
    \A r \in handled :
        /\ asked[r].route \in Protected => r \in hadKey
        /\ answer[r] \notin {401, 429}

\* The process stops by itself only after a log request that was answered 400 or
\* 404 and went on, or after a task of an event failed: no other path through
\* middleware and handlers answers twice or throws.
StoppedForCause ==
    mode # "up" /\ signals = 0 /\ failedTask = {} =>
        \E r \in Requests :
            pc[r] = "rejected" /\ asked[r].route \in LogRoutes /\ answer[r] \in {400, 404}

\* A shutdown that no signal started cuts no request off: everyone who came
\* before it is answered before the exit.
CutOnlyBySignal ==
    mode = "down" /\ signals = 0 => \A r \in Requests : pc[r] # "idle" => answer[r] # 0

\* Every request is answered, or was cut off after a signal.
EveryoneIsAnswered ==
    \A r \in Requests : pc[r] # "idle" ~> answer[r] # 0 \/ signals > 0
=============================================================================
