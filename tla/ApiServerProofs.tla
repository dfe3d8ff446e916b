-------------------------- MODULE ApiServerProofs --------------------------
(***************************************************************************)
(* For any number of requests, keys, days, faults and signals: who reaches *)
(* a handler, what stops the process, and whom the stop cuts off.          *)
(***************************************************************************)
EXTENDS ApiServer, TLAPS

\* What the place of a request says of its answer and of its key.
Progress(r) ==
    /\ pc[r] = "idle" => at[r] = 1 /\ answer[r] = 0 /\ r \notin handled
    /\ pc[r] = "stack" =>
         /\ answer[r] = 0 /\ r \notin handled
         /\ asked[r].route \in Protected /\ at[r] > 3 => r \in hadKey
    /\ pc[r] = "handler" => answer[r] = 0 /\ r \in handled
    /\ pc[r] \in {"access", "read"} => asked[r].route \in LogRoutes /\ answer[r] \in {0, 400, 404}
    /\ pc[r] = "done" => answer[r] # 0
    /\ pc[r] = "rejected" => asked[r].route \in LogRoutes /\ answer[r] \in {400, 404}
    /\ pc[r] = "cut" => mode = "down"

KeyKnown(r) == r \in UnderWay /\ asked[r].key \in keys => r \in hadKey

Authorized(r) ==
    r \in handled =>
        /\ asked[r].route \in Protected => r \in hadKey
        /\ answer[r] \notin {401, 429}

Inv ==
    /\ TypeOK
    /\ \A r \in Requests : Progress(r) /\ KeyKnown(r) /\ Authorized(r)
    /\ StoppedForCause
    /\ CutOnlyBySignal

-----------------------------------------------------------------------------
(* The stacks of middleware *)

LEMMA StackShape ==
    ASSUME NEW route \in Routes
    PROVE  /\ Len(Stack[route]) \in Nat /\ Len(Stack[route]) >= 2
           /\ DOMAIN Stack[route] = 1..Len(Stack[route])
           /\ route \in Protected => Len(Stack[route]) >= 3 /\ Stack[route][3] = "authenticate"
<1>1. CASE route = "welcome"
    <2>1. Stack[route] = <<"json", "rateLimit">> /\ route \notin Protected
        BY <1>1 DEF Stack, Routes, LogRoutes, WebhookRoutes, Protected
    <2>2. QED
        BY <2>1
<1>2. CASE route \in LogRoutes
    <2>1. Stack[route] = <<"json", "rateLimit", "authenticate">>
        BY <1>2 DEF Stack, Routes, LogRoutes, WebhookRoutes
    <2>2. QED
        BY <2>1
<1>3. CASE route = "stats"
    <2>1. Stack[route] = <<"json", "rateLimit", "authenticate", "authenticate">>
        BY <1>3 DEF Stack, Routes, LogRoutes, WebhookRoutes
    <2>2. QED
        BY <2>1
<1>4. CASE route \in {"events", "retry"}
    <2>1. Stack[route] = <<"json", "rateLimit", "authenticate", "authenticate", "rateLimit">>
        BY <1>4 DEF Stack, Routes, LogRoutes, WebhookRoutes
    <2>2. QED
        BY <2>1
<1>5. QED
    BY <1>1, <1>2, <1>3, <1>4 DEF Routes, WebhookRoutes

LEMMA InitInv == Init => Inv
<1> SUFFICES ASSUME Init PROVE Inv
    OBVIOUS
<1>1. [route |-> "welcome", key |-> NoKey, body |-> "parsed", date |-> "none", level |-> "known"]
        \in Inputs
    BY DEF Inputs, Routes, LogRoutes, WebhookRoutes
<1>2. TypeOK
    BY <1>1, ServerConstants DEF Init, TypeOK, Ended, Days
<1>3. \A r \in Requests : Progress(r) /\ KeyKnown(r) /\ Authorized(r)
    BY DEF Init, Progress, KeyKnown, Authorized, UnderWay
<1>4. QED
    BY <1>2, <1>3 DEF Init, Inv, StoppedForCause, CutOnlyBySignal

-----------------------------------------------------------------------------
(* The steps of one request *)

Active == {"stack", "handler", "access", "read"}

\* A request that is under way moves on: nothing else notices, but that the
\* shutdown may begin with its rejection.
LEMMA StepOfOne ==
    ASSUME Inv, NEW r \in Requests, mode # "down", pc[r] \in Active,
           TypeOK', Progress(r)', Authorized(r)',
           \A x \in Requests \ {r} : pc'[x] = pc[x] /\ at'[x] = at[x] /\ answer'[x] = answer[x],
           UNCHANGED <<asked, hadKey, keys, signals, failedTask>>,
           handled' \in {handled, handled \cup {r}},
           mode' = mode \/ (mode' = "closing" /\ pc'[r] = "rejected")
    PROVE  Inv'
<1>1. r \in UnderWay
    BY DEF Active, UnderWay, Ended
<1>2. KeyKnown(r)'
    BY <1>1 DEF Inv, KeyKnown
<1>3. ASSUME NEW x \in Requests \ {r} PROVE (Progress(x) /\ KeyKnown(x) /\ Authorized(x))'
    <2>1. Progress(x) /\ KeyKnown(x) /\ Authorized(x)
        BY DEF Inv
    <2>2. pc'[x] = pc[x] /\ at'[x] = at[x] /\ answer'[x] = answer[x] /\ asked'[x] = asked[x]
        OBVIOUS
    <2>3. x \in handled' <=> x \in handled
        OBVIOUS
    <2>4. Progress(x)'
        BY <2>1, <2>2, <2>3 DEF Progress
    <2>5. x \in UnderWay' <=> x \in UnderWay
        BY <2>2 DEF UnderWay
    <2>6. QED
        BY <2>1, <2>2, <2>3, <2>4, <2>5 DEF KeyKnown, Authorized
<1>4. StoppedForCause'
    <2> SUFFICES ASSUME mode' # "up", signals' = 0, failedTask' = {}
                 PROVE  \E x \in Requests : /\ pc'[x] = "rejected" /\ asked'[x].route \in LogRoutes
                                            /\ answer'[x] \in {400, 404}
        BY DEF StoppedForCause
    <2>1. CASE pc'[r] = "rejected"
        BY <2>1 DEF Progress
    <2>2. CASE mode' = mode
        <3>1. PICK x \in Requests : /\ pc[x] = "rejected" /\ asked[x].route \in LogRoutes
                                    /\ answer[x] \in {400, 404}
            BY <2>2 DEF Inv, StoppedForCause
        <3>2. x # r
            BY <3>1 DEF Active
        <3>3. QED
            BY <3>1, <3>2
    <2>3. QED
        BY <2>1, <2>2
<1>5. CutOnlyBySignal'
    BY DEF CutOnlyBySignal
<1>6. QED
    BY <1>2, <1>3, <1>4, <1>5 DEF Inv

Statuses == {200, 400, 401, 404, 429, 500}

LEMMA ConcludeInv ==
    ASSUME Inv, NEW r \in Requests, mode # "down", pc[r] \in Active,
           NEW status \in Statuses, Conclude(r, status),
           status \in {401, 429} => r \notin handled,
           UNCHANGED <<asked, at, folder, handled, hadKey>>,
           running' \subseteq handled, faults' \in 0..MaxFaults
    PROVE  Inv'
<1>1. UNCHANGED <<day, keys, failedTask, signals>> /\ folders' = folders \cup {day}
    BY DEF Conclude, Logged
<1>2. Progress(r) /\ Authorized(r) /\ TypeOK
    BY DEF Inv
<1>3. CASE answer[r] = 0
    <2>1. /\ answer' = [answer EXCEPT ![r] = status] /\ pc' = [pc EXCEPT ![r] = "done"]
          /\ mode' = mode
        BY <1>3 DEF Conclude, Send, Goto
    <2>2. /\ answer'[r] = status /\ pc'[r] = "done" /\ status # 0
          /\ \A x \in Requests \ {r} : pc'[x] = pc[x] /\ answer'[x] = answer[x]
        BY <2>1, <1>2 DEF TypeOK, Statuses
    <2>3. TypeOK'
        BY <1>1, <1>2, <2>1 DEF TypeOK, Statuses, Ended
    <2>4. Progress(r)' /\ Authorized(r)'
        BY <1>2, <2>2 DEF Progress, Authorized
    <2>5. \A x \in Requests \ {r} : pc'[x] = pc[x] /\ at'[x] = at[x] /\ answer'[x] = answer[x]
        BY <2>2
    <2>6. UNCHANGED <<asked, hadKey, keys, signals, failedTask>> /\ handled' = handled
        BY <1>1
    <2>7. QED
        BY <2>1, <2>3, <2>4, <2>5, <2>6, StepOfOne
<1>4. CASE answer[r] # 0
    <2>1. pc[r] \in {"access", "read"} /\ asked[r].route \in LogRoutes /\ answer[r] \in {400, 404}
        BY <1>2, <1>4 DEF Progress, Active
    <2>2. answer' = answer /\ pc' = [pc EXCEPT ![r] = "rejected"] /\ mode' = "closing"
        BY <1>2, <1>4 DEF Conclude, Goto, Shutdown, TypeOK
    <2>3. pc'[r] = "rejected" /\ \A x \in Requests \ {r} : pc'[x] = pc[x]
        BY <2>2, <1>2 DEF TypeOK
    <2>4. TypeOK'
        BY <1>1, <1>2, <2>2 DEF TypeOK, Ended
    <2>5. Progress(r)' /\ Authorized(r)'
        BY <1>2, <2>1, <2>2, <2>3 DEF Progress, Authorized
    <2>6. QED
        BY <1>1, <2>2, <2>3, <2>4, <2>5, StepOfOne
<1>5. QED
    BY <1>3, <1>4

\* next(): whoever goes past authenticate, the third of the stack, had a key.
LEMMA NextInv ==
    ASSUME Inv, NEW r \in Requests, mode # "down", pc[r] = "stack", NextInStack(r),
           Stack[asked[r].route][at[r]] = "authenticate" => r \in hadKey,
           UNCHANGED <<asked, folder, hadKey>>, faults' \in 0..MaxFaults
    PROVE  Inv'
<1> DEFINE route == asked[r].route
<1>1. route \in Routes /\ at[r] \in 1..Len(Stack[route])
    <2>1. asked[r] \in Inputs /\ at[r] \in DOMAIN Stack[route]
        BY DEF Inv, TypeOK
    <2>2. route \in Routes
        BY <2>1 DEF Inputs
    <2>3. QED
        BY <2>1, <2>2, StackShape
<1>2. /\ Len(Stack[route]) \in Nat /\ DOMAIN Stack[route] = 1..Len(Stack[route])
      /\ route \in Protected => Len(Stack[route]) >= 3 /\ Stack[route][3] = "authenticate"
    BY <1>1, StackShape
<1>3. Progress(r) /\ Authorized(r) /\ TypeOK
    BY DEF Inv
<1>4. route \in Protected /\ at[r] >= 3 => r \in hadKey
    BY <1>1, <1>2, <1>3 DEF Progress
<1>5. UNCHANGED <<answer, worldVars, processVars>>
    BY DEF NextInStack
<1>6. answer[r] = 0
    BY <1>3 DEF Progress
<1>7. CASE at[r] < Len(Stack[route])
    <2>1. at' = [at EXCEPT ![r] = @ + 1] /\ UNCHANGED <<pc, handled>>
        BY <1>7 DEF NextInStack
    <2>2. /\ at'[r] = at[r] + 1 /\ at'[r] \in 1..Len(Stack[route])
          /\ \A x \in Requests \ {r} : at'[x] = at[x]
        BY <1>1, <1>2, <1>3, <1>7, <2>1 DEF TypeOK
    <2>3. TypeOK'
        <3>1. \A x \in Requests : pc'[x] = "stack" => at'[x] \in DOMAIN Stack[asked'[x].route]
            BY <1>2, <1>3, <2>1, <2>2 DEF TypeOK
        <3>2. at' \in [Requests -> Nat]
            BY <1>3, <2>1 DEF TypeOK
        <3>3. QED
            BY <1>3, <1>5, <2>1, <3>1, <3>2 DEF TypeOK, worldVars, processVars
    <2>4. Progress(r)' /\ Authorized(r)'
        BY <1>1, <1>2, <1>3, <1>4, <1>5, <2>1, <2>2 DEF Progress, Authorized
    <2>5. \A x \in Requests \ {r} : pc'[x] = pc[x] /\ at'[x] = at[x] /\ answer'[x] = answer[x]
        BY <1>5, <2>1, <2>2
    <2>6. UNCHANGED <<asked, hadKey, keys, signals, failedTask, mode>> /\ handled' = handled
        BY <1>5, <2>1 DEF worldVars, processVars
    <2>7. pc[r] \in Active
        BY DEF Active
    <2>8. QED
        BY <2>3, <2>4, <2>5, <2>6, <2>7, StepOfOne
<1>8. CASE ~ (at[r] < Len(Stack[route]))
    <2>1. /\ pc' = [pc EXCEPT ![r] = "handler"] /\ handled' = handled \cup {r} /\ at' = at
        BY <1>8 DEF NextInStack, Goto
    <2>2. pc'[r] = "handler" /\ \A x \in Requests \ {r} : pc'[x] = pc[x]
        BY <1>3, <2>1 DEF TypeOK
    <2>3. TypeOK'
        <3>1. pc' \in [Requests -> Ended \cup {"idle", "stack", "handler", "access", "read"}]
            BY <1>3, <2>1 DEF TypeOK
        <3>2. \A x \in Requests : pc'[x] = "stack" => at'[x] \in DOMAIN Stack[asked'[x].route]
            BY <1>3, <2>1, <2>2 DEF TypeOK
        <3>3. QED
            BY <1>3, <1>5, <2>1, <3>1, <3>2 DEF TypeOK, worldVars, processVars
    <2>4. route \in Protected => r \in hadKey
        BY <1>1, <1>2, <1>4, <1>8
    <2>5. Progress(r)' /\ Authorized(r)'
        BY <1>5, <1>6, <2>1, <2>2, <2>4 DEF Progress, Authorized
    <2>6. \A x \in Requests \ {r} : pc'[x] = pc[x] /\ at'[x] = at[x] /\ answer'[x] = answer[x]
        BY <1>5, <2>1, <2>2
    <2>7. UNCHANGED <<asked, hadKey, keys, signals, failedTask, mode>>
        BY <1>5 DEF worldVars, processVars
    <2>8. pc[r] \in Active
        BY DEF Active
    <2>9. QED
        BY <2>1, <2>3, <2>5, <2>6, <2>7, <2>8, StepOfOne
<1>9. QED
    BY <1>7, <1>8

-----------------------------------------------------------------------------
(* The middleware and the handlers *)

LEMMA FaultsBounded ==
    ASSUME TypeOK
    PROVE  /\ UNCHANGED faults => faults' \in 0..MaxFaults
           /\ Fault => faults' \in 0..MaxFaults
           /\ DatabaseFails => faults' \in 0..MaxFaults
BY ServerConstants DEF TypeOK, Fault, DatabaseFails

\* An answer without next(): of a request whose handler was not called.
LEMMA RefuseInv ==
    ASSUME Inv, NEW r \in Requests, mode # "down", pc[r] = "stack",
           NEW status \in Statuses, Refuse(r, status),
           UNCHANGED <<asked, folder, hadKey>>, faults' \in 0..MaxFaults
    PROVE  Inv'
<1>1. r \notin handled /\ pc[r] \in Active /\ running \subseteq handled
    BY DEF Inv, Progress, Active, TypeOK
<1>2. Conclude(r, status) /\ UNCHANGED <<at, handled, running>>
    BY DEF Refuse
<1>3. QED
    BY <1>1, <1>2, ConcludeInv

LEMMA MiddlewareInv ==
    ASSUME Inv, NEW r \in Requests, Json(r) \/ RateLimit(r) \/ Authenticate(r)
    PROVE  Inv'
<1>1. mode # "down" /\ pc[r] = "stack" /\ UNCHANGED <<asked, folder, hadKey>>
    BY DEF Json, RateLimit, Authenticate, At
<1>2. faults' \in 0..MaxFaults
    BY FaultsBounded DEF Inv, Json, RateLimit, Authenticate
<1>3. KeyKnown(r) /\ r \in UnderWay
    BY <1>1 DEF Inv, UnderWay, Ended
<1>4. ASSUME NextInStack(r), Stack[asked[r].route][at[r]] = "authenticate" => asked[r].key \in keys
      PROVE  Inv'
    BY <1>1, <1>2, <1>3, <1>4, NextInv DEF KeyKnown
<1>5. ASSUME NEW status \in Statuses, Refuse(r, status) PROVE Inv'
    BY <1>1, <1>2, <1>5, RefuseInv
<1>6. CASE Json(r)
    <2>1. Stack[asked[r].route][at[r]] = "json"
        BY <1>6 DEF Json, At
    <2>2. NextInStack(r) \/ Refuse(r, 500)
        BY <1>6 DEF Json
    <2>3. QED
        BY <1>4, <1>5, <2>1, <2>2 DEF Statuses
<1>7. CASE RateLimit(r)
    <2>1. Stack[asked[r].route][at[r]] = "rateLimit"
        BY <1>7 DEF RateLimit, At
    <2>2. NextInStack(r) \/ Refuse(r, 429)
        BY <1>7 DEF RateLimit
    <2>3. QED
        BY <1>4, <1>5, <2>1, <2>2 DEF Statuses
<1>8. CASE Authenticate(r)
    <2>1. \/ asked[r].key \in keys /\ NextInStack(r)
          \/ Refuse(r, 401)
          \/ Refuse(r, 500)
        BY <1>8 DEF Authenticate
    <2>2. QED
        BY <1>4, <1>5, <2>1 DEF Statuses
<1>9. QED
    BY <1>6, <1>7, <1>8

\* The handlers that answer once, last of all.
LEMMA AnswerInv ==
    ASSUME Inv, NEW r \in Requests, Welcome(r) \/ Controller(r) \/ ListDates(r) \/ ReadLog(r)
    PROVE  Inv'
<1>1. mode # "down" /\ pc[r] \in Active /\ UNCHANGED <<asked, at, folder, handled, hadKey>>
    BY DEF Welcome, Controller, ListDates, ReadLog, Handles, Active, historyVars
<1>2. faults' \in 0..MaxFaults
    BY FaultsBounded DEF Inv, Welcome, Controller, ListDates, ReadLog
<1>3. running \subseteq handled /\ (pc[r] = "handler" => r \in handled)
    BY DEF Inv, TypeOK, Progress
<1>4. running' \subseteq handled
    BY <1>3 DEF Welcome, Controller, ListDates, ReadLog, Handles
<1>5. PICK status \in {200, 500} : Conclude(r, status)
    BY DEF Welcome, Controller, ListDates, ReadLog
<1>6. QED
    BY <1>1, <1>2, <1>4, <1>5, ConcludeInv DEF Statuses

LEMMA CheckInputInv ==
    ASSUME Inv, NEW r \in Requests, CheckInput(r)
    PROVE  Inv'
<1>1. /\ mode # "down" /\ pc[r] = "handler" /\ asked[r].route \in LogRoutes
      /\ UNCHANGED <<asked, at, handled, hadKey, running, failedTask, signals, faults>>
    BY DEF CheckInput, Handles, historyVars
<1>2. TypeOK /\ Progress(r) /\ Authorized(r)
    BY DEF Inv
<1>3. /\ UNCHANGED <<day, keys>> /\ folders' \subseteq Days
      /\ \/ answer' = [answer EXCEPT ![r] = 400]
         \/ answer' = answer /\ BadInputs(r) = 0
    BY <1>2 DEF CheckInput, Send, Logged, worldVars, BadInputs, TypeOK
<1>4. answer'[r] \in {0, 400} /\ \A x \in Requests \ {r} : answer'[x] = answer[x]
    BY <1>1, <1>2, <1>3 DEF TypeOK, Progress
<1>5. answer' \in [Requests -> {0, 200, 400, 401, 404, 429, 500}]
    BY <1>2, <1>3 DEF TypeOK
<1>6. CASE BadInputs(r) > 1 \/ asked[r].date = "unparsable"
    <2>1. pc' = [pc EXCEPT ![r] = "rejected"] /\ mode' = "closing" /\ folder' = folder
        BY <1>1, <1>2, <1>6 DEF CheckInput, Goto, Shutdown, TypeOK
    <2>2. pc'[r] = "rejected" /\ \A x \in Requests \ {r} : pc'[x] = pc[x]
        BY <1>2, <2>1 DEF TypeOK
    <2>3. BadInputs(r) # 0
        BY <1>6 DEF BadInputs
    <2>4. answer'[r] = 400
        BY <1>2, <1>3, <2>3 DEF TypeOK
    <2>5. TypeOK'
        BY <1>1, <1>2, <1>3, <1>5, <2>1 DEF TypeOK, Ended
    <2>6. Progress(r)' /\ Authorized(r)'
        BY <1>1, <1>2, <2>2, <2>4 DEF Progress, Authorized
    <2>7. QED
        BY <1>1, <1>3, <1>4, <2>1, <2>2, <2>5, <2>6, StepOfOne DEF Active
<1>7. CASE ~ (BadInputs(r) > 1 \/ asked[r].date = "unparsable")
    <2>1. /\ mode' = mode /\ folder' \in [Requests -> Days]
          /\ \/ pc' = [pc EXCEPT ![r] = "access"]
             \/ pc' = [pc EXCEPT ![r] = "read"]
        BY <1>2, <1>7 DEF CheckInput, Goto, TypeOK
    <2>2. pc'[r] \in {"access", "read"} /\ \A x \in Requests \ {r} : pc'[x] = pc[x]
        BY <1>2, <2>1 DEF TypeOK
    <2>3. TypeOK'
        BY <1>1, <1>2, <1>3, <1>5, <2>1 DEF TypeOK, Ended
    <2>4. Progress(r)' /\ Authorized(r)'
        BY <1>1, <1>2, <1>4, <2>2 DEF Progress, Authorized
    <2>5. QED
        BY <1>1, <1>3, <1>4, <2>1, <2>2, <2>3, <2>4, StepOfOne DEF Active
<1>8. QED
    BY <1>6, <1>7

LEMMA AccessInv ==
    ASSUME Inv, NEW r \in Requests, Access(r)
    PROVE  Inv'
<1>1. /\ mode # "down" /\ pc[r] = "access"
      /\ UNCHANGED <<asked, at, folder, handled, hadKey, running, failedTask, signals, faults>>
    BY DEF Access, historyVars
<1>2. /\ TypeOK /\ Progress(r) /\ Authorized(r)
      /\ asked[r].route \in LogRoutes /\ answer[r] \in {0, 400, 404}
    BY <1>1 DEF Inv, Progress
<1>3. UNCHANGED <<day, keys>> /\ folders' \subseteq Days
    BY <1>2 DEF Access, Logged, worldVars, TypeOK
<1>4. CASE folder[r] \notin folders /\ answer[r] # 0
    <2>1. pc' = [pc EXCEPT ![r] = "rejected"] /\ mode' = "closing" /\ answer' = answer
        BY <1>1, <1>2, <1>4 DEF Access, Goto, Shutdown, TypeOK
    <2>2. pc'[r] = "rejected" /\ \A x \in Requests \ {r} : pc'[x] = pc[x]
        BY <1>2, <2>1 DEF TypeOK
    <2>3. TypeOK'
        BY <1>1, <1>2, <1>3, <2>1 DEF TypeOK, Ended
    <2>4. Progress(r)' /\ Authorized(r)'
        BY <1>1, <1>2, <1>4, <2>1, <2>2 DEF Progress, Authorized
    <2>5. QED
        BY <1>1, <1>3, <2>1, <2>2, <2>3, <2>4, StepOfOne DEF Active
<1>5. CASE ~ (folder[r] \notin folders /\ answer[r] # 0)
    <2>1. /\ mode' = mode /\ pc' = [pc EXCEPT ![r] = "read"]
          /\ answer' = answer \/ answer' = [answer EXCEPT ![r] = 404]
        BY <1>5 DEF Access, Goto, Send
    <2>2. /\ pc'[r] = "read" /\ answer'[r] \in {0, 400, 404}
          /\ \A x \in Requests \ {r} : pc'[x] = pc[x] /\ answer'[x] = answer[x]
        BY <1>2, <2>1 DEF TypeOK
    <2>3. TypeOK'
        <3>1. answer' \in [Requests -> {0, 200, 400, 401, 404, 429, 500}]
            BY <1>2, <2>1 DEF TypeOK
        <3>2. /\ pc' \in [Requests -> Ended \cup {"idle", "stack", "handler", "access", "read"}]
              /\ \A x \in Requests : pc'[x] = "stack" => at'[x] \in DOMAIN Stack[asked'[x].route]
            BY <1>1, <1>2, <2>1, <2>2 DEF TypeOK
        <3>3. QED
            BY <1>1, <1>2, <1>3, <2>1, <3>1, <3>2 DEF TypeOK
    <2>4. Progress(r)' /\ Authorized(r)'
        BY <1>1, <1>2, <2>2 DEF Progress, Authorized
    <2>5. QED
        BY <1>1, <1>3, <2>1, <2>2, <2>3, <2>4, StepOfOne DEF Active
<1>6. QED
    BY <1>4, <1>5

-----------------------------------------------------------------------------
(* The surroundings and the process *)

LEMMA ArriveInv ==
    ASSUME Inv, NEW r \in Requests, NEW q \in Inputs, Arrive(r, q)
    PROVE  Inv'
<1>1. /\ mode = "up" /\ pc[r] = "idle" /\ mode' = mode
      /\ asked' = [asked EXCEPT ![r] = q] /\ pc' = [pc EXCEPT ![r] = "stack"]
      /\ hadKey' = IF q.key \in keys THEN hadKey \cup {r} ELSE hadKey
      /\ UNCHANGED <<at, folder, answer, handled, faults>>
      /\ UNCHANGED <<day, folders, keys, running, failedTask, signals>>
    BY DEF Arrive, Goto, worldVars, processVars
<1>2. TypeOK /\ Progress(r) /\ Authorized(r)
    BY DEF Inv
<1>3. /\ asked'[r] = q /\ pc'[r] = "stack"
      /\ \A x \in Requests \ {r} : asked'[x] = asked[x] /\ pc'[x] = pc[x]
    BY <1>1, <1>2 DEF TypeOK
<1>4. at[r] = 1 /\ answer[r] = 0 /\ r \notin handled
    BY <1>1, <1>2 DEF Progress
<1>5. 1 \in DOMAIN Stack[q.route]
    <2>1. q.route \in Routes
        BY DEF Inputs
    <2>2. QED
        BY <2>1, StackShape
<1>6. TypeOK'
    <2>1. \A x \in Requests : pc'[x] = "stack" => at'[x] \in DOMAIN Stack[asked'[x].route]
        BY <1>1, <1>2, <1>3, <1>4, <1>5 DEF TypeOK
    <2>2. asked' \in [Requests -> Inputs] /\ hadKey' \subseteq Requests
        BY <1>1, <1>2 DEF TypeOK
    <2>3. QED
        BY <1>1, <1>2, <2>1, <2>2 DEF TypeOK
<1>7. ASSUME NEW x \in Requests PROVE (Progress(x) /\ KeyKnown(x) /\ Authorized(x))'
    <2>1. CASE x = r
        BY <1>1, <1>3, <1>4, <2>1 DEF Progress, KeyKnown, Authorized
    <2>2. CASE x # r
        <3>1. Progress(x) /\ KeyKnown(x) /\ Authorized(x)
            BY DEF Inv
        <3>2. asked'[x] = asked[x] /\ pc'[x] = pc[x] /\ (x \in hadKey => x \in hadKey')
            BY <1>1, <1>3, <2>2
        <3>3. x \in UnderWay' <=> x \in UnderWay
            BY <3>2 DEF UnderWay
        <3>4. QED
            BY <1>1, <3>1, <3>2, <3>3 DEF Progress, KeyKnown, Authorized
    <2>3. QED
        BY <2>1, <2>2
<1>8. QED
    BY <1>1, <1>6, <1>7 DEF Inv, StoppedForCause, CutOnlyBySignal

\* The process goes on, or begins to stop for another cause.
LEMMA OtherCauseInv ==
    ASSUME Inv, TypeOK', mode # "down", UNCHANGED <<requestVars, historyVars, keys>>,
           \/ UNCHANGED <<mode, signals, failedTask>>
           \/ mode' = "closing" /\ (signals' # 0 \/ failedTask' # {})
    PROVE  Inv'
<1>1. UNCHANGED <<asked, pc, at, folder, answer, handled, hadKey, keys>>
    BY DEF requestVars, historyVars
<1>2. UnderWay' = UnderWay
    BY <1>1 DEF UnderWay
<1>3. \A x \in Requests : (Progress(x) /\ KeyKnown(x) /\ Authorized(x))'
    <2>1. \A x \in Requests : Progress(x) /\ KeyKnown(x) /\ Authorized(x)
        BY DEF Inv
    <2>2. QED
        BY <1>1, <1>2, <2>1 DEF Progress, KeyKnown, Authorized
<1>4. StoppedForCause'
    BY <1>1 DEF Inv, StoppedForCause
<1>5. CutOnlyBySignal'
    BY <1>1 DEF Inv, CutOnlyBySignal
<1>6. QED
    BY <1>3, <1>4, <1>5 DEF Inv

\* The world and its keys may change also when the process is down.
LEMMA WorldInv ==
    ASSUME Inv, TypeOK',
           UNCHANGED <<requestVars, processVars, handled>>,
           hadKey \subseteq hadKey',
           \A x \in UnderWay : asked[x].key \in keys' \ keys => x \in hadKey'
    PROVE  Inv'
<1>1. UNCHANGED <<asked, pc, at, folder, answer, handled, mode, signals, failedTask>>
    BY DEF requestVars, processVars
<1>2. UnderWay' = UnderWay
    BY <1>1 DEF UnderWay
<1>3. ASSUME NEW x \in Requests PROVE (Progress(x) /\ KeyKnown(x) /\ Authorized(x))'
    <2>1. Progress(x) /\ KeyKnown(x) /\ Authorized(x)
        BY DEF Inv
    <2>2. QED
        BY <1>1, <1>2, <2>1 DEF Progress, KeyKnown, Authorized
<1>4. StoppedForCause' /\ CutOnlyBySignal'
    BY <1>1 DEF Inv, StoppedForCause, CutOnlyBySignal
<1>5. QED
    BY <1>3, <1>4 DEF Inv

\* Who is under way when the process ends, and was not answered, is cut off; that
\* is nobody unless there was a signal.
LEMMA ExitInv ==
    ASSUME Inv, ExitWhenClosed \/ ExitWhenRedisQuit
    PROVE  Inv'
<1>1. /\ mode = "closing" /\ mode' = "down" /\ running' = {}
      /\ pc' = [x \in Requests |-> IF x \in UnderWay THEN "cut" ELSE pc[x]]
      /\ UNCHANGED <<asked, at, folder, answer, day, folders, keys, failedTask, signals>>
      /\ UNCHANGED <<handled, hadKey, faults>>
    BY DEF ExitWhenClosed, ExitWhenRedisQuit, ProcessEnds, worldVars, historyVars
<1>2. TypeOK'
    <2>1. pc' \in [Requests -> Ended \cup {"idle", "stack", "handler", "access", "read"}]
        BY <1>1 DEF Inv, TypeOK, Ended
    <2>2. \A x \in Requests : pc'[x] # "stack"
        BY <1>1 DEF UnderWay, Ended
    <2>3. QED
        BY <1>1, <2>1, <2>2 DEF Inv, TypeOK
<1>3. ASSUME NEW x \in Requests PROVE (Progress(x) /\ KeyKnown(x) /\ Authorized(x))'
    <2>1. Progress(x) /\ Authorized(x)
        BY DEF Inv
    <2>2. x \notin UnderWay'
        BY <1>1 DEF UnderWay, Ended
    <2>3. Progress(x)'
        BY <1>1, <2>1 DEF Progress, UnderWay, Ended
    <2>4. QED
        BY <1>1, <2>1, <2>2, <2>3 DEF KeyKnown, Authorized
<1>4. StoppedForCause'
    BY <1>1 DEF Inv, StoppedForCause, UnderWay, Ended
<1>5. CutOnlyBySignal'
    <2> SUFFICES ASSUME signals = 0, NEW x \in Requests, pc'[x] # "idle" PROVE answer[x] # 0
        BY <1>1 DEF CutOnlyBySignal
    <2>1. Waiting = {}
        BY <1>1 DEF ExitWhenClosed, ExitWhenRedisQuit, Inv, TypeOK
    <2>2. CASE x \in UnderWay
        BY <2>1, <2>2 DEF Waiting
    <2>3. CASE x \notin UnderWay
        <3>1. pc[x] \in Ended
            BY <1>1, <2>3 DEF UnderWay
        <3>2. QED
            BY <1>1, <3>1 DEF Inv, Progress, Ended
    <2>4. QED
        BY <2>2, <2>3
<1>6. QED
    BY <1>2, <1>3, <1>4, <1>5 DEF Inv

LEMMA StepInv == Inv /\ [Next]_vars => Inv'
<1> SUFFICES ASSUME Inv, [Next]_vars PROVE Inv'
    OBVIOUS
<1>1. ASSUME NEW r \in Requests, Step(r) PROVE Inv'
    BY <1>1, MiddlewareInv, AnswerInv, CheckInputInv, AccessInv DEF Step
<1>2. ASSUME NEW r \in Requests, TasksEnd(r) PROVE Inv'
    <2>1. TypeOK'
        BY <1>2 DEF TasksEnd, Inv, TypeOK, requestVars, worldVars, historyVars
    <2>2. QED
        BY <1>2, <2>1, OtherCauseInv DEF TasksEnd, worldVars
<1>3. ASSUME NEW r \in Requests, TaskRejected(r) PROVE Inv'
    <2>1. mode' = "closing" /\ failedTask' = failedTask \cup {r} /\ mode # "down"
        BY <1>3 DEF TaskRejected, Shutdown, Inv, TypeOK
    <2>2. faults' \in 0..MaxFaults
        BY <1>3, FaultsBounded DEF TaskRejected, Inv
    <2>3. TypeOK'
        BY <1>3, <2>1, <2>2
        DEF TaskRejected, Inv, TypeOK, requestVars, worldVars, historyVars
    <2>4. QED
        BY <1>3, <2>1, <2>3, OtherCauseInv DEF TaskRejected, worldVars
<1>4. ASSUME NEW r \in Requests, NEW q \in Inputs, Arrive(r, q) PROVE Inv'
    BY <1>4, ArriveInv
<1>5. ASSUME NEW k \in Keys, StoreKey(k) PROVE Inv'
    <2>1. TypeOK'
        BY <1>5 DEF StoreKey, Inv, TypeOK, UnderWay, requestVars, processVars
    <2>2. QED
        BY <1>5, <2>1, WorldInv DEF StoreKey
<1>6. ASSUME NEW k \in Keys, RevokeKey(k) PROVE Inv'
    <2>1. TypeOK'
        BY <1>6 DEF RevokeKey, Inv, TypeOK, requestVars, processVars, historyVars
    <2>2. QED
        BY <1>6, <2>1, WorldInv DEF RevokeKey, historyVars
<1>7. CASE Midnight
    <2>1. TypeOK'
        BY <1>7, ServerConstants
        DEF Midnight, Inv, TypeOK, Days, requestVars, processVars, historyVars
    <2>2. QED
        BY <1>7, <2>1, WorldInv DEF Midnight, historyVars
<1>8. CASE LogWritten
    <2>1. TypeOK'
        BY <1>8 DEF LogWritten, Logged, Inv, TypeOK, requestVars, processVars, historyVars
    <2>2. QED
        BY <1>8, <2>1, WorldInv DEF LogWritten, Logged, historyVars
<1>9. CASE Signal
    <2>1. mode' = "closing" /\ signals' = signals + 1 /\ mode # "down" /\ signals \in Nat
        BY <1>9, ServerConstants DEF Signal, Shutdown, Inv, TypeOK
    <2>2. TypeOK'
        BY <1>9, <2>1, ServerConstants
        DEF Signal, Inv, TypeOK, requestVars, worldVars, historyVars
    <2>3. QED
        BY <1>9, <2>1, <2>2, OtherCauseInv DEF Signal, worldVars
<1>10. CASE ExitWhenClosed \/ ExitWhenRedisQuit
    BY <1>10, ExitInv
<1>11. CASE UNCHANGED vars
    <2>1. TypeOK'
        BY <1>11 DEF vars, Inv, TypeOK, requestVars, worldVars, processVars, historyVars
    <2>2. QED
        BY <1>11, <2>1, WorldInv DEF vars, worldVars, historyVars
<1>12. QED
    BY <1>1, <1>2, <1>3, <1>4, <1>5, <1>6, <1>7, <1>8, <1>9, <1>10, <1>11 DEF Next

LEMMA Invariance == Spec => []Inv
<1>1. Init => Inv
    BY InitInv
<1>2. Inv /\ [Next]_vars => Inv'
    BY StepInv
<1>3. QED
    BY <1>1, <1>2, PTL DEF Spec

\* The requests, the log folders, the keys and the process have their types.
THEOREM TypeCorrect == Spec => []TypeOK
<1>1. Inv => TypeOK
    BY DEF Inv
<1>2. QED
    BY <1>1, Invariance, PTL

\* No handler behind authenticate runs for a request that never had a stored key,
\* and none for a request that a middleware refused.
THEOREM OnlyAuthorized == Spec => []HandledWasAuthorized
<1>1. Inv => HandledWasAuthorized
    <2> SUFFICES ASSUME Inv, NEW r \in handled
                 PROVE  /\ asked[r].route \in Protected => r \in hadKey
                        /\ answer[r] \notin {401, 429}
        BY DEF HandledWasAuthorized
    <2>1. r \in Requests
        BY DEF Inv, TypeOK
    <2>2. Authorized(r)
        BY <2>1 DEF Inv
    <2>3. QED
        BY <2>2 DEF Authorized
<1>2. QED
    BY <1>1, Invariance, PTL

\* Without a signal the process stops because a log request was answered and went
\* on, or because a task failed.
THEOREM StopsForCause == Spec => []StoppedForCause
<1>1. Inv => StoppedForCause
    BY DEF Inv
<1>2. QED
    BY <1>1, Invariance, PTL

\* Without a signal everyone who asked is answered before the process ends.
THEOREM NobodyCutOff == Spec => []CutOnlyBySignal
<1>1. Inv => CutOnlyBySignal
    BY DEF Inv
<1>2. QED
    BY <1>1, Invariance, PTL
=============================================================================
