---------------------------- MODULE WebhookStats ----------------------------
(***************************************************************************)
(* The statistics of one client: the real-time counters that a task keeps  *)
(* in Redis (WebhooksService.updateRealtimeStats), and the figures that    *)
(* GET /stats/:subscriptionId computes from the delivery records           *)
(* (WebhookDeliveryRepository.getDeliveryAnalytics).                       *)
(*                                                                         *)
(* The counters are one hash, that expires a day after its last update; a  *)
(* MULTI of four commands is one step.  The figures are four queries under *)
(* way together, each of which sees the records of another moment.         *)
(***************************************************************************)
EXTENDS Integers, FiniteSets

CONSTANTS
    Deliveries,     \* the deliveries of the client, one task each
    Types,
    eventType,      \* of each delivery
    Day,            \* 86400 seconds
    MaxTime,        \* bounds: the clock,
    MaxWrites       \*         and how often a record changes its status

ASSUME StatsConstants ==
    /\ IsFiniteSet(Deliveries) /\ IsFiniteSet(Types)
    /\ eventType \in [Deliveries -> Types]
    /\ Day \in Nat \ {0} /\ MaxTime \in Nat /\ MaxWrites \in Nat

VARIABLES
    clock,
    task, now,      \* the task of each delivery, and its Date.now()
    total,          \* the hash: total_events,
    ofType,         \*           event_type:<type>
    expiresAt,      \* when the hash goes
    timeline,       \* the sorted set of milliseconds
    counted,        \* history: when each delivery was counted, or -1
    status,         \* of the delivery records
    query,          \* the counts a request for the figures waits for
    figures,        \* and those it got
    pc,
    writes,         \* writes of the records so far,
    overlap         \* history: and since the first of the counts was taken

countVars == <<now, total, ofType, expiresAt, timeline, counted>>
recordVars == <<status, writes, overlap>>
readVars  == <<query, figures, pc>>
vars      == <<clock, task, countVars, recordVars, readVars>>

Figures == {"total", "success", "failed", "pending"}
\* What is left of the hash.
Expired == clock >= expiresAt
Total   == IF Expired THEN 0 ELSE total
OfType(t) == IF Expired THEN 0 ELSE ofType[t]

TypeOK ==
    /\ clock \in 0..MaxTime
    /\ task \in [Deliveries -> {"create", "stats", "exec", "done"}]
    /\ now \in [Deliveries -> 0..MaxTime]
    /\ total \in Nat /\ ofType \in [Types -> Nat]
    /\ expiresAt \in 0..(MaxTime + Day)
    /\ timeline \subseteq 0..MaxTime
    /\ counted \in [Deliveries -> -1..MaxTime]
    /\ status \in [Deliveries -> {"absent", "success", "failed", "pending"}]
    /\ query \subseteq Figures
    /\ figures \in [Figures -> 0..Cardinality(Deliveries)]
    /\ pc \in {"idle", "counting", "average", "answered", "error"}
    /\ writes \in Nat /\ overlap \in 0..writes

Init ==
    /\ clock = 0
    /\ task = [d \in Deliveries |-> "create"]
    /\ now = [d \in Deliveries |-> 0]
    /\ total = 0
    /\ ofType = [t \in Types |-> 0]
    /\ expiresAt = 0
    /\ timeline = {}
    /\ counted = [d \in Deliveries |-> -1]
    /\ status = [d \in Deliveries |-> "absent"]
    /\ query = {}
    /\ figures = [f \in Figures |-> 0]
    /\ pc = "idle"
    /\ writes = 0 /\ overlap = 0

Tick ==
    /\ clock < MaxTime
    /\ clock' = clock + 1
    /\ UNCHANGED <<task, countVars, recordVars, readVars>>

-----------------------------------------------------------------------------
(* The records and the counters *)

Write(d, s) ==
    /\ status' = [status EXCEPT ![d] = s]
    /\ writes' = writes + 1
    /\ overlap' = IF pc = "counting" /\ query # Figures THEN overlap + 1 ELSE overlap

Create(d, s) ==
    /\ task[d] = "create"
    /\ Write(d, s) \/ UNCHANGED recordVars
    /\ task' = [task EXCEPT ![d] = "stats"]
    /\ UNCHANGED <<clock, countVars, readVars>>

CreateQueued(d) == Create(d, "queued")

\* createDelivery, and the message on its way; it swallows an error, and the
\* delivery is counted without a record.
CreateDelivery(d) == Create(d, "pending")

\* The consumers and the requests that retry the delivery.
SetStatus(d, s) ==
    /\ status[d] \notin {"absent", s} /\ writes < MaxWrites
    /\ Write(d, s)
    /\ UNCHANGED <<clock, task, countVars, readVars>>

\* updateRealtimeStats reads the clock and sends the MULTI...
BeginUpdate(d) ==
    /\ task[d] = "stats"
    /\ task' = [task EXCEPT ![d] = "exec"]
    /\ now' = [now EXCEPT ![d] = clock]
    /\ UNCHANGED <<clock, total, ofType, expiresAt, timeline, counted, recordVars, readVars>>

Count(d, expiry) ==
    /\ task[d] = "exec"
    /\ task' = [task EXCEPT ![d] = "done"]
    /\ total' = Total + 1
    /\ ofType' = [t \in Types |-> OfType(t) + IF t = eventType[d] THEN 1 ELSE 0]
    /\ timeline' = timeline \cup {now[d]}
    /\ expiresAt' = expiry
    /\ counted' = [counted EXCEPT ![d] = clock]
    /\ UNCHANGED <<clock, now, recordVars, readVars>>

ExpireOnce(d)    == Count(d, IF Expired THEN clock + Day ELSE expiresAt)

\* ...which Redis runs as one: both counters, the timeline, and a new day to live
\* for the hash, but none for the timeline.
UpdateStats(d) == Count(d, clock + Day)

\* The MULTI is lost, and the error swallowed.
UpdateFails(d) ==
    /\ task[d] = "exec"
    /\ task' = [task EXCEPT ![d] = "done"]
    /\ UNCHANGED <<clock, countVars, recordVars, readVars>>

-----------------------------------------------------------------------------
(* The figures *)

GetStats ==
    /\ pc = "idle"
    /\ pc' = "counting"
    /\ query' = Figures
    /\ UNCHANGED <<clock, task, countVars, recordVars, figures>>

CountFailed(f) ==
    {d \in Deliveries : CASE f = "total"  -> status[d] # "absent"
                          [] f = "failed" -> status[d] \in {"failed", "pending"}
                          [] OTHER        -> status[d] = f}

\* What a count selects.
Matching(f) == {d \in Deliveries : IF f = "total" THEN status[d] # "absent" ELSE status[d] = f}

\* countDocuments: the four of them end in any order.
CountDocuments(f) ==
    /\ pc = "counting" /\ f \in query
    /\ query' = query \ {f}
    /\ figures' = [figures EXCEPT ![f] = Cardinality(Matching(f))]
    /\ overlap' = IF query = Figures THEN 0 ELSE overlap
    /\ pc' = IF query' = {} THEN "average" ELSE pc
    /\ UNCHANGED <<clock, task, countVars, status, writes>>

\* The aggregate, and with it the answer; or one of the queries rejects, and the
\* answer is an error.
Answer ==
    /\ pc = "average"
    /\ pc' = "answered"
    /\ UNCHANGED <<clock, task, countVars, recordVars, query, figures>>

StatsFail ==
    /\ pc \in {"counting", "average"}
    /\ pc' = "error"
    /\ query' = {}
    /\ figures' = [f \in Figures |-> 0]
    /\ UNCHANGED <<clock, task, countVars, recordVars>>

Next ==
    \/ Tick
    \/ \E d \in Deliveries :
         \/ CreateDelivery(d) \/ BeginUpdate(d) \/ UpdateStats(d) \/ UpdateFails(d)
         \/ \E s \in {"success", "failed", "pending"} : SetStatus(d, s)
    \/ GetStats
    \/ \E f \in Figures : CountDocuments(f)
    \/ Answer \/ StatsFail

Spec == Init /\ [][Next]_vars

-----------------------------------------------------------------------------
(* Properties *)

\* An event counted within the last day is still counted, in the total and for its
\* type, although each update moves the expiry; and the timeline, which keeps one
\* member for the events of one millisecond and never expires, shows no more of
\* that day than was counted.
RecentCounted ==
    LET recent == {d \in Deliveries : counted[d] >= 0 /\ counted[d] > clock - Day}
        shown  == {t \in timeline : t > clock - Day}
    IN  /\ Cardinality(shown) <= Cardinality(recent) /\ Cardinality(recent) <= Total
        /\ \A t \in Types : Cardinality({d \in recent : eventType[d] = t}) <= OfType(t)

\* The four counts are taken one by one while records change: the figures of an
\* answer add up but for the writes between the first and the last count.
FiguresAddUp ==
    pc = "answered" =>
      LET sum == figures["success"] + figures["failed"] + figures["pending"]
      IN  (figures["total"] - sum) \in -overlap..overlap
=============================================================================
