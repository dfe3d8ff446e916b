------------------------- MODULE WebhookStatsProofs -------------------------
(***************************************************************************)
(* Proofs about WebhookStats, for any finite set of deliveries and types,  *)
(* and any day: what the counters still show, and by how much the figures  *)
(* of an answer can be off.                                                *)
(***************************************************************************)
EXTENDS WebhookStats, FiniteSetTheorems, TLAPS

\* A delivery is counted by the last step of its task, and stored by the first.
CountedByTask ==
    \A d \in Deliveries :
        /\ task[d] # "done" => counted[d] = -1
        /\ task[d] = "create" => status[d] = "absent"
        /\ now[d] <= clock /\ counted[d] <= clock

\* The hash lives for a day after each count.
OutlivesCounts ==
    \A d \in Deliveries : counted[d] >= 0 => counted[d] + Day <= expiresAt

\* A member of the timeline is the time that a delivery counted since read.
TimelineCounted ==
    \A t \in timeline : \E d \in Deliveries : now[d] = t /\ counted[d] >= t

Recent == {d \in Deliveries : counted[d] >= 0 /\ counted[d] > clock - Day}
RecentOf(t) == {d \in Recent : eventType[d] = t}
Shown == {t \in timeline : t > clock - Day}

RecentInTotal == Cardinality(Recent) <= Total
RecentInTypes == \A t \in Types : Cardinality(RecentOf(t)) <= OfType(t)

CountInv ==
    /\ TypeOK /\ CountedByTask /\ OutlivesCounts
    /\ TimelineCounted /\ RecentInTotal /\ RecentInTypes

\* How far a count that was taken is from what it would be now.
Drift(f) == IF f \in query THEN 0 ELSE figures[f] - Cardinality(Matching(f))

\* While the counts are taken, each write moves one record, and the drifts, taken
\* together as the figures of an answer are, by one at most.
DriftBounded ==
    pc = "counting" =>
        (Drift("total") - (Drift("success") + Drift("failed") + Drift("pending")))
            \in -overlap..overlap

\* Once all are taken nothing changes them.
Settled ==
    pc \in {"average", "answered"} =>
        (figures["total"] - (figures["success"] + figures["failed"] + figures["pending"]))
            \in -overlap..overlap

FigureInv == DriftBounded /\ Settled

-----------------------------------------------------------------------------
(* Type correctness *)

\* What the records, the counters and the hash may be.
LEMMA SetFinite ==
    ASSUME NEW S \in SUBSET Deliveries
    PROVE  IsFiniteSet(S) /\ Cardinality(S) \in 0..Cardinality(Deliveries)
BY StatsConstants, FS_Subset, FS_CardinalityType

LEMMA InitType == Init => TypeOK
<1>1. Cardinality(Deliveries) \in Nat
    BY StatsConstants, FS_CardinalityType
<1>2. QED
    BY <1>1, StatsConstants DEF Init, TypeOK, Figures

\* A write is seen by the counts that are still to come.
LEMMA Writes ==
    ASSUME TypeOK, NEW d \in Deliveries, NEW s \in {"success", "failed", "pending"}, Write(d, s)
    PROVE  /\ status' \in [Deliveries -> {"absent", "success", "failed", "pending"}]
           /\ writes' \in Nat /\ overlap' \in 0..writes'
BY DEF TypeOK, Write

LEMMA HashType ==
    ASSUME TypeOK
    PROVE  Total \in Nat /\ \A t \in Types : OfType(t) \in Nat
BY DEF TypeOK, Total, OfType

LEMMA NextType == TypeOK /\ [Next]_vars => TypeOK'
<1> SUFFICES ASSUME TypeOK, [Next]_vars PROVE TypeOK'
    OBVIOUS
<1> USE DEF countVars, recordVars, readVars
<1>1. CASE Tick
    <2>1. clock' \in 0..MaxTime
        BY <1>1, StatsConstants DEF Tick, TypeOK
    <2>2. QED
        BY <1>1, <2>1 DEF Tick, TypeOK
<1>2. ASSUME NEW d \in Deliveries, CreateDelivery(d) PROVE TypeOK'
    <2>1. /\ status' \in [Deliveries -> {"absent", "success", "failed", "pending"}]
          /\ writes' \in Nat /\ overlap' \in 0..writes'
        BY <1>2, Writes DEF CreateDelivery, Create, TypeOK
    <2>2. QED
        BY <1>2, <2>1 DEF CreateDelivery, Create, TypeOK
<1>3. ASSUME NEW d \in Deliveries, BeginUpdate(d) PROVE TypeOK'
    BY <1>3 DEF BeginUpdate, TypeOK
<1>4. ASSUME NEW d \in Deliveries, UpdateStats(d) PROVE TypeOK'
    <2>1. total' \in Nat /\ ofType' \in [Types -> Nat]
        BY <1>4, HashType DEF UpdateStats, Count
    <2>2. expiresAt' \in 0..(MaxTime + Day)
        <3>1. clock \in 0..MaxTime /\ expiresAt' = clock + Day
            BY <1>4 DEF UpdateStats, Count, TypeOK
        <3>2. QED
            BY <3>1, StatsConstants
    <2>3. timeline' \subseteq 0..MaxTime
        BY <1>4 DEF UpdateStats, Count, TypeOK
    <2>4. counted' \in [Deliveries -> -1..MaxTime]
        <3>1. clock \in -1..MaxTime /\ counted' = [counted EXCEPT ![d] = clock]
            BY <1>4, StatsConstants DEF UpdateStats, Count, TypeOK
        <3>2. QED
            BY <3>1 DEF TypeOK
    <2>5. QED
        BY <1>4, <2>1, <2>2, <2>3, <2>4 DEF UpdateStats, Count, TypeOK
<1>5. ASSUME NEW d \in Deliveries, UpdateFails(d) PROVE TypeOK'
    BY <1>5 DEF UpdateFails, TypeOK
<1>6. ASSUME NEW d \in Deliveries, NEW s \in {"success", "failed", "pending"}, SetStatus(d, s)
      PROVE  TypeOK'
    BY <1>6, Writes DEF SetStatus, TypeOK
<1>7. CASE GetStats
    BY <1>7 DEF GetStats, TypeOK
<1>8. ASSUME NEW f \in Figures, CountDocuments(f) PROVE TypeOK'
    <2>1. Cardinality(Matching(f)) \in 0..Cardinality(Deliveries)
        BY SetFinite DEF Matching
    <2>2. figures' \in [Figures -> 0..Cardinality(Deliveries)]
        BY <1>8, <2>1 DEF CountDocuments, TypeOK
    <2>3. overlap' \in 0..writes'
        BY <1>8 DEF CountDocuments, TypeOK
    <2>4. QED
        BY <1>8, <2>2, <2>3 DEF CountDocuments, TypeOK
<1>9. CASE Answer
    BY <1>9 DEF Answer, TypeOK
<1>10. CASE StatsFail
    <2>1. Cardinality(Deliveries) \in Nat
        BY StatsConstants, FS_CardinalityType
    <2>2. QED
        BY <1>10, <2>1 DEF StatsFail, TypeOK
<1>11. CASE UNCHANGED vars
    BY <1>11 DEF vars, TypeOK
<1>12. QED
    BY <1>1, <1>2, <1>3, <1>4, <1>5, <1>6, <1>7, <1>8, <1>9, <1>10, <1>11 DEF Next

\* The counters, the records and the figures have their types: no figure exceeds
\* the number of deliveries, and no expiry lies more than a day ahead.
THEOREM TypeCorrect == Spec => []TypeOK
BY InitType, NextType, PTL DEF Spec

-----------------------------------------------------------------------------
(* The counters *)

LEMMA RecentFinite ==
    /\ IsFiniteSet(Recent) /\ Cardinality(Recent) \in Nat
    /\ \A t : IsFiniteSet(RecentOf(t)) /\ Cardinality(RecentOf(t)) \in Nat
<1>1. Recent \in SUBSET Deliveries /\ \A t : RecentOf(t) \in SUBSET Deliveries
    BY DEF Recent, RecentOf
<1>2. QED
    BY <1>1, StatsConstants, FS_Subset, FS_CardinalityType

\* Where nothing is counted, the recent ones are at most those there were.
LEMMA Fewer ==
    ASSUME NEW S \in SUBSET Deliveries, NEW T \in SUBSET S
    PROVE  Cardinality(T) <= Cardinality(S)
BY SetFinite, FS_Subset

LEMMA OneMore ==
    ASSUME NEW S \in SUBSET Deliveries, NEW d \in Deliveries
    PROVE  Cardinality(S \cup {d}) <= Cardinality(S) + 1
<1>1. IsFiniteSet(S) /\ Cardinality(S) \in Nat
    BY SetFinite
<1>2. Cardinality(S \cup {d}) \in {Cardinality(S), Cardinality(S) + 1}
    BY <1>1, FS_AddElement
<1>3. QED
    BY <1>1, <1>2

LEMMA InitCount == Init => CountInv
<1> SUFFICES ASSUME Init PROVE CountInv
    OBVIOUS
<1>1. TypeOK
    BY InitType
<1>2. Recent = {} /\ \A t : RecentOf(t) = {}
    BY DEF Init, Recent, RecentOf
<1>3. Total \in Nat /\ \A t \in Types : OfType(t) \in Nat
    BY <1>1, HashType
<1>4. RecentInTotal /\ RecentInTypes
    BY <1>2, <1>3, FS_EmptySet DEF RecentInTotal, RecentInTypes
<1>5. CountedByTask /\ OutlivesCounts /\ TimelineCounted
    BY DEF Init, CountedByTask, OutlivesCounts, TimelineCounted
<1>6. QED
    BY <1>1, <1>4, <1>5 DEF CountInv

\* Time passes: what is counted grows older, and all of it is older than a day
\* when the hash goes.
LEMMA TickCount ==
    ASSUME CountInv, Tick
    PROVE  CountInv'
<1>1. TypeOK /\ TypeOK' /\ CountedByTask /\ OutlivesCounts /\ TimelineCounted
      /\ RecentInTotal /\ RecentInTypes
    BY NextType DEF CountInv, Next
<1>2. /\ clock' = clock + 1
      /\ UNCHANGED <<task, now, total, ofType, expiresAt, timeline, counted, status>>
    BY DEF Tick, countVars, recordVars
<1>3. clock \in Nat /\ Day \in Nat /\ expiresAt \in Nat
      /\ \A d \in Deliveries : counted[d] \in Int /\ now[d] \in Int
    BY <1>1, StatsConstants DEF TypeOK
<1>4. CountedByTask' /\ OutlivesCounts' /\ TimelineCounted'
    BY <1>1, <1>2, <1>3 DEF CountedByTask, OutlivesCounts, TimelineCounted
<1>5. Recent' \subseteq Recent /\ \A t : RecentOf(t)' \subseteq RecentOf(t)
    BY <1>2, <1>3 DEF Recent, RecentOf
<1>6. Cardinality(Recent') <= Cardinality(Recent)
      /\ \A t : Cardinality(RecentOf(t)') <= Cardinality(RecentOf(t))
    <2>1. Recent \in SUBSET Deliveries /\ \A t : RecentOf(t) \in SUBSET Deliveries
        BY DEF Recent, RecentOf
    <2>2. QED
        BY <1>5, <2>1, Fewer
<1>7. CASE Expired'
    <2>1. Recent' = {} /\ \A t : RecentOf(t)' = {}
        BY <1>1, <1>2, <1>3, <1>7 DEF Recent, RecentOf, Expired, OutlivesCounts
    <2>2. Total' = 0 /\ \A t \in Types : OfType(t)' = 0
        BY <1>7 DEF Total, OfType
    <2>3. Cardinality({}) = 0
        BY FS_EmptySet
    <2>4. RecentInTotal' /\ RecentInTypes'
        BY <2>1, <2>2, <2>3 DEF RecentInTotal, RecentInTypes
    <2>5. QED
        BY <1>1, <1>4, <2>4 DEF CountInv
<1>8. CASE ~Expired'
    <2>1. ~Expired
        BY <1>2, <1>3, <1>8 DEF Expired
    <2>2. Total' = Total /\ \A t \in Types : OfType(t)' = OfType(t)
        BY <1>2, <1>8, <2>1 DEF Total, OfType
    <2>3. /\ Cardinality(Recent) \in Nat /\ Cardinality(Recent') \in Nat /\ Total \in Nat
          /\ \A t \in Types : /\ Cardinality(RecentOf(t)) \in Nat /\ OfType(t) \in Nat
                              /\ Cardinality(RecentOf(t)') \in Nat
        <3>1. Recent' \in SUBSET Deliveries /\ \A t : RecentOf(t)' \in SUBSET Deliveries
            BY DEF Recent, RecentOf
        <3>2. QED
            BY <1>1, <3>1, RecentFinite, HashType, SetFinite
    <2>4. RecentInTotal' /\ RecentInTypes'
        BY <1>1, <1>6, <2>2, <2>3 DEF RecentInTotal, RecentInTypes
    <2>5. QED
        BY <1>1, <1>4, <2>4 DEF CountInv
<1>9. QED
    BY <1>7, <1>8

\* A delivery is counted: both counters grow with what is recent.
LEMMA UpdateCount ==
    ASSUME CountInv, NEW d \in Deliveries, UpdateStats(d)
    PROVE  CountInv'
<1>1. TypeOK /\ TypeOK' /\ CountedByTask /\ OutlivesCounts /\ TimelineCounted
      /\ RecentInTotal /\ RecentInTypes
    BY NextType DEF CountInv, Next
<1>2. /\ task[d] = "exec" /\ task' = [task EXCEPT ![d] = "done"]
      /\ total' = Total + 1 /\ timeline' = timeline \cup {now[d]}
      /\ ofType' = [t \in Types |-> OfType(t) + IF t = eventType[d] THEN 1 ELSE 0]
      /\ expiresAt' = clock + Day /\ counted' = [counted EXCEPT ![d] = clock]
      /\ UNCHANGED <<clock, now, status>>
    BY DEF UpdateStats, Count, recordVars
<1>3. clock \in Nat /\ Day \in Nat \ {0} /\ expiresAt \in Nat
      /\ \A e \in Deliveries : counted[e] \in Int /\ now[e] \in Int
    BY <1>1, StatsConstants DEF TypeOK
<1>4. \A e \in Deliveries : counted'[e] = IF e = d THEN clock ELSE counted[e]
    BY <1>1, <1>2 DEF TypeOK
<1>5. CountedByTask'
    BY <1>1, <1>2, <1>3, <1>4 DEF CountedByTask, TypeOK
<1>6. OutlivesCounts'
    BY <1>1, <1>2, <1>3, <1>4 DEF OutlivesCounts, CountedByTask
<1>7. TimelineCounted'
    <2>1. ASSUME NEW t \in timeline PROVE \E e \in Deliveries : now[e] = t /\ counted'[e] >= t
        <3>1. PICK e \in Deliveries : now[e] = t /\ counted[e] >= t
            BY <1>1 DEF TimelineCounted
        <3>2. t \in 0..MaxTime
            BY <1>1 DEF TypeOK
        <3>3. e # d
            BY <1>1, <1>2, <3>1, <3>2 DEF CountedByTask
        <3>4. QED
            BY <1>4, <3>1, <3>3
    <2>2. now[d] <= clock
        BY <1>1 DEF CountedByTask
    <2>3. QED
        BY <1>2, <1>4, <2>1, <2>2 DEF TimelineCounted
<1>8. Recent' = Recent \cup {d}
    BY <1>2, <1>3, <1>4 DEF Recent
<1>9. ~Expired'
    BY <1>2, <1>3 DEF Expired
<1>10. RecentInTotal'
    <2>1. Total' = Total + 1 /\ Total \in Nat
        BY <1>1, <1>2, <1>9, HashType DEF Total
    <2>2. Cardinality(Recent') <= Cardinality(Recent) + 1 /\ Cardinality(Recent) \in Nat
          /\ Cardinality(Recent') \in Nat
        <3>1. Recent \in SUBSET Deliveries /\ Recent' \in SUBSET Deliveries
            BY DEF Recent
        <3>2. QED
            BY <1>8, <3>1, OneMore, SetFinite
    <2>3. QED
        BY <1>1, <2>1, <2>2 DEF RecentInTotal
<1>11. RecentInTypes'
    <2> SUFFICES ASSUME NEW t \in Types PROVE Cardinality(RecentOf(t)') <= OfType(t)'
        BY DEF RecentInTypes
    <2>1. OfType(t)' = OfType(t) + (IF t = eventType[d] THEN 1 ELSE 0)
        BY <1>2, <1>9 DEF OfType
    <2>2. RecentOf(t)' = IF t = eventType[d] THEN RecentOf(t) \cup {d} ELSE RecentOf(t)
        BY <1>8, <1>4 DEF RecentOf
    <2>3. RecentOf(t) \in SUBSET Deliveries /\ RecentOf(t)' \in SUBSET Deliveries
        BY DEF RecentOf, Recent
    <2>4. /\ Cardinality(RecentOf(t)) \in Nat /\ Cardinality(RecentOf(t)') \in Nat
          /\ OfType(t) \in Nat /\ Cardinality(RecentOf(t)) <= OfType(t)
        BY <1>1, <2>3, SetFinite, HashType DEF RecentInTypes
    <2>5. CASE t = eventType[d]
        <3>1. Cardinality(RecentOf(t)') <= Cardinality(RecentOf(t)) + 1
            BY <2>2, <2>3, <2>5, OneMore
        <3>2. QED
            BY <2>1, <2>4, <2>5, <3>1
    <2>6. CASE t # eventType[d]
        BY <2>1, <2>2, <2>4, <2>6
    <2>7. QED
        BY <2>5, <2>6
<1>12. QED
    BY <1>1, <1>5, <1>6, <1>7, <1>10, <1>11 DEF CountInv

\* No other step touches the counters; one reads the clock.
LEMMA OtherCount ==
    ASSUME CountInv, TypeOK',
           UNCHANGED <<clock, total, ofType, expiresAt, timeline, counted>>,
           CountedByTask',
           \A d \in Deliveries : now'[d] = now[d] \/ counted[d] = -1
    PROVE  CountInv'
<1>1. TypeOK /\ OutlivesCounts /\ TimelineCounted /\ RecentInTotal /\ RecentInTypes
    BY DEF CountInv
<1>2. /\ Recent' = Recent
      /\ Total' = Total
      /\ \A t : RecentOf(t)' = RecentOf(t) /\ OfType(t)' = OfType(t)
    BY DEF Recent, RecentOf, Total, OfType, Expired
<1>3. RecentInTotal' /\ RecentInTypes' /\ OutlivesCounts'
    BY <1>1, <1>2 DEF RecentInTotal, RecentInTypes, OutlivesCounts
<1>4. ASSUME NEW t \in timeline PROVE \E e \in Deliveries : now'[e] = t /\ counted[e] >= t
    <2>1. PICK e \in Deliveries : now[e] = t /\ counted[e] >= t
        BY <1>1 DEF TimelineCounted
    <2>2. t \in 0..MaxTime
        BY <1>1 DEF TypeOK
    <2>3. counted[e] # -1
        BY <2>1, <2>2
    <2>4. QED
        BY <2>1, <2>3
<1>5. TimelineCounted'
    BY <1>4 DEF TimelineCounted
<1>6. QED
    BY <1>3, <1>5 DEF CountInv

LEMMA NextCount == CountInv /\ [Next]_vars => CountInv'
<1> SUFFICES ASSUME CountInv, [Next]_vars PROVE CountInv'
    OBVIOUS
<1>t. TypeOK /\ TypeOK' /\ CountedByTask
    BY NextType DEF CountInv
<1> USE DEF countVars, recordVars, readVars
<1>1. CASE Tick
    BY <1>1, TickCount
<1>2. ASSUME NEW d \in Deliveries, UpdateStats(d) PROVE CountInv'
    BY <1>2, UpdateCount
<1>3. ASSUME NEW d \in Deliveries, CreateDelivery(d) PROVE CountInv'
    <2>1. UNCHANGED <<clock, countVars>> /\ task' = [task EXCEPT ![d] = "stats"] /\ task[d] = "create"
          /\ \A e \in Deliveries : e # d => status'[e] = status[e]
        BY <1>3, <1>t DEF CreateDelivery, Create, Write, TypeOK
    <2>2. CountedByTask'
        BY <1>t, <2>1 DEF CountedByTask, TypeOK
    <2>3. QED
        BY <1>t, <2>1, <2>2, OtherCount
<1>4. ASSUME NEW d \in Deliveries, BeginUpdate(d) PROVE CountInv'
    <2>1. /\ task' = [task EXCEPT ![d] = "exec"] /\ task[d] = "stats"
          /\ now' = [now EXCEPT ![d] = clock] /\ status' = status
          /\ UNCHANGED <<clock, total, ofType, expiresAt, timeline, counted>>
        BY <1>4 DEF BeginUpdate
    <2>2. clock \in Nat /\ counted[d] = -1 /\ \A e \in Deliveries : e # d => now'[e] = now[e]
        BY <1>t, <2>1 DEF CountedByTask, TypeOK
    <2>3. CountedByTask'
        BY <1>t, <2>1, <2>2 DEF CountedByTask, TypeOK
    <2>4. QED
        BY <1>t, <2>1, <2>2, <2>3, OtherCount
<1>5. ASSUME NEW d \in Deliveries, UpdateFails(d) PROVE CountInv'
    <2>1. UNCHANGED <<clock, countVars, status>> /\ task' = [task EXCEPT ![d] = "done"] /\ task[d] = "exec"
        BY <1>5 DEF UpdateFails
    <2>2. CountedByTask'
        BY <1>t, <2>1 DEF CountedByTask, TypeOK
    <2>3. QED
        BY <1>t, <2>1, <2>2, OtherCount
<1>6. ASSUME NEW d \in Deliveries, NEW s \in {"success", "failed", "pending"}, SetStatus(d, s)
      PROVE  CountInv'
    <2>1. UNCHANGED <<clock, task, countVars>> /\ status[d] # "absent"
          /\ \A e \in Deliveries : e # d => status'[e] = status[e]
        BY <1>6, <1>t DEF SetStatus, Write, TypeOK
    <2>2. CountedByTask'
        BY <1>t, <2>1 DEF CountedByTask, TypeOK
    <2>3. QED
        BY <1>t, <2>1, <2>2, OtherCount
<1>7. CASE UNCHANGED <<clock, task, countVars, status>>
    <2>1. CountedByTask'
        BY <1>t, <1>7 DEF CountedByTask
    <2>2. QED
        BY <1>t, <1>7, <2>1, OtherCount
<1>8. QED
    BY <1>1, <1>2, <1>3, <1>4, <1>5, <1>6, <1>7
    DEF Next, GetStats, CountDocuments, Answer, StatsFail, vars

\* For any number of events and whatever expires in between: what was counted in
\* the last day is in the total and in the counter of its type, and the timeline
\* shows no more of that day than was counted.
THEOREM LastDayIsCounted == Spec => []RecentCounted
<1>1. ASSUME CountInv PROVE Cardinality(Shown) <= Cardinality(Recent)
    <2>1. TypeOK /\ TimelineCounted
        BY <1>1 DEF CountInv
    <2>2. clock \in Nat /\ Day \in Nat \ {0} /\ timeline \subseteq Nat
          /\ \A d \in Deliveries : counted[d] \in Int
        BY <2>1, StatsConstants DEF TypeOK
    <2>3. \A t \in Shown : \E d \in Recent : now[d] = t
        BY <2>1, <2>2 DEF Shown, Recent, TimelineCounted
    <2> DEFINE witness == [t \in Shown |-> CHOOSE d \in Recent : now[d] = t]
    <2>4. \A t \in Shown : witness[t] \in Recent /\ now[witness[t]] = t
        BY <2>3
    <2>5. witness \in [Shown -> Recent]
        BY <2>4
    <2> HIDE DEF witness
    <2>6. witness \in Injection(Shown, Recent)
        BY <2>4, <2>5 DEF Injection, IsInjective
    <2>7. QED
        BY <2>6, RecentFinite, FS_Injection
<1>2. CountInv => RecentCounted
    BY <1>1 DEF CountInv, RecentCounted, RecentInTotal, RecentInTypes, Recent, RecentOf, Shown
<1>3. QED
    BY InitCount, NextCount, <1>2, PTL DEF Spec

-----------------------------------------------------------------------------
(* The figures *)

Stored == {"success", "failed", "pending"}

\* How many records a count would find.
N(f) == Cardinality(Matching(f))

LEMMA CountsAreNat == \A f : IsFiniteSet(Matching(f)) /\ N(f) \in Nat
<1>1. \A f : Matching(f) \in SUBSET Deliveries
    BY DEF Matching
<1>2. QED
    BY <1>1, StatsConstants, FS_Subset, FS_CardinalityType DEF N

LEMMA DisjointUnion ==
    ASSUME NEW A, NEW B, IsFiniteSet(A), IsFiniteSet(B), A \cap B = {}
    PROVE  IsFiniteSet(A \cup B) /\ Cardinality(A \cup B) = Cardinality(A) + Cardinality(B)
<1>1. Cardinality(A \cap B) = 0
    BY FS_EmptySet
<1>2. Cardinality(A) \in Nat /\ Cardinality(B) \in Nat
    BY FS_CardinalityType
<1>3. /\ IsFiniteSet(A \cup B)
      /\ Cardinality(A \cup B) = Cardinality(A) + Cardinality(B) - Cardinality(A \cap B)
    BY FS_Union
<1>4. QED
    BY <1>1, <1>2, <1>3

\* Each record is in exactly one of the three classes.
LEMMA ClassesAddUp ==
    ASSUME TypeOK
    PROVE  N("total") = N("success") + N("failed") + N("pending")
<1> DEFINE S == Matching("success")
           F == Matching("failed")
           P == Matching("pending")
<1>1. IsFiniteSet(S) /\ IsFiniteSet(F) /\ IsFiniteSet(P)
      /\ Cardinality(S) \in Nat /\ Cardinality(F) \in Nat /\ Cardinality(P) \in Nat
    BY CountsAreNat DEF N
<1>2. S \cap F = {} /\ (S \cup F) \cap P = {} /\ Matching("total") = (S \cup F) \cup P
    BY DEF Matching, TypeOK
<1> HIDE DEF S, F, P
<1>3. IsFiniteSet(S \cup F) /\ Cardinality(S \cup F) = Cardinality(S) + Cardinality(F)
    BY <1>1, <1>2, DisjointUnion
<1>4. Cardinality((S \cup F) \cup P) = Cardinality(S \cup F) + Cardinality(P)
    BY <1>1, <1>2, <1>3, DisjointUnion
<1>5. QED
    BY <1>2, <1>3, <1>4 DEF N, S, F, P

\* A write takes a record out of the class it was in and puts it into another;
\* the first write of a record adds one to the total.
LEMMA WriteMoves ==
    ASSUME TypeOK, NEW d \in Deliveries, NEW s \in Stored, status[d] # s,
           status' = [status EXCEPT ![d] = s]
    PROVE  \A f \in Figures :
             N(f)' = N(f) + (IF f = s \/ (f = "total" /\ status[d] = "absent") THEN 1 ELSE 0)
                          - (IF f = status[d] THEN 1 ELSE 0)
<1> SUFFICES ASSUME NEW f \in Figures
             PROVE  N(f)' = N(f) + (IF f = s \/ (f = "total" /\ status[d] = "absent") THEN 1 ELSE 0)
                                 - (IF f = status[d] THEN 1 ELSE 0)
    OBVIOUS
<1>1. IsFiniteSet(Matching(f)) /\ N(f) \in Nat
    BY CountsAreNat
<1>2. \A e \in Deliveries : status'[e] = IF e = d THEN s ELSE status[e]
    BY DEF TypeOK
<1>3. status[d] \in {"absent", "success", "failed", "pending"}
    BY DEF TypeOK
<1>4. CASE f = s \/ (f = "total" /\ status[d] = "absent")
    <2>1. Matching(f)' = Matching(f) \cup {d} /\ d \notin Matching(f) /\ f # status[d]
        BY <1>2, <1>4 DEF Matching, Stored
    <2>2. N(f)' = N(f) + 1
        BY <1>1, <2>1, FS_AddElement DEF N
    <2>3. QED
        BY <1>1, <1>4, <2>1, <2>2
<1>5. CASE f = status[d]
    <2>1. Matching(f)' = Matching(f) \ {d} /\ d \in Matching(f) /\ f # s /\ status[d] # "absent"
        BY <1>2, <1>3, <1>5 DEF Matching, Stored, Figures
    <2>2. N(f)' = N(f) - 1
        BY <1>1, <2>1, FS_RemoveElement DEF N
    <2>3. QED
        BY <1>1, <1>5, <2>1, <2>2
<1>6. CASE f # status[d] /\ f # s /\ ~(f = "total" /\ status[d] = "absent")
    <2>1. Matching(f)' = Matching(f)
        BY <1>2, <1>3, <1>6 DEF Matching, Stored
    <2>2. QED
        BY <1>1, <1>6, <2>1 DEF N
<1>7. QED
    BY <1>4, <1>5, <1>6

\* The drifts taken together, as the figures of an answer are.
Off == Drift("total") - (Drift("success") + Drift("failed") + Drift("pending"))

LEMMA DriftType ==
    ASSUME TypeOK
    PROVE  \A f \in Figures : Drift(f) \in Int /\ figures[f] \in Nat
BY CountsAreNat, StatsConstants, FS_CardinalityType DEF Drift, N, TypeOK

LEMMA WriteDrifts ==
    ASSUME CountInv, FigureInv, TypeOK', NEW d \in Deliveries, NEW s \in Stored, status[d] # s,
           Write(d, s), UNCHANGED readVars
    PROVE  FigureInv'
<1>1. TypeOK
    BY DEF CountInv
<1>2. \A f \in Figures :
        N(f)' = N(f) + (IF f = s \/ (f = "total" /\ status[d] = "absent") THEN 1 ELSE 0)
                     - (IF f = status[d] THEN 1 ELSE 0)
    BY <1>1, WriteMoves DEF Write
<1>3. UNCHANGED <<query, figures, pc>> /\ overlap \in Nat
      /\ overlap' = IF pc = "counting" /\ query # Figures THEN overlap + 1 ELSE overlap
    BY <1>1 DEF Write, readVars, TypeOK
<1>4. /\ \A f \in Figures : N(f) \in Nat /\ figures[f] \in Nat /\ Drift(f) \in Int
      /\ \A f \in Figures : Drift(f)' = IF f \in query THEN 0 ELSE figures[f] - N(f)'
      /\ \A f \in Figures : Drift(f) = IF f \in query THEN 0 ELSE figures[f] - N(f)
    BY <1>1, <1>3, CountsAreNat, DriftType DEF Drift, N
<1>5. status[d] \in {"absent", "success", "failed", "pending"}
    BY <1>1 DEF TypeOK
<1>6. {"total", "success", "failed", "pending"} = Figures
    BY DEF Figures
<1>7. DriftBounded'
    <2> SUFFICES ASSUME pc = "counting" PROVE Off' \in -overlap'..overlap'
        BY <1>3 DEF DriftBounded, Off
    <2>1. Off \in -overlap..overlap
        BY DEF FigureInv, DriftBounded, Off
    <2>2. CASE query = Figures
        <3>1. Off' = 0
            BY <1>4, <1>6, <2>2 DEF Off
        <3>2. QED
            BY <1>3, <3>1
    <2>3. CASE query # Figures
        <3>1. Off' - Off \in {-1, 0, 1}
            <4> DEFINE t0 == Drift("total")
                       s0 == Drift("success")
                       f0 == Drift("failed")
                       p0 == Drift("pending")
                       t1 == Drift("total")'
                       s1 == Drift("success")'
                       f1 == Drift("failed")'
                       p1 == Drift("pending")'
            <4>1. /\ t0 \in Int /\ s0 \in Int /\ f0 \in Int /\ p0 \in Int
                  /\ t1 = t0 \/ (t1 = t0 - 1 /\ status[d] = "absent")
                  /\ t1 \in Int /\ s1 \in Int /\ f1 \in Int /\ p1 \in Int
                BY <1>2, <1>4, <1>5, <1>6 DEF Stored
            <4>2. /\ s1 = s0 \/ (s = "success" /\ s1 = s0 - 1) \/ (status[d] = "success" /\ s1 = s0 + 1)
                  /\ f1 = f0 \/ (s = "failed" /\ f1 = f0 - 1) \/ (status[d] = "failed" /\ f1 = f0 + 1)
                  /\ p1 = p0 \/ (s = "pending" /\ p1 = p0 - 1) \/ (status[d] = "pending" /\ p1 = p0 + 1)
                BY <1>2, <1>4, <1>5, <1>6 DEF Stored
            <4> HIDE DEF t0, s0, f0, p0, t1, s1, f1, p1
            <4>3. (t1 - (s1 + f1 + p1)) - (t0 - (s0 + f0 + p0)) \in {-1, 0, 1}
                BY <4>1, <4>2
            <4>4. QED
                BY <4>3 DEF Off, t0, s0, f0, p0, t1, s1, f1, p1
        <3>2. Off \in Int /\ Off' \in Int /\ overlap' = overlap + 1
            <4>1. \A f \in Figures : Drift(f)' \in Int
                BY <1>2, <1>4
            <4>2. QED
                BY <1>3, <1>4, <1>6, <2>3, <4>1 DEF Off
        <3>3. PICK x \in Int, y \in Int, n \in Nat : x = Off /\ y = Off' /\ n = overlap
            BY <1>3, <3>2
        <3>4. y - x \in {-1, 0, 1} /\ x \in -n..n
            BY <2>1, <3>1, <3>3
        <3>5. y \in -(n + 1)..(n + 1)
            BY <3>4
        <3>6. QED
            BY <3>2, <3>3, <3>5
    <2>4. QED
        BY <2>2, <2>3
<1>8. Settled'
    BY <1>3 DEF FigureInv, Settled
<1>9. QED
    BY <1>7, <1>8 DEF FigureInv

\* A count that ends has not drifted yet; the last one leaves the figures as far
\* off as the drifts were.
LEMMA CountDrifts ==
    ASSUME TypeOK, TypeOK', FigureInv, NEW g \in Figures, CountDocuments(g)
    PROVE  FigureInv'
<1>1. /\ pc = "counting" /\ g \in query /\ query' = query \ {g}
      /\ figures' = [figures EXCEPT ![g] = N(g)]
      /\ overlap' = IF query = Figures THEN 0 ELSE overlap
      /\ pc' = IF query' = {} THEN "average" ELSE pc
      /\ status' = status
    BY DEF CountDocuments, N
<1>2. \A f \in Figures : N(f)' = N(f) /\ N(f) \in Nat
    BY <1>1, CountsAreNat DEF N, Matching
<1>3. {"total", "success", "failed", "pending"} = Figures
    BY DEF Figures
<1>4. \A f \in Figures :
        /\ Drift(f) = IF f \in query THEN 0 ELSE figures[f] - N(f)
        /\ Drift(f)' = IF f \in query' THEN 0 ELSE figures'[f] - N(f)
        /\ figures[f] \in Nat /\ figures'[f] = IF f = g THEN N(f) ELSE figures[f]
    BY <1>1, <1>2, DriftType DEF Drift, N, TypeOK
<1>5. \A f \in Figures : Drift(f)' = Drift(f)
    BY <1>1, <1>2, <1>4
<1>6. Off' = Off
    BY <1>3, <1>5 DEF Off
<1>7. Off \in -overlap'..overlap'
    <2>1. CASE query = Figures
        <3>1. Off = 0
            BY <1>3, <1>4, <2>1 DEF Off
        <3>2. QED
            BY <1>1, <2>1, <3>1
    <2>2. CASE query # Figures
        <3>1. Off \in -overlap..overlap
            BY <1>1 DEF FigureInv, DriftBounded, Off
        <3>2. QED
            BY <1>1, <2>2, <3>1
    <2>3. QED
        BY <2>1, <2>2
<1>8. DriftBounded'
    BY <1>6, <1>7 DEF DriftBounded, Off
<1>9. Settled'
    <2> SUFFICES ASSUME query' = {}
                 PROVE  (figures'["total"]
                            - (figures'["success"] + figures'["failed"] + figures'["pending"]))
                          \in -overlap'..overlap'
        BY <1>1 DEF Settled
    <2> DEFINE t == figures'["total"]
               s == figures'["success"]
               f == figures'["failed"]
               p == figures'["pending"]
    <2>1. /\ Drift("total")' = t - N("total") /\ Drift("success")' = s - N("success")
          /\ Drift("failed")' = f - N("failed") /\ Drift("pending")' = p - N("pending")
          /\ t \in Nat /\ s \in Nat /\ f \in Nat /\ p \in Nat
        BY <1>2, <1>3, <1>4
    <2>2. N("total") = N("success") + N("failed") + N("pending")
          /\ N("total") \in Nat /\ N("success") \in Nat /\ N("failed") \in Nat /\ N("pending") \in Nat
        BY ClassesAddUp, CountsAreNat
    <2> HIDE DEF t, s, f, p
    <2>3. Off' = t - (s + f + p)
        BY <2>1, <2>2 DEF Off
    <2>4. QED
        BY <1>6, <1>7, <2>3 DEF t, s, f, p
<1>10. QED
    BY <1>8, <1>9 DEF FigureInv

LEMMA InitFigures == Init => FigureInv
BY DEF Init, FigureInv, DriftBounded, Settled

LEMMA NextFigures == CountInv /\ FigureInv /\ [Next]_vars => FigureInv'
<1> SUFFICES ASSUME CountInv, FigureInv, [Next]_vars PROVE FigureInv'
    OBVIOUS
<1>t. TypeOK /\ TypeOK' /\ CountedByTask
    BY NextType DEF CountInv
<1>1. CASE UNCHANGED <<recordVars, readVars>>
    <2>1. UNCHANGED <<status, overlap, query, figures, pc>>
        BY <1>1 DEF recordVars, readVars
    <2>2. \A f : Drift(f)' = Drift(f)
        BY <2>1 DEF Drift, Matching
    <2>3. QED
        BY <2>1, <2>2 DEF FigureInv, DriftBounded, Settled
<1>2. ASSUME NEW d \in Deliveries, NEW s \in Stored, status[d] # s, Write(d, s), UNCHANGED readVars
      PROVE  FigureInv'
    BY <1>2, <1>t, WriteDrifts
<1>3. ASSUME NEW d \in Deliveries, CreateDelivery(d), Write(d, "pending") PROVE FigureInv'
    <2>1. status[d] = "absent" /\ UNCHANGED readVars
        BY <1>3, <1>t DEF CreateDelivery, Create, CountedByTask
    <2>2. QED
        BY <1>2, <1>3, <2>1 DEF Stored
<1>4. ASSUME NEW d \in Deliveries, NEW s \in Stored, SetStatus(d, s) PROVE FigureInv'
    BY <1>2, <1>4 DEF SetStatus
<1>5. CASE GetStats
    <2>1. /\ pc' = "counting" /\ query' = Figures /\ overlap' = overlap /\ overlap \in Nat
        BY <1>5, <1>t DEF GetStats, recordVars, TypeOK
    <2>2. \A f \in Figures : Drift(f)' = 0
        BY <2>1 DEF Drift
    <2>3. Off' = 0
        BY <2>2 DEF Off, Figures
    <2>4. QED
        BY <2>1, <2>3 DEF FigureInv, DriftBounded, Settled, Off
<1>6. ASSUME NEW f \in Figures, CountDocuments(f) PROVE FigureInv'
    BY <1>6, <1>t, CountDrifts
<1>7. CASE Answer
    BY <1>7 DEF Answer, recordVars, FigureInv, DriftBounded, Settled
<1>8. CASE StatsFail
    BY <1>8 DEF StatsFail, FigureInv, DriftBounded, Settled
<1>9. QED
    BY <1>1, <1>3, <1>4, <1>5, <1>6, <1>7, <1>8
    DEF Next, Tick, CreateDelivery, Create, BeginUpdate, UpdateStats, Count, UpdateFails, Stored, vars

\* However many records there are and change meanwhile: the figures of an answer
\* add up, but for as many records as were written between the first and the last
\* of its four counts.
THEOREM FiguresNearlyAddUp == Spec => []FiguresAddUp
<1>1. FigureInv => FiguresAddUp
    BY DEF FigureInv, Settled, FiguresAddUp
<1>2. QED
    BY InitCount, NextCount, InitFigures, NextFigures, <1>1, PTL DEF Spec
=============================================================================
