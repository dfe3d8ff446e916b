------------------------ MODULE InfrastructureProofs ------------------------
(***************************************************************************)
(* Proofs about the two components that know nothing of webhooks.          *)
(*                                                                         *)
(* Part 1, RateLimiter: for any limit, window and finite number of         *)
(* concurrent requests.  Part 2, ClusterService: for any number of CPUs,   *)
(* the running service keeps numCPUs workers, counting those whose exit it *)
(* has not heard of, and a shutdown waits for none that is gone.           *)
(***************************************************************************)
EXTENDS RateLimiter, ClusterService, FiniteSetTheorems, TLAPS

-----------------------------------------------------------------------------
(* Part 1: the rate limiter *)

\* A request under way arrived no more than Latency ago.
Prompt == \A c \in Slots : pc[c] # "idle" => now[c] <= clock /\ clock - now[c] <= Latency

\* What a request counts arrived within its own window.
CountIsFresh ==
    \A c \in Slots : pc[c] = "count" => \A t \in entries : t > now[c] - Window

FreshInv == TypeOK /\ Prompt /\ CountIsFresh

\* Two requests that are under way together are less than a window apart.
LEMMA WithinWindow ==
    ASSUME FreshInv, NEW c \in Slots, NEW q \in Slots, pc[c] # "idle", pc[q] # "idle"
    PROVE  now[c] > now[q] - Window
<1>1. now[c] \in Nat /\ now[q] \in Nat /\ clock \in Nat
    BY DEF FreshInv, TypeOK
<1>2. now[q] <= clock /\ clock - now[c] <= Latency
    BY DEF FreshInv, Prompt
<1>3. QED
    BY <1>1, <1>2, LimiterConstants

LEMMA InitFresh == Init => FreshInv
BY DEF Init, FreshInv, TypeOK, PC, Prompt, CountIsFresh

LEMMA NextFresh == FreshInv /\ [Next]_vars => FreshInv'
<1> SUFFICES ASSUME FreshInv, [Next]_vars PROVE FreshInv'
    OBVIOUS
<1> USE LimiterConstants DEF FreshInv, TypeOK, PC, Prompt, CountIsFresh, Goto, Admit
<1>1. ASSUME Tick PROVE FreshInv'
    BY <1>1 DEF Tick
<1>2. ASSUME NEW c \in Slots, Arrive(c) PROVE FreshInv'
    BY <1>2 DEF Arrive
<1>3. ASSUME NEW c \in Slots, Purge(c) PROVE FreshInv'
    BY <1>3 DEF Purge
<1>4. ASSUME NEW c \in Slots, Count(c) PROVE FreshInv'
    BY <1>4 DEF Count
<1>5. ASSUME NEW c \in Slots, Add(c) PROVE FreshInv'
  <2>1. TypeOK' /\ Prompt'
    <3>1. admitted' \in Seq(Nat)
        BY <1>5 DEF Add
    <3>2. entries' \in SUBSET Nat
        BY <1>5 DEF Add
    <3>3. pc' \in [Slots -> PC] /\ UNCHANGED <<clock, now, arrivals>>
        BY <1>5 DEF Add
    <3>4. Prompt'
        BY <1>5, <3>3 DEF Add
    <3>5. QED
        BY <3>1, <3>2, <3>3, <3>4
  <2>2. ASSUME NEW q \in Slots, pc'[q] = "count"
        PROVE  \A t \in entries' : t > now'[q] - Window
    <3>1. pc[q] = "count" /\ now'[q] = now[q] /\ pc[c] # "idle"
        BY <1>5, <2>2 DEF Add
    <3>2. now[c] > now[q] - Window
        BY <3>1, WithinWindow
    <3>3. entries' \subseteq entries \cup {now[c]}
        BY <1>5 DEF Add
    <3>4. QED
        BY <3>1, <3>2, <3>3
  <2>3. QED
      BY <2>1, <2>2
<1>6. ASSUME NEW c \in Slots, FailOpen(c) PROVE FreshInv'
  <2>1. TypeOK' /\ Prompt'
    <3>1. admitted' \in Seq(Nat)
        BY <1>6 DEF FailOpen
    <3>2. entries' \in SUBSET Nat
      <4>1. entries' \subseteq entries \cup {now[c]}
          BY <1>6 DEF FailOpen
      <4>2. QED
          BY <4>1
    <3>3. pc' \in [Slots -> PC] /\ UNCHANGED <<clock, now, arrivals>>
        BY <1>6 DEF FailOpen
    <3>4. Prompt'
        BY <1>6, <3>3 DEF FailOpen
    <3>5. QED
        BY <3>1, <3>2, <3>3, <3>4
  <2>2. ASSUME NEW q \in Slots, pc'[q] = "count"
        PROVE  \A t \in entries' : t > now'[q] - Window
    <3>1. pc[q] = "count" /\ now'[q] = now[q] /\ pc[c] # "idle"
        BY <1>6, <2>2 DEF FailOpen
    <3>2. now[c] > now[q] - Window
        BY <3>1, WithinWindow
    <3>3. entries' \subseteq entries \cup {now[c]}
        BY <1>6 DEF FailOpen
    <3>4. QED
        BY <3>1, <3>2, <3>3
  <2>3. QED
      BY <2>1, <2>2
<1>7. ASSUME UNCHANGED vars PROVE FreshInv'
    BY <1>7 DEF vars
<1>8. QED
    BY <1>1, <1>2, <1>3, <1>4, <1>5, <1>6, <1>7 DEF Next, Check

\* The clock, the window and the requests stay well typed.
THEOREM TypeCorrect == Spec => []TypeOK
<1>1. FreshInv => TypeOK
    BY DEF FreshInv
<1>2. QED
    BY InitFresh, NextFresh, <1>1, PTL DEF Spec

-----------------------------------------------------------------------------
(* How far the set outgrows the limit *)

OverInv == TypeOK /\ IsFiniteSet(entries) /\ OvershootBounded

LEMMA AddingFinite ==
    /\ IsFiniteSet(Adding)
    /\ Cardinality(Adding) \in Nat
    /\ Cardinality(Slots) \in Nat
    /\ Cardinality(Adding) <= Cardinality(Slots)
<1>1. Adding \in SUBSET Slots
    BY DEF Adding
<1>2. QED
    BY <1>1, LimiterConstants, FS_Subset, FS_CardinalityType

\* Where neither the set nor the requests past the check grow, the bound stays.
LEMMA Shrinking ==
    ASSUME OverInv, entries' \subseteq entries, Adding' \subseteq Adding
    PROVE  IsFiniteSet(entries)' /\ OvershootBounded'
<1>1. /\ IsFiniteSet(entries') /\ Cardinality(entries') \in Nat
      /\ Cardinality(entries) \in Nat /\ Cardinality(entries') <= Cardinality(entries)
    BY FS_Subset, FS_CardinalityType DEF OverInv
<1>2. Cardinality(Adding') \in Nat /\ Cardinality(Adding') <= Cardinality(Adding)
    BY AddingFinite, FS_Subset, FS_CardinalityType
<1>3. QED
    BY <1>1, <1>2, AddingFinite, LimiterConstants DEF OverInv, OvershootBounded

\* A request that inserts leaves the requests past the check.
LEMMA Inserting ==
    ASSUME OverInv, NEW c \in Slots, pc[c] = "add", pc' = [pc EXCEPT ![c] = "idle"],
           entries' = entries \cup {now[c]}
    PROVE  IsFiniteSet(entries)' /\ OvershootBounded'
<1>1. /\ IsFiniteSet(entries') /\ Cardinality(entries') \in Nat
      /\ Cardinality(entries) \in Nat /\ Cardinality(entries') <= Cardinality(entries) + 1
  <2>1. IsFiniteSet(entries) /\ Cardinality(entries) \in Nat
      BY FS_CardinalityType DEF OverInv
  <2>2. /\ IsFiniteSet(entries \cup {now[c]})
        /\ \/ Cardinality(entries \cup {now[c]}) = Cardinality(entries)
           \/ Cardinality(entries \cup {now[c]}) = Cardinality(entries) + 1
      BY <2>1, FS_AddElement
  <2>3. QED
      BY <2>1, <2>2
<1>2. c \in Adding /\ Adding' = Adding \ {c}
    BY DEF Adding, OverInv, TypeOK
<1>3. Cardinality(Adding') = Cardinality(Adding) - 1
    BY <1>2, AddingFinite, FS_RemoveElement
<1>4. QED
    BY <1>1, <1>3, AddingFinite, LimiterConstants DEF OverInv, OvershootBounded

LEMMA InitOver == Init => OverInv
<1> SUFFICES ASSUME Init PROVE OverInv
    OBVIOUS
<1>1. TypeOK
    BY InitFresh DEF FreshInv
<1>2. IsFiniteSet(entries) /\ Cardinality(entries) = 0 /\ Cardinality(Adding) = 0
  <2>1. entries = {} /\ Adding = {}
      BY DEF Init, Adding
  <2>2. QED
      BY <2>1, FS_EmptySet
<1>3. QED
    BY <1>1, <1>2, AddingFinite, LimiterConstants DEF OverInv, OvershootBounded

LEMMA NextOver == FreshInv /\ OverInv /\ [Next]_vars => OverInv'
<1> SUFFICES ASSUME FreshInv, OverInv, [Next]_vars
             PROVE  IsFiniteSet(entries)' /\ OvershootBounded'
    BY NextFresh DEF OverInv, FreshInv
<1> USE DEF Goto
<1>t. TypeOK
    BY DEF OverInv
<1>1. CASE Tick \/ UNCHANGED vars
  <2>1. entries' = entries /\ pc' = pc
      BY <1>1 DEF Tick, vars
  <2>2. Adding' \subseteq Adding
      BY <2>1 DEF Adding
  <2>3. QED
      BY <2>1, <2>2, Shrinking
<1>2. ASSUME NEW c \in Slots, Arrive(c) \/ Purge(c)
      PROVE  IsFiniteSet(entries)' /\ OvershootBounded'
  <2>1. entries' \subseteq entries /\ Adding' \subseteq Adding
      BY <1>t, <1>2 DEF Arrive, Purge, Adding, TypeOK
  <2>2. QED
      BY <2>1, Shrinking
<1>3. ASSUME NEW c \in Slots, Count(c)
      PROVE  IsFiniteSet(entries)' /\ OvershootBounded'
  <2>1. CASE Cardinality(entries) >= Max
    <3>1. entries' = entries /\ Adding' \subseteq Adding
        BY <1>t, <1>3, <2>1 DEF Count, Adding, TypeOK
    <3>2. QED
        BY <3>1, Shrinking
  <2>2. CASE ~(Cardinality(entries) >= Max)
    <3>1. entries' = entries
        BY <1>3 DEF Count
    <3>2. IsFiniteSet(Adding') /\ Cardinality(Adding') \in Nat
          /\ Cardinality(Adding') <= Cardinality(Slots)
      <4>1. Adding' \in SUBSET Slots
          BY DEF Adding
      <4>2. QED
          BY <4>1, LimiterConstants, FS_Subset, FS_CardinalityType
    <3>3. Cardinality(entries) \in Nat
        BY FS_CardinalityType DEF OverInv
    <3>4. QED
        BY <2>2, <3>1, <3>2, <3>3, AddingFinite, LimiterConstants
        DEF OverInv, OvershootBounded
  <2>3. QED
      BY <2>1, <2>2
<1>4. ASSUME NEW c \in Slots, Add(c)
      PROVE  IsFiniteSet(entries)' /\ OvershootBounded'
    BY <1>4, Inserting DEF Add
<1>5. ASSUME NEW c \in Slots, FailOpen(c)
      PROVE  IsFiniteSet(entries)' /\ OvershootBounded'
  <2>1. CASE pc[c] = "add" /\ entries' = entries \cup {now[c]}
      BY <1>5, <2>1, Inserting DEF FailOpen
  <2>2. CASE entries' \subseteq entries
    <3>1. Adding' \subseteq Adding
        BY <1>t, <1>5 DEF FailOpen, Adding, TypeOK
    <3>2. QED
        BY <2>2, <3>1, Shrinking
  <2>3. QED
      BY <1>5, <2>1, <2>2 DEF FailOpen
<1>6. QED
    BY <1>1, <1>2, <1>3, <1>4, <1>5 DEF Next, Check

\* The sorted set never holds more than Max - 1 requests and one for each that
\* may be under way at the same time: what the missing atomicity costs, exactly.
THEOREM OvershootIsBounded == Spec => []OvershootBounded
<1>1. OverInv => OvershootBounded
    BY DEF OverInv
<1>2. QED
    BY InitFresh, NextFresh, InitOver, NextOver, <1>1, PTL DEF Spec

-----------------------------------------------------------------------------
(* Who is turned away *)

\* Every member of the set is the arrival of a request that was let through.
EntriesAdmitted == \A t \in entries : \E i \in DOMAIN admitted : admitted[i] = t

LEMMA InitAdmitted == Init => EntriesAdmitted
BY DEF Init, EntriesAdmitted

LEMMA NextAdmitted == TypeOK /\ EntriesAdmitted /\ [Next]_vars => EntriesAdmitted'
<1> SUFFICES ASSUME TypeOK, EntriesAdmitted, [Next]_vars PROVE EntriesAdmitted'
    OBVIOUS
<1> admitted \in Seq(Nat) /\ now \in [Slots -> Nat]
    BY DEF TypeOK
<1>1. CASE entries' \subseteq entries /\ admitted' = admitted
    BY <1>1 DEF EntriesAdmitted
<1>2. ASSUME NEW c \in Slots, Admit(c), entries' \subseteq entries \cup {now[c]}
      PROVE  EntriesAdmitted'
  <2>1. /\ DOMAIN admitted' = 1..(Len(admitted) + 1)
        /\ admitted'[Len(admitted) + 1] = now[c]
        /\ \A i \in DOMAIN admitted : i \in DOMAIN admitted' /\ admitted'[i] = admitted[i]
      BY <1>2 DEF Admit
  <2>2. Len(admitted) + 1 \in DOMAIN admitted'
      BY <2>1
  <2>3. QED
      BY <1>2, <2>1, <2>2 DEF EntriesAdmitted
<1>3. QED
    BY <1>1, <1>2 DEF Next, Check, Tick, Arrive, Purge, Count, Add, FailOpen, vars

\* A set of arrivals is no larger than the list of those it came from.
LEMMA CountedArrivals ==
    ASSUME TypeOK, EntriesAdmitted, NEW bound \in Int, \A t \in entries : t > bound
    PROVE  LET I == {i \in DOMAIN admitted : admitted[i] > bound}
           IN  /\ Cardinality(I) \in Nat
               /\ IsFiniteSet(entries) /\ Cardinality(entries) <= Cardinality(I)
<1> DEFINE I == {i \in DOMAIN admitted : admitted[i] > bound}
           J == {i \in DOMAIN admitted : admitted[i] \in entries}
           f == [i \in J |-> admitted[i]]
<1> admitted \in Seq(Nat)
    BY DEF TypeOK
<1>1. IsFiniteSet(I)
  <2>1. IsFiniteSet(1..Len(admitted))
      BY FS_Interval
  <2>2. I \in SUBSET (1..Len(admitted))
      OBVIOUS
  <2>3. QED
      BY <2>1, <2>2, FS_Subset
<1>2. J \in SUBSET I
    OBVIOUS
<1>3. IsFiniteSet(J) /\ Cardinality(J) <= Cardinality(I)
    BY <1>1, <1>2, FS_Subset
<1>4. f \in Surjection(J, entries)
    BY DEF Surjection, EntriesAdmitted
<1>5. IsFiniteSet(entries) /\ Cardinality(entries) <= Cardinality(J)
    BY <1>3, <1>4, FS_Surjection
<1>6. Cardinality(I) \in Nat /\ Cardinality(J) \in Nat /\ Cardinality(entries) \in Nat
    BY <1>1, <1>3, <1>5, FS_CardinalityType
<1>7. QED
    BY <1>1, <1>3, <1>5, <1>6

\* If no check outlasts the window, nobody is turned away who did not have Max
\* requests let through before it, in a window of its own.
THEOREM RejectionsEarned == Spec => RejectedOnlyAtLimit
<1> DEFINE Earned(c) ==
        pc[c] = "count" /\ pc'[c] = "idle" /\ UNCHANGED admitted =>
            Cardinality({i \in DOMAIN admitted : admitted[i] > now[c] - Window}) >= Max
<1>1. FreshInv /\ EntriesAdmitted /\ [Next]_vars => [\A c \in Slots : Earned(c)]_vars
  <2> SUFFICES ASSUME FreshInv, EntriesAdmitted, Next, NEW c \in Slots,
                      pc[c] = "count", pc'[c] = "idle", UNCHANGED admitted
               PROVE  Cardinality({i \in DOMAIN admitted : admitted[i] > now[c] - Window}) >= Max
      OBVIOUS
  <2>t. TypeOK /\ admitted \in Seq(Nat) /\ pc \in [Slots -> PC] /\ now[c] \in Nat
      BY DEF FreshInv, TypeOK
  <2>1. Cardinality(entries) >= Max
    <3>1. ASSUME NEW q \in Slots, Admit(q) PROVE FALSE
        BY <2>t, <3>1 DEF Admit, FreshInv, TypeOK
    <3>2. Count(c)
        BY <2>t, <3>1 DEF Next, Check, Tick, Arrive, Purge, Count, Add, FailOpen, Goto
    <3>3. QED
        BY <2>t, <3>2 DEF Count, Goto
  <2>2. \A t \in entries : t > now[c] - Window
      BY DEF FreshInv, CountIsFresh
  <2>3. now[c] - Window \in Int
      BY <2>t, LimiterConstants
  <2>4. LET I == {i \in DOMAIN admitted : admitted[i] > now[c] - Window}
        IN  /\ Cardinality(I) \in Nat
            /\ IsFiniteSet(entries) /\ Cardinality(entries) <= Cardinality(I)
      BY <2>t, <2>2, <2>3, CountedArrivals
  <2>5. Cardinality(entries) \in Nat
      BY <2>4, FS_CardinalityType
  <2>6. QED
      BY <2>1, <2>4, <2>5, LimiterConstants
<1>2. FreshInv => TypeOK
    BY DEF FreshInv
<1>3. QED
    BY InitFresh, NextFresh, InitAdmitted, NextAdmitted, <1>1, <1>2, PTL
    DEF Spec, RejectedOnlyAtLimit

-----------------------------------------------------------------------------
(* Part 2: the cluster *)

Workforce == alive \cup exiting

\* A worker that dies is replaced in every phase, in a shutdown too: the invariant
\* that FullStrength needs.
Replaced == phase # "new" => Cardinality(Workforce) = numCPUs

\* The room that the bound leaves for replacements, and that a worker is not
\* counted twice, are what makes ClusterTypeOK and Replaced inductive.
Counted ==
    /\ IsFiniteSet(Workforce) /\ IsFiniteSet(exiting)
    /\ alive \cap exiting = {}
    /\ lastId + Cardinality(exiting) <= MaxForks

NothingYet == phase = "new" => lastId = 0 /\ Workforce = {} /\ workers = {} /\ awaited = {}

ClusterInv == ClusterTypeOK /\ Counted /\ NothingYet /\ Replaced /\ AwaitedCanExit

LEMMA ClusterInitInv ==
    ASSUME ClusterConstants
    PROVE  ClusterInit => ClusterInv
<1> SUFFICES ASSUME ClusterInit PROVE ClusterInv
    OBVIOUS
<1>1. IsFiniteSet({}) /\ Cardinality({}) = 0
    BY FS_EmptySet
<1>2. Workforce = {} /\ exiting = {} /\ lastId = 0
    BY DEF ClusterInit, Workforce
<1>3. Counted
    BY <1>1, <1>2 DEF ClusterConstants, Counted, ClusterInit
<1>4. QED
    BY <1>2, <1>3
    DEF ClusterConstants, ClusterInit, ClusterInv, ClusterTypeOK, NothingYet, Replaced,
        AwaitedCanExit

LEMMA InitializeInv ==
    ASSUME ClusterConstants
    PROVE  ClusterInv /\ Initialize => ClusterInv'
<1> SUFFICES ASSUME ClusterInv, Initialize PROVE ClusterInv'
    OBVIOUS
<1>1. /\ exiting = {} /\ exiting' = {} /\ awaited' = {} /\ lastId' = numCPUs
      /\ alive' = 1..numCPUs /\ workers' = 1..numCPUs /\ phase' = "running"
    BY DEF Initialize, ClusterInv, NothingYet, Workforce
<1>2. Workforce' = 1..numCPUs
    BY <1>1 DEF Workforce
<1>3. IsFiniteSet(1..numCPUs) /\ Cardinality(1..numCPUs) = numCPUs
    BY FS_Interval DEF ClusterConstants
<1>4. IsFiniteSet({}) /\ Cardinality({}) = 0
    BY FS_EmptySet
<1>5. ClusterTypeOK'
    BY <1>1 DEF ClusterConstants, ClusterTypeOK
<1>6. Counted'
    BY <1>1, <1>2, <1>3, <1>4 DEF ClusterConstants, Counted
<1>7. Replaced' /\ AwaitedCanExit' /\ NothingYet'
    BY <1>1, <1>2, <1>3 DEF Replaced, AwaitedCanExit, NothingYet, Workforce
<1>8. QED
    BY <1>5, <1>6, <1>7 DEF ClusterInv

\* A worker that dies moves from one part of the workforce to the other.
LEMMA WorkerDiesInv ==
    ASSUME ClusterConstants, ClusterInv, NEW w \in WorkerIds, WorkerDies(w)
    PROVE  ClusterInv'
<1>1. /\ w \in alive /\ w \notin exiting
      /\ alive' = alive \ {w} /\ exiting' = exiting \cup {w}
      /\ UNCHANGED <<phase, lastId, workers, awaited>>
    BY DEF WorkerDies, ClusterInv, Counted
<1>2. Workforce' = Workforce
    BY <1>1 DEF Workforce
<1>3. IsFiniteSet(exiting') /\ Cardinality(exiting') = Cardinality(exiting) + 1
    BY <1>1, FS_AddElement DEF ClusterInv, Counted
<1>4. Cardinality(exiting) \in Nat
    BY FS_CardinalityType DEF ClusterInv, Counted
<1>5. ClusterTypeOK'
    BY <1>1 DEF ClusterInv, ClusterTypeOK
<1>6. Counted'
  <2>1. lastId + Cardinality(exiting) < MaxForks /\ lastId \in Nat
      BY DEF WorkerDies, ClusterInv, ClusterTypeOK
  <2>2. lastId' + Cardinality(exiting') <= MaxForks
      BY <1>1, <1>3, <1>4, <2>1 DEF ClusterConstants
  <2>3. QED
      BY <1>1, <1>2, <1>3, <2>2 DEF ClusterInv, Counted
<1>7. Replaced' /\ AwaitedCanExit' /\ NothingYet'
    BY <1>1, <1>2 DEF ClusterInv, Replaced, AwaitedCanExit, NothingYet, Workforce
<1>8. QED
    BY <1>5, <1>6, <1>7 DEF ClusterInv

\* The replacement of a worker has an id of its own: the workforce loses one
\* member and gets one.
LEMMA WorkerExitInv ==
    ASSUME ClusterConstants, ClusterInv, NEW w \in WorkerIds, WorkerExit(w)
    PROVE  ClusterInv'
<1>1. /\ w \in exiting /\ w \notin alive
      /\ exiting' = exiting \ {w} /\ alive' = alive \cup {lastId + 1}
      /\ lastId' = lastId + 1 /\ phase' = phase
      /\ workers' = (workers \ {w}) \cup {lastId + 1} /\ awaited' = awaited \ {w}
    BY DEF WorkerExit, ClusterInv, Counted
<1>2. /\ lastId \in Nat /\ lastId + 1 \notin Workforce
      /\ Workforce \subseteq 1..lastId /\ w \in Workforce
    BY <1>1 DEF ClusterInv, ClusterTypeOK, Workforce
<1>3. Workforce' = (Workforce \ {w}) \cup {lastId + 1}
    BY <1>1, <1>2 DEF Workforce
<1>4. /\ IsFiniteSet(Workforce \ {w})
      /\ Cardinality(Workforce \ {w}) = Cardinality(Workforce) - 1
    BY <1>2, FS_RemoveElement DEF ClusterInv, Counted
<1>5. /\ IsFiniteSet(Workforce')
      /\ Cardinality(Workforce') = Cardinality(Workforce \ {w}) + 1
    BY <1>2, <1>3, <1>4, FS_AddElement
<1>6. /\ IsFiniteSet(exiting') /\ Cardinality(exiting') = Cardinality(exiting) - 1
      /\ Cardinality(exiting) \in Nat /\ Cardinality(exiting') \in Nat
    BY <1>1, FS_RemoveElement, FS_CardinalityType DEF ClusterInv, Counted
<1>7. Cardinality(Workforce) \in Nat /\ Cardinality(Workforce') = Cardinality(Workforce)
    BY <1>4, <1>5, FS_CardinalityType DEF ClusterInv, Counted
<1>8. lastId' + Cardinality(exiting') <= MaxForks /\ lastId' \in 0..MaxForks
    BY <1>1, <1>2, <1>6 DEF ClusterConstants, ClusterInv, Counted
<1>9. ClusterTypeOK'
    BY <1>1, <1>2, <1>8 DEF ClusterInv, ClusterTypeOK
<1>10. Counted'
    BY <1>1, <1>2, <1>5, <1>6, <1>8 DEF ClusterInv, Counted, Workforce
<1>11. phase # "new"
    BY <1>2 DEF ClusterInv, NothingYet
<1>12. Replaced' /\ AwaitedCanExit' /\ NothingYet'
    BY <1>1, <1>7, <1>11 DEF ClusterInv, Replaced, AwaitedCanExit, NothingYet, Workforce
<1>13. QED
    BY <1>9, <1>10, <1>12 DEF ClusterInv

LEMMA ClusterOtherInv ==
    ASSUME ClusterConstants, ClusterInv,
           \/ \E w \in WorkerIds : WorkerMessage(w)
           \/ GracefulShutdown \/ AllShutDown \/ UNCHANGED clusterVars
    PROVE  ClusterInv'
<1>1. UNCHANGED <<lastId, alive, exiting>> /\ workers' \subseteq workers
    BY DEF WorkerMessage, GracefulShutdown, AllShutDown, clusterVars
<1>2. awaited' \subseteq awaited \cup workers
    BY DEF WorkerMessage, GracefulShutdown, AllShutDown, clusterVars
<1>3. Workforce' = Workforce
    BY <1>1 DEF Workforce
<1>4. \/ phase' = phase
      \/ phase # "new" /\ phase' \in {"stopping", "stopped"}
    BY DEF WorkerMessage, GracefulShutdown, AllShutDown, clusterVars
<1>5. ClusterTypeOK'
    BY <1>1, <1>2, <1>4 DEF ClusterInv, ClusterTypeOK
<1>6. Counted'
    BY <1>1, <1>3 DEF ClusterInv, Counted
<1>7. Replaced' /\ AwaitedCanExit' /\ NothingYet'
    BY <1>1, <1>2, <1>3, <1>4 DEF ClusterInv, Replaced, AwaitedCanExit, NothingYet, Workforce
<1>8. QED
    BY <1>5, <1>6, <1>7 DEF ClusterInv

LEMMA ClusterNextInv ==
    ASSUME ClusterConstants
    PROVE  ClusterInv /\ [ClusterNext]_clusterVars => ClusterInv'
    BY InitializeInv, WorkerDiesInv, WorkerExitInv, ClusterOtherInv DEF ClusterNext

-----------------------------------------------------------------------------
\* The state has its type: every replacement gets an id within the bound.
THEOREM ClusterTypeCorrect ==
    ASSUME ClusterConstants
    PROVE  ClusterSpec => []ClusterTypeOK
<1>1. ClusterInv => ClusterTypeOK
    BY DEF ClusterInv
<1>2. QED
    BY ClusterInitInv, ClusterNextInv, <1>1, PTL DEF ClusterSpec

\* While the cluster runs, each dead worker is replaced by exactly one, however many
\* die before the primary handles the first exit.
THEOREM WorkforceKept ==
    ASSUME ClusterConstants
    PROVE  ClusterSpec => []FullStrength
<1>1. ClusterInv => FullStrength
    BY DEF ClusterInv, Replaced, Workforce, FullStrength
<1>2. QED
    BY ClusterInitInv, ClusterNextInv, <1>1, PTL DEF ClusterSpec

\* Neither the Map nor a running gracefulShutdown holds on to a worker whose
\* exit was handled.
THEOREM AwaitedWillExit ==
    ASSUME ClusterConstants
    PROVE  ClusterSpec => []AwaitedCanExit
<1>1. ClusterInv => AwaitedCanExit
    BY DEF ClusterInv
<1>2. QED
    BY ClusterInitInv, ClusterNextInv, <1>1, PTL DEF ClusterSpec
=============================================================================
