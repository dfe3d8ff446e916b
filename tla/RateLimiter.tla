---------------------------- MODULE RateLimiter ----------------------------
(***************************************************************************)
(* ApiGateway.rateLimit for one key: the sliding window of the requests of *)
(* one IP address, a Redis sorted set that every process shares.           *)
(*                                                                         *)
(* checkRateLimit awaits three commands, zremrangebyscore, zcard and zadd; *)
(* other requests run in between.  A member of the set is the arrival time *)
(* of a request in milliseconds, as a string, and its score is the same    *)
(* time: requests of the same millisecond are one member.                  *)
(***************************************************************************)
EXTENDS Integers, Sequences, FiniteSets

CONSTANTS
    Slots,          \* requests that are checked at the same time, at most
    Max, Window,    \* config.max and config.windowMs
    Latency,        \* no check takes longer
    RedisMayFail,   \* whether a command may reject
    MaxTime,        \* bounds on the clock
    MaxArrivals     \*        and on the requests

ASSUME LimiterConstants ==
    /\ IsFiniteSet(Slots)
    /\ Max \in Nat \ {0} /\ Window \in Nat \ {0}
    /\ Latency \in Nat /\ Latency < Window
    /\ RedisMayFail \in BOOLEAN
    /\ MaxTime \in Nat /\ MaxArrivals \in Nat

VARIABLES
    clock,      \* Date.now()
    entries,    \* the sorted set
    pc,         \* where the check of a slot's request is
    now,        \* when that request arrived
    arrivals,   \* requests so far
    admitted    \* history: arrival times of the requests let through

vars == <<clock, entries, pc, now, arrivals, admitted>>

PC == {"idle", "purge", "count", "add"}

TypeOK ==
    /\ clock \in Nat
    /\ entries \in SUBSET Nat
    /\ pc \in [Slots -> PC]
    /\ now \in [Slots -> Nat]
    /\ arrivals \in Nat
    /\ admitted \in Seq(Nat)

Init ==
    /\ clock = 0
    /\ entries = {}
    /\ pc = [c \in Slots |-> "idle"]
    /\ now = [c \in Slots |-> 0]
    /\ arrivals = 0
    /\ admitted = <<>>

Goto(c, label) == pc' = [pc EXCEPT ![c] = label]
Admit(c) == admitted' = Append(admitted, now[c])

\* Time passes, but no check outlasts Latency.
Tick ==
    /\ clock < MaxTime
    /\ \A c \in Slots : pc[c] # "idle" => clock - now[c] < Latency
    /\ clock' = clock + 1
    /\ UNCHANGED <<entries, pc, now, arrivals, admitted>>

Arrive(c) ==
    /\ pc[c] = "idle" /\ arrivals < MaxArrivals
    /\ Goto(c, "purge")
    /\ now' = [now EXCEPT ![c] = clock]
    /\ arrivals' = arrivals + 1
    /\ UNCHANGED <<clock, entries, admitted>>

PurgeLate(c) ==
    /\ pc[c] = "purge"
    /\ entries' = {t \in entries : t >= now[c] - Window}
    /\ Goto(c, "count")
    /\ UNCHANGED <<clock, now, arrivals, admitted>>

\* zremrangebyscore(key, 0, now - windowMs): both ends included.
Purge(c) ==
    /\ pc[c] = "purge"
    /\ entries' = {t \in entries : t > now[c] - Window}
    /\ Goto(c, "count")
    /\ UNCHANGED <<clock, now, arrivals, admitted>>

CountOffByOne(c) ==
    /\ pc[c] = "count"
    /\ Goto(c, IF Cardinality(entries) > Max THEN "idle" ELSE "add")
    /\ UNCHANGED <<clock, entries, now, arrivals, admitted>>

\* zcard; at the limit the answer is 429, else the request goes on to zadd.
Count(c) ==
    /\ pc[c] = "count"
    /\ Goto(c, IF Cardinality(entries) >= Max THEN "idle" ELSE "add")
    /\ UNCHANGED <<clock, entries, now, arrivals, admitted>>

\* zadd(key, now, now.toString()) and next().
Add(c) ==
    /\ pc[c] = "add"
    /\ entries' = entries \cup {now[c]}
    /\ Admit(c)
    /\ Goto(c, "idle")
    /\ UNCHANGED <<clock, now, arrivals>>

\* A command rejects, applied or not: the request is let through.
FailOpen(c) ==
    /\ RedisMayFail /\ pc[c] # "idle"
    /\ \/ UNCHANGED entries
       \/ pc[c] = "purge" /\ entries' = {t \in entries : t > now[c] - Window}
       \/ pc[c] = "add" /\ entries' = entries \cup {now[c]}
    /\ Admit(c)
    /\ Goto(c, "idle")
    /\ UNCHANGED <<clock, now, arrivals>>

Check(c) == Arrive(c) \/ Purge(c) \/ Count(c) \/ Add(c) \/ FailOpen(c)

Next == Tick \/ \E c \in Slots : Check(c)

Spec == Init /\ [][Next]_vars

-----------------------------------------------------------------------------
(* Properties *)

Adding == {c \in Slots : pc[c] = "add"}

\* The check and the insertion are not atomic, so that the set can outgrow Max;
\* but never by more than the requests that were past the check together.
OvershootBounded ==
    Cardinality(entries) + Cardinality(Adding) <= Max - 1 + Cardinality(Slots)

\* An answer of 429 is earned: Max requests or more were let through no longer
\* than a window before the one that is turned away, whatever the requests that
\* ran between its purge and its count inserted or removed.
RejectedOnlyAtLimit ==
    [][\A c \in Slots :
         pc[c] = "count" /\ pc'[c] = "idle" /\ UNCHANGED admitted =>
             Cardinality({i \in DOMAIN admitted : admitted[i] > now[c] - Window}) >= Max]_vars
=============================================================================
