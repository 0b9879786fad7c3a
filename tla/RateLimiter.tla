---------------------------- MODULE RateLimiter ----------------------------
(***************************************************************************)
(* api/auth.rs, RateLimiter: per identifier, the instants of the requests  *)
(* it has let through, and three sliding windows over them.                *)
(***************************************************************************)
EXTENDS Naturals, FiniteSets

CONSTANTS
    Identifiers,       \* what rate_limit_middleware tells clients apart by
    Minute, Hour, Day, \* the lengths of the windows
    PerMinute, PerHour, PerDay

RateAssumption ==
    /\ {Minute, Hour, Day, PerMinute, PerHour, PerDay} \subseteq Nat
    /\ Minute < Hour /\ Hour < Day

\* The code only filters and counts its Vec: a set will do, with a number that tells
\* requests of the same instant apart.
VARIABLES
    requests, \* per identifier, its request_history
    admitted  \* history: all the requests let through, never cleaned up

NoRequests == [i \in Identifiers |-> {}]

Init == requests = NoRequests /\ admitted = NoRequests

\* Those less than a window before now.
Within(times, length, now) == {r \in times : r.at + length > now}

Kept(i, now) == Within(requests[i], Day, now)

\* Mutation: a full day is all that is looked at.
DayOnly(times, now) == Cardinality(times) >= PerDay

OverLimit(times, now) ==
    \/ Cardinality(times) >= PerDay
    \/ Cardinality(Within(times, Hour, now)) >= PerHour
    \/ Cardinality(Within(times, Minute, now)) >= PerMinute

Request(i, now) == [at |-> now, nth |-> Cardinality(admitted[i])]

\* check_rate_limit, all of it under the write lock, the clock included.
CheckRateLimit(i, now, allowed) ==
    LET kept == Kept(i, now)
        new  == IF allowed THEN {Request(i, now)} ELSE {} IN
    /\ allowed = ~ OverLimit(kept, now)
    /\ requests' = [requests EXCEPT ![i] = kept \cup new]
    /\ admitted' = [admitted EXCEPT ![i] = @ \cup new]

-----------------------------------------------------------------------------
\* Properties

\* In no window, wherever it starts, does an identifier get more requests through
\* than the limit of that window: the clean-up never forgets too early.
RateBound(now) ==
    \A i \in Identifiers : \A t \in 0 .. now :
        LET upTo == {r \in admitted[i] : r.at <= t} IN
        /\ Cardinality(Within(upTo, Minute, t)) <= PerMinute
        /\ Cardinality(Within(upTo, Hour, t)) <= PerHour
        /\ Cardinality(Within(upTo, Day, t)) <= PerDay
=============================================================================
