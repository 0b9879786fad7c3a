---------------------------- MODULE SimpleGateway ----------------------------
(***************************************************************************)
(* api/gateway_simple.rs, the router that main.rs serves: placeholders for *)
(* submit, status and cancel that only count, and readers of the counters. *)
(*                                                                         *)
(* The counters are atomics of their own, added to and loaded with Relaxed *)
(* order: an observer may see the additions of a handler in any order, and *)
(* a reader may load the counters in any order.  So both are sets of steps *)
(* that are still to happen.  Nothing adds to failed_requests, completed_  *)
(* or failed_transactions.                                                 *)
(***************************************************************************)
EXTENDS Naturals, FiniteSets

CONSTANTS
    Handlers,    \* requests that are handled at a time
    MaxRequests  \* bound: requests

VARIABLES
    counters,  \* the additions that can be seen
    adding,    \* per handler: the counters it has still to add to
    reading,   \* the reader of /stats or /metrics: what it has still to load
    metrics,   \* what it has loaded
    \* history
    overlap    \* requests in progress at some time of the reading

Counters == {"total_requests", "successful_requests", "total_transactions", "pending_transactions"}

Init ==
    /\ counters = [n \in Counters |-> 0]
    /\ adding = [h \in Handlers |-> {}]
    /\ reading = {}
    /\ metrics = [n \in Counters |-> 0]
    /\ overlap = 0

\* Requests in progress.
Active == {h \in Handlers : adding[h] # {}}

\* Mutation: a request for a status counts as successful only.
StatusUncounted == {"successful_requests"}

\* submit_transaction accepts whatever the payload; get_transaction_status and
\* cancel_transaction do the same to the counters.  None of them awaits, so none is
\* dropped half way.
Submit == Counters
StatusOrCancel == {"total_requests", "successful_requests"}

\* Requests that have been counted, or will be.
Requests == counters["total_requests"] + Cardinality({h \in Handlers : "total_requests" \in adding[h]})

Handle(h, additions) ==
    /\ adding[h] = {}
    /\ Requests < MaxRequests
    /\ adding' = [adding EXCEPT ![h] = additions]
    /\ overlap' = IF reading = {} THEN overlap ELSE overlap + 1
    /\ UNCHANGED <<counters, reading, metrics>>

Add(h, n) ==
    /\ n \in adding[h]
    /\ counters' = [counters EXCEPT ![n] = @ + 1]
    /\ adding' = [adding EXCEPT ![h] = @ \ {n}]
    /\ UNCHANGED <<reading, metrics, overlap>>

\* get_stats, get_metrics
StartReading ==
    /\ reading = {}
    /\ reading' = Counters
    /\ metrics' = [n \in Counters |-> 0]
    /\ overlap' = Cardinality(Active)
    /\ UNCHANGED <<counters, adding>>

Load(n) ==
    /\ n \in reading
    /\ metrics' = [metrics EXCEPT ![n] = counters[n]]
    /\ reading' = reading \ {n}
    /\ UNCHANGED <<counters, adding, overlap>>

Next ==
    \/ \E h \in Handlers : Handle(h, Submit) \/ Handle(h, StatusOrCancel)
    \/ \E h \in Handlers, n \in Counters : Add(h, n)
    \/ StartReading
    \/ \E n \in Counters : Load(n)

-----------------------------------------------------------------------------
\* Properties

\* Every variable has its type.
TypeOK ==
    /\ counters \in [Counters -> 0 .. MaxRequests]
    /\ adding \in [Handlers -> SUBSET Counters]
    /\ reading \subseteq Counters
    /\ metrics \in [Counters -> 0 .. MaxRequests]
    /\ overlap \in 0 .. 2 * MaxRequests

\* A success rate above 1, or more pending transactions than there are, can be
\* reported only by a reading during which requests were handled, and by no more
\* than so many; once nothing is handled the counters agree.
ReportErrorBounded ==
    /\ reading = {} =>
        /\ metrics["successful_requests"] <= metrics["total_requests"] + overlap
        /\ metrics["pending_transactions"] <= metrics["total_transactions"] + overlap
    /\ Active = {} =>
        /\ counters["successful_requests"] = counters["total_requests"]
        /\ counters["pending_transactions"] = counters["total_transactions"]

GatewayAssumption == IsFiniteSet(Handlers) /\ MaxRequests \in Nat
=============================================================================
