---------------------------- MODULE CircuitBreaker ----------------------------
(***************************************************************************)
(* The CircuitBreaker of api/middleware.rs.  A call reads the state under  *)
(* the lock, gives the lock up, calls f, and takes the lock again for what *)
(* follows from the outcome: two steps, with other callers in between.  A  *)
(* failure of a call that read Closed opens the circuit and spawns a timer *)
(* that will half-open it; a failure of one that read HalfOpen opens it,   *)
(* with no timer.  failure_threshold is read by nobody.                    *)
(***************************************************************************)
EXTENDS Naturals, FiniteSets

CONSTANTS
    Callers,
    MaxTimers  \* bound: recovery timers asleep at a time

VARIABLES
    state,   \* the CircuitBreakerState
    timers,  \* recovery timers asleep
    read,    \* per caller: the state it read before it called f, or "none"
    \* history
    opener   \* the state read by the call that opened the circuit last, or "none"

Init ==
    /\ state = "Closed"
    /\ timers = 0
    /\ read = [c \in Callers |-> "none"]
    /\ opener = "none"

\* call, up to f; in the state Open it returns an error and nothing changes.
Enter(c) ==
    /\ read[c] = "none"
    /\ state # "Open"
    /\ read' = [read EXCEPT ![c] = state]
    /\ UNCHANGED <<state, timers, opener>>

\* f has succeeded.
Succeed(c) ==
    /\ read[c] # "none"
    /\ state' = IF read[c] = "HalfOpen" THEN "Closed" ELSE state
    /\ read' = [read EXCEPT ![c] = "none"]
    /\ UNCHANGED <<timers, opener>>

\* Mutation: no timer for a circuit that is not closed any more.
OnlyFromClosed(c) == IF read[c] = "Closed" /\ state = "Closed" THEN timers + 1 ELSE timers

\* handle_failure spawns a timer, whatever timers there are already.
TimersAfter(c) == IF read[c] = "Closed" THEN timers + 1 ELSE timers

\* f has failed: handle_failure for a call that read Closed, Open for a probe.
Fail(c) ==
    /\ read[c] # "none"
    /\ TimersAfter(c) <= MaxTimers
    /\ state' = "Open"
    /\ timers' = TimersAfter(c)
    /\ opener' = read[c]
    /\ read' = [read EXCEPT ![c] = "none"]

\* A timer has slept for recovery_timeout: it half-opens the circuit, even one
\* that a probe has closed in the meantime.
Recover ==
    /\ timers > 0
    /\ timers' = timers - 1
    /\ state' = "HalfOpen"
    /\ UNCHANGED <<read, opener>>

Next == Recover \/ \E c \in Callers : Enter(c) \/ Succeed(c) \/ Fail(c)

-----------------------------------------------------------------------------
\* Properties

States == {"Closed", "Open", "HalfOpen"}

\* Every variable has its type.
TypeOK ==
    /\ state \in States
    /\ timers \in 0 .. MaxTimers
    /\ read \in [Callers -> {"none", "Closed", "HalfOpen"}]
    /\ opener \in {"none", "Closed", "HalfOpen"}

\* A circuit that is open and has no timer left to half-open it was opened by a
\* failed probe, never by a call that came in while it was closed: whatever the
\* order of late calls and timers, handle_failure's circuit recovers.
StuckOnlyByProbe == state = "Open" /\ timers = 0 => opener = "HalfOpen"

BreakerAssumption == MaxTimers \in Nat
=============================================================================
