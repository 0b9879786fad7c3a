--------------------------- MODULE PriorityManager ---------------------------
(***************************************************************************)
(* queue/priority.rs: scores of the four priorities under what is known of *)
(* a transaction, the priority recommended for it, and the history of what *)
(* was recommended.  Multipliers are counted in tenths and multiplied      *)
(* exactly: of a score only its order among the others matters.            *)
(***************************************************************************)
EXTENDS Naturals

CONSTANTS
    Weights, NewMultipliers,  \* what the setters are called with
    CompletionTimes,          \* completion times
    MaxChanges                \* bound: calls of the setters and of update_priority_history

VARIABLES
    weights,      \* priority_weights
    multipliers,  \* priority_multipliers
    adjustments,  \* dynamic_adjustments; 10 where there is none
    history,      \* per priority [total, completed, time], time the sum of all
    changes

Priorities == {"low", "normal", "high", "critical"}

Init ==
    /\ weights = [low |-> 1, normal |-> 2, high |-> 3, critical |-> 4]
    /\ multipliers = [low |-> 5, normal |-> 10, high |-> 15, critical |-> 20]
    /\ adjustments = [p \in Priorities |-> 10]
    /\ history = [p \in Priorities |-> [total |-> 0, completed |-> 0, time |-> 0]]
    /\ changes = 0

Change == changes < MaxChanges /\ changes' = changes + 1

SetWeight(p, w) ==
    /\ Change
    /\ weights' = [weights EXCEPT ![p] = w]
    /\ UNCHANGED <<multipliers, adjustments, history>>

SetMultiplier(p, m) ==
    /\ Change
    /\ multipliers' = [multipliers EXCEPT ![p] = m]
    /\ UNCHANGED <<weights, adjustments, history>>

\* adjust_priority_dynamically, reset_dynamic_adjustments
Adjust(p, m) ==
    /\ Change
    /\ adjustments' = [adjustments EXCEPT ![p] = m]
    /\ UNCHANGED <<weights, multipliers, history>>

Reset ==
    /\ Change
    /\ adjustments' = [p \in Priorities |-> 10]
    /\ UNCHANGED <<weights, multipliers, history>>

\* update_priority_history; the average is time / total, the rate completed / total.
UpdateHistory(p, time, success) ==
    /\ Change
    /\ history' = [history EXCEPT ![p] =
           [total |-> @.total + 1,
            completed |-> @.completed + IF success THEN 1 ELSE 0,
            time |-> @.time + time]]
    /\ UNCHANGED <<weights, multipliers, adjustments>>

Next ==
    \/ \E p \in Priorities :
        \/ \E w \in Weights : SetWeight(p, w)
        \/ \E m \in NewMultipliers : SetMultiplier(p, m) \/ Adjust(p, m)
        \/ \E time \in CompletionTimes, success \in BOOLEAN : UpdateHistory(p, time, success)
    \/ Reset

-----------------------------------------------------------------------------
\* What is recommended

\* PriorityFactors, on both sides of every threshold; tier and congestion are
\* positive multipliers.
Factors == [age : {0, 301}, tier : {5, 20}, gas_price_ratio : {10, 16}, congestion : {5, 10, 20},
            retry_count : {0, 1}]

Bonus(condition, tenths) == IF condition THEN tenths ELSE 10

\* Mutation: only a task that is not urgent yet gets more so as it gets older.
AgingBonus(p, f) == Bonus(f.age > 300 /\ p \in {"low", "normal"}, 90)

AgeBonus(p, f) == Bonus(f.age > 300, 12)

\* calculate_dynamic_priority
Score(p, f) ==
    weights[p] * multipliers[p] * AgeBonus(p, f) * f.tier
        * Bonus(f.gas_price_ratio > 15, 11) * f.congestion * adjustments[p]

\* calculate_optimal_priority: of equal scores the more urgent priority.
Optimal(f) ==
    LET NoLess(p, others) == \A q \in others : Score(p, f) >= Score(q, f) IN
    CASE NoLess("critical", {"high", "normal", "low"}) -> "critical"
      [] ~ NoLess("critical", {"high", "normal", "low"}) /\ NoLess("high", {"normal", "low"}) -> "high"
      [] OTHER -> IF NoLess("normal", {"low"}) THEN "normal" ELSE "low"

\* calculate_confidence_score, in per cent: it never reaches the 100 that it is cut at.
TenIf(condition) == IF condition THEN 10 ELSE 0

Confidence(f) ==
    50 + TenIf(f.age > 0) + TenIf(f.retry_count = 0) + TenIf(f.congestion \in 9 .. 11)

\* get_priority_recommendation: without a history, 300 seconds and 95%.
Recommendation(f) ==
    LET h == history[Optimal(f)] IN
    [priority |-> Optimal(f),
     time |-> IF h.total = 0 THEN <<300, 1>> ELSE <<h.time, h.total>>,
     rate |-> IF h.total = 0 THEN <<95, 100>> ELSE <<h.completed, h.total>>,
     confidence |-> Confidence(f)]

-----------------------------------------------------------------------------
\* Properties

\* Every variable has its type.
TypeOK ==
    /\ weights \in [Priorities -> 0 .. 255]
    /\ {multipliers, adjustments} \subseteq [Priorities -> Nat]
    /\ \A p \in Priorities :
        /\ history[p] \in [total : 0 .. MaxChanges, completed : 0 .. MaxChanges, time : Nat]
        /\ history[p].completed <= history[p].total
    /\ changes \in 0 .. MaxChanges

Neutral == [age |-> 0, tier |-> 10, gas_price_ratio |-> 10, congestion |-> 10, retry_count |-> 0]

\* Whatever weights, multipliers and adjustments are set and whatever history there
\* is, the transaction's own factors never change the priority that is recommended,
\* nor the time and the rate that come with it, but only the confidence in them: each
\* factor raises or lowers all four scores alike.  With what `new' sets it is critical.
FactorsNeverDecide ==
    \A f \in Factors :
        [Recommendation(f) EXCEPT !.confidence = 0] = [Recommendation(Neutral) EXCEPT !.confidence = 0]

\* Weights are bytes.
PriorityAssumption ==
    /\ Weights \subseteq 0 .. 255
    /\ NewMultipliers \subseteq Nat /\ CompletionTimes \subseteq Nat
    /\ MaxChanges \in Nat
=============================================================================
