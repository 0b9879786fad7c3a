------------------------------- MODULE Support -------------------------------
(***************************************************************************)
(* The supporting components together.  They share no state and call each  *)
(* other nowhere, so the behaviours of each are those of the product with  *)
(* the others at rest: every behaviour works with one.                     *)
(***************************************************************************)
EXTENDS Integers

CONSTANTS Keys, Values, Clients, MaxSize, None,
          Tasks, Handles, Loads, Limit, Concurrency, MaxAdjusts,
          Callers, MaxTimers,
          Configs, BaseFees, UserFees, MaxHistory, MaxBlock,
          Addresses, Balances, Checkers, CacheTtl, MaxFetch, MaxNow,
          Wallets, Poor, Rounders, MaxNonceGap, MaxNonce, MaxAlerts,
          Members, Worn, Rotators, MaxRotations,
          Handlers, MaxRequests,
          Weights, NewMultipliers, CompletionTimes, MaxChanges,
          Rows, Users, Limits, Cap, MaxMoment,
          ServiceConfigs, Usable, MaxFlips, MaxStarts

VARIABLES focus,
          use_redis, memory, redis, call, truth, suspect,
          active_tasks, semaphore, task, adjusts, most,
          state, timers, read, opener,
          config, current, history, fetching,
          now, chain, balance_cache, monitoring_addresses, check, held,
          wallets, health_status, round, active_alerts, node_nonce, regressed,
          strategy, listed, rotation_index, total_rotations, job, moved,
          counters, adding, reading, metrics, overlap,
          weights, multipliers, adjustments, priority_history, changes,
          table, client, page, seen, due, left,
          service_config, phase, loaded, redis_cache, loops, up, ailing, report, flips

cacheVars       == <<use_redis, memory, redis, call, truth, suspect>>
concurrencyVars == <<active_tasks, semaphore, task, adjusts, most>>
breakerVars     == <<state, timers, read, opener>>
gasVars         == <<config, current, history, fetching>>
balanceVars     == <<now, chain, balance_cache, monitoring_addresses, check, held>>
monitorVars     == <<wallets, health_status, round, active_alerts, node_nonce, regressed>>
rotatorVars     == <<strategy, listed, rotation_index, total_rotations, job, moved>>
gatewayVars     == <<counters, adding, reading, metrics, overlap>>
priorityVars    == <<weights, multipliers, adjustments, priority_history, changes>>
queriesVars     == <<table, client, page, seen, due, left>>
serviceVars     == <<service_config, phase, loaded, redis_cache, loops, up, ailing, report, flips>>

Cache    == INSTANCE CacheManager
Permits  == INSTANCE ConcurrencyController
Breaker  == INSTANCE CircuitBreaker
Gas      == INSTANCE GasPriceOracle
Balance  == INSTANCE BalanceChecker
Monitor  == INSTANCE WalletMonitor
Rotator  == INSTANCE WalletRotator
Gateway  == INSTANCE SimpleGateway
Priority == INSTANCE PriorityManager WITH history <- priority_history
Queries  == INSTANCE TransactionQueries
Service  == INSTANCE ServiceManager WITH
                Configs <- ServiceConfigs, config <- service_config, wallets <- loaded

ASSUME SupportAssumption ==
    /\ Cache!CacheAssumption
    /\ Permits!ConcurrencyAssumption
    /\ Breaker!BreakerAssumption
    /\ Gas!GasAssumption
    /\ Balance!BalanceAssumption
    /\ Monitor!MonitorAssumption
    /\ Rotator!RotatorAssumption
    /\ Gateway!GatewayAssumption
    /\ Priority!PriorityAssumption
    /\ Queries!QueryAssumption
    /\ Service!ServiceAssumption

Init ==
    /\ focus \in {"cache", "permits", "breaker", "gas", "balance", "monitor", "rotator",
                  "gateway", "priority", "queries", "service"}
    /\ Cache!Init /\ Permits!Init /\ Breaker!Init /\ Gas!Init
    /\ Balance!Init /\ Monitor!Init /\ Rotator!Init /\ Gateway!Init
    /\ Priority!Init /\ Queries!Init /\ Service!Init
    \* What rests has one initial state.
    /\ focus # "cache" => ~ use_redis
    /\ focus # "permits" => semaphore = [h \in Handles |-> 1 .. (CHOOSE n \in Concurrency : TRUE)]
    /\ focus # "gas" => config = CHOOSE c \in Configs : TRUE
    /\ focus # "balance" => \A a \in Addresses : chain[a] = CHOOSE b \in Balances : TRUE
    /\ focus # "rotator" => strategy = "Random"
    /\ focus # "service" => service_config = (CHOOSE c \in ServiceConfigs : TRUE) /\ up = {}

Next ==
    /\ UNCHANGED focus
    /\ IF focus = "cache" THEN Cache!Next ELSE UNCHANGED cacheVars
    /\ IF focus = "permits" THEN Permits!Next ELSE UNCHANGED concurrencyVars
    /\ IF focus = "breaker" THEN Breaker!Next ELSE UNCHANGED breakerVars
    /\ IF focus = "gas" THEN Gas!Next ELSE UNCHANGED gasVars
    /\ IF focus = "balance" THEN Balance!Next ELSE UNCHANGED balanceVars
    /\ IF focus = "monitor" THEN Monitor!Next ELSE UNCHANGED monitorVars
    /\ IF focus = "rotator" THEN Rotator!Next ELSE UNCHANGED rotatorVars
    /\ IF focus = "gateway" THEN Gateway!Next ELSE UNCHANGED gatewayVars
    /\ IF focus = "priority" THEN Priority!Next ELSE UNCHANGED priorityVars
    /\ IF focus = "queries" THEN Queries!Next ELSE UNCHANGED queriesVars
    /\ IF focus = "service" THEN Service!Next ELSE UNCHANGED serviceVars

vars == <<focus, cacheVars, concurrencyVars, breakerVars, gasVars, balanceVars, monitorVars,
          rotatorVars, gatewayVars, priorityVars, queriesVars, serviceVars>>

Spec == Init /\ [][Next]_vars

-----------------------------------------------------------------------------
\* Of what rests there is nothing to check: it is in its initial state.

\* The types of all of them: among them, that the memory tier never outgrows its
\* limit, that a semaphore hands a permit to one caller at a time, and that the price
\* history stays bounded.
TypeOK ==
    CASE focus = "cache" -> Cache!TypeOK
      [] focus = "permits" -> Permits!TypeOK
      [] focus = "breaker" -> Breaker!TypeOK
      [] focus = "gas" -> Gas!TypeOK
      [] focus = "balance" -> Balance!TypeOK
      [] focus = "monitor" -> Monitor!TypeOK
      [] focus = "rotator" -> Rotator!TypeOK
      [] focus = "gateway" -> Gateway!TypeOK
      [] focus = "priority" -> Priority!TypeOK
      [] focus = "queries" -> Queries!TypeOK
      [] focus = "service" -> Service!TypeOK

\* A stale value comes back from the cache only through a race or a fault of Redis.
StaleNeedsARace == focus = "cache" => Cache!StaleNeedsARace

\* The race of check_resource_limits costs at most a load for each permit but one, of
\* the semaphores of all handles.
LoadBound == focus = "permits" => Permits!LoadBound

\* A circuit that is open with no timer was opened by a failed probe.
StuckOnlyByProbe == focus = "breaker" => Breaker!StuckOnlyByProbe

\* With bounds that leave room, every recommended pair of fees can be sent.
RecommendationsSendable == focus = "gas" => Gas!RecommendationsSendable

\* A cached balance that is answered was the balance a ttl and an answer ago.
HitIsRecent == focus = "balance" => Balance!HitIsRecent

\* The monitor sees a nonce gap only of a node that takes a nonce back.
GapNeedsRegression == focus = "monitor" => Monitor!GapNeedsRegression

\* Rotating prefers no wallet: equal counts, and round robin in the list's own order.
RotationsBalanced == focus = "rotator" => Rotator!RotationsBalanced

\* The simple gateway's counters disagree by the requests during a reading at most.
ReportErrorBounded == focus = "gateway" => Gateway!ReportErrorBounded

\* The factors of a transaction never change the priority recommended for it.
FactorsNeverDecide == focus = "priority" => Priority!FactorsNeverDecide

\* Reading page after page misses no row but for a named reason.
PagesMissNothing == focus = "queries" => Queries!PagesMissNothing

\* A health report is true of its services, and of their configuration.
ReportTruthful == focus = "service" => Service!ReportTruthful
=============================================================================
