---------------------------- MODULE ServiceManager ----------------------------
(***************************************************************************)
(* services/mod.rs: ServiceManager::new from a configuration, the loops in *)
(* the background, shutdown, and the two health reports, the manager's own *)
(* and that of GET /health.                                                *)
(*                                                                         *)
(* A report asks one service after the other, so it is put together from   *)
(* answers of different moments.                                           *)
(***************************************************************************)
EXTENDS Settings, Sequences, SequencesExt, FiniteSets

CONSTANTS
    Configs,    \* what the service may be started with
    Usable,     \* private keys that decode to a signing key of which add_wallet makes a
                \* wallet: none as the code stands, where pool.rs:59 panics for each and
                \* ends the start, those that decode once that line is mended
    MaxFlips,   \* bound: changes of the world
    MaxStarts   \* bound: calls of start_background_tasks

VARIABLES
    config,
    phase,        \* how far ServiceManager::new is, or what came of it
    wallets,      \* the pool's wallets, each under the place of its key in the list
    redis_cache,  \* is it Some?
    loops,        \* how many of each background loop there are
    up,           \* what answers of the world
    ailing,       \* has use made all of the pool's wallets unhealthy?
    report,       \* the health report in progress; history: what of it has served,
                  \* and failed, at some moment since it began
    flips

\* A key of hexadecimal digits, but not of 32 bytes; anything not in Usable is else
\* refused: no hexadecimal digits, or no scalar of the curve.
Short == "short"

-----------------------------------------------------------------------------
\* ServiceManager::new

Remote == {"database", "redis", "ethereum_provider"}

NoReport == [by |-> "nobody"]
NoWallets == [i \in {} |-> Short]

Init ==
    /\ config \in Configs
    /\ phase = "database"
    /\ wallets = NoWallets
    /\ redis_cache = FALSE
    /\ loops = 0
    /\ up \in SUBSET Remote
    /\ ailing = FALSE
    /\ report = NoReport
    /\ flips = 0

World == <<config, up, ailing, report, flips>>

\* Connection, migrations and SELECT 1: whatever fails ends the start.
OpenDatabase ==
    /\ phase = "database"
    /\ phase' = IF config.database.url # "" /\ "database" \in up THEN "redis" ELSE "refused"
    /\ UNCHANGED <<wallets, redis_cache, loops, World>>

\* Without Redis the caches work in memory only, for as long as the service runs.
OpenRedis ==
    /\ phase = "redis"
    /\ redis_cache' = ("redis" \in up)
    /\ phase' = "wallets"
    /\ UNCHANGED <<wallets, loops, World>>

\* load_wallets_from_config: a key of the wrong length is passed over, any other that
\* cannot be used ends the start, with an error or a panic.  A key that is listed twice
\* is two wallets.
Loaded(keys) == [i \in {j \in DOMAIN keys : keys[j] # Short} |-> keys[i]]

LoadWallets ==
    /\ phase = "wallets"
    /\ LET keys == config.wallets.private_keys IN
       IF ToSet(keys) \subseteq Usable \cup {Short}
       THEN /\ wallets' = Loaded(keys)
            /\ phase' = "provider"
       ELSE /\ phase' = "refused"
            /\ UNCHANGED wallets
    /\ UNCHANGED <<redis_cache, loops, World>>

\* The provider's URL has to be one, but nobody has to answer there.
OpenProvider ==
    /\ phase = "provider"
    /\ phase' = IF config.ethereum.rpc_url # "" THEN "running" ELSE "refused"
    /\ UNCHANGED <<wallets, redis_cache, loops, World>>

\* start_background_tasks: the executor's loop, the tracker's, the oracle's and the
\* monitor's, the last with a list of wallets that nobody ever fills.
StartBackgroundTasks ==
    /\ phase = "running"
    /\ loops < MaxStarts
    /\ loops' = loops + 1
    /\ UNCHANGED <<phase, wallets, redis_cache, World>>

-----------------------------------------------------------------------------
\* The health reports

\* What health_check of services/mod.rs and of api/gateway.rs ask, in their order.
\* The latter looks at the queue and the cache too, which always answer.
Asked(by) ==
    IF by = "manager"
    THEN <<"database">> \o (IF redis_cache THEN <<"redis">> ELSE << >>)
            \o <<"wallet_pool", "task_scheduler", "ethereum_provider">>
    ELSE <<"database", "wallet_pool", "ethereum_provider">>

\* The services that are all right, in the state that the arguments give.  Nobody
\* holds a permit of the scheduler: start_processing has no caller.
Serving(remote, unhealthy, at) ==
    (IF at = "shut" THEN remote \ {"database"} ELSE remote)
        \cup (IF DOMAIN wallets # {} /\ ~ unhealthy THEN {"wallet_pool"} ELSE {})
        \cup (IF config.queue.worker_threads > 0 THEN {"task_scheduler"} ELSE {})

Begin(by) ==
    /\ phase \in {"running", "shut"}
    /\ report.by = "nobody"
    /\ LET serving == Serving(up, ailing, phase) IN
       report' = [by |-> by, todo |-> Asked(by), overall_status |-> "healthy",
                  served |-> serving, failed |-> ToSet(Asked(by)) \ serving]
    /\ UNCHANGED <<config, phase, wallets, redis_cache, loops, up, ailing, flips>>

\* Mutation: GET /health counts the database with the rest.
AllAlike(by, service) == "degraded"

\* What a failing service makes of the whole: only GET /health has a word for the
\* database, and the next one overwrites it.
Blame(by, service) ==
    IF by = "gateway" /\ service = "database" THEN "unhealthy" ELSE "degraded"

Ask ==
    /\ report.by # "nobody"
    /\ report.todo # << >>
    /\ LET service == Head(report.todo) IN
       report' = [report EXCEPT
           !.todo = Tail(@),
           !.overall_status = IF service \in Serving(up, ailing, phase) THEN @
                              ELSE Blame(report.by, service)]
    /\ UNCHANGED <<config, phase, wallets, redis_cache, loops, up, ailing, flips>>

\* GET /health answers 503 for unhealthy, and 200 for healthy and degraded.
Answer ==
    /\ report.by # "nobody"
    /\ report.todo = << >>
    /\ report' = NoReport
    /\ UNCHANGED <<config, phase, wallets, redis_cache, loops, up, ailing, flips>>

-----------------------------------------------------------------------------
\* What changes in the middle of a report

Changed(remote, unhealthy, at) ==
    /\ up' = remote /\ ailing' = unhealthy /\ phase' = at
    /\ report' =
        IF report.by = "nobody" THEN report
        ELSE LET serving == Serving(remote, unhealthy, at) IN
             [report EXCEPT !.served = @ \cup serving,
                            !.failed = @ \cup (ToSet(Asked(report.by)) \ serving)]
    /\ UNCHANGED <<config, wallets, redis_cache, loops>>

\* shutdown closes the database's pool; the loops go on.
Shutdown ==
    /\ phase = "running"
    /\ Changed(up, ailing, "shut")
    /\ UNCHANGED flips

\* Something of the world stops or starts to answer.
Flip(s) ==
    /\ flips < MaxFlips /\ flips' = flips + 1
    /\ Changed(IF s \in up THEN up \ {s} ELSE up \cup {s}, ailing, phase)

\* Transactions fail, or succeed again.
Ail ==
    /\ flips < MaxFlips /\ flips' = flips + 1
    /\ phase \in {"running", "shut"} /\ DOMAIN wallets # {}
    /\ Changed(up, ~ ailing, phase)

Next ==
    \/ OpenDatabase \/ OpenRedis \/ LoadWallets \/ OpenProvider
    \/ StartBackgroundTasks \/ Shutdown
    \/ \E by \in {"manager", "gateway"} : Begin(by)
    \/ Ask \/ Answer
    \/ \E s \in Remote : Flip(s)
    \/ Ail

-----------------------------------------------------------------------------
\* Properties

\* Every variable has its type.
TypeOK ==
    /\ config \in Configs
    /\ phase \in {"database", "redis", "wallets", "provider", "running", "shut", "refused"}
    /\ \A i \in DOMAIN wallets : wallets[i] \in Usable
    /\ redis_cache \in BOOLEAN /\ ailing \in BOOLEAN
    /\ loops \in 0 .. MaxStarts
    /\ up \subseteq Remote
    /\ report # NoReport =>
        /\ report.by \in {"manager", "gateway"}
        /\ report.overall_status \in {"healthy", "degraded", "unhealthy"}
        /\ report.failed \subseteq ToSet(Asked(report.by))
    /\ flips \in 0 .. MaxFlips

\* A finished report is true of its services, although each was asked at a moment of
\* its own and any of them may have changed since.  Of a database that failed all
\* the time GET /health says so, unless the wallets or the provider fail as well:
\* the more fails, the better the answer.  And a configuration that validate accepts
\* leaves no scheduler without permits, and a pool empty for the length of all its
\* keys only.
ReportTruthful ==
    report # NoReport /\ report.todo = << >> =>
        LET asked == ToSet(Asked(report.by)) IN
        /\ report.overall_status = "healthy" => asked \subseteq report.served
        /\ report.overall_status # "healthy" => report.failed # {}
        /\ report.overall_status = "unhealthy" => "database" \in report.failed
        /\ report.by = "gateway" /\ "database" \notin report.served =>
            report.overall_status = "unhealthy" \/ report.failed # {"database"}
        /\ Validate(config) = {} =>
            /\ "task_scheduler" \notin report.failed
            /\ DOMAIN wallets = {} => ToSet(config.wallets.private_keys) = {Short}

ServiceAssumption ==
    /\ Short \notin Usable
    /\ \A c \in Configs : /\ c.queue.worker_threads \in Nat
                         /\ c.wallets.private_keys \in Seq(STRING)
    /\ MaxFlips \in Nat /\ MaxStarts \in Nat
=============================================================================
