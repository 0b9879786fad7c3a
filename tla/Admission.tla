----------------------------- MODULE Admission -----------------------------
(***************************************************************************)
(* submit_transaction of api/gateway.rs from the first byte to the queue:  *)
(* the rate limiter's middleware, the signature verifier, the replay       *)
(* protection, the availability of wallets, the database, the scheduler;   *)
(* the batch endpoint, which goes from the rate limiter to the database;   *)
(* and the executor, whose results decide which wallets are healthy.       *)
(* One handler is one HTTP request in flight; it is answered once.         *)
(*                                                                         *)
(* The queue's permits are read too, but nothing that runs ever takes one  *)
(* (start_processing has no caller): that refusal cannot happen.           *)
(***************************************************************************)
EXTENDS Naturals, Sequences, FiniteSets

CONSTANTS
    Handlers, Identifiers, Addresses, Nonces,
    Minute, Hour, Day, PerMinute, PerHour, PerDay, \* of RateLimiter
    Window,      \* of ReplayProtection
    MaxRequests, \* bound on the requests
    MaxTime,     \* bound on the clock
    Wallets,     \* the pool's, from the start on
    Pasts        \* what a wallet may have behind it: [total, failed]

VARIABLES
    requests, admitted, \* of RateLimiter
    entries, recorded,  \* of ReplayProtection
    now,                \* the clock
    handler,            \* per handler: the request and how far it is
    wallets,            \* WalletInfo: total_transactions and failed_transactions
    waiting,            \* tasks in the queue or being executed
    stored,             \* rows that submit_transaction has stored, per user and nonce
    arrivals            \* counted for the bound

Rate   == INSTANCE RateLimiter
Replay == INSTANCE ReplayProtection

ASSUME AdmissionAssumption ==
    /\ Rate!RateAssumption /\ Replay!ReplayAssumption
    /\ {MaxRequests, MaxTime} \subseteq Nat
    /\ Wallets # {} /\ IsFiniteSet(Handlers)
    /\ \A past \in Pasts : past \in [total : Nat, failed : Nat] /\ past.failed <= past.total

limiter    == <<requests, admitted>>
protection == <<entries, recorded>>
pool       == <<wallets, waiting>>
vars == <<limiter, protection, now, handler, pool, stored, arrivals>>

Idle  == [at |-> "idle"]
Batch == [at |-> "batch"]

Init ==
    /\ Rate!Init /\ Replay!Init
    /\ now = 0
    /\ handler = [h \in Handlers |-> Idle]
    /\ wallets \in [Wallets -> Pasts]
    /\ waiting = 0
    /\ stored = [r \in Addresses \X Nonces |-> 0] /\ arrivals = 0

-----------------------------------------------------------------------------
\* The codes of the answers show in the names of the disjuncts only.
Answered(h)    == handler' = [handler EXCEPT ![h] = Idle]
Proceed(h, at) == handler' = [handler EXCEPT ![h].at = at]

\* rate_limit_middleware, before the body is read.  What it refuses never gets to
\* the handler.
Arrive(h, i, a, n) ==
    /\ handler[h] = Idle
    /\ arrivals < MaxRequests
    /\ arrivals' = arrivals + 1
    /\ \E allowed \in BOOLEAN :
          /\ Rate!CheckRateLimit(i, now, allowed)
          /\ handler' = IF ~ allowed THEN handler ELSE
                [handler EXCEPT ![h] = [at |-> "verify", user |-> a, nonce |-> n, stamp |-> now]]
    /\ UNCHANGED <<protection, now, pool, stored>>

\* verify_transaction_signature and its verify_nonce.  The handler asks a clone whose
\* nonce_cache is thrown away: every nonce but 0 is new to it.  valid is the rest, its
\* age and form, and so is all that the handler has parsed and validated before.
VerifyTransactionSignature(nonce, valid) == valid /\ nonce > 0

Verify(h, valid) ==
    /\ handler[h].at = "verify"
    /\ IF VerifyTransactionSignature(handler[h].nonce, valid)
       THEN Proceed(h, "stamp") ELSE Answered(h)
    /\ UNCHANGED <<limiter, protection, now, pool, stored, arrivals>>

\* check_and_record reads the clock ...
ReadClock(h) ==
    /\ handler[h].at = "stamp"
    /\ handler' = [handler EXCEPT ![h].at = "replay", ![h].stamp = now]
    /\ UNCHANGED <<limiter, protection, now, pool, stored, arrivals>>

\* Mutation: the refusal is only logged.
ReplayLogged(h) ==
    /\ handler[h].at = "replay"
    /\ \E fresh \in BOOLEAN :
          Replay!CheckAndRecord(handler[h].user, handler[h].nonce, handler[h].stamp, now, fresh)
    /\ Proceed(h, "wallets")
    /\ UNCHANGED <<limiter, now, pool, stored, arrivals>>

\* ... and then takes the lock.
CheckReplay(h) ==
    /\ handler[h].at = "replay"
    /\ \E fresh \in BOOLEAN :
          /\ Replay!CheckAndRecord(handler[h].user, handler[h].nonce, handler[h].stamp, now, fresh)
          /\ IF fresh THEN Proceed(h, "wallets") ELSE Answered(h)
    /\ UNCHANGED <<limiter, now, pool, stored, arrivals>>

\* is_healthy: more than four in five have succeeded; nothing makes a wallet inactive.
Healthy(w) ==
    \/ wallets[w].total = 0
    \/ 5 * (wallets[w].total - wallets[w].failed) > 4 * wallets[w].total

HealthyWallets == {w \in Wallets : Healthy(w)}

\* Mutation: wallets without health do as well.
WalletsUnchecked(h) ==
    /\ handler[h].at = "wallets"
    /\ Proceed(h, "store")
    /\ UNCHANGED <<limiter, protection, now, pool, stored, arrivals>>

CheckWallets(h) ==
    /\ handler[h].at = "wallets"
    /\ IF HealthyWallets # {} THEN Proceed(h, "store") ELSE Answered(h)
    /\ UNCHANGED <<limiter, protection, now, pool, stored, arrivals>>

\* create_transaction, which may fail.
Store(h, reply) ==
    /\ handler[h].at = "store"
    /\ stored' = IF reply THEN [stored EXCEPT ![<<handler[h].user, handler[h].nonce>>] = @ + 1]
                         ELSE stored
    /\ IF reply THEN Proceed(h, "schedule") ELSE Answered(h)
    /\ UNCHANGED <<limiter, protection, now, pool, arrivals>>

\* schedule_task, which may find a full queue: TaskScheduler.
Schedule(h, reply) ==
    /\ handler[h].at = "schedule"
    /\ waiting' = IF reply THEN waiting + 1 ELSE waiting
    /\ Answered(h)
    /\ UNCHANGED <<limiter, protection, now, wallets, stored, arrivals>>

-----------------------------------------------------------------------------
\* submit_batch_transactions: the same middleware, and then none of the checks.

ArriveBatch(h, i) ==
    /\ handler[h] = Idle
    /\ arrivals < MaxRequests
    /\ arrivals' = arrivals + 1
    /\ \E allowed \in BOOLEAN :
          /\ Rate!CheckRateLimit(i, now, allowed)
          /\ handler' = IF allowed THEN [handler EXCEPT ![h] = Batch] ELSE handler
    /\ UNCHANGED <<protection, now, pool, stored>>

\* process_single_transaction of its one transaction: a row and a task, or an error of
\* the database or the scheduler.
ProcessSingle(h, reply) ==
    /\ handler[h] = Batch
    /\ waiting' = IF reply THEN waiting + 1 ELSE waiting
    /\ Answered(h)
    /\ UNCHANGED <<limiter, protection, now, wallets, stored, arrivals>>

-----------------------------------------------------------------------------
\* The surroundings: the executor, a cancellation, the cleanup task, which also reads
\* the clock before it takes the lock, and time.

\* execute_task has sent with the wallet that the pool chose, healthy or not, or failed
\* to: release_wallet records it.  RelayPipeline and WalletPool have the steps.
Execute(w, success) ==
    /\ waiting > 0
    /\ waiting' = waiting - 1
    /\ wallets' = [wallets EXCEPT ![w] =
           [total |-> @.total + 1, failed |-> @.failed + IF success THEN 0 ELSE 1]]
    /\ UNCHANGED <<limiter, protection, now, handler, stored, arrivals>>

\* cancel_task, before the executor takes it.
Cancel ==
    /\ waiting > 0
    /\ waiting' = waiting - 1
    /\ UNCHANGED <<limiter, protection, now, handler, wallets, stored, arrivals>>

CleanUp ==
    /\ \E stamp \in 0 .. now : Replay!Cleanup(stamp)
    /\ UNCHANGED <<limiter, now, handler, pool, stored, arrivals>>

Tick ==
    /\ now < MaxTime
    /\ now' = now + 1
    /\ UNCHANGED <<limiter, protection, handler, pool, stored, arrivals>>

Next ==
    \/ \E h \in Handlers :
          \/ \E i \in Identifiers, a \in Addresses, n \in Nonces : Arrive(h, i, a, n)
          \/ \E i \in Identifiers : ArriveBatch(h, i)
          \/ \E ok \in BOOLEAN :
                Verify(h, ok) \/ Store(h, ok) \/ Schedule(h, ok) \/ ProcessSingle(h, ok)
          \/ ReadClock(h) \/ CheckReplay(h) \/ CheckWallets(h)
    \/ \E w \in Wallets, success \in BOOLEAN : Execute(w, success)
    \/ Cancel \/ CleanUp \/ Tick

Spec == Init /\ [][Next]_vars

-----------------------------------------------------------------------------
\* Properties

\* Every variable has its type, and nothing in the replay protection is younger
\* than the clock.
TypeOK ==
    /\ requests \in [Identifiers -> SUBSET [at : 0 .. now, nth : Nat]]
    /\ entries \in [Addresses -> SUBSET [nonce : Nonces, timestamp : 0 .. now]]
    /\ now \in 0 .. MaxTime
    /\ \A h \in Handlers : handler[h] \in {Idle, Batch} \/
          handler[h] \in [at : {"verify", "stamp", "replay", "wallets", "store", "schedule"},
                          user : Addresses, nonce : Nonces, stamp : 0 .. now]
    /\ wallets \in [Wallets -> [total : Nat, failed : Nat]]
    /\ waiting \in 0 .. MaxRequests
    /\ stored \in [Addresses \X Nonces -> Nat]

\* RateLimiter: the windows hold for the requests of all handlers together.
RateBound == Rate!RateBound(now)

\* ReplayProtection: handlers and cleanup that come to the lock with an old clock
\* let no nonce through twice in a window.
NonceOncePerWindow == Replay!NonceOncePerWindow

\* What the clean-ups drop was of no use any more: a nonce recorded less than a
\* window ago is still known to every handler that reads the clock now.
RecentNonceIsKnown ==
    \A k \in DOMAIN recorded :
        Replay!Live(recorded[k], now)
            => Replay!IsNonceUsed(recorded[k].user, recorded[k].nonce, now)

\* A recorded nonce is good for one row in the database, and so for one task,
\* however many handlers carry it at the same time.
RowPerRecord ==
    \A a \in Addresses, n \in Nonces :
        stored[a, n] <= Cardinality({k \in DOMAIN recorded : recorded[k].user = a
                                                          /\ recorded[k].nonce = n})

\* No wallet is healthy, and nothing is under way that could change one.
Shut ==
    /\ HealthyWallets = {}
    /\ waiting = 0
    /\ \A h \in Handlers : handler[h].at \notin {"store", "schedule"}

\* Once no wallet is healthy and the last task is done, the service is shut for good:
\* submit_transaction refuses each request, so no result ever makes a wallet healthy
\* again.  Only the batch endpoint, which does not ask, can open it.
OnlyABatchReopens ==
    [][Shut => Shut' \/ \E h \in Handlers : handler[h] = Batch /\ handler'[h] = Idle]_vars

\* The README's table of error codes: after WALLET_UNAVAILABLE, wait and retry.  The
\* nonce has been recorded before the wallets are looked at, so the retry is
\* taken for a replay.
RetryIsWelcome ==
    [][\A h \in Handlers :
          handler[h].at = "replay" /\ handler'[h] = Idle =>
             \/ stored[handler[h].user, handler[h].nonce] > 0
             \/ \E g \in Handlers \ {h} : handler[g] \notin {Idle, Batch}
                   /\ handler[g].user = handler[h].user /\ handler[g].nonce = handler[h].nonce]_vars
=============================================================================
