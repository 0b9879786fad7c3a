--------------------------- MODULE RelayPipeline ---------------------------
(***************************************************************************)
(* The way of a transaction through the relayer: the HTTP handlers of      *)
(* api/gateway.rs that submit and cancel it, the TaskScheduler they share  *)
(* with the one execution loop of queue/executor.rs, the wallet the        *)
(* executor sends it with, the tracking loop of queue/tracker.rs, the row  *)
(* the client reads in database/mod.rs, and the chain all of it acts on.   *)
(*                                                                         *)
(* One action is what happens between two awaits that others can observe:  *)
(* a critical section of the scheduler, one database statement, one call   *)
(* of the Ethereum node, one access to the tracker's map.  The database    *)
(* and the node may fail at each call.  A crash loses what is in memory.   *)
(***************************************************************************)
EXTENDS Naturals, FiniteSets

CONSTANTS
    Tasks, Submitters, Cancellers, Weights, MaxQueueSize, MaxRetries, None,
    Executor,           \* the execution loop, the only worker of the scheduler
    Wallets,            \* wallet addresses
    ConfirmationBlocks, \* confirmation_blocks
    MaxHeight,          \* bound on the chain's length
    MaxCrashes          \* bound on the restarts

VARIABLES
    priority_queue, processing_queue, completed_tasks, failed_tasks,
    sub, wpc, wtask, can, accepted, cancelled, attempts, \* of TaskScheduler
    row,        \* transactions.status, or None: what the client is told
    gw,         \* per submitter: the stored request not yet scheduled
    crow,       \* per canceller: the task whose row it is about to update
    wallets,    \* the pool's active wallets
    usage,      \* the pool's counters per wallet
    stage,      \* where execute_task is
    wallet,     \* the wallet it has acquired
    nonce,      \* the nonce it has read
    tracked,    \* keys of the tracker's pending_transactions
    recent,     \* those whose last_checked is younger than check_interval
    scan,       \* what is left of the tracking loop's snapshot
    check,      \* the entry under check and what is known of it
    mempool, mined, receipts, height, \* the chain
    crashes,
    \* history, read by the properties only
    sends,      \* how often a task's transaction was handed to the node
    leaked      \* tasks whose row a fault has left without an owner

S == INSTANCE TaskScheduler WITH
        Workers <- {Executor}, Readers <- {}, MaxConcurrent <- 1, RetryDelay <- 0,
        MaxTime <- 0, MaxClears <- 0, now <- 0, rpc <- << >>, rid <- << >>,
        absent <- << >>, janitor <- 0, cleared <- {}

\* The statuses the CHECK constraint of transactions.status admits.
RowStatuses == {"pending", "processing", "confirmed", "failed", "cancelled"}
Final       == {"confirmed", "failed", "cancelled"}

ASSUME RelayAssumption ==
    /\ S!SchedulerAssumption
    /\ None \notin Tasks \cup Wallets \cup RowStatuses
    /\ ConfirmationBlocks \in Nat \ {0}
    /\ {MaxHeight, MaxCrashes} \subseteq Nat

tasks     == <<priority_queue, processing_queue, completed_tasks, failed_tasks,
               wpc, wtask, accepted, cancelled, attempts>>
scheduler == <<tasks, sub, can>>
handlers  == <<gw, crow>>
executor  == <<wallets, usage, stage, wallet, nonce>>
tracker   == <<tracked, recent, scan, check>>
chain     == <<mempool, mined, receipts, height>>
vars      == <<scheduler, row, handlers, executor, tracker, chain, crashes, sends, leaked>>

NoCheck  == [id |-> None, verdict |-> "none"]
NoUsage  == [w \in Wallets |-> [ok |-> 0, failed |-> 0]]

\* load_wallets_from_config skips a key of the wrong length: the pool may be empty.
Init ==
    /\ priority_queue = {} /\ processing_queue = {}
    /\ completed_tasks = {} /\ failed_tasks = {}
    /\ sub = [s \in Submitters |-> S!NoSubmission]
    /\ wpc = [w \in {Executor} |-> "idle"] /\ wtask = [w \in {Executor} |-> None]
    /\ can = [c \in Cancellers |-> S!NoCancel]
    /\ accepted = {} /\ cancelled = {} /\ attempts = [t \in Tasks |-> 0]
    /\ row = [t \in Tasks |-> None]
    /\ gw = [s \in Submitters |-> None] /\ crow = [c \in Cancellers |-> None]
    /\ wallets \in {{}, Wallets} /\ usage = NoUsage
    /\ stage = "idle" /\ wallet = None /\ nonce = 0
    /\ tracked = {} /\ recent = {} /\ scan = {} /\ check = NoCheck
    /\ mempool = {} /\ mined = [w \in Wallets |-> 0] /\ receipts = << >> /\ height = 0
    /\ crashes = 0
    /\ sends = [t \in Tasks |-> 0] /\ leaked = {}

-----------------------------------------------------------------------------
\* The database: one statement, which may fail.

\* update_transaction_status is an UPDATE by id without a condition on the old
\* status; a status outside the constraint is an error like any other.
UpdateRow(t, status, reply) ==
    row' = IF reply /\ status \in RowStatuses THEN [row EXCEPT ![t] = status] ELSE row

\* The fault leaves a row that nobody will bring to an end.
Leak(t, fault) == leaked' = IF fault THEN leaked \cup {t} ELSE leaked

-----------------------------------------------------------------------------
\* submit_transaction, and process_single_transaction for each of a batch, which
\* does not look at the wallet pool first.

\* create_transaction.  When the INSERT is committed and its reply is lost, the
\* client is told of an error and the row stays.
Store(s, t, reply) ==
    /\ gw[s] = None
    /\ row[t] = None
    /\ row' = [row EXCEPT ![t] = "pending"]
    /\ gw' = IF reply THEN [gw EXCEPT ![s] = t] ELSE gw
    /\ Leak(t, ~reply)
    /\ UNCHANGED <<scheduler, crow, executor, tracker, chain, crashes, sends>>

\* A full queue is answered with 503; the row stays.
Schedule(s) ==
    /\ \E p \in Weights : S!ScheduleCheck(s, gw[s], p)
    /\ gw' = [gw EXCEPT ![s] = IF sub' = sub THEN None ELSE @]
    /\ Leak(gw[s], sub' = sub)
    /\ UNCHANGED <<row, crow, executor, tracker, chain, crashes, sends>>

Enqueue(s) ==
    /\ S!SchedulePush(s)
    /\ gw' = [gw EXCEPT ![s] = None]
    /\ UNCHANGED <<row, crow, executor, tracker, chain, crashes, sends, leaked>>

\* A client that hangs up has its handler dropped at the next await: here after the
\* INSERT and before the task is in the queue.
DropSubmit(s) ==
    /\ gw[s] # None
    /\ gw' = [gw EXCEPT ![s] = None]
    /\ sub' = [sub EXCEPT ![s] = S!NoSubmission]
    /\ Leak(gw[s], TRUE)
    /\ UNCHANGED <<tasks, can, row, crow, executor, tracker, chain, crashes, sends>>

-----------------------------------------------------------------------------
\* cancel_transaction

CancelFirst(c, t) ==
    /\ crow[c] = None
    /\ S!CancelPending(c, t)
    /\ UNCHANGED <<row, handlers, executor, tracker, chain, crashes, sends, leaked>>

\* Mutation: the answer of cancel_task is ignored.
CancelAnyway(c) ==
    /\ S!CancelProcessing(c)
    /\ crow' = [crow EXCEPT ![c] = can[c].id]
    /\ UNCHANGED <<row, gw, executor, tracker, chain, crashes, sends, leaked>>

\* Only a task that cancel_task found gets its row updated.
CancelSecond(c) ==
    /\ S!CancelProcessing(c)
    /\ crow' = [crow EXCEPT ![c] =
                  IF can[c].hit \/ can[c].id \in S!Ids(processing_queue)
                  THEN can[c].id ELSE None]
    /\ UNCHANGED <<row, gw, executor, tracker, chain, crashes, sends, leaked>>

CancelRow(c, reply) ==
    /\ crow[c] # None
    /\ UpdateRow(crow[c], "cancelled", reply)
    /\ Leak(crow[c], ~reply)
    /\ crow' = [crow EXCEPT ![c] = None]
    /\ UNCHANGED <<scheduler, gw, executor, tracker, chain, crashes, sends>>

\* The handler is dropped between the two sections of cancel_task, or before the
\* row of the task it has cancelled is updated.
DropCancel(c) ==
    LET stored == crow[c] # None
    IN  /\ stored \/ can[c].id # None
        /\ can' = [can EXCEPT ![c] = S!NoCancel]
        /\ crow' = [crow EXCEPT ![c] = None]
        /\ Leak(IF stored THEN crow[c] ELSE can[c].id, stored \/ can[c].hit)
        /\ UNCHANGED <<tasks, sub, row, gw, executor, tracker, chain, crashes, sends>>

-----------------------------------------------------------------------------
\* start_execution_loop and execute_task

Current == wtask[Executor].id

Pop ==
    /\ S!GetNextTask(Executor)
    /\ stage' = "acquire"
    /\ UNCHANGED <<row, handlers, wallets, usage, wallet, nonce, tracker, chain,
                   crashes, sends, leaked>>

\* Without a wallet the task fails, and its row is not updated.
Acquire ==
    /\ stage = "acquire"
    /\ IF wallets = {}
       THEN stage' = "failed" /\ UNCHANGED wallet
       ELSE stage' = "nonce" /\ wallet' \in wallets
    /\ Leak(Current, wallets = {})
    /\ UNCHANGED <<scheduler, row, handlers, wallets, usage, nonce, tracker, chain,
                   crashes, sends>>

\* get_transaction_count at the latest block: what is mined, not what is sent.
ReadNonce(reply) ==
    /\ stage = "nonce"
    /\ IF reply THEN stage' = "send" /\ nonce' = mined[wallet]
                ELSE stage' = "mark failed" /\ UNCHANGED nonce
    /\ UNCHANGED <<scheduler, row, handlers, wallets, usage, wallet, tracker, chain,
                   crashes, sends, leaked>>

\* A node keeps one transaction per wallet and nonce: a second one is refused or
\* takes the place of the first, which the tracker then waits for in vain.
Rivals == {tx \in mempool : tx.wallet = wallet /\ tx.nonce = nonce}

\* The node takes the transaction, and the reply arrives or is lost.
SendTaken(reply) ==
    /\ stage = "send"
    /\ nonce >= mined[wallet]
    /\ mempool' = (mempool \ Rivals)
                    \cup {[id |-> Current, wallet |-> wallet, nonce |-> nonce]}
    /\ sends' = [sends EXCEPT ![Current] = @ + 1]
    /\ stage' = IF reply THEN "mark submitted" ELSE "mark failed"
    /\ leaked' = leaked \cup {tx.id : tx \in Rivals}
    /\ UNCHANGED <<scheduler, row, handlers, wallets, usage, wallet, nonce, tracker,
                   mined, receipts, height, crashes>>

SendRefused ==
    /\ stage = "send"
    /\ stage' = "mark failed"
    /\ UNCHANGED <<scheduler, row, handlers, wallets, usage, wallet, nonce, tracker,
                   chain, crashes, sends, leaked>>

MarkSubmitted(reply) ==
    /\ stage = "mark submitted"
    /\ UpdateRow(Current, "submitted", reply)
    /\ stage' = "track"
    /\ UNCHANGED <<scheduler, handlers, wallets, usage, wallet, nonce, tracker,
                   chain, crashes, sends, leaked>>

\* add_transaction
Track ==
    /\ stage = "track"
    /\ tracked' = tracked \cup {Current}
    /\ recent' = recent \cup {Current}
    /\ stage' = "release"
    /\ UNCHANGED <<scheduler, row, handlers, wallets, usage, wallet, nonce, scan,
                   check, chain, crashes, sends, leaked>>

MarkFailed(reply) ==
    /\ stage = "mark failed"
    /\ UpdateRow(Current, "failed", reply)
    /\ Leak(Current, ~reply)
    /\ stage' = "release failed"
    /\ UNCHANGED <<scheduler, handlers, wallets, usage, wallet, nonce, tracker,
                   chain, crashes, sends>>

\* Mutation: the error arm returns without release_wallet.
ReleaseOnSuccess ==
    /\ stage \in {"release", "release failed"}
    /\ usage' = IF stage = "release" THEN [usage EXCEPT ![wallet].ok = @ + 1] ELSE usage
    /\ stage' = IF stage = "release" THEN "succeeded" ELSE "failed"
    /\ wallet' = None /\ nonce' = 0
    /\ UNCHANGED <<scheduler, row, handlers, wallets, tracker, chain, crashes,
                   sends, leaked>>

\* release_wallet, on both arms.
Release ==
    /\ stage \in {"release", "release failed"}
    /\ usage' = IF stage = "release" THEN [usage EXCEPT ![wallet].ok = @ + 1]
                                     ELSE [usage EXCEPT ![wallet].failed = @ + 1]
    /\ stage' = IF stage = "release" THEN "succeeded" ELSE "failed"
    /\ wallet' = None /\ nonce' = 0
    /\ UNCHANGED <<scheduler, row, handlers, wallets, tracker, chain, crashes,
                   sends, leaked>>

\* Mutation: a retry that works, by putting the task back before it is completed.
CompleteOrRequeue ==
    /\ stage \in {"succeeded", "failed"}
    /\ IF stage = "failed" /\ wtask[Executor].retry_count < MaxRetries
       THEN /\ priority_queue' = priority_queue \cup {S!Counted(wtask[Executor])}
            /\ wpc' = [wpc EXCEPT ![Executor] = "idle"]
            /\ wtask' = [wtask EXCEPT ![Executor] = None]
            /\ UNCHANGED <<processing_queue, completed_tasks, failed_tasks, sub,
                           can, accepted, cancelled, attempts>>
       ELSE S!CompleteRecord(Executor, stage = "succeeded")
    /\ stage' = "idle"
    /\ UNCHANGED <<row, handlers, wallets, usage, wallet, nonce, tracker, chain,
                   crashes, sends, leaked>>

Complete ==
    /\ stage \in {"succeeded", "failed"}
    /\ S!CompleteRecord(Executor, stage = "succeeded")
    /\ stage' = "idle"
    /\ UNCHANGED <<row, handlers, wallets, usage, wallet, nonce, tracker, chain,
                   crashes, sends, leaked>>

CompleteEnd ==
    /\ S!CompleteRemove(Executor)
    /\ UNCHANGED <<row, handlers, executor, tracker, chain, crashes, sends, leaked>>

\* "If execution failed and retries are available, retry": retry_task, after
\* complete_task.
Retry ==
    /\ S!RetryTake(Executor)
    /\ UNCHANGED <<row, handlers, executor, tracker, chain, crashes, sends, leaked>>

-----------------------------------------------------------------------------
\* start_tracking_loop and process_pending_transactions

Examine(c) == check' = c

\* interval.tick and the snapshot of the map.  An entry checked less than one
\* check_interval ago may be passed over, once.
TrackTick ==
    /\ scan = {} /\ check = NoCheck
    /\ tracked # {}
    /\ \E skipped \in SUBSET (recent \cap tracked) : scan' = tracked \ skipped
    /\ recent' = {}
    /\ UNCHANGED <<scheduler, row, handlers, executor, tracked, check, chain, crashes,
                   sends, leaked>>

\* Mutation: a missing receipt is taken for one.
ReceiptAssumed(t, reply) ==
    /\ check = NoCheck
    /\ t \in scan
    /\ scan' = scan \ {t}
    /\ Examine(IF reply THEN [id |-> t, verdict |-> "mined"] ELSE NoCheck)
    /\ UNCHANGED <<scheduler, row, handlers, executor, tracked, recent, chain, crashes,
                   sends, leaked>>

\* check_transaction, first call of the node: get_transaction_receipt.  An error
\* ends the check of this entry, and so does a receipt that is not there yet.
TrackReceipt(t, reply) ==
    /\ check = NoCheck
    /\ t \in scan
    /\ scan' = scan \ {t}
    /\ Examine(IF reply /\ t \in DOMAIN receipts
               THEN [id |-> t, verdict |-> "mined"] ELSE NoCheck)
    /\ recent' = IF reply /\ t \notin DOMAIN receipts
                 THEN recent \cup ({t} \cap tracked) ELSE recent
    /\ UNCHANGED <<scheduler, row, handlers, executor, tracked, chain, crashes,
                   sends, leaked>>

\* Mutation: the block of the transaction itself counts.
OwnBlockCounts(t) == height - receipts[t].block + 1

Confirmations(t) == height - receipts[t].block

Verdict(t) ==
    IF ~ receipts[t].ok THEN "failed"
    ELSE IF Confirmations(t) >= ConfirmationBlocks THEN "confirmed"
    ELSE "processing"

\* Second call: get_block_number.
TrackHeight(reply) ==
    /\ check.verdict = "mined"
    /\ Examine(IF reply THEN [check EXCEPT !.verdict = Verdict(check.id)] ELSE NoCheck)
    /\ UNCHANGED <<scheduler, row, handlers, executor, tracked, recent, scan, chain,
                   crashes, sends, leaked>>

\* Mutation: the entry is removed although the row could not be updated.
RemoveAnyway(reply) ==
    /\ check.verdict \in {"confirmed", "failed", "processing"}
    /\ UpdateRow(check.id, check.verdict, reply)
    /\ Examine(IF check.verdict = "processing" THEN NoCheck
               ELSE [check EXCEPT !.verdict = "remove"])
    /\ recent' = IF check.verdict = "processing" THEN recent \cup {check.id} ELSE recent
    /\ UNCHANGED <<scheduler, handlers, executor, tracked, scan, chain, crashes,
                   sends, leaked>>

\* The entry leaves the map only after its final status is in the database.  The
\* update to 'processing' is made under the map's lock and its error ignored.
TrackUpdate(reply) ==
    LET final == check.verdict \in {"confirmed", "failed"} IN
    /\ check.verdict = "processing" => check.id \in tracked
    /\ check.verdict \in {"confirmed", "failed", "processing"}
    /\ UpdateRow(check.id, check.verdict, reply)
    /\ Examine(IF final /\ reply THEN [check EXCEPT !.verdict = "remove"] ELSE NoCheck)
    /\ recent' = IF final THEN recent ELSE recent \cup {check.id}
    /\ UNCHANGED <<scheduler, handlers, executor, tracked, scan, chain, crashes,
                   sends, leaked>>

TrackRemove ==
    /\ check.verdict = "remove"
    /\ tracked' = tracked \ {check.id}
    /\ Examine(NoCheck)
    /\ UNCHANGED <<scheduler, row, handlers, executor, recent, scan, chain, crashes,
                   sends, leaked>>

-----------------------------------------------------------------------------
\* The chain, a service of others: it mines a wallet's transactions in the order
\* of their nonces, one in a block here, and never takes a block back.

Mine(tx, ok) ==
    /\ tx \in mempool
    /\ tx.nonce = mined[tx.wallet]
    /\ height + ConfirmationBlocks < MaxHeight
    /\ height' = height + 1
    /\ mined' = [mined EXCEPT ![tx.wallet] = @ + 1]
    /\ receipts' = [t \in DOMAIN receipts \cup {tx.id} |->
                       IF t = tx.id THEN [block |-> height', ok |-> ok] ELSE receipts[t]]
    /\ mempool' = mempool \ {tx}
    /\ UNCHANGED <<scheduler, row, handlers, executor, tracker, crashes, sends, leaked>>

EmptyBlock ==
    /\ DOMAIN receipts # {}
    /\ height < MaxHeight
    /\ height' = height + 1
    /\ UNCHANGED <<scheduler, row, handlers, executor, tracker, mempool, mined,
                   receipts, crashes, sends, leaked>>

-----------------------------------------------------------------------------
\* The process dies and is started again: ServiceManager builds every component
\* anew and loads no row.  The database, the chain and the history stay.
Crash ==
    /\ crashes < MaxCrashes
    /\ crashes' = crashes + 1
    /\ priority_queue' = {} /\ processing_queue' = {}
    /\ completed_tasks' = {} /\ failed_tasks' = {}
    /\ sub' = [s \in Submitters |-> S!NoSubmission]
    /\ wpc' = [w \in {Executor} |-> "idle"] /\ wtask' = [w \in {Executor} |-> None]
    /\ can' = [c \in Cancellers |-> S!NoCancel]
    /\ gw' = [s \in Submitters |-> None] /\ crow' = [c \in Cancellers |-> None]
    /\ usage' = NoUsage /\ stage' = "idle" /\ wallet' = None /\ nonce' = 0
    /\ tracked' = {} /\ recent' = {} /\ scan' = {} /\ check' = NoCheck
    /\ leaked' = leaked \cup {t \in Tasks : row[t] \notin Final \cup {None}}
    /\ UNCHANGED <<accepted, cancelled, attempts, row, wallets, chain, sends>>

-----------------------------------------------------------------------------
HandlerStep ==
    \/ \E s \in Submitters : \/ \E t \in Tasks, reply \in BOOLEAN : Store(s, t, reply)
                             \/ Schedule(s) \/ Enqueue(s) \/ DropSubmit(s)
    \/ \E c \in Cancellers : \/ \E t \in Tasks : CancelFirst(c, t)
                             \/ CancelSecond(c) \/ DropCancel(c)
                             \/ \E reply \in BOOLEAN : CancelRow(c, reply)

ExecutorStep ==
    \/ Pop \/ Acquire \/ SendRefused \/ Track \/ Release
    \/ \E reply \in BOOLEAN : \/ ReadNonce(reply) \/ SendTaken(reply)
                              \/ MarkSubmitted(reply) \/ MarkFailed(reply)
    \/ Complete \/ CompleteEnd \/ Retry

TrackerStep ==
    \/ TrackTick \/ TrackRemove
    \/ \E reply \in BOOLEAN : \/ \E t \in Tasks : TrackReceipt(t, reply)
                              \/ TrackHeight(reply) \/ TrackUpdate(reply)

ChainStep ==
    \/ \E tx \in mempool, ok \in BOOLEAN : Mine(tx, ok)
    \/ EmptyBlock

Next == HandlerStep \/ ExecutorStep \/ TrackerStep \/ ChainStep \/ Crash

Spec == Init /\ [][Next]_vars

\* The two loops never stop, blocks go on coming, and neither the node nor the
\* database fails for ever when it is asked again and again.
FairSpec ==
    /\ Spec
    /\ WF_vars(ExecutorStep) /\ WF_vars(TrackerStep) /\ WF_vars(EmptyBlock)
    /\ \A t \in Tasks : SF_vars(TrackReceipt(t, TRUE))
    /\ SF_vars(TrackHeight(TRUE)) /\ SF_vars(TrackUpdate(TRUE))

-----------------------------------------------------------------------------
\* Properties

Stages == {"idle", "acquire", "nonce", "send", "mark submitted", "mark failed", "track",
           "release", "release failed", "succeeded", "failed"}
Verdicts == {"none", "mined", "confirmed", "failed", "processing", "remove"}

\* Every variable has its type, and what the loops work on is there: a wallet
\* from acquire to release, a receipt once its verdict is known.
TypeOK ==
    /\ S!TypeOK
    /\ row \in [Tasks -> RowStatuses \cup {None}]
    /\ gw \in [Submitters -> Tasks \cup {None}]
    /\ crow \in [Cancellers -> Tasks \cup {None}]
    /\ wallets \in SUBSET Wallets
    /\ usage \in [Wallets -> [ok : Nat, failed : Nat]]
    /\ stage \in Stages
    /\ wallet \in Wallets \/ (wallet = None
                              /\ stage \in {"idle", "acquire", "succeeded", "failed"})
    /\ nonce \in Nat
    /\ {tracked, recent, scan} \subseteq SUBSET Tasks
    /\ check \in [id : Tasks, verdict : Verdicts \ {"none"}] \cup {NoCheck}
    /\ check # NoCheck => check.id \in DOMAIN receipts \cap tracked
    /\ mempool \in SUBSET [id : Tasks, wallet : Wallets, nonce : Nat]
    /\ mined \in [Wallets -> Nat] /\ height \in 0 .. MaxHeight
    /\ crashes \in 0 .. MaxCrashes
    /\ sends \in [Tasks -> Nat] /\ leaked \in SUBSET Tasks

\* What the client is told is final once it is final: no late update of the
\* executor, of the tracker or of a cancellation overwrites it, although
\* update_transaction_status looks at no old value.
RowMovesForward ==
    [][\A t \in Tasks : row[t] \in Final => row'[t] = row[t]]_vars

\* A transaction that was cancelled, or that the client reads as cancelled, is
\* never handed to the node: neither before nor after.
CancelledNeverSent ==
    \A t \in Tasks : t \in cancelled \/ row[t] = "cancelled" => sends[t] = 0

\* However executor, cancellations, lost replies and restarts interleave, a
\* request is handed to the node at most once: with a fresh nonce read at each
\* attempt, a second one would be a second payment.
SentOnce == \A t \in Tasks : sends[t] <= 1

\* What the tracker waits for can still come: the transaction is mined, or the node
\* holds it and its nonce is not used up.
CanBeMined(t) ==
    \/ t \in DOMAIN receipts
    \/ \E tx \in mempool : tx.id = t /\ tx.nonce >= mined[tx.wallet]

\* A request the client reads as pending or processing is in somebody's hands:
\* of a handler, the queue, the executor, or the tracker with a transaction that
\* can be mined.  The exceptions are those of "leaked": a full queue, a lost
\* reply to the INSERT, a handler dropped after the INSERT or in the middle of a
\* cancellation, an empty wallet pool, a failed update of the row, a transaction
\* displaced at the node by the next one, a restart.
PendingHasOwner ==
    \A t \in Tasks : row[t] \in {"pending", "processing"} =>
        \/ t \in leaked
        \/ \E s \in Submitters : gw[s] = t
        \/ t \in S!Ids(priority_queue)
        \/ S!Owns(Executor, t) /\ stage \notin {"idle", "succeeded", "failed"}
        \/ t \in tracked /\ CanBeMined(t)
        \/ \E c \in Cancellers : crow[c] = t \/ can[c] = [id |-> t, hit |-> TRUE]

\* A row says confirmed only of a transaction that succeeded on the chain and has
\* the number of blocks on top of its own that was asked for.
ConfirmedIsDeep ==
    \A t \in Tasks : row[t] = "confirmed" =>
        /\ t \in DOMAIN receipts
        /\ receipts[t].ok
        /\ height >= receipts[t].block + ConfirmationBlocks

\* As many elements as a counter counts in all wallets together.
Uses(count) == UNION {{w} \X (1 .. count[w]) : w \in Wallets}

Occurrences(p) == IF p THEN 1 ELSE 0

\* The pool's counters agree with the scheduler's results: every attempt with a
\* wallet is counted once, as what it was, and the wallet is never in use
\* outside an attempt.
PoolAgreesWithResults ==
    wallets # {} =>
        /\ Cardinality(Uses([w \in Wallets |-> usage[w].ok]))
              = Cardinality(completed_tasks) + Occurrences(stage = "succeeded")
        /\ Cardinality(Uses([w \in Wallets |-> usage[w].failed]))
              = Cardinality(failed_tasks) + Occurrences(stage = "failed")

\* The outcome of a transaction that is mined while it is tracked reaches the
\* row, as long as the process is not restarted.
MinedIsReported ==
    \A t \in Tasks :
        (t \in tracked /\ t \in DOMAIN receipts /\ crashes = MaxCrashes)
            ~> row[t] \in Final

\* The comment in start_execution_loop and the README: a failed execution with
\* attempts left goes back to the queue.  complete_task does not leave the
\* task where retry_task looks for it, and the executor never puts it there.
FailureIsRetried ==
    [][wpc[Executor] = "completed" /\ wpc'[Executor] = "idle"
         /\ Current \notin cancelled /\ crashes' = crashes
       => Current \in S!Ids(priority_queue')]_vars

\* The README's "nonce management ... to prevent conflicts": no transaction of the
\* relayer is displaced by another one of its own.  The nonce is read at the
\* latest block, where what was sent and not yet mined does not count.
NoNonceConflict ==
    [][\A tx \in mempool : tx \in mempool' \/ tx.id \in DOMAIN receipts']_vars
=============================================================================
