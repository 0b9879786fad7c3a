------------------------ MODULE RelayPipeline_proofs ------------------------
(***************************************************************************)
(* Proofs about RelayPipeline.  What holds of the scheduler is not proved  *)
(* again: P takes the lemmas of TaskScheduler_proofs for the scheduler the *)
(* pipeline runs, the one with the executor as its only worker.            *)
(***************************************************************************)
EXTENDS RelayPipeline, FiniteSetTheorems, TLAPS

P == INSTANCE TaskScheduler_proofs WITH
        Workers <- {Executor}, Readers <- {}, MaxConcurrent <- 1, RetryDelay <- 0,
        MaxTime <- 0, MaxClears <- 0, now <- 0, rpc <- << >>, rid <- << >>,
        absent <- << >>, janitor <- 0, cleared <- {}

USE RelayAssumption DEF RowStatuses, tasks

-----------------------------------------------------------------------------
\* The inductive invariant, in parts.

Ended   == {"idle", "succeeded", "failed"}
Sending == {"acquire", "nonce", "send"}
Sent    == {"mark submitted", "track"}

\* The executor is in execute_task exactly while it holds a task it has popped, and
\* never calls start_processing.
Control ==
    /\ processing_queue = {}
    /\ wpc[Executor] \in {"idle", "popped", "succeeded", "failed", "completed"}
    /\ wpc[Executor] = "popped" <=> stage # "idle"

\* A request on its way to the queue is its handler's alone, and pending.
Requests ==
    /\ \A s \in Submitters : sub[s].id # None => gw[s] = sub[s].id
    /\ \A s \in Submitters : gw[s] # None => row[gw[s]] = "pending" /\ gw[s] \notin accepted
    /\ \A r, s \in Submitters : gw[r] # None /\ gw[r] = gw[s] => r = s
    /\ \A t \in accepted : row[t] # None
    /\ \A c \in Cancellers : can[c].id # None => crow[c] = None

\* Nobody has touched the row of a task that is not sent yet.
Unsent ==
    /\ \A u \in priority_queue : row[u.id] = "pending" /\ sends[u.id] = 0
    /\ stage \in Sending \cup Sent \cup {"mark failed"} =>
          row[Current] = "pending" /\ Current \notin tracked
    /\ stage \in Sending => sends[Current] = 0
    /\ stage \in Sent => sends[Current] = 1
    /\ \A t \in Tasks : t \notin accepted => sends[t] = 0

\* A cancelled task is not sent.
Cancelled ==
    /\ \A t \in Tasks : P!Dead(t) => sends[t] = 0 /\ row[t] \in {"pending", "cancelled"}
    /\ \A t \in Tasks : row[t] = "cancelled" => t \in cancelled
    /\ \A c \in Cancellers : crow[c] # None => crow[c] \in cancelled

\* The tracker works on what was sent and has no final status yet.
Tracking ==
    /\ \A t \in tracked : sends[t] = 1 /\ row[t] # None
    /\ \A t \in tracked : row[t] \in Final => check = [id |-> t, verdict |-> "remove"]
    /\ check # NoCheck => check.id \in DOMAIN receipts \cap tracked /\ check.id \notin scan
    /\ check.verdict = "remove" => row[check.id] \in Final
    /\ scan \subseteq tracked

\* One transaction per request on the chain, with a receipt once it is mined.
OnChain ==
    /\ \A t \in Tasks : sends[t] <= 1
    /\ \A tx \in mempool : sends[tx.id] = 1 /\ tx.id \notin DOMAIN receipts
    /\ \A tx, ty \in mempool : tx.id = ty.id => tx = ty
    /\ \A t \in DOMAIN receipts : t \in Tasks /\ sends[t] = 1

Deep(t) == t \in DOMAIN receipts /\ receipts[t].ok
             /\ height >= receipts[t].block + ConfirmationBlocks

Confirmed ==
    \A t \in Tasks : \/ check = [id |-> t, verdict |-> "confirmed"]
                     \/ row[t] = "confirmed"
                     => Deep(t)

\* Where the executor leaves a task, the tracker has it or the row is final.
Handover ==
    /\ stage = "release" => Current \in tracked \/ row[Current] \in Final
    /\ stage = "release failed" => row[Current] \in Final \/ Current \in leaked

RowTypes ==
    /\ row \in [Tasks -> RowStatuses \cup {None}]
    /\ gw \in [Submitters -> Tasks \cup {None}]
    /\ crow \in [Cancellers -> Tasks \cup {None}]
    /\ wallets \in SUBSET Wallets
    /\ usage \in [Wallets -> [ok : Nat, failed : Nat]]
    /\ stage \in Stages
    /\ wallet \in Wallets \/ (wallet = None
                              /\ stage \in {"idle", "acquire", "succeeded", "failed"})
    /\ nonce \in Nat
    /\ tracked \in SUBSET Tasks /\ recent \in SUBSET Tasks /\ scan \in SUBSET Tasks
    /\ check \in [id : Tasks, verdict : Verdicts \ {"none"}] \cup {NoCheck}
    /\ mempool \in SUBSET [id : Tasks, wallet : Wallets, nonce : Nat]
    /\ mined \in [Wallets -> Nat] /\ height \in 0 .. MaxHeight
    /\ \A t \in DOMAIN receipts : receipts[t] \in [block : Nat, ok : BOOLEAN]
    /\ crashes \in 0 .. MaxCrashes
    /\ sends \in [Tasks -> Nat] /\ leaked \in SUBSET Tasks

-----------------------------------------------------------------------------
\* The scheduler inside the pipeline takes the steps of its own specification, but
\* for a crash.

\* S and P name the same operators.
LEMMA SameSize == \A X : S!Cardinality(X) = P!Cardinality(X)
  BY DEF S!Cardinality, P!Cardinality, S!IsFiniteSet, P!IsFiniteSet

LEMMA Assumption == P!SchedulerAssumption
  BY DEF S!SchedulerAssumption, P!SchedulerAssumption, S!ScheduledTask, P!ScheduledTask,
         S!IsFiniteSet, P!IsFiniteSet

LEMMA NoReaders == P!Observe
<1>1. << >> = [r \in {} |-> FALSE]
  OBVIOUS
<1> QED BY <1>1 DEF P!Observe

LEMMA SchedulerStep ==
  ASSUME \/ \E s \in Submitters, t \in Tasks, p \in Weights : S!ScheduleCheck(s, t, p)
         \/ \E s \in Submitters : S!SchedulePush(s)
         \/ \E c \in Cancellers, t \in Tasks : S!CancelPending(c, t)
         \/ \E c \in Cancellers : S!CancelProcessing(c)
         \/ S!GetNextTask(Executor)
         \/ \E success \in BOOLEAN : S!CompleteRecord(Executor, success)
         \/ S!CompleteRemove(Executor)
         \/ S!RetryTake(Executor)
  PROVE  P!Next
<1> USE DEF S!queues, P!queues, S!results, P!results, S!history, P!history
<1>1. ASSUME NEW s \in Submitters, NEW t \in Tasks, NEW p \in Weights, S!ScheduleCheck(s, t, p)
      PROVE  P!SubmitterStep(s)
  BY <1>1, SameSize DEF P!SubmitterStep, S!ScheduleCheck, P!ScheduleCheck, S!Fresh, P!Fresh, S!Submitting, P!Submitting, S!NoSubmission, P!NoSubmission
<1>2. ASSUME NEW s \in Submitters, S!SchedulePush(s)
      PROVE  P!SubmitterStep(s)
  BY <1>2 DEF P!SubmitterStep, S!SchedulePush, P!SchedulePush, S!NoSubmission, P!NoSubmission
<1>3. ASSUME NEW c \in Cancellers, NEW t \in Tasks, S!CancelPending(c, t)
      PROVE  P!CancellerStep(c)
  BY <1>3 DEF P!CancellerStep, S!CancelPending, P!CancelPending, S!NoCancel, P!NoCancel, S!Ids, P!Ids
<1>4. ASSUME NEW c \in Cancellers, S!CancelProcessing(c)
      PROVE  P!CancellerStep(c)
  BY <1>4 DEF P!CancellerStep, S!CancelProcessing, P!CancelProcessing, S!NoCancel, P!NoCancel, S!Ids, P!Ids
<1>5. S!GetNextTask(Executor) => P!WorkerStep(Executor)
  BY DEF P!WorkerStep, S!GetNextTask, P!GetNextTask, S!OrdGreaterOrEqual, P!OrdGreaterOrEqual
<1>6. ASSUME NEW success \in BOOLEAN, S!CompleteRecord(Executor, success)
      PROVE  P!WorkerStep(Executor)
  BY <1>6 DEF P!WorkerStep, S!CompleteRecord, P!CompleteRecord, S!RetriesExceeded, P!RetriesExceeded
<1>7. S!CompleteRemove(Executor) => P!WorkerStep(Executor)
  BY DEF P!WorkerStep, S!CompleteRemove, P!CompleteRemove
<1>8. S!RetryTake(Executor) => P!WorkerStep(Executor)
  BY DEF P!WorkerStep, S!RetryTake, P!RetryTake, S!RetryWith, P!RetryWith, S!Counted, P!Counted, S!Ids, P!Ids
<1> QED
  BY <1>1, <1>2, <1>3, <1>4, <1>5, <1>6, <1>7, <1>8, NoReaders DEF P!Next, P!Step

\* A restart leaves the scheduler empty; what was accepted and cancelled is history.
LEMMA SchedulerAfterCrash == P!IInv /\ Crash => P!IInv'
<1> SUFFICES ASSUME P!IInv, Crash PROVE P!IInv'
  OBVIOUS
<1>1. P!Types'
  BY DEF Crash, P!IInv, P!Types, S!NoSubmission, P!NoSubmission, S!NoCancel, P!NoCancel,
         P!WorkerStates, P!Busy
<1>2. P!Ownership'
  BY DEF Crash, P!IInv, P!Ownership, P!SubmissionsAreFresh, P!KnownAreAccepted, P!OneOwner,
         P!Types, S!NoSubmission, P!NoSubmission, S!NoCancel, P!NoCancel, P!Busy
<1>3. P!DeadStayDead'
  BY DEF Crash, P!DeadStayDead, P!Dead, P!Holds
<1>4. P!Results'
  BY DEF Crash, P!Results, P!Recorded, P!Busy, S!NoSubmission
<1> QED BY <1>1, <1>2, <1>3, <1>4 DEF P!IInv

\* A handler that is dropped takes its own call with it and nothing else.
LEMMA SchedulerAfterDrop ==
  ASSUME P!IInv, \/ \E s \in Submitters : DropSubmit(s)
                 \/ \E c \in Cancellers : DropCancel(c)
  PROVE  P!IInv'
<1>0. /\ UNCHANGED tasks
      /\ \A s \in Submitters : sub'[s] \in {sub[s], P!NoSubmission}
      /\ \A c \in Cancellers : can'[c] \in {can[c], P!NoCancel}
      /\ sub' \in [Submitters -> [id : Tasks, priority : Weights, since : Nat]
                                   \cup {P!NoSubmission}]
      /\ can' \in [Cancellers -> [id : Tasks, hit : BOOLEAN] \cup {P!NoCancel}]
  BY DEF DropSubmit, DropCancel, P!IInv, P!Types, S!NoSubmission, P!NoSubmission, S!NoCancel,
         P!NoCancel
<1>1. P!Types'
  BY <1>0 DEF P!IInv, P!Types, P!Busy
<1>2. P!Ownership'
  BY <1>0 DEF P!IInv, P!Ownership, P!SubmissionsAreFresh, P!KnownAreAccepted, P!OneOwner,
         P!Types, P!NoSubmission, P!NoCancel, P!Busy
<1>3. P!DeadStayDead'
  BY <1>0 DEF P!IInv, P!DeadStayDead, P!Dead, P!Holds, P!NoCancel
<1>4. P!Results'
  BY <1>0 DEF P!IInv, P!Results, P!Recorded, P!Busy, P!NoSubmission, P!Types
<1> QED BY <1>1, <1>2, <1>3, <1>4 DEF P!IInv

LEMMA SchedulerInductive == P!IInv /\ [Next]_vars => P!IInv'
<1> SUFFICES ASSUME P!IInv, [Next]_vars PROVE P!IInv'
  OBVIOUS
<1>1. ASSUME [P!Next]_(P!vars) PROVE P!IInv'
  BY <1>1, Assumption, P!TypesInductive, P!OwnershipInductive, P!DeadInductive,
     P!ResultsInductive DEF P!IInv
<1>2. CASE Crash
  BY <1>2, SchedulerAfterCrash
<1>3. ASSUME UNCHANGED scheduler PROVE UNCHANGED P!vars
  BY <1>3 DEF scheduler, P!vars, P!queues, P!results, P!clients, P!history
<1>4. CASE HandlerStep
  <2>0. ASSUME NEW s \in Submitters, Schedule(s)
        PROVE  \E t \in Tasks, p \in Weights : S!ScheduleCheck(s, t, p)
    BY <2>0 DEF Schedule, S!ScheduleCheck, S!Fresh
  <2>1. \/ UNCHANGED scheduler
        \/ P!Next
        \/ \E s \in Submitters : DropSubmit(s)
        \/ \E c \in Cancellers : DropCancel(c)
    BY <1>4, <2>0, SchedulerStep DEF HandlerStep, Store, Enqueue, CancelFirst,
       CancelSecond, CancelRow
  <2> QED BY <1>1, <1>3, <2>1, SchedulerAfterDrop
<1>5. CASE ExecutorStep
  <2>1. UNCHANGED scheduler \/ P!Next
    BY <1>5, SchedulerStep DEF ExecutorStep, Pop, Acquire, SendRefused, Track, Release,
       ReadNonce, SendTaken, MarkSubmitted, MarkFailed, Complete, CompleteEnd, Retry
  <2> QED BY <1>1, <1>3, <2>1
<1>6. CASE TrackerStep \/ ChainStep \/ UNCHANGED vars
  <2>1. UNCHANGED scheduler
    BY <1>6 DEF TrackerStep, TrackTick, TrackRemove, TrackReceipt, TrackHeight, TrackUpdate,
       ChainStep, Mine, EmptyBlock, vars
  <2> QED BY <1>1, <1>3, <2>1
<1> QED BY <1>2, <1>4, <1>5, <1>6 DEF Next

-----------------------------------------------------------------------------
\* What the pipeline's proofs take from the scheduler.

LEMMA FromScheduler ==
  ASSUME P!IInv
  PROVE  /\ \A s \in Submitters : sub[s].id # None =>
                 sub[s].id \in Tasks /\ sub[s].id \notin accepted
         /\ \A u \in priority_queue : u.id \in Tasks /\ u.id \in accepted /\ ~ P!Dead(u.id)
         /\ \A t, u \in priority_queue : t.id = u.id => t = u
         /\ wpc[Executor] # "idle" => Current \in Tasks /\ Current \in accepted
         /\ wpc[Executor] = "popped" =>
                 ~ P!Dead(Current) /\ \A u \in priority_queue : u.id # Current
         /\ \A t \in Tasks : P!Dead(t) => t \in accepted
         /\ accepted \in SUBSET Tasks /\ cancelled \in SUBSET accepted
         /\ wpc \in [{Executor} -> P!WorkerStates]
         /\ sub \in [Submitters -> [id : Tasks, priority : Weights, since : Nat]
                                     \cup {S!NoSubmission}]
         /\ can \in [Cancellers -> [id : Tasks, hit : BOOLEAN] \cup {S!NoCancel}]
  BY DEF P!IInv, P!Types, P!ScheduledTask, P!NoSubmission, P!NoCancel, P!Busy, P!Ownership,
         P!SubmissionsAreFresh, P!KnownAreAccepted, P!OneOwner, P!DeadStayDead, P!Dead, P!Holds,
         S!NoSubmission, S!NoCancel, Current

LEMMA ControlInductive == P!IInv /\ Control /\ [Next]_vars => Control'
<1> SUFFICES ASSUME P!IInv, Control, [Next]_vars PROVE Control'
  OBVIOUS
<1> USE DEF Control
<1>1. CASE HandlerStep
  BY <1>1 DEF HandlerStep, Store, Schedule, Enqueue, DropSubmit, CancelFirst, CancelSecond, DropCancel, CancelRow,
         S!ScheduleCheck, S!SchedulePush, S!CancelPending, S!CancelProcessing, S!queues,
         scheduler, executor
<1>2. CASE Pop \/ Complete \/ CompleteEnd \/ Retry
  BY <1>2, FromScheduler
     DEF Pop, Complete, CompleteEnd, Retry, S!GetNextTask, S!CompleteRecord,
         S!RetriesExceeded, S!CompleteRemove, S!RetryTake, S!RetryWith, S!Ids, S!queues, executor
<1>3. CASE \/ Acquire \/ SendRefused \/ Track \/ Release
           \/ \E reply \in BOOLEAN : \/ ReadNonce(reply) \/ SendTaken(reply)
                                     \/ MarkSubmitted(reply) \/ MarkFailed(reply)
  BY <1>3 DEF Acquire, SendRefused, Track, Release, ReadNonce, SendTaken, MarkSubmitted,
         MarkFailed, scheduler
<1>4. CASE TrackerStep \/ ChainStep \/ UNCHANGED vars
  BY <1>4 DEF TrackerStep, TrackTick, TrackRemove, TrackReceipt, TrackHeight, TrackUpdate,
         ChainStep, Mine, EmptyBlock, vars, scheduler, executor
<1>5. CASE Crash
  BY <1>5 DEF Crash
<1> QED BY <1>1, <1>2, <1>3, <1>4, <1>5 DEF Next, ExecutorStep

LEMMA RowTypesInductive == P!IInv /\ Control /\ RowTypes /\ [Next]_vars => RowTypes'
<1> SUFFICES ASSUME P!IInv, Control, RowTypes, [Next]_vars PROVE RowTypes'
  OBVIOUS
<1> USE DEF RowTypes
<1>1. CASE HandlerStep
  <2>1. UNCHANGED <<executor, tracker, chain, crashes, sends>>
    BY <1>1 DEF HandlerStep, Store, Schedule, Enqueue, DropSubmit, CancelFirst, CancelSecond, DropCancel, CancelRow,
           handlers
  <2>2. /\ row' \in [Tasks -> RowStatuses \cup {None}]
        /\ gw' \in [Submitters -> Tasks \cup {None}]
        /\ crow' \in [Cancellers -> Tasks \cup {None}]
        /\ leaked' \in SUBSET Tasks
    BY <1>1, FromScheduler
       DEF HandlerStep, Store, Schedule, Enqueue, DropSubmit, CancelFirst, CancelSecond, DropCancel, CancelRow,
           S!ScheduleCheck, S!Fresh, S!NoCancel, UpdateRow, Leak, RowStatuses, handlers, Control,
           S!Ids
  <2> QED BY <2>1, <2>2 DEF executor, tracker, chain
<1>2. CASE ExecutorStep
  <2>1. UNCHANGED <<handlers, scan, check, mined, receipts, height, crashes>>
    BY <1>2 DEF ExecutorStep, Pop, Acquire, SendRefused, Track, Release, ReadNonce, SendTaken,
           MarkSubmitted, MarkFailed, Complete, CompleteEnd, Retry, tracker, chain
  <2>2. stage # "idle" => Current \in Tasks
    BY FromScheduler DEF Control
  <2>3. stage' \in Stages /\ UNCHANGED wallets
    BY <1>2 DEF ExecutorStep, Pop, Acquire, SendRefused, Track, Release, ReadNonce, SendTaken,
           MarkSubmitted, MarkFailed, Complete, CompleteEnd, Retry, executor, Stages
  <2>4. wallet' \in Wallets \/ (wallet' = None
                                /\ stage' \in {"idle", "acquire", "succeeded", "failed"})
    BY <1>2 DEF ExecutorStep, Pop, Acquire, SendRefused, Track, Release, ReadNonce, SendTaken,
           MarkSubmitted, MarkFailed, Complete, CompleteEnd, Retry, executor
  <2>5. row' \in [Tasks -> RowStatuses \cup {None}] /\ leaked' \in SUBSET Tasks
    <3>1. ASSUME NEW reply \in BOOLEAN, MarkFailed(reply) \/ MarkSubmitted(reply)
          PROVE  /\ row' \in [Tasks -> RowStatuses \cup {None}]
                 /\ leaked' \in {leaked, leaked \cup {Current}} /\ Current \in Tasks
      BY <2>2, <3>1 DEF MarkFailed, MarkSubmitted, UpdateRow, Leak, RowStatuses
    <3>2. CASE Acquire
      BY <2>2, <3>2 DEF Acquire, Leak
    <3>3. CASE UNCHANGED <<row, leaked>>
      BY <3>3
    <3>4. ASSUME NEW reply \in BOOLEAN, SendTaken(reply)
          PROVE  UNCHANGED row /\ leaked' \in SUBSET Tasks
      <4>1. leaked' = leaked \cup {tx.id : tx \in Rivals} /\ UNCHANGED row
        BY <3>4 DEF SendTaken
      <4>2. \A tx \in Rivals : tx.id \in Tasks
        BY DEF Rivals
      <4> QED BY <4>1, <4>2
    <3> QED
      BY <1>2, <3>1, <3>2, <3>3, <3>4 DEF ExecutorStep, Pop, SendRefused, Track, Release,
           ReadNonce, Complete, CompleteEnd, Retry
  <2>6. usage' \in [Wallets -> [ok : Nat, failed : Nat]] /\ nonce' \in Nat
    <3>1. CASE Release
      <4>1. wallet \in Wallets /\ nonce' = 0
        BY <3>1 DEF Release
      <4>2. usage[wallet] \in [ok : Nat, failed : Nat]
        BY <4>1
      <4>3. /\ [usage[wallet] EXCEPT !.ok = @ + 1] \in [ok : Nat, failed : Nat]
            /\ [usage[wallet] EXCEPT !.failed = @ + 1] \in [ok : Nat, failed : Nat]
        BY <4>2
      <4>4. \/ usage' = [usage EXCEPT ![wallet] = [usage[wallet] EXCEPT !.ok = @ + 1]]
            \/ usage' = [usage EXCEPT ![wallet] = [usage[wallet] EXCEPT !.failed = @ + 1]]
        BY <3>1 DEF Release
      <4>5. usage' \in [Wallets -> [ok : Nat, failed : Nat]]
        BY <4>3, <4>4
      <4> QED BY <4>1, <4>5
    <3>2. ASSUME NEW reply \in BOOLEAN, ReadNonce(reply)
          PROVE  UNCHANGED usage /\ nonce' \in Nat
      <4>1. wallet \in Wallets
        BY <3>2 DEF ReadNonce
      <4>2. mined[wallet] \in Nat /\ nonce \in Nat
        BY <4>1
      <4>3. UNCHANGED usage /\ nonce' \in {nonce, mined[wallet]}
        BY <3>2 DEF ReadNonce
      <4> QED BY <4>2, <4>3
    <3>3. CASE UNCHANGED <<usage, nonce>>
      BY <3>3
    <3> QED
      BY <1>2, <3>1, <3>2, <3>3 DEF ExecutorStep, Pop, Acquire, SendRefused, Track, SendTaken,
           MarkSubmitted, MarkFailed, Complete, CompleteEnd, Retry, executor
  <2>7. tracked' \in SUBSET Tasks /\ recent' \in SUBSET Tasks
    BY <1>2, <2>2 DEF ExecutorStep, Pop, Acquire, SendRefused, Track, Release, ReadNonce,
           SendTaken, MarkSubmitted, MarkFailed, Complete, CompleteEnd, Retry, tracker
  <2>8. /\ mempool' \in SUBSET [id : Tasks, wallet : Wallets, nonce : Nat]
        /\ sends' \in [Tasks -> Nat]
    <3>1. ASSUME NEW reply \in BOOLEAN, SendTaken(reply)
          PROVE  /\ mempool' \in SUBSET [id : Tasks, wallet : Wallets, nonce : Nat]
                 /\ sends' \in [Tasks -> Nat]
      <4>1. Current \in Tasks /\ wallet \in Wallets
        BY <2>2, <3>1 DEF SendTaken
      <4>2. sends' = [sends EXCEPT ![Current] = @ + 1]
        BY <3>1 DEF SendTaken
      <4>3. mempool' = (mempool \ Rivals)
                          \cup {[id |-> Current, wallet |-> wallet, nonce |-> nonce]}
        BY <3>1 DEF SendTaken
      <4> QED BY <4>1, <4>2, <4>3
    <3>2. CASE UNCHANGED <<mempool, sends>>
      BY <3>2
    <3> QED
      BY <1>2, <3>1, <3>2 DEF ExecutorStep, Pop, Acquire, SendRefused, Track, Release,
           ReadNonce, MarkSubmitted, MarkFailed, Complete, CompleteEnd, Retry, chain
  <2> QED BY <2>1, <2>3, <2>4, <2>5, <2>6, <2>7, <2>8 DEF handlers
<1>3. CASE TrackerStep
  <2>1. UNCHANGED <<handlers, executor, chain, crashes, sends, leaked>>
    BY <1>3 DEF TrackerStep, TrackTick, TrackRemove, TrackReceipt, TrackHeight, TrackUpdate
  <2>2. row' \in [Tasks -> RowStatuses \cup {None}]
    BY <1>3 DEF TrackerStep, TrackTick, TrackRemove, TrackReceipt, TrackHeight, TrackUpdate,
           UpdateRow, NoCheck
  <2>3. tracked' \in SUBSET Tasks /\ recent' \in SUBSET Tasks /\ scan' \in SUBSET Tasks
    BY <1>3 DEF TrackerStep, TrackTick, TrackRemove, TrackReceipt, TrackHeight, TrackUpdate,
           NoCheck
  <2>4. check' \in [id : Tasks, verdict : Verdicts \ {"none"}] \cup {NoCheck}
    BY <1>3 DEF TrackerStep, TrackTick, TrackRemove, TrackReceipt, TrackHeight, TrackUpdate,
           Examine, NoCheck, Verdict, Verdicts
  <2> QED BY <2>1, <2>2, <2>3, <2>4 DEF handlers, executor, chain
<1>4. CASE ChainStep
  <2>1. UNCHANGED <<row, handlers, executor, tracker, crashes, sends, leaked>>
    BY <1>4 DEF ChainStep, Mine, EmptyBlock
  <2>2. MaxHeight \in Nat /\ ConfirmationBlocks \in Nat \ {0}
    OBVIOUS
  <2>3. CASE EmptyBlock
    BY <2>1, <2>2, <2>3 DEF EmptyBlock, handlers, executor, tracker
  <2>4. ASSUME NEW tx \in mempool, NEW ok \in BOOLEAN, Mine(tx, ok)
        PROVE  RowTypes'
    <3>1. mempool' \in SUBSET [id : Tasks, wallet : Wallets, nonce : Nat]
      BY <2>4 DEF Mine
    <3>2. height' = height + 1 /\ height' \in Nat /\ height' \in 0 .. MaxHeight
      BY <2>2, <2>4 DEF Mine
    <3>3. mined' \in [Wallets -> Nat]
      BY <2>4 DEF Mine
    <3>4. \A t \in DOMAIN receipts' : receipts'[t] \in [block : Nat, ok : BOOLEAN]
      <4>1. receipts' = [t \in DOMAIN receipts \cup {tx.id} |->
                           IF t = tx.id THEN [block |-> height', ok |-> ok] ELSE receipts[t]]
        BY <2>4 DEF Mine
      <4> QED BY <3>2, <4>1
    <3> QED BY <2>1, <3>1, <3>2, <3>3, <3>4 DEF handlers, executor, tracker
  <2> QED BY <1>4, <2>3, <2>4 DEF ChainStep
<1>5. CASE Crash
  <2>1. NoUsage \in [Wallets -> [ok : Nat, failed : Nat]] /\ "idle" \in Stages
    BY DEF NoUsage, Stages
  <2>2. crashes' \in 0 .. MaxCrashes /\ leaked' \in SUBSET Tasks
    <3>1. MaxCrashes \in Nat
      OBVIOUS
    <3> QED BY <1>5, <3>1 DEF Crash
  <2> QED BY <1>5, <2>1, <2>2 DEF Crash, chain
<1>6. CASE UNCHANGED vars
  BY <1>6 DEF vars, handlers, executor, tracker, chain
<1> QED BY <1>1, <1>2, <1>3, <1>4, <1>5, <1>6 DEF Next

-----------------------------------------------------------------------------
\* The other parts of the invariant.

RInv == /\ P!IInv /\ Control /\ RowTypes
        /\ Requests /\ Unsent /\ Cancelled /\ Tracking /\ OnChain

LEMMA Increment ==
  ASSUME NEW X, NEW f \in [X -> Nat], NEW x \in X
  PROVE  /\ [f EXCEPT ![x] = @ + 1][x] = f[x] + 1
         /\ \A y \in X : y # x => [f EXCEPT ![x] = @ + 1][y] = f[y]
  OBVIOUS

\* Which rows a step of the loops may write.
LEMMA LoopsWriteSent ==
  ASSUME RInv, ExecutorStep \/ TrackerStep
  PROVE  \/ row' = row
         \/ /\ stage = "mark failed" /\ stage' = "release failed"
            /\ row' = [row EXCEPT ![Current] = "failed"]
         \/ /\ check.id \in tracked
            /\ check.verdict \in {"confirmed", "failed", "processing"}
            /\ row' = [row EXCEPT ![check.id] = check.verdict]
<1>1. CASE ExecutorStep
  <2>1. ASSUME NEW reply \in BOOLEAN, MarkFailed(reply)
        PROVE  \/ row' = row
               \/ /\ stage = "mark failed" /\ stage' = "release failed"
                  /\ row' = [row EXCEPT ![Current] = "failed"]
    BY <2>1 DEF MarkFailed, UpdateRow
  <2>2. ASSUME NEW reply \in BOOLEAN, MarkSubmitted(reply)
        PROVE  row' = row
    BY <2>2 DEF MarkSubmitted, UpdateRow, RowStatuses
  <2> QED
    BY <1>1, <2>1, <2>2 DEF ExecutorStep, Pop, Acquire, SendRefused, Track, Release, ReadNonce,
           SendTaken, Complete, CompleteEnd, Retry
<1>2. CASE TrackerStep
  <2>1. ASSUME NEW reply \in BOOLEAN, TrackUpdate(reply)
        PROVE  \/ row' = row
               \/ /\ check.verdict \in {"confirmed", "failed", "processing"}
                  /\ check # NoCheck
                  /\ row' = [row EXCEPT ![check.id] = check.verdict]
    BY <2>1 DEF TrackUpdate, UpdateRow, NoCheck
  <2>2. check # NoCheck => check.id \in tracked
    BY DEF RInv, Tracking
  <2> QED
    BY <1>2, <2>1, <2>2 DEF TrackerStep, TrackTick, TrackRemove, TrackReceipt, TrackHeight
<1> QED BY <1>1, <1>2

\* What those steps leave alone.
LEMMA LoopsFrame ==
  ASSUME ExecutorStep \/ TrackerStep
  PROVE  UNCHANGED <<sub, can, handlers, accepted, cancelled, crashes>>
  BY DEF ExecutorStep, Pop, Acquire, SendRefused, Track, Release, ReadNonce, SendTaken,
         MarkSubmitted, MarkFailed, Complete, CompleteEnd, Retry, TrackerStep, TrackTick,
         TrackRemove, TrackReceipt, TrackHeight, TrackUpdate, scheduler, S!GetNextTask,
         S!CompleteRecord, S!CompleteRemove, S!RetryTake, S!RetryWith, S!history

LEMMA ChainFrame ==
  ASSUME ChainStep \/ UNCHANGED vars
  PROVE  UNCHANGED <<scheduler, row, handlers, executor, tracker, crashes, sends, leaked>>
  BY DEF ChainStep, Mine, EmptyBlock, vars, scheduler, handlers, executor, tracker

LEMMA SentWasAccepted ==
  ASSUME RInv
  PROVE  /\ \A t \in tracked : t \in accepted /\ sends[t] = 1
         /\ stage # "idle" => Current \in accepted /\ Current \in Tasks
<1>1. tracked \subseteq Tasks
  BY DEF RInv, RowTypes
<1>2. \A t \in tracked : t \in accepted /\ sends[t] = 1
  <2>1. \A t \in tracked : sends[t] = 1
    BY DEF RInv, Tracking
  <2>2. \A t \in Tasks : t \notin accepted => sends[t] = 0
    BY DEF RInv, Unsent
  <2> QED BY <1>1, <2>1, <2>2
<1>3. stage # "idle" => wpc[Executor] = "popped"
  BY DEF RInv, Control
<1> QED BY <1>2, <1>3, FromScheduler DEF RInv

LEMMA RequestsInductive == RInv /\ [Next]_vars => Requests'
<1> SUFFICES ASSUME RInv, [Next]_vars PROVE Requests'
  OBVIOUS
<1> USE DEF Requests
<1>1. ASSUME NEW s \in Submitters, NEW t \in Tasks, NEW reply \in BOOLEAN, Store(s, t, reply) PROVE Requests'
  BY <1>1, FromScheduler DEF Store, RInv, RowTypes, scheduler
<1>2. ASSUME NEW s \in Submitters, Schedule(s) PROVE Requests'
  BY <1>2, FromScheduler
     DEF Schedule, S!ScheduleCheck, S!Fresh, S!NoSubmission, RInv, RowTypes, S!history, handlers
<1>3. ASSUME NEW s \in Submitters, Enqueue(s) PROVE Requests'
  BY <1>3, FromScheduler
     DEF Enqueue, S!SchedulePush, S!NoSubmission, RInv, RowTypes, handlers
<1>4. ASSUME NEW c \in Cancellers, NEW t \in Tasks, CancelFirst(c, t) PROVE Requests'
  BY <1>4, FromScheduler DEF CancelFirst, S!CancelPending, RInv, S!history, handlers
<1>5. ASSUME NEW c \in Cancellers, CancelSecond(c) PROVE Requests'
  BY <1>5, FromScheduler DEF CancelSecond, S!CancelProcessing, S!NoCancel, RInv, handlers
<1>6. ASSUME NEW c \in Cancellers, NEW reply \in BOOLEAN, CancelRow(c, reply) PROVE Requests'
  BY <1>6, FromScheduler
     DEF CancelRow, UpdateRow, RowStatuses, RInv, RowTypes, Cancelled, scheduler
<1>7. CASE ExecutorStep \/ TrackerStep
  <2>1. UNCHANGED <<sub, can, gw, crow, accepted>>
    BY <1>7, LoopsFrame DEF handlers
  <2>2. \/ row' = row
        \/ \E x \in accepted, v \in RowStatuses : row' = [row EXCEPT ![x] = v]
    BY <1>7, LoopsWriteSent, SentWasAccepted
  <2>3. row \in [Tasks -> RowStatuses \cup {None}] /\ accepted \subseteq Tasks /\ Requests
    BY FromScheduler DEF RInv, RowTypes
  <2>4. /\ \A t \in Tasks : t \notin accepted => row'[t] = row[t]
        /\ \A t \in accepted : row'[t] # None
    BY <2>2, <2>3
  <2>5. gw \in [Submitters -> Tasks \cup {None}]
    BY DEF RInv, RowTypes
  <2> QED BY <2>1, <2>3, <2>4, <2>5
<1>8. CASE ChainStep \/ UNCHANGED vars
  BY <1>8, ChainFrame DEF scheduler, handlers, RInv
<1>9. CASE Crash
  BY <1>9 DEF Crash, S!NoSubmission, S!NoCancel, RInv
<1>10. ASSUME NEW s \in Submitters, DropSubmit(s) PROVE Requests'
  BY <1>10, FromScheduler DEF DropSubmit, S!NoSubmission, RInv, RowTypes
<1>11. ASSUME NEW c \in Cancellers, DropCancel(c) PROVE Requests'
  BY <1>11, FromScheduler DEF DropCancel, S!NoCancel, RInv, RowTypes
<1> QED
  BY <1>1, <1>2, <1>3, <1>4, <1>5, <1>6, <1>7, <1>8, <1>9, <1>10, <1>11 DEF Next, HandlerStep

\* Tasks in different places are different tasks.
LEMMA Apart ==
  ASSUME RInv
  PROVE  /\ \A u \in priority_queue :
                u.id \in accepted /\ u.id \in Tasks /\ u.id \notin tracked /\ u.id \notin cancelled
         /\ stage # "idle" => /\ Current \in accepted /\ Current \in Tasks /\ ~ P!Dead(Current)
                              /\ Current \notin cancelled
                              /\ \A u \in priority_queue : u.id # Current
         /\ \A t \in tracked : t \in Tasks /\ t \in accepted /\ sends[t] = 1 /\ ~ P!Dead(t)
         /\ row \in [Tasks -> RowStatuses \cup {None}]
         /\ sends \in [Tasks -> Nat]
         /\ accepted \subseteq Tasks
<1>1. \A u \in priority_queue : sends[u.id] = 0
  BY DEF RInv, Unsent
<1>2. \A t \in tracked : t \in Tasks /\ t \in accepted /\ sends[t] = 1
  BY SentWasAccepted DEF RInv, RowTypes
<1>3. \A u \in priority_queue : u.id \in accepted /\ u.id \in Tasks /\ ~ P!Dead(u.id)
  BY FromScheduler DEF RInv
<1>4. \A t \in cancelled : P!Dead(t)
  BY DEF P!Dead
<1>5. stage # "idle" => wpc[Executor] = "popped"
  BY DEF RInv, Control
<1>6. \A t \in tracked : ~ P!Dead(t)
  <2>1. \A t \in Tasks : P!Dead(t) => sends[t] = 0
    BY DEF RInv, Cancelled
  <2> QED BY <1>2, <2>1
<1>7. stage # "idle" => /\ Current \in accepted /\ Current \in Tasks /\ ~ P!Dead(Current)
                        /\ \A u \in priority_queue : u.id # Current
  BY <1>5, FromScheduler DEF RInv
<1>8. /\ row \in [Tasks -> RowStatuses \cup {None}] /\ sends \in [Tasks -> Nat]
      /\ accepted \subseteq Tasks
  BY FromScheduler DEF RInv, RowTypes
<1> QED BY <1>1, <1>2, <1>3, <1>4, <1>6, <1>7, <1>8

LEMMA UnsentInductive == RInv /\ [Next]_vars => Unsent'
<1> SUFFICES ASSUME RInv, [Next]_vars PROVE Unsent'
  OBVIOUS
<1>0. Unsent /\ Requests /\ Cancelled
  BY DEF RInv
<1> USE <1>0 DEF Unsent, Sending, Sent
<1>1. ASSUME NEW s \in Submitters, NEW t \in Tasks, NEW reply \in BOOLEAN, Store(s, t, reply) PROVE Unsent'
  <2>1. row' = [row EXCEPT ![t] = "pending"] /\ row[t] = None
    BY <1>1 DEF Store
  <2>2. t \notin accepted
    BY <2>1 DEF Requests
  <2>3. UNCHANGED <<priority_queue, sends, stage, Current, tracked, accepted>>
    BY <1>1 DEF Store, scheduler, executor, tracker, Current
  <2>4. \A u \in Tasks : u # t => row'[u] = row[u]
    BY <2>1, Apart
  <2> QED BY <2>2, <2>3, <2>4, Apart
<1>2. ASSUME NEW s \in Submitters, Schedule(s) PROVE Unsent'
  <2>1. UNCHANGED <<priority_queue, row, sends, stage, Current, tracked, accepted>>
    BY <1>2 DEF Schedule, S!ScheduleCheck, S!queues, S!history, executor, tracker, Current
  <2> QED BY <2>1
<1>3. ASSUME NEW s \in Submitters, Enqueue(s) PROVE Unsent'
  <2>1. PICK x : priority_queue' = priority_queue \cup {x} /\ x.id = sub[s].id
    <3> DEFINE record(at) == [id |-> sub[s].id, priority |-> sub[s].priority,
                              scheduled_at |-> at, retry_count |-> 0]
    <3>1. PICK at : priority_queue' = priority_queue \cup {record(at)}
      BY <1>3 DEF Enqueue, S!SchedulePush
    <3>2. record(at).id = sub[s].id
      OBVIOUS
    <3> HIDE DEF record
    <3> QED BY <3>1, <3>2
  <2>2. sub[s].id # None /\ accepted' = accepted \cup {sub[s].id}
    BY <1>3 DEF Enqueue, S!SchedulePush
  <2>3. UNCHANGED <<row, sends, stage, Current, tracked>>
    BY <1>3 DEF Enqueue, S!SchedulePush, executor, tracker, Current
  <2>4. sub[s].id \in Tasks /\ sub[s].id \notin accepted /\ row[sub[s].id] = "pending"
    <3>1. sub[s].id \in Tasks /\ sub[s].id \notin accepted
      BY <2>2, FromScheduler DEF RInv
    <3>2. gw[s] = sub[s].id
      BY <2>2 DEF Requests
    <3>3. gw[s] # None => row[gw[s]] = "pending"
      BY DEF Requests
    <3> QED BY <2>2, <3>1, <3>2, <3>3
  <2> QED BY <2>1, <2>2, <2>3, <2>4
<1>4. ASSUME NEW c \in Cancellers,
             CancelSecond(c) \/ \E t \in Tasks : CancelFirst(c, t)
      PROVE  Unsent'
  <2>1. /\ UNCHANGED <<row, sends, stage, Current, tracked, accepted>>
        /\ priority_queue' \subseteq priority_queue
    BY <1>4 DEF CancelFirst, CancelSecond, S!CancelPending, S!CancelProcessing, S!history,
           executor, tracker, Current
  <2> QED BY <2>1
<1>5. ASSUME NEW c \in Cancellers, NEW reply \in BOOLEAN, CancelRow(c, reply) PROVE Unsent'
  <2>1. /\ UNCHANGED <<priority_queue, sends, stage, Current, tracked, accepted>>
        /\ crow[c] \in cancelled
        /\ row' = row \/ row' = [row EXCEPT ![crow[c]] = "cancelled"]
    BY <1>5 DEF CancelRow, UpdateRow, scheduler, executor, tracker, Current, Cancelled
  <2>2. \A u \in Tasks : u \notin cancelled => row'[u] = row[u]
    BY <2>1, Apart
  <2> QED BY <2>1, <2>2, Apart
<1>6. CASE Pop
  <2>1. PICK x \in priority_queue :
           priority_queue' = priority_queue \ {x} /\ wtask' = [wtask EXCEPT ![Executor] = x]
    BY <1>6 DEF Pop, S!GetNextTask
  <2>2. UNCHANGED <<row, sends, tracked, accepted>> /\ stage' = "acquire"
    BY <1>6 DEF Pop, S!GetNextTask, tracker
  <2>3. Current' = x.id
    BY <2>1 DEF Current, RInv, P!IInv, P!Types
  <2> QED BY <2>1, <2>2, <2>3, Apart
<1>7. ASSUME NEW reply \in BOOLEAN, SendTaken(reply) PROVE Unsent'
  <2>1. /\ UNCHANGED <<priority_queue, row, Current, tracked, accepted>>
        /\ stage = "send" /\ stage' \in {"mark submitted", "mark failed"}
        /\ sends' = [sends EXCEPT ![Current] = @ + 1]
    BY <1>7 DEF SendTaken, scheduler, tracker, Current
  <2>2. sends'[Current] = 1 /\ \A t \in Tasks : t # Current => sends'[t] = sends[t]
    <3>1. sends[Current] = 0 /\ Current \in Tasks
      BY <2>1, Apart
    <3>2. sends \in [Tasks -> Nat]
      BY Apart
    <3>3. /\ [sends EXCEPT ![Current] = @ + 1][Current] = sends[Current] + 1
          /\ \A t \in Tasks : t # Current => [sends EXCEPT ![Current] = @ + 1][t] = sends[t]
      BY <3>1, <3>2, Increment
    <3>4. sends'[Current] = sends[Current] + 1
      BY <2>1, <3>3
    <3>5. \A t \in Tasks : t # Current => sends'[t] = sends[t]
      BY <2>1, <3>3
    <3> HIDE <1>0
    <3>6. sends'[Current] = 1
      BY <3>1, <3>4
    <3> QED BY <3>5, <3>6
  <2> QED BY <2>1, <2>2, Apart
<1>8. CASE \/ Acquire \/ SendRefused \/ Track \/ Release
           \/ \E reply \in BOOLEAN : ReadNonce(reply) \/ MarkSubmitted(reply)
  <2>1. /\ UNCHANGED <<priority_queue, sends, Current, accepted>>
        /\ row' = row
        /\ \/ stage \in Sending /\ stage' \in {"nonce", "send", "mark failed", "failed"}
              /\ tracked' = tracked
           \/ stage = "mark submitted" /\ stage' = "track" /\ tracked' = tracked
           \/ stage' \in {"release", "succeeded", "failed"}
    BY <1>8 DEF Acquire, SendRefused, Track, Release, ReadNonce, MarkSubmitted, UpdateRow,
           scheduler, tracker, Current
  <2> QED BY <2>1
<1>9. ASSUME NEW reply \in BOOLEAN, MarkFailed(reply) PROVE Unsent'
  <2>1. /\ UNCHANGED <<priority_queue, sends, accepted>>
        /\ stage = "mark failed" /\ stage' = "release failed"
        /\ row' = row \/ row' = [row EXCEPT ![Current] = "failed"]
    BY <1>9 DEF MarkFailed, UpdateRow, scheduler
  <2>2. \A u \in Tasks : u # Current => row'[u] = row[u]
    BY <2>1, Apart
  <2> QED BY <2>1, <2>2, Apart
<1>10. CASE Complete \/ CompleteEnd \/ Retry
  <2>1. UNCHANGED <<priority_queue, row, sends, accepted>> /\ stage' = "idle"
    BY <1>10 DEF Complete, CompleteEnd, Retry, S!CompleteRecord, S!CompleteRemove, S!RetryTake,
           S!RetryWith, S!queues, S!history, executor, RInv, Control
  <2> QED BY <2>1
<1>11. CASE TrackerStep
  <2>1. /\ UNCHANGED <<priority_queue, sends, stage, Current, accepted>>
        /\ tracked' \subseteq tracked
    BY <1>11 DEF TrackerStep, TrackTick, TrackRemove, TrackReceipt, TrackHeight, TrackUpdate,
           scheduler, executor, Current
  <2>2. row' = row \/ \E x \in tracked : row' = [row EXCEPT ![x] = check.verdict]
    BY <1>11, <2>1, LoopsWriteSent
  <2>3. \A u \in Tasks : u \notin tracked => row'[u] = row[u]
    BY <2>2, Apart
  <2> QED BY <2>1, <2>3, Apart
<1>12. CASE ChainStep \/ UNCHANGED vars
  <2>1. UNCHANGED <<priority_queue, row, sends, stage, Current, tracked, accepted>>
    BY <1>12, ChainFrame DEF scheduler, executor, tracker, Current
  <2> QED BY <2>1
<1>13. CASE Crash
  BY <1>13 DEF Crash
<1>14. CASE \/ \E s \in Submitters : DropSubmit(s)
            \/ \E c \in Cancellers : DropCancel(c)
  <2>1. UNCHANGED <<priority_queue, row, sends, stage, Current, tracked, accepted>>
    BY <1>14 DEF DropSubmit, DropCancel, executor, tracker, Current
  <2> QED BY <2>1
<1> QED
  BY <1>1, <1>2, <1>3, <1>4, <1>5, <1>6, <1>7, <1>8, <1>9, <1>10, <1>11, <1>12, <1>13, <1>14
     DEF Next, HandlerStep, ExecutorStep

LEMMA CancelledInductive == RInv /\ [Next]_vars => Cancelled'
<1> SUFFICES ASSUME RInv, [Next]_vars PROVE Cancelled'
  OBVIOUS
<1>0. Cancelled
  BY DEF RInv
<1> USE <1>0 DEF Cancelled
\* A step that kills no task, cancels no row and touches no dead task.
<1>1. ASSUME \A t \in Tasks : P!Dead(t)' => P!Dead(t),
             \A t \in Tasks : P!Dead(t) => sends'[t] = sends[t] /\ row'[t] = row[t],
             \A t \in Tasks : row'[t] = "cancelled" => row[t] = "cancelled",
             UNCHANGED <<cancelled, crow>>
      PROVE  Cancelled'
  BY <1>1
<1>2. UNCHANGED <<cancelled, can>> => \A t \in Tasks : P!Dead(t)' => P!Dead(t)
  BY DEF P!Dead
<1>3. ASSUME NEW s \in Submitters, NEW t \in Tasks, NEW reply \in BOOLEAN, Store(s, t, reply) PROVE Cancelled'
  <2>1. /\ row' = [row EXCEPT ![t] = "pending"] /\ row[t] = None
        /\ UNCHANGED <<cancelled, can, crow, sends>>
    BY <1>3 DEF Store, scheduler
  <2>2. ~ P!Dead(t)
    BY <2>1, FromScheduler DEF RInv, Requests
  <2>3. \A u \in Tasks : u # t => row'[u] = row[u]
    BY <2>1, Apart
  <2>4. row'[t] # "cancelled"
    BY <2>1, Apart
  <2>5. UNCHANGED <<cancelled, crow>> /\ \A u \in Tasks : P!Dead(u)' => P!Dead(u)
    BY <1>2, <2>1
  <2>6. \A u \in Tasks : P!Dead(u) => sends'[u] = sends[u] /\ row'[u] = row[u]
    BY <2>1, <2>2, <2>3
  <2>7. \A u \in Tasks : row'[u] = "cancelled" => row[u] = "cancelled"
    BY <2>3, <2>4
  <2> HIDE <1>0
  <2> QED BY <1>1, <2>5, <2>6, <2>7
<1>4. ASSUME NEW s \in Submitters, Schedule(s) \/ Enqueue(s) PROVE Cancelled'
  <2>1. UNCHANGED <<cancelled, can, crow, sends, row>>
    BY <1>4 DEF Schedule, Enqueue, S!ScheduleCheck, S!SchedulePush, S!history
  <2> QED BY <1>1, <1>2, <2>1
<1>5. ASSUME NEW c \in Cancellers, NEW t \in Tasks, CancelFirst(c, t) PROVE Cancelled'
  <2>1. /\ can' = [can EXCEPT ![c] = [id |-> t, hit |-> t \in S!Ids(priority_queue)]]
        /\ UNCHANGED <<cancelled, crow, sends, row>>
    BY <1>5 DEF CancelFirst, S!CancelPending, handlers, S!history
  <2>2. /\ can'[c].id = t /\ (can'[c].hit => t \in S!Ids(priority_queue))
        /\ \A b \in Cancellers : b # c => can'[b] = can[b]
    <3> DEFINE found == t \in S!Ids(priority_queue)
    <3>1. can \in [Cancellers -> [id : Tasks, hit : BOOLEAN] \cup {S!NoCancel}]
      BY FromScheduler DEF RInv
    <3> HIDE <1>0 DEF found
    <3>2. can' = [can EXCEPT ![c] = [id |-> t, hit |-> found]]
      BY <2>1 DEF found
    <3>3. can'[c] = [id |-> t, hit |-> found]
      BY <3>1, <3>2
    <3>4. can'[c].hit = found
      BY <3>3
    <3> QED BY <3>1, <3>2, <3>3, <3>4 DEF found
  <2>3. t \in S!Ids(priority_queue) => sends[t] = 0 /\ row[t] = "pending"
    <3>1. \A u \in priority_queue : sends[u.id] = 0 /\ row[u.id] = "pending"
      BY DEF RInv, Unsent
    <3> QED BY <3>1 DEF S!Ids
  <2>4. \A u \in Tasks : P!Dead(u)' => P!Dead(u) \/ (u = t /\ can'[c].hit)
    <3>1. SUFFICES ASSUME NEW u \in Tasks, NEW b \in Cancellers,
                          can'[b] = [id |-> u, hit |-> TRUE]
                   PROVE  P!Dead(u) \/ (u = t /\ can'[c].hit)
      BY <2>1 DEF P!Dead
    <3>2. CASE b = c
      BY <2>2, <3>1, <3>2
    <3>3. CASE b # c
      BY <2>2, <3>1, <3>3 DEF P!Dead
    <3> QED BY <3>2, <3>3
  <2> QED BY <2>1, <2>2, <2>3, <2>4
<1>6. ASSUME NEW c \in Cancellers, CancelSecond(c) PROVE Cancelled'
  <2> DEFINE t == can[c].id
  <2>1. /\ can[c].id \in Tasks /\ can[c] \in [id : Tasks, hit : BOOLEAN]
        /\ cancelled' = IF can[c].hit THEN cancelled \cup {can[c].id} ELSE cancelled
        /\ can' = [can EXCEPT ![c] = S!NoCancel]
        /\ crow' = [crow EXCEPT ![c] = IF can[c].hit THEN can[c].id ELSE None]
        /\ UNCHANGED <<sends, row>>
    BY <1>6, FromScheduler DEF CancelSecond, S!CancelProcessing, S!NoCancel, S!Ids, RInv, Control
  <2>2. can[c].hit => P!Dead(can[c].id)
    <3>1. can[c].hit => can[c] = [id |-> can[c].id, hit |-> TRUE]
      BY <2>1
    <3> QED BY <3>1 DEF P!Dead
  <2>3. \A u \in Tasks : P!Dead(u)' => P!Dead(u)
    <3>1. \A b \in Cancellers : can'[b] = can[b] \/ can'[b].hit = FALSE
      BY <2>1, FromScheduler DEF RInv, S!NoCancel
    <3>2. ASSUME NEW u \in Tasks, NEW b \in Cancellers, can'[b] = [id |-> u, hit |-> TRUE]
          PROVE  P!Dead(u)
      <4>1. can'[b].hit = TRUE
        BY <3>2
      <4> QED BY <3>1, <3>2, <4>1 DEF P!Dead
    <3>3. ASSUME NEW u \in cancelled' PROVE P!Dead(u)
      BY <2>1, <2>2, <3>3 DEF P!Dead
    <3> QED BY <3>2, <3>3 DEF P!Dead
  <2>4. \A b \in Cancellers : crow'[b] # None => crow'[b] \in cancelled'
    BY <2>1 DEF RInv, RowTypes
  <2> QED BY <2>1, <2>3, <2>4
<1>7. ASSUME NEW c \in Cancellers, NEW reply \in BOOLEAN, CancelRow(c, reply) PROVE Cancelled'
  <2>1. /\ crow[c] \in cancelled
        /\ row' = row \/ row' = [row EXCEPT ![crow[c]] = "cancelled"]
        /\ crow' = [crow EXCEPT ![c] = None]
        /\ UNCHANGED <<cancelled, can, sends>>
    BY <1>7 DEF CancelRow, UpdateRow, scheduler
  <2>2. \A t \in Tasks : row'[t] = row[t] \/ (row'[t] = "cancelled" /\ t \in cancelled)
    BY <2>1, Apart
  <2>3. \A b \in Cancellers : crow'[b] # None => crow'[b] \in cancelled
    BY <2>1 DEF RInv, RowTypes
  <2> QED BY <1>2, <2>1, <2>2, <2>3
<1>8. CASE ExecutorStep \/ TrackerStep
  <2>1. UNCHANGED <<cancelled, can, crow>>
    BY <1>8, LoopsFrame DEF handlers
  <2>2. \A t \in Tasks : /\ P!Dead(t) => row'[t] = row[t]
                         /\ row'[t] = "cancelled" => row[t] = "cancelled"
    <3> HIDE <1>0
    <3>1. CASE row' = row
      BY <3>1
    <3>2. ASSUME NEW x \in Tasks, NEW v, ~ P!Dead(x), v # "cancelled", row' = [row EXCEPT ![x] = v]
          PROVE  \A t \in Tasks : /\ P!Dead(t) => row'[t] = row[t]
                                  /\ row'[t] = "cancelled" => row[t] = "cancelled"
      <4>1. row \in [Tasks -> RowStatuses \cup {None}]
        BY Apart
      <4> QED BY <3>2, <4>1
    <3>3. stage # "idle" => Current \in Tasks /\ ~ P!Dead(Current)
      BY Apart
    <3>4. check.id \in tracked => check.id \in Tasks /\ ~ P!Dead(check.id)
      BY Apart
    <3> QED BY <1>8, <3>1, <3>2, <3>3, <3>4, LoopsWriteSent
  <2>3. \A t \in Tasks : P!Dead(t) => sends'[t] = sends[t]
    <3> HIDE <1>0
    <3>1. ASSUME NEW reply \in BOOLEAN, SendTaken(reply)
          PROVE  \A t \in Tasks : P!Dead(t) => sends'[t] = sends[t]
      <4>1. stage # "idle" /\ sends' = [sends EXCEPT ![Current] = @ + 1]
        BY <3>1 DEF SendTaken
      <4>2. Current \in Tasks /\ ~ P!Dead(Current) /\ sends \in [Tasks -> Nat]
        BY <4>1, Apart
      <4> QED BY <4>1, <4>2
    <3>2. CASE UNCHANGED sends
      BY <3>2
    <3> QED
      BY <1>8, <3>1, <3>2 DEF ExecutorStep, Pop, Acquire, SendRefused, Track, Release, ReadNonce,
         MarkSubmitted, MarkFailed, Complete, CompleteEnd, Retry, TrackerStep, TrackTick,
         TrackRemove, TrackReceipt, TrackHeight, TrackUpdate
  <2> QED BY <1>1, <1>2, <2>1, <2>2, <2>3
<1>9. CASE ChainStep \/ UNCHANGED vars
  <2>1. UNCHANGED <<cancelled, can, crow, sends, row>>
    BY <1>9, ChainFrame DEF scheduler, handlers
  <2> QED BY <1>1, <1>2, <2>1
<1>10. CASE Crash
  <2>1. /\ UNCHANGED <<cancelled, sends, row>>
        /\ can' = [c \in Cancellers |-> S!NoCancel] /\ crow' = [c \in Cancellers |-> None]
    BY <1>10 DEF Crash
  <2>2. \A t \in Tasks : P!Dead(t)' => P!Dead(t)
    BY <2>1 DEF P!Dead, S!NoCancel
  <2> QED BY <2>1, <2>2
<1>11. ASSUME NEW s \in Submitters, DropSubmit(s) PROVE Cancelled'
  <2>1. UNCHANGED <<cancelled, can, crow, sends, row>>
    BY <1>11 DEF DropSubmit
  <2> QED BY <1>1, <1>2, <2>1
<1>12. ASSUME NEW c \in Cancellers, DropCancel(c) PROVE Cancelled'
  <2>1. /\ UNCHANGED <<cancelled, sends, row>>
        /\ can' = [can EXCEPT ![c] = S!NoCancel] /\ crow' = [crow EXCEPT ![c] = None]
    BY <1>12 DEF DropCancel
  <2>2. \A b \in Cancellers : can'[b] = can[b] \/ can'[b].hit = FALSE
    BY <2>1, FromScheduler DEF RInv, S!NoCancel
  <2>3. ASSUME NEW t \in Tasks, P!Dead(t)' PROVE P!Dead(t)
    <3>1. ASSUME NEW b \in Cancellers, can'[b] = [id |-> t, hit |-> TRUE] PROVE P!Dead(t)
      <4>1. can'[b].hit = TRUE
        BY <3>1
      <4> QED BY <2>2, <3>1, <4>1 DEF P!Dead
    <3> QED BY <2>1, <2>3, <3>1 DEF P!Dead
  <2>4. \A b \in Cancellers : crow'[b] # None => crow'[b] \in cancelled'
    BY <2>1 DEF RInv, RowTypes
  <2> QED BY <2>1, <2>3, <2>4
<1> QED
  BY <1>3, <1>4, <1>5, <1>6, <1>7, <1>8, <1>9, <1>10, <1>11, <1>12 DEF Next, HandlerStep

\* The executor changes what the tracker and the chain see in three places only.
LEMMA ExecutorFrame ==
  ASSUME ExecutorStep
  PROVE  /\ UNCHANGED <<scan, check, mined, receipts, height, crashes, handlers>>
         /\ \/ UNCHANGED <<tracked, recent>>
            \/ Track
         /\ \/ UNCHANGED <<mempool, sends>>
            \/ \E reply \in BOOLEAN : SendTaken(reply)
         /\ \/ UNCHANGED row
            \/ \E reply \in BOOLEAN : MarkFailed(reply) \/ MarkSubmitted(reply)
  BY DEF ExecutorStep, Pop, Acquire, SendRefused, Track, Release, ReadNonce, SendTaken,
         MarkSubmitted, MarkFailed, Complete, CompleteEnd, Retry, tracker, chain

LEMMA HandlerFrame ==
  ASSUME HandlerStep
  PROVE  UNCHANGED <<executor, tracker, chain, crashes, sends>>
  BY DEF HandlerStep, Store, Schedule, Enqueue, DropSubmit, CancelFirst, CancelSecond, DropCancel, CancelRow

\* A handler writes no row that the tracker or the executor cares for.
LEMMA HandlersWrite ==
  ASSUME RInv, HandlerStep, NEW t \in accepted, t \notin cancelled
  PROVE  row'[t] = row[t]
<1>1. ASSUME NEW s \in Submitters, NEW u \in Tasks, NEW reply \in BOOLEAN, Store(s, u, reply) PROVE row'[t] = row[t]
  <2>1. row' = [row EXCEPT ![u] = "pending"] /\ row[u] = None
    BY <1>1 DEF Store
  <2>2. row[t] # None /\ t \in Tasks
    BY Apart DEF RInv, Requests
  <2> QED BY <2>1, <2>2, Apart
<1>2. ASSUME NEW c \in Cancellers, NEW reply \in BOOLEAN, CancelRow(c, reply)
      PROVE  row'[t] = row[t]
  <2>1. row' = row \/ row' = [row EXCEPT ![crow[c]] = "cancelled"]
    BY <1>2 DEF CancelRow, UpdateRow
  <2>2. crow[c] \in cancelled /\ t \in Tasks
    BY <1>2, Apart DEF CancelRow, RInv, Cancelled
  <2> QED BY <2>1, <2>2, Apart
<1>3. CASE UNCHANGED row
  BY <1>3
<1> QED
  BY <1>1, <1>2, <1>3 DEF HandlerStep, Schedule, Enqueue, DropSubmit, CancelFirst, CancelSecond,
     DropCancel

LEMMA TrackingInductive == RInv /\ [Next]_vars => Tracking'
<1> SUFFICES ASSUME RInv, [Next]_vars PROVE Tracking'
  OBVIOUS
<1>0. Tracking
  BY DEF RInv
<1>1. CASE HandlerStep
  <2>1. UNCHANGED <<tracked, sends, check, receipts, scan>>
    BY <1>1, HandlerFrame DEF tracker, chain
  <2>2. \A t \in tracked : row'[t] = row[t]
    BY <1>1, HandlersWrite, Apart DEF P!Dead
  <2>3. check # NoCheck => check.id \in tracked
    BY <1>0 DEF Tracking
  <2>4. check.verdict = "remove" => check # NoCheck
    BY DEF NoCheck
  <2> QED BY <1>0, <2>1, <2>2, <2>3, <2>4 DEF Tracking
<1>2. CASE Track
  <2>1. /\ stage = "track" /\ tracked' = tracked \cup {Current}
        /\ UNCHANGED <<row, sends, check, receipts, scan>>
    BY <1>2 DEF Track, chain
  <2>2. sends[Current] = 1 /\ row[Current] = "pending"
    BY <2>1 DEF RInv, Unsent, Sent
  <2> QED BY <1>0, <2>1, <2>2 DEF Tracking, Final
<1>3. ASSUME NEW reply \in BOOLEAN, SendTaken(reply) PROVE Tracking'
  <2>1. /\ stage = "send" /\ sends' = [sends EXCEPT ![Current] = @ + 1]
        /\ UNCHANGED <<row, tracked, check, receipts, scan>>
    BY <1>3 DEF SendTaken, tracker
  <2>2. Current \notin tracked
    BY <2>1 DEF RInv, Unsent, Sending
  <2>3. \A t \in tracked : sends'[t] = sends[t]
    BY <2>1, <2>2, Apart
  <2> QED BY <1>0, <2>1, <2>3 DEF Tracking
<1>4. ASSUME NEW reply \in BOOLEAN, MarkFailed(reply) \/ MarkSubmitted(reply) PROVE Tracking'
  <2>1. /\ stage \in Sent \cup {"mark failed"}
        /\ row' = row \/ row' = [row EXCEPT ![Current] = "failed"]
        /\ UNCHANGED <<tracked, sends, check, receipts, scan>>
    BY <1>4 DEF MarkFailed, MarkSubmitted, UpdateRow, Sent, tracker, chain
  <2>2. Current \notin tracked
    BY <2>1 DEF RInv, Unsent
  <2>3. \A t \in tracked : row'[t] = row[t]
    BY <2>1, <2>2, Apart
  <2>4. check # NoCheck => check.id \in tracked
    BY <1>0 DEF Tracking
  <2>5. check.verdict = "remove" => check # NoCheck
    BY DEF NoCheck
  <2> QED BY <1>0, <2>1, <2>3, <2>4, <2>5 DEF Tracking
<1>5. CASE ExecutorStep
  <2>1. CASE UNCHANGED <<row, tracked, sends>>
    <3>1. UNCHANGED <<row, tracked, sends, check, receipts, scan>>
      BY <1>5, <2>1, ExecutorFrame
    <3> QED BY <1>0, <3>1 DEF Tracking
  <2> QED BY <1>2, <1>3, <1>4, <1>5, <2>1, ExecutorFrame
<1>6. CASE TrackTick
  <2>1. /\ check = NoCheck /\ UNCHANGED <<row, tracked, sends, check, receipts>>
        /\ scan' \subseteq tracked
    BY <1>6 DEF TrackTick, chain
  <2> QED BY <1>0, <2>1 DEF Tracking, NoCheck
<1>7. ASSUME NEW reply \in BOOLEAN, NEW t \in Tasks, TrackReceipt(t, reply) PROVE Tracking'
  <2>1. /\ check = NoCheck /\ t \in scan /\ scan' = scan \ {t}
        /\ \/ check' = NoCheck
           \/ check' = [id |-> t, verdict |-> "mined"] /\ t \in DOMAIN receipts
        /\ UNCHANGED <<row, tracked, sends, receipts>>
    BY <1>7 DEF TrackReceipt, Examine, chain
  <2>2. \A u \in tracked : row[u] \notin Final
    <3>1. \A u : NoCheck # [id |-> u, verdict |-> "remove"]
      <4>1. NoCheck.verdict = "none"
        BY DEF NoCheck
      <4> QED BY <4>1
    <3> QED BY <1>0, <2>1, <3>1 DEF Tracking
  <2>3. check'.verdict # "remove"
    BY <2>1 DEF NoCheck
  <2>4. check' # NoCheck => check'.id = t
    BY <2>1
  <2> QED BY <1>0, <2>1, <2>2, <2>3, <2>4 DEF Tracking
<1>8. ASSUME NEW reply \in BOOLEAN, TrackHeight(reply) PROVE Tracking'
  <2>1. /\ check.verdict = "mined"
        /\ check' = NoCheck \/ (/\ check' = [check EXCEPT !.verdict = Verdict(check.id)]
                                /\ Verdict(check.id) # "remove")
        /\ UNCHANGED <<row, tracked, sends, receipts, scan>>
    BY <1>8 DEF TrackHeight, Examine, Verdict, chain
  <2>2. check # NoCheck /\ check \in [id : Tasks, verdict : Verdicts \ {"none"}]
    BY <2>1 DEF NoCheck, RInv, RowTypes
  <2>3. \A u \in tracked : row[u] \notin Final
    BY <1>0, <2>1 DEF Tracking
  <2>4. check' # NoCheck => check'.id = check.id
    BY <2>1, <2>2
  <2>5. check'.verdict # "remove"
    BY <2>1, <2>2 DEF NoCheck
  <2> QED BY <1>0, <2>1, <2>2, <2>3, <2>4, <2>5 DEF Tracking
<1>9. ASSUME NEW reply \in BOOLEAN, TrackUpdate(reply) PROVE Tracking'
  <2>1. /\ check.verdict \in {"confirmed", "failed", "processing"}
        /\ UNCHANGED <<tracked, sends, receipts, scan>>
        /\ \/ /\ row' = [row EXCEPT ![check.id] = check.verdict]
              /\ check.verdict \in Final
              /\ check' = [check EXCEPT !.verdict = "remove"]
           \/ /\ row' = row \/ row' = [row EXCEPT ![check.id] = "processing"]
              /\ check' = NoCheck
    BY <1>9 DEF TrackUpdate, UpdateRow, Examine, chain, Final
  <2>2. check # NoCheck /\ check \in [id : Tasks, verdict : Verdicts \ {"none"}]
    BY <2>1 DEF NoCheck, RInv, RowTypes
  <2>3. \A u \in tracked : row[u] \notin Final
    BY <1>0, <2>1 DEF Tracking
  <2>4. check.id \in tracked /\ check.id \in DOMAIN receipts /\ check.id \notin scan
    BY <1>0, <2>2 DEF Tracking
  <2>5. CASE check' = NoCheck
    <3>1. [check EXCEPT !.verdict = "remove"].verdict = "remove" /\ NoCheck.verdict = "none"
      BY <2>2 DEF NoCheck
    <3>2. row' = row \/ row' = [row EXCEPT ![check.id] = "processing"]
      BY <2>1, <2>5, <3>1
    <3>3. \A u \in tracked : row'[u] \in {row[u], "processing"}
      BY <2>4, <3>2, Apart
    <3>4. \A u \in tracked : row[u] # None
      BY <1>0 DEF Tracking
    <3>5. \A u \in tracked : row'[u] \notin Final /\ row'[u] # None
      BY <2>3, <3>3, <3>4 DEF Final
    <3> QED BY <1>0, <2>1, <2>5, <3>5 DEF Tracking, NoCheck
  <2>6. CASE /\ row' = [row EXCEPT ![check.id] = check.verdict] /\ check.verdict \in Final
             /\ check' = [check EXCEPT !.verdict = "remove"]
    <3>1. check' = [id |-> check.id, verdict |-> "remove"]
      BY <2>2, <2>6
    <3>2. /\ row'[check.id] \in Final /\ row'[check.id] # None
          /\ \A u \in tracked : u # check.id => row'[u] = row[u]
      BY <2>4, <2>6, Apart DEF Final
    <3>3. check'.id = check.id
      BY <3>1
    <3> QED BY <1>0, <2>1, <2>3, <2>4, <3>1, <3>2, <3>3 DEF Tracking
  <2> QED BY <2>1, <2>5, <2>6
<1>10. CASE TrackRemove
  <2>1. /\ check.verdict = "remove" /\ tracked' = tracked \ {check.id} /\ check' = NoCheck
        /\ UNCHANGED <<row, sends, receipts, scan>>
    BY <1>10 DEF TrackRemove, Examine, chain
  <2>2. check # NoCheck
    BY <2>1 DEF NoCheck
  <2>3. \A u \in tracked : u # check.id => row[u] \notin Final
    BY <1>0 DEF Tracking
  <2> QED BY <1>0, <2>1, <2>2, <2>3 DEF Tracking, NoCheck
<1>11. CASE ChainStep \/ UNCHANGED vars
  <2>1. UNCHANGED <<row, tracked, sends, check, scan>>
    BY <1>11, ChainFrame DEF tracker
  <2>2. DOMAIN receipts \subseteq DOMAIN receipts'
    BY <1>11 DEF ChainStep, Mine, EmptyBlock, vars, chain
  <2> QED BY <1>0, <2>1, <2>2 DEF Tracking
<1>12. CASE Crash
  BY <1>12 DEF Crash, Tracking, NoCheck
<1> QED
  BY <1>1, <1>5, <1>6, <1>7, <1>8, <1>9, <1>10, <1>11, <1>12 DEF Next, TrackerStep

LEMMA OnChainInductive == RInv /\ [Next]_vars => OnChain'
<1> SUFFICES ASSUME RInv, [Next]_vars PROVE OnChain'
  OBVIOUS
<1>0. OnChain
  BY DEF RInv
<1>1. ASSUME NEW reply \in BOOLEAN, SendTaken(reply) PROVE OnChain'
  <2>1. /\ stage = "send" /\ sends' = [sends EXCEPT ![Current] = @ + 1]
        /\ mempool' = (mempool \ Rivals)
                        \cup {[id |-> Current, wallet |-> wallet, nonce |-> nonce]}
        /\ UNCHANGED receipts
    BY <1>1 DEF SendTaken
  <2>2. sends[Current] = 0 /\ Current \in Tasks /\ sends \in [Tasks -> Nat]
    BY <2>1, Apart DEF RInv, Unsent, Sending
  <2>3. /\ sends'[Current] = 1
        /\ \A t \in Tasks : t # Current => sends'[t] = sends[t]
    BY <2>1, <2>2
  <2>4. PICK x : mempool' = (mempool \ Rivals) \cup {x} /\ x.id = Current
    <3> DEFINE sent == [id |-> Current, wallet |-> wallet, nonce |-> nonce]
    <3>1. sent.id = Current
      OBVIOUS
    <3>2. mempool' = (mempool \ Rivals) \cup {sent}
      BY <2>1
    <3> HIDE DEF sent
    <3> QED BY <3>1, <3>2
  <2>5. \A tx \in mempool : tx.id \in Tasks /\ tx.id # Current
    BY <1>0, <2>2 DEF OnChain, RInv, RowTypes
  <2>6. \A t \in DOMAIN receipts : t # Current
    BY <1>0, <2>2 DEF OnChain
  <2> QED BY <1>0, <2>1, <2>2, <2>3, <2>4, <2>5, <2>6 DEF OnChain
<1>2. ASSUME NEW tx \in mempool, NEW ok \in BOOLEAN, Mine(tx, ok) PROVE OnChain'
  <2>1. /\ DOMAIN receipts' = DOMAIN receipts \cup {tx.id} /\ mempool' = mempool \ {tx}
        /\ UNCHANGED sends
    BY <1>2 DEF Mine
  <2>2. tx.id \in Tasks
    BY DEF RInv, RowTypes
  <2> QED BY <1>0, <2>1, <2>2 DEF OnChain
<1>3. CASE UNCHANGED <<sends, mempool>> /\ DOMAIN receipts' = DOMAIN receipts
  BY <1>0, <1>3 DEF OnChain
<1>4. CASE HandlerStep \/ Crash
  BY <1>3, <1>4, HandlerFrame DEF Crash, chain
<1>5. CASE ExecutorStep
  BY <1>1, <1>3, <1>5, ExecutorFrame
<1>6. CASE TrackerStep \/ EmptyBlock \/ UNCHANGED vars
  BY <1>3, <1>6 DEF TrackerStep, TrackTick, TrackRemove, TrackReceipt, TrackHeight, TrackUpdate,
     EmptyBlock, vars, chain
<1> QED BY <1>2, <1>4, <1>5, <1>6 DEF Next, ChainStep

LEMMA RInvInit == Init => RInv
<1> SUFFICES ASSUME Init PROVE RInv
  OBVIOUS
<1>1. P!Types
  BY DEF Init, P!Types, P!ScheduledTask, S!NoSubmission, P!NoSubmission, S!NoCancel, P!NoCancel,
         P!WorkerStates, P!Busy
<1>2. P!Ownership
  BY DEF Init, P!Ownership, P!SubmissionsAreFresh, P!KnownAreAccepted, P!OneOwner, P!Busy,
         S!NoSubmission, S!NoCancel, P!NoSubmission, P!NoCancel
<1>3. P!DeadStayDead
  BY DEF Init, P!DeadStayDead, P!Dead, S!NoCancel, P!Holds
<1>4. P!Results
  BY DEF Init, P!Results, P!Recorded, P!Busy, S!NoSubmission
<1>5. Control
  BY DEF Init, Control
<1>6. RowTypes
  <2>1. NoUsage \in [Wallets -> [ok : Nat, failed : Nat]]
    BY DEF NoUsage
  <2>2. MaxHeight \in Nat /\ MaxCrashes \in Nat
    OBVIOUS
  <2>3. DOMAIN receipts = {}
    BY DEF Init
  <2> QED BY <2>1, <2>2, <2>3 DEF Init, RowTypes, Stages
<1>7. Requests
  BY DEF Init, Requests, S!NoSubmission, S!NoCancel
<1>8. Unsent
  BY DEF Init, Unsent, Sending, Sent
<1>9. Cancelled
  BY DEF Init, Cancelled, P!Dead, S!NoCancel
<1>10. Tracking
  BY DEF Init, Tracking, NoCheck
<1>11. OnChain
  <2>1. DOMAIN receipts = {}
    BY DEF Init
  <2> QED BY <2>1 DEF Init, OnChain
<1> QED
  BY <1>1, <1>2, <1>3, <1>4, <1>5, <1>6, <1>7, <1>8, <1>9, <1>10, <1>11 DEF RInv, P!IInv

LEMMA RInvInductive == RInv /\ [Next]_vars => RInv'
<1> SUFFICES ASSUME RInv, [Next]_vars PROVE RInv'
  OBVIOUS
<1>1. P!IInv' /\ Control' /\ RowTypes'
  BY SchedulerInductive, ControlInductive, RowTypesInductive DEF RInv
<1>2. Requests' /\ Unsent' /\ Cancelled' /\ Tracking' /\ OnChain'
  BY RequestsInductive, UnsentInductive, CancelledInductive, TrackingInductive,
     OnChainInductive
<1> QED BY <1>1, <1>2 DEF RInv

LEMMA RInvHolds == Spec => []RInv
  BY RInvInit, RInvInductive, PTL DEF Spec

-----------------------------------------------------------------------------
\* Every variable has its type, there is a wallet from acquire to release, and what the
\* tracker judges is mined and still tracked.
THEOREM RelayTypeCorrect == Spec => []TypeOK
<1>1. RInv => TypeOK
  <2> SUFFICES ASSUME RInv PROVE TypeOK
    OBVIOUS
  <2>1. S!AvailablePermits >= 0
    <3>1. {w \in {Executor} : wpc[w] = "starting"} = {}
      BY DEF RInv, Control
    <3>2. \A X : S!Cardinality(X) = Cardinality(X)
      BY DEF S!Cardinality, Cardinality, S!IsFiniteSet, IsFiniteSet
    <3>3. S!Cardinality({w \in {Executor} : wpc[w] = "starting"}) = 0
      BY <3>1, <3>2, FS_EmptySet
    <3> QED BY <3>3 DEF S!AvailablePermits
  <2>2. /\ << >> \in [{} -> S!Reading \cup {"idle", "NotFound"}]
        /\ << >> \in [{} -> Tasks \cup {None}] /\ << >> \in [{} -> BOOLEAN]
    <3>1. << >> = [r \in {} |-> FALSE]
      OBVIOUS
    <3> QED BY <3>1
  <2>3. S!TypeOK
    <3>1. S!ScheduledTask = P!ScheduledTask /\ S!WorkerStates = P!WorkerStates
      BY DEF S!ScheduledTask, P!ScheduledTask, S!WorkerStates, P!WorkerStates
    <3>2. P!Types
      BY DEF RInv, P!IInv
    <3> QED
      BY <2>1, <2>2, <3>1, <3>2 DEF P!Types, S!TypeOK, S!NoSubmission, P!NoSubmission,
         S!NoCancel, P!NoCancel
  <2>4. check # NoCheck => check.id \in DOMAIN receipts \cap tracked
    BY DEF RInv, Tracking
  <2> QED BY <2>3, <2>4 DEF RInv, RowTypes, TypeOK
<1> QED BY <1>1, RInvHolds, PTL

\* A transaction that was cancelled, or that the client reads as cancelled, is never
\* handed to the node.
THEOREM CancelledIsNeverSent == Spec => []CancelledNeverSent
<1>1. RInv => CancelledNeverSent
  BY DEF RInv, Cancelled, P!Dead, CancelledNeverSent
<1> QED BY <1>1, RInvHolds, PTL

\* However executor, cancellations, lost replies and restarts interleave, a request is
\* handed to the node at most once.
THEOREM RequestsAreSentOnce == Spec => []SentOnce
<1>1. RInv => SentOnce
  BY DEF RInv, OnChain, SentOnce
<1> QED BY <1>1, RInvHolds, PTL

\* Who writes a row is the only one who still may: what is final stays.
LEMMA FinalStays ==
  ASSUME RInv, [Next]_vars, NEW t \in Tasks, row[t] \in Final
  PROVE  row'[t] = row[t]
<1>0. row[t] # None /\ row[t] # "pending"
  BY DEF Final
<1>1. CASE HandlerStep
  <2>1. ASSUME NEW s \in Submitters, NEW u \in Tasks, NEW reply \in BOOLEAN, Store(s, u, reply) PROVE row'[t] = row[t]
    BY <1>0, <2>1, Apart DEF Store
  <2>2. ASSUME NEW c \in Cancellers, NEW reply \in BOOLEAN, CancelRow(c, reply)
        PROVE  row'[t] = row[t]
    <3>1. row' = row \/ row' = [row EXCEPT ![crow[c]] = "cancelled"]
      BY <2>2 DEF CancelRow, UpdateRow
    <3>2. crow[c] \in cancelled
      BY <2>2 DEF CancelRow, RInv, Cancelled
    <3>3. t \in cancelled => row[t] = "cancelled"
      BY <1>0 DEF RInv, Cancelled, P!Dead
    <3> QED BY <3>1, <3>2, <3>3, Apart
  <2>3. CASE UNCHANGED row
    BY <2>3
  <2> QED
    BY <1>1, <2>1, <2>2, <2>3 DEF HandlerStep, Schedule, Enqueue, DropSubmit, CancelFirst,
       CancelSecond, DropCancel
<1>2. CASE ExecutorStep \/ TrackerStep
  <2>1. CASE stage = "mark failed" /\ row' = [row EXCEPT ![Current] = "failed"]
    <3>1. row[Current] = "pending"
      BY <2>1 DEF RInv, Unsent
    <3> QED BY <1>0, <2>1, <3>1, Apart
  <2>2. CASE /\ check.id \in tracked
             /\ check.verdict \in {"confirmed", "failed", "processing"}
             /\ row' = [row EXCEPT ![check.id] = check.verdict]
    <3>1. check # [id |-> check.id, verdict |-> "remove"]
      <4>1. [id |-> check.id, verdict |-> "remove"].verdict = "remove"
        OBVIOUS
      <4> QED BY <2>2, <4>1
    <3>2. row[check.id] \notin Final
      BY <2>2, <3>1 DEF RInv, Tracking
    <3> QED BY <2>2, <3>2, Apart
  <2> QED BY <1>2, <2>1, <2>2, LoopsWriteSent
<1>3. CASE ChainStep \/ UNCHANGED vars
  BY <1>3, ChainFrame
<1>4. CASE Crash
  BY <1>4 DEF Crash
<1> QED BY <1>1, <1>2, <1>3, <1>4 DEF Next

\* A final status in the database is never overwritten, although no statement asks for
\* the old one.
THEOREM RowsMoveForward == Spec => RowMovesForward
<1>1. RInv /\ [Next]_vars => \A t \in Tasks : row[t] \in Final => row'[t] = row[t]
  BY FinalStays
<1> QED BY <1>1, RInvHolds, PTL DEF Spec, RowMovesForward

-----------------------------------------------------------------------------
\* The chain never takes a block back, and mines a transaction once.
LEMMA DeepStays ==
  ASSUME RInv, [Next]_vars, NEW t, Deep(t)
  PROVE  Deep(t)'
<1>1. /\ \A u \in DOMAIN receipts : receipts[u] \in [block : Nat, ok : BOOLEAN]
      /\ height \in Nat
  <2>1. MaxHeight \in Nat
    OBVIOUS
  <2> QED BY <2>1 DEF RInv, RowTypes
<1>2. ASSUME NEW tx \in mempool, NEW ok \in BOOLEAN, Mine(tx, ok) PROVE Deep(t)'
  <2>1. tx.id # t
    BY DEF RInv, OnChain, Deep
  <2>2. receipts'[t] = receipts[t] /\ t \in DOMAIN receipts' /\ height' = height + 1
    BY <1>2, <2>1 DEF Mine, Deep
  <2>3. /\ height >= receipts[t].block + ConfirmationBlocks /\ receipts[t].ok
        /\ receipts[t].block \in Nat /\ ConfirmationBlocks \in Nat
    BY <1>1 DEF Deep
  <2>4. height' >= receipts'[t].block + ConfirmationBlocks
    BY <1>1, <2>2, <2>3
  <2> QED BY <2>2, <2>3, <2>4 DEF Deep
<1>3. CASE EmptyBlock
  <2>1. height' = height + 1 /\ UNCHANGED receipts
    BY <1>3 DEF EmptyBlock
  <2>2. /\ height >= receipts[t].block + ConfirmationBlocks
        /\ receipts[t].block \in Nat /\ ConfirmationBlocks \in Nat
    BY <1>1 DEF Deep
  <2>3. height' >= receipts'[t].block + ConfirmationBlocks
    BY <1>1, <2>1, <2>2
  <2> QED BY <2>1, <2>3 DEF Deep
<1>4. CASE UNCHANGED <<receipts, height>>
  BY <1>4 DEF Deep
<1>5. CASE TrackerStep \/ Crash
  BY <1>4, <1>5 DEF TrackerStep, TrackTick, TrackRemove, TrackReceipt, TrackHeight, TrackUpdate,
         Crash, chain
<1> QED
  BY <1>2, <1>3, <1>4, <1>5, HandlerFrame, ExecutorFrame DEF Next, ChainStep, vars, chain

LEMMA ConfirmedInductive == RInv /\ Confirmed /\ [Next]_vars => Confirmed'
<1> SUFFICES ASSUME RInv, Confirmed, [Next]_vars PROVE Confirmed'
  OBVIOUS
<1>1. ASSUME NEW t \in Tasks, check' = [id |-> t, verdict |-> "confirmed"] PROVE Deep(t)'
  <2>0. check'.verdict = "confirmed" /\ check'.id = t
    BY <1>1
  <2>1. CASE check' = check
    BY <1>1, <2>1, DeepStays DEF Confirmed
  <2>2. ASSUME NEW reply \in BOOLEAN, TrackHeight(reply) PROVE Deep(t)'
    <3>1. check.verdict = "mined" /\ check' \in {[check EXCEPT !.verdict = Verdict(check.id)], NoCheck}
      BY <2>2 DEF TrackHeight, Examine
    <3>2. check \in [id : Tasks, verdict : Verdicts \ {"none"}] /\ check # NoCheck
      BY <3>1 DEF RInv, RowTypes, NoCheck
    <3>3. check.id = t /\ Verdict(t) = "confirmed"
      BY <2>0, <3>1, <3>2 DEF NoCheck
    <3>4. t \in DOMAIN receipts
      BY <3>2, <3>3 DEF RInv, Tracking
    <3>5. receipts[t].ok /\ height - receipts[t].block >= ConfirmationBlocks
      BY <3>3 DEF Verdict, Confirmations
    <3>6. receipts[t].block \in Nat /\ height \in Nat /\ ConfirmationBlocks \in Nat
      <4>1. MaxHeight \in Nat
        OBVIOUS
      <4> QED BY <3>4, <4>1 DEF RInv, RowTypes
    <3>7. height >= receipts[t].block + ConfirmationBlocks
      BY <3>5, <3>6
    <3>8. Deep(t)
      BY <3>4, <3>5, <3>7 DEF Deep
    <3> QED BY <3>8, DeepStays
  <2>3. ASSUME NEW u \in Tasks, NEW reply \in BOOLEAN, TrackReceipt(u, reply)
        PROVE  check'.verdict # "confirmed"
    BY <2>3 DEF TrackReceipt, Examine, NoCheck
  <2>4. ASSUME NEW reply \in BOOLEAN, TrackUpdate(reply)
        PROVE  check'.verdict # "confirmed"
    <3>1. check \in [id : Tasks, verdict : Verdicts \ {"none"}]
      BY <2>4 DEF TrackUpdate, RInv, RowTypes, NoCheck
    <3>2. check' \in {[check EXCEPT !.verdict = "remove"], NoCheck}
      BY <2>4 DEF TrackUpdate, Examine
    <3> QED BY <3>1, <3>2 DEF NoCheck
  <2>5. CASE TrackTick \/ TrackRemove \/ Crash
    <3>1. check' \in {check, NoCheck}
      BY <2>5 DEF TrackTick, TrackRemove, Examine, Crash
    <3> QED BY <2>0, <2>1, <3>1 DEF NoCheck
  <2> QED
    BY <2>0, <2>1, <2>2, <2>3, <2>4, <2>5, HandlerFrame, ExecutorFrame, ChainFrame
       DEF Next, TrackerStep, tracker
<1>2. ASSUME NEW t \in Tasks, row'[t] = "confirmed" PROVE Deep(t)'
  <2>1. CASE row'[t] = row[t]
    BY <1>2, <2>1, DeepStays DEF Confirmed
  <2>2. CASE HandlerStep
    <3>1. \/ row' = row
          \/ \E u : row' = [row EXCEPT ![u] = "pending"] \/ row' = [row EXCEPT ![u] = "cancelled"]
      BY <2>2 DEF HandlerStep, Store, Schedule, Enqueue, DropSubmit, CancelFirst, CancelSecond, DropCancel, CancelRow,
         UpdateRow
    <3> QED BY <1>2, <2>1, <3>1, Apart
  <2>3. CASE ExecutorStep \/ TrackerStep
    <3>1. CASE row' = [row EXCEPT ![Current] = "failed"]
      BY <1>2, <2>1, <3>1, Apart
    <3>2. CASE row' = [row EXCEPT ![check.id] = check.verdict]
      <4>1. check # NoCheck => check \in [id : Tasks, verdict : Verdicts \ {"none"}]
        BY DEF RInv, RowTypes
      <4>2. CASE t = check.id
        <5>1. check.verdict = "confirmed"
          BY <1>2, <3>2, <4>2, Apart
        <5>2. check = [id |-> t, verdict |-> "confirmed"]
          BY <4>1, <4>2, <5>1 DEF NoCheck
        <5> QED BY <5>2, DeepStays DEF Confirmed
      <4>3. CASE t # check.id
        BY <2>1, <3>2, <4>3, Apart
      <4> QED BY <4>2, <4>3
    <3> QED BY <2>1, <2>3, <3>1, <3>2, LoopsWriteSent
  <2>4. CASE ChainStep \/ UNCHANGED vars
    BY <2>1, <2>4, ChainFrame
  <2>5. CASE Crash
    BY <2>1, <2>5 DEF Crash
  <2> QED BY <2>2, <2>3, <2>4, <2>5 DEF Next
<1> QED BY <1>1, <1>2 DEF Confirmed

\* A row says confirmed only of a transaction that succeeded on the chain at the depth
\* that was asked for.
THEOREM ConfirmedRowsAreDeep == Spec => []ConfirmedIsDeep
<1>1. Init => Confirmed
  BY DEF Init, Confirmed, NoCheck
<1>2. Confirmed => ConfirmedIsDeep
  BY DEF Confirmed, ConfirmedIsDeep, Deep
<1> QED BY <1>1, <1>2, ConfirmedInductive, RInvHolds, PTL DEF Spec

-----------------------------------------------------------------------------
\* What the node holds can still be mined, and what the tracker waits for is held or
\* mined, but for what a later transaction of the same wallet has displaced.

Nonces ==
    /\ \A tx \in mempool : tx.nonce >= mined[tx.wallet]
    /\ \A tx, ty \in mempool : tx.wallet = ty.wallet /\ tx.nonce = ty.nonce => tx = ty

Awaited ==
    /\ \A t \in tracked : t \in leaked \/ CanBeMined(t)
    /\ stage \in Sent => Current \in leaked \/ CanBeMined(Current)

LEMMA LeakedStays == [Next]_vars => leaked \subseteq leaked'
  BY DEF Next, HandlerStep, Store, Schedule, Enqueue, DropSubmit, CancelFirst, CancelSecond,
     DropCancel, CancelRow, ExecutorStep, Pop, Acquire, SendRefused, Track, Release, ReadNonce,
     SendTaken, MarkSubmitted, MarkFailed, Complete, CompleteEnd, Retry, TrackerStep, TrackTick,
     TrackRemove, TrackReceipt, TrackHeight, TrackUpdate, ChainStep, Mine, EmptyBlock,
     Crash, vars, Leak

LEMMA TrackerFrame ==
  ASSUME TrackerStep
  PROVE  UNCHANGED <<scheduler, handlers, executor, chain, crashes, sends, leaked>>
  BY DEF TrackerStep, TrackTick, TrackRemove, TrackReceipt, TrackHeight, TrackUpdate

\* Only two steps change what the node holds or has mined.
LEMMA ChainChanges ==
  ASSUME [Next]_vars
  PROVE  \/ UNCHANGED <<mempool, mined>> /\ DOMAIN receipts' = DOMAIN receipts
         \/ \E reply \in BOOLEAN : SendTaken(reply)
         \/ \E tx \in mempool, ok \in BOOLEAN : Mine(tx, ok)
<1>1. CASE HandlerStep \/ Crash \/ TrackerStep \/ UNCHANGED vars
  BY <1>1, HandlerFrame, TrackerFrame DEF Crash, vars, chain
<1>2. CASE ExecutorStep
  BY <1>2, ExecutorFrame
<1>3. CASE EmptyBlock
  BY <1>3 DEF EmptyBlock
<1> QED BY <1>1, <1>2, <1>3 DEF Next, ChainStep

LEMMA NoncesInductive == RInv /\ Nonces /\ [Next]_vars => Nonces'
<1> SUFFICES ASSUME RInv, Nonces, [Next]_vars PROVE Nonces'
  OBVIOUS
<1>0. /\ mempool \subseteq [id : Tasks, wallet : Wallets, nonce : Nat]
      /\ mined \in [Wallets -> Nat]
  BY DEF RInv, RowTypes
<1>1. ASSUME NEW reply \in BOOLEAN, SendTaken(reply) PROVE Nonces'
  <2> DEFINE sent == [id |-> Current, wallet |-> wallet, nonce |-> nonce]
  <2>1. /\ mempool' = (mempool \ Rivals) \cup {sent} /\ UNCHANGED mined
        /\ nonce >= mined[wallet]
    BY <1>1 DEF SendTaken
  <2>2. sent.wallet = wallet /\ sent.nonce = nonce
    OBVIOUS
  <2>3. \A tx \in mempool \ Rivals : tx.wallet # wallet \/ tx.nonce # nonce
    BY DEF Rivals
  <2> HIDE DEF sent
  <2> QED BY <2>1, <2>2, <2>3 DEF Nonces
<1>2. ASSUME NEW tx \in mempool, NEW ok \in BOOLEAN, Mine(tx, ok) PROVE Nonces'
  <2>1. /\ mempool' = mempool \ {tx} /\ tx.nonce = mined[tx.wallet]
        /\ mined' = [mined EXCEPT ![tx.wallet] = @ + 1]
    BY <1>2 DEF Mine
  <2>2. ASSUME NEW ty \in mempool' PROVE ty.nonce >= mined'[ty.wallet]
    <3>1. ty \in mempool /\ ty # tx /\ ty.nonce \in Nat /\ ty.wallet \in Wallets
          /\ tx.nonce \in Nat /\ tx.wallet \in Wallets
      BY <1>0, <2>1
    <3>2. CASE ty.wallet = tx.wallet
      <4>1. ty.nonce # tx.nonce /\ ty.nonce >= mined[tx.wallet]
        BY <3>1, <3>2 DEF Nonces
      <4>2. mined'[ty.wallet] = tx.nonce + 1
        BY <1>0, <2>1, <3>1, <3>2
      <4> QED BY <2>1, <3>1, <4>1, <4>2
    <3>3. CASE ty.wallet # tx.wallet
      <4>1. mined'[ty.wallet] = mined[ty.wallet]
        BY <1>0, <2>1, <3>1, <3>3
      <4> QED BY <3>1, <4>1 DEF Nonces
    <3> QED BY <3>2, <3>3
  <2> QED BY <2>1, <2>2 DEF Nonces
<1>3. CASE UNCHANGED <<mempool, mined>>
  BY <1>3 DEF Nonces
<1> QED BY <1>1, <1>2, <1>3, ChainChanges

\* A transaction that can be mined goes on being so, unless it is displaced.
LEMMA StillMined ==
  ASSUME RInv, Nonces, [Next]_vars, NEW t, CanBeMined(t)
  PROVE  CanBeMined(t)' \/ t \in leaked'
<1>0. Nonces'
  BY NoncesInductive
<1>1. CASE t \in DOMAIN receipts
  <2>1. DOMAIN receipts \subseteq DOMAIN receipts'
    BY ChainChanges DEF SendTaken, Mine
  <2> QED BY <1>1, <2>1 DEF CanBeMined
<1>2. ASSUME NEW tx \in mempool, tx.id = t PROVE CanBeMined(t)' \/ t \in leaked'
  <2>1. CASE tx \in mempool'
    BY <1>0, <1>2, <2>1 DEF Nonces, CanBeMined
  <2>2. ASSUME NEW reply \in BOOLEAN, SendTaken(reply), tx \notin mempool'
        PROVE  t \in leaked'
    <3>1. tx \in Rivals
      BY <2>2 DEF SendTaken
    <3> QED BY <1>2, <2>2, <3>1 DEF SendTaken
  <2>3. ASSUME NEW ty \in mempool, NEW ok \in BOOLEAN, Mine(ty, ok), tx \notin mempool'
        PROVE  t \in DOMAIN receipts'
    BY <1>2, <2>3 DEF Mine
  <2> QED BY <2>1, <2>2, <2>3, ChainChanges DEF CanBeMined
<1> QED BY <1>1, <1>2 DEF CanBeMined

LEMMA AwaitedInductive == RInv /\ Nonces /\ Awaited /\ [Next]_vars => Awaited'
<1> SUFFICES ASSUME RInv, Nonces, Awaited, [Next]_vars PROVE Awaited'
  OBVIOUS
<1>1. \A t : t \in leaked \/ CanBeMined(t) => t \in leaked' \/ CanBeMined(t)'
  BY LeakedStays, StillMined
<1>2. CASE tracked' \subseteq tracked /\ Current' = Current /\ stage' = stage
  BY <1>1, <1>2 DEF Awaited
<1>3. CASE HandlerStep \/ ChainStep \/ TrackerStep \/ UNCHANGED vars
  <2>1. UNCHANGED <<stage, wtask>> /\ tracked' \subseteq tracked
    BY <1>3, HandlerFrame, ChainFrame, TrackerFrame DEF executor, tracker, scheduler, HandlerStep,
       Store, Schedule, Enqueue, DropSubmit, CancelFirst, CancelSecond, DropCancel, CancelRow,
       S!ScheduleCheck, S!SchedulePush, S!CancelPending, S!CancelProcessing, TrackerStep,
       TrackTick, TrackRemove, TrackReceipt, TrackHeight, TrackUpdate
  <2> QED BY <1>2, <2>1 DEF Current
<1>4. ASSUME NEW reply \in BOOLEAN, SendTaken(reply) PROVE Awaited'
  <2> DEFINE sent == [id |-> Current, wallet |-> wallet, nonce |-> nonce]
  <2>1. /\ sent \in mempool' /\ UNCHANGED <<mined, tracked>> /\ Current' = Current
        /\ nonce >= mined[wallet]
    BY <1>4 DEF SendTaken, scheduler, tracker, Current
  <2>2. sent.id = Current /\ sent.wallet = wallet /\ sent.nonce = nonce
    OBVIOUS
  <2> HIDE DEF sent
  <2>3. CanBeMined(Current)'
    BY <2>1, <2>2 DEF CanBeMined
  <2>4. \A t \in tracked' : t \in leaked' \/ CanBeMined(t)'
    BY <1>1, <2>1 DEF Awaited
  <2> QED BY <2>3, <2>4 DEF Awaited
<1>5. CASE Track
  <2>1. /\ tracked' = tracked \cup {Current} /\ stage \in Sent /\ stage' \notin Sent
    BY <1>5 DEF Track, Sent
  <2>2. \A t \in tracked' : t \in leaked \/ CanBeMined(t)
    BY <2>1 DEF Awaited
  <2> QED BY <1>1, <2>1, <2>2 DEF Awaited
<1>6. ASSUME NEW reply \in BOOLEAN, MarkSubmitted(reply) PROVE Awaited'
  <2>1. UNCHANGED tracked /\ Current' = Current /\ stage \in Sent
    BY <1>6 DEF MarkSubmitted, scheduler, tracker, Current, Sent
  <2> QED BY <1>1, <2>1 DEF Awaited
<1>7. CASE \/ Pop \/ Acquire \/ SendRefused \/ Release \/ Complete \/ CompleteEnd \/ Retry
           \/ \E reply \in BOOLEAN : ReadNonce(reply) \/ MarkFailed(reply)
  <2>1. UNCHANGED tracked /\ (stage' \in Sent => stage' = stage /\ Current' = Current)
    BY <1>7 DEF Pop, Acquire, SendRefused, Release, Complete, CompleteEnd, Retry, ReadNonce,
       MarkFailed, tracker, executor, Sent, RInv, Control, S!CompleteRemove, S!RetryTake
  <2> QED BY <1>1, <2>1 DEF Awaited
<1>8. CASE Crash
  BY <1>8 DEF Crash, Awaited, Sent
<1> QED BY <1>3, <1>4, <1>5, <1>6, <1>7, <1>8 DEF Next, ExecutorStep

-----------------------------------------------------------------------------
\* Who has a request in hand.  PendingHasOwner asks for no more while the executor is in
\* execute_task; Handover is what it must have seen to when it leaves.

Owned(t) ==
    \/ t \in leaked
    \/ \E s \in Submitters : gw[s] = t
    \/ \E u \in priority_queue : u.id = t
    \/ wpc[Executor] # "idle" /\ Current = t /\ stage \notin Ended
    \/ t \in tracked /\ CanBeMined(t)
    \/ \E c \in Cancellers : crow[c] = t \/ can[c] = [id |-> t, hit |-> TRUE]

LEMMA OwnedIsOwned ==
  PendingHasOwner <=> \A t \in Tasks : row[t] \in {"pending", "processing"} => Owned(t)
  BY DEF PendingHasOwner, Owned, Ended, S!Ids, S!Owns, Current

LEMMA HandoverInductive == RInv /\ Handover /\ [Next]_vars => Handover'
<1> SUFFICES ASSUME RInv, Handover, [Next]_vars PROVE Handover'
  OBVIOUS
<1>1. stage # "idle" /\ row[Current] \in Final => row'[Current] = row[Current]
  BY FinalStays, Apart
<1>2. leaked \subseteq leaked'
  BY LeakedStays
<1>3. CASE HandlerStep \/ ChainStep \/ UNCHANGED vars
  <2>1. UNCHANGED <<stage, wtask, tracked>>
    BY <1>3, HandlerFrame, ChainFrame DEF executor, tracker, scheduler, HandlerStep, Store,
       Schedule, Enqueue, DropSubmit, CancelFirst, CancelSecond, DropCancel, CancelRow, S!ScheduleCheck, S!SchedulePush,
       S!CancelPending, S!CancelProcessing
  <2>2. Current' = Current
    BY <2>1 DEF Current
  <2> QED BY <1>1, <1>2, <2>1, <2>2 DEF Handover
<1>4. CASE TrackerStep
  <2>1. UNCHANGED <<stage, wtask>>
    BY <1>4 DEF TrackerStep, TrackTick, TrackRemove, TrackReceipt, TrackHeight, TrackUpdate,
       executor, scheduler
  <2>2. Current' = Current
    BY <2>1 DEF Current
  <2>3. \A t \in tracked : t \in tracked' \/ row[t] \in Final
    BY <1>4 DEF TrackerStep, TrackTick, TrackRemove, TrackReceipt, TrackHeight, TrackUpdate,
       RInv, Tracking
  <2> QED BY <1>1, <1>2, <2>1, <2>2, <2>3 DEF Handover
<1>5. CASE Track
  <2>1. Current' = Current
    BY <1>5 DEF Track, Current, scheduler
  <2> QED BY <1>5, <2>1 DEF Track, Handover
<1>6. ASSUME NEW reply \in BOOLEAN, MarkFailed(reply) PROVE Handover'
  <2>1. Current' = Current /\ stage' = "release failed" /\ Current \in Tasks
    BY <1>6, Apart DEF MarkFailed, Current, scheduler
  <2>2. reply => row'[Current] = "failed"
    BY <1>6, <2>1, Apart DEF MarkFailed, UpdateRow
  <2>3. ~ reply => Current \in leaked'
    BY <1>6 DEF MarkFailed, Leak
  <2> QED BY <2>1, <2>2, <2>3 DEF Handover, Final
<1>7. CASE Crash
  BY <1>7 DEF Crash, Handover
<1>8. CASE stage' \notin {"release", "release failed"}
  BY <1>8 DEF Handover
<1>9. CASE ExecutorStep /\ stage' \in {"release", "release failed"}
  <2>1. stage # "idle"
    BY <1>9 DEF ExecutorStep, Pop, Acquire, SendRefused, Track, Release, ReadNonce, SendTaken,
       MarkSubmitted, MarkFailed, Complete, CompleteEnd, Retry, RInv, Control, executor,
       S!CompleteRemove, S!RetryTake
  <2>2. Track \/ \E reply \in BOOLEAN : MarkFailed(reply)
    BY <1>9, <2>1 DEF ExecutorStep, Pop, Acquire, SendRefused, Release, ReadNonce, SendTaken,
       MarkSubmitted, Complete, CompleteEnd, Retry, RInv, Control, executor,
       S!CompleteRemove, S!RetryTake
  <2> QED BY <1>5, <1>6, <2>2
<1> QED
  BY <1>3, <1>4, <1>7, <1>8, <1>9 DEF Next

LEMMA HandlersOwn ==
  ASSUME RInv, HandlerStep, NEW t \in Tasks, row'[t] \in {"pending", "processing"},
         row[t] \in {"pending", "processing"} => Owned(t)
  PROVE  Owned(t)'
<1>0. UNCHANGED <<wpc, wtask, stage, tracked>>
  BY HandlerFrame DEF executor, tracker, HandlerStep, Store, Schedule, Enqueue, DropSubmit, CancelFirst,
     CancelSecond, DropCancel, CancelRow, scheduler, S!ScheduleCheck, S!SchedulePush, S!CancelPending,
     S!CancelProcessing
<1>1. Current' = Current /\ CanBeMined(t)' = CanBeMined(t)
  BY <1>0, HandlerFrame DEF Current, CanBeMined, chain
<1>2. ASSUME NEW s \in Submitters, NEW u \in Tasks, NEW reply \in BOOLEAN, Store(s, u, reply) PROVE Owned(t)'
  <2>1. /\ gw[s] = None
        /\ gw' = [gw EXCEPT ![s] = u] \/ (gw' = gw /\ u \in leaked')
        /\ row' = [row EXCEPT ![u] = "pending"]
        /\ UNCHANGED <<priority_queue, crow, can>> /\ leaked \subseteq leaked'
    BY <1>2 DEF Store, scheduler, Leak
  <2>2. gw \in [Submitters -> Tasks \cup {None}]
    BY DEF RInv, RowTypes
  <2>3. CASE t = u
    BY <2>1, <2>2, <2>3 DEF Owned
  <2>4. CASE t # u
    <3>1. Owned(t)
      BY <2>1, <2>4, Apart
    <3>2. \A r \in Submitters : gw[r] = t => gw'[r] = t
      BY <2>1, <2>2
    <3> QED BY <1>0, <1>1, <2>1, <3>1, <3>2 DEF Owned
  <2> QED BY <2>3, <2>4
<1>3. ASSUME NEW s \in Submitters, Schedule(s) PROVE Owned(t)'
  <2>0. gw \in [Submitters -> Tasks \cup {None}]
    BY DEF RInv, RowTypes
  <2>1. /\ UNCHANGED <<row, priority_queue, crow, can>>
        /\ \/ gw' = [gw EXCEPT ![s] = gw[s]] /\ leaked' = leaked
           \/ gw' = [gw EXCEPT ![s] = None] /\ leaked' = leaked \cup {gw[s]}
    BY <1>3 DEF Schedule, S!ScheduleCheck, S!queues, Leak
  <2>2. /\ \A r \in Submitters : gw[r] = t => gw'[r] = t \/ t \in leaked'
        /\ leaked \subseteq leaked'
    BY <2>0, <2>1
  <2>3. Owned(t)
    BY <2>1
  <2> QED BY <1>0, <1>1, <2>1, <2>2, <2>3 DEF Owned
<1>4. ASSUME NEW s \in Submitters, Enqueue(s) PROVE Owned(t)'
  <2>0. gw \in [Submitters -> Tasks \cup {None}]
    BY DEF RInv, RowTypes
  <2>1. PICK u : priority_queue' = priority_queue \cup {u} /\ u.id = sub[s].id
    <3>1. PICK at \in sub[s].since .. 0 :
             priority_queue' = priority_queue \cup
                {[id |-> sub[s].id, priority |-> sub[s].priority,
                  scheduled_at |-> at, retry_count |-> 0]}
      BY <1>4 DEF Enqueue, S!SchedulePush
    <3> DEFINE pushed == [id |-> sub[s].id, priority |-> sub[s].priority,
                          scheduled_at |-> at, retry_count |-> 0]
    <3>2. pushed.id = sub[s].id /\ priority_queue' = priority_queue \cup {pushed}
      BY <3>1
    <3> HIDE DEF pushed
    <3> QED BY <3>2
  <2>2. /\ UNCHANGED <<row, crow, can, leaked>> /\ gw' = [gw EXCEPT ![s] = None]
        /\ gw[s] = sub[s].id
    BY <1>4 DEF Enqueue, S!SchedulePush, RInv, Requests
  <2>3. \A r \in Submitters : gw[r] = t => gw'[r] = t \/ u.id = t
    BY <2>0, <2>1, <2>2
  <2>4. Owned(t)
    BY <2>2
  <2> QED BY <1>0, <1>1, <2>1, <2>2, <2>3, <2>4 DEF Owned
<1>5. ASSUME NEW c \in Cancellers, NEW u \in Tasks, CancelFirst(c, u) PROVE Owned(t)'
  <2>1. /\ UNCHANGED <<row, gw, crow, leaked>> /\ can[c] = S!NoCancel
        /\ priority_queue' = {v \in priority_queue : v.id # u}
        /\ can' = [can EXCEPT ![c] = [id |-> u, hit |-> u \in S!Ids(priority_queue)]]
    BY <1>5 DEF CancelFirst, S!CancelPending, handlers
  <2>2. can \in [Cancellers -> [id : Tasks, hit : BOOLEAN] \cup {S!NoCancel}]
    BY FromScheduler DEF RInv
  <2>3. \A v \in priority_queue : v.id = t =>
           v \in priority_queue' \/ can'[c] = [id |-> t, hit |-> TRUE]
    BY <2>1, <2>2 DEF S!Ids
  <2>4. \A d \in Cancellers :
           can[d] = [id |-> t, hit |-> TRUE] => can'[d] = [id |-> t, hit |-> TRUE]
    <3>1. S!NoCancel.id # [id |-> t, hit |-> TRUE].id
      BY DEF S!NoCancel
    <3>2. can[c] # [id |-> t, hit |-> TRUE]
      BY <2>1, <3>1
    <3> QED BY <2>1, <2>2, <3>2
  <2>5. Owned(t)
    BY <2>1
  <2> QED BY <1>0, <1>1, <2>1, <2>3, <2>4, <2>5 DEF Owned
<1>6. ASSUME NEW c \in Cancellers, CancelSecond(c) PROVE Owned(t)'
  <2>1. /\ UNCHANGED <<row, gw, priority_queue, leaked>>
        /\ can[c].id # None /\ can' = [can EXCEPT ![c] = S!NoCancel]
        /\ crow' = [crow EXCEPT ![c] =
                       IF can[c].hit \/ can[c].id \in S!Ids(processing_queue)
                       THEN can[c].id ELSE None]
    BY <1>6 DEF CancelSecond, S!CancelProcessing
  <2>2. can \in [Cancellers -> [id : Tasks, hit : BOOLEAN] \cup {S!NoCancel}]
    BY FromScheduler DEF RInv
  <2>3. crow \in [Cancellers -> Tasks \cup {None}] /\ crow[c] = None
    BY <2>1 DEF RInv, RowTypes, Requests
  <2>4. \A d \in Cancellers : can[d] = [id |-> t, hit |-> TRUE] =>
           can'[d] = can[d] \/ crow'[d] = t
    <3>1. ASSUME can[c] = [id |-> t, hit |-> TRUE] PROVE crow'[c] = t
      <4>1. can[c].id = t /\ can[c].hit
        BY <3>1
      <4> QED BY <2>1, <2>3, <4>1
    <3>2. \A d \in Cancellers : d # c => can'[d] = can[d]
      BY <2>1, <2>2
    <3> QED BY <3>1, <3>2
  <2>5. \A d \in Cancellers : crow[d] = t => crow'[d] = t
    BY <2>1, <2>3
  <2>6. Owned(t)
    BY <2>1
  <2> QED BY <1>0, <1>1, <2>1, <2>4, <2>5, <2>6 DEF Owned
<1>7. ASSUME NEW c \in Cancellers, NEW reply \in BOOLEAN, CancelRow(c, reply) PROVE Owned(t)'
  <2>1. /\ UNCHANGED <<gw, priority_queue, can>> /\ crow[c] # None
        /\ crow' = [crow EXCEPT ![c] = None]
        /\ row' = IF reply THEN [row EXCEPT ![crow[c]] = "cancelled"] ELSE row
        /\ leaked' = IF reply THEN leaked ELSE leaked \cup {crow[c]}
    BY <1>7 DEF CancelRow, UpdateRow, Leak, scheduler
  <2>2. crow \in [Cancellers -> Tasks \cup {None}]
    BY DEF RInv, RowTypes
  <2>3. \A d \in Cancellers : crow[d] = t => crow'[d] = t \/ t = crow[c]
    BY <2>1, <2>2
  <2>4. t # crow[c] \/ t \in leaked'
    BY <2>1, Apart
  <2>5. Owned(t)
    BY <2>1, Apart
  <2> QED BY <1>0, <1>1, <2>1, <2>3, <2>4, <2>5 DEF Owned
<1>8. ASSUME NEW s \in Submitters, DropSubmit(s) PROVE Owned(t)'
  <2>1. /\ UNCHANGED <<row, priority_queue, crow, can>>
        /\ gw' = [gw EXCEPT ![s] = None] /\ leaked' = leaked \cup {gw[s]}
    BY <1>8 DEF DropSubmit, Leak
  <2>2. \A r \in Submitters : gw[r] = t => gw'[r] = t \/ t \in leaked'
    BY <2>1 DEF RInv, RowTypes
  <2>3. Owned(t)
    BY <2>1
  <2> QED BY <1>0, <1>1, <2>1, <2>2, <2>3 DEF Owned
<1>9. ASSUME NEW c \in Cancellers, DropCancel(c) PROVE Owned(t)'
  <2>1. /\ UNCHANGED <<row, gw, priority_queue>>
        /\ can' = [can EXCEPT ![c] = S!NoCancel] /\ crow' = [crow EXCEPT ![c] = None]
        /\ crow[c] # None => crow[c] \in leaked'
        /\ crow[c] = None /\ can[c].hit => can[c].id \in leaked'
        /\ leaked \subseteq leaked'
    BY <1>9 DEF DropCancel, Leak
  <2>2. /\ can \in [Cancellers -> [id : Tasks, hit : BOOLEAN] \cup {S!NoCancel}]
        /\ crow \in [Cancellers -> Tasks \cup {None}]
    BY FromScheduler DEF RInv, RowTypes
  <2>3. \A d \in Cancellers : crow[d] = t => crow'[d] = t \/ t \in leaked'
    BY <2>1, <2>2
  <2>4. \A d \in Cancellers : can[d] = [id |-> t, hit |-> TRUE] =>
           can'[d] = [id |-> t, hit |-> TRUE] \/ t \in leaked'
    <3>1. ASSUME can[c] = [id |-> t, hit |-> TRUE] PROVE t \in leaked'
      <4>1. can[c].id = t /\ can[c].hit
        BY <3>1
      <4>2. crow[c] = None
        BY <4>1 DEF RInv, Requests
      <4> QED BY <2>1, <4>1, <4>2
    <3>2. \A d \in Cancellers : d # c => can'[d] = can[d]
      BY <2>1, <2>2
    <3> QED BY <3>1, <3>2
  <2>5. Owned(t)
    BY <2>1
  <2> QED BY <1>0, <1>1, <2>1, <2>3, <2>4, <2>5 DEF Owned
<1> QED
  BY <1>2, <1>3, <1>4, <1>5, <1>6, <1>7, <1>8, <1>9 DEF HandlerStep

LEMMA ExecutorOwns ==
  ASSUME RInv, Handover, Nonces, Awaited, ExecutorStep, NEW t \in Tasks, row'[t] \in {"pending", "processing"},
         row[t] \in {"pending", "processing"} => Owned(t)
  PROVE  Owned(t)'
<1>0. UNCHANGED <<gw, crow, can>> /\ tracked \subseteq tracked' /\ leaked \subseteq leaked'
  BY LoopsFrame, ExecutorFrame DEF handlers, ExecutorStep, Pop, Acquire, SendRefused, Track,
     Release, ReadNonce, SendTaken, MarkSubmitted, MarkFailed, Complete, CompleteEnd, Retry, Leak
<1>1. row[t] \in {"pending", "processing"}
  <2>1. ASSUME NEW reply \in BOOLEAN, MarkFailed(reply) \/ MarkSubmitted(reply)
        PROVE  row' = row \/ row' = [row EXCEPT ![Current] = "failed"]
    BY <2>1 DEF MarkFailed, MarkSubmitted, UpdateRow
  <2>2. row' = row \/ row' = [row EXCEPT ![Current] = "failed"]
    BY <2>1, ExecutorFrame
  <2> QED BY <2>2, Apart
<1>2. Owned(t) /\ (CanBeMined(t) => CanBeMined(t)' \/ t \in leaked')
  BY <1>1, StillMined DEF Next
<1>3. CASE Pop
  <2>1. PICK u \in priority_queue : /\ priority_queue' = priority_queue \ {u}
                                    /\ wtask' = [wtask EXCEPT ![Executor] = u]
    BY <1>3 DEF Pop, S!GetNextTask
  <2>2. wpc[Executor] = "idle" /\ wpc' = [wpc EXCEPT ![Executor] = "popped"] /\ stage' = "acquire"
    BY <1>3 DEF Pop, S!GetNextTask
  <2>3. wpc'[Executor] = "popped" /\ wtask'[Executor] = u
    BY <2>1, <2>2 DEF RInv, P!IInv, P!Types
  <2>4. wpc'[Executor] # "idle" /\ Current' = u.id /\ stage' \notin Ended
    BY <2>2, <2>3 DEF Current, Ended
  <2> QED BY <1>0, <1>2, <2>1, <2>2, <2>4 DEF Owned
<1>4. CASE ~ Pop /\ stage \in Ended
  <2>1. priority_queue \subseteq priority_queue'
    BY <1>4 DEF ExecutorStep, Acquire, SendRefused, Track, Release, ReadNonce, SendTaken,
       MarkSubmitted, MarkFailed, Complete, CompleteEnd, Retry, scheduler, Ended,
       S!CompleteRecord, S!CompleteRemove, S!RetryTake, S!RetryWith, S!queues
  <2> QED BY <1>0, <1>2, <1>4, <2>1 DEF Owned
<1>5. CASE stage \notin Ended
  <2>0. stage \notin {"idle", "succeeded", "failed"} /\ wpc[Executor] = "popped"
    BY <1>5 DEF RInv, Control, Ended
  <2>1. UNCHANGED scheduler
    BY <2>0 DEF ExecutorStep, Pop, Acquire, SendRefused, Track, Release, ReadNonce, SendTaken,
       MarkSubmitted, MarkFailed, Complete, CompleteEnd, Retry, S!GetNextTask,
       S!CompleteRemove, S!RetryTake
  <2>2. UNCHANGED <<priority_queue, wpc, wtask>> /\ Current' = Current
    BY <2>1 DEF scheduler, Current
  <2>3. CASE stage' \notin Ended
    BY <1>0, <1>2, <2>2, <2>3 DEF Owned
  <2>4. CASE Acquire /\ stage' \in Ended
    <3>1. Current \in leaked'
      BY <2>4 DEF Acquire, Leak, Ended
    <3> QED BY <1>0, <1>2, <2>2, <3>1 DEF Owned
  <2>5. CASE Release
    <3>1. Current \in tracked \/ row[Current] \in Final \/ Current \in leaked
      BY <2>5 DEF Release, Handover
    <3>2. t = Current => (t \in tracked /\ CanBeMined(t)) \/ t \in leaked
      BY <1>1, <3>1 DEF Final, Awaited
    <3> QED BY <1>0, <1>2, <2>2, <3>2 DEF Owned
  <2>6. stage' \in Ended => Release \/ Acquire
    BY <2>0 DEF ExecutorStep, Pop, SendRefused, Track, ReadNonce, SendTaken,
       MarkSubmitted, MarkFailed, Complete, CompleteEnd, Retry, S!GetNextTask,
       S!CompleteRemove, S!RetryTake, Ended
  <2> QED BY <2>3, <2>4, <2>5, <2>6
<1> QED BY <1>3, <1>4, <1>5

LEMMA TrackerOwns ==
  ASSUME RInv, Awaited, TrackerStep, NEW t \in Tasks, row'[t] \in {"pending", "processing"},
         row[t] \in {"pending", "processing"} => Owned(t)
  PROVE  Owned(t)'
<1>1. UNCHANGED <<priority_queue, wpc, wtask, stage, gw, crow, can, leaked>>
  BY DEF TrackerStep, TrackTick, TrackRemove, TrackReceipt, TrackHeight, TrackUpdate,
     executor, scheduler, handlers
<1>2. Current' = Current /\ CanBeMined(t)' = CanBeMined(t)
  BY <1>1, TrackerFrame DEF Current, CanBeMined, chain
<1>3. \A u \in tracked : u \in tracked' \/ row'[u] \in Final
  BY DEF TrackerStep, TrackTick, TrackRemove, TrackReceipt, TrackHeight, TrackUpdate,
     RInv, Tracking
<1>4. CASE row'[t] = row[t]
  BY <1>1, <1>2, <1>3, <1>4 DEF Owned, Final
<1>5. CASE t \in tracked
  BY <1>1, <1>2, <1>3, <1>5 DEF Owned, Final, Awaited
<1>6. row'[t] = row[t] \/ t \in tracked
  <2>1. CASE stage' = "release failed" /\ stage = "mark failed"
    BY <1>1, <2>1
  <2>2. CASE check.id \in tracked /\ row' = [row EXCEPT ![check.id] = check.verdict]
    BY <2>2, Apart
  <2> QED BY <2>1, <2>2, LoopsWriteSent
<1> QED BY <1>4, <1>5, <1>6

\* A request the client reads as pending or processing is in the hands of a handler, the
\* queue, the executor, or the tracker with a transaction that can still be mined; or one
\* of the faults that "leaked" records has left it without an owner.
THEOREM PendingRowsHaveOwners == Spec => []PendingHasOwner
<1>1. Init => PendingHasOwner /\ Handover /\ Nonces /\ Awaited
  BY DEF Init, PendingHasOwner, Handover, Nonces, Awaited, Sent
<1>2. RInv /\ Handover /\ Nonces /\ Awaited /\ PendingHasOwner /\ [Next]_vars => PendingHasOwner'
  <2> SUFFICES ASSUME RInv, Handover, Nonces, Awaited, PendingHasOwner, [Next]_vars
               PROVE  PendingHasOwner'
    OBVIOUS
  <2>1. ASSUME NEW t \in Tasks, row'[t] \in {"pending", "processing"} PROVE Owned(t)'
    <3>1. row[t] \in {"pending", "processing"} => Owned(t)
      BY OwnedIsOwned
    <3>2. CASE ChainStep \/ UNCHANGED vars
      <4>1. UNCHANGED <<row, priority_queue, wpc, wtask, stage, gw, crow, can, leaked, tracked>>
        BY <3>2, ChainFrame DEF scheduler, handlers, executor, tracker
      <4>2. Current' = Current
        BY <4>1 DEF Current
      <4>3. CanBeMined(t) => CanBeMined(t)' \/ t \in leaked'
        BY StillMined
      <4> QED BY <2>1, <3>1, <4>1, <4>2, <4>3 DEF Owned
    <3>3. CASE Crash
      BY <2>1, <3>3 DEF Crash, Owned, Final
    <3> QED
      BY <2>1, <3>1, <3>2, <3>3, HandlersOwn, ExecutorOwns, TrackerOwns DEF Next
  <2>2. PendingHasOwner' <=> \A t \in Tasks : row'[t] \in {"pending", "processing"} => Owned(t)'
    BY DEF PendingHasOwner, Owned, Ended, S!Ids, S!Owns, Current
  <2> QED BY <2>1, <2>2
<1> QED
  BY <1>1, <1>2, HandoverInductive, NoncesInductive, AwaitedInductive, RInvHolds, PTL DEF Spec

-----------------------------------------------------------------------------
\* A counter that goes up by one in one wallet adds one element to Uses.
LEMMA OneMoreUse ==
  ASSUME NEW f, NEW g, NEW v \in Wallets, \A w \in Wallets : f[w] \in Nat,
         g[v] = f[v] + 1, \A w \in Wallets \ {v} : g[w] = f[w], IsFiniteSet(Uses(f))
  PROVE  IsFiniteSet(Uses(g)) /\ Cardinality(Uses(g)) = Cardinality(Uses(f)) + 1
<1> DEFINE new == <<v, f[v] + 1>>
<1>1. ASSUME NEW w, NEW k
      PROVE  /\ <<w, k>> \in Uses(f) <=> w \in Wallets /\ k \in 1 .. f[w]
             /\ <<w, k>> \in Uses(g) <=> w \in Wallets /\ k \in 1 .. g[w]
  BY DEF Uses
<1>2. \A x \in Uses(f) \cup Uses(g) : \E w, k : x = <<w, k>>
  BY DEF Uses
<1>3. 1 .. g[v] = (1 .. f[v]) \cup {f[v] + 1} /\ f[v] + 1 \notin 1 .. f[v]
  BY f[v] \in Nat
<1>4. new \notin Uses(f)
  BY <1>1, <1>3
<1>5. Uses(g) = Uses(f) \cup {new}
  <2>1. ASSUME NEW w, NEW k PROVE <<w, k>> \in Uses(g) <=> <<w, k>> \in Uses(f) \cup {new}
    <3>1. CASE w = v
      BY <1>1, <1>3, <3>1
    <3>2. CASE w # v
      BY <1>1, <3>2
    <3> QED BY <3>1, <3>2
  <2>2. new \in Uses(g)
    BY <1>1, <1>3
  <2> QED BY <1>2, <2>1, <2>2
<1> HIDE DEF new
<1> QED BY <1>4, <1>5, FS_AddElement

Agreement ==
    /\ IsFiniteSet(Uses([w \in Wallets |-> usage[w].ok]))
    /\ IsFiniteSet(Uses([w \in Wallets |-> usage[w].failed]))
    /\ IsFiniteSet(completed_tasks) /\ IsFiniteSet(failed_tasks)
    /\ PoolAgreesWithResults

\* With nothing counted and no result the two agree.
LEMMA NothingCounted ==
  /\ IsFiniteSet(Uses([w \in Wallets |-> NoUsage[w].ok]))
  /\ Cardinality(Uses([w \in Wallets |-> NoUsage[w].ok])) = 0
  /\ IsFiniteSet(Uses([w \in Wallets |-> NoUsage[w].failed]))
  /\ Cardinality(Uses([w \in Wallets |-> NoUsage[w].failed])) = 0
<1>1. \A w \in Wallets : NoUsage[w].ok = 0 /\ NoUsage[w].failed = 0
  BY DEF NoUsage
<1>2. 1 .. 0 = {}
  OBVIOUS
<1>3. \A X : X \X {} = {}
  OBVIOUS
<1>4. /\ Uses([w \in Wallets |-> NoUsage[w].ok]) = {}
      /\ Uses([w \in Wallets |-> NoUsage[w].failed]) = {}
  BY <1>1, <1>2, <1>3 DEF Uses
<1> QED BY <1>4, FS_EmptySet

LEMMA AgreementInductive == RInv /\ Agreement /\ [Next]_vars => Agreement'
<1> SUFFICES ASSUME RInv, Agreement, [Next]_vars PROVE Agreement'
  OBVIOUS
<1>0. /\ usage \in [Wallets -> [ok : Nat, failed : Nat]] /\ usage' \in [Wallets -> [ok : Nat, failed : Nat]]
      /\ P!IInv /\ Control
  BY RInvInductive DEF RInv, RowTypes
<1>1. CASE UNCHANGED <<usage, completed_tasks, failed_tasks, wallets>> /\ (stage' \in {"succeeded", "failed"} => stage' = stage)
            /\ (stage \in {"succeeded", "failed"} => stage' = stage)
  <2>1. /\ Occurrences(stage = "succeeded") = Occurrences(stage' = "succeeded")
        /\ Occurrences(stage = "failed") = Occurrences(stage' = "failed")
    BY <1>1 DEF Occurrences
  <2> QED BY <1>1, <2>1 DEF Agreement, PoolAgreesWithResults
<1>2. CASE Crash
  <2>1. Occurrences(stage' = "succeeded") = 0 /\ Occurrences(stage' = "failed") = 0
    BY <1>2 DEF Crash, Occurrences
  <2>2. usage' = NoUsage /\ completed_tasks' = {} /\ failed_tasks' = {}
    BY <1>2 DEF Crash
  <2>3. IsFiniteSet({}) /\ Cardinality({}) = 0
    BY FS_EmptySet
  <2>4. 0 = 0 + 0
    OBVIOUS
  <2> QED BY <2>1, <2>2, <2>3, <2>4, NothingCounted DEF Agreement, PoolAgreesWithResults
<1>3. CASE Release
  <2> DEFINE ok == [w \in Wallets |-> usage[w].ok]
             failed == [w \in Wallets |-> usage[w].failed]
             ok2 == [w \in Wallets |-> usage'[w].ok]
             failed2 == [w \in Wallets |-> usage'[w].failed]
  <2>1. UNCHANGED <<completed_tasks, failed_tasks, wallets>> /\ stage \in {"release", "release failed"}
    BY <1>3 DEF Release, scheduler
  <2>2. wallet \in Wallets
    BY <1>3 DEF RInv, RowTypes, Release
  <2>3. \A w \in Wallets : ok[w] \in Nat /\ failed[w] \in Nat
    BY <1>0
  <2>4. CASE stage = "release"
    <3>1. usage' = [usage EXCEPT ![wallet].ok = @ + 1] /\ stage' = "succeeded"
      BY <1>3, <2>4 DEF Release
    <3>2. /\ ok2[wallet] = ok[wallet] + 1 /\ failed2 = failed
          /\ \A w \in Wallets \ {wallet} : ok2[w] = ok[w]
      BY <1>0, <2>2, <3>1
    <3>3. IsFiniteSet(Uses(ok2)) /\ Cardinality(Uses(ok2)) = Cardinality(Uses(ok)) + 1
      <4> HIDE DEF ok, ok2, failed, failed2
      <4>1. IsFiniteSet(Uses(ok))
        BY DEF Agreement, ok
      <4> QED BY <2>2, <2>3, <3>2, <4>1, OneMoreUse
    <3>4. /\ Occurrences(stage = "succeeded") = 0 /\ Occurrences(stage' = "succeeded") = 1
          /\ Occurrences(stage = "failed") = 0 /\ Occurrences(stage' = "failed") = 0
      BY <2>4, <3>1 DEF Occurrences
    <3>5. Cardinality(completed_tasks) \in Nat
      BY FS_CardinalityType DEF Agreement
    <3>6. wallets # {} => Cardinality(Uses(ok2)) = Cardinality(completed_tasks) + 1
      BY <3>3, <3>4, <3>5 DEF Agreement, PoolAgreesWithResults
    <3>7. IsFiniteSet(Uses(failed2)) /\ (wallets # {} => Cardinality(Uses(failed2)) = Cardinality(failed_tasks) + 0)
      BY <3>2, <3>4 DEF Agreement, PoolAgreesWithResults
    <3> QED BY <2>1, <3>3, <3>4, <3>6, <3>7 DEF Agreement, PoolAgreesWithResults
  <2>5. CASE stage = "release failed"
    <3>1. usage' = [usage EXCEPT ![wallet].failed = @ + 1] /\ stage' = "failed"
      BY <1>3, <2>5 DEF Release
    <3>2. /\ failed2[wallet] = failed[wallet] + 1 /\ ok2 = ok
          /\ \A w \in Wallets \ {wallet} : failed2[w] = failed[w]
      BY <1>0, <2>2, <3>1
    <3>3. IsFiniteSet(Uses(failed2)) /\ Cardinality(Uses(failed2)) = Cardinality(Uses(failed)) + 1
      <4> HIDE DEF ok, ok2, failed, failed2
      <4>1. IsFiniteSet(Uses(failed))
        BY DEF Agreement, failed
      <4> QED BY <2>2, <2>3, <3>2, <4>1, OneMoreUse
    <3>4. /\ Occurrences(stage = "succeeded") = 0 /\ Occurrences(stage' = "succeeded") = 0
          /\ Occurrences(stage = "failed") = 0 /\ Occurrences(stage' = "failed") = 1
      BY <2>5, <3>1 DEF Occurrences
    <3>5. Cardinality(failed_tasks) \in Nat
      BY FS_CardinalityType DEF Agreement
    <3>6. wallets # {} => Cardinality(Uses(failed2)) = Cardinality(failed_tasks) + 1
      BY <3>3, <3>4, <3>5 DEF Agreement, PoolAgreesWithResults
    <3>7. IsFiniteSet(Uses(ok2)) /\ (wallets # {} => Cardinality(Uses(ok2)) = Cardinality(completed_tasks) + 0)
      BY <3>2, <3>4 DEF Agreement, PoolAgreesWithResults
    <3> QED BY <2>1, <3>3, <3>4, <3>6, <3>7 DEF Agreement, PoolAgreesWithResults
  <2> QED BY <2>1, <2>4, <2>5
<1>4. CASE Complete
  <2>1. UNCHANGED <<usage, wallets>> /\ stage \in {"succeeded", "failed"} /\ stage' = "idle"
    BY <1>4 DEF Complete
  <2>2. Current \notin completed_tasks \cup failed_tasks
    BY <1>0, <2>1 DEF Control, P!IInv, P!Results, P!Recorded, P!Busy, Current
  <2>3. Occurrences(stage' = "succeeded") = 0 /\ Occurrences(stage' = "failed") = 0
    BY <2>1 DEF Occurrences
  <2>4. Cardinality(completed_tasks) \in Nat /\ Cardinality(failed_tasks) \in Nat
    BY FS_CardinalityType DEF Agreement
  <2>5. CASE stage = "succeeded"
    <3>1. completed_tasks' = completed_tasks \cup {Current} /\ failed_tasks' = failed_tasks
      BY <1>4, <2>5 DEF Complete, S!CompleteRecord, Current
    <3>2. /\ IsFiniteSet(completed_tasks')
          /\ Cardinality(completed_tasks') = Cardinality(completed_tasks) + 1
      BY <2>2, <3>1, FS_AddElement DEF Agreement
    <3>3. Occurrences(stage = "succeeded") = 1 /\ Occurrences(stage = "failed") = 0
      BY <2>5 DEF Occurrences
    <3>4. Cardinality(completed_tasks') + 0 = Cardinality(completed_tasks) + 1
      BY <2>4, <3>2
    <3> QED BY <2>1, <2>3, <3>1, <3>2, <3>3, <3>4 DEF Agreement, PoolAgreesWithResults
  <2>6. CASE stage = "failed"
    <3>1. failed_tasks' = failed_tasks \cup {Current} /\ completed_tasks' = completed_tasks
      BY <1>4, <2>6 DEF Complete, S!CompleteRecord, Current
    <3>2. /\ IsFiniteSet(failed_tasks')
          /\ Cardinality(failed_tasks') = Cardinality(failed_tasks) + 1
      BY <2>2, <3>1, FS_AddElement DEF Agreement
    <3>3. Occurrences(stage = "succeeded") = 0 /\ Occurrences(stage = "failed") = 1
      BY <2>6 DEF Occurrences
    <3>4. Cardinality(failed_tasks') + 0 = Cardinality(failed_tasks) + 1
      BY <2>4, <3>2
    <3> QED BY <2>1, <2>3, <3>1, <3>2, <3>3, <3>4 DEF Agreement, PoolAgreesWithResults
  <2> QED BY <2>1, <2>5, <2>6
<1>5. CASE Acquire
  <2>1. UNCHANGED <<usage, completed_tasks, failed_tasks, wallets>> /\ stage = "acquire"
        /\ stage' = IF wallets = {} THEN "failed" ELSE "nonce"
    BY <1>5 DEF Acquire, scheduler
  <2>2. CASE wallets = {}
    BY <2>1, <2>2 DEF Agreement, PoolAgreesWithResults
  <2>3. CASE wallets # {}
    BY <1>1, <2>1, <2>3
  <2> QED BY <2>2, <2>3
<1>6. CASE HandlerStep \/ TrackerStep \/ ChainStep \/ UNCHANGED vars
  <2>1. UNCHANGED <<usage, completed_tasks, failed_tasks, wallets, stage>>
    BY <1>6 DEF HandlerStep, Store, Schedule, Enqueue, DropSubmit, CancelFirst, CancelSecond, DropCancel, CancelRow,
       TrackerStep, TrackTick, TrackRemove, TrackReceipt, TrackHeight, TrackUpdate,
       ChainStep, Mine, EmptyBlock, vars, scheduler, executor,
       S!ScheduleCheck, S!SchedulePush, S!CancelPending, S!CancelProcessing, S!results, S!queues
  <2> QED BY <1>1, <2>1
<1>7. CASE CompleteEnd \/ Retry
  <2>1. UNCHANGED <<usage, completed_tasks, failed_tasks, wallets, stage>>
    BY <1>7 DEF CompleteEnd, Retry, S!CompleteRemove, S!RetryTake, S!RetryWith, S!results, executor
  <2> QED BY <1>1, <2>1
<1>8. CASE Pop
  <2>1. /\ UNCHANGED <<usage, completed_tasks, failed_tasks, wallets>> /\ stage' = "acquire"
        /\ wpc[Executor] = "idle"
    BY <1>8 DEF Pop, S!GetNextTask, S!results
  <2>2. stage = "idle"
    BY <1>0, <2>1 DEF Control
  <2> QED BY <1>1, <2>1, <2>2
<1>9. CASE \/ SendRefused \/ Track
           \/ \E reply \in BOOLEAN : \/ ReadNonce(reply) \/ SendTaken(reply)
                                     \/ MarkSubmitted(reply) \/ MarkFailed(reply)
  <2>1. /\ UNCHANGED <<usage, completed_tasks, failed_tasks, wallets>>
        /\ stage \notin {"succeeded", "failed"} /\ stage' \notin {"succeeded", "failed"}
    BY <1>9 DEF SendRefused, Track, ReadNonce, SendTaken, MarkSubmitted, MarkFailed, scheduler
  <2> QED BY <1>1, <2>1
<1> QED
  BY <1>2, <1>3, <1>4, <1>5, <1>6, <1>7, <1>8, <1>9 DEF Next, ExecutorStep

\* Every attempt with a wallet is counted once in the pool, as what the scheduler
\* records of it, and no wallet is in use outside an attempt.
THEOREM PoolCountsResults == Spec => []PoolAgreesWithResults
<1>1. Init => Agreement
  <2> SUFFICES ASSUME Init PROVE Agreement
    OBVIOUS
  <2>1. Occurrences(stage = "succeeded") = 0 /\ Occurrences(stage = "failed") = 0
    BY DEF Init, Occurrences
  <2>2. usage = NoUsage /\ completed_tasks = {} /\ failed_tasks = {}
    BY DEF Init
  <2>3. IsFiniteSet({}) /\ Cardinality({}) = 0
    BY FS_EmptySet
  <2>4. 0 = 0 + 0
    OBVIOUS
  <2> QED BY <2>1, <2>2, <2>3, <2>4, NothingCounted DEF Agreement, PoolAgreesWithResults
<1>2. Agreement => PoolAgreesWithResults
  BY DEF Agreement
<1> QED BY <1>1, <1>2, AgreementInductive, RInvHolds, PTL DEF Spec
=============================================================================
