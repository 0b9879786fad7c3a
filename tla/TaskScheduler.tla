--------------------------- MODULE TaskScheduler ---------------------------
(***************************************************************************)
(* queue/scheduler.rs: the priority queue, the processing list and the two *)
(* result maps of a TaskScheduler, each behind a lock of its own.  Every   *)
(* public operation is the sequence of its critical sections: one action   *)
(* is one critical section, and other callers run between two of them.     *)
(*                                                                         *)
(* A worker uses a task as the code does: get_next_task, then (as the      *)
(* scheduler's own tests do) start_processing or (as the executor does)    *)
(* not, then complete_task or retry_task, or complete_task followed by     *)
(* retry_task.  Instants are natural numbers of an arbitrary unit.         *)
(***************************************************************************)
EXTENDS Naturals, FiniteSets

CONSTANTS
    Tasks,         \* task ids: every request carries a fresh Uuid
    Submitters,    \* concurrent callers of schedule_task (HTTP requests)
    Workers,       \* concurrent users of get_next_task and of what follows it
    Cancellers,    \* concurrent callers of cancel_task
    Readers,       \* concurrent callers of get_task_status
    Weights,       \* the priority weights in use, Low = 1 to Critical = 4
    MaxQueueSize,  \* max_queue_size
    MaxConcurrent, \* permits of the semaphore
    MaxRetries,    \* max_retries of a task (the code's constant 3)
    RetryDelay,    \* unit of the retry delay (the code's constant 5 seconds)
    MaxTime,       \* bound on the clock
    MaxClears,     \* bound on the calls of clear_completed_tasks
    None           \* no task

ScheduledTask ==
    [id : Tasks, priority : Weights, scheduled_at : Nat, retry_count : Nat]

ASSUME SchedulerAssumption ==
    /\ None \notin Tasks /\ None \notin ScheduledTask
    /\ IsFiniteSet(Submitters) /\ IsFiniteSet(Workers)
    /\ Weights \subseteq 1..4
    /\ MaxQueueSize \in Nat \ {0}
    /\ {MaxConcurrent, MaxRetries, RetryDelay, MaxTime, MaxClears} \subseteq Nat

VARIABLES
    priority_queue,   \* the heap: its elements, the order is Ord's below
    processing_queue, \* the VecDeque, only ever searched by id
    completed_tasks,  \* ids with a successful result
    failed_tasks,     \* ids with a failed result
    now,              \* the clock
    sub,              \* per submitter: the request between its two sections
    wpc, wtask,       \* per worker: where it is, the task value it holds
    can,              \* per canceller: the call between its two sections
    rpc, rid,         \* per reader: its next section, the id asked for
    janitor,          \* critical sections of clear_completed_tasks so far, two a call
    \* history, read by the properties only
    accepted,         \* ids for which schedule_task returned Ok
    cancelled,        \* ids for which cancel_task returned true
    cleared,          \* ids whose result clear_completed_tasks dropped
    attempts,         \* how often an id was popped
    absent            \* per reader: was its id in no store since it asked?

queues  == <<priority_queue, processing_queue>>
results == <<completed_tasks, failed_tasks>>
clients == <<sub, wpc, wtask, can, rpc, rid, janitor>>
history == <<accepted, cancelled, cleared, attempts>>
vars    == <<queues, results, now, clients, history, absent>>

Ids(tasks) == {t.id : t \in tasks}

NoSubmission == [id |-> None, priority |-> 0, since |-> 0]
NoCancel     == [id |-> None, hit |-> FALSE]

Init ==
    /\ priority_queue = {} /\ processing_queue = {}
    /\ completed_tasks = {} /\ failed_tasks = {}
    /\ now = 0
    /\ sub = [s \in Submitters |-> NoSubmission]
    /\ wpc = [w \in Workers |-> "idle"]
    /\ wtask = [w \in Workers |-> None]
    /\ can = [c \in Cancellers |-> NoCancel]
    /\ rpc = [r \in Readers |-> "idle"]
    /\ rid = [r \in Readers |-> None]
    /\ janitor = 0
    /\ accepted = {} /\ cancelled = {} /\ cleared = {}
    /\ attempts = [t \in Tasks |-> 0]
    /\ absent = [r \in Readers |-> FALSE]

-----------------------------------------------------------------------------
\* schedule_task

Submitting == {sub[s].id : s \in Submitters} \ {None}
Fresh      == Tasks \ (accepted \cup Submitting)

\* Mutation: no look at the length at all.
ScheduleUnchecked(s, t, p) ==
    /\ sub[s] = NoSubmission
    /\ t \in Fresh
    /\ sub' = [sub EXCEPT ![s] = [id |-> t, priority |-> p, since |-> now]]
    /\ UNCHANGED <<queues, results, now, wpc, wtask, can, rpc, rid, janitor, history>>

\* First section: the length is read under a lock that is then given up.  A
\* refused request leaves nothing behind.
ScheduleCheck(s, t, p) ==
    /\ sub[s] = NoSubmission
    /\ t \in Fresh
    /\ sub' = IF Cardinality(priority_queue) >= MaxQueueSize
              THEN sub
              ELSE [sub EXCEPT ![s] = [id |-> t, priority |-> p, since |-> now]]
    /\ UNCHANGED <<queues, results, now, wpc, wtask, can, rpc, rid, janitor, history>>

\* Second section: push, without looking at the length again.  scheduled_at
\* was read at some moment since the check.
SchedulePush(s) ==
    /\ sub[s].id # None
    /\ \E at \in sub[s].since .. now :
          priority_queue' = priority_queue \cup
              {[id |-> sub[s].id, priority |-> sub[s].priority,
                scheduled_at |-> at, retry_count |-> 0]}
    /\ accepted' = accepted \cup {sub[s].id}
    /\ sub' = [sub EXCEPT ![s] = NoSubmission]
    /\ UNCHANGED <<processing_queue, results, now, wpc, wtask, can, rpc, rid,
                   janitor, cancelled, cleared, attempts>>

-----------------------------------------------------------------------------
\* get_next_task

\* Ord::cmp with the roles it gives to self and other: the smaller weight is
\* the greater element, and of two equal weights the later one.
OrdGreaterOrEqual(a, b) ==
    \/ a.priority < b.priority
    \/ a.priority = b.priority /\ a.scheduled_at >= b.scheduled_at

\* BinaryHeap::pop: a greatest element.
GetNextTask(w) ==
    /\ wpc[w] = "idle"
    /\ \E t \in priority_queue :
          /\ \A u \in priority_queue : OrdGreaterOrEqual(t, u)
          /\ priority_queue' = priority_queue \ {t}
          /\ wtask' = [wtask EXCEPT ![w] = t]
          /\ attempts' = [attempts EXCEPT ![t.id] = @ + 1]
    /\ wpc' = [wpc EXCEPT ![w] = "popped"]
    /\ UNCHANGED <<processing_queue, results, now, sub, can, rpc, rid, janitor,
                   accepted, cancelled, cleared>>

-----------------------------------------------------------------------------
\* start_processing

\* The semaphore permit lives in the local variable _permit: it is given back
\* when start_processing returns, so it is held between these two sections only.
AvailablePermits == MaxConcurrent - Cardinality({w \in Workers : wpc[w] = "starting"})

\* Mutation: no wait for a permit.
StartUnguarded(w) ==
    /\ wpc[w] = "popped"
    /\ wpc' = [wpc EXCEPT ![w] = "starting"]
    /\ UNCHANGED <<queues, results, now, sub, wtask, can, rpc, rid, janitor, history>>

StartAcquire(w) ==
    /\ wpc[w] = "popped"
    /\ AvailablePermits > 0
    /\ wpc' = [wpc EXCEPT ![w] = "starting"]
    /\ UNCHANGED <<queues, results, now, sub, wtask, can, rpc, rid, janitor, history>>

StartPush(w) ==
    /\ wpc[w] = "starting"
    /\ processing_queue' = processing_queue \cup {wtask[w]}
    /\ wpc' = [wpc EXCEPT ![w] = "running"]
    /\ UNCHANGED <<priority_queue, results, now, sub, wtask, can, rpc, rid,
                   janitor, history>>

-----------------------------------------------------------------------------
\* complete_task

\* A retry beyond the limit is a call of complete_task(id, false, ..).
RetriesExceeded(w) == wpc[w] = "requeue" /\ wtask[w].retry_count > MaxRetries

\* First section: insert the result into one of the two maps.
CompleteRecord(w, success) ==
    /\ \/ wpc[w] \in {"popped", "running"}
       \/ RetriesExceeded(w) /\ ~success
    /\ IF success
       THEN /\ completed_tasks' = completed_tasks \cup {wtask[w].id}
            /\ UNCHANGED failed_tasks
       ELSE /\ failed_tasks' = failed_tasks \cup {wtask[w].id}
            /\ UNCHANGED completed_tasks
    /\ wpc' = [wpc EXCEPT ![w] = IF success THEN "succeeded" ELSE "failed"]
    /\ UNCHANGED <<queues, now, sub, wtask, can, rpc, rid, janitor, history>>

\* Mutation: the processing list keeps the task.
NotRemoved(w) ==
    /\ wpc[w] \in {"succeeded", "failed"}
    /\ wpc' = [wpc EXCEPT ![w] = IF wpc[w] = "failed" THEN "completed" ELSE "idle"]
    /\ wtask' = [wtask EXCEPT ![w] = IF wpc[w] = "failed" THEN @ ELSE None]
    /\ UNCHANGED <<queues, results, now, sub, can, rpc, rid, janitor, history>>

\* Second section: drop the task from the processing list.  A failure leaves
\* the worker holding the task value: the executor then asks for a retry.
CompleteRemove(w) ==
    /\ wpc[w] \in {"succeeded", "failed"}
    /\ processing_queue' = {t \in processing_queue : t.id # wtask[w].id}
    /\ IF wpc[w] = "failed" /\ wtask[w].retry_count < MaxRetries
       THEN /\ wpc' = [wpc EXCEPT ![w] = "completed"]
            /\ UNCHANGED wtask
       ELSE /\ wpc' = [wpc EXCEPT ![w] = "idle"]
            /\ wtask' = [wtask EXCEPT ![w] = None]
    /\ UNCHANGED <<priority_queue, results, now, sub, can, rpc, rid, janitor, history>>

-----------------------------------------------------------------------------
\* retry_task

\* The worker goes on with the task t it found, or gives up on none.
RetryWith(w, t) ==
    /\ wtask' = [wtask EXCEPT ![w] = t]
    /\ wpc' = [wpc EXCEPT ![w] = IF t = None THEN "idle" ELSE "requeue"]
    /\ UNCHANGED <<priority_queue, results, now, sub, can, rpc, rid, janitor, history>>

Counted(t) == [t EXCEPT !.retry_count = @ + 1]

\* Mutation: the task is copied and stays in the processing list.
RetryPeek(w) ==
    /\ wpc[w] \in {"running", "completed"}
    /\ \/ \E t \in processing_queue : t.id = wtask[w].id /\ RetryWith(w, Counted(t))
       \/ wtask[w].id \notin Ids(processing_queue) /\ RetryWith(w, None)
    /\ UNCHANGED processing_queue

\* Mutation: a task at its last attempt is taken out and forgotten.
RetryForgets(w) ==
    /\ wpc[w] \in {"running", "completed"}
    /\ processing_queue' = {t \in processing_queue : t.id # wtask[w].id}
    /\ \/ \E t \in processing_queue :
             /\ t.id = wtask[w].id
             /\ RetryWith(w, IF t.retry_count < MaxRetries THEN Counted(t) ELSE None)
       \/ wtask[w].id \notin Ids(processing_queue) /\ RetryWith(w, None)

\* Mutation: the attempts are not counted.
RetryUncounted(w) ==
    /\ wpc[w] \in {"running", "completed"}
    /\ processing_queue' = {t \in processing_queue : t.id # wtask[w].id}
    /\ \/ \E t \in processing_queue : t.id = wtask[w].id /\ RetryWith(w, t)
       \/ wtask[w].id \notin Ids(processing_queue) /\ RetryWith(w, None)

\* First section: take the task out of the processing list, if it is there.
RetryTake(w) ==
    /\ wpc[w] \in {"running", "completed"}
    /\ \/ \E t \in processing_queue :
             /\ t.id = wtask[w].id
             /\ processing_queue' = processing_queue \ {t}
             /\ RetryWith(w, Counted(t))
       \/ /\ wtask[w].id \notin Ids(processing_queue)
          /\ RetryWith(w, None)
          /\ UNCHANGED processing_queue

\* Second section: back to the heap, with no look at its length.  Beyond the
\* limit, CompleteRecord follows instead.
RetryPush(w) ==
    /\ wpc[w] = "requeue"
    /\ wtask[w].retry_count <= MaxRetries
    /\ priority_queue' = priority_queue \cup
           {[wtask[w] EXCEPT !.scheduled_at = now + RetryDelay * wtask[w].retry_count]}
    /\ wtask' = [wtask EXCEPT ![w] = None]
    /\ wpc' = [wpc EXCEPT ![w] = "idle"]
    /\ UNCHANGED <<processing_queue, results, now, sub, can, rpc, rid, janitor, history>>

-----------------------------------------------------------------------------
\* cancel_task: the heap first, then the processing list.

CancelPending(c, t) ==
    /\ can[c] = NoCancel
    /\ t \in accepted
    /\ priority_queue' = {u \in priority_queue : u.id # t}
    /\ can' = [can EXCEPT ![c] = [id |-> t, hit |-> t \in Ids(priority_queue)]]
    /\ UNCHANGED <<processing_queue, results, now, sub, wpc, wtask, rpc, rid,
                   janitor, history>>

CancelProcessing(c) ==
    LET t == can[c].id IN
    /\ t # None
    /\ processing_queue' = {u \in processing_queue : u.id # t}
    /\ cancelled' = IF can[c].hit \/ t \in Ids(processing_queue)
                    THEN cancelled \cup {t} ELSE cancelled
    /\ can' = [can EXCEPT ![c] = NoCancel]
    /\ UNCHANGED <<priority_queue, results, now, sub, wpc, wtask, rpc, rid, janitor,
                   accepted, cleared, attempts>>

-----------------------------------------------------------------------------
\* get_task_status: four reads under four locks, in the order of a task's life.

Ask(r, t) ==
    /\ rpc[r] \in {"idle", "NotFound"}
    /\ t \in accepted
    /\ rpc' = [rpc EXCEPT ![r] = "pending?"]
    /\ rid' = [rid EXCEPT ![r] = t]
    /\ UNCHANGED <<queues, results, now, sub, wpc, wtask, can, janitor, history>>

\* One read: the store that has the id is the answer and the call is over, else
\* the next section follows.
Read(r, at, found, next) ==
    /\ rpc[r] = at
    /\ rpc' = [rpc EXCEPT ![r] = IF found THEN "idle" ELSE next]
    /\ rid' = [rid EXCEPT ![r] = IF found \/ next = "NotFound" THEN None ELSE @]
    /\ UNCHANGED <<queues, results, now, sub, wpc, wtask, can, janitor, history>>

\* Mutation: the results are read before the processing list.
ReadResultsFirst(r) ==
    \/ Read(r, "pending?", rid[r] \in Ids(priority_queue), "completed?")
    \/ Read(r, "completed?", rid[r] \in completed_tasks, "failed?")
    \/ Read(r, "failed?", rid[r] \in failed_tasks, "processing?")
    \/ Read(r, "processing?", rid[r] \in Ids(processing_queue), "NotFound")

ReadStatus(r) ==
    \/ Read(r, "pending?", rid[r] \in Ids(priority_queue), "processing?")
    \/ Read(r, "processing?", rid[r] \in Ids(processing_queue), "completed?")
    \/ Read(r, "completed?", rid[r] \in completed_tasks, "failed?")
    \/ Read(r, "failed?", rid[r] \in failed_tasks, "NotFound")

-----------------------------------------------------------------------------
\* clear_completed_tasks: the results older than a cutoff go, map by map.

ClearCompleted(old) ==
    /\ janitor % 2 = 0 /\ janitor < 2 * MaxClears
    /\ old \subseteq completed_tasks
    /\ completed_tasks' = completed_tasks \ old
    /\ cleared' = cleared \cup old
    /\ janitor' = janitor + 1
    /\ UNCHANGED <<queues, failed_tasks, now, sub, wpc, wtask, can, rpc, rid,
                   accepted, cancelled, attempts>>

ClearFailed(old) ==
    /\ janitor % 2 = 1
    /\ old \subseteq failed_tasks
    /\ failed_tasks' = failed_tasks \ old
    /\ cleared' = cleared \cup old
    /\ janitor' = janitor + 1
    /\ UNCHANGED <<queues, completed_tasks, now, sub, wpc, wtask, can, rpc, rid,
                   accepted, cancelled, attempts>>

-----------------------------------------------------------------------------
Tick ==
    /\ now < MaxTime
    /\ now' = now + 1
    /\ UNCHANGED <<queues, results, clients, history>>

\* The history of a reader: was its id in no store at some moment of its call?
InSomeStore(t) == \/ t \in Ids(priority_queue) \cup Ids(processing_queue)
                  \/ t \in completed_tasks \cup failed_tasks

Reading == {"pending?", "processing?", "completed?", "failed?"}

Observe ==
    absent' = [r \in Readers |->
        \/ rpc'[r] \in Reading /\ rpc[r] \in Reading /\ absent[r]
        \/ rpc'[r] \in Reading /\ ~ InSomeStore(rid[r])'
        \/ rpc'[r] = "NotFound" /\ absent[r]]

SubmitterStep(s) ==
    \/ \E t \in Tasks, p \in Weights : ScheduleCheck(s, t, p)
    \/ SchedulePush(s)

WorkerStep(w) ==
    \/ GetNextTask(w)
    \/ StartAcquire(w) \/ StartPush(w)
    \/ \E success \in BOOLEAN : CompleteRecord(w, success)
    \/ CompleteRemove(w)
    \/ RetryTake(w) \/ RetryPush(w)

CancellerStep(c) == \/ \E t \in Tasks : CancelPending(c, t)
                    \/ CancelProcessing(c)

ReaderStep(r) == \/ \E t \in Tasks : Ask(r, t)
                 \/ ReadStatus(r)

JanitorStep == \/ \E old \in SUBSET completed_tasks : ClearCompleted(old)
               \/ \E old \in SUBSET failed_tasks : ClearFailed(old)

Step ==
    \/ \E s \in Submitters : SubmitterStep(s)
    \/ \E w \in Workers : WorkerStep(w)
    \/ \E c \in Cancellers : CancellerStep(c)
    \/ \E r \in Readers : ReaderStep(r)
    \/ JanitorStep
    \/ Tick

Next == Step /\ Observe

Spec == Init /\ [][Next]_vars

\* A worker that has something to do goes on doing it: it is a loop that waits
\* only for locks and for calls that return.
FairSpec == Spec /\ \A w \in Workers : WF_vars(WorkerStep(w) /\ Observe)

-----------------------------------------------------------------------------
\* Properties

WorkerStates == {"idle", "popped", "starting", "running", "succeeded", "failed",
                 "completed", "requeue"}

\* Every variable has its type, and start_processing never hands out more
\* permits than the semaphore has.
TypeOK ==
    /\ priority_queue \in SUBSET ScheduledTask
    /\ processing_queue \in SUBSET ScheduledTask
    /\ completed_tasks \in SUBSET Tasks /\ failed_tasks \in SUBSET Tasks
    /\ now \in Nat
    /\ sub \in [Submitters -> [id : Tasks, priority : Weights, since : Nat]
                                \cup {NoSubmission}]
    /\ wpc \in [Workers -> WorkerStates]
    /\ wtask \in [Workers -> ScheduledTask \cup {None}]
    /\ can \in [Cancellers -> [id : Tasks, hit : BOOLEAN] \cup {NoCancel}]
    /\ rpc \in [Readers -> Reading \cup {"idle", "NotFound"}]
    /\ rid \in [Readers -> Tasks \cup {None}]
    /\ janitor \in Nat
    /\ {accepted, cancelled, cleared} \subseteq SUBSET Tasks
    /\ attempts \in [Tasks -> Nat]
    /\ absent \in [Readers -> BOOLEAN]
    /\ AvailablePermits >= 0

\* The workers that use the task, and those of them that hold its live copy
\* outside both lists.
Owns(w, t)  == wpc[w] # "idle" /\ wtask[w].id = t
Holds(w, t) == wpc[w] \in {"popped", "starting", "requeue"} /\ wtask[w].id = t

\* A task has one live copy at most, in the heap, in the processing list, in
\* the hands of a worker or of the submitter: it is never executed twice at a
\* time, whatever retries and completions interleave.
OneLiveCopy ==
    /\ \A t, u \in priority_queue \cup processing_queue : t.id = u.id => t = u
    /\ Ids(priority_queue) \cap Ids(processing_queue) = {}
    /\ \A w \in Workers : wpc[w] # "idle" => wtask[w].id \notin Ids(priority_queue)
    /\ \A v, w \in Workers : \A t \in Tasks : Owns(v, t) /\ Owns(w, t) => v = w
    /\ \A w \in Workers, t \in Tasks : Holds(w, t) => t \notin Ids(processing_queue)

\* "Queue is full" is decided before the push, under a lock given up in between,
\* and retries do not ask.  So max_queue_size may be exceeded: by the requests
\* that passed the check together, and by one retry per worker; never by more.
QueueBound ==
    /\ Cardinality({t \in priority_queue : t.retry_count = 0})
           < MaxQueueSize + Cardinality(Submitters)
    /\ Cardinality(priority_queue)
           < MaxQueueSize + Cardinality(Submitters) + Cardinality(Workers)

\* An accepted task is always in the scheduler, in the hands of a worker, has a
\* result or was cancelled: no sequence of retries, completions and
\* cancellations drops it.
NothingLost ==
    \A t \in accepted :
        \/ t \in Ids(priority_queue) \cup Ids(processing_queue)
        \/ \E w \in Workers : Owns(w, t)
        \/ t \in completed_tasks \cup failed_tasks \cup cleared
        \/ t \in cancelled
        \/ \E c \in Cancellers : can[c] = [id |-> t, hit |-> TRUE]

\* Once cancel_task has found a task, no worker will take it again: a retry that
\* is under way does not bring it back.
CancelIsFinal ==
    \A t \in cancelled :
        /\ t \notin Ids(priority_queue) \cup Ids(processing_queue)
        /\ \A w \in Workers : ~ Holds(w, t)

\* A task does not end up both completed and failed.
OutcomeIsUnique == completed_tasks \cap failed_tasks = {}

\* get_task_status answers NotFound only if at some moment of the call the task
\* really was in none of the four stores: the order of the four reads never
\* misses a task that moves on between two of them.
NotFoundIsTruthful == \A r \in Readers : rpc[r] = "NotFound" => absent[r]

\* The doc comment of Ord and the scheduler's test: a task of higher priority is
\* taken first.  The code's order is the opposite one.
HigherPriorityFirst ==
    [][\A t, u \in priority_queue :
          t \notin priority_queue' /\ attempts'[t.id] > attempts[t.id]
             => t.priority >= u.priority]_vars

-----------------------------------------------------------------------------
\* Refinement: the life of each task, read off the stores.

\* cancel_task has found the task, whether it has answered yet or not.
IsCancelled(t) ==
    t \in cancelled \/ \E c \in Cancellers : can[c] = [id |-> t, hit |-> TRUE]

Phase(t) ==
    IF t \in completed_tasks \cup failed_tasks \cup cleared THEN "done"
    ELSE IF t \in Ids(priority_queue) THEN "queued"
    ELSE IF t \in Ids(processing_queue) \/ \E w \in Workers : Holds(w, t) THEN "taken"
    ELSE IF \E w \in Workers : Owns(w, t) THEN "revoked"
    ELSE IF IsCancelled(t) THEN "cancelled"
    ELSE IF t \in accepted THEN "lost" ELSE "new"

Lifecycle == INSTANCE TaskLifecycle WITH phase <- [t \in Tasks |-> Phase(t)]

\* Every interleaving of the scheduler's critical sections is, task by task, a
\* behaviour of TaskLifecycle: bounded attempts, final ends.
LifecycleSpec == Lifecycle!Spec

\* The workers go on taking other tasks, and never run out of them.
OvertakenForEver(t) == []<><<\E u \in Tasks \ {t} : attempts'[u] > attempts[u]>>_vars

\* An accepted task comes to an end, or tasks that the queue puts before it keep coming
\* for ever: no cycle of its own retries keeps it going, and it is not forgotten.  That
\* later and less urgent tasks may starve it is the queue's order (see
\* HigherPriorityFirst), and nothing in the scheduler bounds it.
EndsUnlessOvertaken ==
    \A t \in Tasks :
        (t \in accepted ~> Phase(t) \in {"done", "cancelled"}) \/ OvertakenForEver(t)
=============================================================================
