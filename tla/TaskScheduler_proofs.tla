----------------------- MODULE TaskScheduler_proofs -----------------------
(***************************************************************************)
(* Proofs about TaskScheduler, for any number of tasks, submitters,        *)
(* workers, cancellers and readers and for every bound.                    *)
(***************************************************************************)
EXTENDS TaskScheduler, FiniteSetTheorems, TLAPS

USE SchedulerAssumption

-----------------------------------------------------------------------------
\* Types

\* Only a worker that is idle holds no task.
Busy(w) == wpc[w] # "idle"

Types ==
    /\ priority_queue \in SUBSET ScheduledTask
    /\ processing_queue \in SUBSET ScheduledTask
    /\ completed_tasks \in SUBSET Tasks /\ failed_tasks \in SUBSET Tasks
    /\ now \in Nat
    /\ sub \in [Submitters -> [id : Tasks, priority : Weights, since : Nat]
                                \cup {NoSubmission}]
    /\ wpc \in [Workers -> WorkerStates]
    /\ wtask \in [Workers -> ScheduledTask \cup {None}]
    /\ \A w \in Workers : Busy(w) => wtask[w] \in ScheduledTask
    /\ can \in [Cancellers -> [id : Tasks, hit : BOOLEAN] \cup {NoCancel}]
    /\ accepted \in SUBSET Tasks /\ cancelled \in SUBSET Tasks /\ cleared \in SUBSET Tasks
    /\ attempts \in [Tasks -> Nat]

ReaderTypes ==
    /\ rpc \in [Readers -> Reading \cup {"idle", "NotFound"}]
    /\ rid \in [Readers -> Tasks \cup {None}]
    /\ janitor \in Nat
    /\ absent \in [Readers -> BOOLEAN]

LEMMA TypesInit == Init => Types
  BY DEF Init, Types, ScheduledTask, NoSubmission, NoCancel, WorkerStates, Busy

LEMMA SubmitterTypes ==
  ASSUME Types, NEW s \in Submitters, SubmitterStep(s)
  PROVE  Types'
<1>1. CASE \E t \in Tasks, p \in Weights : ScheduleCheck(s, t, p)
  BY <1>1 DEF ScheduleCheck, Types, queues, results, history, Busy, NoSubmission
<1>2. CASE SchedulePush(s)
  BY <1>2 DEF SchedulePush, Types, results, Busy, NoSubmission, ScheduledTask
<1> QED BY <1>1, <1>2 DEF SubmitterStep

LEMMA WorkerTypes ==
  ASSUME Types, NEW w \in Workers, WorkerStep(w)
  PROVE  Types'
<1>1. CASE GetNextTask(w)
  BY <1>1 DEF GetNextTask, Types, results, Busy, ScheduledTask, WorkerStates
<1>2. CASE StartAcquire(w)
  BY <1>2 DEF StartAcquire, Types, queues, results, history, Busy, WorkerStates
<1>3. CASE StartPush(w)
  BY <1>3 DEF StartPush, Types, results, history, Busy, WorkerStates
<1>4. CASE \E success \in BOOLEAN : CompleteRecord(w, success)
  BY <1>4 DEF CompleteRecord, RetriesExceeded, Types, queues, history, Busy, WorkerStates,
              ScheduledTask
<1>5. CASE CompleteRemove(w)
  BY <1>5 DEF CompleteRemove, Types, results, history, Busy, WorkerStates
<1>6. CASE RetryTake(w)
  BY <1>6 DEF RetryTake, RetryWith, Counted, Types, results, history, Busy, WorkerStates,
              ScheduledTask
<1>7. CASE RetryPush(w)
  <2> DEFINE again == [wtask[w] EXCEPT !.scheduled_at = now + RetryDelay * wtask[w].retry_count]
  <2>1. wtask[w] \in ScheduledTask
    BY <1>7 DEF RetryPush, Types, Busy
  <2>2. RetryDelay \in Nat
    OBVIOUS
  <2>3. \A m, n \in Nat : m * n \in Nat
    OBVIOUS
  <2>4. again \in ScheduledTask
    BY <2>1, <2>2, <2>3 DEF ScheduledTask, Types
  <2> HIDE DEF again
  <2>5. priority_queue' = priority_queue \cup {again}
    BY <1>7 DEF RetryPush, again
  <2> QED
    BY <1>7, <2>4, <2>5 DEF RetryPush, Types, results, history, Busy, WorkerStates
<1> QED BY <1>1, <1>2, <1>3, <1>4, <1>5, <1>6, <1>7 DEF WorkerStep

LEMMA CancellerTypes ==
  ASSUME Types, NEW c \in Cancellers, CancellerStep(c)
  PROVE  Types'
<1>1. CASE \E t \in Tasks : CancelPending(c, t)
  BY <1>1 DEF CancelPending, Types, results, history, Busy, NoCancel
<1>2. CASE CancelProcessing(c)
  BY <1>2 DEF CancelProcessing, Types, results, Busy, NoCancel
<1> QED BY <1>1, <1>2 DEF CancellerStep

\* The other steps leave the scheduler alone, but for the results.
LEMMA ReaderFrame ==
  ASSUME NEW r \in Readers, ReaderStep(r)
  PROVE  UNCHANGED <<queues, results, now, sub, wpc, wtask, can, janitor, history>>
  BY DEF ReaderStep, Ask, ReadStatus, Read

LEMMA OtherTypes ==
  ASSUME Types, (\E r \in Readers : ReaderStep(r)) \/ JanitorStep \/ Tick
  PROVE  Types'
<1>1. CASE \E r \in Readers : ReaderStep(r)
  BY <1>1, ReaderFrame DEF Types, queues, results, history, Busy
<1>2. CASE JanitorStep
  BY <1>2 DEF JanitorStep, ClearCompleted, ClearFailed, Types, queues, Busy
<1>3. CASE Tick
  BY <1>3 DEF Tick, Types, queues, results, clients, history, Busy
<1> QED BY <1>1, <1>2, <1>3

LEMMA TypesInductive == Types /\ [Next]_vars => Types'
<1> SUFFICES ASSUME Types, [Next]_vars PROVE Types'
  OBVIOUS
<1>1. CASE UNCHANGED vars
  BY <1>1 DEF vars, queues, results, clients, history, Types, Busy
<1>2. CASE Next
  BY <1>2, SubmitterTypes, WorkerTypes, CancellerTypes, OtherTypes DEF Next, Step
<1> QED BY <1>1, <1>2

-----------------------------------------------------------------------------
\* The theorem about types needs the number of permits, too.

Starting == {w \in Workers : wpc[w] = "starting"}

Permits == Cardinality(Starting) <= MaxConcurrent

LEMMA OneMore ==
  ASSUME NEW S, IsFiniteSet(S), NEW x
  PROVE  /\ Cardinality(S \cup {x}) <= Cardinality(S) + 1
         /\ Cardinality(S \cup {x}) \in Nat
<1>1. Cardinality(S) \in Nat
  BY FS_CardinalityType
<1>2. Cardinality(S \cup {x}) \in {Cardinality(S), Cardinality(S) + 1}
  BY FS_AddElement
<1> QED BY <1>1, <1>2

LEMMA PermitsInductive == Types /\ Permits /\ [Next]_vars => Permits'
<1> SUFFICES ASSUME Types, Permits, [Next]_vars PROVE Permits'
  OBVIOUS
<1> USE DEF Starting, Permits
<1>1. IsFiniteSet(Starting) /\ Cardinality(Starting) \in Nat
  BY FS_Subset, FS_CardinalityType
<1>2. CASE Starting' \subseteq Starting
  <2>1. Cardinality(Starting') <= Cardinality(Starting) /\ Cardinality(Starting') \in Nat
    BY <1>1, <1>2, FS_Subset, FS_CardinalityType
  <2> QED BY <1>1, <2>1
<1>3. ASSUME NEW w \in Workers, StartAcquire(w) PROVE Permits'
  <2>1. Starting' = Starting \cup {w}
    BY <1>3 DEF StartAcquire, Types
  <2>2. Cardinality(Starting) < MaxConcurrent
    BY <1>1, <1>3 DEF StartAcquire, AvailablePermits
  <2>3. Cardinality(Starting') <= Cardinality(Starting) + 1 /\ Cardinality(Starting') \in Nat
    BY <1>1, <2>1, OneMore
  <2> QED BY <1>1, <2>2, <2>3
<1>4. ASSUME NEW w \in Workers, WorkerStep(w), ~ StartAcquire(w)
      PROVE  Starting' \subseteq Starting
  BY <1>4 DEF WorkerStep, GetNextTask, StartPush, CompleteRecord, CompleteRemove,
              RetryTake, RetryWith, RetryPush, Types
<1>5. ASSUME UNCHANGED wpc PROVE Starting' \subseteq Starting
  BY <1>5
<1>6. [Next]_vars => \/ \E w \in Workers : WorkerStep(w)
                     \/ UNCHANGED wpc
  BY DEF Next, Step, SubmitterStep, ScheduleCheck, SchedulePush, CancellerStep,
         CancelPending, CancelProcessing, ReaderStep, Ask, ReadStatus, Read, JanitorStep,
         ClearCompleted, ClearFailed, Tick, vars, clients
<1> QED BY <1>2, <1>3, <1>4, <1>5, <1>6

LEMMA ReaderTypesInductive == Types /\ ReaderTypes /\ [Next]_vars => ReaderTypes'
<1> SUFFICES ASSUME Types, ReaderTypes, [Next]_vars PROVE ReaderTypes'
  OBVIOUS
<1>1. CASE UNCHANGED vars
  BY <1>1 DEF vars, clients, ReaderTypes
<1>2. CASE Next
  <2>1. absent' \in [Readers -> BOOLEAN]
    BY <1>2 DEF Next, Observe
  <2>2. \/ \E r \in Readers : ReaderStep(r)
        \/ JanitorStep
        \/ UNCHANGED <<rpc, rid, janitor>>
    BY <1>2 DEF Next, Step, SubmitterStep, ScheduleCheck, SchedulePush, WorkerStep,
           GetNextTask, StartAcquire, StartPush, CompleteRecord, CompleteRemove,
           RetryTake, RetryWith, RetryPush, CancellerStep, CancelPending,
           CancelProcessing, Tick, clients
  <2>3. ASSUME NEW r \in Readers, ReaderStep(r)
        PROVE  /\ rpc' \in [Readers -> Reading \cup {"idle", "NotFound"}]
               /\ rid' \in [Readers -> Tasks \cup {None}]
               /\ janitor' \in Nat
    BY <2>3 DEF ReaderStep, Ask, ReadStatus, Read, ReaderTypes, Reading
  <2>4. ASSUME JanitorStep
        PROVE  /\ UNCHANGED <<rpc, rid>>
               /\ janitor' \in Nat
    BY <2>4 DEF JanitorStep, ClearCompleted, ClearFailed, ReaderTypes
  <2> QED BY <2>1, <2>2, <2>3, <2>4 DEF ReaderTypes
<1> QED BY <1>1, <1>2

LEMMA AllTypes == Spec => [](Types /\ ReaderTypes /\ Permits)
<1>1. Init => Types /\ ReaderTypes /\ Permits
  <2>1. Init => Starting = {}
    BY DEF Init, Starting
  <2> QED BY <2>1, TypesInit, FS_EmptySet DEF Init, ReaderTypes, Permits
<1>2. Types /\ ReaderTypes /\ Permits /\ [Next]_vars => (Types /\ ReaderTypes /\ Permits)'
  BY TypesInductive, ReaderTypesInductive, PermitsInductive
<1> QED BY <1>1, <1>2, PTL DEF Spec

\* Every variable keeps its type, and start_processing never hands out more
\* permits than the semaphore was built with.
THEOREM TypeCorrect == Spec => []TypeOK
<1>1. Types /\ ReaderTypes /\ Permits => TypeOK
  <2> SUFFICES ASSUME Types, ReaderTypes, Permits PROVE TypeOK
    OBVIOUS
  <2>1. AvailablePermits >= 0
    <3>1. IsFiniteSet(Starting) /\ Cardinality(Starting) \in Nat
      BY FS_Subset, FS_CardinalityType DEF Starting
    <3> QED BY <3>1 DEF AvailablePermits, Permits, Starting
  <2> QED BY <2>1 DEF Types, ReaderTypes, TypeOK
<1> QED BY <1>1, AllTypes, PTL

-----------------------------------------------------------------------------
\* Ownership: from the moment a worker pops a task until it lets go of it, no other
\* worker and no queue has it, except for its own entry in the processing list.

InProcess == {"running", "succeeded", "failed"}

\* An id is pushed once: it is new until its submission is accepted.
SubmissionsAreFresh ==
    /\ \A s \in Submitters : sub[s].id \notin accepted
    /\ \A r, s \in Submitters : sub[r].id = sub[s].id /\ sub[r] # NoSubmission => r = s

\* What the queues and the workers have was accepted.
KnownAreAccepted ==
    /\ \A u \in priority_queue : u.id \in accepted
    /\ \A w \in Workers : Busy(w) => wtask[w].id \in accepted
    /\ \A c \in Cancellers : can[c].hit => can[c].id \in accepted
    /\ cancelled \subseteq accepted
    /\ completed_tasks \cup failed_tasks \cup cleared \subseteq accepted

OneOwner ==
    /\ \A v, w \in Workers : Busy(v) /\ Busy(w) /\ wtask[v].id = wtask[w].id => v = w
    /\ \A u \in priority_queue, w \in Workers : Busy(w) => u.id # wtask[w].id
    /\ \A t, u \in priority_queue : t.id = u.id => t = u
    /\ \A u \in processing_queue : \E w \in Workers : wpc[w] \in InProcess /\ wtask[w] = u

Ownership == SubmissionsAreFresh /\ KnownAreAccepted /\ OneOwner

\* A cancelled task, or one that cancel_task has taken out of the heap, is dead.
Dead(t) == t \in cancelled \/ \E c \in Cancellers : can[c] = [id |-> t, hit |-> TRUE]

DeadStayDead ==
    \A t \in Tasks : Dead(t) =>
        /\ \A u \in priority_queue \cup processing_queue : u.id # t
        /\ \A w \in Workers : ~ Holds(w, t)

Recorded(t) == t \in completed_tasks \cup failed_tasks \cup cleared

\* A worker is past complete_task's first section exactly when there is a result,
\* and one that runs has its task in the processing list unless it was cancelled.
Results ==
    /\ \A w \in Workers : wpc[w] \in {"succeeded", "failed", "completed"}
                             => Recorded(wtask[w].id)
    /\ \A w \in Workers : Busy(w) /\ Recorded(wtask[w].id)
                             => wpc[w] \in {"succeeded", "failed", "completed"}
    /\ \A u \in priority_queue : ~ Recorded(u.id)
    /\ \A s \in Submitters : ~ Recorded(sub[s].id)
    /\ \A w \in Workers : wpc[w] = "running"
                             => wtask[w] \in processing_queue \/ wtask[w].id \in cancelled

-----------------------------------------------------------------------------
\* A step of the scheduler proper, or one that leaves all of this alone: of a
\* reader, of the clock, or of clear_completed_tasks, which moves a result to
\* the cleared ones.

Quiet ==
    /\ UNCHANGED <<queues, sub, wpc, wtask, can, accepted, cancelled, attempts>>
    /\ (completed_tasks \cup failed_tasks \cup cleared)'
          = completed_tasks \cup failed_tasks \cup cleared

LEMMA QuietSteps ==
  ASSUME Types, [Next]_vars
  PROVE  \/ \E s \in Submitters : SubmitterStep(s)
         \/ \E w \in Workers : WorkerStep(w)
         \/ \E c \in Cancellers : CancellerStep(c)
         \/ Quiet
<1>1. CASE UNCHANGED vars
  BY <1>1 DEF vars, queues, results, clients, history, Quiet
<1>2. CASE \E r \in Readers : ReaderStep(r)
  BY <1>2, ReaderFrame DEF Quiet, queues, results, history
<1>3. CASE JanitorStep
  BY <1>3 DEF JanitorStep, ClearCompleted, ClearFailed, Quiet, queues
<1>4. CASE Tick
  BY <1>4 DEF Tick, Quiet, queues, results, clients, history
<1> QED BY <1>1, <1>2, <1>3, <1>4 DEF Next, Step

LEMMA OwnershipInductive == Types /\ Ownership /\ [Next]_vars => Ownership'
<1> SUFFICES ASSUME Types, Ownership, [Next]_vars PROVE Ownership'
  OBVIOUS
<1> USE DEF Busy
<1>1. ASSUME NEW s \in Submitters, NEW t \in Tasks, NEW p \in Weights, ScheduleCheck(s, t, p)
      PROVE  Ownership'
  <2>1. SubmissionsAreFresh'
    BY <1>1 DEF ScheduleCheck, queues, results, history, Fresh, Submitting,
           NoSubmission, Types, Ownership, SubmissionsAreFresh
  <2>2. KnownAreAccepted'
    BY <1>1 DEF ScheduleCheck, queues, results, history, Fresh, Submitting,
           NoSubmission, Types, Ownership, KnownAreAccepted, ScheduledTask
  <2>3. OneOwner'
    BY <1>1 DEF ScheduleCheck, queues, results, history, Fresh, Submitting,
           NoSubmission, Types, Ownership, SubmissionsAreFresh, KnownAreAccepted,
           OneOwner, InProcess, ScheduledTask
  <2> QED BY <2>1, <2>2, <2>3 DEF Ownership
<1>2. ASSUME NEW s \in Submitters, SchedulePush(s)
      PROVE  Ownership'
  <2>1. SubmissionsAreFresh'
    BY <1>2 DEF SchedulePush, results, NoSubmission, Types, Ownership, SubmissionsAreFresh
  <2>2. KnownAreAccepted'
    BY <1>2 DEF SchedulePush, results, NoSubmission, Types, Ownership,
           KnownAreAccepted, ScheduledTask
  <2>3. OneOwner'
    BY <1>2 DEF SchedulePush, results, NoSubmission, Types, Ownership,
           SubmissionsAreFresh, KnownAreAccepted, OneOwner, InProcess, ScheduledTask
  <2> QED BY <2>1, <2>2, <2>3 DEF Ownership
<1>3. ASSUME NEW w \in Workers, GetNextTask(w)
      PROVE  Ownership'
  <2>1. SubmissionsAreFresh'
    BY <1>3 DEF GetNextTask, results, Types, Ownership, SubmissionsAreFresh
  <2>2. KnownAreAccepted'
    BY <1>3 DEF GetNextTask, results, Types, Ownership, KnownAreAccepted, ScheduledTask
  <2>3. OneOwner'
    BY <1>3 DEF GetNextTask, results, Types, Ownership, SubmissionsAreFresh,
           KnownAreAccepted, OneOwner, InProcess, ScheduledTask
  <2> QED BY <2>1, <2>2, <2>3 DEF Ownership
<1>4. ASSUME NEW w \in Workers, StartAcquire(w)
      PROVE  Ownership'
  <2>1. SubmissionsAreFresh'
    BY <1>4 DEF StartAcquire, queues, results, history, Types, Ownership,
           SubmissionsAreFresh
  <2>2. KnownAreAccepted'
    BY <1>4 DEF StartAcquire, queues, results, history, Types, Ownership,
           KnownAreAccepted, ScheduledTask
  <2>3. OneOwner'
    BY <1>4 DEF StartAcquire, queues, results, history, Types, Ownership,
           SubmissionsAreFresh, KnownAreAccepted, OneOwner, InProcess, ScheduledTask
  <2> QED BY <2>1, <2>2, <2>3 DEF Ownership
<1>5. ASSUME NEW w \in Workers, StartPush(w)
      PROVE  Ownership'
  <2>1. SubmissionsAreFresh'
    BY <1>5 DEF StartPush, results, history, Types, Ownership, SubmissionsAreFresh
  <2>2. KnownAreAccepted'
    BY <1>5 DEF StartPush, results, history, Types, Ownership, KnownAreAccepted,
           ScheduledTask
  <2>3. OneOwner'
    BY <1>5 DEF StartPush, results, history, Types, Ownership, SubmissionsAreFresh,
           KnownAreAccepted, OneOwner, InProcess, ScheduledTask
  <2> QED BY <2>1, <2>2, <2>3 DEF Ownership
<1>6. ASSUME NEW w \in Workers, NEW success \in BOOLEAN, CompleteRecord(w, success)
      PROVE  Ownership'
  <2>1. SubmissionsAreFresh'
    BY <1>6 DEF CompleteRecord, RetriesExceeded, queues, history, Types, Ownership,
           SubmissionsAreFresh
  <2>2. KnownAreAccepted'
    BY <1>6 DEF CompleteRecord, RetriesExceeded, queues, history, Types, Ownership,
           KnownAreAccepted, ScheduledTask
  <2>3. OneOwner'
    BY <1>6 DEF CompleteRecord, RetriesExceeded, queues, history, Types, Ownership,
           SubmissionsAreFresh, KnownAreAccepted, OneOwner, InProcess, ScheduledTask
  <2> QED BY <2>1, <2>2, <2>3 DEF Ownership
<1>7. ASSUME NEW w \in Workers, CompleteRemove(w)
      PROVE  Ownership'
  <2>1. SubmissionsAreFresh'
    BY <1>7 DEF CompleteRemove, results, history, Types, Ownership, SubmissionsAreFresh
  <2>2. KnownAreAccepted'
    BY <1>7 DEF CompleteRemove, results, history, Types, Ownership, KnownAreAccepted,
           ScheduledTask
  <2>3. OneOwner'
    BY <1>7 DEF CompleteRemove, results, history, Types, Ownership,
           SubmissionsAreFresh, KnownAreAccepted, OneOwner, InProcess, ScheduledTask
  <2> QED BY <2>1, <2>2, <2>3 DEF Ownership
<1>8. ASSUME NEW w \in Workers, RetryTake(w)
      PROVE  Ownership'
  <2>1. SubmissionsAreFresh'
    BY <1>8 DEF RetryTake, RetryWith, Counted, results, history, Types, Ownership,
           SubmissionsAreFresh
  <2>2. KnownAreAccepted'
    BY <1>8 DEF RetryTake, RetryWith, Counted, results, history, Types, Ownership,
           KnownAreAccepted, ScheduledTask
  <2>3. ASSUME \E t \in processing_queue :
                  /\ t.id = wtask[w].id
                  /\ processing_queue' = processing_queue \ {t}
                  /\ RetryWith(w, Counted(t))
        PROVE  OneOwner'
    <3>1. PICK t \in processing_queue :
                /\ t.id = wtask[w].id
                /\ processing_queue' = processing_queue \ {t}
                /\ RetryWith(w, Counted(t))
      BY <2>3
    <3>2. Counted(t).id = t.id
      BY DEF Counted, Types, ScheduledTask
    <3>3. t = wtask[w]
      BY <1>8, <3>1 DEF RetryTake, Ownership, OneOwner, InProcess
    <3>4. /\ wpc' = [wpc EXCEPT ![w] = "idle"] \/ wpc' = [wpc EXCEPT ![w] = "requeue"]
          /\ wtask' = [wtask EXCEPT ![w] = Counted(t)]
          /\ UNCHANGED priority_queue
      BY <3>1 DEF RetryWith
    <3>5. \A u \in processing_queue' : \E v \in Workers \ {w} :
             wpc[v] \in InProcess /\ wtask[v] = u
      BY <3>1, <3>3 DEF Ownership, OneOwner
    <3> QED BY <1>8, <3>2, <3>3, <3>4, <3>5 DEF RetryTake, Types, Ownership, OneOwner
  <2>4. ASSUME wtask[w].id \notin Ids(processing_queue),
               RetryWith(w, None),
               UNCHANGED processing_queue
        PROVE  OneOwner'
    <3>1. \A u \in processing_queue : \E v \in Workers \ {w} :
             wpc[v] \in InProcess /\ wtask[v] = u
      BY <2>4 DEF Ids, Ownership, OneOwner
    <3> QED BY <1>8, <2>4, <3>1 DEF RetryTake, RetryWith, Types, Ownership, OneOwner
  <2>5. OneOwner'
    BY <1>8, <2>3, <2>4 DEF RetryTake
  <2> QED BY <2>1, <2>2, <2>5 DEF Ownership
<1>9. ASSUME NEW w \in Workers, RetryPush(w)
      PROVE  Ownership'
  <2>1. SubmissionsAreFresh'
    BY <1>9 DEF RetryPush, results, history, Types, Ownership, SubmissionsAreFresh
  <2>2. KnownAreAccepted'
    BY <1>9 DEF RetryPush, results, history, Types, Ownership, KnownAreAccepted,
           ScheduledTask
  <2>3. OneOwner'
    <3> DEFINE again == [wtask[w] EXCEPT !.scheduled_at = now + RetryDelay * wtask[w].retry_count]
    <3>1. again.id = wtask[w].id
      BY <1>9 DEF RetryPush, Types, ScheduledTask
    <3> HIDE DEF again
    <3>2. /\ priority_queue' = priority_queue \cup {again}
          /\ wtask' = [wtask EXCEPT ![w] = None]
          /\ wpc' = [wpc EXCEPT ![w] = "idle"]
          /\ wpc[w] = "requeue"
          /\ UNCHANGED processing_queue
      BY <1>9 DEF RetryPush, again
    <3> QED BY <3>1, <3>2 DEF Types, Ownership, OneOwner, InProcess
  <2> QED BY <2>1, <2>2, <2>3 DEF Ownership
<1>10. ASSUME NEW c \in Cancellers, NEW t \in Tasks, CancelPending(c, t)
      PROVE  Ownership'
  <2>1. SubmissionsAreFresh'
    BY <1>10 DEF CancelPending, results, history, NoCancel, Ids, Types, Ownership,
           SubmissionsAreFresh
  <2>2. KnownAreAccepted'
    BY <1>10 DEF CancelPending, results, history, NoCancel, Ids, Types, Ownership,
           KnownAreAccepted, ScheduledTask
  <2>3. OneOwner'
    BY <1>10 DEF CancelPending, results, history, NoCancel, Ids, Types, Ownership,
           SubmissionsAreFresh, KnownAreAccepted, OneOwner, InProcess, ScheduledTask
  <2> QED BY <2>1, <2>2, <2>3 DEF Ownership
<1>11. ASSUME NEW c \in Cancellers, CancelProcessing(c)
      PROVE  Ownership'
  <2>1. SubmissionsAreFresh'
    BY <1>11 DEF CancelProcessing, results, NoCancel, Ids, Types, Ownership,
           SubmissionsAreFresh
  <2>2. KnownAreAccepted'
    BY <1>11 DEF CancelProcessing, results, NoCancel, Ids, Types, Ownership,
           KnownAreAccepted, OneOwner, InProcess, ScheduledTask
  <2>3. OneOwner'
    BY <1>11 DEF CancelProcessing, results, NoCancel, Ids, Types, Ownership,
           SubmissionsAreFresh, KnownAreAccepted, OneOwner, InProcess, ScheduledTask
  <2> QED BY <2>1, <2>2, <2>3 DEF Ownership
<1>12. CASE Quiet
  BY <1>12 DEF Quiet, queues, Ownership, SubmissionsAreFresh, KnownAreAccepted, OneOwner
<1> QED
  BY QuietSteps, <1>1, <1>2, <1>3, <1>4, <1>5, <1>6, <1>7, <1>8, <1>9, <1>10, <1>11, <1>12
     DEF SubmitterStep, WorkerStep, CancellerStep

LEMMA DeadInductive ==
  Types /\ Ownership /\ DeadStayDead /\ [Next]_vars => DeadStayDead'
<1> SUFFICES ASSUME Types, Ownership, DeadStayDead, [Next]_vars PROVE DeadStayDead'
  OBVIOUS
<1> USE DEF Busy
<1>1. ASSUME NEW s \in Submitters, NEW t \in Tasks, NEW p \in Weights, ScheduleCheck(s, t, p)
      PROVE  DeadStayDead'
  BY <1>1 DEF ScheduleCheck, queues, results, history, Fresh, NoSubmission,
         DeadStayDead, Dead, Holds, Types, Ownership, SubmissionsAreFresh,
         KnownAreAccepted, OneOwner, InProcess, ScheduledTask
<1>2. ASSUME NEW s \in Submitters, SchedulePush(s)
      PROVE  DeadStayDead'
  BY <1>2 DEF SchedulePush, results, NoSubmission, DeadStayDead, Dead, Holds, Types,
         Ownership, SubmissionsAreFresh, KnownAreAccepted, OneOwner, InProcess,
         ScheduledTask
<1>3. ASSUME NEW w \in Workers, GetNextTask(w)
      PROVE  DeadStayDead'
  BY <1>3 DEF GetNextTask, results, DeadStayDead, Dead, Holds, Types, Ownership,
         SubmissionsAreFresh, KnownAreAccepted, OneOwner, InProcess, ScheduledTask
<1>4. ASSUME NEW w \in Workers, StartAcquire(w)
      PROVE  DeadStayDead'
  BY <1>4 DEF StartAcquire, queues, results, history, DeadStayDead, Dead, Holds, Types,
         Ownership, SubmissionsAreFresh, KnownAreAccepted, OneOwner, InProcess,
         ScheduledTask
<1>5. ASSUME NEW w \in Workers, StartPush(w)
      PROVE  DeadStayDead'
  BY <1>5 DEF StartPush, results, history, DeadStayDead, Dead, Holds, Types, Ownership,
         SubmissionsAreFresh, KnownAreAccepted, OneOwner, InProcess, ScheduledTask
<1>6. ASSUME NEW w \in Workers, NEW success \in BOOLEAN, CompleteRecord(w, success)
      PROVE  DeadStayDead'
  BY <1>6 DEF CompleteRecord, RetriesExceeded, queues, history, DeadStayDead, Dead,
         Holds, Types, Ownership, SubmissionsAreFresh, KnownAreAccepted, OneOwner,
         InProcess, ScheduledTask
<1>7. ASSUME NEW w \in Workers, CompleteRemove(w)
      PROVE  DeadStayDead'
  BY <1>7 DEF CompleteRemove, results, history, DeadStayDead, Dead, Holds, Types,
         Ownership, SubmissionsAreFresh, KnownAreAccepted, OneOwner, InProcess,
         ScheduledTask
<1>8. ASSUME NEW w \in Workers, RetryTake(w)
      PROVE  DeadStayDead'
  BY <1>8 DEF RetryTake, RetryWith, Counted, results, history, DeadStayDead, Dead,
         Holds, Types, Ownership, SubmissionsAreFresh, KnownAreAccepted, OneOwner,
         InProcess, ScheduledTask
<1>9. ASSUME NEW w \in Workers, RetryPush(w)
      PROVE  DeadStayDead'
  BY <1>9 DEF RetryPush, results, history, DeadStayDead, Dead, Holds, Types, Ownership,
         SubmissionsAreFresh, KnownAreAccepted, OneOwner, InProcess, ScheduledTask
<1>10. ASSUME NEW c \in Cancellers, NEW t \in Tasks, CancelPending(c, t)
      PROVE  DeadStayDead'
  <2>1. ASSUME NEW u \in Tasks, Dead(u)'
        PROVE  Dead(u) \/ (u = t /\ u \in Ids(priority_queue))
    <3>1. UNCHANGED cancelled
      BY <1>10 DEF CancelPending, history
    <3>2. can' = [can EXCEPT ![c] = [id |-> t, hit |-> t \in Ids(priority_queue)]]
      BY <1>10 DEF CancelPending
    <3>3. can'[c].id = t /\ (can'[c].hit <=> t \in Ids(priority_queue))
      BY <3>2 DEF Types
    <3>4. \A d \in Cancellers : d # c => can'[d] = can[d]
      BY <3>2 DEF Types
    <3>5. ASSUME NEW d \in Cancellers, can'[d] = [id |-> u, hit |-> TRUE]
          PROVE  can'[d].id = u /\ can'[d].hit
      BY <3>5
    <3> QED BY <2>1, <3>1, <3>3, <3>4, <3>5 DEF Dead
  <2>2. \A u \in Ids(priority_queue) :
           /\ u \notin Ids(processing_queue)
           /\ \A w \in Workers : ~ Holds(w, u)
    BY DEF Ids, Holds, Ownership, OneOwner, InProcess
  <2>3. /\ priority_queue' = {u \in priority_queue : u.id # t}
        /\ UNCHANGED <<processing_queue, wpc, wtask>>
    BY <1>10 DEF CancelPending
  <2> QED BY <2>1, <2>2, <2>3 DEF DeadStayDead, Holds, Ids
<1>11. ASSUME NEW c \in Cancellers, CancelProcessing(c)
      PROVE  DeadStayDead'
  BY <1>11 DEF CancelProcessing, results, NoCancel, Ids, DeadStayDead, Dead, Holds,
         Types, Ownership, SubmissionsAreFresh, KnownAreAccepted, OneOwner, InProcess,
         ScheduledTask
<1>12. CASE Quiet
  BY <1>12 DEF Quiet, queues, DeadStayDead, Dead, Holds, Types, Ownership,
         SubmissionsAreFresh, KnownAreAccepted, OneOwner, InProcess, ScheduledTask
<1> QED
  BY QuietSteps, <1>1, <1>2, <1>3, <1>4, <1>5, <1>6, <1>7, <1>8, <1>9, <1>10, <1>11,
     <1>12 DEF SubmitterStep, WorkerStep, CancellerStep

LEMMA ResultsInductive ==
  Types /\ Ownership /\ Results /\ [Next]_vars => Results'
<1> SUFFICES ASSUME Types, Ownership, Results, [Next]_vars PROVE Results'
  OBVIOUS
<1> USE DEF Busy
<1>1. ASSUME NEW s \in Submitters, NEW t \in Tasks, NEW p \in Weights, ScheduleCheck(s, t, p)
      PROVE  Results'
  BY <1>1 DEF ScheduleCheck, queues, results, history, Fresh, NoSubmission, Results,
         Recorded, Types, Ownership, SubmissionsAreFresh, KnownAreAccepted, OneOwner,
         InProcess, ScheduledTask
<1>2. ASSUME NEW s \in Submitters, SchedulePush(s)
      PROVE  Results'
  BY <1>2 DEF SchedulePush, results, NoSubmission, Results, Recorded, Types, Ownership,
         SubmissionsAreFresh, KnownAreAccepted, OneOwner, InProcess, ScheduledTask
<1>3. ASSUME NEW w \in Workers, GetNextTask(w)
      PROVE  Results'
  BY <1>3 DEF GetNextTask, results, Results, Recorded, Types, Ownership,
         SubmissionsAreFresh, KnownAreAccepted, OneOwner, InProcess, ScheduledTask
<1>4. ASSUME NEW w \in Workers, StartAcquire(w)
      PROVE  Results'
  BY <1>4 DEF StartAcquire, queues, results, history, Results, Recorded, Types,
         Ownership, SubmissionsAreFresh, KnownAreAccepted, OneOwner, InProcess,
         ScheduledTask
<1>5. ASSUME NEW w \in Workers, StartPush(w)
      PROVE  Results'
  BY <1>5 DEF StartPush, results, history, Results, Recorded, Types, Ownership,
         SubmissionsAreFresh, KnownAreAccepted, OneOwner, InProcess, ScheduledTask
<1>6. ASSUME NEW w \in Workers, NEW success \in BOOLEAN, CompleteRecord(w, success)
      PROVE  Results'
  BY <1>6 DEF CompleteRecord, RetriesExceeded, queues, history, Results, Recorded,
         Types, Ownership, SubmissionsAreFresh, KnownAreAccepted, OneOwner, InProcess,
         ScheduledTask
<1>7. ASSUME NEW w \in Workers, CompleteRemove(w)
      PROVE  Results'
  BY <1>7 DEF CompleteRemove, results, history, Results, Recorded, Types, Ownership,
         SubmissionsAreFresh, KnownAreAccepted, OneOwner, InProcess, ScheduledTask
<1>8. ASSUME NEW w \in Workers, RetryTake(w)
      PROVE  Results'
  BY <1>8 DEF RetryTake, RetryWith, Counted, results, history, Results, Recorded, Types,
         Ownership, SubmissionsAreFresh, KnownAreAccepted, OneOwner, InProcess,
         ScheduledTask
<1>9. ASSUME NEW w \in Workers, RetryPush(w)
      PROVE  Results'
  BY <1>9 DEF RetryPush, results, history, Results, Recorded, Types, Ownership,
         SubmissionsAreFresh, KnownAreAccepted, OneOwner, InProcess, ScheduledTask
<1>10. ASSUME NEW c \in Cancellers, NEW t \in Tasks, CancelPending(c, t)
      PROVE  Results'
  BY <1>10 DEF CancelPending, results, history, NoCancel, Ids, Results, Recorded, Types,
         Ownership, SubmissionsAreFresh, KnownAreAccepted, OneOwner, InProcess,
         ScheduledTask
<1>11. ASSUME NEW c \in Cancellers, CancelProcessing(c)
      PROVE  Results'
  BY <1>11 DEF CancelProcessing, results, NoCancel, Ids, Results, Recorded, Types,
         Ownership, SubmissionsAreFresh, KnownAreAccepted, OneOwner, InProcess,
         ScheduledTask
<1>12. CASE Quiet
  BY <1>12 DEF Quiet, queues, Results, Recorded, Types, Ownership, SubmissionsAreFresh,
         KnownAreAccepted, OneOwner, InProcess, ScheduledTask
<1> QED
  BY QuietSteps, <1>1, <1>2, <1>3, <1>4, <1>5, <1>6, <1>7, <1>8, <1>9, <1>10, <1>11,
     <1>12 DEF SubmitterStep, WorkerStep, CancellerStep
-----------------------------------------------------------------------------
\* The invariant of the specification.

IInv == Types /\ Ownership /\ DeadStayDead /\ Results

LEMMA IInvInit == Init => IInv
<1> SUFFICES ASSUME Init PROVE IInv
  OBVIOUS
<1>1. Types
  BY TypesInit
<1>2. Ownership
  BY DEF Init, Ownership, SubmissionsAreFresh, KnownAreAccepted, OneOwner, Busy,
         NoSubmission, NoCancel
<1>3. DeadStayDead
  BY DEF Init, DeadStayDead, Dead, NoCancel, Holds
<1>4. Results
  BY DEF Init, Results, Recorded, Busy, NoSubmission
<1> QED BY <1>1, <1>2, <1>3, <1>4 DEF IInv

LEMMA IInvHolds == Spec => []IInv
<1>1. IInv /\ [Next]_vars => IInv'
  BY TypesInductive, OwnershipInductive, DeadInductive, ResultsInductive DEF IInv
<1> QED BY IInvInit, <1>1, PTL DEF Spec

\* A task has one live copy at most, whatever retries, completions and
\* cancellations interleave: no task is ever executed twice at a time.
THEOREM OneLiveCopyHolds == Spec => []OneLiveCopy
<1>1. IInv => OneLiveCopy
  <2> SUFFICES ASSUME IInv PROVE OneLiveCopy
    OBVIOUS
  <2>1. \A t, u \in priority_queue \cup processing_queue : t.id = u.id => t = u
    BY DEF IInv, Ownership, OneOwner, InProcess, Busy
  <2>2. Ids(priority_queue) \cap Ids(processing_queue) = {}
    BY DEF IInv, Ownership, OneOwner, InProcess, Busy, Ids
  <2>3. \A w \in Workers : wpc[w] # "idle" => wtask[w].id \notin Ids(priority_queue)
    BY DEF IInv, Ownership, OneOwner, Busy, Ids
  <2>4. \A v, w \in Workers : \A t \in Tasks : Owns(v, t) /\ Owns(w, t) => v = w
    BY DEF IInv, Ownership, OneOwner, Busy, Owns
  <2>5. \A w \in Workers, t \in Tasks : Holds(w, t) => t \notin Ids(processing_queue)
    BY DEF IInv, Ownership, OneOwner, InProcess, Busy, Holds, Ids
  <2> QED BY <2>1, <2>2, <2>3, <2>4, <2>5 DEF OneLiveCopy
<1> QED BY <1>1, IInvHolds, PTL

\* Once cancel_task has returned true, no worker takes the task again.
THEOREM CancellationIsFinal == Spec => []CancelIsFinal
<1>1. IInv => CancelIsFinal
  BY DEF IInv, Types, DeadStayDead, Dead, CancelIsFinal, Ids
<1> QED BY <1>1, IInvHolds, PTL

\* The two result maps never both have a task.
THEOREM OutcomesAreUnique == Spec => []OutcomeIsUnique
<1>1. Init => OutcomeIsUnique
  BY DEF Init, OutcomeIsUnique
<1>2. IInv /\ OutcomeIsUnique /\ [Next]_vars => OutcomeIsUnique'
  <2> SUFFICES ASSUME IInv, OutcomeIsUnique, [Next]_vars PROVE OutcomeIsUnique'
    OBVIOUS
  <2>1. ASSUME NEW w \in Workers, NEW success \in BOOLEAN, CompleteRecord(w, success)
        PROVE  OutcomeIsUnique'
    <3>1. ~ Recorded(wtask[w].id)
      BY <2>1 DEF CompleteRecord, RetriesExceeded, IInv, Results, Busy
    <3> QED BY <2>1, <3>1 DEF CompleteRecord, Recorded, OutcomeIsUnique
  <2>2. \/ completed_tasks' \subseteq completed_tasks /\ failed_tasks' \subseteq failed_tasks
        \/ \E w \in Workers, success \in BOOLEAN : CompleteRecord(w, success)
    BY DEF Next, Step, SubmitterStep, ScheduleCheck, SchedulePush, WorkerStep,
           GetNextTask, StartAcquire, StartPush, CompleteRemove, RetryTake, RetryWith,
           RetryPush, CancellerStep, CancelPending, CancelProcessing, ReaderStep, Ask,
           ReadStatus, Read, JanitorStep, ClearCompleted, ClearFailed, Tick, results,
           vars
  <2> QED BY <2>1, <2>2 DEF OutcomeIsUnique
<1> QED BY <1>1, <1>2, IInvHolds, PTL DEF Spec

LEMMA NothingLostInductive ==
  IInv /\ NothingLost /\ [Next]_vars => NothingLost'
<1> SUFFICES ASSUME IInv, NothingLost, [Next]_vars PROVE NothingLost'
  OBVIOUS
<1> USE DEF Busy, IInv
<1>1. ASSUME NEW s \in Submitters, NEW t \in Tasks, NEW p \in Weights, ScheduleCheck(s, t, p)
      PROVE  NothingLost'
  BY <1>1 DEF ScheduleCheck, queues, results, history, Fresh, NoSubmission, NothingLost,
         Owns, Ids, DeadStayDead, Dead, Results, Recorded, Types, Ownership, OneOwner,
         InProcess
<1>2. ASSUME NEW s \in Submitters, SchedulePush(s)
      PROVE  NothingLost'
  <2>1. PICK at \in Nat :
           priority_queue' = priority_queue \cup
               {[id |-> sub[s].id, priority |-> sub[s].priority,
                 scheduled_at |-> at, retry_count |-> 0]}
    BY <1>2 DEF SchedulePush, Types, NoSubmission
  <2> DEFINE pushed == [id |-> sub[s].id, priority |-> sub[s].priority,
                        scheduled_at |-> at, retry_count |-> 0]
  <2>2. pushed.id = sub[s].id
    OBVIOUS
  <2>3. Ids(priority_queue') = Ids(priority_queue) \cup {sub[s].id}
    <3> HIDE DEF pushed
    <3> QED BY <2>1, <2>2 DEF Ids, pushed
  <2>4. accepted' = accepted \cup {sub[s].id}
    BY <1>2 DEF SchedulePush
  <2> QED
    BY <1>2, <2>3, <2>4 DEF SchedulePush, results, NothingLost, Owns, Ids
<1>3. ASSUME NEW w \in Workers, GetNextTask(w)
      PROVE  NothingLost'
  BY <1>3 DEF GetNextTask, results, NothingLost, Owns, Ids, DeadStayDead, Dead, Results,
         Recorded, Types, Ownership, OneOwner, InProcess
<1>4. ASSUME NEW w \in Workers, StartAcquire(w)
      PROVE  NothingLost'
  BY <1>4 DEF StartAcquire, queues, results, history, NothingLost, Owns, Ids,
         DeadStayDead, Dead, Results, Recorded, Types, Ownership, OneOwner, InProcess
<1>5. ASSUME NEW w \in Workers, StartPush(w)
      PROVE  NothingLost'
  BY <1>5 DEF StartPush, results, history, NothingLost, Owns, Ids, DeadStayDead, Dead,
         Results, Recorded, Types, Ownership, OneOwner, InProcess
<1>6. ASSUME NEW w \in Workers, NEW success \in BOOLEAN, CompleteRecord(w, success)
      PROVE  NothingLost'
  BY <1>6 DEF CompleteRecord, RetriesExceeded, queues, history, NothingLost, Owns, Ids,
         DeadStayDead, Dead, Results, Recorded, Types, Ownership, OneOwner, InProcess
<1>7. ASSUME NEW w \in Workers, CompleteRemove(w)
      PROVE  NothingLost'
  BY <1>7 DEF CompleteRemove, results, history, NothingLost, Owns, Ids, DeadStayDead,
         Dead, Results, Recorded, Types, Ownership, OneOwner, InProcess
<1>8. ASSUME NEW w \in Workers, RetryTake(w)
      PROVE  NothingLost'
  <2>1. PICK id \in Tasks : id = wtask[w].id
    BY <1>8 DEF RetryTake, Types, ScheduledTask
  <2>2. /\ UNCHANGED <<priority_queue, completed_tasks, failed_tasks, can, accepted,
                       cancelled, cleared>>
        /\ \A u \in Tasks, v \in Workers : v # w => Owns(v, u)' <=> Owns(v, u)
    BY <1>8 DEF RetryTake, RetryWith, results, history, Owns, Types
  <2>3. \A u \in Ids(processing_queue) : u = id \/ u \in Ids(processing_queue')
    BY <1>8, <2>1 DEF RetryTake, Ids, Types
  <2>4. \A u \in Tasks : Owns(w, u) => u = id
    BY <2>1 DEF Owns
  <2>5. \/ Owns(w, id)'
        \/ id \in completed_tasks \cup failed_tasks \cup cleared \cup cancelled
    <3>1. ASSUME NEW t \in processing_queue, t.id = id, RetryWith(w, Counted(t))
          PROVE  Owns(w, id)'
      <4>1. Counted(t) \in ScheduledTask /\ Counted(t).id = t.id
        BY DEF Counted, Types, ScheduledTask
      <4> QED BY <2>1, <3>1, <4>1 DEF RetryWith, Owns, Types
    <3>2. CASE id \notin Ids(processing_queue)
      BY <1>8, <2>1, <3>2 DEF RetryTake, Results, Recorded, Ids
    <3> QED BY <1>8, <2>1, <3>1, <3>2 DEF RetryTake, Ids
  <2>6. \A u \in accepted : u \in Tasks
    BY DEF Types
  <2> QED
    BY <2>2, <2>3, <2>4, <2>5, <2>6 DEF NothingLost
<1>9. ASSUME NEW w \in Workers, RetryPush(w)
      PROVE  NothingLost'
  <2> DEFINE again == [wtask[w] EXCEPT !.scheduled_at = now + RetryDelay * wtask[w].retry_count]
  <2>1. wtask[w] \in ScheduledTask
    BY <1>9 DEF RetryPush, Types
  <2>2. again.id = wtask[w].id
    BY <2>1 DEF ScheduledTask
  <2> HIDE DEF again
  <2>3. priority_queue' = priority_queue \cup {again}
    BY <1>9 DEF RetryPush, again
  <2>4. Ids(priority_queue') = Ids(priority_queue) \cup {wtask[w].id}
    BY <2>2, <2>3 DEF Ids
  <2>5. \A v \in Workers, t \in Tasks : Owns(v, t) => Owns(v, t)' \/ t \in Ids(priority_queue')
    BY <1>9, <2>4 DEF RetryPush, Owns, Types
  <2>6. Ids(priority_queue) \subseteq Ids(priority_queue')
    BY <2>4
  <2> QED
    BY <1>9, <2>5, <2>6 DEF RetryPush, results, history, NothingLost, Types, Ids
<1>10. ASSUME NEW c \in Cancellers, NEW t \in Tasks, CancelPending(c, t)
      PROVE  NothingLost'
  <2> DEFINE hit == t \in Ids(priority_queue)
  <2>1. can' = [can EXCEPT ![c] = [id |-> t, hit |-> hit]] /\ can[c] = NoCancel
    BY <1>10 DEF CancelPending
  <2>2. hit => can'[c] = [id |-> t, hit |-> TRUE]
    <3>1. can'[c] = [id |-> t, hit |-> hit]
      BY <2>1 DEF Types
    <3>2. hit => hit = TRUE
      BY DEF Ids
    <3> QED BY <3>1, <3>2
  <2>3. \A b \in Cancellers : b # c => can'[b] = can[b]
    BY <2>1 DEF Types
  <2>4. NoCancel.hit = FALSE
    BY DEF NoCancel
  <2>5. \A u \in Tasks : [id |-> u, hit |-> TRUE] # NoCancel
    BY <2>4
  <2> HIDE DEF hit
  <2>6. \A u \in Tasks : (\E b \in Cancellers : can[b] = [id |-> u, hit |-> TRUE])
                            => \E b \in Cancellers : can'[b] = [id |-> u, hit |-> TRUE]
    BY <2>1, <2>3, <2>5
  <2>7. \A u \in Ids(priority_queue) : u = t \/ u \in Ids(priority_queue')
    BY <1>10 DEF CancelPending, Ids
  <2>8. UNCHANGED <<processing_queue, completed_tasks, failed_tasks, wpc, wtask, accepted,
                    cancelled, cleared>>
    BY <1>10 DEF CancelPending, results, history
  <2>9. \A u \in accepted : u \in Tasks
    BY DEF Types
  <2> QED
    BY <2>2, <2>6, <2>7, <2>8, <2>9 DEF NothingLost, Owns, Ids, hit
<1>11. ASSUME NEW c \in Cancellers, CancelProcessing(c)
      PROVE  NothingLost'
  <2> DEFINE t == can[c].id
  <2>1. \A u \in Ids(processing_queue) : u = t \/ u \in Ids(processing_queue')
    BY <1>11 DEF CancelProcessing, Ids
  <2>2. can[c].hit \/ t \in Ids(processing_queue) => t \in cancelled'
    BY <1>11 DEF CancelProcessing
  <2>3. \A u \in Tasks : can[c] = [id |-> u, hit |-> TRUE] => u \in cancelled'
    <3>1. ASSUME NEW u \in Tasks, can[c] = [id |-> u, hit |-> TRUE]
          PROVE  can[c].hit /\ t = u
      BY <3>1
    <3> QED BY <2>2, <3>1
  <2>4. cancelled \subseteq cancelled'
    BY <1>11 DEF CancelProcessing
  <2>5. \A b \in Cancellers : b # c => can'[b] = can[b]
    BY <1>11 DEF CancelProcessing, Types
  <2>6. UNCHANGED <<priority_queue, completed_tasks, failed_tasks, wpc, wtask, accepted,
                    cleared>>
    BY <1>11 DEF CancelProcessing, results
  <2>7. \A u \in accepted : u \in Tasks
    BY DEF Types
  <2> HIDE DEF t
  <2> QED
    BY <2>1, <2>2, <2>3, <2>4, <2>5, <2>6, <2>7 DEF NothingLost, Owns, Ids
<1>12. CASE Quiet
  BY <1>12 DEF Quiet, queues, NothingLost, Owns, Ids, DeadStayDead, Dead, Results,
         Recorded, Types, Ownership, OneOwner, InProcess
<1> QED
  BY QuietSteps, <1>1, <1>2, <1>3, <1>4, <1>5, <1>6, <1>7, <1>8, <1>9, <1>10, <1>11,
     <1>12 DEF SubmitterStep, WorkerStep, CancellerStep

\* Every accepted task is in a queue, in the hands of a worker, has a result, or
\* was cancelled.
THEOREM NothingIsLost == Spec => []NothingLost
<1>1. Init => NothingLost
  BY DEF Init, NothingLost
<1> QED BY <1>1, NothingLostInductive, IInvHolds, PTL DEF Spec

-----------------------------------------------------------------------------
\* The bound on the queue.  A submitter between its two sections is as good as a
\* task in the heap, and so is a worker that holds a task: it may push it again.

Pending    == {s \in Submitters : sub[s] # NoSubmission}
BusyOnes   == {w \in Workers : Busy(w)}
FirstTries == {t \in priority_queue : t.retry_count = 0}

Room ==
    /\ IsFiniteSet(priority_queue)
    /\ \A w \in Workers : wpc[w] = "requeue" => wtask[w].retry_count > 0
    /\ Cardinality(FirstTries) + Cardinality(Pending)
           < MaxQueueSize + Cardinality(Submitters)
    /\ Cardinality(priority_queue) + Cardinality(Pending) + Cardinality(BusyOnes)
           < MaxQueueSize + Cardinality(Submitters) + Cardinality(Workers)

LEMMA Sizes ==
  ASSUME Types, Room
  PROVE  /\ IsFiniteSet(priority_queue) /\ Cardinality(priority_queue) \in Nat
         /\ IsFiniteSet(FirstTries) /\ Cardinality(FirstTries) \in Nat
         /\ IsFiniteSet(Pending) /\ Cardinality(Pending) \in Nat
         /\ IsFiniteSet(BusyOnes) /\ Cardinality(BusyOnes) \in Nat
         /\ Cardinality(Submitters) \in Nat /\ Cardinality(Workers) \in Nat
         /\ MaxQueueSize \in Nat
<1>1. IsFiniteSet(priority_queue)
  BY DEF Room
<1>2. FirstTries \subseteq priority_queue /\ Pending \subseteq Submitters /\ BusyOnes \subseteq Workers
  BY DEF FirstTries, Pending, BusyOnes
<1>3. IsFiniteSet(FirstTries) /\ IsFiniteSet(Pending) /\ IsFiniteSet(BusyOnes)
  BY <1>1, <1>2, FS_Subset
<1> QED BY <1>1, <1>3, FS_CardinalityType

\* What only takes away leaves the room there is.
LEMMA RoomWhenShrinking ==
  ASSUME Types, Room,
         priority_queue' \subseteq priority_queue,
         Pending' \subseteq Pending, BusyOnes' \subseteq BusyOnes,
         \A w \in Workers : wpc'[w] = "requeue" => wtask'[w].retry_count > 0
  PROVE  Room'
<1>1. FirstTries' \subseteq FirstTries
  BY DEF FirstTries
<1>2. /\ IsFiniteSet(priority_queue')
      /\ Cardinality(priority_queue') <= Cardinality(priority_queue)
      /\ Cardinality(FirstTries') <= Cardinality(FirstTries)
      /\ Cardinality(Pending') <= Cardinality(Pending)
      /\ Cardinality(BusyOnes') <= Cardinality(BusyOnes)
  BY <1>1, Sizes, FS_Subset
<1>3. /\ Cardinality(priority_queue') \in Nat /\ Cardinality(FirstTries') \in Nat
      /\ Cardinality(Pending') \in Nat /\ Cardinality(BusyOnes') \in Nat
  BY <1>1, Sizes, FS_Subset, FS_CardinalityType
<1> QED BY <1>2, <1>3, Sizes DEF Room

LEMMA RoomInductive == Types /\ Room /\ [Next]_vars => Room'
<1> SUFFICES ASSUME Types, Room, [Next]_vars PROVE Room'
  OBVIOUS
<1> USE DEF Busy
<1>1. ASSUME NEW s \in Submitters, NEW t \in Tasks, NEW p \in Weights, ScheduleCheck(s, t, p)
      PROVE  Room'
  <2>1. UNCHANGED <<priority_queue, wpc, wtask>>
    BY <1>1 DEF ScheduleCheck, queues
  <2>2. FirstTries' = FirstTries /\ BusyOnes' = BusyOnes
    BY <2>1 DEF FirstTries, BusyOnes
  <2>3. CASE sub' = sub
    <3>1. Pending' = Pending
      BY <2>3 DEF Pending
    <3> QED BY <2>1, <2>2, <3>1, RoomWhenShrinking DEF Room
  <2>4. CASE Cardinality(priority_queue) < MaxQueueSize
    <3>1. Pending' \subseteq Submitters
      BY DEF Pending
    <3>2. /\ Cardinality(Pending') <= Cardinality(Submitters)
          /\ Cardinality(Pending') \in Nat
      BY <3>1, FS_Subset, FS_CardinalityType
    <3>3. FirstTries \subseteq priority_queue /\ BusyOnes \subseteq Workers
      BY DEF FirstTries, BusyOnes
    <3>4. /\ Cardinality(FirstTries) <= Cardinality(priority_queue)
          /\ Cardinality(BusyOnes) <= Cardinality(Workers)
      BY <3>3, Sizes, FS_Subset
    <3> QED BY <2>1, <2>2, <2>4, <3>2, <3>4, Sizes DEF Room
  <2> QED BY <1>1, <2>3, <2>4, Sizes DEF ScheduleCheck
<1>2. ASSUME NEW s \in Submitters, SchedulePush(s)
      PROVE  Room'
  <2>1. PICK x : priority_queue' = priority_queue \cup {x} /\ x.retry_count = 0
    <3> DEFINE record(at) == [id |-> sub[s].id, priority |-> sub[s].priority,
                              scheduled_at |-> at, retry_count |-> 0]
    <3>1. PICK at : priority_queue' = priority_queue \cup {record(at)}
      BY <1>2 DEF SchedulePush
    <3>2. record(at).retry_count = 0
      OBVIOUS
    <3> HIDE DEF record
    <3> QED BY <3>1, <3>2
  <2>2. UNCHANGED <<wpc, wtask>> /\ Pending' = Pending \ {s} /\ s \in Pending
    BY <1>2 DEF SchedulePush, Pending, Types, NoSubmission
  <2>3. BusyOnes' = BusyOnes /\ FirstTries' = FirstTries \cup {x}
    BY <2>1, <2>2 DEF BusyOnes, FirstTries
  <2>4. Cardinality(Pending') = Cardinality(Pending) - 1
    BY <2>2, Sizes, FS_RemoveElement
  <2>5. IsFiniteSet(priority_queue')
    BY <2>1, Sizes, FS_AddElement
  <2>6. /\ Cardinality(priority_queue') <= Cardinality(priority_queue) + 1
        /\ Cardinality(priority_queue') \in Nat
    BY <2>1, Sizes, OneMore
  <2>7. /\ Cardinality(FirstTries') <= Cardinality(FirstTries) + 1
        /\ Cardinality(FirstTries') \in Nat
    BY <2>3, Sizes, OneMore
  <2> QED BY <2>2, <2>3, <2>4, <2>5, <2>6, <2>7, Sizes DEF Room
<1>3. ASSUME NEW w \in Workers, GetNextTask(w)
      PROVE  Room'
  <2>1. PICK t \in priority_queue : priority_queue' = priority_queue \ {t}
    BY <1>3 DEF GetNextTask
  <2>2. Pending' = Pending /\ BusyOnes' = BusyOnes \cup {w}
    BY <1>3 DEF GetNextTask, Pending, BusyOnes, Types
  <2>3. FirstTries' \subseteq FirstTries
    BY <2>1 DEF FirstTries
  <2>4. /\ IsFiniteSet(priority_queue')
        /\ Cardinality(priority_queue') = Cardinality(priority_queue) - 1
    BY <2>1, Sizes, FS_RemoveElement
  <2>5. /\ Cardinality(BusyOnes') <= Cardinality(BusyOnes) + 1
        /\ Cardinality(BusyOnes') \in Nat
    BY <2>2, Sizes, OneMore
  <2>6. /\ Cardinality(FirstTries') <= Cardinality(FirstTries)
        /\ Cardinality(FirstTries') \in Nat
    BY <2>3, Sizes, FS_Subset, FS_CardinalityType
  <2>7. \A v \in Workers : wpc'[v] = "requeue" => wtask'[v].retry_count > 0
    BY <1>3 DEF GetNextTask, Types, Room
  <2> QED BY <2>2, <2>4, <2>5, <2>6, <2>7, Sizes DEF Room
<1>4. ASSUME NEW w \in Workers, RetryPush(w)
      PROVE  Room'
  <2> DEFINE again == [wtask[w] EXCEPT !.scheduled_at = now + RetryDelay * wtask[w].retry_count]
  <2>1. wtask[w] \in ScheduledTask /\ wtask[w].retry_count > 0
    BY <1>4 DEF RetryPush, Types, Room
  <2>2. again.retry_count = wtask[w].retry_count
    BY <2>1 DEF ScheduledTask
  <2> HIDE DEF again
  <2>3. priority_queue' = priority_queue \cup {again}
    BY <1>4 DEF RetryPush, again
  <2>4. Pending' = Pending /\ w \in BusyOnes /\ BusyOnes' = BusyOnes \ {w}
    BY <1>4 DEF RetryPush, Pending, BusyOnes, Types
  <2>5. FirstTries' = FirstTries
    BY <2>1, <2>2, <2>3 DEF FirstTries, ScheduledTask
  <2>6. Cardinality(BusyOnes') = Cardinality(BusyOnes) - 1
    BY <2>4, Sizes, FS_RemoveElement
  <2>7. IsFiniteSet(priority_queue')
    BY <2>3, Sizes, FS_AddElement
  <2>8. /\ Cardinality(priority_queue') <= Cardinality(priority_queue) + 1
        /\ Cardinality(priority_queue') \in Nat
    BY <2>3, Sizes, OneMore
  <2>9. \A v \in Workers : wpc'[v] = "requeue" => wtask'[v].retry_count > 0
    BY <1>4 DEF RetryPush, Types, Room
  <2> QED BY <2>4, <2>5, <2>6, <2>7, <2>8, <2>9, Sizes DEF Room
<1>5. ASSUME NEW w \in Workers, RetryTake(w)
      PROVE  Room'
  <2>1. UNCHANGED <<priority_queue, sub>>
    BY <1>5 DEF RetryTake, RetryWith
  <2>2. Pending' = Pending
    BY <2>1 DEF Pending
  <2>3. BusyOnes' \subseteq BusyOnes
    BY <1>5 DEF RetryTake, RetryWith, BusyOnes, Types
  <2>4. \A v \in Workers : wpc'[v] = "requeue" => wtask'[v].retry_count > 0
    BY <1>5 DEF RetryTake, RetryWith, Counted, Types, Room, ScheduledTask
  <2> QED BY <2>1, <2>2, <2>3, <2>4, RoomWhenShrinking
<1>6. ASSUME NEW w \in Workers,
             \/ StartAcquire(w) \/ StartPush(w) \/ CompleteRemove(w)
             \/ \E success \in BOOLEAN : CompleteRecord(w, success)
      PROVE  Room'
  <2>1. UNCHANGED <<priority_queue, sub>>
    BY <1>6 DEF StartAcquire, StartPush, CompleteRemove, CompleteRecord, queues
  <2>2. Pending' = Pending
    BY <2>1 DEF Pending
  <2>3. BusyOnes' \subseteq BusyOnes
    BY <1>6 DEF StartAcquire, StartPush, CompleteRemove, CompleteRecord, RetriesExceeded,
           BusyOnes, Types
  <2>4. \A v \in Workers : wpc'[v] = "requeue" => wtask'[v].retry_count > 0
    BY <1>6 DEF StartAcquire, StartPush, CompleteRemove, CompleteRecord, Types, Room
  <2> QED BY <2>1, <2>2, <2>3, <2>4, RoomWhenShrinking
<1>7. ASSUME NEW c \in Cancellers, CancellerStep(c)
      PROVE  Room'
  <2>1. priority_queue' \subseteq priority_queue /\ UNCHANGED <<sub, wpc, wtask>>
    BY <1>7 DEF CancellerStep, CancelPending, CancelProcessing
  <2>2. Pending' = Pending /\ BusyOnes' = BusyOnes
    BY <2>1 DEF Pending, BusyOnes
  <2> QED BY <2>1, <2>2, RoomWhenShrinking DEF Room
<1>8. CASE Quiet
  <2>1. UNCHANGED <<priority_queue, sub, wpc, wtask>>
    BY <1>8 DEF Quiet, queues
  <2>2. Pending' = Pending /\ BusyOnes' = BusyOnes
    BY <2>1 DEF Pending, BusyOnes
  <2> QED BY <2>1, <2>2, RoomWhenShrinking DEF Room
<1> QED
  BY QuietSteps, <1>1, <1>2, <1>3, <1>4, <1>5, <1>6, <1>7, <1>8 DEF SubmitterStep, WorkerStep

\* The heap outgrows max_queue_size by less than one task for each submitter that
\* passed the check with others, and one retry for each worker: never by more.
THEOREM QueueIsBounded == Spec => []QueueBound
<1>1. Init => Room
  <2> SUFFICES ASSUME Init PROVE Room
    OBVIOUS
  <2>1. priority_queue = {} /\ FirstTries = {} /\ Pending = {} /\ BusyOnes = {}
    BY DEF Init, FirstTries, Pending, BusyOnes, Busy
  <2>2. Cardinality({}) = 0 /\ IsFiniteSet({})
    BY FS_EmptySet
  <2>3. Cardinality(Submitters) \in Nat /\ Cardinality(Workers) \in Nat
    BY FS_CardinalityType
  <2> QED BY <2>1, <2>2, <2>3 DEF Init, Room
<1>2. Types /\ Room => QueueBound
  BY Sizes DEF Room, QueueBound, FirstTries
<1>3. Spec => []Types
  BY TypesInit, TypesInductive, PTL DEF Spec
<1> QED BY <1>1, <1>2, <1>3, RoomInductive, PTL DEF Spec

-----------------------------------------------------------------------------
\* A reader that has not missed the task yet: where it has looked, the task is not,
\* and will not be.

NotPast(r) ==
    LET t == rid[r] IN
    /\ InSomeStore(t)
    /\ rpc[r] # "pending?" => t \notin Ids(priority_queue)
    /\ rpc[r] \in {"completed?", "failed?"} => t \notin Ids(processing_queue)
    /\ rpc[r] = "failed?" => t \notin completed_tasks

ReadersInOrder ==
    \A r \in Readers :
        /\ rpc[r] \in Reading => rid[r] \in accepted
        /\ rpc[r] \in Reading => absent[r] \/ NotPast(r)
        /\ rpc[r] = "NotFound" => absent[r]

LEMMA AcceptedGrows == [Next]_vars => accepted \subseteq accepted'
  BY DEF Next, Step, SubmitterStep, ScheduleCheck, SchedulePush, WorkerStep, GetNextTask,
         StartAcquire, StartPush, CompleteRecord, CompleteRemove, RetryTake, RetryWith,
         RetryPush, CancellerStep, CancelPending, CancelProcessing, ReaderStep, Ask,
         ReadStatus, Read, JanitorStep, ClearCompleted, ClearFailed, Tick, vars, history

\* Where a task that appears in a store comes from.
LEMMA WaysIn ==
  ASSUME Types, [Next]_vars, NEW t
  PROVE  /\ t \in Ids(priority_queue') =>
              \/ t \in Ids(priority_queue)
              \/ \E s \in Submitters : sub[s].id = t
              \/ \E w \in Workers : wpc[w] = "requeue" /\ wtask[w].id = t
         /\ t \in Ids(processing_queue') =>
              \/ t \in Ids(processing_queue)
              \/ \E w \in Workers : wpc[w] = "starting" /\ wtask[w].id = t
         /\ t \in completed_tasks' =>
              \/ t \in completed_tasks
              \/ \E w \in Workers : /\ wpc[w] \in {"popped", "running", "requeue"}
                                    /\ wtask[w].id = t
<1> USE DEF Ids
<1>1. ASSUME NEW s \in Submitters, SubmitterStep(s)
      PROVE  /\ UNCHANGED <<processing_queue, completed_tasks>>
             /\ \A u \in priority_queue' : u \in priority_queue \/ u.id = sub[s].id
  BY <1>1 DEF SubmitterStep, ScheduleCheck, SchedulePush, queues, results
<1>2. ASSUME NEW w \in Workers, WorkerStep(w)
      PROVE  /\ t \in Ids(priority_queue') =>
                  \/ t \in Ids(priority_queue)
                  \/ wpc[w] = "requeue" /\ wtask[w].id = t
             /\ t \in Ids(processing_queue') =>
                  \/ t \in Ids(processing_queue)
                  \/ wpc[w] = "starting" /\ wtask[w].id = t
             /\ t \in completed_tasks' =>
                  \/ t \in completed_tasks
                  \/ wpc[w] \in {"popped", "running", "requeue"} /\ wtask[w].id = t
  <2>1. CASE GetNextTask(w) \/ StartAcquire(w) \/ CompleteRemove(w) \/ RetryTake(w)
    BY <2>1 DEF GetNextTask, StartAcquire, CompleteRemove, RetryTake, RetryWith, queues, results
  <2>2. CASE StartPush(w)
    BY <2>2 DEF StartPush, results
  <2>3. CASE \E success \in BOOLEAN : CompleteRecord(w, success)
    BY <2>3 DEF CompleteRecord, RetriesExceeded, queues
  <2>4. CASE RetryPush(w)
    <3> DEFINE again == [wtask[w] EXCEPT !.scheduled_at = now + RetryDelay * wtask[w].retry_count]
    <3>1. wtask[w] \in ScheduledTask
      BY <2>4 DEF RetryPush, Types, Busy
    <3>2. again.id = wtask[w].id
      BY <3>1 DEF ScheduledTask
    <3> HIDE DEF again
    <3>3. priority_queue' = priority_queue \cup {again}
      BY <2>4 DEF RetryPush, again
    <3> QED BY <2>4, <3>2, <3>3 DEF RetryPush, results
  <2> QED BY <1>2, <2>1, <2>2, <2>3, <2>4 DEF WorkerStep
<1>3. CASE \E c \in Cancellers : CancellerStep(c)
  BY <1>3 DEF CancellerStep, CancelPending, CancelProcessing, results
<1>4. CASE UNCHANGED vars \/ (\E r \in Readers : ReaderStep(r)) \/ JanitorStep \/ Tick
  <2>1. UNCHANGED queues /\ completed_tasks' \subseteq completed_tasks
    BY <1>4, ReaderFrame DEF vars, queues, results, JanitorStep, ClearCompleted, ClearFailed, Tick
  <2> QED BY <2>1 DEF queues
<1> QED BY <1>1, <1>2, <1>3, <1>4 DEF Next, Step

\* A task that is in a store never goes back to one that comes before all of those
\* it is in.
LEMMA NoWayBack ==
  ASSUME IInv, [Next]_vars, NEW t \in accepted, InSomeStore(t), t \notin Ids(priority_queue)
  PROVE  /\ t \notin Ids(priority_queue')
         /\ t \notin Ids(processing_queue) => t \notin Ids(processing_queue')
         /\ t \notin Ids(processing_queue) \cup completed_tasks => t \notin completed_tasks'
<1> USE DEF IInv
<1>1. \A s \in Submitters : sub[s].id # t
  BY DEF Ownership, SubmissionsAreFresh
<1>2. CASE t \in Ids(processing_queue)
  <2>1. PICK v \in Workers : wpc[v] \in InProcess /\ wtask[v].id = t
    BY <1>2 DEF Ids, Ownership, OneOwner
  <2>2. \A w \in Workers : Busy(w) /\ wtask[w].id = t => w = v
    BY <2>1 DEF Ownership, OneOwner, Busy, InProcess
  <2>3. \A w \in Workers : ~ (wpc[w] = "requeue" /\ wtask[w].id = t)
    BY <2>1, <2>2 DEF Busy, InProcess
  <2> QED BY <1>1, <1>2, <2>3, WaysIn
<1>3. CASE t \notin Ids(processing_queue)
  <2>1. Recorded(t)
    BY <1>3 DEF InSomeStore, Recorded
  <2>2. \A w \in Workers : wtask[w].id = t =>
            wpc[w] \notin {"popped", "starting", "running", "requeue"}
    BY <2>1 DEF Results, Busy
  <2> QED BY <1>1, <2>2, WaysIn
<1> QED BY <1>2, <1>3

LEMMA ReadersInductive ==
  IInv /\ ReaderTypes /\ ReadersInOrder /\ [Next]_vars => ReadersInOrder'
<1> SUFFICES ASSUME IInv, ReaderTypes, ReadersInOrder, [Next]_vars
             PROVE  ReadersInOrder'
  OBVIOUS
<1>1. CASE UNCHANGED vars
  BY <1>1 DEF vars, queues, results, clients, history, ReadersInOrder, NotPast, InSomeStore, Ids
<1>2. CASE Next
  <2> SUFFICES ASSUME NEW r \in Readers
               PROVE  /\ rpc'[r] \in Reading => rid'[r] \in accepted'
                      /\ rpc'[r] \in Reading => absent'[r] \/ NotPast(r)'
                      /\ rpc'[r] = "NotFound" => absent'[r]
    BY DEF ReadersInOrder
  <2>1. absent'[r] = \/ rpc'[r] \in Reading /\ rpc[r] \in Reading /\ absent[r]
                     \/ rpc'[r] \in Reading /\ ~ InSomeStore(rid[r])'
                     \/ rpc'[r] = "NotFound" /\ absent[r]
    BY <1>2 DEF Next, Observe
  <2>2. /\ rpc[r] \in Reading => rid[r] \in accepted
        /\ rpc[r] \in Reading => absent[r] \/ NotPast(r)
        /\ rpc[r] = "NotFound" => absent[r]
    BY DEF ReadersInOrder
  <2>3. CASE rpc'[r] = rpc[r] /\ rid'[r] = rid[r]
    <3>1. accepted \subseteq accepted'
      BY <1>2, AcceptedGrows
    <3>2. ASSUME rpc[r] \in Reading, NotPast(r), InSomeStore(rid[r])'
          PROVE  NotPast(r)'
      <4>1. CASE rpc[r] = "pending?"
        BY <2>3, <3>2, <4>1 DEF NotPast
      <4>2. CASE rpc[r] # "pending?"
        BY <2>2, <2>3, <3>2, <4>2, NoWayBack DEF NotPast, Reading, Ids, InSomeStore
      <4> QED BY <4>1, <4>2
    <3> QED BY <2>1, <2>2, <2>3, <3>1, <3>2
  <2>4. CASE ReaderStep(r)
    <3>1. UNCHANGED <<queues, results, history>>
      BY <2>4, ReaderFrame
    <3>2. CASE \E t \in Tasks : Ask(r, t)
      <4>1. rpc'[r] = "pending?" /\ rid'[r] \in accepted
        BY <3>2 DEF Ask, ReaderTypes
      <4> QED BY <2>1, <3>1, <4>1 DEF NotPast, Reading, history
    <3>3. CASE ReadStatus(r)
      BY <2>1, <2>2, <3>1, <3>3
         DEF ReadStatus, Read, ReaderTypes, NotPast, InSomeStore, Ids, Reading, queues,
             results, history
    <3> QED BY <2>4, <3>2, <3>3 DEF ReaderStep
  <2>5. ASSUME NEW q \in Readers, q # r, ReaderStep(q)
        PROVE  rpc'[r] = rpc[r] /\ rid'[r] = rid[r]
    BY <2>5 DEF ReaderStep, Ask, ReadStatus, Read, ReaderTypes
  <2>6. ASSUME ~ \E q \in Readers : ReaderStep(q)
        PROVE  UNCHANGED <<rpc, rid>>
    BY <1>2, <2>6 DEF Next, Step, SubmitterStep, ScheduleCheck, SchedulePush, WorkerStep,
           GetNextTask, StartAcquire, StartPush, CompleteRecord, CompleteRemove,
           RetryTake, RetryWith, RetryPush, CancellerStep, CancelPending,
           CancelProcessing, JanitorStep, ClearCompleted, ClearFailed, Tick, clients
  <2> QED BY <2>3, <2>4, <2>5, <2>6
<1> QED BY <1>1, <1>2

\* get_task_status says NotFound only of a task that was in none of the four stores
\* at some moment of the call: no move of a task slips through the four reads.
THEOREM NotFoundIsHonest == Spec => []NotFoundIsTruthful
<1>1. Init => ReadersInOrder
  BY DEF Init, ReadersInOrder, Reading
<1>2. ReadersInOrder => NotFoundIsTruthful
  BY DEF ReadersInOrder, NotFoundIsTruthful
<1> QED BY <1>1, <1>2, ReadersInductive, IInvHolds, AllTypes, PTL DEF Spec

-----------------------------------------------------------------------------
\* How often a task has been taken is what its retry_count says, wherever it is.

Counts ==
    /\ \A t \in Tasks : t \notin accepted => attempts[t] = 0
    /\ \A u \in priority_queue : attempts[u.id] = u.retry_count
    /\ \A w \in Workers : wpc[w] \in {"popped", "starting", "running"}
                             => attempts[wtask[w].id] = wtask[w].retry_count + 1
    /\ \A w \in Workers : wpc[w] = "requeue" => attempts[wtask[w].id] = wtask[w].retry_count

LEMMA CountsInductive == IInv /\ Counts /\ [Next]_vars => Counts'
<1> SUFFICES ASSUME IInv, Counts, [Next]_vars PROVE Counts'
  OBVIOUS
<1> USE DEF Busy, IInv
<1>1. ASSUME NEW s \in Submitters, NEW t \in Tasks, NEW p \in Weights, ScheduleCheck(s, t, p)
      PROVE  Counts'
  BY <1>1 DEF ScheduleCheck, queues, history, Counts
<1>2. ASSUME NEW s \in Submitters, SchedulePush(s)
      PROVE  Counts'
  <2> DEFINE record(at) == [id |-> sub[s].id, priority |-> sub[s].priority,
                            scheduled_at |-> at, retry_count |-> 0]
  <2>1. PICK at : priority_queue' = priority_queue \cup {record(at)}
    BY <1>2 DEF SchedulePush
  <2>2. record(at).retry_count = 0 /\ record(at).id = sub[s].id
    OBVIOUS
  <2> HIDE DEF record
  <2>3. sub[s].id \in Tasks /\ sub[s].id \notin accepted
    BY <1>2 DEF SchedulePush, Types, NoSubmission, Ownership, SubmissionsAreFresh
  <2> QED BY <1>2, <2>1, <2>2, <2>3 DEF SchedulePush, Counts
<1>3. ASSUME NEW w \in Workers, GetNextTask(w)
      PROVE  Counts'
  BY <1>3 DEF GetNextTask, Counts, Types, Ownership, KnownAreAccepted, OneOwner, ScheduledTask
<1>4. ASSUME NEW w \in Workers, StartAcquire(w) \/ StartPush(w)
      PROVE  Counts'
  BY <1>4 DEF StartAcquire, StartPush, queues, history, Counts, Types
<1>5. ASSUME NEW w \in Workers, NEW success \in BOOLEAN, CompleteRecord(w, success)
      PROVE  Counts'
  BY <1>5 DEF CompleteRecord, RetriesExceeded, queues, history, Counts, Types
<1>6. ASSUME NEW w \in Workers, CompleteRemove(w)
      PROVE  Counts'
  BY <1>6 DEF CompleteRemove, history, Counts, Types
<1>7. ASSUME NEW w \in Workers, RetryTake(w)
      PROVE  Counts'
  <2>1. ASSUME NEW t \in processing_queue, t.id = wtask[w].id, RetryWith(w, Counted(t))
        PROVE  Counts'
    <3>1. wpc[w] = "running" /\ wtask[w] = t /\ t \in ScheduledTask
      BY <1>7, <2>1 DEF RetryTake, Types, Ownership, OneOwner, InProcess
    <3>2. Counted(t).retry_count = t.retry_count + 1 /\ Counted(t).id = t.id
          /\ t.retry_count \in Nat
      BY <3>1 DEF Counted, ScheduledTask
    <3>3. attempts[t.id] = t.retry_count + 1
      BY <3>1 DEF Counts
    <3>4. wpc'[w] \in {"idle", "requeue"} /\ \A v \in Workers : v # w => wpc'[v] = wpc[v]
      BY <2>1 DEF RetryWith, Types
    <3>5. wtask'[w] = Counted(t) /\ \A v \in Workers : v # w => wtask'[v] = wtask[v]
      BY <2>1 DEF RetryWith, Types
    <3>6. UNCHANGED <<priority_queue, history>>
      BY <2>1 DEF RetryWith
    <3> QED BY <3>2, <3>3, <3>4, <3>5, <3>6 DEF Counts, history
  <2>2. CASE RetryWith(w, None)
    BY <2>2 DEF RetryWith, history, Counts, Types
  <2> QED BY <1>7, <2>1, <2>2 DEF RetryTake
<1>8. ASSUME NEW w \in Workers, RetryPush(w)
      PROVE  Counts'
  <2> DEFINE again == [wtask[w] EXCEPT !.scheduled_at = now + RetryDelay * wtask[w].retry_count]
  <2>1. wtask[w] \in ScheduledTask
    BY <1>8 DEF RetryPush, Types
  <2>2. again.retry_count = wtask[w].retry_count /\ again.id = wtask[w].id
    BY <2>1 DEF ScheduledTask
  <2> HIDE DEF again
  <2>3. priority_queue' = priority_queue \cup {again}
    BY <1>8 DEF RetryPush, again
  <2> QED BY <1>8, <2>2, <2>3 DEF RetryPush, history, Counts, Types
<1>9. ASSUME NEW c \in Cancellers, CancellerStep(c)
      PROVE  Counts'
  BY <1>9 DEF CancellerStep, CancelPending, CancelProcessing, history, Counts
<1>10. CASE Quiet
  BY <1>10 DEF Quiet, queues, Counts
<1> QED
  BY QuietSteps, <1>1, <1>2, <1>3, <1>4, <1>5, <1>6, <1>7, <1>8, <1>9, <1>10
     DEF SubmitterStep, WorkerStep

\* A copy in the queue has attempts left, and knows of every earlier one.
AttemptsCounted ==
    /\ \A u \in priority_queue : u.retry_count = attempts[u.id] /\ u.retry_count <= MaxRetries
    /\ \A t \in Tasks : attempts[t] <= MaxRetries + 1

LEMMA AttemptsInductive == IInv /\ Counts /\ AttemptsCounted /\ [Next]_vars => AttemptsCounted'
<1> SUFFICES ASSUME IInv, Counts, AttemptsCounted, [Next]_vars PROVE AttemptsCounted'
  OBVIOUS
<1>0. Counts' /\ MaxRetries \in Nat /\ attempts \in [Tasks -> Nat]
      /\ priority_queue \subseteq ScheduledTask /\ priority_queue' \subseteq ScheduledTask
  BY CountsInductive, TypesInductive DEF IInv, Types
<1>1. ASSUME UNCHANGED attempts, \A u \in priority_queue' \ priority_queue : u.retry_count <= MaxRetries
      PROVE  AttemptsCounted'
  BY <1>0, <1>1 DEF AttemptsCounted, Counts
<1>2. ASSUME NEW s \in Submitters, SchedulePush(s) PROVE AttemptsCounted'
  <2> DEFINE record(at) == [id |-> sub[s].id, priority |-> sub[s].priority,
                            scheduled_at |-> at, retry_count |-> 0]
  <2>1. PICK at : priority_queue' = priority_queue \cup {record(at)}
    BY <1>2 DEF SchedulePush
  <2>2. record(at).retry_count = 0
    OBVIOUS
  <2> HIDE DEF record
  <2>3. UNCHANGED attempts
    BY <1>2 DEF SchedulePush
  <2> QED BY <1>0, <1>1, <2>1, <2>2, <2>3
<1>3. ASSUME NEW w \in Workers, GetNextTask(w) PROVE AttemptsCounted'
  <2>1. PICK t \in priority_queue : /\ priority_queue' = priority_queue \ {t}
                                    /\ attempts' = [attempts EXCEPT ![t.id] = @ + 1]
    BY <1>3 DEF GetNextTask
  <2>2. t.id \in Tasks /\ attempts[t.id] = t.retry_count /\ t.retry_count <= MaxRetries
        /\ t.retry_count \in Nat
    BY <1>0 DEF AttemptsCounted, ScheduledTask
  <2>3. attempts'[t.id] = t.retry_count + 1 /\ \A u \in Tasks : u # t.id => attempts'[u] = attempts[u]
    BY <1>0, <2>1, <2>2
  <2>4. \A u \in Tasks : attempts'[u] <= MaxRetries + 1
    BY <1>0, <2>2, <2>3 DEF AttemptsCounted
  <2>5. \A u \in priority_queue' : u.retry_count = attempts'[u.id] /\ u.retry_count <= MaxRetries
    BY <1>0, <2>1 DEF AttemptsCounted, Counts
  <2> QED BY <2>4, <2>5 DEF AttemptsCounted
<1>4. ASSUME NEW w \in Workers, RetryPush(w) PROVE AttemptsCounted'
  <2> DEFINE again == [wtask[w] EXCEPT !.scheduled_at = now + RetryDelay * wtask[w].retry_count]
  <2>1. wtask[w] \in ScheduledTask /\ wtask[w].retry_count <= MaxRetries
    BY <1>4 DEF RetryPush, IInv, Types, Busy
  <2>2. again.retry_count = wtask[w].retry_count
    BY <2>1 DEF ScheduledTask
  <2> HIDE DEF again
  <2>3. priority_queue' = priority_queue \cup {again} /\ UNCHANGED attempts
    BY <1>4 DEF RetryPush, again, history
  <2> QED BY <1>1, <2>1, <2>2, <2>3
<1>5. ASSUME NEW w \in Workers, WorkerStep(w), ~ GetNextTask(w), ~ RetryPush(w)
      PROVE  UNCHANGED <<priority_queue, attempts>>
  BY <1>5 DEF WorkerStep, StartAcquire, StartPush, CompleteRecord, CompleteRemove,
         RetryTake, RetryWith, queues, history
<1>6. ASSUME NEW c \in Cancellers, CancellerStep(c)
      PROVE  priority_queue' \subseteq priority_queue /\ UNCHANGED attempts
  BY <1>6 DEF CancellerStep, CancelPending, CancelProcessing, history
<1>7. ASSUME NEW s \in Submitters, SubmitterStep(s), ~ SchedulePush(s)
      PROVE  UNCHANGED <<priority_queue, attempts>>
  BY <1>7 DEF SubmitterStep, ScheduleCheck, queues, history
<1>8. Quiet => UNCHANGED <<priority_queue, attempts>>
  BY DEF Quiet, queues
<1> QED BY <1>1, <1>2, <1>3, <1>4, <1>5, <1>6, <1>7, <1>8, QuietSteps DEF IInv

\* The counter a task carries through the heap, its worker, the processing list and back
\* is the number of times it was taken, whatever cancellations and other workers do on
\* the way; so the check of retry_task bounds the attempts.
THEOREM AttemptsAreBounded == Spec => []AttemptsCounted
<1>1. Init => Counts /\ AttemptsCounted
  BY DEF Init, Counts, AttemptsCounted
<1> QED BY <1>1, CountsInductive, AttemptsInductive, IInvHolds, PTL DEF Spec
=============================================================================
