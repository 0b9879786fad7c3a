------------------------ MODULE TaskLifecycle_proofs ------------------------
(***************************************************************************)
(* TaskScheduler implements TaskLifecycle: each critical section is, for   *)
(* one task at most, one transition of its life.                           *)
(***************************************************************************)
EXTENDS TaskScheduler_proofs

USE SchedulerAssumption

-----------------------------------------------------------------------------
\* What a task's phase is made of.

Waiting(t) == t \in Ids(priority_queue)
Live(t)    == t \in Ids(processing_queue) \/ \E w \in Workers : Holds(w, t)
Owned(t)   == \E w \in Workers : Owns(w, t)

LEMMA PhaseIs ==
  ASSUME NEW t
  PROVE  Phase(t) = IF Recorded(t) THEN "done"
                    ELSE IF Waiting(t) THEN "queued"
                    ELSE IF Live(t) THEN "taken"
                    ELSE IF Owned(t) THEN "revoked"
                    ELSE IF Dead(t) THEN "cancelled"
                    ELSE IF t \in accepted THEN "lost" ELSE "new"
  BY DEF Phase, Recorded, Waiting, Live, Owned, Dead, IsCancelled

LEMMA PhaseWillBe ==
  ASSUME NEW t
  PROVE  Phase(t)' = IF Recorded(t)' THEN "done"
                     ELSE IF Waiting(t)' THEN "queued"
                     ELSE IF Live(t)' THEN "taken"
                     ELSE IF Owned(t)' THEN "revoked"
                     ELSE IF Dead(t)' THEN "cancelled"
                     ELSE IF t \in accepted' THEN "lost" ELSE "new"
  BY DEF Phase, Recorded, Waiting, Live, Owned, Dead, IsCancelled

\* The step leaves the task where it is.
Untouched(t) ==
    /\ Recorded(t)' <=> Recorded(t)
    /\ Waiting(t)' <=> Waiting(t)
    /\ Live(t)' <=> Live(t)
    /\ Owned(t)' <=> Owned(t)
    /\ Dead(t)' <=> Dead(t)
    /\ t \in accepted' <=> t \in accepted

LEMMA PhaseStays ==
  ASSUME NEW t, Untouched(t)
  PROVE  Phase(t)' = Phase(t)
  BY PhaseIs, PhaseWillBe DEF Untouched

\* The transitions of one task.
Transition(t) ==
    \/ UNCHANGED attempts /\ Phase(t)' = Phase(t)
    \/ /\ UNCHANGED attempts
       /\ \/ Phase(t) = "new" /\ Phase(t)' = "queued"
          \/ Phase(t) = "taken" /\ Phase(t)' \in {"done", "revoked"}
          \/ Phase(t) = "queued" /\ Phase(t)' = "cancelled"
          \/ Phase(t) = "revoked" /\ Phase(t)' \in {"done", "cancelled"}
          \/ Phase(t) = "taken" /\ Phase(t)' = "queued" /\ attempts[t] <= MaxRetries
    \/ /\ attempts' = [attempts EXCEPT ![t] = @ + 1]
       /\ Phase(t) = "queued" /\ Phase(t)' = "taken"

LEMMA OneTransition ==
  ASSUME NEW t \in Tasks, Transition(t), \A u \in Tasks : u # t => Untouched(u)
  PROVE  [Lifecycle!Next]_(Lifecycle!vars)
<1> DEFINE phase == [u \in Tasks |-> Phase(u)]
<1>1. \A u \in Tasks : u # t => Phase(u)' = Phase(u)
  BY PhaseStays
<1>2. phase' = [phase EXCEPT ![t] = Phase(t)'] /\ phase[t] = Phase(t)
  BY <1>1
<1>3. CASE UNCHANGED attempts /\ Phase(t)' = Phase(t)
  BY <1>2, <1>3 DEF Lifecycle!vars
<1>4. CASE /\ UNCHANGED attempts
           /\ Phase(t) = "taken" /\ Phase(t)' = "queued" /\ attempts[t] <= MaxRetries
  <2>1. Lifecycle!Requeue(t)
    BY <1>2, <1>4 DEF Lifecycle!Requeue
  <2> QED BY <2>1 DEF Lifecycle!Next
<1>5. CASE /\ attempts' = [attempts EXCEPT ![t] = @ + 1]
           /\ Phase(t) = "queued" /\ Phase(t)' = "taken"
  <2>1. Lifecycle!Take(t)
    BY <1>2, <1>5 DEF Lifecycle!Take
  <2> QED BY <2>1 DEF Lifecycle!Next
<1>6. CASE /\ UNCHANGED attempts
           /\ \/ Phase(t) = "new" /\ Phase(t)' = "queued"
              \/ Phase(t) = "taken" /\ Phase(t)' \in {"done", "revoked"}
              \/ Phase(t) = "queued" /\ Phase(t)' = "cancelled"
              \/ Phase(t) = "revoked" /\ Phase(t)' \in {"done", "cancelled"}
  <2>1. Phase(t)' \in Lifecycle!Phases /\ <<phase[t], Phase(t)'>> \in Lifecycle!Moves
    BY <1>2, <1>6 DEF Lifecycle!Phases, Lifecycle!Moves
  <2>2. Lifecycle!Move(t)
    BY <1>2, <1>6, <2>1 DEF Lifecycle!Move
  <2> QED BY <2>2 DEF Lifecycle!Next
<1> QED BY <1>3, <1>4, <1>5, <1>6 DEF Transition

-----------------------------------------------------------------------------
\* Step by step.  First what IInv says of the task that a step is about.

LEMMA OwnedByOne ==
  ASSUME IInv, NEW w \in Workers, Busy(w), NEW t, t = wtask[w].id
  PROVE  /\ t \in Tasks /\ t \in accepted
         /\ ~ Waiting(t)
         /\ Owned(t)
         /\ \A v \in Workers : v # w => ~ Owns(v, t) /\ ~ Holds(v, t)
         /\ \A u \in processing_queue : u.id = t => u = wtask[w] /\ wpc[w] \in InProcess
         /\ Recorded(t) <=> wpc[w] \in {"succeeded", "failed", "completed"}
         /\ Dead(t) => ~ Live(t)
  BY DEF IInv, Types, Ownership, KnownAreAccepted, OneOwner, Busy, InProcess, Results,
         DeadStayDead, ScheduledTask, Waiting, Owned, Owns, Holds, Live, Ids

LEMMA WaitingAlone ==
  ASSUME IInv, NEW t, Waiting(t)
  PROVE  /\ t \in Tasks /\ t \in accepted
         /\ ~ Live(t) /\ ~ Owned(t) /\ ~ Recorded(t) /\ ~ Dead(t)
  BY DEF IInv, Types, Ownership, KnownAreAccepted, OneOwner, Busy, InProcess, Results,
         DeadStayDead, ScheduledTask, Waiting, Owned, Owns, Holds, Live, Ids

LEMMA UnknownNowhere ==
  ASSUME IInv, NEW t, t \notin accepted
  PROVE  ~ Recorded(t) /\ ~ Waiting(t) /\ ~ Live(t) /\ ~ Owned(t) /\ ~ Dead(t)
  BY DEF IInv, Ownership, KnownAreAccepted, OneOwner, Busy, InProcess, Recorded, Dead,
         Waiting, Owned, Owns, Holds, Live, Ids

LEMMA SubmitterImplements ==
  ASSUME IInv, NEW s \in Submitters, SubmitterStep(s)
  PROVE  [Lifecycle!Next]_(Lifecycle!vars)
<1>1. CASE \E t \in Tasks, p \in Weights : ScheduleCheck(s, t, p)
  <2>1. UNCHANGED <<queues, results, wpc, wtask, can, history>>
    BY <1>1 DEF ScheduleCheck
  <2>2. \A u \in Tasks : Untouched(u) /\ Phase(u)' = Phase(u)
    BY <2>1, PhaseStays
       DEF Untouched, queues, results, history, Recorded, Waiting, Live, Owned, Dead, Holds,
           Owns, Ids
  <2> QED BY <1>1, <2>1, <2>2, OneTransition DEF Transition, history
<1>2. CASE SchedulePush(s)
  <2>0. PICK t : t = sub[s].id
    OBVIOUS
  <2> DEFINE record(at) == [id |-> t, priority |-> sub[s].priority,
                            scheduled_at |-> at, retry_count |-> 0]
  <2>1. PICK at : priority_queue' = priority_queue \cup {record(at)}
    BY <1>2, <2>0 DEF SchedulePush
  <2>2. record(at).id = t
    OBVIOUS
  <2>3. t \in Tasks /\ t \notin accepted
    BY <1>2, <2>0 DEF SchedulePush, IInv, Types, NoSubmission, Ownership, SubmissionsAreFresh
  <2>4. /\ accepted' = accepted \cup {t}
        /\ UNCHANGED <<processing_queue, results, wpc, wtask, can, cancelled, cleared,
                       attempts>>
    BY <1>2, <2>0 DEF SchedulePush
  <2> HIDE DEF record
  <2>5. Ids(priority_queue') = Ids(priority_queue) \cup {t}
    BY <2>1, <2>2 DEF Ids
  <2>6. \A u \in Tasks : u # t => Untouched(u)
    BY <2>4, <2>5 DEF Untouched, results, Recorded, Waiting, Live, Owned, Dead, Holds, Owns
  <2>7. Phase(t) = "new"
    BY <2>3, UnknownNowhere, PhaseIs
  <2>8. Recorded(t)' <=> Recorded(t)
    BY <2>4 DEF results, Recorded
  <2>9. Phase(t)' = "queued"
    BY <2>3, <2>5, <2>8, UnknownNowhere, PhaseWillBe DEF Waiting
  <2> QED BY <2>3, <2>4, <2>6, <2>7, <2>9, OneTransition DEF Transition
<1> QED BY <1>1, <1>2 DEF SubmitterStep

LEMMA GetNextTaskImplements ==
  ASSUME IInv, NEW w \in Workers, GetNextTask(w)
  PROVE  [Lifecycle!Next]_(Lifecycle!vars)
<1>1. PICK x \in priority_queue :
         /\ priority_queue' = priority_queue \ {x}
         /\ wtask' = [wtask EXCEPT ![w] = x]
         /\ attempts' = [attempts EXCEPT ![x.id] = @ + 1]
  BY DEF GetNextTask
<1> DEFINE t == x.id
<1>2. /\ wpc[w] = "idle" /\ wpc' = [wpc EXCEPT ![w] = "popped"]
      /\ UNCHANGED <<processing_queue, results, can, accepted, cancelled, cleared>>
  BY DEF GetNextTask
<1>3. Waiting(t)
  BY DEF Waiting, Ids
<1>4. Ids(priority_queue') = Ids(priority_queue) \ {t}
  BY <1>1 DEF IInv, Ownership, OneOwner, Ids
<1>5. /\ wpc'[w] = "popped" /\ wtask'[w] = x
      /\ \A v \in Workers : v # w => wpc'[v] = wpc[v] /\ wtask'[v] = wtask[v]
  BY <1>1, <1>2 DEF IInv, Types
<1>6. \A u \in Tasks : u # t => Untouched(u)
  BY <1>2, <1>4, <1>5 DEF Untouched, results, Recorded, Waiting, Live, Owned, Dead, Holds, Owns
<1>7. Phase(t) = "queued"
  BY <1>3, WaitingAlone, PhaseIs
<1>8. Live(t)' /\ ~ Waiting(t)' /\ (Recorded(t)' <=> Recorded(t))
  BY <1>2, <1>4, <1>5 DEF Live, Holds, Waiting, Recorded, results
<1>9. Phase(t)' = "taken"
  BY <1>3, <1>8, WaitingAlone, PhaseWillBe
<1>10. Transition(t)
  BY <1>1, <1>7, <1>9 DEF Transition
<1> HIDE DEF t
<1> QED BY <1>3, <1>6, <1>10, WaitingAlone, OneTransition

LEMMA StartImplements ==
  ASSUME IInv, NEW w \in Workers, StartAcquire(w) \/ StartPush(w)
  PROVE  [Lifecycle!Next]_(Lifecycle!vars)
<1>1. PICK t : t = wtask[w].id
  OBVIOUS
<1>2. Busy(w) /\ wpc[w] \in {"popped", "starting"}
  BY DEF StartAcquire, StartPush, Busy
<1>3. /\ UNCHANGED <<priority_queue, results, wtask, can, history>>
      /\ processing_queue' \in {processing_queue, processing_queue \cup {wtask[w]}}
      /\ wpc'[w] \in {"starting", "running"}
      /\ \A v \in Workers : v # w => wpc'[v] = wpc[v]
      /\ wpc'[w] = "running" => processing_queue' = processing_queue \cup {wtask[w]}
  BY DEF StartAcquire, StartPush, queues, IInv, Types
<1>4. \A u \in Tasks : u # t => Untouched(u)
  BY <1>1, <1>2, <1>3
     DEF Untouched, results, history, Recorded, Waiting, Live, Owned, Dead, Holds, Owns, Ids
<1>5. Live(t) /\ Owned(t) /\ t \in Tasks
  BY <1>1, <1>2, OwnedByOne DEF Live, Holds
<1>6. Live(t)' /\ Owned(t)'
  BY <1>1, <1>3 DEF Live, Holds, Ids, Owned, Owns
<1>7. Untouched(t)
  BY <1>3, <1>5, <1>6 DEF Untouched, results, history, Recorded, Waiting, Dead
<1> QED
  BY <1>3, <1>4, <1>5, <1>7, PhaseStays, OneTransition DEF Transition, history

LEMMA CompleteImplements ==
  ASSUME IInv, NEW w \in Workers, NEW success \in BOOLEAN, CompleteRecord(w, success)
  PROVE  [Lifecycle!Next]_(Lifecycle!vars)
<1>1. PICK t : t = wtask[w].id
  OBVIOUS
<1>2. Busy(w) /\ wpc[w] \in {"popped", "running", "requeue"}
  BY DEF CompleteRecord, RetriesExceeded, Busy
<1>3. /\ UNCHANGED <<queues, wtask, can, history>>
      /\ (completed_tasks \cup failed_tasks)' = completed_tasks \cup failed_tasks \cup {t}
      /\ wpc'[w] \in {"succeeded", "failed"}
      /\ \A v \in Workers : v # w => wpc'[v] = wpc[v]
  BY <1>1 DEF CompleteRecord, IInv, Types
<1>4. \A u \in Tasks : u # t => Untouched(u)
  BY <1>1, <1>2, <1>3
     DEF Untouched, queues, history, Recorded, Waiting, Live, Owned, Dead, Holds, Owns, Busy
<1>5. /\ t \in Tasks /\ Owned(t) /\ ~ Waiting(t) /\ ~ Recorded(t)
  BY <1>1, <1>2, OwnedByOne
<1>6. Phase(t) \in {"taken", "revoked"}
  BY <1>5, PhaseIs
<1>7. Recorded(t)'
  BY <1>3 DEF Recorded
<1>8. Phase(t)' = "done"
  BY <1>7, PhaseWillBe
<1> QED BY <1>3, <1>4, <1>5, <1>6, <1>8, OneTransition DEF Transition, history

LEMMA RemoveImplements ==
  ASSUME IInv, NEW w \in Workers, CompleteRemove(w)
  PROVE  [Lifecycle!Next]_(Lifecycle!vars)
<1>1. PICK t : t = wtask[w].id
  OBVIOUS
<1>2. Busy(w) /\ wpc[w] \in {"succeeded", "failed"}
  BY DEF CompleteRemove, Busy
<1>3. /\ UNCHANGED <<priority_queue, results, can, history>>
      /\ processing_queue' = {u \in processing_queue : u.id # t}
      /\ wpc'[w] \in {"completed", "idle"}
      /\ wpc'[w] = "completed" => wtask'[w] = wtask[w]
      /\ \A v \in Workers : v # w => wpc'[v] = wpc[v] /\ wtask'[v] = wtask[v]
  BY <1>1 DEF CompleteRemove, IInv, Types
<1>4. \A u \in Tasks : u # t => Untouched(u)
  BY <1>1, <1>2, <1>3
     DEF Untouched, results, history, Recorded, Waiting, Live, Owned, Dead, Holds, Owns, Ids
<1>5. t \in Tasks /\ Recorded(t)
  BY <1>1, <1>2, OwnedByOne
<1>6. Recorded(t)'
  BY <1>3, <1>5 DEF Recorded, results, history
<1>7. Phase(t) = "done" /\ Phase(t)' = "done"
  BY <1>5, <1>6, PhaseIs, PhaseWillBe
<1> QED BY <1>3, <1>4, <1>5, <1>7, OneTransition DEF Transition, history

LEMMA RetryTakeImplements ==
  ASSUME IInv, NEW w \in Workers, RetryTake(w)
  PROVE  [Lifecycle!Next]_(Lifecycle!vars)
<1>1. PICK t : t = wtask[w].id
  OBVIOUS
<1>2. Busy(w) /\ wpc[w] \in {"running", "completed"}
  BY DEF RetryTake, Busy
<1>3. UNCHANGED <<priority_queue, results, can, history>>
  BY DEF RetryTake, RetryWith
<1>4. ASSUME NEW x \in processing_queue, x.id = t, processing_queue' = processing_queue \ {x},
             RetryWith(w, Counted(x))
      PROVE  [Lifecycle!Next]_(Lifecycle!vars)
  <2>1. x = wtask[w] /\ wpc[w] \in InProcess
    BY <1>1, <1>2, <1>4, OwnedByOne
  <2>2. Counted(x) \in ScheduledTask /\ Counted(x).id = t
    BY <1>4 DEF IInv, Types, Counted, ScheduledTask
  <2>3. /\ wpc'[w] = "requeue" /\ wtask'[w].id = t
        /\ \A v \in Workers : v # w => wpc'[v] = wpc[v] /\ wtask'[v] = wtask[v]
    BY <1>4, <2>2 DEF RetryWith, IInv, Types
  <2>4. \A u \in Tasks : u # t => Untouched(u)
    BY <1>1, <1>2, <1>3, <1>4, <2>3
       DEF Untouched, results, history, Recorded, Waiting, Live, Owned, Dead, Holds, Owns, Ids
  <2>5. Live(t) /\ Owned(t) /\ t \in Tasks
    BY <1>1, <1>2, <1>4, OwnedByOne DEF Live, Ids
  <2>6. Live(t)' /\ Owned(t)'
    BY <2>3 DEF Live, Holds, Owned, Owns
  <2>7. Untouched(t)
    BY <1>3, <2>5, <2>6 DEF Untouched, results, history, Recorded, Waiting, Dead
  <2> QED
    BY <1>3, <2>4, <2>5, <2>7, PhaseStays, OneTransition DEF Transition, history
<1>5. CASE t \notin Ids(processing_queue) /\ UNCHANGED processing_queue /\ RetryWith(w, None)
  <2>1. /\ wpc'[w] = "idle"
        /\ \A v \in Workers : v # w => wpc'[v] = wpc[v] /\ wtask'[v] = wtask[v]
    BY <1>5 DEF RetryWith, IInv, Types
  <2>2. \A u \in Tasks : u # t => Untouched(u)
    BY <1>1, <1>2, <1>3, <1>5, <2>1
       DEF Untouched, results, history, Recorded, Waiting, Live, Owned, Dead, Holds, Owns, Ids
  <2>3. /\ t \in Tasks /\ Owned(t) /\ ~ Waiting(t)
        /\ \A v \in Workers : v # w => ~ Owns(v, t) /\ ~ Holds(v, t)
    BY <1>1, <1>2, OwnedByOne
  <2>4. ~ Live(t) /\ ~ Live(t)' /\ ~ Owned(t)'
    BY <1>1, <1>2, <1>5, <2>1, <2>3 DEF Live, Holds, Owned, Owns, Ids
  <2>5. /\ Recorded(t)' <=> Recorded(t)
        /\ Dead(t)' <=> Dead(t)
        /\ ~ Waiting(t)'
    BY <1>3, <2>3 DEF results, history, Recorded, Dead, Waiting
  <2>6. CASE wpc[w] = "completed"
    <3>1. Recorded(t)
      BY <1>1, <1>2, <2>6, OwnedByOne
    <3>2. Phase(t) = "done" /\ Phase(t)' = "done"
      BY <2>5, <3>1, PhaseIs, PhaseWillBe
    <3> QED BY <1>3, <2>2, <2>3, <3>2, OneTransition DEF Transition, history
  <2>7. CASE wpc[w] = "running"
    <3>1. ~ Recorded(t)
      BY <1>1, <1>2, <2>7, OwnedByOne
    <3>2. Dead(t)
      BY <1>1, <1>5, <2>7 DEF IInv, Results, Ids, Dead
    <3>3. Phase(t) = "revoked" /\ Phase(t)' = "cancelled"
      BY <2>3, <2>4, <2>5, <3>1, <3>2, PhaseIs, PhaseWillBe
    <3> QED BY <1>3, <2>2, <2>3, <3>3, OneTransition DEF Transition, history
  <2> QED BY <1>2, <2>6, <2>7
<1> QED BY <1>1, <1>4, <1>5 DEF RetryTake

LEMMA RetryPushImplements ==
  ASSUME IInv, Counts, NEW w \in Workers, RetryPush(w)
  PROVE  [Lifecycle!Next]_(Lifecycle!vars)
<1> DEFINE again == [wtask[w] EXCEPT !.scheduled_at = now + RetryDelay * wtask[w].retry_count]
<1>1. PICK t : t = wtask[w].id
  OBVIOUS
<1>2. Busy(w) /\ wpc[w] = "requeue"
  BY DEF RetryPush, Busy
<1>3. again.id = t
  BY <1>1, <1>2 DEF IInv, Types, ScheduledTask
<1> HIDE DEF again
<1>4. priority_queue' = priority_queue \cup {again}
  BY DEF RetryPush, again
<1>5. Ids(priority_queue') = Ids(priority_queue) \cup {t}
  BY <1>3, <1>4 DEF Ids
<1>6. /\ UNCHANGED <<processing_queue, results, can, history>>
      /\ wpc'[w] = "idle"
      /\ \A v \in Workers : v # w => wpc'[v] = wpc[v] /\ wtask'[v] = wtask[v]
  BY DEF RetryPush, IInv, Types
<1>7. \A u \in Tasks : u # t => Untouched(u)
  BY <1>1, <1>2, <1>5, <1>6
     DEF Untouched, results, history, Recorded, Waiting, Live, Owned, Dead, Holds, Owns
<1>8. t \in Tasks /\ ~ Recorded(t) /\ ~ Waiting(t)
  BY <1>1, <1>2, OwnedByOne
<1>9. Live(t)
  BY <1>1, <1>2 DEF Live, Holds
<1>10. ~ Recorded(t)' /\ Waiting(t)'
  BY <1>5, <1>6, <1>8 DEF Recorded, Waiting, results, history
<1>11. Phase(t) = "taken" /\ Phase(t)' = "queued"
  BY <1>8, <1>9, <1>10, PhaseIs, PhaseWillBe
<1>12. attempts[t] <= MaxRetries
  BY <1>1, <1>2 DEF RetryPush, Counts
<1> QED BY <1>6, <1>7, <1>8, <1>11, <1>12, OneTransition DEF Transition, history

LEMMA CancelPendingImplements ==
  ASSUME IInv, NEW c \in Cancellers, NEW t \in Tasks, CancelPending(c, t)
  PROVE  [Lifecycle!Next]_(Lifecycle!vars)
<1>1. /\ can[c] = NoCancel
      /\ can' = [can EXCEPT ![c] = [id |-> t, hit |-> t \in Ids(priority_queue)]]
      /\ priority_queue' = {u \in priority_queue : u.id # t}
      /\ UNCHANGED <<processing_queue, results, wpc, wtask, history>>
  BY DEF CancelPending
<1>2. Ids(priority_queue') = Ids(priority_queue) \ {t}
  BY <1>1 DEF Ids
<1>3. \A b \in Cancellers : b # c => can'[b] = can[b]
  BY <1>1 DEF IInv, Types
<1>4. NoCancel.hit = FALSE /\ \A u \in Tasks : [id |-> u, hit |-> TRUE] # NoCancel
  <2>1. NoCancel.hit = FALSE
    BY DEF NoCancel
  <2> QED BY <2>1
<1>5. \A u \in Tasks : u # t => (can'[c] # [id |-> u, hit |-> TRUE])
  <2>1. can'[c].id = t
    BY <1>1 DEF IInv, Types
  <2> QED BY <2>1
<1>6. \A u \in Tasks : u # t => Untouched(u)
  BY <1>1, <1>2, <1>3, <1>4, <1>5
     DEF Untouched, results, history, Recorded, Waiting, Live, Owned, Dead, Holds, Owns
<1>7. /\ Recorded(t)' <=> Recorded(t)
      /\ Live(t)' <=> Live(t)
      /\ Owned(t)' <=> Owned(t)
      /\ ~ Waiting(t)'
  BY <1>1, <1>2 DEF Recorded, Live, Owned, Waiting, Holds, Owns, results, history
<1>8. CASE Waiting(t)
  <2>1. Phase(t) = "queued"
    BY <1>8, WaitingAlone, PhaseIs
  <2>2. can'[c] = [id |-> t, hit |-> TRUE]
    <3>1. can'[c] = [id |-> t, hit |-> t \in Ids(priority_queue)]
      BY <1>1 DEF IInv, Types
    <3>2. (t \in Ids(priority_queue)) = TRUE
      BY <1>8 DEF Waiting, Ids
    <3> QED BY <3>1, <3>2
  <2>3. Dead(t)'
    BY <2>2 DEF Dead
  <2>4. Phase(t)' = "cancelled"
    BY <1>7, <1>8, <2>3, WaitingAlone, PhaseWillBe
  <2> QED BY <1>1, <1>6, <2>1, <2>4, OneTransition DEF Transition, history
<1>9. CASE ~ Waiting(t)
  <2>1. can'[c].hit = FALSE
    <3> DEFINE found == t \in Ids(priority_queue)
    <3>1. can'[c] = [id |-> t, hit |-> found]
      BY <1>1 DEF IInv, Types
    <3>2. found = FALSE
      BY <1>9 DEF Waiting, Ids
    <3> HIDE DEF found
    <3> QED BY <3>1, <3>2
  <2>2. Dead(t)' <=> Dead(t)
    <3>1. can'[c] # [id |-> t, hit |-> TRUE] /\ can[c] # [id |-> t, hit |-> TRUE]
      BY <1>1, <1>4, <2>1
    <3> QED BY <1>1, <1>3, <3>1 DEF Dead, history
  <2>3. Untouched(t)
    BY <1>1, <1>7, <1>9, <2>2 DEF Untouched, history
  <2> QED BY <1>1, <1>6, <2>3, PhaseStays, OneTransition DEF Transition, history
<1> QED BY <1>8, <1>9

LEMMA CancelProcessingImplements ==
  ASSUME IInv, NEW c \in Cancellers, CancelProcessing(c)
  PROVE  [Lifecycle!Next]_(Lifecycle!vars)
<1>1. PICK t : t = can[c].id
  OBVIOUS
<1>2. /\ t \in Tasks /\ can[c] \in [id : Tasks, hit : BOOLEAN]
      /\ processing_queue' = {u \in processing_queue : u.id # t}
      /\ cancelled' = IF can[c].hit \/ t \in Ids(processing_queue)
                      THEN cancelled \cup {t} ELSE cancelled
      /\ can' = [can EXCEPT ![c] = NoCancel]
      /\ UNCHANGED <<priority_queue, results, wpc, wtask, accepted, cleared, attempts>>
  BY <1>1 DEF CancelProcessing, IInv, Types, NoCancel
<1>3. can'[c] = NoCancel /\ \A b \in Cancellers : b # c => can'[b] = can[b]
  BY <1>2 DEF IInv, Types
<1>4. \A u \in Tasks : [id |-> u, hit |-> TRUE] # NoCancel
  <2>1. NoCancel.hit = FALSE
    BY DEF NoCancel
  <2> QED BY <2>1
<1>5. \A u \in Tasks : u # t => can[c] # [id |-> u, hit |-> TRUE]
  BY <1>1
<1>6. Ids(processing_queue') = Ids(processing_queue) \ {t}
  BY <1>2 DEF Ids
<1>7. \A u \in Tasks : u # t => Untouched(u)
  BY <1>2, <1>3, <1>4, <1>5, <1>6
     DEF Untouched, results, Recorded, Waiting, Live, Owned, Dead, Holds, Owns
<1>8. /\ Recorded(t)' <=> Recorded(t)
      /\ Waiting(t)' <=> Waiting(t)
      /\ Owned(t)' <=> Owned(t)
  BY <1>2 DEF Recorded, Waiting, Owned, Owns, results, Ids
<1>9. CASE t \in Ids(processing_queue)
  <2>1. PICK w \in Workers : Busy(w) /\ wtask[w].id = t /\ wpc[w] \in InProcess
    BY <1>9 DEF IInv, Ownership, OneOwner, Ids, InProcess, Busy
  <2>2. /\ ~ Waiting(t) /\ Owned(t) /\ Live(t)
        /\ \A v \in Workers : ~ Holds(v, t)
    BY <1>9, <2>1, OwnedByOne DEF Live, Holds, InProcess
  <2>3. ~ Live(t)'
    BY <1>2, <1>6, <2>2 DEF Live, Holds
  <2>4. \/ Phase(t) = "done" /\ Phase(t)' = "done"
        \/ Phase(t) = "taken" /\ Phase(t)' = "revoked"
    BY <1>8, <2>2, <2>3, PhaseIs, PhaseWillBe
  <2> QED BY <1>2, <1>7, <2>4, OneTransition DEF Transition
<1>10. CASE t \notin Ids(processing_queue)
  <2>1. Live(t)' <=> Live(t)
    BY <1>2, <1>6, <1>10 DEF Live, Holds
  <2>2. Dead(t)' <=> Dead(t)
    <3>1. CASE can[c].hit
      <4>1. can[c] = [id |-> t, hit |-> TRUE]
        BY <1>1, <1>2, <3>1
      <4> QED BY <1>2, <3>1, <4>1 DEF Dead
    <3>2. CASE ~ can[c].hit
      <4>1. can[c] # [id |-> t, hit |-> TRUE] /\ cancelled' = cancelled
        BY <1>2, <1>10, <3>2
      <4> QED BY <1>2, <1>3, <1>4, <4>1 DEF Dead
    <3> QED BY <3>1, <3>2
  <2>3. Untouched(t)
    BY <1>2, <1>8, <2>1, <2>2 DEF Untouched
  <2> QED BY <1>2, <1>7, <2>3, PhaseStays, OneTransition DEF Transition
<1> QED BY <1>9, <1>10

LEMMA QuietImplements ==
  ASSUME Quiet
  PROVE  [Lifecycle!Next]_(Lifecycle!vars)
<1>1. \A u \in Tasks : Untouched(u)
  BY DEF Quiet, queues, Untouched, Recorded, Waiting, Live, Owned, Dead, Holds, Owns
<1>2. \A u \in Tasks : Phase(u)' = Phase(u)
  BY <1>1, PhaseStays
<1> QED BY <1>2 DEF Quiet, Lifecycle!vars

-----------------------------------------------------------------------------

LEMMA StepImplements ==
  IInv /\ Counts /\ [Next]_vars => [Lifecycle!Next]_(Lifecycle!vars)
<1> SUFFICES ASSUME IInv, Counts, [Next]_vars
             PROVE  [Lifecycle!Next]_(Lifecycle!vars)
  OBVIOUS
<1>1. ASSUME NEW w \in Workers, WorkerStep(w)
      PROVE  [Lifecycle!Next]_(Lifecycle!vars)
  BY <1>1, GetNextTaskImplements, StartImplements, CompleteImplements, RemoveImplements,
     RetryTakeImplements, RetryPushImplements DEF WorkerStep
<1>2. ASSUME NEW c \in Cancellers, CancellerStep(c)
      PROVE  [Lifecycle!Next]_(Lifecycle!vars)
  BY <1>2, CancelPendingImplements, CancelProcessingImplements DEF CancellerStep
<1> QED BY QuietSteps, SubmitterImplements, <1>1, <1>2, QuietImplements DEF IInv

\* The scheduler implements the life of a task: whatever its users interleave, each
\* task is taken at most MaxRetries + 1 times, by one of them at a time, and a task
\* that is done or cancelled is never taken again.
THEOREM SchedulerImplementsLifecycle == Spec => LifecycleSpec
<1>1. Init => Lifecycle!Init
  BY DEF Init, Lifecycle!Init, Phase, Ids, Holds, Owns, IsCancelled, NoCancel
<1>2. Init => Counts
  BY DEF Init, Counts
<1>3. Spec => []Counts
  BY <1>2, CountsInductive, IInvHolds, PTL DEF Spec
<1> QED
  BY <1>1, <1>3, StepImplements, IInvHolds, PTL DEF Spec, LifecycleSpec, Lifecycle!Spec
=============================================================================
