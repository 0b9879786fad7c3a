------------------------ MODULE ConcurrencyController ------------------------
(***************************************************************************)
(* queue/concurrency.rs: permits from a semaphore, and a list of active    *)
(* tasks whose resources must not add up to more than a limit.             *)
(*                                                                         *)
(* acquire_permit takes a permit, checks the limits under the read lock of *)
(* the list, gives the lock up, and pushes the task under the write lock:  *)
(* three steps.  A dropped permit leaves the task in the list; release or  *)
(* the clean-up of tasks past their timeout takes it out.                  *)
(*                                                                         *)
(* A controller may be cloned: the handles share the list, and the         *)
(* semaphore until one of them is adjusted, which gives it another.        *)
(*                                                                         *)
(* cpu, memory and network are checked alike: one load stands for them.    *)
(***************************************************************************)
EXTENDS Naturals, FiniteSets, FiniteSetsExt, Functions

CONSTANTS
    Tasks,
    Handles,     \* the controller and its clones
    None,        \* no handle
    Loads,       \* what a task may ask for, in per cent
    Limit,       \* 100.0 in the code
    Concurrency, \* the values max_concurrent_tasks is given
    MaxAdjusts   \* bound on the calls of adjust_concurrency_limits

ConcurrencyAssumption ==
    /\ IsFiniteSet(Tasks) /\ {Limit, MaxAdjusts} \subseteq Nat
    /\ IsFiniteSet(Handles) /\ Handles # {} /\ None \notin Handles
    /\ \A S \in {Loads, Concurrency} :
        S \subseteq Nat \ {0} /\ \E m \in S : \A n \in S : n <= m

VARIABLES
    active_tasks, \* registered tasks, with their load and whether timeout_at is past: each
                  \* at a place of its own, as the order of the list decides nothing
    semaphore,    \* per handle: its semaphore, a set of numbered permits
    task,         \* per task: where its caller is, with what load, which permit, and the
                  \* handle that its acquire_permit borrows
    adjusts,      \* calls of adjust_concurrency_limits so far
    most          \* history: the most permits the handles had between them

Out == [at |-> "out", load |-> 0, permit |-> 0, by |-> None]

AllPermits(f) == UNION {f[h] : h \in Handles}

Init ==
    /\ active_tasks = [i \in {} |-> Out]
    /\ \E n \in Concurrency : semaphore = [h \in Handles |-> 1 .. n]
    /\ task = [t \in Tasks |-> Out]
    /\ adjusts = 0
    /\ most = Cardinality(AllPermits(semaphore))

\* A sum of loads is a number of units of load.
Units(tasks) == {u \in (DOMAIN tasks) \X (1 .. Max(Loads)) : u[2] <= tasks[u[1]].load}

TotalLoad(tasks) == Cardinality(Units(tasks))

-----------------------------------------------------------------------------
\* acquire_permit

Available(h) == semaphore[h] \ {task[t].permit : t \in Tasks}

TakePermit(t, h, load) ==
    /\ task[t].at = "out"
    /\ Available(h) # {}
    /\ task' = [task EXCEPT ![t] = [at |-> "permit", load |-> load, by |-> h,
                                    permit |-> CHOOSE p \in Available(h) : TRUE]]
    /\ UNCHANGED <<active_tasks, semaphore, adjusts, most>>

\* Mutation: what the task itself asks for is left out.
FitsWithout(t) == TotalLoad(active_tasks) <= Limit

WithinLimits(t) == TotalLoad(active_tasks) + task[t].load <= Limit

CheckLimits(t) ==
    /\ task[t].at = "permit"
    /\ task' = [task EXCEPT ![t] = IF WithinLimits(t) THEN [@ EXCEPT !.at = "checked"] ELSE Out]
    /\ UNCHANGED <<active_tasks, semaphore, adjusts, most>>

Vacant == CHOOSE i \in 1 .. Cardinality(DOMAIN active_tasks) + 1 : i \notin DOMAIN active_tasks

Register(t) ==
    /\ task[t].at = "checked"
    /\ active_tasks' = [i \in DOMAIN active_tasks \cup {Vacant} |->
                          IF i = Vacant THEN [id |-> t, load |-> task[t].load, late |-> FALSE]
                          ELSE active_tasks[i]]
    /\ task' = [task EXCEPT ![t] = [@ EXCEPT !.at = "running", !.by = None]]
    /\ UNCHANGED <<semaphore, adjusts, most>>

-----------------------------------------------------------------------------
\* release_permit takes every entry of the id out, whoever registered it; it may
\* come before the permit is dropped, after it, or not at all.
ReleasePermit(t) ==
    /\ task[t].at \in {"running", "out"}
    /\ active_tasks' = Restrict(active_tasks, {i \in DOMAIN active_tasks : active_tasks[i].id # t})
    /\ UNCHANGED <<semaphore, task, adjusts, most>>

DropPermit(t) ==
    /\ task[t].at = "running"
    /\ task' = [task EXCEPT ![t] = Out]
    /\ UNCHANGED <<active_tasks, semaphore, adjusts, most>>

\* Time passes an entry's timeout_at.
TimeOut(i) ==
    /\ ~ active_tasks[i].late
    /\ active_tasks' = [active_tasks EXCEPT ![i].late = TRUE]
    /\ UNCHANGED <<semaphore, task, adjusts, most>>

\* cleanup_expired_tasks: whether the task still runs does not matter.
CleanupExpired ==
    /\ active_tasks' = Restrict(active_tasks, {i \in DOMAIN active_tasks : ~ active_tasks[i].late})
    /\ UNCHANGED <<semaphore, task, adjusts, most>>

\* adjust_concurrency_limits has its handle to itself (&mut self), but not the others,
\* which keep the semaphore they have.  The new one's permits are all new.
AdjustLimits(h, n) ==
    /\ \A t \in Tasks : task[t].by # h
    /\ adjusts < MaxAdjusts
    /\ adjusts' = adjusts + 1
    /\ semaphore' = [semaphore EXCEPT ![h] = {adjusts' * Max(Concurrency) + i : i \in 1 .. n}]
    /\ most' = Max({most, Cardinality(AllPermits(semaphore'))})
    /\ UNCHANGED <<active_tasks, task>>

Next ==
    \/ \E t \in Tasks :
          \/ \E h \in Handles, load \in Loads : TakePermit(t, h, load)
          \/ CheckLimits(t) \/ Register(t) \/ ReleasePermit(t) \/ DropPermit(t)
    \/ \E i \in DOMAIN active_tasks : TimeOut(i)
    \/ CleanupExpired
    \/ \E h \in Handles, n \in Concurrency : AdjustLimits(h, n)

-----------------------------------------------------------------------------
\* Properties

\* Every variable has its type.  A semaphore has one of its sizes, and hands a permit
\* to one caller at a time.
TypeOK ==
    /\ DOMAIN active_tasks \subseteq Nat
    /\ \A i \in DOMAIN active_tasks : active_tasks[i] \in [id : Tasks, load : Loads, late : BOOLEAN]
    /\ semaphore \in [Handles -> SUBSET Nat]
    /\ \A h \in Handles : Cardinality(semaphore[h]) \in Concurrency
    /\ task \in [Tasks -> [at : {"out", "permit", "checked", "running"}, permit : Nat,
                           load : Loads \cup {0}, by : Handles \cup {None}]]
    /\ \A s, t \in Tasks : task[s].permit = task[t].permit /\ s # t => task[s].at = "out"
    /\ {adjusts, most} \subseteq Nat

Checked == {t \in Tasks : task[t].at = "checked"}

\* Callers that have passed check_resource_limits but are not in the list yet do
\* not see each other.  Their race costs at most one load for each permit but one, of
\* all the semaphores that the handles ever had at one time: the list, and all that is
\* about to join it, never exceed the limit by more.
LoadBound ==
    TotalLoad(active_tasks) + TotalLoad([t \in Checked |-> task[t]])
        <= Limit + (most - 1) * Max(Loads)
=============================================================================
