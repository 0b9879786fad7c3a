------------------------ MODULE SupportStores_proofs ------------------------
(***************************************************************************)
(* Theorems about two of the supporting components, those whose callers    *)
(* race on a store: the concurrency controller and the cache.              *)
(***************************************************************************)
EXTENDS Support, FiniteSetTheorems, TLAPS

-----------------------------------------------------------------------------
\* ConcurrencyController: sums of loads, as numbers of units

MaxLoad    == Permits!Max(Loads)
MaxPermits == Permits!Max(Concurrency)

\* What TotalLoad is asked of: finitely many things with a load each.
IsLoaded(f) ==
    /\ f = [i \in DOMAIN f |-> f[i]]
    /\ IsFiniteSet(DOMAIN f)
    /\ \A i \in DOMAIN f : f[i].load \in Loads

LEMMA CountIsCardinality ==
    /\ \A S : Permits!Cardinality(S) = Cardinality(S) /\ Cache!Cardinality(S) = Cardinality(S)
    /\ \A S : Permits!IsFiniteSet(S) <=> IsFiniteSet(S)
BY DEF Permits!Cardinality, Cache!Cardinality, Cardinality, Permits!IsFiniteSet, IsFiniteSet

LEMMA PermitConstants ==
    ASSUME SupportAssumption
    PROVE  /\ IsFiniteSet(Tasks) /\ Limit \in Nat
           /\ IsFiniteSet(Handles) /\ Handles # {} /\ None \notin Handles
           /\ Loads \subseteq Nat \ {0} /\ MaxLoad \in Nat \ {0}
           /\ \A n \in Loads : n <= MaxLoad
           /\ Concurrency \subseteq Nat \ {0} /\ MaxPermits \in Nat \ {0}
<1>1. /\ IsFiniteSet(Tasks) /\ Limit \in Nat
      /\ IsFiniteSet(Handles) /\ Handles # {} /\ None \notin Handles
      /\ \A S \in {Loads, Concurrency} :
            S \subseteq Nat \ {0} /\ \E m \in S : \A n \in S : n <= m
  BY CountIsCardinality DEF SupportAssumption, Permits!ConcurrencyAssumption
<1>2. ASSUME NEW S \in {Loads, Concurrency}
      PROVE  Permits!Max(S) \in S /\ \A n \in S : n <= Permits!Max(S)
  <2>1. S \subseteq Nat
    BY <1>1
  <2>2. PICK m \in S : \A n \in S : n <= m
    BY <1>1
  <2>3. m \in S /\ \A n \in S : m >= n
    BY <2>1, <2>2
  <2>4. Permits!Max(S) \in S /\ \A n \in S : Permits!Max(S) >= n
    BY <2>3 DEF Permits!Max
  <2> QED
    BY <2>1, <2>4
<1> QED
  BY <1>1, <1>2 DEF MaxLoad, MaxPermits

LEMMA TotalType ==
    ASSUME SupportAssumption, NEW f, IsLoaded(f)
    PROVE  /\ IsFiniteSet(Permits!Units(f)) /\ Permits!TotalLoad(f) \in Nat
           /\ Permits!TotalLoad(f) = Cardinality(Permits!Units(f))
           /\ Permits!TotalLoad(f) <= Cardinality(DOMAIN f) * MaxLoad
           /\ Cardinality(DOMAIN f) \in Nat
<1> DEFINE all == (DOMAIN f) \X (1 .. MaxLoad)
<1>1. MaxLoad \in Nat \ {0}
  BY PermitConstants
<1>2. IsFiniteSet(1 .. MaxLoad) /\ Cardinality(1 .. MaxLoad) = MaxLoad
  BY <1>1, FS_Interval
<1>3. IsFiniteSet(all) /\ Cardinality(all) = Cardinality(DOMAIN f) * MaxLoad
  BY <1>2, FS_Product DEF IsLoaded
<1>4. Permits!Units(f) \in SUBSET all
  BY DEF Permits!Units, MaxLoad
<1>5. IsFiniteSet(Permits!Units(f))
      /\ Cardinality(Permits!Units(f)) <= Cardinality(DOMAIN f) * MaxLoad
  BY <1>3, <1>4, FS_Subset
<1>6. Permits!TotalLoad(f) = Cardinality(Permits!Units(f))
  BY CountIsCardinality DEF Permits!TotalLoad
<1>7. Cardinality(Permits!Units(f)) \in Nat /\ Cardinality(DOMAIN f) \in Nat
  BY <1>5, FS_CardinalityType DEF IsLoaded
<1> QED
  BY <1>5, <1>6, <1>7

\* A sum over more is greater.
LEMMA TotalGrows ==
    ASSUME SupportAssumption, NEW f, NEW g, IsLoaded(f), IsLoaded(g),
           DOMAIN f \subseteq DOMAIN g, \A i \in DOMAIN f : f[i].load = g[i].load
    PROVE  /\ Permits!TotalLoad(f) <= Permits!TotalLoad(g)
           /\ DOMAIN f = DOMAIN g => Permits!TotalLoad(f) = Permits!TotalLoad(g)
<1>1. Permits!Units(f) \in SUBSET Permits!Units(g)
  BY DEF Permits!Units
<1>2. DOMAIN f = DOMAIN g => Permits!Units(f) = Permits!Units(g)
  BY DEF Permits!Units
<1>3. Cardinality(Permits!Units(f)) <= Cardinality(Permits!Units(g))
  BY <1>1, TotalType, FS_Subset
<1> QED
  BY <1>2, <1>3, TotalType

LEMMA Column ==
    ASSUME NEW x, NEW l \in Nat
    PROVE  IsFiniteSet({x} \X (1 .. l)) /\ Cardinality({x} \X (1 .. l)) = l
<1>1. IsFiniteSet(1 .. l) /\ Cardinality(1 .. l) = l
  <2>1. 1 \in Int /\ l \in Int
    OBVIOUS
  <2>2. IsFiniteSet(1 .. l) /\ Cardinality(1 .. l) = IF 1 > l THEN 0 ELSE l - 1 + 1
    BY <2>1, FS_Interval
  <2> QED
    BY <2>2
<1>2. IsFiniteSet({x}) /\ Cardinality({x}) = 1
  BY FS_Singleton
<1>3. IsFiniteSet({x} \X (1 .. l)) /\ Cardinality({x} \X (1 .. l)) = 1 * l
  <2>1. \A c : c = Cardinality({x}) * Cardinality(1 .. l) => c = 1 * l
    BY <1>1, <1>2
  <2> QED
    BY <1>1, <1>2, <2>1, FS_Product
<1> QED
  BY <1>3

\* A sum over one more is greater by its load.
LEMMA TotalPlusOne ==
    ASSUME SupportAssumption, NEW f, NEW g, NEW x, IsLoaded(f), IsLoaded(g),
           x \notin DOMAIN f, DOMAIN g = DOMAIN f \cup {x},
           \A i \in DOMAIN f : f[i].load = g[i].load
    PROVE  Permits!TotalLoad(g) = Permits!TotalLoad(f) + g[x].load
<1> DEFINE l == g[x].load
           more == {x} \X (1 .. l)
<1>1. l \in Nat \ {0} /\ l <= MaxLoad /\ MaxLoad \in Nat
  BY PermitConstants DEF IsLoaded
<1>4. IsFiniteSet(more) /\ Cardinality(more) = l
  <2> HIDE DEF l
  <2> QED
    BY <1>1, Column
<1>5. Permits!Units(g) = Permits!Units(f) \cup more
  <2>1. \A n \in 1 .. MaxLoad : n <= l <=> n \in 1 .. l
    BY <1>1
  <2>2. 1 .. l \subseteq 1 .. MaxLoad
    BY <1>1
  <2> HIDE DEF l
  <2>3. \A u : u \in Permits!Units(g) <=> u \in (DOMAIN g) \X (1 .. MaxLoad) /\ u[2] <= g[u[1]].load
    BY DEF Permits!Units, MaxLoad
  <2>4. \A u : u \in Permits!Units(f) <=> u \in (DOMAIN f) \X (1 .. MaxLoad) /\ u[2] <= f[u[1]].load
    BY DEF Permits!Units, MaxLoad
  <2>5. \A u : u \in more <=> u \in {x} \X (1 .. MaxLoad) /\ u[2] <= l
    BY <2>1, <2>2
  <2>6. \A u \in {x} \X (1 .. MaxLoad) : g[u[1]].load = l
    BY DEF l
  <2> HIDE DEF more
  <2> QED
    BY <2>3, <2>4, <2>5, <2>6
<1>6. Permits!Units(f) \cap more = {}
  BY DEF Permits!Units
<1> HIDE DEF more, l
<1>7. Cardinality(Permits!Units(g)) = Cardinality(Permits!Units(f)) + Cardinality(more)
  <2> DEFINE old == Permits!Units(f)
  <2>1. IsFiniteSet(old) /\ Cardinality(old) \in Nat
    BY TotalType, FS_CardinalityType
  <2>2. Cardinality(more) \in Nat
    BY <1>1, <1>4
  <2>3. Cardinality(old \cap more) = 0
    BY <1>6, FS_EmptySet
  <2> HIDE DEF old
  <2>4. Cardinality(old \cup more) = Cardinality(old) + Cardinality(more) - Cardinality(old \cap more)
    BY <1>4, <2>1, FS_Union
  <2> QED
    BY <1>5, <2>1, <2>2, <2>3, <2>4 DEF old
<1> QED
  BY <1>4, <1>7, TotalType DEF l

-----------------------------------------------------------------------------
\* ConcurrencyController: the invariant

\* The callers past the check, by what task says of them.
Joining(tk) == [t \in {t \in Tasks : tk[t].at = "checked"} |-> tk[t]]

TaskRecord == [at : {"out", "permit", "checked", "running"}, permit : Nat,
               load : Loads \cup {0}, by : Handles \cup {None}]

Entry == [id : Tasks, load : Loads, late : BOOLEAN]

ListTypes ==
    /\ DOMAIN active_tasks \subseteq Nat /\ IsLoaded(active_tasks)
    /\ \A i \in DOMAIN active_tasks : active_tasks[i] \in Entry

SemaphoreTypes ==
    /\ semaphore \in [Handles -> SUBSET (Nat \ {0})]
    /\ \A h \in Handles : IsFiniteSet(semaphore[h]) /\ Cardinality(semaphore[h]) \in Concurrency
    /\ adjusts \in Nat /\ most \in Nat \ {0}
    /\ IsFiniteSet(Permits!AllPermits(semaphore))
    /\ Cardinality(Permits!AllPermits(semaphore)) <= most

\* Where a caller may be with what: until it runs, its permit is one of the semaphore
\* of the handle it borrows.
IsTask(tr) ==
    /\ tr \in TaskRecord
    /\ tr.at = "out" => tr = Permits!Out
    /\ tr.at # "out" => tr.load \in Loads /\ tr.permit # 0
    /\ tr.at \in {"permit", "checked"} => tr.by \in Handles /\ tr.permit \in semaphore[tr.by]

Apart(s, t) == s.at # "out" /\ t.at # "out" => s.permit # t.permit

TaskTypes ==
    /\ task = [t \in Tasks |-> task[t]]
    /\ \A t \in Tasks : IsTask(task[t])
    /\ \A s, t \in Tasks : s # t => Apart(task[s], task[t])

PermitTypes == ListTypes /\ SemaphoreTypes /\ TaskTypes

Overload == Permits!TotalLoad(active_tasks) + Permits!TotalLoad(Joining(task))

PermitsInv == PermitTypes /\ Overload <= Limit + (most - 1) * MaxLoad

\* Room for the races of n permits.
LEMMA RoomGrows ==
    ASSUME SupportAssumption, NEW m \in Nat \ {0}, NEW n \in Nat \ {0}, m <= n
    PROVE  /\ Limit + (m - 1) * MaxLoad \in Nat
           /\ Limit + (m - 1) * MaxLoad <= Limit + (n - 1) * MaxLoad
<1>1. m - 1 \in Nat /\ n - 1 \in Nat /\ m - 1 <= n - 1 /\ MaxLoad \in Nat /\ Limit \in Nat
  BY PermitConstants
<1>2. \A i, j, k \in Nat : i * k \in Nat /\ (i <= j => i * k <= j * k)
  OBVIOUS
<1>3. /\ (m - 1) * MaxLoad \in Nat /\ (n - 1) * MaxLoad \in Nat
      /\ (m - 1) * MaxLoad <= (n - 1) * MaxLoad
  BY <1>1, <1>2
<1> HIDE <1>2
<1> QED
  BY <1>1, <1>3

LEMMA JoiningIsLoaded ==
    ASSUME SupportAssumption, NEW tk, \A t \in Tasks : tk[t].at = "checked" => tk[t].load \in Loads
    PROVE  IsLoaded(Joining(tk)) /\ DOMAIN Joining(tk) = {t \in Tasks : tk[t].at = "checked"}
<1>1. IsFiniteSet({t \in Tasks : tk[t].at = "checked"})
  BY PermitConstants, FS_Subset
<1> QED
  BY <1>1 DEF IsLoaded, Joining

\* The permits of all handles are finitely many, and at least one.
LEMMA AllPermitsCounted ==
    ASSUME SupportAssumption, NEW f \in [Handles -> SUBSET (Nat \ {0})],
           \A h \in Handles : IsFiniteSet(f[h]) /\ Cardinality(f[h]) \in Concurrency
    PROVE  /\ IsFiniteSet(Permits!AllPermits(f))
           /\ Cardinality(Permits!AllPermits(f)) \in Nat \ {0}
           /\ Permits!Cardinality(Permits!AllPermits(f)) = Cardinality(Permits!AllPermits(f))
<1>1. IsFiniteSet(Handles) /\ Handles # {} /\ Concurrency \subseteq Nat \ {0}
  BY PermitConstants
<1>2. IsFiniteSet({f[h] : h \in Handles})
  <2> DEFINE R == {f[h] : h \in Handles}
  <2>1. f \in Surjection(Handles, R)
    BY DEF Surjection
  <2> HIDE DEF R
  <2> QED
    BY <1>1, <2>1, FS_Surjection DEF R
<1>3. IsFiniteSet(UNION {f[h] : h \in Handles})
  BY <1>2, FS_UNION
<1>4. PICK h \in Handles : TRUE
  BY <1>1
<1>5. f[h] # {}
  BY <1>1, FS_EmptySet
<1>6. UNION {f[i] : i \in Handles} # {}
  BY <1>5
<1>7. \A S : IsFiniteSet(S) /\ S # {} => Cardinality(S) \in Nat \ {0}
  BY FS_CardinalityType, FS_EmptySet
<1> QED
  BY <1>3, <1>6, <1>7, CountIsCardinality DEF Permits!AllPermits

\* A new semaphore of n permits.
LEMMA NewPermits ==
    ASSUME NEW k \in Nat, NEW n \in Nat
    PROVE  /\ {k + i : i \in 1 .. n} \in SUBSET (Nat \ {0})
           /\ IsFiniteSet({k + i : i \in 1 .. n}) /\ Cardinality({k + i : i \in 1 .. n}) = n
<1>1. {k + i : i \in 1 .. n} = (k + 1) .. (k + n)
  <2>1. \A j \in (k + 1) .. (k + n) : j - k \in 1 .. n /\ j = k + (j - k)
    OBVIOUS
  <2>2. \A i \in 1 .. n : k + i \in (k + 1) .. (k + n)
    OBVIOUS
  <2> QED
    BY <2>1, <2>2
<1>2. k + 1 \in Int /\ k + n \in Int /\ (k + 1 > k + n => n = 0)
      /\ (~ k + 1 > k + n => (k + n) - (k + 1) + 1 = n)
  OBVIOUS
<1>3. IsFiniteSet((k + 1) .. (k + n)) /\ Cardinality((k + 1) .. (k + n)) = n
  BY <1>2, FS_Interval
<1>4. (k + 1) .. (k + n) \in SUBSET (Nat \ {0})
  OBVIOUS
<1> QED
  BY <1>1, <1>3, <1>4

LEMMA PermitsStart == SupportAssumption /\ Permits!Init => PermitsInv
<1> SUFFICES ASSUME SupportAssumption, Permits!Init PROVE PermitsInv
  OBVIOUS
<1> USE DEF Permits!Init
<1>1. ListTypes /\ DOMAIN active_tasks = {}
  BY FS_EmptySet DEF ListTypes, IsLoaded
<1>2. SemaphoreTypes
  <2>1. PICK n \in Concurrency : semaphore = [h \in Handles |-> 1 .. n]
    OBVIOUS
  <2>2. n \in Nat \ {0}
    BY PermitConstants
  <2>3. 1 .. n \in SUBSET (Nat \ {0}) /\ IsFiniteSet(1 .. n) /\ Cardinality(1 .. n) = n
    <3>1. 1 .. n \in SUBSET (Nat \ {0})
      BY <2>2
    <3>2. 1 \in Int /\ n \in Int /\ ~ 1 > n /\ n - 1 + 1 = n
      BY <2>2
    <3> QED
      BY <3>1, <3>2, FS_Interval
  <2>4. /\ semaphore \in [Handles -> SUBSET (Nat \ {0})]
        /\ \A h \in Handles : IsFiniteSet(semaphore[h]) /\ Cardinality(semaphore[h]) \in Concurrency
    BY <2>1, <2>3
  <2>5. /\ IsFiniteSet(Permits!AllPermits(semaphore))
        /\ most = Cardinality(Permits!AllPermits(semaphore)) /\ most \in Nat \ {0}
    BY <2>4, AllPermitsCounted
  <2>6. adjusts \in Nat /\ Cardinality(Permits!AllPermits(semaphore)) <= most
    BY <2>5
  <2> QED
    BY <2>4, <2>5, <2>6 DEF SemaphoreTypes
<1>3. TaskTypes
  <2>1. Permits!Out \in TaskRecord
    BY DEF Permits!Out, TaskRecord
  <2>2. Permits!Out.at = "out"
    BY DEF Permits!Out
  <2>3. IsTask(Permits!Out) /\ Apart(Permits!Out, Permits!Out)
    BY <2>1, <2>2 DEF IsTask, Apart
  <2> QED
    BY <2>3 DEF TaskTypes
<1>4. PermitTypes
  BY <1>1, <1>2, <1>3 DEF PermitTypes
<1>5. \A f : DOMAIN f = {} => Permits!Units(f) = {}
  BY DEF Permits!Units
<1>6. \A f : DOMAIN f = {} => Permits!TotalLoad(f) = 0
  BY <1>5, CountIsCardinality, FS_EmptySet DEF Permits!TotalLoad
<1>7. Overload = 0
  <2>1. DOMAIN Joining(task) = {}
    BY DEF Joining, Permits!Out
  <2>2. Permits!TotalLoad(Joining(task)) = 0 /\ Permits!TotalLoad(active_tasks) = 0
    BY <1>1, <1>6, <2>1
  <2> QED
    BY <2>2 DEF Overload
<1>8. Limit + (most - 1) * MaxLoad \in Nat
  BY <1>2, RoomGrows DEF SemaphoreTypes
<1>9. Overload <= Limit + (most - 1) * MaxLoad
  BY <1>7, <1>8
<1> QED
  BY <1>4, <1>9 DEF PermitsInv

\* Where the list and the callers about to join it do not become more.
LEMMA NoMoreOverload ==
    ASSUME SupportAssumption, PermitsInv, PermitTypes', most <= most',
           DOMAIN active_tasks' \subseteq DOMAIN active_tasks,
           \A i \in DOMAIN active_tasks' : active_tasks'[i].load = active_tasks[i].load,
           \A t \in Tasks : task'[t].at = "checked" =>
                task[t].at = "checked" /\ task'[t].load = task[t].load
    PROVE  PermitsInv'
<1>1. PermitTypes /\ Overload <= Limit + (most - 1) * MaxLoad
  BY DEF PermitsInv
<1> DEFINE old == Joining(task)
           new == Joining(task')
<1>2. /\ \A t \in Tasks : task[t].at = "checked" => task[t].load \in Loads
      /\ \A t \in Tasks : task'[t].at = "checked" => task'[t].load \in Loads
      /\ IsLoaded(active_tasks) /\ IsLoaded(active_tasks')
  BY <1>1 DEF PermitTypes, TaskTypes, IsTask, ListTypes, IsLoaded
<1>3. /\ IsLoaded(old) /\ DOMAIN old = {t \in Tasks : task[t].at = "checked"}
      /\ IsLoaded(new) /\ DOMAIN new = {t \in Tasks : task'[t].at = "checked"}
  BY <1>2, JoiningIsLoaded
<1>4. DOMAIN new \subseteq DOMAIN old /\ \A t \in DOMAIN new : new[t].load = old[t].load
  BY <1>3 DEF Joining
<1> HIDE DEF old, new
<1>5. Permits!TotalLoad(new) <= Permits!TotalLoad(old)
      /\ Permits!TotalLoad(active_tasks') <= Permits!TotalLoad(active_tasks)
  BY <1>2, <1>3, <1>4, TotalGrows
<1>6. /\ Permits!TotalLoad(old) \in Nat /\ Permits!TotalLoad(active_tasks) \in Nat
      /\ Permits!TotalLoad(new) \in Nat /\ Permits!TotalLoad(active_tasks') \in Nat
  BY <1>2, <1>3, TotalType
<1>7. Overload' = Permits!TotalLoad(active_tasks') + Permits!TotalLoad(new)
      /\ Overload = Permits!TotalLoad(active_tasks) + Permits!TotalLoad(old)
  BY DEF Overload, Permits!TotalLoad, Permits!Units, old, new
<1>8. /\ Limit + (most - 1) * MaxLoad \in Nat /\ Limit + (most' - 1) * MaxLoad \in Nat
      /\ Limit + (most - 1) * MaxLoad <= Limit + (most' - 1) * MaxLoad
  <2>1. most \in Nat \ {0} /\ most' \in Nat \ {0} /\ most' <= most'
    BY <1>1 DEF PermitTypes, SemaphoreTypes
  <2> QED
    BY <2>1, RoomGrows
<1>9. Overload' <= Limit + (most' - 1) * MaxLoad
  BY <1>1, <1>5, <1>6, <1>7, <1>8
<1> QED
  BY <1>9 DEF PermitsInv

\* With a permit of a caller still at the check, the callers past it cannot be as many
\* as there are permits.
LEMMA RaceCostsLess ==
    ASSUME SupportAssumption, PermitTypes, NEW t \in Tasks, task[t].at = "permit"
    PROVE  Permits!TotalLoad(Joining(task)) <= (most - 1) * MaxLoad
<1> DEFINE joining == Joining(task)
           callers == DOMAIN joining \cup {t}
           all == Permits!AllPermits(semaphore)
<1>1. IsLoaded(joining) /\ DOMAIN joining = {u \in Tasks : task[u].at = "checked"}
  BY JoiningIsLoaded DEF PermitTypes, TaskTypes, IsTask
<1>2. t \notin DOMAIN joining
  BY <1>1
<1>3. callers \subseteq Tasks /\ \A u \in callers : task[u].at \in {"permit", "checked"}
  BY <1>1
<1>4. IsFiniteSet(all) /\ Cardinality(all) <= most /\ most \in Nat \ {0}
  BY DEF PermitTypes, SemaphoreTypes
<1> HIDE DEF joining
<1>5. Cardinality(callers) = Cardinality(DOMAIN joining) + 1
  BY <1>1, <1>2, FS_AddElement DEF IsLoaded
<1>6. Cardinality(callers) <= Cardinality(all)
  <2> DEFINE number == [u \in callers |-> task[u].permit]
  <2>1. number \in [callers -> all]
    BY <1>3 DEF PermitTypes, TaskTypes, IsTask, Permits!AllPermits
  <2>2. \A u, v \in callers : number[u] = number[v] => u = v
    BY <1>3 DEF PermitTypes, TaskTypes, Apart
  <2> HIDE DEF number, callers, all
  <2>3. number \in Injection(callers, all)
    BY <2>1, <2>2 DEF Injection, IsInjective
  <2> QED
    BY <1>4, <2>3, FS_Injection
<1>7. Permits!TotalLoad(joining) <= Cardinality(DOMAIN joining) * MaxLoad
      /\ Cardinality(DOMAIN joining) \in Nat /\ Permits!TotalLoad(joining) \in Nat
  BY <1>1, TotalType
<1>8. Cardinality(all) \in Nat
  BY <1>4, FS_CardinalityType
<1> HIDE DEF callers, all
<1>9. Cardinality(DOMAIN joining) <= most - 1 /\ MaxLoad \in Nat
  BY <1>4, <1>5, <1>6, <1>7, <1>8, PermitConstants
<1>10. \A k, m, n \in Int : k <= m /\ n >= 0 => k * n <= m * n
  OBVIOUS
<1>11. Cardinality(DOMAIN joining) * MaxLoad <= (most - 1) * MaxLoad
  BY <1>4, <1>7, <1>9, <1>10
<1>12. Cardinality(DOMAIN joining) * MaxLoad \in Int /\ (most - 1) * MaxLoad \in Int
  BY <1>4, <1>7, <1>9
<1>13. Permits!TotalLoad(joining) <= (most - 1) * MaxLoad
  BY <1>7, <1>11, <1>12
<1> QED
  BY <1>13 DEF joining

LEMMA VacantIsFree ==
    ASSUME PermitTypes
    PROVE  Permits!Vacant \in Nat /\ Permits!Vacant \notin DOMAIN active_tasks
<1> DEFINE n == Cardinality(DOMAIN active_tasks)
<1>1. IsFiniteSet(DOMAIN active_tasks) /\ n \in Nat
  BY FS_CardinalityType DEF PermitTypes, ListTypes, IsLoaded
<1>2. ~ 1 .. n + 1 \subseteq DOMAIN active_tasks
  <2>1. Cardinality(1 .. n + 1) = n + 1
    <3>1. 1 \in Int /\ n + 1 \in Int /\ ~ 1 > n + 1 /\ (n + 1) - 1 + 1 = n + 1
      BY <1>1
    <3> HIDE DEF n
    <3> QED
      BY <3>1, FS_Interval
  <2>2. ASSUME 1 .. n + 1 \subseteq DOMAIN active_tasks PROVE n + 1 <= n
    BY <1>1, <2>1, <2>2, FS_Subset
  <2> QED
    BY <1>1, <2>2
<1>3. \E i \in 1 .. n + 1 : i \notin DOMAIN active_tasks
  BY <1>2
<1>4. Permits!Vacant = CHOOSE i \in 1 .. n + 1 : i \notin DOMAIN active_tasks
  BY CountIsCardinality DEF Permits!Vacant
<1>5. 1 .. n + 1 \subseteq Nat
  BY <1>1
<1> HIDE DEF n
<1> QED
  BY <1>3, <1>4, <1>5

\* Steps that leave the semaphores alone and move one task.
LEMMA MovesKeepTypes ==
    ASSUME PermitTypes, NEW t \in Tasks, NEW to, IsTask(to),
           \A u \in Tasks \ {t} : Apart(task[u], to),
           task' = [task EXCEPT ![t] = to], UNCHANGED <<semaphore, adjusts, most>>, ListTypes'
    PROVE  PermitTypes'
<1>1. /\ task' = [u \in Tasks |-> task'[u]]
      /\ task'[t] = to /\ \A u \in Tasks \ {t} : task'[u] = task[u]
  BY DEF PermitTypes, TaskTypes
<1>2. SemaphoreTypes'
  BY DEF PermitTypes, SemaphoreTypes, Permits!AllPermits
<1>3. \A u \in Tasks : IsTask(task'[u])
  BY <1>1 DEF PermitTypes, TaskTypes
<1>4. \A u \in Tasks : IsTask(task[u])'
  BY <1>3 DEF IsTask
<1>5. \A s, u \in Tasks : s # u => Apart(task'[s], task'[u])
  <2>1. \A x, y : Apart(x, y) <=> Apart(y, x)
    BY DEF Apart
  <2>2. \A s, u \in Tasks : s # u => Apart(task[s], task[u])
    BY DEF PermitTypes, TaskTypes
  <2> QED
    BY <1>1, <2>1, <2>2
<1>6. TaskTypes'
  BY <1>1, <1>4, <1>5 DEF TaskTypes, Apart
<1> QED
  BY <1>2, <1>6 DEF PermitTypes

LEMMA OutIsTask == IsTask(Permits!Out) /\ \A tr : Apart(tr, Permits!Out)
<1>1. Permits!Out \in TaskRecord /\ Permits!Out.at = "out"
  BY DEF Permits!Out, TaskRecord
<1> QED
  BY <1>1 DEF IsTask, Apart

LEMMA TakesAndDrops ==
    ASSUME SupportAssumption, PermitsInv, NEW t \in Tasks,
           \/ \E h \in Handles, load \in Loads : Permits!TakePermit(t, h, load)
           \/ Permits!DropPermit(t)
           \/ Permits!CheckLimits(t) /\ ~ Permits!WithinLimits(t)
    PROVE  PermitsInv'
<1>0. PermitTypes /\ most \in Nat
  BY DEF PermitsInv, PermitTypes, SemaphoreTypes
<1>1. ASSUME NEW to, task' = [task EXCEPT ![t] = to], IsTask(to), to.at # "checked",
             \A u \in Tasks \ {t} : Apart(task[u], to),
             UNCHANGED <<active_tasks, semaphore, adjusts, most>>
      PROVE  PermitsInv'
  <2>1. \A u \in Tasks : task'[u].at = "checked" =>
            task[u].at = "checked" /\ task'[u].load = task[u].load
    BY <1>0, <1>1 DEF PermitTypes, TaskTypes
  <2>2. ListTypes'
    BY <1>0, <1>1 DEF PermitTypes, ListTypes, IsLoaded
  <2>3. PermitTypes'
    BY <1>0, <1>1, <2>2, MovesKeepTypes
  <2>4. most <= most' /\ active_tasks' = active_tasks
    BY <1>0, <1>1
  <2> QED
    BY <2>1, <2>3, <2>4, NoMoreOverload
<1>2. ASSUME NEW h \in Handles, NEW load \in Loads, Permits!TakePermit(t, h, load)
      PROVE  PermitsInv'
  <2>1. PICK p \in Permits!Available(h) :
            task' = [task EXCEPT ![t] = [at |-> "permit", load |-> load, by |-> h, permit |-> p]]
    BY <1>2 DEF Permits!TakePermit
  <2> DEFINE to == [at |-> "permit", load |-> load, by |-> h, permit |-> p]
  <2>2. p \in semaphore[h] /\ p \in Nat \ {0} /\ \A u \in Tasks : task[u].permit # p
    BY <1>0 DEF Permits!Available, PermitTypes, SemaphoreTypes
  <2>3. IsTask(to) /\ to.at # "checked"
    BY <2>2 DEF IsTask, TaskRecord
  <2>4. \A u \in Tasks \ {t} : Apart(task[u], to)
    BY <2>2 DEF Apart
  <2>5. task' = [task EXCEPT ![t] = to] /\ UNCHANGED <<active_tasks, semaphore, adjusts, most>>
    BY <1>2, <2>1 DEF Permits!TakePermit
  <2> HIDE DEF to
  <2> QED
    BY <1>1, <2>3, <2>4, <2>5
<1>3. ASSUME task' = [task EXCEPT ![t] = Permits!Out],
             UNCHANGED <<active_tasks, semaphore, adjusts, most>>
      PROVE  PermitsInv'
  <2>1. Permits!Out.at # "checked"
    BY DEF Permits!Out
  <2> QED
    BY <1>1, <1>3, <2>1, OutIsTask
<1> QED
  BY <1>2, <1>3 DEF Permits!DropPermit, Permits!CheckLimits

\* check_resource_limits admits one caller more, who has seen none of the others.
LEMMA CheckKeeps ==
    ASSUME SupportAssumption, PermitsInv, NEW t \in Tasks,
           Permits!CheckLimits(t), Permits!WithinLimits(t)
    PROVE  PermitsInv'
<1> USE DEF Permits!CheckLimits
<1>0. PermitTypes
  BY DEF PermitsInv
<1> DEFINE to == [task[t] EXCEPT !.at = "checked"]
           old == Joining(task)
           new == Joining(task')
<1>1. task[t].at = "permit" /\ task[t].load \in Loads /\ IsTask(task[t])
  BY <1>0 DEF PermitTypes, TaskTypes, IsTask
<1>2. /\ to \in TaskRecord /\ to.at = "checked" /\ to.load = task[t].load
      /\ to.permit = task[t].permit /\ to.by = task[t].by
  BY <1>1 DEF IsTask, TaskRecord
<1>3. task' = [task EXCEPT ![t] = to] /\ UNCHANGED <<active_tasks, semaphore, adjusts, most>>
  BY <1>0 DEF PermitTypes, TaskTypes
<1>4. ListTypes' /\ IsLoaded(active_tasks)
  BY <1>0, <1>3 DEF PermitTypes, ListTypes, IsLoaded
<1> HIDE DEF to
<1>5. PermitTypes'
  <2>1. IsTask(to)
    BY <1>1, <1>2 DEF IsTask
  <2>2. \A u \in Tasks \ {t} : Apart(task[u], to)
    BY <1>0, <1>1, <1>2 DEF PermitTypes, TaskTypes, Apart
  <2> QED
    BY <1>0, <1>3, <1>4, <2>1, <2>2, MovesKeepTypes
<1>6. task'[t] = to /\ \A u \in Tasks \ {t} : task'[u] = task[u]
  BY <1>0, <1>3 DEF PermitTypes, TaskTypes
<1>7. /\ IsLoaded(old) /\ DOMAIN old = {u \in Tasks : task[u].at = "checked"}
      /\ IsLoaded(new) /\ DOMAIN new = {u \in Tasks : task'[u].at = "checked"}
  <2>1. \A u \in Tasks : /\ task[u].at = "checked" => task[u].load \in Loads
                         /\ task'[u].at = "checked" => task'[u].load \in Loads
    BY <1>0, <1>5 DEF PermitTypes, TaskTypes, IsTask
  <2> QED
    BY <2>1, JoiningIsLoaded
<1>8. /\ t \notin DOMAIN old /\ DOMAIN new = DOMAIN old \cup {t}
      /\ \A u \in DOMAIN old : old[u].load = new[u].load
      /\ new[t].load = task[t].load
  BY <1>1, <1>2, <1>6, <1>7 DEF Joining
<1> HIDE DEF old, new
<1>9. Permits!TotalLoad(new) = Permits!TotalLoad(old) + task[t].load
  BY <1>7, <1>8, TotalPlusOne
<1>10. Permits!TotalLoad(active_tasks) + task[t].load <= Limit
  BY DEF Permits!WithinLimits
<1>11. Permits!TotalLoad(old) <= (most - 1) * MaxLoad
  BY <1>0, <1>1, RaceCostsLess DEF old
<1>12. /\ Permits!TotalLoad(active_tasks) \in Nat /\ Permits!TotalLoad(old) \in Nat
       /\ Limit \in Int /\ (most - 1) * MaxLoad \in Int /\ task[t].load \in Nat
  <2>1. most - 1 \in Int /\ MaxLoad \in Int /\ Limit \in Int /\ Loads \subseteq Nat
    BY <1>0, PermitConstants DEF PermitTypes, SemaphoreTypes
  <2> QED
    BY <1>1, <1>4, <1>7, <2>1, TotalType
<1>13. Overload' = Permits!TotalLoad(active_tasks) + Permits!TotalLoad(new)
  BY <1>3 DEF Overload, new, Permits!TotalLoad, Permits!Units
<1>14. Overload' <= Limit + (most - 1) * MaxLoad
  BY <1>9, <1>10, <1>11, <1>12, <1>13
<1> QED
  BY <1>3, <1>5, <1>14 DEF PermitsInv

\* A caller that joins the list is no longer about to.
LEMMA RegisterKeeps ==
    ASSUME SupportAssumption, PermitsInv, NEW t \in Tasks, Permits!Register(t)
    PROVE  PermitsInv'
<1> USE DEF Permits!Register
<1>0. PermitTypes /\ Permits!Vacant \in Nat /\ Permits!Vacant \notin DOMAIN active_tasks
  BY VacantIsFree DEF PermitsInv
<1> DEFINE to == [task[t] EXCEPT !.at = "running", !.by = None]
           entry == [id |-> t, load |-> task[t].load, late |-> FALSE]
           old == Joining(task)
           new == Joining(task')
           v == Permits!Vacant
<1>1. task[t].at = "checked" /\ task[t].load \in Loads /\ IsTask(task[t])
  BY <1>0 DEF PermitTypes, TaskTypes, IsTask
<1>2. /\ to \in TaskRecord /\ to.at = "running" /\ to.load = task[t].load
      /\ to.permit = task[t].permit
  BY <1>1 DEF IsTask, TaskRecord
<1>3. task' = [task EXCEPT ![t] = to] /\ UNCHANGED <<semaphore, adjusts, most>>
      /\ active_tasks' = [i \in DOMAIN active_tasks \cup {v} |->
                            IF i = v THEN entry ELSE active_tasks[i]]
  BY <1>0 DEF PermitTypes, TaskTypes
<1>4. /\ DOMAIN active_tasks' = DOMAIN active_tasks \cup {v}
      /\ active_tasks' = [i \in DOMAIN active_tasks' |-> active_tasks'[i]]
      /\ active_tasks'[v] = entry
      /\ \A i \in DOMAIN active_tasks : active_tasks'[i] = active_tasks[i]
  BY <1>0, <1>3
<1>5. entry \in Entry /\ entry.load = task[t].load
  BY <1>1 DEF Entry
<1> HIDE DEF to, entry, v
<1>6. IsLoaded(active_tasks) /\ IsLoaded(active_tasks')
  <2>1. IsFiniteSet(DOMAIN active_tasks')
    BY <1>0, <1>4, FS_AddElement DEF PermitTypes, ListTypes, IsLoaded
  <2>2. IsLoaded(active_tasks)
    BY <1>0 DEF PermitTypes, ListTypes
  <2>3. \A i \in DOMAIN active_tasks' : active_tasks'[i].load \in Loads
    BY <1>1, <1>4, <1>5, <2>2 DEF IsLoaded
  <2> QED
    BY <1>4, <2>1, <2>2, <2>3 DEF IsLoaded
<1>7. PermitTypes'
  <2>1. DOMAIN active_tasks' \subseteq Nat
        /\ \A i \in DOMAIN active_tasks' : active_tasks'[i] \in Entry
    BY <1>0, <1>4, <1>5 DEF PermitTypes, ListTypes, v
  <2>2. ListTypes'
    BY <1>6, <2>1 DEF ListTypes, IsLoaded
  <2>3. IsTask(to)
    BY <1>1, <1>2 DEF IsTask
  <2>4. \A u \in Tasks \ {t} : Apart(task[u], to)
    BY <1>0, <1>1, <1>2 DEF PermitTypes, TaskTypes, Apart
  <2> QED
    BY <1>0, <1>3, <2>2, <2>3, <2>4, MovesKeepTypes
<1>8. task'[t] = to /\ \A u \in Tasks \ {t} : task'[u] = task[u]
  BY <1>0, <1>3 DEF PermitTypes, TaskTypes
<1>9. /\ IsLoaded(old) /\ DOMAIN old = {u \in Tasks : task[u].at = "checked"}
      /\ IsLoaded(new) /\ DOMAIN new = {u \in Tasks : task'[u].at = "checked"}
  <2>1. \A u \in Tasks : /\ task[u].at = "checked" => task[u].load \in Loads
                         /\ task'[u].at = "checked" => task'[u].load \in Loads
    BY <1>0, <1>7 DEF PermitTypes, TaskTypes, IsTask
  <2> QED
    BY <2>1, JoiningIsLoaded
<1>10. /\ t \notin DOMAIN new /\ DOMAIN old = DOMAIN new \cup {t}
       /\ \A u \in DOMAIN new : new[u].load = old[u].load
       /\ old[t].load = task[t].load
  BY <1>1, <1>2, <1>8, <1>9 DEF Joining
<1> HIDE DEF old, new
<1>11. Permits!TotalLoad(old) = Permits!TotalLoad(new) + task[t].load
  BY <1>9, <1>10, TotalPlusOne
<1>12. Permits!TotalLoad(active_tasks') = Permits!TotalLoad(active_tasks) + task[t].load
  <2>1. v \notin DOMAIN active_tasks
    BY <1>0 DEF v
  <2>2. \A i \in DOMAIN active_tasks : active_tasks[i].load = active_tasks'[i].load
    BY <1>4
  <2> QED
    BY <1>4, <1>5, <1>6, <2>1, <2>2, TotalPlusOne
<1>13. /\ Permits!TotalLoad(active_tasks) \in Nat /\ Permits!TotalLoad(new) \in Nat
       /\ task[t].load \in Nat
  BY <1>1, <1>6, <1>9, TotalType, PermitConstants
<1>14. Overload' = Permits!TotalLoad(active_tasks') + Permits!TotalLoad(new)
       /\ Overload = Permits!TotalLoad(active_tasks) + Permits!TotalLoad(old)
  BY DEF Overload, old, new, Permits!TotalLoad, Permits!Units
<1>15. Overload' = Overload
  BY <1>11, <1>12, <1>13, <1>14
<1> QED
  BY <1>3, <1>7, <1>15 DEF PermitsInv

\* What takes entries out of the list, or marks one as late.
LEMMA ListShrinks ==
    ASSUME SupportAssumption, PermitsInv, UNCHANGED <<semaphore, task, adjusts, most>>,
           DOMAIN active_tasks' \subseteq DOMAIN active_tasks,
           active_tasks' = [i \in DOMAIN active_tasks' |-> active_tasks'[i]],
           \A i \in DOMAIN active_tasks' :
              active_tasks'[i] \in Entry /\ active_tasks'[i].load = active_tasks[i].load
    PROVE  PermitsInv'
<1>1. PermitTypes
  BY DEF PermitsInv
<1>2. IsFiniteSet(DOMAIN active_tasks')
  BY <1>1, FS_Subset DEF PermitTypes, ListTypes, IsLoaded
<1>3. ListTypes'
  BY <1>1, <1>2 DEF PermitTypes, ListTypes, IsLoaded
<1>4. SemaphoreTypes' /\ TaskTypes'
  BY <1>1 DEF PermitTypes, SemaphoreTypes, TaskTypes, IsTask, Apart, Permits!AllPermits
<1>5. PermitTypes' /\ most <= most'
  BY <1>1, <1>3, <1>4 DEF PermitTypes, SemaphoreTypes
<1> QED
  BY <1>5, NoMoreOverload

\* A handle that no call borrows gets another semaphore: of the callers before the list
\* none has a permit of the one it had.
LEMMA AdjustKeeps ==
    ASSUME SupportAssumption, PermitsInv, NEW h \in Handles, NEW n \in Concurrency,
           Permits!AdjustLimits(h, n)
    PROVE  PermitsInv'
<1>0. PermitTypes
  BY DEF PermitsInv
<1> DEFINE k == adjusts' * MaxPermits
           fresh == {k + i : i \in 1 .. n}
           all == Permits!AllPermits(semaphore')
<1>1. /\ adjusts' = adjusts + 1 /\ semaphore' = [semaphore EXCEPT ![h] = fresh]
      /\ \A t \in Tasks : task[t].by # h
      /\ most' = Permits!Max({most, Permits!Cardinality(all)})
      /\ UNCHANGED <<active_tasks, task>>
  BY DEF Permits!AdjustLimits, MaxPermits
<1>2. adjusts' \in Nat /\ k \in Nat /\ n \in Nat
  <2>1. adjusts' \in Nat /\ MaxPermits \in Nat /\ n \in Nat
    BY <1>0, <1>1, PermitConstants DEF PermitTypes, SemaphoreTypes
  <2>2. \A i, j \in Nat : i * j \in Nat
    OBVIOUS
  <2> QED
    BY <2>1, <2>2
<1> HIDE DEF k
<1>3. fresh \in SUBSET (Nat \ {0}) /\ IsFiniteSet(fresh) /\ Cardinality(fresh) = n
  BY <1>2, NewPermits
<1> HIDE DEF fresh
<1>4. /\ semaphore' \in [Handles -> SUBSET (Nat \ {0})]
      /\ \A g \in Handles : IsFiniteSet(semaphore'[g]) /\ Cardinality(semaphore'[g]) \in Concurrency
      /\ \A g \in Handles \ {h} : semaphore'[g] = semaphore[g]
  BY <1>0, <1>1, <1>3 DEF PermitTypes, SemaphoreTypes
<1>5. /\ IsFiniteSet(all) /\ Cardinality(all) \in Nat \ {0}
      /\ Permits!Cardinality(all) = Cardinality(all)
  BY <1>4, AllPermitsCounted
<1> HIDE DEF all
<1>6. most' \in Nat \ {0} /\ most <= most' /\ Cardinality(all) <= most'
  <2>1. most \in Nat \ {0}
    BY <1>0 DEF PermitTypes, SemaphoreTypes
  <2>2. PICK c \in Nat \ {0} : c = Cardinality(all)
    BY <1>5
  <2>3. \E m \in {most, c} : \A i \in {most, c} : m >= i
    BY <2>1, <2>2
  <2>4. Permits!Max({most, c}) \in {most, c} /\ \A i \in {most, c} : Permits!Max({most, c}) >= i
    BY <2>3 DEF Permits!Max
  <2>5. most' = Permits!Max({most, c})
    BY <1>1, <1>5, <2>2
  <2> QED
    BY <2>1, <2>2, <2>4, <2>5
<1>7. SemaphoreTypes'
  BY <1>2, <1>4, <1>5, <1>6 DEF SemaphoreTypes, all
<1>8. TaskTypes'
  <2>1. \A t \in Tasks : IsTask(task[t])'
    BY <1>0, <1>1, <1>4 DEF PermitTypes, TaskTypes, IsTask
  <2> QED
    BY <1>0, <1>1, <2>1 DEF PermitTypes, TaskTypes, Apart
<1>9. ListTypes'
  BY <1>0, <1>1 DEF PermitTypes, ListTypes, IsLoaded
<1>10. PermitTypes'
  BY <1>7, <1>8, <1>9 DEF PermitTypes
<1> QED
  BY <1>1, <1>6, <1>10, NoMoreOverload

LEMMA PermitsSteps ==
    ASSUME SupportAssumption, PermitsInv, [Permits!Next]_concurrencyVars
    PROVE  PermitsInv'
<1>0. PermitTypes
  BY DEF PermitsInv
<1>1. \A i \in DOMAIN active_tasks : active_tasks[i] \in Entry
  BY <1>0 DEF PermitTypes, ListTypes
<1>2. ASSUME NEW S \in SUBSET (DOMAIN active_tasks), active_tasks' = Permits!Restrict(active_tasks, S),
             UNCHANGED <<semaphore, task, adjusts, most>>
      PROVE  PermitsInv'
  <2>1. DOMAIN active_tasks' = S /\ active_tasks' = [i \in S |-> active_tasks'[i]]
        /\ \A i \in S : active_tasks'[i] = active_tasks[i]
    BY <1>2 DEF Permits!Restrict
  <2> QED
    BY <1>1, <1>2, <2>1, ListShrinks
<1>3. ASSUME NEW t \in Tasks, Permits!ReleasePermit(t) PROVE PermitsInv'
  BY <1>2, <1>3 DEF Permits!ReleasePermit
<1>4. CASE Permits!CleanupExpired
  BY <1>2, <1>4 DEF Permits!CleanupExpired
<1>5. ASSUME NEW i \in DOMAIN active_tasks, Permits!TimeOut(i) PROVE PermitsInv'
  <2>1. active_tasks' = [active_tasks EXCEPT ![i].late = TRUE]
        /\ UNCHANGED <<semaphore, task, adjusts, most>>
    BY <1>5 DEF Permits!TimeOut
  <2>2. DOMAIN active_tasks' = DOMAIN active_tasks
        /\ active_tasks' = [j \in DOMAIN active_tasks' |-> active_tasks'[j]]
    BY <2>1
  <2>3. ASSUME NEW j \in DOMAIN active_tasks
        PROVE  active_tasks'[j] \in Entry /\ active_tasks'[j].load = active_tasks[j].load
    <3>1. active_tasks[j] \in Entry
      BY <1>1
    <3>2. active_tasks'[j] = IF j = i THEN [active_tasks[j] EXCEPT !.late = TRUE] ELSE active_tasks[j]
      BY <2>1
    <3> QED
      BY <3>1, <3>2 DEF Entry
  <2> QED
    BY <2>1, <2>2, <2>3, ListShrinks
<1>6. CASE UNCHANGED concurrencyVars
  BY <1>0, <1>6 DEF concurrencyVars, PermitsInv, PermitTypes, ListTypes, SemaphoreTypes, TaskTypes,
                    IsTask, Apart, IsLoaded, Overload, Joining, Permits!AllPermits,
                    Permits!TotalLoad, Permits!Units
<1> QED
  BY <1>3, <1>4, <1>5, <1>6, AdjustKeeps, TakesAndDrops, CheckKeeps, RegisterKeeps DEF Permits!Next

\* acquire_permit checks the limit under one lock and registers under another; callers
\* in between do not see each other, and all together they exceed it by at most a load
\* for each permit but one, of the semaphores that the controller and its clones ever had
\* at one time, whatever is dropped without release, times out, or is adjusted meanwhile
\* (ConcurrencyController::acquire_permit, adjust_concurrency_limits).
THEOREM LoadIsBounded == Spec => []LoadBound
<1> DEFINE Inv == focus = "permits" => PermitsInv
<1>1. Init => Inv
  BY SupportAssumption, PermitsStart DEF Init
<1>2. Inv /\ [Next]_vars => Inv'
  BY SupportAssumption, PermitsSteps DEF Next, vars
<1>3. Inv => LoadBound
  BY DEF LoadBound, PermitsInv, Overload, Joining, Permits!LoadBound, Permits!Checked, MaxLoad
<1> QED
  BY <1>1, <1>2, <1>3, PTL DEF Spec

-----------------------------------------------------------------------------
\* CacheManager: the tier in memory, for whatever is in it

\* Entries of keys; of any two one was accessed before the other, and before what the
\* other was accessed before.
IsTier(m) ==
    /\ DOMAIN m \in SUBSET Keys /\ IsFiniteSet(DOMAIN m)
    /\ \A k \in DOMAIN m :
        m[k] \in [value : Values, fresh : BOOLEAN, older : SUBSET (DOMAIN m \ {k})]
    /\ \A j, k \in DOMAIN m : j # k => (j \in m[k].older <=> k \notin m[j].older)
    /\ \A j, k \in DOMAIN m : j \in m[k].older => m[j].older \subseteq m[k].older

LEMMA RetainKeeps ==
    ASSUME NEW m, IsTier(m), NEW S \in SUBSET (DOMAIN m)
    PROVE  /\ IsTier(Cache!Retain(m, S)) /\ DOMAIN Cache!Retain(m, S) = S
           /\ \A k \in S : /\ Cache!Retain(m, S)[k].value = m[k].value
                           /\ Cache!Retain(m, S)[k].fresh = m[k].fresh
                           /\ Cache!Retain(m, S)[k].older = m[k].older \cap S
<1> DEFINE n == Cache!Retain(m, S)
<1>1. DOMAIN n = S /\ IsFiniteSet(S) /\ S \in SUBSET Keys
  BY FS_Subset DEF Cache!Retain, IsTier
<1>2. ASSUME NEW k \in S
      PROVE  /\ n[k] \in [value : Values, fresh : BOOLEAN, older : SUBSET (S \ {k})]
             /\ n[k].value = m[k].value /\ n[k].fresh = m[k].fresh
             /\ n[k].older = m[k].older \cap S
  <2>1. m[k] \in [value : Values, fresh : BOOLEAN, older : SUBSET (DOMAIN m \ {k})]
    BY DEF IsTier
  <2>2. n[k] = [m[k] EXCEPT !.older = m[k].older \cap S]
    BY DEF Cache!Retain
  <2> QED
    BY <2>1, <2>2
<1> HIDE DEF n
<1>3. \A j, k \in S : j # k => (j \in n[k].older <=> k \notin n[j].older)
  BY <1>2 DEF IsTier
<1>4. \A j, k \in S : j \in n[k].older => n[j].older \subseteq n[k].older
  BY <1>2 DEF IsTier
<1>5. IsTier(n)
  BY <1>1, <1>2, <1>3, <1>4 DEF IsTier
<1> QED
  BY <1>1, <1>2, <1>5 DEF n

LEMMA LatestKeeps ==
    ASSUME NEW m, IsTier(m), NEW k \in Keys, NEW v \in Values
    PROVE  /\ IsTier(Cache!Latest(m, k, v))
           /\ DOMAIN Cache!Latest(m, k, v) = DOMAIN m \cup {k}
           /\ Cache!Latest(m, k, v)[k].value = v
           /\ \A j \in DOMAIN m \ {k} : Cache!Latest(m, k, v)[j].value = m[j].value
<1> DEFINE S == DOMAIN m \ {k}
           o == Cache!Retain(m, S)
           n == Cache!Latest(m, k, v)
           e == [value |-> v, fresh |-> TRUE, older |-> S]
<1>1. IsTier(o) /\ DOMAIN o = S /\ \A j \in S : o[j].value = m[j].value
  BY RetainKeeps
<1>2. DOMAIN n = DOMAIN m \cup {k} /\ DOMAIN n = S \cup {k}
      /\ n[k] = e /\ \A j \in S : n[j] = o[j]
  BY DEF Cache!Latest, Cache!Without
<1>3. IsFiniteSet(DOMAIN n) /\ DOMAIN n \in SUBSET Keys
  BY <1>2, FS_AddElement DEF IsTier
<1>4. e \in [value : Values, fresh : BOOLEAN, older : SUBSET (DOMAIN n \ {k})]
      /\ e.older = S /\ e.value = v
  BY <1>2
<1>5. k \notin S
  OBVIOUS
<1> HIDE DEF S, o, n, e
<1>6. \A j \in S : /\ n[j] \in [value : Values, fresh : BOOLEAN, older : SUBSET (DOMAIN n \ {j})]
                   /\ n[j].older \in SUBSET (S \ {j})
  <2> TAKE j \in S
  <2>1. o[j] \in [value : Values, fresh : BOOLEAN, older : SUBSET (S \ {j})]
    BY <1>1 DEF IsTier
  <2>2. S \ {j} \subseteq DOMAIN n \ {j}
    BY <1>2
  <2> QED
    BY <1>2, <2>1, <2>2
<1>7. \A i, j \in DOMAIN n : i # j => (i \in n[j].older <=> j \notin n[i].older)
  BY <1>1, <1>2, <1>4, <1>5, <1>6 DEF IsTier
<1>8. \A i, j \in DOMAIN n : i \in n[j].older => n[i].older \subseteq n[j].older
  BY <1>1, <1>2, <1>4, <1>5, <1>6 DEF IsTier
<1>9. IsTier(n)
  BY <1>2, <1>3, <1>4, <1>6, <1>7, <1>8 DEF IsTier
<1> QED
  BY <1>1, <1>2, <1>4, <1>9 DEF n, S

\* One entry was accessed before all others.
LEMMA OldestExists ==
    ASSUME NEW m, IsTier(m), DOMAIN m # {}
    PROVE  \E k \in DOMAIN m : m[k].older = {}
<1> DEFINE olders == {m[k].older : k \in DOMAIN m}
<1>1. \A k \in DOMAIN m : IsFiniteSet(m[k].older) /\ m[k].older \subseteq DOMAIN m \ {k}
  BY FS_Subset DEF IsTier
<1>2. olders \subseteq FiniteSubsetsOf(Keys) /\ olders # {}
  BY <1>1 DEF IsTier, FiniteSubsetsOf
<1>3. PICK s \in olders : \A t \in olders : <<t, s>> \notin StrictSubsetOrdering(Keys)
  <2>1. IsWellFoundedOn(StrictSubsetOrdering(Keys), FiniteSubsetsOf(Keys))
    BY FS_StrictSubsetOrderingWellFounded
  <2> QED
    BY <1>2, <2>1, WFMin
<1>4. PICK k \in DOMAIN m : s = m[k].older
  OBVIOUS
<1>5. ASSUME NEW j \in m[k].older PROVE FALSE
  <2>1. j \in DOMAIN m /\ m[j].older \subseteq m[k].older /\ j \notin m[j].older
    BY <1>1 DEF IsTier
  <2>2. <<m[j].older, m[k].older>> \in StrictSubsetOrdering(Keys)
    BY <1>1, <1>5, <2>1 DEF StrictSubsetOrdering, IsTier
  <2> QED
    BY <1>3, <1>4, <2>1, <2>2
<1> QED
  BY <1>5

-----------------------------------------------------------------------------
\* CacheManager: the invariant

TierOK == IsTier(memory) /\ Cardinality(DOMAIN memory) <= MaxSize

\* A call on a key has the key, one that writes or fills a value; without a Redis
\* nothing is in it.
CacheTypes ==
    /\ use_redis \in BOOLEAN
    /\ redis \in [Keys -> Values \cup {None}]
    /\ ~ use_redis => \A k \in Keys : redis[k] = None
    /\ call \in [Clients -> [at : Cache!Places, key : Keys \cup {None},
                             value : Values \cup {None}, met : BOOLEAN]]
    /\ \A c \in Clients : call[c].at = "idle" => call[c] = Cache!Idle
    /\ \A c \in Clients : call[c].at \in {"get_redis", "fill", "set_redis", "delete_redis"}
                            => call[c].key \in Keys
    /\ \A c \in Clients : call[c].at \in {"fill", "set_redis"} => call[c].value \in Values
    /\ truth \in [Keys -> Values \cup {None}] /\ suspect \in SUBSET Keys

\* The client's call is about the key.
About(c, k) == call[c].key = k \/ call[c].at = "clear_redis"

\* While a write is under way its keys are suspect.
WritersAreSuspected ==
    \A c \in Clients, k \in Keys : call[c].at \in Cache!Writing /\ About(c, k) => k \in suspect

\* Two calls about a key, one of which writes, have met.
WritersMeet ==
    \A c, d \in Clients, k \in Keys :
        c # d /\ About(c, k) /\ About(d, k) /\ call[c].at \in Cache!Writing
            => call[c].met /\ call[d].met

\* A write that met nobody still stands in memory, or was evicted.
UnmetStands ==
    \A c \in Clients, k \in Keys :
        About(c, k) /\ ~ call[c].met =>
            /\ call[c].at = "set_redis" /\ k \in DOMAIN memory
                  => memory[k].value = call[c].value
            /\ call[c].at \in {"delete_redis", "clear_redis"} => k \notin DOMAIN memory

CacheInv ==
    /\ TierOK /\ CacheTypes
    /\ WritersAreSuspected /\ WritersMeet /\ UnmetStands
    /\ Cache!StaleNeedsARace

LEMMA CacheConstants == SupportAssumption => None \notin Keys /\ None \notin Values /\ MaxSize \in Nat \ {0}
BY DEF SupportAssumption, Cache!CacheAssumption

LEMMA CacheStart == SupportAssumption /\ Cache!Init => CacheInv
<1> SUFFICES ASSUME SupportAssumption, Cache!Init PROVE CacheInv
  OBVIOUS
<1> USE DEF Cache!Init, Cache!Nothing, Cache!Idle
<1>1. DOMAIN memory = {}
  OBVIOUS
<1>2. TierOK
  BY <1>1, FS_EmptySet, CacheConstants DEF TierOK, IsTier
<1>3. CacheTypes
  BY DEF CacheTypes, Cache!Places, Cache!Writing
<1>4. WritersAreSuspected /\ WritersMeet /\ UnmetStands
  BY CacheConstants DEF WritersAreSuspected, WritersMeet, UnmetStands, About, Cache!Writing
<1>5. Cache!StaleNeedsARace
  BY <1>1 DEF Cache!StaleNeedsARace
<1> QED
  BY <1>2, <1>3, <1>4, <1>5 DEF CacheInv

\* MemoryCache::set: the key has the value, and the others what they had if anything.
LEMMA SetGives ==
    ASSUME SupportAssumption, TierOK, NEW k \in Keys, NEW v \in Values, Cache!MemorySet(k, v)
    PROVE  /\ TierOK' /\ memory'[k].value = v
           /\ \A j \in DOMAIN memory' \ {k} : j \in DOMAIN memory /\ memory'[j].value = memory[j].value
<1> DEFINE room == Cache!MakeRoom(memory, k)
           oldest == CHOOSE j \in DOMAIN memory : memory[j].older = {}
<1>1. IsFiniteSet(DOMAIN memory) /\ Cardinality(DOMAIN memory) \in Nat
      /\ Cardinality(DOMAIN memory) <= MaxSize /\ MaxSize \in Nat \ {0}
  BY CacheConstants, FS_CardinalityType DEF TierOK, IsTier
<1>2. /\ IsTier(room) /\ DOMAIN room \subseteq DOMAIN memory
      /\ \A j \in DOMAIN room : room[j].value = memory[j].value
      /\ Cardinality(DOMAIN room \cup {k}) <= MaxSize
  <2>1. CASE Cache!Cardinality(DOMAIN memory) >= MaxSize /\ k \notin DOMAIN memory
    <3>1. Cardinality(DOMAIN memory) = MaxSize
      BY <1>1, <2>1, CountIsCardinality
    <3>2. oldest \in DOMAIN memory
      <4>1. DOMAIN memory # {}
        BY <1>1, <3>1, FS_EmptySet
      <4> QED
        BY <4>1, OldestExists DEF TierOK
    <3>3. room = Cache!Retain(memory, DOMAIN memory \ {oldest})
      BY <2>1 DEF Cache!MakeRoom, Cache!Without
    <3> HIDE DEF oldest, room
    <3>4. /\ IsTier(room) /\ DOMAIN room = DOMAIN memory \ {oldest}
          /\ \A j \in DOMAIN room : room[j].value = memory[j].value
      BY <3>3, RetainKeeps DEF TierOK
    <3>5. IsFiniteSet(DOMAIN room) /\ Cardinality(DOMAIN room) = MaxSize - 1
      BY <1>1, <3>1, <3>2, <3>4, FS_RemoveElement
    <3>6. k \notin DOMAIN room /\ MaxSize - 1 + 1 = MaxSize
      BY <1>1, <2>1, <3>4
    <3>7. Cardinality(DOMAIN room \cup {k}) = MaxSize
      BY <3>5, <3>6, FS_AddElement
    <3> QED
      BY <1>1, <3>4, <3>7
  <2>2. CASE ~ (Cache!Cardinality(DOMAIN memory) >= MaxSize /\ k \notin DOMAIN memory)
    <3>1. room = memory
      BY <2>2 DEF Cache!MakeRoom
    <3>2. k \notin DOMAIN memory => Cardinality(DOMAIN memory) + 1 <= MaxSize
      BY <1>1, <2>2, CountIsCardinality
    <3>3. Cardinality(DOMAIN memory \cup {k}) <= MaxSize
      BY <1>1, <3>2, FS_AddElement
    <3> QED
      BY <3>1, <3>3 DEF TierOK
  <2> QED
    BY <2>1, <2>2
<1>3. memory' = Cache!Latest(room, k, v)
  BY DEF Cache!MemorySet
<1> HIDE DEF room
<1>4. /\ IsTier(memory') /\ DOMAIN memory' = DOMAIN room \cup {k} /\ memory'[k].value = v
      /\ \A j \in DOMAIN room \ {k} : memory'[j].value = room[j].value
  BY <1>2, <1>3, LatestKeeps
<1>5. IsTier(memory)'
  BY <1>4 DEF IsTier
<1> QED
  BY <1>2, <1>4, <1>5 DEF TierOK

\* What leaves memory alone, but for removals, order and freshness.
Fewer == DOMAIN memory' \subseteq DOMAIN memory
         /\ \A k \in DOMAIN memory' : memory'[k].value = memory[k].value

LEMMA RetainGives ==
    ASSUME SupportAssumption, TierOK, NEW S \in SUBSET (DOMAIN memory),
           memory' = Cache!Retain(memory, S)
    PROVE  TierOK' /\ Fewer /\ DOMAIN memory' = S
<1>1. IsTier(memory') /\ DOMAIN memory' = S /\ \A k \in S : memory'[k].value = memory[k].value
  BY RetainKeeps DEF TierOK
<1>2. IsTier(memory)'
  BY <1>1 DEF IsTier
<1>3. Cardinality(S) <= Cardinality(DOMAIN memory) /\ Cardinality(S) \in Nat
      /\ Cardinality(DOMAIN memory) \in Nat
  BY FS_Subset, FS_CardinalityType DEF TierOK, IsTier
<1>4. Cardinality(DOMAIN memory') <= MaxSize
  BY <1>1, <1>3, CacheConstants DEF TierOK
<1> QED
  BY <1>1, <1>2, <1>4 DEF TierOK, Fewer

\* Expiry, eviction and hits leave nothing wrong in either tier.
LEMMA QuietKeeps ==
    ASSUME CacheInv, TierOK', Fewer, UNCHANGED <<use_redis, call, truth, suspect>>,
           redis' \in [Keys -> Values \cup {None}],
           \A k \in Keys : redis'[k] \in {redis[k], None}
    PROVE  CacheInv'
<1> USE DEF CacheInv
<1>1. CacheTypes'
  BY DEF CacheTypes
<1>2. WritersAreSuspected' /\ WritersMeet'
  BY DEF WritersAreSuspected, WritersMeet, About
<1>3. UnmetStands'
  BY DEF UnmetStands, About, Fewer
<1>4. Cache!StaleNeedsARace'
  BY DEF Cache!StaleNeedsARace, Fewer
<1> QED
  BY <1>1, <1>2, <1>3, <1>4

\* A new call meets all it should, and they it.
LEMMA StartsMeet ==
    ASSUME SupportAssumption, CacheTypes, NEW c \in Clients, NEW keys \in SUBSET Keys, NEW new,
           call[c] = Cache!Idle, Cache!Starts(c, keys, new, new.at \in Cache!Writing),
           new \in [at : Cache!Places, key : Keys \cup {None}, value : Values \cup {None},
                    met : BOOLEAN]
    PROVE  /\ call' \in [Clients -> [at : Cache!Places, key : Keys \cup {None},
                                     value : Values \cup {None}, met : BOOLEAN]]
           /\ call'[c].at = new.at /\ call'[c].key = new.key /\ call'[c].value = new.value
           /\ \A d \in Clients \ {c} :
                /\ call'[d].at = call[d].at /\ call'[d].key = call[d].key
                /\ call'[d].value = call[d].value
                /\ call[d].met => call'[d].met
                /\ call[d].at = "idle" => call'[d] = call[d]
                /\ \A k \in keys :
                    About(d, k) /\ (new.at \in Cache!Writing \/ call[d].at \in Cache!Writing)
                        => call'[c].met /\ call'[d].met
<1> DEFINE M == Cache!Met(keys, new.at \in Cache!Writing)
<1>1. \A d \in Clients : call[d] \in [at : Cache!Places, key : Keys \cup {None},
                                      value : Values \cup {None}, met : BOOLEAN]
  BY DEF CacheTypes
<1>2. \A d \in Clients, k \in keys : About(d, k) => call[d] # Cache!Idle
  BY CacheConstants DEF About, Cache!Idle
<1>3. \A d \in Clients, k \in keys :
        About(d, k) /\ (new.at \in Cache!Writing \/ call[d].at \in Cache!Writing) => d \in M
  BY <1>2 DEF Cache!Met, Cache!Concerns, About
<1>4. \A d \in Clients : d \in M => call[d] # Cache!Idle
  BY DEF Cache!Met, Cache!Concerns
<1>5. call' = [d \in Clients |-> IF d = c THEN [new EXCEPT !.met = M # {}]
                                 ELSE [call[d] EXCEPT !.met = call[d].met \/ d \in M]]
  BY DEF Cache!Starts
<1> HIDE DEF M
<1>6. /\ call'[c] \in [at : Cache!Places, key : Keys \cup {None}, value : Values \cup {None},
                       met : BOOLEAN]
      /\ call'[c].at = new.at /\ call'[c].key = new.key /\ call'[c].value = new.value
      /\ M # {} => call'[c].met
  <2>1. call'[c] = [new EXCEPT !.met = M # {}]
    BY <1>5
  <2> QED
    BY <2>1
<1>7. ASSUME NEW d \in Clients \ {c}
      PROVE  /\ call'[d] \in [at : Cache!Places, key : Keys \cup {None}, value : Values \cup {None},
                              met : BOOLEAN]
             /\ call'[d].at = call[d].at /\ call'[d].key = call[d].key
             /\ call'[d].value = call[d].value
             /\ call[d].met => call'[d].met
             /\ d \in M => call'[d].met
             /\ d \notin M => call'[d] = call[d]
  <2>1. call'[d] = [call[d] EXCEPT !.met = call[d].met \/ d \in M]
    BY <1>5
  <2>2. call[d] \in [at : Cache!Places, key : Keys \cup {None}, value : Values \cup {None},
                     met : BOOLEAN]
    BY <1>1
  <2>3. (call[d].met \/ d \in M) \in BOOLEAN
    OBVIOUS
  <2>4. CASE d \in M
    BY <2>1, <2>2, <2>4
  <2>5. CASE d \notin M
    <3>1. (call[d].met \/ d \in M) = call[d].met
      BY <2>2, <2>5
    <3>2. call'[d] = call[d]
      BY <2>1, <2>2, <3>1
    <3> QED
      BY <2>2, <2>5, <3>2
  <2> QED
    BY <2>4, <2>5
<1>8. call' \in [Clients -> [at : Cache!Places, key : Keys \cup {None},
                             value : Values \cup {None}, met : BOOLEAN]]
  BY <1>5, <1>6, <1>7
<1>9. \A d \in Clients \ {c} : call[d].at = "idle" => d \notin M
  BY <1>4 DEF CacheTypes
<1> QED
  BY <1>3, <1>6, <1>7, <1>8, <1>9

\* Whatever starts, its keys are suspect if it writes, and in memory only they change.
LEMMA CallStarts ==
    ASSUME SupportAssumption, CacheInv, NEW c \in Clients, NEW keys \in SUBSET Keys, NEW new,
           call[c] = Cache!Idle, Cache!Starts(c, keys, new, new.at \in Cache!Writing),
           new \in [at : {"get_redis"} \cup Cache!Writing, key : Keys \cup {None},
                    value : Values \cup {None}, met : BOOLEAN],
           new.at # "clear_redis" => new.key \in Keys,
           new.at = "set_redis" => new.value \in Values,
           \A k \in Keys : k \in keys <=> new.key = k \/ new.at = "clear_redis",
           UNCHANGED <<use_redis, redis, truth>>,
           suspect' = IF new.at \in Cache!Writing THEN suspect \cup keys ELSE suspect,
           TierOK',
           \A k \in DOMAIN memory' :
              IF k \in keys /\ new.at \in Cache!Writing
              THEN new.at = "set_redis" /\ memory'[k].value = new.value
              ELSE k \in DOMAIN memory /\ memory'[k].value = memory[k].value
    PROVE  CacheInv'
<1>0. CacheTypes
  BY DEF CacheInv
<1>1. new.at \in Cache!Places /\ new \in [at : Cache!Places, key : Keys \cup {None},
                                         value : Values \cup {None}, met : BOOLEAN]
  BY DEF Cache!Places
<1>2. /\ call' \in [Clients -> [at : Cache!Places, key : Keys \cup {None},
                                value : Values \cup {None}, met : BOOLEAN]]
      /\ call'[c].at = new.at /\ call'[c].key = new.key /\ call'[c].value = new.value
      /\ \A d \in Clients \ {c} :
           /\ call'[d].at = call[d].at /\ call'[d].key = call[d].key
           /\ call'[d].value = call[d].value
           /\ call[d].met => call'[d].met
           /\ call[d].at = "idle" => call'[d] = call[d]
           /\ \A k \in keys :
                About(d, k) /\ (new.at \in Cache!Writing \/ call[d].at \in Cache!Writing)
                    => call'[c].met /\ call'[d].met
  BY <1>0, <1>1, StartsMeet
<1> USE DEF CacheInv
<1>3. /\ \A k \in Keys : About(c, k)' <=> k \in keys
      /\ \A d \in Clients \ {c}, k \in Keys : About(d, k)' <=> About(d, k)
  BY <1>2 DEF About
<1>4. CacheTypes'
  <2>1. \A d \in Clients : call'[d].at = "idle" => call'[d] = Cache!Idle
    BY <1>2 DEF CacheTypes, Cache!Writing
  <2>2. \A d \in Clients : call'[d].at \in {"get_redis", "fill", "set_redis", "delete_redis"}
                              => call'[d].key \in Keys
    BY <1>2 DEF CacheTypes
  <2>3. \A d \in Clients : call'[d].at \in {"fill", "set_redis"} => call'[d].value \in Values
    BY <1>2 DEF CacheTypes, Cache!Writing
  <2>4. suspect' \in SUBSET Keys
    BY DEF CacheTypes
  <2> QED
    BY <1>2, <2>1, <2>2, <2>3, <2>4 DEF CacheTypes
<1>5. WritersAreSuspected'
  BY <1>2, <1>3 DEF WritersAreSuspected
<1>6. WritersMeet'
  <2> SUFFICES ASSUME NEW d \in Clients, NEW e \in Clients, NEW k \in Keys, d # e,
                      About(d, k)', About(e, k)', call'[d].at \in Cache!Writing
               PROVE  call'[d].met /\ call'[e].met
    BY DEF WritersMeet
  <2>1. CASE d = c
    BY <1>2, <1>3, <2>1
  <2>2. CASE e = c
    BY <1>2, <1>3, <2>2
  <2>3. CASE d # c /\ e # c
    BY <1>2, <1>3, <2>3 DEF WritersMeet
  <2> QED
    BY <2>1, <2>2, <2>3
<1>7. UnmetStands'
  <2> SUFFICES ASSUME NEW d \in Clients, NEW k \in Keys, About(d, k)', ~ call'[d].met
               PROVE  /\ call'[d].at = "set_redis" /\ k \in DOMAIN memory'
                            => memory'[k].value = call'[d].value
                      /\ call'[d].at \in {"delete_redis", "clear_redis"} => k \notin DOMAIN memory'
    BY DEF UnmetStands
  <2>1. CASE d = c
    BY <1>2, <1>3, <2>1 DEF Cache!Writing
  <2>2. CASE d # c /\ (k \notin keys \/ new.at \notin Cache!Writing)
    <3>1. About(d, k) /\ ~ call[d].met /\ call'[d].at = call[d].at /\ call'[d].value = call[d].value
      BY <1>2, <1>3, <2>2
    <3>2. k \in DOMAIN memory' => k \in DOMAIN memory /\ memory'[k].value = memory[k].value
      BY <2>2
    <3> QED
      BY <3>1, <3>2 DEF UnmetStands
  <2>3. CASE d # c /\ k \in keys /\ new.at \in Cache!Writing
    BY <1>2, <1>3, <2>3
  <2> QED
    BY <2>1, <2>2, <2>3
<1>8. Cache!StaleNeedsARace'
  <2> SUFFICES ASSUME NEW k \in Keys, k \notin suspect'
               PROVE  /\ k \in DOMAIN memory' => memory'[k].value = truth[k]
                      /\ redis[k] \in {truth[k], None}
                      /\ \A d \in Clients : call'[d].at = "fill" /\ call'[d].key = k
                                               => call'[d].value = truth[k]
    BY DEF Cache!StaleNeedsARace
  <2>1. k \notin suspect /\ ~ (k \in keys /\ new.at \in Cache!Writing)
    OBVIOUS
  <2>2. k \in DOMAIN memory' => k \in DOMAIN memory /\ memory'[k].value = memory[k].value
    BY <2>1
  <2>3. \A d \in Clients : call'[d].at = "fill" => d # c
    BY <1>2 DEF Cache!Writing
  <2> QED
    BY <1>2, <2>1, <2>2, <2>3 DEF Cache!StaleNeedsARace
<1> QED
  BY <1>4, <1>5, <1>6, <1>7, <1>8

\* A call that ends leaves the others as they are.
LEMMA EndsQuietly ==
    ASSUME SupportAssumption, CacheInv, NEW c \in Clients, call' = [call EXCEPT ![c] = Cache!Idle]
    PROVE  /\ call' \in [Clients -> [at : Cache!Places, key : Keys \cup {None},
                                     value : Values \cup {None}, met : BOOLEAN]]
           /\ call'[c] = Cache!Idle /\ \A d \in Clients \ {c} : call'[d] = call[d]
           /\ \A d \in Clients, k \in Keys : About(d, k)' <=> d # c /\ About(d, k)
           /\ WritersMeet'
<1> USE DEF CacheInv
<1>1. Cache!Idle \in [at : Cache!Places, key : Keys \cup {None}, value : Values \cup {None},
                      met : BOOLEAN]
      /\ Cache!Idle.key = None /\ Cache!Idle.at = "idle"
  BY DEF Cache!Idle, Cache!Places
<1>2. /\ call' \in [Clients -> [at : Cache!Places, key : Keys \cup {None},
                                value : Values \cup {None}, met : BOOLEAN]]
      /\ call'[c] = Cache!Idle /\ \A d \in Clients \ {c} : call'[d] = call[d]
  BY <1>1 DEF CacheTypes
<1>3. \A d \in Clients, k \in Keys : About(d, k)' <=> d # c /\ About(d, k)
  BY <1>1, <1>2, CacheConstants DEF About
<1>4. WritersMeet'
  BY <1>2, <1>3 DEF WritersMeet
<1> QED
  BY <1>2, <1>3, <1>4

\* What was written undisturbed, into both tiers, is what they hold if anything.
LEMMA FinishKeeps ==
    ASSUME SupportAssumption, CacheInv, NEW c \in Clients, NEW keys \in SUBSET Keys,
           NEW v \in Values \cup {None}, NEW done \in BOOLEAN,
           call[c].at \in Cache!Writing, Cache!Written(c, keys, v, done),
           \A k \in Keys : k \in keys <=> About(c, k),
           v = (IF call[c].at = "set_redis" THEN call[c].value ELSE None),
           UNCHANGED <<use_redis, memory>>,
           redis' \in [Keys -> Values \cup {None}],
           ~ use_redis => \A k \in Keys : redis'[k] = None,
           \A k \in Keys \ keys : redis'[k] = redis[k],
           done => \A k \in keys : redis'[k] \in {v, None}
    PROVE  CacheInv'
<1> USE DEF CacheInv
<1>1. /\ call' \in [Clients -> [at : Cache!Places, key : Keys \cup {None},
                                value : Values \cup {None}, met : BOOLEAN]]
      /\ call'[c] = Cache!Idle /\ \A d \in Clients \ {c} : call'[d] = call[d]
      /\ \A d \in Clients, k \in Keys : About(d, k)' <=> d # c /\ About(d, k)
      /\ WritersMeet'
  BY EndsQuietly DEF Cache!Written
<1>2. /\ truth' = [k \in Keys |-> IF k \in keys THEN v ELSE truth[k]]
      /\ suspect' = IF call[c].met \/ ~ done THEN suspect \cup keys ELSE suspect \ keys
  BY DEF Cache!Written
<1>3. Cache!Idle.at = "idle"
  BY DEF Cache!Idle
<1>4. CacheTypes'
  <2>1. \A d \in Clients : d # c \/ call'[d].at = "idle"
    BY <1>1, <1>3
  <2>2. truth' \in [Keys -> Values \cup {None}] /\ suspect' \in SUBSET Keys
    BY <1>2 DEF CacheTypes
  <2> QED
    BY <1>1, <1>3, <2>1, <2>2 DEF CacheTypes
<1>5. \A d \in Clients \ {c}, k \in keys : About(d, k) => call[c].met
  BY DEF WritersMeet
<1>6. WritersAreSuspected'
  <2> SUFFICES ASSUME NEW d \in Clients, NEW k \in Keys, call'[d].at \in Cache!Writing, About(d, k)'
               PROVE  k \in suspect'
    BY DEF WritersAreSuspected
  <2>1. d # c /\ About(d, k) /\ call[d].at \in Cache!Writing
    BY <1>1
  <2> QED
    BY <1>2, <1>5, <2>1 DEF WritersAreSuspected
<1>7. UnmetStands'
  BY <1>1 DEF UnmetStands
<1>8. Cache!StaleNeedsARace'
  <2> SUFFICES ASSUME NEW k \in Keys, k \notin suspect'
               PROVE  /\ k \in DOMAIN memory => memory[k].value = truth'[k]
                      /\ redis'[k] \in {truth'[k], None}
                      /\ \A d \in Clients : call'[d].at = "fill" /\ call'[d].key = k
                                               => call'[d].value = truth'[k]
    BY DEF Cache!StaleNeedsARace
  <2>1. \A d \in Clients : call'[d].at = "fill" => d # c
    BY <1>1, <1>3
  <2>2. CASE k \notin keys
    <3>1. k \notin suspect /\ truth'[k] = truth[k] /\ redis'[k] = redis[k]
      BY <1>2, <2>2
    <3> QED
      BY <1>1, <2>1, <3>1 DEF Cache!StaleNeedsARace
  <2>3. CASE k \in keys
    <3>1. done /\ ~ call[c].met /\ truth'[k] = v
      BY <1>2, <2>3
    <3>2. \A d \in Clients : d # c => call'[d].key # k
      BY <1>1, <1>5, <2>3, <3>1 DEF About
    <3>3. k \in DOMAIN memory => memory[k].value = v
      BY <2>3, <3>1 DEF UnmetStands, Cache!Writing
    <3> QED
      BY <2>1, <2>3, <3>1, <3>2, <3>3
  <2> QED
    BY <2>2, <2>3
<1>9. TierOK'
  BY DEF TierOK, IsTier
<1> QED
  BY <1>1, <1>4, <1>6, <1>7, <1>8, <1>9

\* A get that finds nothing in Redis, or has filled the memory.
LEMMA ReadEnds ==
    ASSUME SupportAssumption, CacheInv, NEW c \in Clients, call[c].at \notin Cache!Writing,
           call' = [call EXCEPT ![c] = Cache!Idle], UNCHANGED <<use_redis, redis, truth, suspect>>,
           TierOK',
           \A k \in DOMAIN memory' :
              \/ k \in DOMAIN memory /\ memory'[k].value = memory[k].value
              \/ /\ k \notin suspect => memory'[k].value = truth[k]
                 /\ \A d \in Clients \ {c} :
                        About(d, k) /\ call[d].at \in Cache!Writing => call[d].met
    PROVE  CacheInv'
<1> USE DEF CacheInv
<1>1. /\ call' \in [Clients -> [at : Cache!Places, key : Keys \cup {None},
                                value : Values \cup {None}, met : BOOLEAN]]
      /\ call'[c] = Cache!Idle /\ \A d \in Clients \ {c} : call'[d] = call[d]
      /\ \A d \in Clients, k \in Keys : About(d, k)' <=> d # c /\ About(d, k)
      /\ WritersMeet'
  BY EndsQuietly
<1>2. Cache!Idle.at = "idle" /\ DOMAIN memory' \subseteq Keys
  BY DEF Cache!Idle, TierOK, IsTier
<1>3. \A d \in Clients : d # c \/ call'[d].at = "idle"
  BY <1>1, <1>2
<1>4. CacheTypes'
  BY <1>1, <1>2, <1>3 DEF CacheTypes
<1>5. WritersAreSuspected'
  BY <1>1 DEF WritersAreSuspected
<1>6. UnmetStands'
  BY <1>1, <1>2 DEF UnmetStands, Cache!Writing
<1>7. Cache!StaleNeedsARace'
  BY <1>1, <1>2, <1>3 DEF Cache!StaleNeedsARace
<1> QED
  BY <1>1, <1>4, <1>5, <1>6, <1>7

\* What Redis answers is fresh of a key that is not suspect, when it answers.
LEMMA ReadFinds ==
    ASSUME SupportAssumption, CacheInv, NEW c \in Clients, call[c].at = "get_redis",
           redis[call[c].key] # None,
           call' = [call EXCEPT ![c].at = "fill", ![c].value = redis[call[c].key]],
           UNCHANGED <<use_redis, memory, redis, truth, suspect>>
    PROVE  CacheInv'
<1> USE DEF CacheInv
<1> DEFINE v == redis[call[c].key]
<1>1. call[c].key \in Keys /\ v \in Values
  BY DEF CacheTypes
<1>2. call[c] \in [at : Cache!Places, key : Keys \cup {None}, value : Values \cup {None},
                   met : BOOLEAN]
  BY DEF CacheTypes
<1>3. /\ call'[c] = [call[c] EXCEPT !.at = "fill", !.value = v]
      /\ \A d \in Clients \ {c} : call'[d] = call[d]
      /\ DOMAIN call' = Clients /\ call' = [d \in Clients |-> call'[d]]
  BY DEF CacheTypes
<1> HIDE DEF v
<1>4. /\ call'[c] \in [at : Cache!Places, key : Keys \cup {None}, value : Values \cup {None},
                       met : BOOLEAN]
      /\ call'[c].at = "fill" /\ call'[c].key = call[c].key /\ call'[c].value = v
      /\ call'[c].met = call[c].met
  BY <1>1, <1>2, <1>3 DEF Cache!Places
<1>5. call' \in [Clients -> [at : Cache!Places, key : Keys \cup {None},
                             value : Values \cup {None}, met : BOOLEAN]]
  BY <1>3, <1>4 DEF CacheTypes
<1>6. \A d \in Clients, k \in Keys : About(d, k)' <=> About(d, k)
  BY <1>3, <1>4 DEF About
<1>7. CacheTypes'
  BY <1>1, <1>3, <1>4, <1>5 DEF CacheTypes
<1>8. \A d \in Clients : call'[d].at \in Cache!Writing => d # c
  BY <1>4 DEF Cache!Writing
<1>9. WritersAreSuspected' /\ WritersMeet'
  BY <1>3, <1>4, <1>6, <1>8 DEF WritersAreSuspected, WritersMeet
<1>10. UnmetStands'
  BY <1>3, <1>6, <1>8 DEF UnmetStands, Cache!Writing
<1>11. Cache!StaleNeedsARace'
  BY <1>3, <1>4 DEF Cache!StaleNeedsARace, v
<1>12. TierOK'
  BY DEF TierOK, IsTier
<1> QED
  BY <1>7, <1>9, <1>10, <1>11, <1>12

LEMMA FillKeeps ==
    ASSUME SupportAssumption, CacheInv, NEW c \in Clients, Cache!GetFill(c)
    PROVE  CacheInv'
<1> DEFINE k == call[c].key
           v == call[c].value
<1>1. /\ call[c].at = "fill" /\ k \in Keys /\ v \in Values /\ call[c].at \notin Cache!Writing
      /\ Cache!MemorySet(k, v) /\ call' = [call EXCEPT ![c] = Cache!Idle]
      /\ UNCHANGED <<use_redis, redis, truth, suspect>>
  BY DEF CacheInv, CacheTypes, Cache!GetFill, Cache!Writing
<1>2. /\ k \notin suspect => v = truth[k]
      /\ \A d \in Clients \ {c} : About(d, k) /\ call[d].at \in Cache!Writing => call[d].met
  BY <1>1 DEF CacheInv, Cache!StaleNeedsARace, WritersMeet, About
<1> HIDE DEF k, v
<1>3. TierOK' /\ memory'[k].value = v
      /\ \A j \in DOMAIN memory' \ {k} : j \in DOMAIN memory /\ memory'[j].value = memory[j].value
  BY <1>1, SetGives DEF CacheInv
<1>4. \A j \in DOMAIN memory' :
        \/ j \in DOMAIN memory /\ memory'[j].value = memory[j].value
        \/ /\ j \notin suspect => memory'[j].value = truth[j]
           /\ \A d \in Clients \ {c} :
                  About(d, j) /\ call[d].at \in Cache!Writing => call[d].met
  BY <1>2, <1>3
<1> QED
  BY <1>1, <1>3, <1>4, ReadEnds

LEMMA WriteEnds ==
    ASSUME SupportAssumption, CacheInv, NEW c \in Clients, NEW done \in BOOLEAN,
           \/ Cache!SetRedis(c, done) \/ Cache!DeleteRedis(c, done) \/ Cache!ClearRedis(c, done)
    PROVE  CacheInv'
<1>0. /\ use_redis \in BOOLEAN /\ redis \in [Keys -> Values \cup {None}]
      /\ ~ use_redis => \A k \in Keys : redis[k] = None
  BY DEF CacheInv, CacheTypes
<1> DEFINE ok == done \/ ~ use_redis
<1>1. ASSUME NEW keys \in SUBSET Keys, NEW v \in Values \cup {None}, call[c].at \in Cache!Writing,
             Cache!Written(c, keys, v, ok), \A k \in Keys : k \in keys <=> About(c, k),
             v = (IF call[c].at = "set_redis" THEN call[c].value ELSE None),
             UNCHANGED <<use_redis, memory>>,
             redis' = IF use_redis /\ done
                      THEN [k \in Keys |-> IF k \in keys THEN v ELSE redis[k]] ELSE redis
      PROVE  CacheInv'
  <2>1. ok \in BOOLEAN /\ (ok => ~ use_redis \/ done)
    OBVIOUS
  <2>2. /\ redis' \in [Keys -> Values \cup {None}]
        /\ ~ use_redis => \A k \in Keys : redis'[k] = None
        /\ \A k \in Keys \ keys : redis'[k] = redis[k]
    BY <1>0, <1>1
  <2>3. ok => \A k \in keys : redis'[k] \in {v, None}
    BY <1>0, <1>1, <2>1
  <2> HIDE DEF ok
  <2> QED
    BY <1>1, <2>1, <2>2, <2>3, FinishKeeps
<1>2. CASE Cache!SetRedis(c, done)
  <2> DEFINE k == call[c].key
  <2>1. call[c].at = "set_redis" /\ k \in Keys /\ call[c].value \in Values
    BY <1>2 DEF Cache!SetRedis, CacheInv, CacheTypes
  <2>2. redis' = IF use_redis /\ done
                 THEN [j \in Keys |-> IF j \in {k} THEN call[c].value ELSE redis[j]] ELSE redis
    BY <1>0, <1>2, <2>1 DEF Cache!SetRedis
  <2>3. \A j \in Keys : j \in {k} <=> About(c, j)
    BY <2>1 DEF About
  <2>4. Cache!Written(c, {k}, call[c].value, ok) /\ UNCHANGED <<use_redis, memory>>
    BY <1>2 DEF Cache!SetRedis
  <2> HIDE DEF ok
  <2> QED
    BY <1>1, <2>1, <2>2, <2>3, <2>4 DEF Cache!Writing
<1>3. CASE Cache!DeleteRedis(c, done)
  <2> DEFINE k == call[c].key
  <2>1. call[c].at = "delete_redis" /\ k \in Keys
    BY <1>3 DEF Cache!DeleteRedis, CacheInv, CacheTypes
  <2>2. redis' = IF use_redis /\ done
                 THEN [j \in Keys |-> IF j \in {k} THEN None ELSE redis[j]] ELSE redis
    BY <1>0, <1>3, <2>1 DEF Cache!DeleteRedis
  <2>3. \A j \in Keys : j \in {k} <=> About(c, j)
    BY <2>1 DEF About
  <2>4. Cache!Written(c, {k}, None, ok) /\ UNCHANGED <<use_redis, memory>>
    BY <1>3 DEF Cache!DeleteRedis
  <2> HIDE DEF ok
  <2> QED
    BY <1>1, <2>1, <2>2, <2>3, <2>4 DEF Cache!Writing
<1>4. CASE Cache!ClearRedis(c, done)
  <2>1. call[c].at = "clear_redis"
    BY <1>4 DEF Cache!ClearRedis
  <2>2. redis' = IF use_redis /\ done
                 THEN [j \in Keys |-> IF j \in Keys THEN None ELSE redis[j]] ELSE redis
    BY <1>4 DEF Cache!ClearRedis
  <2>3. \A j \in Keys : j \in Keys <=> About(c, j)
    BY <2>1 DEF About
  <2>4. Cache!Written(c, Keys, None, ok) /\ UNCHANGED <<use_redis, memory>>
    BY <1>4 DEF Cache!ClearRedis
  <2> HIDE DEF ok
  <2> QED
    BY <1>1, <2>1, <2>2, <2>3, <2>4 DEF Cache!Writing
<1> QED
  BY <1>2, <1>3, <1>4

LEMMA CacheSteps ==
    ASSUME SupportAssumption, CacheInv, [Cache!Next]_cacheVars
    PROVE  CacheInv'
<1>0. CacheTypes /\ TierOK
  BY DEF CacheInv
<1>1. \A k \in Keys : Cache!Fresh(k) => memory[k].value \in Values
  BY <1>0 DEF TierOK, IsTier, Cache!Fresh
<1>2. ASSUME NEW k \in Keys, Cache!MemoryGet(k) PROVE TierOK' /\ Fewer
  <2>1. CASE Cache!Fresh(k)
    <3> DEFINE v == memory[k].value
    <3>1. memory' = Cache!Latest(memory, k, v) /\ v \in Values /\ k \in DOMAIN memory
          /\ v = memory[k].value /\ IsTier(memory)
      BY <1>0, <1>1, <1>2, <2>1 DEF Cache!MemoryGet, Cache!Fresh, TierOK
    <3> HIDE DEF v
    <3>2. /\ IsTier(memory') /\ DOMAIN memory' = DOMAIN memory
          /\ \A j \in DOMAIN memory : memory'[j].value = memory[j].value
      <4>1. /\ IsTier(memory') /\ DOMAIN memory' = DOMAIN memory \cup {k} /\ memory'[k].value = v
            /\ \A j \in DOMAIN memory \ {k} : memory'[j].value = memory[j].value
        BY <3>1, LatestKeeps
      <4> QED
        BY <3>1, <4>1
    <3>3. IsTier(memory)'
      BY <3>2 DEF IsTier
    <3> QED
      BY <1>0, <3>2, <3>3 DEF TierOK, Fewer
  <2>2. CASE ~ Cache!Fresh(k)
    BY <1>0, <1>2, <2>2, RetainGives DEF Cache!MemoryGet, Cache!Without
  <2> QED
    BY <2>1, <2>2
<1>3. ASSUME NEW c \in Clients, NEW k \in Keys, Cache!GetMemory(c, k) PROVE CacheInv'
  <2>1. call[c] = Cache!Idle /\ TierOK' /\ Fewer /\ UNCHANGED <<use_redis, redis, truth, suspect>>
    BY <1>2, <1>3 DEF Cache!GetMemory
  <2>2. CASE call' = call
    BY <1>0, <2>1, <2>2, QuietKeeps DEF CacheTypes
  <2>3. CASE Cache!Starts(c, {k}, [Cache!Idle EXCEPT !.at = "get_redis", !.key = k], FALSE)
    <3> DEFINE new == [Cache!Idle EXCEPT !.at = "get_redis", !.key = k]
    <3>1. /\ new \in [at : {"get_redis"} \cup Cache!Writing, key : Keys \cup {None},
                      value : Values \cup {None}, met : BOOLEAN]
          /\ new.at = "get_redis" /\ new.key = k
      BY DEF Cache!Idle
    <3>2. Cache!Starts(c, {k}, new, FALSE)
      BY <2>3
    <3> HIDE DEF new
    <3>3. (new.at \in Cache!Writing) = FALSE /\ new.at \notin Cache!Writing
      BY <3>1 DEF Cache!Writing
    <3>4. Cache!Starts(c, {k}, new, new.at \in Cache!Writing)
      BY <3>2, <3>3
    <3>5. \A j \in DOMAIN memory' :
            IF j \in {k} /\ new.at \in Cache!Writing
            THEN new.at = "set_redis" /\ memory'[j].value = new.value
            ELSE j \in DOMAIN memory /\ memory'[j].value = memory[j].value
      BY <2>1, <3>3 DEF Fewer
    <3>6. /\ suspect' = IF new.at \in Cache!Writing THEN suspect \cup {k} ELSE suspect
          /\ UNCHANGED <<use_redis, redis, truth>> /\ {k} \in SUBSET Keys
          /\ \A j \in Keys : j \in {k} <=> new.key = j \/ new.at = "clear_redis"
          /\ new.at # "clear_redis" => new.key \in Keys
          /\ new.at = "set_redis" => new.value \in Values
      BY <2>1, <3>1, <3>3
    <3> QED
      BY <2>1, <3>1, <3>4, <3>5, <3>6, CallStarts
  <2> QED
    BY <1>3, <2>2, <2>3 DEF Cache!GetMemory
<1>4. ASSUME NEW c \in Clients, NEW k \in Keys, NEW v \in Values, Cache!SetMemory(c, k, v)
      PROVE  CacheInv'
  <2> DEFINE new == [Cache!Idle EXCEPT !.at = "set_redis", !.key = k, !.value = v]
  <2>1. /\ new \in [at : {"get_redis"} \cup Cache!Writing, key : Keys \cup {None},
                    value : Values \cup {None}, met : BOOLEAN]
        /\ new.at = "set_redis" /\ new.key = k /\ new.value = v
    BY DEF Cache!Idle, Cache!Writing
  <2>2. /\ call[c] = Cache!Idle /\ Cache!Starts(c, {k}, new, TRUE) /\ Cache!MemorySet(k, v)
        /\ suspect' = suspect \cup {k} /\ UNCHANGED <<use_redis, redis, truth>>
    BY <1>4 DEF Cache!SetMemory
  <2> HIDE DEF new
  <2>3. (new.at \in Cache!Writing) = TRUE
    BY <2>1 DEF Cache!Writing
  <2>4. Cache!Starts(c, {k}, new, new.at \in Cache!Writing)
    BY <2>2, <2>3
  <2>5. TierOK' /\ \A j \in DOMAIN memory' :
                      IF j \in {k} THEN memory'[j].value = v
                      ELSE j \in DOMAIN memory /\ memory'[j].value = memory[j].value
    BY <1>0, <2>2, SetGives
  <2> QED
    BY <2>1, <2>2, <2>3, <2>4, <2>5, CallStarts
<1>5. ASSUME NEW c \in Clients, NEW k \in Keys, Cache!DeleteMemory(c, k) PROVE CacheInv'
  <2> DEFINE new == [Cache!Idle EXCEPT !.at = "delete_redis", !.key = k]
  <2>1. /\ new \in [at : {"get_redis"} \cup Cache!Writing, key : Keys \cup {None},
                    value : Values \cup {None}, met : BOOLEAN]
        /\ new.at = "delete_redis" /\ new.key = k
    BY DEF Cache!Idle, Cache!Writing
  <2>2. /\ call[c] = Cache!Idle /\ Cache!Starts(c, {k}, new, TRUE)
        /\ memory' = Cache!Retain(memory, DOMAIN memory \ {k})
        /\ suspect' = suspect \cup {k} /\ UNCHANGED <<use_redis, redis, truth>>
    BY <1>5 DEF Cache!DeleteMemory, Cache!Without
  <2> HIDE DEF new
  <2>3. (new.at \in Cache!Writing) = TRUE
    BY <2>1 DEF Cache!Writing
  <2>4. Cache!Starts(c, {k}, new, new.at \in Cache!Writing)
    BY <2>2, <2>3
  <2>5. TierOK' /\ Fewer /\ DOMAIN memory' = DOMAIN memory \ {k}
    <3> DEFINE S == DOMAIN memory \ {k}
    <3>1. S \in SUBSET (DOMAIN memory) /\ memory' = Cache!Retain(memory, S)
      BY <2>2
    <3> HIDE DEF S
    <3>2. TierOK' /\ Fewer /\ DOMAIN memory' = S
      BY <1>0, <3>1, RetainGives
    <3> QED
      BY <3>2 DEF S
  <2>6. \A j \in DOMAIN memory' :
          IF j \in {k} /\ new.at \in Cache!Writing
          THEN new.at = "set_redis" /\ memory'[j].value = new.value
          ELSE j \in DOMAIN memory /\ memory'[j].value = memory[j].value
    BY <2>5 DEF Fewer
  <2>7. /\ suspect' = IF new.at \in Cache!Writing THEN suspect \cup {k} ELSE suspect
        /\ {k} \in SUBSET Keys
        /\ \A j \in Keys : j \in {k} <=> new.key = j \/ new.at = "clear_redis"
        /\ new.at # "clear_redis" => new.key \in Keys
        /\ new.at = "set_redis" => new.value \in Values
    BY <2>1, <2>2, <2>3
  <2> QED
    BY <2>1, <2>2, <2>4, <2>5, <2>6, <2>7, CallStarts
<1>6. ASSUME NEW c \in Clients, Cache!ClearMemory(c) PROVE CacheInv'
  <2> DEFINE new == [Cache!Idle EXCEPT !.at = "clear_redis"]
  <2>1. /\ new \in [at : {"get_redis"} \cup Cache!Writing, key : Keys \cup {None},
                    value : Values \cup {None}, met : BOOLEAN]
        /\ new.at = "clear_redis"
    BY DEF Cache!Idle, Cache!Writing
  <2>2. /\ call[c] = Cache!Idle /\ Cache!Starts(c, Keys, new, TRUE) /\ DOMAIN memory' = {}
        /\ suspect' = Keys /\ UNCHANGED <<use_redis, redis, truth>>
    BY <1>6 DEF Cache!ClearMemory, Cache!Nothing
  <2> HIDE DEF new
  <2>3. (new.at \in Cache!Writing) = TRUE
    BY <2>1 DEF Cache!Writing
  <2>4. Cache!Starts(c, Keys, new, new.at \in Cache!Writing)
    BY <2>2, <2>3
  <2>5. suspect' = suspect \cup Keys
    BY <1>0, <2>2 DEF CacheTypes
  <2>6. TierOK'
    BY <2>2, FS_EmptySet, CacheConstants DEF TierOK, IsTier
  <2> QED
    BY <2>1, <2>2, <2>3, <2>4, <2>5, <2>6, CallStarts
<1>7. ASSUME NEW c \in Clients, NEW reply \in BOOLEAN, Cache!GetRedis(c, reply) PROVE CacheInv'
  <2> DEFINE k == call[c].key
  <2>1. /\ call[c].at = "get_redis" /\ k \in Keys
        /\ UNCHANGED <<use_redis, memory, redis, truth, suspect>>
    BY <1>0, <1>7 DEF Cache!GetRedis, Cache!stores, CacheTypes
  <2>2. CASE call' = [call EXCEPT ![c] = Cache!Idle]
    <3>1. call[c].at \notin Cache!Writing
      BY <2>1 DEF Cache!Writing
    <3>2. TierOK'
      BY <1>0, <2>1 DEF TierOK, IsTier
    <3>3. \A j \in DOMAIN memory' : j \in DOMAIN memory /\ memory'[j].value = memory[j].value
      BY <2>1
    <3> QED
      BY <2>1, <2>2, <3>1, <3>2, <3>3, ReadEnds
  <2>3. CASE redis[k] # None /\ call' = [call EXCEPT ![c].at = "fill", ![c].value = redis[k]]
    BY <2>1, <2>3, ReadFinds
  <2> QED
    BY <1>7, <2>2, <2>3 DEF Cache!GetRedis
<1>8. ASSUME NEW c \in Clients, Cache!GetFill(c) PROVE CacheInv'
  BY <1>8, FillKeeps
<1>9. ASSUME NEW c \in Clients, NEW done \in BOOLEAN,
             \/ Cache!SetRedis(c, done) \/ Cache!DeleteRedis(c, done) \/ Cache!ClearRedis(c, done)
      PROVE  CacheInv'
  BY <1>9, WriteEnds
<1>10. ASSUME NEW k \in Keys, Cache!Lapse(k) PROVE CacheInv'
  <2>1. /\ k \in DOMAIN memory /\ memory' = [memory EXCEPT ![k].fresh = FALSE]
        /\ UNCHANGED <<use_redis, redis, call, truth, suspect>>
    BY <1>10 DEF Cache!Lapse, Cache!Fresh
  <2>2. DOMAIN memory' = DOMAIN memory
        /\ \A j \in DOMAIN memory :
              memory'[j] = IF j = k THEN [memory[j] EXCEPT !.fresh = FALSE] ELSE memory[j]
    BY <2>1
  <2>3. ASSUME NEW j \in DOMAIN memory
        PROVE  /\ memory'[j] \in [value : Values, fresh : BOOLEAN, older : SUBSET (DOMAIN memory \ {j})]
               /\ memory'[j].value = memory[j].value /\ memory'[j].older = memory[j].older
    <3>1. memory[j] \in [value : Values, fresh : BOOLEAN, older : SUBSET (DOMAIN memory \ {j})]
      BY <1>0 DEF TierOK, IsTier
    <3>2. CASE j = k
      BY <2>2, <3>1, <3>2
    <3>3. CASE j # k
      BY <2>2, <3>1, <3>3
    <3> QED
      BY <3>2, <3>3
  <2>4. TierOK' /\ Fewer
    BY <1>0, <2>2, <2>3 DEF TierOK, IsTier, Fewer
  <2> QED
    BY <1>0, <2>1, <2>4, QuietKeeps DEF CacheTypes
<1>11. ASSUME NEW k \in Keys, Cache!RedisLapse(k) PROVE CacheInv'
  <2>1. redis' = [redis EXCEPT ![k] = None] /\ UNCHANGED <<use_redis, memory, call, truth, suspect>>
    BY <1>11 DEF Cache!RedisLapse
  <2>2. TierOK' /\ Fewer
    BY <1>0, <2>1 DEF TierOK, IsTier, Fewer
  <2>3. redis' \in [Keys -> Values \cup {None}] /\ \A j \in Keys : redis'[j] \in {redis[j], None}
    BY <1>0, <2>1 DEF CacheTypes
  <2> QED
    BY <2>1, <2>2, <2>3, QuietKeeps
<1>12. CASE Cache!CleanupExpired
  <2> DEFINE S == {k \in DOMAIN memory : memory[k].fresh}
  <2>1. S \in SUBSET (DOMAIN memory) /\ memory' = Cache!Retain(memory, S)
        /\ UNCHANGED <<use_redis, redis, call, truth, suspect>>
    BY <1>12 DEF Cache!CleanupExpired
  <2> HIDE DEF S
  <2>2. TierOK' /\ Fewer
    BY <1>0, <2>1, RetainGives
  <2> QED
    BY <1>0, <2>1, <2>2, QuietKeeps DEF CacheTypes
<1>13. CASE UNCHANGED cacheVars
  <2>1. TierOK' /\ Fewer
    BY <1>0, <1>13 DEF cacheVars, TierOK, IsTier, Fewer
  <2> QED
    BY <1>0, <1>13, <2>1, QuietKeeps DEF cacheVars, CacheTypes
<1> QED
  BY <1>3, <1>4, <1>5, <1>6, <1>7, <1>8, <1>9, <1>10, <1>11, <1>12, <1>13 DEF Cache!Next

\* Tiers are written one after the other under different locks, and Redis may fail at
\* either side of each call; still, with no other call on the key and no fault, a get
\* finds the last value written or nothing (CacheManager::get, set, delete, clear).
THEOREM StaleNeedsRaceOrFault == Spec => []StaleNeedsARace
<1> DEFINE Inv == focus = "cache" => CacheInv
<1>1. Init => Inv
  BY SupportAssumption, CacheStart DEF Init
<1>2. Inv /\ [Next]_vars => Inv'
  BY SupportAssumption, CacheSteps DEF Next, vars
<1>3. Inv => StaleNeedsARace
  BY DEF StaleNeedsARace, CacheInv
<1> QED
  BY <1>1, <1>2, <1>3, PTL DEF Spec

-----------------------------------------------------------------------------
\* Types

LEMMA CacheTyped == CacheInv => Cache!TypeOK
<1> SUFFICES ASSUME CacheInv PROVE Cache!TypeOK
  OBVIOUS
<1>1. CacheTypes /\ IsTier(memory) /\ Cardinality(DOMAIN memory) <= MaxSize
  BY DEF CacheInv, TierOK
<1>2. Cache!Cardinality(DOMAIN memory) = Cardinality(DOMAIN memory)
  BY DEF Cache!Cardinality, Cardinality
<1>3. /\ DOMAIN memory \subseteq Keys
      /\ \A k \in DOMAIN memory :
            memory[k] \in [value : Values, fresh : BOOLEAN, older : SUBSET (DOMAIN memory \ {k})]
      /\ \A k \in DOMAIN memory : \A j \in DOMAIN memory \ {k} :
            j \in memory[k].older <=> k \notin memory[j].older
  BY <1>1 DEF IsTier
<1>4. ~ use_redis => redis = [k \in Keys |-> None]
  BY <1>1 DEF CacheTypes
<1> QED
  BY <1>1, <1>2, <1>3, <1>4 DEF Cache!TypeOK, CacheTypes

LEMMA PermitsTyped == PermitsInv => Permits!TypeOK
<1> SUFFICES ASSUME PermitsInv PROVE Permits!TypeOK
  OBVIOUS
<1>0. ListTypes /\ SemaphoreTypes /\ TaskTypes
  BY DEF PermitsInv, PermitTypes
<1>1. DOMAIN active_tasks \subseteq Nat
      /\ \A i \in DOMAIN active_tasks : active_tasks[i] \in [id : Tasks, load : Loads, late : BOOLEAN]
  BY <1>0 DEF ListTypes, Entry
<1>2. semaphore \in [Handles -> SUBSET Nat] /\ {adjusts, most} \subseteq Nat
      /\ \A h \in Handles : Permits!Cardinality(semaphore[h]) \in Concurrency
  BY <1>0, CountIsCardinality DEF SemaphoreTypes
<1>3. task \in [Tasks -> [at : {"out", "permit", "checked", "running"}, permit : Nat,
                          load : Loads \cup {0}, by : Handles \cup {None}]]
  BY <1>0 DEF TaskTypes, IsTask, TaskRecord
<1>4. \A s, t \in Tasks : task[s].permit = task[t].permit /\ s # t => task[s].at = "out"
  BY <1>0 DEF TaskTypes, IsTask, Apart, Permits!Out
<1> QED
  BY <1>1, <1>2, <1>3, <1>4 DEF Permits!TypeOK
=============================================================================
