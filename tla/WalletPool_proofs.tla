-------------------------- MODULE WalletPool_proofs --------------------------
(***************************************************************************)
(* Proofs about WalletPool: its three stores and the concurrent callers,   *)
(* for any number of wallets, users, administrators, changes and           *)
(* selections.                                                             *)
(***************************************************************************)
EXTENDS WalletPool, FiniteSetTheorems, WellFoundedInduction, TLAPS

USE PoolAssumption

-----------------------------------------------------------------------------
\* A set of numbers has a least element, which Min names.

Before == {p \in Nat \X Nat : p[1] < p[2]}

LEMMA BeforeIsWellFounded == IsWellFoundedOn(Before, Nat)
<1>1. Before = OpToRel(<, Nat)
  BY DEF Before, OpToRel
<1> QED BY <1>1, NatLessThanWellFounded

LEMMA Least ==
  ASSUME NEW T \in SUBSET Nat, T # {}
  PROVE  \E m \in T : \A n \in T : m <= n
<1>1. PICK m \in T : \A n \in T : ~ (<<n, m>> \in Before)
  BY BeforeIsWellFounded, WFMin
<1>2. ASSUME NEW n \in T PROVE m <= n
  <2>1. ~ (<<n, m>> \in Before) /\ m \in Nat /\ n \in Nat
    BY <1>1
  <2>2. ~ (n < m)
    BY <2>1 DEF Before
  <2> QED BY <2>1, <2>2
<1> QED BY <1>2

LEMMA MinIsLeast ==
  ASSUME NEW T \in SUBSET Nat, T # {}
  PROVE  Min(T) \in T /\ \A n \in T : Min(T) <= n
  BY Least DEF Min

-----------------------------------------------------------------------------
\* Types

\* What a list of the code can be: IsList as a set.
Lists == UNION {[S -> Addresses] : S \in SUBSET (1 .. clock)}

Info   == [address : Addresses, total : Nat, failed : Nat]
Counts == [total : Nat, ok : Nat, last : Nat]
Calls  == [at : Places, acquiring : BOOLEAN, seen : Lists, wallet : Addresses \cup {None}]

StoreTypes ==
    /\ strategy \in Strategies
    /\ changes \in Nat /\ changed \subseteq Addresses /\ mixed \subseteq Addresses
    /\ clock \in Nat /\ uses \in Nat
    /\ DOMAIN wallets \subseteq 1 .. clock /\ wallets \in [DOMAIN wallets -> Info]
    /\ active \in Lists /\ IsInjective(active)
    /\ DOMAIN usage \subseteq Addresses /\ usage \in [DOMAIN usage -> Counts]
    /\ raced \in [Users -> BOOLEAN]
    /\ passed \in [Addresses -> [Addresses -> Nat]]

ChangeCalls == [at : {"idle"} \cup Adding \cup Removing, address : Addresses \cup {None}]

\* A change under way has an address.
AdminTypes ==
    /\ admin \in [Admins -> ChangeCalls]
    /\ \A m \in Admins : /\ admin[m].at = "idle" => admin[m] = NoChange
                         /\ admin[m].at # "idle" => admin[m].address \in Addresses

\* Who selects has seen a wallet, and who is past the selection has one.
CallTypes ==
    /\ call \in [Users -> Calls]
    /\ \A u \in Users : call[u].at = "select" => DOMAIN call[u].seen # {}
    /\ \A u \in Users : call[u].at \notin {"idle", "select"} => call[u].wallet \in Addresses

Types == StoreTypes /\ AdminTypes /\ CallTypes

LEMMA InfoCounts ==
  ASSUME NEW w \in Info, NEW f \in Nat
  PROVE  LET v == [w EXCEPT !.total = @ + 1, !.failed = f] IN
         v \in Info /\ v.address = w.address /\ v.total = w.total + 1 /\ v.failed = f
<1> DEFINE v == [w EXCEPT !.total = @ + 1]
<1>1. w.address \in Addresses /\ w.total \in Nat /\ w.failed \in Nat
  BY DEF Info
<1>2. v = [address |-> w.address, total |-> w.total + 1, failed |-> w.failed]
  BY DEF Info
<1>3. [v EXCEPT !.failed = f] = [address |-> w.address, total |-> w.total + 1, failed |-> f]
  <2> HIDE DEF v
  <2> QED BY <1>2
<1> QED BY <1>1, <1>3 DEF Info

LEMMA UsageCounts ==
  ASSUME NEW w \in Counts, NEW n \in Nat, NEW t \in Nat
  PROVE  [w EXCEPT !.total = @ + 1, !.ok = n, !.last = t]
            = [total |-> w.total + 1, ok |-> n, last |-> t]
<1> DEFINE v == [w EXCEPT !.total = @ + 1]
           x == [v EXCEPT !.ok = n]
<1>1. w.total \in Nat
  BY DEF Counts
<1>2. v = [total |-> w.total + 1, ok |-> w.ok, last |-> w.last]
  BY DEF Counts
<1>3. x = [total |-> w.total + 1, ok |-> n, last |-> w.last]
  <2> HIDE DEF v
  <2> QED BY <1>2
<1>4. [x EXCEPT !.last = t] = [total |-> w.total + 1, ok |-> n, last |-> t]
  <2> HIDE DEF x
  <2> QED BY <1>3
<1> QED BY <1>4

LEMMA InLists ==
  ASSUME clock \in Nat, NEW f \in Lists
  PROVE  /\ DOMAIN f \subseteq 1 .. clock /\ DOMAIN f \subseteq Nat
         /\ f \in [DOMAIN f -> Addresses]
         /\ Range(f) \subseteq Addresses
<1>1. PICK S \in SUBSET (1 .. clock) : f \in [S -> Addresses]
  BY DEF Lists
<1>2. DOMAIN f = S /\ f \in [DOMAIN f -> Addresses] /\ S \subseteq 1 .. clock
  BY <1>1
<1> QED BY <1>2 DEF Range

LEMMA ListsOf ==
  ASSUME NEW S \in SUBSET (1 .. clock), NEW f \in [S -> Addresses]
  PROVE  f \in Lists
  BY DEF Lists

LEMMA ListsGrow ==
  ASSUME clock \in Nat, clock' \in {clock, clock + 1}
  PROVE  clock' \in Nat /\ 1 .. clock \subseteq 1 .. clock' /\ Lists \subseteq Lists'
<1>1. clock' \in Nat /\ 1 .. clock \subseteq 1 .. clock'
  OBVIOUS
<1>2. SUBSET (1 .. clock) \subseteq SUBSET (1 .. clock')
  BY <1>1
<1> QED BY <1>1, <1>2 DEF Lists

LEMMA ScanInList ==
  ASSUME clock \in Nat, NEW seen \in Lists, DOMAIN seen # {}
  PROVE  Scan(seen) \in Range(seen)
<1> DEFINE best == {i \in DOMAIN seen : Eligible(seen[i]) /\
                     \A j \in DOMAIN seen : Eligible(seen[j]) => ~ Better(seen[j], seen[i])}
<1>1. DOMAIN seen \in SUBSET Nat /\ best \in SUBSET Nat /\ best \subseteq DOMAIN seen
  BY InLists
<1>2. Min(DOMAIN seen) \in DOMAIN seen
  BY <1>1, MinIsLeast
<1>3. best # {} => Min(best) \in DOMAIN seen
  BY <1>1, MinIsLeast
<1>4. Scan(seen) = IF best = {} THEN seen[Min(DOMAIN seen)] ELSE seen[Min(best)]
  BY DEF Scan
<1> HIDE DEF best
<1> QED BY <1>2, <1>3, <1>4 DEF Range

LEMMA AllTypesInit == Init => Types
<1> SUFFICES ASSUME Init PROVE Types
  OBVIOUS
<1>1. clock = Len(Initial) /\ clock \in Nat
  BY DEF Init
<1>2. DOMAIN Initial = 1 .. clock /\ Initial \in [1 .. clock -> Addresses]
  BY <1>1
<1>3. Initial \in Lists
  BY <1>2, ListsOf
<1>4. << >> \in Lists
  <2>1. << >> \in [{} -> Addresses]
    OBVIOUS
  <2> QED BY <2>1 DEF Lists
<1>5. wallets \in [1 .. clock -> Info]
  BY <1>2 DEF Init, Info, NewInfo
<1>6. /\ usage \in [Range(Initial) -> Counts] /\ Range(Initial) \subseteq Addresses
  <2>1. Range(Initial) \subseteq Addresses
    BY <1>1, <1>3, InLists
  <2>2. ASSUME NEW a \in Range(Initial)
        PROVE  NewUsage(CHOOSE i \in DOMAIN Initial : Initial[i] = a) \in Counts
    <3>1. \E i \in DOMAIN Initial : Initial[i] = a
      BY DEF Range
    <3>2. (CHOOSE i \in DOMAIN Initial : Initial[i] = a) \in Nat
      BY <1>1, <1>2, <3>1
    <3> QED BY <3>2 DEF NewUsage, Counts
  <2> QED BY <2>1, <2>2 DEF Init
<1>7. StoreTypes
  BY <1>1, <1>2, <1>3, <1>5, <1>6 DEF Init, StoreTypes
<1>8. AdminTypes
  BY DEF Init, AdminTypes, NoChange, ChangeCalls
<1>9. CallTypes
  <2>1. Idle \in Calls /\ Idle.at = "idle"
    BY <1>4 DEF Idle, Calls, Places
  <2> HIDE DEF Idle
  <2> QED BY <2>1 DEF Init, CallTypes
<1> QED BY <1>7, <1>8, <1>9 DEF Types

\* The call of one administrator moves on.
LEMMA AdminMoves ==
  ASSUME AdminTypes, NEW m \in Admins, NEW c \in ChangeCalls, admin' = [admin EXCEPT ![m] = c],
         c.at = "idle" => c = NoChange, c.at # "idle" => c.address \in Addresses
  PROVE  AdminTypes'
  BY DEF AdminTypes

\* How the call of an administrator begins, goes on and ends.
LEMMA Beginning ==
  ASSUME Types, NEW m \in Admins, NEW a \in Addresses, NEW next \in {"add_active", "remove_active"},
         Begin(m, a, next)
  PROVE  /\ admin[m].at = "idle" /\ admin' = [admin EXCEPT ![m] = [at |-> next, address |-> a]]
         /\ AdminTypes' /\ changed' = changed \cup {a}
         /\ changes' \in Nat /\ changed' \subseteq Addresses /\ mixed' \subseteq Addresses
         /\ mixed \ {a} \subseteq mixed' /\ mixed' \subseteq mixed \cup {a}
<1>1. /\ admin[m] = NoChange /\ admin' = [admin EXCEPT ![m] = [at |-> next, address |-> a]]
      /\ changes' = changes + 1 /\ changed' = changed \cup {a}
      /\ mixed' \in {mixed, mixed \cup {a}, mixed \ {a}}
  BY DEF Begin
<1>2. admin[m].at = "idle"
  BY <1>1 DEF NoChange
<1> DEFINE c == [at |-> next, address |-> a]
<1>3. c \in ChangeCalls /\ c.at # "idle" /\ c.address \in Addresses
  BY DEF ChangeCalls, Adding, Removing
<1>4. admin' = [admin EXCEPT ![m] = c]
  BY <1>1
<1> HIDE DEF c
<1>5. AdminTypes'
  BY <1>3, <1>4, AdminMoves DEF Types
<1>6. changes \in Nat /\ changed \subseteq Addresses /\ mixed \subseteq Addresses
  BY DEF Types, StoreTypes
<1>7. changes' \in Nat
  BY <1>1, <1>6
<1>8. changed' \subseteq Addresses /\ mixed' \subseteq Addresses
  BY <1>1, <1>6
<1>9. mixed \ {a} \subseteq mixed' /\ mixed' \subseteq mixed \cup {a}
  BY <1>1
<1> QED BY <1>1, <1>2, <1>5, <1>7, <1>8, <1>9

LEMMA Continuing ==
  ASSUME Types, NEW m \in Admins, NEW at \in Adding \cup Removing,
         NEW next \in Adding \cup Removing, Continue(m, at, next)
  PROVE  /\ admin[m].at = at /\ admin[m].address \in Addresses /\ AdminTypes'
         /\ admin' = [admin EXCEPT ![m] = [at |-> next, address |-> admin[m].address]]
<1>1. admin[m].at = at /\ admin' = [admin EXCEPT ![m].at = next]
  BY DEF Continue
<1>2. admin[m] \in ChangeCalls /\ admin[m].address \in Addresses /\ next # "idle"
  BY <1>1 DEF Types, AdminTypes, Adding, Removing
<1> DEFINE c == [at |-> next, address |-> admin[m].address]
<1>3. [admin[m] EXCEPT !.at = next] = c
  BY <1>2 DEF ChangeCalls
<1>4. admin' = [admin EXCEPT ![m] = c]
  BY <1>1, <1>3
<1>5. c \in ChangeCalls /\ c.at # "idle" /\ c.address \in Addresses
  BY <1>2 DEF ChangeCalls
<1>6. AdminTypes'
  <2> HIDE DEF c
  <2> QED BY <1>4, <1>5, AdminMoves DEF Types
<1> QED BY <1>1, <1>2, <1>4, <1>6

LEMMA Ending ==
  ASSUME Types, NEW m \in Admins, NEW at \in Adding \cup Removing, End(m, at)
  PROVE  /\ admin[m].at = at /\ admin[m].address \in Addresses /\ AdminTypes'
         /\ admin' = [admin EXCEPT ![m] = NoChange]
<1>1. admin[m].at = at /\ admin' = [admin EXCEPT ![m] = NoChange]
  BY DEF End
<1>2. admin[m].address \in Addresses
  BY <1>1 DEF Types, AdminTypes, Adding, Removing
<1>3. NoChange \in ChangeCalls /\ NoChange.at = "idle"
  BY DEF NoChange, ChangeCalls
<1>4. AdminTypes'
  BY <1>1, <1>3, AdminMoves DEF Types
<1> QED BY <1>1, <1>2, <1>4

LEMMA AdminTypesInductive ==
  ASSUME Types, NEW m \in Admins, AdminStep(m)
  PROVE  StoreTypes' /\ AdminTypes' /\ clock' \in {clock, clock + 1}
<1>0. clock \in Nat
  BY DEF Types, StoreTypes
<1> DEFINE b == admin[m].address
<1>1. ASSUME NEW a \in Addresses, AddWallet(m, a)
      PROVE  StoreTypes' /\ AdminTypes' /\ clock' \in {clock, clock + 1}
  <2>1. /\ AdminTypes' /\ changes' \in Nat /\ changed' \subseteq Addresses /\ mixed' \subseteq Addresses
        /\ clock' = clock + 1
    BY <1>1, Beginning DEF AddWallet
  <2>2. clock' \in Nat /\ 1 .. clock \subseteq 1 .. clock' /\ Lists \subseteq Lists'
    BY <1>0, <2>1, ListsGrow
  <2>3. NewInfo(a) \in Info
    BY DEF NewInfo, Info
  <2>4. /\ DOMAIN wallets' = DOMAIN wallets \cup {clock + 1}
        /\ wallets' \in [DOMAIN wallets \cup {clock + 1} -> Info]
    <3>1. wallets' = Put(wallets, clock + 1, NewInfo(a)) /\ wallets \in [DOMAIN wallets -> Info]
      BY <1>1 DEF AddWallet, Types, StoreTypes
    <3> QED BY <2>3, <3>1 DEF Put
  <2>5. DOMAIN wallets' \subseteq 1 .. clock'
    BY <1>0, <2>1, <2>2, <2>4 DEF Types, StoreTypes
  <2>6. StoreTypes'
    BY <1>1, <2>1, <2>2, <2>4, <2>5 DEF AddWallet, Types, StoreTypes
  <2> QED BY <2>1, <2>6
<1>2. ASSUME NEW a \in Addresses, RemoveWallet(m, a)
      PROVE  StoreTypes' /\ AdminTypes' /\ clock' \in {clock, clock + 1}
  <2>1. /\ AdminTypes' /\ changes' \in Nat /\ changed' \subseteq Addresses /\ mixed' \subseteq Addresses
        /\ clock' = clock
    BY <1>2, Beginning DEF RemoveWallet
  <2> DEFINE D == {i \in DOMAIN wallets : wallets[i].address # a}
  <2>4. wallets' \in [D -> Info]
    <3>1. wallets' = Restrict(wallets, D) /\ wallets \in [DOMAIN wallets -> Info]
      BY <1>2 DEF RemoveWallet, Types, StoreTypes
    <3> QED BY <3>1 DEF Restrict
  <2>5. DOMAIN wallets' \subseteq 1 .. clock' /\ wallets' \in [DOMAIN wallets' -> Info]
    BY <2>1, <2>4 DEF Types, StoreTypes
  <2>6. Lists' = Lists
    BY <2>1 DEF Lists
  <2>7. StoreTypes'
    BY <1>2, <2>1, <2>5, <2>6 DEF RemoveWallet, Types, StoreTypes
  <2> QED BY <2>1, <2>7
<1>4. CASE AddActive(m)
  <2>1. AdminTypes' /\ b \in Addresses /\ clock' = clock + 1
    BY <1>4, Continuing DEF AddActive, Adding
  <2>2. clock' \in Nat /\ 1 .. clock \subseteq 1 .. clock' /\ Lists \subseteq Lists'
    BY <1>0, <2>1, ListsGrow
  <2>3. active' \in Lists' /\ IsInjective(active')
    <3>1. CASE active' = active
      BY <2>2, <3>1 DEF Types, StoreTypes
    <3>2. CASE b \notin Range(active) /\ active' = Put(active, clock + 1, b)
      <4>1. active \in [DOMAIN active -> Addresses] /\ DOMAIN active \subseteq 1 .. clock
        BY <1>0, InLists DEF Types, StoreTypes
      <4>2. clock + 1 \notin DOMAIN active
        BY <1>0, <4>1
      <4>3. /\ DOMAIN active' = DOMAIN active \cup {clock + 1}
            /\ active'[clock + 1] = b
            /\ \A j \in DOMAIN active : active'[j] = active[j]
            /\ active' \in [DOMAIN active \cup {clock + 1} -> Addresses]
        BY <2>1, <3>2, <4>1, <4>2 DEF Put
      <4>4. DOMAIN active \cup {clock + 1} \subseteq 1 .. clock'
        BY <1>0, <2>1, <2>2, <4>1
      <4>5. active' \in Lists'
        BY <4>3, <4>4 DEF Lists
      <4>6. IsInjective(active')
        <5>1. \A j \in DOMAIN active : active[j] # b
          BY <3>2 DEF Range
        <5>2. IsInjective(active)
          BY DEF Types, StoreTypes
        <5> QED BY <4>3, <5>1, <5>2 DEF IsInjective
      <4> QED BY <4>5, <4>6
    <3> QED BY <1>4, <3>1, <3>2 DEF AddActive, Activated
  <2>4. StoreTypes'
    BY <1>4, <2>1, <2>2, <2>3 DEF AddActive, history, Types, StoreTypes
  <2> QED BY <2>1, <2>4
<1>5. CASE AddUsage(m)
  <2>1. AdminTypes' /\ b \in Addresses /\ clock' = clock + 1
    BY <1>5, Ending DEF AddUsage, Adding
  <2>2. clock' \in Nat /\ 1 .. clock \subseteq 1 .. clock' /\ Lists \subseteq Lists'
    BY <1>0, <2>1, ListsGrow
  <2>3. NewUsage(clock + 1) \in Counts
    BY <1>0 DEF NewUsage, Counts
  <2>4. /\ DOMAIN usage' = DOMAIN usage \cup {b}
        /\ usage' \in [DOMAIN usage \cup {b} -> Counts]
    <3>1. usage' = Put(usage, b, NewUsage(clock + 1)) /\ usage \in [DOMAIN usage -> Counts]
      BY <1>5 DEF AddUsage, Types, StoreTypes
    <3> HIDE DEF b
    <3> QED BY <2>3, <3>1 DEF Put
  <2>5. passed' \in [Addresses -> [Addresses -> Nat]]
    BY <1>5 DEF AddUsage, Touched, Types, StoreTypes
  <2>6. DOMAIN usage' \subseteq Addresses /\ usage' \in [DOMAIN usage' -> Counts]
    BY <2>1, <2>4 DEF Types, StoreTypes
  <2>7. DOMAIN wallets' \subseteq 1 .. clock' /\ active' \in Lists'
    BY <1>5, <2>2 DEF AddUsage, Types, StoreTypes
  <2>8. StoreTypes'
    BY <1>5, <2>2, <2>5, <2>6, <2>7 DEF AddUsage, Types, StoreTypes
  <2> QED BY <2>1, <2>8
<1>6. CASE RemoveActive(m)
  <2> DEFINE D == {i \in DOMAIN active : active[i] # b}
  <2>0. AdminTypes' /\ clock' = clock
    BY <1>6, Continuing DEF RemoveActive, Removing
  <2>1. active \in [DOMAIN active -> Addresses] /\ DOMAIN active \subseteq 1 .. clock
    BY <1>0, InLists DEF Types, StoreTypes
  <2>2. active' \in [D -> Addresses] /\ \A j \in D : active'[j] = active[j]
    <3>1. active' = Restrict(active, D)
      BY <1>6 DEF RemoveActive
    <3> QED BY <2>1, <3>1 DEF Restrict
  <2>3. D \subseteq 1 .. clock /\ DOMAIN active' = D
    BY <2>1, <2>2
  <2>4. active' \in Lists
    BY <2>2, <2>3, ListsOf
  <2>5. IsInjective(active')
    BY <2>2, <2>3 DEF IsInjective, Types, StoreTypes
  <2>6. Lists' = Lists
    BY <2>0 DEF Lists
  <2>7. StoreTypes'
    BY <1>6, <2>0, <2>4, <2>5, <2>6 DEF RemoveActive, history, Types, StoreTypes
  <2> QED BY <2>0, <2>7
<1>7. CASE RemoveUsage(m)
  <2>0. AdminTypes' /\ clock' = clock /\ Lists' = Lists
    BY <1>7, Ending DEF RemoveUsage, Removing, Lists
  <2>1. usage' \in [DOMAIN usage \ {b} -> Counts]
    <3>1. usage' = Restrict(usage, DOMAIN usage \ {b}) /\ usage \in [DOMAIN usage -> Counts]
      BY <1>7 DEF RemoveUsage, Types, StoreTypes
    <3> QED BY <3>1 DEF Restrict
  <2>2. DOMAIN usage' \subseteq Addresses /\ usage' \in [DOMAIN usage' -> Counts]
    BY <2>1 DEF Types, StoreTypes
  <2>3. StoreTypes'
    BY <1>7, <2>0, <2>2 DEF RemoveUsage, history, Types, StoreTypes
  <2> QED BY <2>0, <2>3
<1> QED BY <1>1, <1>2, <1>4, <1>5, <1>6, <1>7 DEF AdminStep

\* A user's step leaves the lists alone and keeps its own place in the call in order.
LEMMA UserCall ==
  ASSUME Types, NEW u \in Users, UserStep(u)
  PROVE  /\ UNCHANGED <<admin, active, changes, changed, mixed>>
         /\ clock' \in Nat /\ 1 .. clock \subseteq 1 .. clock' /\ Lists \subseteq Lists'
         /\ CallTypes'
         /\ \A v \in Users \ {u} : call'[v] = call[v]
<1>0. clock \in Nat /\ call \in [Users -> Calls]
  BY DEF Types, StoreTypes, CallTypes
<1>1. UNCHANGED <<admin, active, changes, changed, mixed>> /\ clock' \in {clock, clock + 1}
  BY DEF UserStep, StartChoosing, Select, Find, Touch, ReleaseInfo, ReleaseUsage, stores, history
<1>11. clock' \in Nat /\ 1 .. clock \subseteq 1 .. clock' /\ Lists \subseteq Lists'
  BY <1>0, <1>1, ListsGrow
<1>2. Calls \subseteq Calls'
  BY <1>11 DEF Calls
<1>12. << >> \in Lists
  <2>1. << >> \in [{} -> Addresses]
    OBVIOUS
  <2> QED BY <2>1 DEF Lists
<1>3. Idle \in Calls /\ Idle.at = "idle"
  BY <1>12 DEF Idle, Calls, Places
<1>4. ASSUME NEW c \in Calls, call' = [call EXCEPT ![u] = c],
             c.at = "select" => DOMAIN c.seen # {},
             c.at \notin {"idle", "select"} => c.wallet \in Addresses
      PROVE  CallTypes' /\ \A v \in Users \ {u} : call'[v] = call[v]
  BY <1>0, <1>2, <1>4 DEF Types, CallTypes
<1>5. ASSUME NEW acquiring \in BOOLEAN, StartChoosing(u, acquiring)
      PROVE  CallTypes' /\ \A v \in Users \ {u} : call'[v] = call[v]
  <2> DEFINE c == [at |-> "select", acquiring |-> acquiring, seen |-> active, wallet |-> None]
  <2>1. c \in Calls /\ c.at = "select" /\ c.seen = active
    BY DEF Calls, Places, Types, StoreTypes
  <2>2. call' = [call EXCEPT ![u] = IF DOMAIN active = {} THEN Idle ELSE c]
    BY <1>5 DEF StartChoosing
  <2> HIDE DEF c
  <2>3. CASE DOMAIN active = {}
    BY <1>3, <1>4, <2>2, <2>3
  <2>4. CASE DOMAIN active # {}
    BY <1>4, <2>1, <2>2, <2>4
  <2> QED BY <2>3, <2>4
<1>6. ASSUME Select(u)
      PROVE  CallTypes' /\ \A v \in Users \ {u} : call'[v] = call[v]
  <2>1. call[u] \in Calls /\ DOMAIN call[u].seen # {} /\ call[u].seen \in Lists
    BY <1>0, <1>6 DEF Select, Types, CallTypes, Calls
  <2>2. PICK a \in Range(call[u].seen) : call' = [call EXCEPT ![u] = [@ EXCEPT !.at = "find", !.seen = << >>, !.wallet = a]]
    BY <1>0, <1>6, <2>1, ScanInList DEF Select
  <2>3. a \in Addresses
    BY <1>0, <2>1, <2>2, InLists
  <2> DEFINE c == [call[u] EXCEPT !.at = "find", !.seen = << >>, !.wallet = a]
  <2>4. c \in Calls /\ c.at = "find" /\ c.wallet = a
    BY <1>12, <2>1, <2>3 DEF Calls, Places
  <2>5. call' = [call EXCEPT ![u] = c]
    BY <1>0, <2>2
  <2> HIDE DEF c
  <2> QED BY <1>4, <2>3, <2>4, <2>5
<1>7. ASSUME Find(u)
      PROVE  CallTypes' /\ \A v \in Users \ {u} : call'[v] = call[v]
  <2>1. call[u] \in Calls /\ call[u].wallet \in Addresses
    BY <1>0, <1>7 DEF Find, Types, CallTypes
  <2> DEFINE c == [call[u] EXCEPT !.at = "touch"]
  <2>2. c \in Calls /\ c.at = "touch" /\ c.wallet = call[u].wallet
    BY <2>1 DEF Calls, Places
  <2>3. call' = [call EXCEPT ![u] = c] \/ call' = [call EXCEPT ![u] = Idle]
    BY <1>7 DEF Find
  <2> HIDE DEF c
  <2>4. CASE call' = [call EXCEPT ![u] = c]
    BY <1>4, <2>1, <2>2, <2>4
  <2>5. CASE call' = [call EXCEPT ![u] = Idle]
    BY <1>3, <1>4, <2>5
  <2> QED BY <2>3, <2>4, <2>5
<1>8. ASSUME Touch(u)
      PROVE  CallTypes' /\ \A v \in Users \ {u} : call'[v] = call[v]
  <2>1. call[u] \in Calls /\ call[u].wallet \in Addresses
    BY <1>0, <1>8 DEF Touch, Types, CallTypes
  <2> DEFINE c == [call[u] EXCEPT !.at = "holding"]
  <2>3. c \in Calls /\ c.at = "holding" /\ c.wallet = call[u].wallet
    BY <2>1 DEF Calls, Places
  <2>4. call' = [call EXCEPT ![u] = c]
    BY <1>0, <1>8 DEF Touch
  <2> HIDE DEF c
  <2> QED BY <1>4, <2>1, <2>3, <2>4
<1>9. ASSUME NEW success \in BOOLEAN, ReleaseInfo(u, success)
      PROVE  CallTypes' /\ \A v \in Users \ {u} : call'[v] = call[v]
  <2>1. call[u] \in Calls /\ call[u].wallet \in Addresses
    BY <1>0, <1>9 DEF ReleaseInfo, Types, CallTypes
  <2> DEFINE at == IF success THEN "release_ok" ELSE "release_failed"
             c == [call[u] EXCEPT !.at = at]
  <2>2. c \in Calls /\ c.at = at /\ c.at \notin {"idle", "select"} /\ c.wallet = call[u].wallet
    BY <2>1 DEF Calls, Places
  <2>3. call' = [call EXCEPT ![u] = c]
    BY <1>0, <1>9 DEF ReleaseInfo
  <2> HIDE DEF c, at
  <2> QED BY <1>4, <2>1, <2>2, <2>3
<1>10. ASSUME ReleaseUsage(u)
      PROVE  CallTypes' /\ \A v \in Users \ {u} : call'[v] = call[v]
  <2>1. call' = [call EXCEPT ![u] = Idle]
    BY <1>10 DEF ReleaseUsage
  <2> QED BY <1>3, <1>4, <2>1
<1> QED BY <1>1, <1>11, <1>5, <1>6, <1>7, <1>8, <1>9, <1>10 DEF UserStep

\* How each step of a user moves it on in its call.
LEMMA Moves ==
  ASSUME Types, NEW u \in Users
  PROVE  /\ Select(u) => /\ call[u].at = "select" /\ call'[u].at = "find"
                         /\ call'[u].acquiring = call[u].acquiring
                         /\ call'[u].wallet \in IF strategy = "Random" THEN Range(call[u].seen)
                                                ELSE {Scan(call[u].seen)}
         /\ Find(u) => /\ call[u].at = "find"
                       /\ \/ call'[u] = Idle
                          \/ /\ call'[u].at = "touch" /\ call[u].acquiring
                             /\ call'[u].wallet = call[u].wallet
         /\ Touch(u) => /\ call[u].at = "touch" /\ call'[u].at = "holding"
                        /\ call'[u].wallet = call[u].wallet
         /\ \A success \in BOOLEAN :
               ReleaseInfo(u, success) =>
                  /\ call[u].at = "holding" /\ call'[u].wallet = call[u].wallet
                  /\ call'[u].at = IF success THEN "release_ok" ELSE "release_failed"
         /\ ReleaseUsage(u) => /\ call[u].at \in {"release_ok", "release_failed"}
                               /\ call'[u] = Idle
<1>0. call \in [Users -> Calls] /\ call[u] \in Calls
  BY DEF Types, CallTypes
<1>1. ASSUME NEW c, call' = [call EXCEPT ![u] = c] PROVE call'[u] = c
  BY <1>0, <1>1
<1>2. ASSUME Select(u)
      PROVE  /\ call[u].at = "select" /\ call'[u].at = "find"
             /\ call'[u].acquiring = call[u].acquiring
             /\ call'[u].wallet \in IF strategy = "Random" THEN Range(call[u].seen)
                                    ELSE {Scan(call[u].seen)}
  <2>1. PICK a \in IF strategy = "Random" THEN Range(call[u].seen) ELSE {Scan(call[u].seen)} :
          call' = [call EXCEPT ![u] = [@ EXCEPT !.at = "find", !.seen = << >>, !.wallet = a]]
    BY <1>2 DEF Select
  <2>2. call' = [call EXCEPT ![u] = [call[u] EXCEPT !.at = "find", !.seen = << >>, !.wallet = a]]
    BY <1>0, <2>1
  <2>3. call'[u] = [call[u] EXCEPT !.at = "find", !.seen = << >>, !.wallet = a]
    BY <1>1, <2>2
  <2>4. /\ call'[u].at = "find" /\ call'[u].wallet = a
        /\ call'[u].acquiring = call[u].acquiring
    BY <1>0, <2>3 DEF Calls
  <2> QED BY <1>2, <2>4 DEF Select
<1>3. ASSUME Find(u)
      PROVE  /\ call[u].at = "find"
             /\ \/ call'[u] = Idle
                \/ /\ call'[u].at = "touch" /\ call[u].acquiring
                   /\ call'[u].wallet = call[u].wallet
  <2>1. call'[u] = IF call[u].acquiring /\ call[u].wallet \in KnownAddresses
                   THEN [call[u] EXCEPT !.at = "touch"] ELSE Idle
    BY <1>0, <1>3 DEF Find
  <2> QED BY <1>0, <1>3, <2>1 DEF Find, Calls
<1>4. ASSUME Touch(u)
      PROVE  /\ call[u].at = "touch" /\ call'[u].at = "holding"
             /\ call'[u].wallet = call[u].wallet
  <2>1. call' = [call EXCEPT ![u].at = "holding"] /\ call[u].at = "touch"
    BY <1>4 DEF Touch
  <2> QED BY <1>0, <2>1 DEF Calls
<1>5. ASSUME NEW success \in BOOLEAN, ReleaseInfo(u, success)
      PROVE  /\ call[u].at = "holding" /\ call'[u].wallet = call[u].wallet
             /\ call'[u].at = IF success THEN "release_ok" ELSE "release_failed"
  <2>1. /\ call[u].at = "holding"
        /\ call' = [call EXCEPT ![u].at = IF success THEN "release_ok" ELSE "release_failed"]
    BY <1>5 DEF ReleaseInfo
  <2> QED BY <1>0, <2>1 DEF Calls
<1>6. ASSUME ReleaseUsage(u)
      PROVE  call[u].at \in {"release_ok", "release_failed"} /\ call'[u] = Idle
  <2>1. call' = [call EXCEPT ![u] = Idle] /\ call[u].at \in {"release_ok", "release_failed"}
    BY <1>6 DEF ReleaseUsage
  <2> QED BY <1>1, <2>1
<1> QED BY <1>2, <1>3, <1>4, <1>5, <1>6

\* The two steps that change a usage read the clock; only a release counts.
LEMMA TouchUsage ==
  ASSUME Types, NEW u \in Users, Touch(u)
  PROVE  LET a == call[u].wallet IN
         /\ DOMAIN usage' = DOMAIN usage /\ usage' \in [DOMAIN usage -> Counts]
         /\ a \in DOMAIN usage =>
               usage'[a].total = usage[a].total /\ usage'[a].ok = usage[a].ok /\ usage'[a].last = clock + 1
         /\ \A b \in DOMAIN usage \ {a} : usage'[b] = usage[b]
<1> DEFINE a == call[u].wallet
<1>1. /\ usage \in [DOMAIN usage -> Counts] /\ clock \in Nat
      /\ usage' = IF a \in DOMAIN usage THEN [usage EXCEPT ![a].last = clock + 1] ELSE usage
  BY DEF Touch, Types, StoreTypes
<1> HIDE DEF a
<1>2. ASSUME a \in DOMAIN usage
      PROVE  /\ DOMAIN usage' = DOMAIN usage /\ usage' \in [DOMAIN usage -> Counts]
             /\ usage'[a].total = usage[a].total /\ usage'[a].ok = usage[a].ok /\ usage'[a].last = clock + 1
             /\ \A b \in DOMAIN usage \ {a} : usage'[b] = usage[b]
  <2> DEFINE c == [usage[a] EXCEPT !.last = clock + 1]
  <2>1. c \in Counts /\ c.total = usage[a].total /\ c.ok = usage[a].ok /\ c.last = clock + 1
    <3>1. usage[a] \in Counts /\ clock + 1 \in Nat
      BY <1>1, <1>2
    <3>2. usage[a] \in [total : Nat, ok : Nat, last : Nat]
      BY <3>1 DEF Counts
    <3>3. c = [total |-> usage[a].total, ok |-> usage[a].ok, last |-> clock + 1]
      BY <3>2
    <3> HIDE DEF c
    <3> QED BY <3>1, <3>2, <3>3 DEF Counts
  <2>2. usage' = [usage EXCEPT ![a] = c]
    BY <1>1, <1>2
  <2> HIDE DEF c
  <2> QED BY <1>1, <1>2, <2>1, <2>2
<1>3. ASSUME a \notin DOMAIN usage PROVE usage' = usage
  BY <1>1, <1>3
<1> QED BY <1>1, <1>2, <1>3 DEF a

LEMMA ReleaseUsageUsage ==
  ASSUME Types, NEW u \in Users, ReleaseUsage(u)
  PROVE  LET a == call[u].wallet IN
         /\ DOMAIN usage' = DOMAIN usage /\ usage' \in [DOMAIN usage -> Counts]
         /\ a \in DOMAIN usage =>
               /\ usage'[a].total = usage[a].total + 1
               /\ usage'[a].ok = IF call[u].at = "release_ok" THEN usage[a].ok + 1 ELSE usage[a].ok
               /\ usage'[a].last = clock + 1
         /\ \A b \in DOMAIN usage \ {a} : usage'[b] = usage[b]
<1> DEFINE a == call[u].wallet  ok == call[u].at = "release_ok"
<1>1. /\ usage \in [DOMAIN usage -> Counts] /\ clock \in Nat
      /\ usage' = IF a \in DOMAIN usage
                  THEN [usage EXCEPT ![a].total = @ + 1,
                                     ![a].ok = IF ok THEN @ + 1 ELSE @,
                                     ![a].last = clock + 1]
                  ELSE usage
  BY DEF ReleaseUsage, Types, StoreTypes
<1> HIDE DEF a, ok
<1>2. ASSUME a \in DOMAIN usage
      PROVE  /\ DOMAIN usage' = DOMAIN usage /\ usage' \in [DOMAIN usage -> Counts]
             /\ usage'[a].total = usage[a].total + 1
             /\ usage'[a].ok = IF ok THEN usage[a].ok + 1 ELSE usage[a].ok
             /\ usage'[a].last = clock + 1
             /\ \A b \in DOMAIN usage \ {a} : usage'[b] = usage[b]
  <2> DEFINE c == [usage[a] EXCEPT !.total = @ + 1, !.ok = IF ok THEN @ + 1 ELSE @,
                                   !.last = clock + 1]
  <2>1. /\ c \in Counts /\ c.total = usage[a].total + 1 /\ c.last = clock + 1
        /\ c.ok = IF ok THEN usage[a].ok + 1 ELSE usage[a].ok
    <3> DEFINE n == IF ok THEN usage[a].ok + 1 ELSE usage[a].ok
    <3>1. usage[a] \in Counts /\ usage[a].ok \in Nat /\ clock + 1 \in Nat
      BY <1>1, <1>2 DEF Counts
    <3>2. n \in {usage[a].ok, usage[a].ok + 1}
      OBVIOUS
    <3> HIDE DEF n
    <3>3. n \in Nat
      BY <3>1, <3>2
    <3>4. c = [usage[a] EXCEPT !.total = @ + 1, !.ok = n, !.last = clock + 1]
      BY <3>1 DEF n, Counts
    <3>6. c = [total |-> usage[a].total + 1, ok |-> n, last |-> clock + 1]
      BY <3>1, <3>3, <3>4, UsageCounts
    <3>7. usage[a].total \in Nat
      BY <3>1 DEF Counts
    <3> HIDE DEF c
    <3>5. c \in Counts /\ c.total = usage[a].total + 1 /\ c.last = clock + 1 /\ c.ok = n
      BY <3>1, <3>3, <3>6, <3>7 DEF Counts
    <3> QED BY <3>5 DEF n
  <2>2. usage' = [usage EXCEPT ![a] = c]
    <3>1. /\ usage[a] \in Counts
          /\ usage' = [usage EXCEPT ![a].total = @ + 1, ![a].ok = IF ok THEN @ + 1 ELSE @,
                                    ![a].last = clock + 1]
      BY <1>1, <1>2
    <3> QED BY <3>1 DEF Counts
  <2> HIDE DEF c
  <2> QED BY <1>1, <1>2, <2>1, <2>2
<1>3. ASSUME a \notin DOMAIN usage PROVE usage' = usage
  BY <1>1, <1>3
<1> QED BY <1>1, <1>2, <1>3 DEF a, ok

\* A release counts its transaction in the first entry of its wallet.
LEMMA ReleaseInfoWallets ==
  ASSUME Types, NEW u \in Users, NEW success \in BOOLEAN, ReleaseInfo(u, success)
  PROVE  LET own == {i \in DOMAIN wallets : wallets[i].address = call[u].wallet} IN
         /\ DOMAIN wallets' = DOMAIN wallets /\ wallets' \in [DOMAIN wallets -> Info]
         /\ \A i \in DOMAIN wallets :
               /\ wallets'[i].address = wallets[i].address
               /\ ~ (own # {} /\ i = Min(own)) => wallets'[i] = wallets[i]
               /\ own # {} /\ i = Min(own) =>
                     /\ wallets'[i].total = wallets[i].total + 1
                     /\ wallets'[i].failed = IF success THEN wallets[i].failed
                                             ELSE wallets[i].failed + 1
<1> DEFINE own == {i \in DOMAIN wallets : wallets[i].address = call[u].wallet}
<1>0. wallets \in [DOMAIN wallets -> Info] /\ own \in SUBSET Nat
  BY DEF Types, StoreTypes
<1>1. CASE own = {}
  BY <1>0, <1>1 DEF ReleaseInfo
<1>2. CASE own # {}
  <2>2. Min(own) \in DOMAIN wallets
    BY <1>0, <1>2, MinIsLeast
  <2>3. wallets' = [wallets EXCEPT ![Min(own)].total = @ + 1,
                                   ![Min(own)].failed = IF success THEN @ ELSE @ + 1]
    BY <1>2 DEF ReleaseInfo
  <2> HIDE DEF own
  <2> DEFINE m == Min(own)
             w == wallets[m]
             f == IF success THEN w.failed ELSE w.failed + 1
             c == [w EXCEPT !.total = @ + 1, !.failed = f]
  <2>4. w \in Info /\ m \in DOMAIN wallets
    BY <1>0, <2>2
  <2>5. wallets' = [wallets EXCEPT ![m] = c]
    <3> HIDE DEF m
    <3> QED BY <1>0, <2>3, <2>4 DEF Info, m
  <2>6. c \in Info /\ c.address = w.address /\ c.total = w.total + 1 /\ c.failed = f
    <3>1. f \in {w.failed, w.failed + 1}
      OBVIOUS
    <3>2. w.failed \in Nat
      BY <2>4 DEF Info
    <3> HIDE DEF f, w
    <3>3. f \in Nat
      BY <3>1, <3>2
    <3> QED BY <2>4, <3>3, InfoCounts
  <2> HIDE DEF m, c
  <2>7. /\ DOMAIN wallets' = DOMAIN wallets /\ wallets' \in [DOMAIN wallets -> Info]
        /\ wallets'[m] = c /\ \A i \in DOMAIN wallets : i # m => wallets'[i] = wallets[i]
    BY <1>0, <2>4, <2>5, <2>6
  <2> QED BY <1>2, <2>6, <2>7 DEF m, own
<1> QED BY <1>1, <1>2

\* What a user's step does to the stores.
LEMMA UserStores ==
  ASSUME Types, NEW u \in Users, UserStep(u)
  PROVE  StoreTypes' /\ DOMAIN wallets' = DOMAIN wallets /\ DOMAIN usage' = DOMAIN usage
<1>0. /\ UNCHANGED <<admin, active, changes, changed, mixed>> /\ active \in Lists'
      /\ wallets \in [DOMAIN wallets -> Info] /\ DOMAIN wallets \subseteq 1 .. clock'
      /\ usage \in [DOMAIN usage -> Counts] /\ DOMAIN wallets \subseteq Nat
      /\ clock' \in Nat /\ uses \in Nat
  BY UserCall DEF Types, StoreTypes
<1>1. /\ strategy' = strategy /\ uses' \in Nat
      /\ raced' \in [Users -> BOOLEAN]
  <2>1. strategy' = strategy /\ uses' \in {uses, uses + 1}
    BY DEF UserStep, StartChoosing, Select, Find, Touch, ReleaseInfo, ReleaseUsage, stores, history
  <2> DEFINE overlaps == \E m \in Admins : admin[m].at = "remove_active"
  <2>2. raced' \in {raced, [raced EXCEPT ![u] = overlaps], [raced EXCEPT ![u] = FALSE]}
    BY DEF UserStep, StartChoosing, Select, Find, Touch, ReleaseInfo, ReleaseUsage, history
  <2>3. raced \in [Users -> BOOLEAN] /\ overlaps \in BOOLEAN
    BY DEF Types, StoreTypes
  <2> HIDE DEF overlaps
  <2>4. raced' \in [Users -> BOOLEAN]
    BY <2>2, <2>3
  <2> QED BY <1>0, <2>1, <2>4
<1>2. passed' \in [Addresses -> [Addresses -> Nat]]
  <2>1. Touched(call[u].wallet) \in [Addresses -> [Addresses -> Nat]]
    BY DEF Touched, Types, StoreTypes
  <2>2. CASE passed' = passed
    BY <2>2 DEF Types, StoreTypes
  <2>3. CASE passed' = Touched(call[u].wallet)
    BY <2>1, <2>3
  <2>4. CASE Touch(u)
    <3> DEFINE a == call[u].wallet  row(b) == Touched(a)[b]
    <3>1. passed' = [b \in Addresses |-> [row(b) EXCEPT ![a] = IF b = a THEN 0 ELSE @ + 1]]
      BY <2>4 DEF Touch
    <3>2. \A b \in Addresses : row(b) \in [Addresses -> Nat]
      BY <2>1
    <3>3. a \in Addresses
      BY <2>4 DEF Touch, Types, CallTypes
    <3> HIDE DEF a, row
    <3>4. \A b \in Addresses : [row(b) EXCEPT ![a] = IF b = a THEN 0 ELSE @ + 1] \in [Addresses -> Nat]
      BY <3>2, <3>3
    <3> QED BY <3>1, <3>4
  <2> QED BY <2>2, <2>3, <2>4 DEF UserStep, StartChoosing, Select, Find, ReleaseInfo,
       ReleaseUsage, history
<1>3. DOMAIN wallets' = DOMAIN wallets /\ wallets' \in [DOMAIN wallets -> Info]
  <2>1. CASE wallets' = wallets
    BY <1>0, <2>1
  <2>2. ASSUME NEW success \in BOOLEAN, ReleaseInfo(u, success)
        PROVE  DOMAIN wallets' = DOMAIN wallets /\ wallets' \in [DOMAIN wallets -> Info]
    BY <2>2, ReleaseInfoWallets
  <2> QED BY <2>1, <2>2 DEF UserStep, StartChoosing, Select, Find, Touch, ReleaseUsage, stores
<1>4. DOMAIN usage' = DOMAIN usage /\ usage' \in [DOMAIN usage -> Counts]
  <2>1. CASE usage' = usage
    BY <1>0, <2>1
  <2>2. ASSUME Touch(u)
        PROVE  DOMAIN usage' = DOMAIN usage /\ usage' \in [DOMAIN usage -> Counts]
    BY <1>0, <2>2, TouchUsage
  <2>3. ASSUME ReleaseUsage(u)
        PROVE  DOMAIN usage' = DOMAIN usage /\ usage' \in [DOMAIN usage -> Counts]
    BY <1>0, <2>3, ReleaseUsageUsage
  <2> QED BY <2>1, <2>2, <2>3 DEF UserStep, StartChoosing, Select, Find, ReleaseInfo, stores
<1> QED BY <1>0, <1>1, <1>2, <1>3, <1>4 DEF Types, StoreTypes

LEMMA AdminLeavesCalls ==
  ASSUME NEW m \in Admins, AdminStep(m)
  PROVE  UNCHANGED <<call, strategy>>
  BY DEF AdminStep, AddWallet, RemoveWallet, AddActive, AddUsage, RemoveActive, RemoveUsage

LEMMA TypesInductive == Types /\ [Next]_vars => Types'
<1> SUFFICES ASSUME Types, [Next]_vars PROVE Types'
  OBVIOUS
<1>1. ASSUME NEW m \in Admins, AdminStep(m) PROVE Types'
  <2>1. StoreTypes' /\ AdminTypes' /\ clock' \in {clock, clock + 1} /\ clock \in Nat
    BY <1>1, AdminTypesInductive DEF Types, StoreTypes
  <2>2. UNCHANGED call
    BY <1>1, AdminLeavesCalls
  <2>3. Lists \subseteq Lists'
    BY <2>1, ListsGrow
  <2>4. Calls \subseteq Calls'
    BY <2>3 DEF Calls
  <2>5. CallTypes'
    BY <2>2, <2>4 DEF Types, CallTypes
  <2> QED BY <2>1, <2>5 DEF Types
<1>2. ASSUME NEW u \in Users, UserStep(u) PROVE Types'
  <2>1. StoreTypes' /\ CallTypes' /\ UNCHANGED admin
    BY <1>2, UserCall, UserStores
  <2>2. AdminTypes'
    BY <2>1 DEF Types, AdminTypes
  <2> QED BY <2>1, <2>2 DEF Types
<1>3. CASE UNCHANGED vars
  BY <1>3 DEF vars, stores, history, Types, StoreTypes, AdminTypes, CallTypes, Calls, Lists
<1> QED BY <1>1, <1>2, <1>3 DEF Next

-----------------------------------------------------------------------------
\* The semaphore

Permits == Cardinality(InAcquire) <= MaxConcurrent[strategy]

\* Only who begins an acquisition joins those inside.
LEMMA PermitsInductive == Types /\ Permits /\ [Next]_vars => Permits'
<1> SUFFICES ASSUME Types, Permits, [Next]_vars PROVE Permits'
  OBVIOUS
<1>0. /\ InAcquire \in SUBSET Users /\ InAcquire' \in SUBSET Users
      /\ IsFiniteSet(InAcquire) /\ IsFiniteSet(InAcquire')
      /\ Cardinality(InAcquire) \in Nat /\ Cardinality(InAcquire') \in Nat
      /\ MaxConcurrent[strategy] \in Nat /\ MaxConcurrent[strategy] # 0 /\ strategy' = strategy
  <2>1. InAcquire \in SUBSET Users /\ InAcquire' \in SUBSET Users
    BY DEF InAcquire
  <2>2. IsFiniteSet(InAcquire) /\ IsFiniteSet(InAcquire')
    BY <2>1, FS_Subset
  <2>3. MaxConcurrent[strategy] \in Nat /\ MaxConcurrent[strategy] # 0
    BY DEF Types, StoreTypes
  <2>4. strategy' = strategy
    BY AdminLeavesCalls DEF Next, vars, UserStep, StartChoosing, Select, Find, Touch, ReleaseInfo,
       ReleaseUsage
  <2> QED BY <2>1, <2>2, <2>3, <2>4, FS_CardinalityType
<1>1. ASSUME InAcquire' \subseteq InAcquire PROVE Permits'
  <2>1. Cardinality(InAcquire') <= Cardinality(InAcquire)
    BY <1>0, <1>1, FS_Subset
  <2> QED BY <1>0, <2>1 DEF Permits
<1>2. ASSUME UNCHANGED call PROVE Permits'
  BY <1>1, <1>2 DEF InAcquire
<1>3. ASSUME NEW u \in Users, UserStep(u) PROVE Permits'
  <2>0. /\ \A v \in Users \ {u} : call'[v] = call[v]
        /\ call \in [Users -> Calls] /\ CallTypes'
    BY <1>3, UserCall DEF Types, CallTypes
  <2>1. CASE u \notin InAcquire' \/ u \in InAcquire
    BY <1>1, <2>0, <2>1 DEF InAcquire
  <2>2. ASSUME u \in InAcquire', u \notin InAcquire PROVE Permits'
    <3>0. call[u] \in Calls /\ call'[u].acquiring /\ call'[u].at \in {"select", "find", "touch"}
      BY <2>0, <2>2 DEF InAcquire, Choosing
    <3>1. PICK acquiring \in BOOLEAN : StartChoosing(u, acquiring)
      <4>0. ~ (call[u].acquiring /\ call[u].at \in {"select", "find", "touch"})
        BY <2>2 DEF InAcquire, Choosing
      <4>1. ASSUME Select(u) PROVE FALSE
        <5>1. call[u].at = "select" /\ call'[u].acquiring = call[u].acquiring
          BY <4>1, Moves
        <5> QED BY <3>0, <4>0, <5>1
      <4>2. ASSUME Find(u) PROVE FALSE
        <5>1. /\ call[u].at = "find"
              /\ call'[u] = Idle \/ (call'[u].at = "touch" /\ call[u].acquiring)
          BY <4>2, Moves
        <5> QED BY <3>0, <4>0, <5>1 DEF Idle
      <4>3. ASSUME Touch(u) PROVE FALSE
        BY <3>0, <4>3, Moves
      <4>4. ASSUME NEW success \in BOOLEAN, ReleaseInfo(u, success) PROVE FALSE
        <5>1. call'[u].at = IF success THEN "release_ok" ELSE "release_failed"
          BY <4>4, Moves
        <5> QED BY <3>0, <5>1
      <4>5. ASSUME ReleaseUsage(u) PROVE FALSE
        <5>1. call'[u] = Idle
          BY <4>5, Moves
        <5> QED BY <3>0, <5>1 DEF Idle
      <4> QED BY <1>3, <4>1, <4>2, <4>3, <4>4, <4>5 DEF UserStep
    <3>2. acquiring
      BY <2>0, <2>2, <3>1 DEF StartChoosing, InAcquire, Idle
    <3>3. Cardinality(InAcquire) < MaxConcurrent[strategy]
      BY <3>1, <3>2 DEF StartChoosing
    <3>4. InAcquire' \subseteq InAcquire \cup {u}
      BY <2>0 DEF InAcquire
    <3>5. /\ IsFiniteSet(InAcquire \cup {u})
          /\ Cardinality(InAcquire \cup {u}) = Cardinality(InAcquire) + 1
      BY <1>0, <2>2, FS_AddElement
    <3>6. Cardinality(InAcquire') <= Cardinality(InAcquire) + 1
      BY <3>4, <3>5, FS_Subset
    <3> QED BY <1>0, <3>3, <3>6 DEF Permits
  <2> QED BY <2>1, <2>2
<1>4. ASSUME NEW m \in Admins, AdminStep(m) PROVE Permits'
  BY <1>2, <1>4, AdminLeavesCalls
<1> QED BY <1>2, <1>3, <1>4 DEF Next, vars

\* Every variable has its type, and acquire_wallet never has more callers inside than
\* its semaphore has permits.
THEOREM PoolTypeCorrect == Spec => []TypeOK
<1>1. Init => Types /\ Permits
  <2> SUFFICES ASSUME Init PROVE Permits
    BY AllTypesInit
  <2>1. InAcquire = {}
    BY DEF Init, Idle, InAcquire, Choosing
  <2>2. Cardinality(InAcquire) = 0 /\ MaxConcurrent[strategy] \in Nat
    BY <2>1, FS_EmptySet DEF Init
  <2> QED BY <2>2 DEF Permits
<1>2. Types /\ Permits /\ [Next]_vars => (Types /\ Permits)'
  BY TypesInductive, PermitsInductive
<1>3. Types /\ Permits => TypeOK
  <2> SUFFICES ASSUME Types, Permits PROVE TypeOK
    OBVIOUS
  <2>0. clock \in Nat /\ call \in [Users -> Calls]
    BY DEF Types, StoreTypes, CallTypes
  <2>1. IsList(active)
    BY <2>0, InLists DEF Types, StoreTypes, IsList
  <2>2. \A u \in Users : IsList(call[u].seen)
    BY <2>0, InLists DEF Calls, IsList
  <2>3. call \in [Users -> [at : Places, acquiring : BOOLEAN, seen : {call[u].seen : u \in Users},
                           wallet : Addresses \cup {None}]]
    BY <2>0 DEF Calls
  <2> QED BY <2>1, <2>2, <2>3 DEF Types, StoreTypes, AdminTypes, ChangeCalls, Permits, TypeOK, Info,
       Counts
<1> QED BY <1>1, <1>2, <1>3, PTL DEF Spec

-----------------------------------------------------------------------------
\* The three stores

\* What the stores know of a wallet whose changes have not mixed, section by section.
StoresOf(a) ==
    LET inWallets == a \in KnownAddresses  inActive == a \in Range(active)  inUsage == a \in DOMAIN usage
    IN  /\ ~ (UnderWay(a, Adding) /\ UnderWay(a, Removing))
        /\ UnderWay(a, Adding) => inWallets
        /\ UnderWay(a, {"add_usage"}) => inActive
        /\ UnderWay(a, Removing) => ~ inWallets
        /\ UnderWay(a, {"remove_usage"}) => ~ inActive
        /\ ~ UnderWay(a, Adding \cup Removing) =>
              (inWallets <=> inActive) /\ (inUsage <=> inActive)

Stores == \A a \in Addresses : a \notin mixed => StoresOf(a)

\* Who no removal has overlapped looks for a wallet that is still there, or for one
\* whose changes have mixed.
StillThere ==
    \A u \in Users : ~ raced[u] =>
        /\ call[u].at = "select" => Range(call[u].seen) \subseteq KnownAddresses \cup mixed
        /\ call[u].at = "find" => call[u].wallet \in KnownAddresses \cup mixed

\* The list of the changed holds whoever is being changed or mixed, and what is not
\* listed has one entry.
Once ==
    /\ mixed \subseteq changed
    /\ \A m \in Admins : admin[m].at # "idle" => admin[m].address \in changed
    /\ \A i, j \in DOMAIN wallets :
          wallets[i].address = wallets[j].address /\ wallets[i].address \notin changed
          => i = j

\* Those under way but for one administrator.
Others(m, a, kind) == \E n \in Admins \ {m} : admin[n].address = a /\ admin[n].at \in kind

\* When one administrator's call becomes c, only that one counts otherwise.
LEMMA OneMoves ==
  ASSUME AdminTypes, NEW m \in Admins, NEW c, admin' = [admin EXCEPT ![m] = c], NEW a, NEW kind
  PROVE  /\ UnderWay(a, kind) <=> Others(m, a, kind) \/ (admin[m].address = a /\ admin[m].at \in kind)
         /\ UnderWay(a, kind)' <=> Others(m, a, kind) \/ (c.address = a /\ c.at \in kind)
  BY DEF UnderWay, Others, AdminTypes

\* A section of a change adds its wallet to one store or removes it from one.
LEMMA Sections ==
  ASSUME Types, NEW m \in Admins
  PROVE  /\ \A a \in Addresses : AddWallet(m, a) => KnownAddresses' = KnownAddresses \cup {a}
         /\ \A a \in Addresses : RemoveWallet(m, a) => KnownAddresses' = KnownAddresses \ {a}
         /\ AddActive(m) => Range(active)' = Range(active) \cup {admin[m].address}
         /\ RemoveActive(m) => Range(active)' = Range(active) \ {admin[m].address}
         /\ AddUsage(m) => DOMAIN usage' = DOMAIN usage \cup {admin[m].address}
         /\ RemoveUsage(m) => DOMAIN usage' = DOMAIN usage \ {admin[m].address}
<1> DEFINE b == admin[m].address
<1>0. /\ clock \in Nat /\ DOMAIN wallets \subseteq 1 .. clock
      /\ active \in [DOMAIN active -> Addresses] /\ DOMAIN active \subseteq 1 .. clock
  BY InLists DEF Types, StoreTypes
<1>1. ASSUME NEW a \in Addresses, AddWallet(m, a)
      PROVE  KnownAddresses' = KnownAddresses \cup {a}
  <2>1. wallets' = Put(wallets, clock + 1, NewInfo(a))
    BY <1>1 DEF AddWallet
  <2>2. clock + 1 \notin DOMAIN wallets
    BY <1>0
  <2>3. /\ DOMAIN wallets' = DOMAIN wallets \cup {clock + 1}
        /\ wallets'[clock + 1].address = a
        /\ \A i \in DOMAIN wallets : wallets'[i].address = wallets[i].address
    BY <2>1, <2>2 DEF Put, NewInfo
  <2> QED BY <2>3 DEF KnownAddresses
<1>2. ASSUME NEW a \in Addresses, RemoveWallet(m, a)
      PROVE  KnownAddresses' = KnownAddresses \ {a}
  <2> DEFINE D == {i \in DOMAIN wallets : wallets[i].address # a}
  <2>1. wallets' = Restrict(wallets, D)
    BY <1>2 DEF RemoveWallet
  <2>2. DOMAIN wallets' = D /\ \A i \in D : wallets'[i] = wallets[i]
    BY <2>1 DEF Restrict
  <2>3. KnownAddresses' = {wallets[i].address : i \in D}
    BY <2>2 DEF KnownAddresses
  <2> QED BY <2>3 DEF KnownAddresses
<1>3. ASSUME AddActive(m) PROVE Range(active)' = Range(active) \cup {b}
  <2>1. CASE active' = active /\ b \in Range(active)
    BY <2>1 DEF Range
  <2>2. CASE active' = Put(active, clock + 1, b)
    <3>1. clock + 1 \notin DOMAIN active
      BY <1>0
    <3>2. /\ DOMAIN active' = DOMAIN active \cup {clock + 1} /\ active'[clock + 1] = b
          /\ \A i \in DOMAIN active : active'[i] = active[i]
      BY <2>2, <3>1 DEF Put
    <3> QED BY <3>2 DEF Range
  <2> QED BY <1>3, <2>1, <2>2 DEF AddActive, Activated
<1>4. ASSUME RemoveActive(m) PROVE Range(active)' = Range(active) \ {b}
  <2> DEFINE D == {i \in DOMAIN active : active[i] # b}
  <2>1. active' = Restrict(active, D)
    BY <1>4 DEF RemoveActive
  <2>2. DOMAIN active' = D /\ \A i \in D : active'[i] = active[i]
    BY <2>1 DEF Restrict
  <2>3. Range(active)' = {active[i] : i \in D}
    BY <2>2 DEF Range
  <2> QED BY <2>3 DEF Range
<1>5. ASSUME AddUsage(m) PROVE DOMAIN usage' = DOMAIN usage \cup {b}
  BY <1>5 DEF AddUsage, Put
<1>6. ASSUME RemoveUsage(m) PROVE DOMAIN usage' = DOMAIN usage \ {b}
  BY <1>6 DEF RemoveUsage, Restrict
<1> QED BY <1>1, <1>2, <1>3, <1>4, <1>5, <1>6

\* A user's step keeps the addresses of every store.
LEMMA UserAddresses ==
  ASSUME Types, NEW u \in Users, UserStep(u)
  PROVE  /\ UNCHANGED <<KnownAddresses, Range(active), DOMAIN usage>>
         /\ DOMAIN wallets' = DOMAIN wallets
         /\ \A i \in DOMAIN wallets : wallets'[i].address = wallets[i].address
<1>1. \A i \in DOMAIN wallets : wallets'[i].address = wallets[i].address
  <2>1. CASE wallets' = wallets
    BY <2>1
  <2>2. ASSUME NEW success \in BOOLEAN, ReleaseInfo(u, success)
        PROVE  \A i \in DOMAIN wallets : wallets'[i].address = wallets[i].address
    BY <2>2, ReleaseInfoWallets
  <2> QED BY <2>1, <2>2 DEF UserStep, StartChoosing, Select, Find, Touch, ReleaseUsage, stores
<1>2. DOMAIN wallets' = DOMAIN wallets /\ DOMAIN usage' = DOMAIN usage /\ active' = active
  BY UserStores, UserCall
<1> QED BY <1>1, <1>2 DEF KnownAddresses

\* A change begins: the first section and what is under way of its own wallet and of the
\* others.
LEMMA StoresBegin ==
  ASSUME Types, Stores, NEW m \in Admins, NEW a \in Addresses, AddWallet(m, a) \/ RemoveWallet(m, a)
  PROVE  Stores'
<1> DEFINE K == KnownAddresses  A == Range(active)  U == DOMAIN usage
<1>1. PICK next \in {"add_active", "remove_active"} :
        /\ Begin(m, a, next)
        /\ next = "add_active" => K' = K \cup {a}
        /\ next = "remove_active" => K' = K \ {a}
        /\ A' = A /\ U' = U
  <2>1. CASE AddWallet(m, a)
    <3>1. K' = K \cup {a}
      BY <2>1, Sections
    <3> QED BY <2>1, <3>1 DEF AddWallet
  <2>2. CASE RemoveWallet(m, a)
    <3>1. K' = K \ {a}
      BY <2>2, Sections
    <3> QED BY <2>2, <3>1 DEF RemoveWallet
  <2> QED BY <2>1, <2>2
<1>2. /\ admin[m].at = "idle" /\ admin' = [admin EXCEPT ![m] = [at |-> next, address |-> a]]
      /\ mixed \ {a} \subseteq mixed'
  BY <1>1, Beginning
<1>3. AdminTypes
  BY DEF Types
<1> DEFINE c == [at |-> next, address |-> a]
           kind == IF next \in Adding THEN Adding ELSE Removing
           both == Adding \cup Removing
<1>4. c.at = next /\ c.address = a /\ admin' = [admin EXCEPT ![m] = c]
  BY <1>2
<1>5. ASSUME NEW b, NEW k
      PROVE  /\ UnderWay(b, k) <=> Others(m, b, k) \/ (admin[m].address = b /\ "idle" \in k)
             /\ UnderWay(b, k)' <=> Others(m, b, k) \/ (a = b /\ next \in k)
  <2> HIDE DEF c
  <2>1. /\ UnderWay(b, k) <=> Others(m, b, k) \/ (admin[m].address = b /\ admin[m].at \in k)
        /\ UnderWay(b, k)' <=> Others(m, b, k) \/ (c.address = b /\ c.at \in k)
    BY <1>3, <1>4, OneMoves
  <2> QED BY <1>2, <1>4, <2>1
<1>6. ASSUME NEW b \in Addresses, b \notin mixed', b # a PROVE StoresOf(b)'
  <2>1. StoresOf(b)
    BY <1>2, <1>6 DEF Stores
  <2>2. \A k \in {Adding, Removing, {"add_usage"}, {"remove_usage"}, both} :
           UnderWay(b, k)' <=> UnderWay(b, k)
    BY <1>5, <1>6 DEF Adding, Removing
  <2>3. b \in K' <=> b \in K
    BY <1>1, <1>6
  <2> HIDE DEF K
  <2> QED BY <1>1, <2>1, <2>2, <2>3 DEF StoresOf, K
<1>7. ASSUME a \notin mixed' PROVE StoresOf(a)'
  <2>1. /\ ~ UnderWay(a, both \ kind)
        /\ UnderWay(a, kind) => a \notin mixed
    BY <1>1, <1>7 DEF Begin
  <2>2. /\ next = "add_active" => kind = Adding /\ both \ kind = Removing
        /\ next = "remove_active" => kind = Removing /\ both \ kind = Adding
    BY DEF Adding, Removing
  <2>3. CASE next = "add_active"
    <3>1. /\ ~ UnderWay(a, Removing)' /\ UnderWay(a, Adding)'
          /\ UnderWay(a, {"add_usage"})' => UnderWay(a, {"add_usage"}) /\ UnderWay(a, Adding)
          /\ ~ UnderWay(a, {"remove_usage"})' /\ UnderWay(a, both)'
      <4>1. UnderWay(a, {"add_usage"}) => UnderWay(a, Adding)
        BY DEF UnderWay, Adding
      <4>2. UnderWay(a, {"remove_usage"})' => UnderWay(a, Removing)'
        BY DEF UnderWay, Removing
      <4> QED BY <1>5, <2>1, <2>2, <2>3, <4>1, <4>2 DEF Adding, Removing
    <3>2. UnderWay(a, {"add_usage"})' => a \in A
      BY <2>1, <2>2, <2>3, <3>1 DEF Stores, StoresOf
    <3>3. a \in K'
      BY <1>1, <2>3
    <3> QED BY <1>1, <3>1, <3>2, <3>3 DEF StoresOf
  <2>4. CASE next = "remove_active"
    <3>1. /\ ~ UnderWay(a, Adding)' /\ UnderWay(a, Removing)'
          /\ UnderWay(a, {"remove_usage"})' => UnderWay(a, {"remove_usage"}) /\ UnderWay(a, Removing)
          /\ ~ UnderWay(a, {"add_usage"})' /\ UnderWay(a, both)'
      <4>1. UnderWay(a, {"remove_usage"}) => UnderWay(a, Removing)
        BY DEF UnderWay, Removing
      <4>2. UnderWay(a, {"add_usage"})' => UnderWay(a, Adding)'
        BY DEF UnderWay, Adding
      <4> QED BY <1>5, <2>1, <2>2, <2>4, <4>1, <4>2 DEF Adding, Removing
    <3>2. UnderWay(a, {"remove_usage"})' => a \notin A
      BY <2>1, <2>2, <2>4, <3>1 DEF Stores, StoresOf
    <3>3. a \notin K'
      BY <1>1, <2>4
    <3> QED BY <1>1, <3>1, <3>2, <3>3 DEF StoresOf
  <2> QED BY <2>3, <2>4
<1> QED BY <1>6, <1>7 DEF Stores

\* A later section, or the end, of a change of b.
LEMMA StoresSection ==
  ASSUME Types, Stores, NEW m \in Admins,
         AddActive(m) \/ AddUsage(m) \/ RemoveActive(m) \/ RemoveUsage(m)
  PROVE  Stores'
<1> DEFINE K == KnownAddresses  A == Range(active)  U == DOMAIN usage  both == Adding \cup Removing
<1>1. AdminTypes /\ mixed' = mixed /\ K' = K
  BY DEF Types, AddActive, AddUsage, RemoveActive, RemoveUsage, KnownAddresses, history
<1>2. PICK b \in Addresses : b = admin[m].address
  <2>1. admin[m].at # "idle"
    BY DEF AddActive, AddUsage, RemoveActive, RemoveUsage, Continue, End
  <2> QED BY <1>1, <2>1 DEF AdminTypes
<1>3. PICK at, next :
        /\ admin[m].at = at
        /\ admin' = [admin EXCEPT ![m] = [at |-> next, address |-> IF next = "idle" THEN None ELSE b]]
        /\ \/ AddActive(m) /\ at = "add_active" /\ next = "add_usage"
           \/ AddUsage(m) /\ at = "add_usage" /\ next = "idle"
           \/ RemoveActive(m) /\ at = "remove_active" /\ next = "remove_usage"
           \/ RemoveUsage(m) /\ at = "remove_usage" /\ next = "idle"
  <2>1. CASE AddActive(m)
    <3>1. /\ admin[m].at = "add_active"
          /\ admin' = [admin EXCEPT ![m] = [at |-> "add_usage", address |-> b]]
      BY <1>2, <2>1, Continuing DEF AddActive, Adding
    <3> QED BY <2>1, <3>1
  <2>2. CASE AddUsage(m)
    <3>1. admin[m].at = "add_usage" /\ admin' = [admin EXCEPT ![m] = NoChange]
      BY <2>2, Ending DEF AddUsage, Adding
    <3> QED BY <2>2, <3>1 DEF NoChange
  <2>3. CASE RemoveActive(m)
    <3>1. /\ admin[m].at = "remove_active"
          /\ admin' = [admin EXCEPT ![m] = [at |-> "remove_usage", address |-> b]]
      BY <1>2, <2>3, Continuing DEF RemoveActive, Removing
    <3> QED BY <2>3, <3>1
  <2>4. CASE RemoveUsage(m)
    <3>1. admin[m].at = "remove_usage" /\ admin' = [admin EXCEPT ![m] = NoChange]
      BY <2>4, Ending DEF RemoveUsage, Removing
    <3> QED BY <2>4, <3>1 DEF NoChange
  <2> QED BY <2>1, <2>2, <2>3, <2>4
<1> DEFINE c == [at |-> next, address |-> IF next = "idle" THEN None ELSE b]
<1>4. ASSUME NEW a, NEW k, "idle" \notin k
      PROVE  /\ UnderWay(a, k) <=> Others(m, a, k) \/ (b = a /\ at \in k)
             /\ UnderWay(a, k)' <=> Others(m, a, k) \/ (b = a /\ next \in k)
  <2>1. c.at = next /\ (next # "idle" => c.address = b)
    OBVIOUS
  <2>2. /\ UnderWay(a, k) <=> Others(m, a, k) \/ (b = a /\ admin[m].at \in k)
        /\ UnderWay(a, k)' <=> Others(m, a, k) \/ (c.address = a /\ c.at \in k)
    <3>1. admin' = [admin EXCEPT ![m] = c]
      BY <1>3
    <3>2. admin[m].address = b
      BY <1>2
    <3> HIDE DEF c
    <3> QED BY <1>1, <3>1, <3>2, OneMoves
  <2> HIDE DEF c
  <2> QED BY <1>3, <1>4, <2>1, <2>2
<1>5. ASSUME NEW a \in Addresses, a \notin mixed, a # b PROVE StoresOf(a)'
  <2>1. StoresOf(a)
    BY <1>5 DEF Stores
  <2>2. \A k \in {Adding, Removing, {"add_usage"}, {"remove_usage"}, both} :
           UnderWay(a, k)' <=> UnderWay(a, k)
    BY <1>4, <1>5 DEF Adding, Removing
  <2>3. (a \in A' <=> a \in A) /\ (a \in U' <=> a \in U)
    <3>1. CASE AddActive(m)
      <4>1. A' = A \cup {b} /\ U' = U
        BY <1>2, <3>1, Sections DEF AddActive
      <4> QED BY <1>5, <4>1
    <3>2. CASE AddUsage(m)
      <4>1. U' = U \cup {b} /\ A' = A
        BY <1>2, <3>2, Sections DEF AddUsage
      <4> QED BY <1>5, <4>1
    <3>3. CASE RemoveActive(m)
      <4>1. A' = A \ {b} /\ U' = U
        BY <1>2, <3>3, Sections DEF RemoveActive
      <4> QED BY <1>5, <4>1
    <3>4. CASE RemoveUsage(m)
      <4>1. U' = U \ {b} /\ A' = A
        BY <1>2, <3>4, Sections DEF RemoveUsage
      <4> QED BY <1>5, <4>1
    <3> QED BY <3>1, <3>2, <3>3, <3>4
  <2> HIDE DEF K, A, U
  <2> QED BY <1>1, <2>1, <2>2, <2>3 DEF StoresOf, K, A, U
<1>6. ASSUME b \notin mixed PROVE StoresOf(b)'
  <2>1. StoresOf(b)
    BY <1>2, <1>6 DEF Stores
  <2>2. ASSUME NEW k \in {Adding, Removing, {"add_usage"}, {"remove_usage"}, both}
        PROVE  /\ UnderWay(b, k) <=> Others(m, b, k) \/ at \in k
               /\ UnderWay(b, k)' <=> Others(m, b, k) \/ next \in k
    <3>1. "idle" \notin k
      BY <2>2 DEF Adding, Removing
    <3> QED BY <1>4, <3>1
  <2>3. /\ Others(m, b, {"add_usage"}) => Others(m, b, Adding)
        /\ Others(m, b, {"remove_usage"}) => Others(m, b, Removing)
        /\ Others(m, b, both) <=> Others(m, b, Adding) \/ Others(m, b, Removing)
    BY DEF Others, Adding, Removing
  <2>4. /\ ~ ((Others(m, b, Adding) \/ at \in Adding) /\ (Others(m, b, Removing) \/ at \in Removing))
        /\ Others(m, b, Adding) \/ at \in Adding => b \in K
        /\ Others(m, b, {"add_usage"}) \/ at = "add_usage" => b \in A
        /\ Others(m, b, Removing) \/ at \in Removing => b \notin K
        /\ Others(m, b, {"remove_usage"}) \/ at = "remove_usage" => b \notin A
    BY <2>1, <2>2 DEF StoresOf
  <2>5. /\ UnderWay(b, Adding)' <=> Others(m, b, Adding) \/ next \in Adding
        /\ UnderWay(b, Removing)' <=> Others(m, b, Removing) \/ next \in Removing
        /\ UnderWay(b, {"add_usage"})' <=> Others(m, b, {"add_usage"}) \/ next = "add_usage"
        /\ UnderWay(b, {"remove_usage"})' <=> Others(m, b, {"remove_usage"}) \/ next = "remove_usage"
        /\ UnderWay(b, both)' <=> Others(m, b, both) \/ next \in both
    BY <2>2
  <2>6. CASE AddActive(m) /\ at = "add_active" /\ next = "add_usage"
    <3>1. A' = A \cup {b} /\ U' = U
      BY <1>2, <2>6, Sections DEF AddActive
    <3>2. at \in Adding /\ next \in Adding /\ next \notin Removing /\ next \in both
      BY <2>6 DEF Adding, Removing
    <3>3. /\ ~ UnderWay(b, Removing)' /\ ~ UnderWay(b, {"remove_usage"})' /\ UnderWay(b, both)'
          /\ b \in K /\ b \in A'
      BY <2>3, <2>4, <2>5, <2>6, <3>1, <3>2
    <3> QED BY <1>1, <3>1, <3>3 DEF StoresOf
  <2>7. CASE AddUsage(m) /\ at = "add_usage" /\ next = "idle"
    <3>1. U' = U \cup {b} /\ A' = A
      BY <1>2, <2>7, Sections DEF AddUsage
    <3>2. at \in Adding
      BY <2>7 DEF Adding
    <3>3. /\ ~ UnderWay(b, Removing)' /\ ~ UnderWay(b, {"remove_usage"})'
          /\ b \in K /\ b \in A /\ b \in U'
      BY <2>3, <2>4, <2>5, <2>7, <3>1, <3>2 DEF Removing
    <3> QED BY <1>1, <3>1, <3>3 DEF StoresOf
  <2>8. CASE RemoveActive(m) /\ at = "remove_active" /\ next = "remove_usage"
    <3>1. A' = A \ {b} /\ U' = U
      BY <1>2, <2>8, Sections DEF RemoveActive
    <3>2. at \in Removing /\ next \in Removing /\ next \notin Adding /\ next \in both
      BY <2>8 DEF Adding, Removing
    <3>3. /\ ~ UnderWay(b, Adding)' /\ ~ UnderWay(b, {"add_usage"})' /\ UnderWay(b, both)'
          /\ b \notin K /\ b \notin A'
      BY <2>3, <2>4, <2>5, <2>8, <3>1, <3>2
    <3> QED BY <1>1, <3>1, <3>3 DEF StoresOf
  <2>9. CASE RemoveUsage(m) /\ at = "remove_usage" /\ next = "idle"
    <3>1. U' = U \ {b} /\ A' = A
      BY <1>2, <2>9, Sections DEF RemoveUsage
    <3>2. at \in Removing
      BY <2>9 DEF Removing
    <3>3. /\ ~ UnderWay(b, Adding)' /\ ~ UnderWay(b, {"add_usage"})'
          /\ b \notin K /\ b \notin A /\ b \notin U'
      BY <2>3, <2>4, <2>5, <2>9, <3>1, <3>2 DEF Adding
    <3> QED BY <1>1, <3>1, <3>3 DEF StoresOf
  <2> QED BY <1>3, <2>6, <2>7, <2>8, <2>9
<1> QED BY <1>1, <1>5, <1>6 DEF Stores

LEMMA StoresInductive == Types /\ Stores /\ [Next]_vars => Stores'
<1> SUFFICES ASSUME Types, Stores, [Next]_vars PROVE Stores'
  OBVIOUS
<1>1. ASSUME NEW m \in Admins, AdminStep(m) PROVE Stores'
  BY <1>1, StoresBegin, StoresSection DEF AdminStep
<1>2. ASSUME NEW u \in Users, UserStep(u) PROVE Stores'
  <2>1. UNCHANGED <<KnownAddresses, Range(active), DOMAIN usage, admin, mixed>>
    BY <1>2, UserAddresses, UserCall
  <2> QED BY <2>1 DEF Stores, StoresOf, UnderWay
<1>3. CASE UNCHANGED vars
  BY <1>3 DEF vars, stores, history, Stores, StoresOf, UnderWay, KnownAddresses
<1> QED BY <1>1, <1>2, <1>3 DEF Next

\* At the start the stores agree, nobody is under way and each wallet has one entry.
LEMMA StoresInit == Init => Stores /\ Once /\ StillThere
<1> SUFFICES ASSUME Init PROVE Stores /\ Once /\ StillThere
  OBVIOUS
<1>1. /\ \A i \in DOMAIN Initial : wallets[i].address = Initial[i]
      /\ DOMAIN wallets = DOMAIN Initial /\ active = Initial /\ DOMAIN usage = Range(Initial)
      /\ \A m \in Admins : admin[m].at = "idle"
      /\ mixed = {}
  BY DEF Init, NewInfo, NoChange
<1>2. KnownAddresses = Range(Initial)
  BY <1>1 DEF KnownAddresses, Range
<1>3. Once
  BY <1>1 DEF Once, IsInjective
<1>4. \A u \in Users : call[u].at = "idle"
  BY DEF Init, Idle
<1>5. \A a \in Addresses : \A kind \in {Adding, Removing, {"add_usage"}, {"remove_usage"}} :
        ~ UnderWay(a, kind)
  BY <1>1 DEF UnderWay, Adding, Removing
<1>6. Stores
  BY <1>1, <1>2, <1>5 DEF Stores, StoresOf
<1> QED BY <1>3, <1>4, <1>6 DEF StillThere

\* Of a wallet with no change under way the three stores agree, whatever the callers and
\* the other changes do between their sections, unless its own changes have mixed.
THEOREM StoresAreEqual == Spec => []StoresAgree
<1>1. Init => Types /\ Stores
  BY AllTypesInit, StoresInit
<1>2. Types /\ Stores /\ [Next]_vars => (Types /\ Stores)'
  BY TypesInductive, StoresInductive
<1>3. Stores => StoresAgree
  BY DEF Stores, StoresOf, StoresAgree, Settled
<1> QED BY <1>1, <1>2, <1>3, PTL DEF Spec

-----------------------------------------------------------------------------
\* get_next_wallet and remove_wallet

LEMMA StillThereInductive ==
  Types /\ Stores /\ StillThere /\ [Next]_vars => StillThere'
<1> SUFFICES ASSUME Types, Stores, StillThere, [Next]_vars PROVE StillThere'
  OBVIOUS
<1>0. raced \in [Users -> BOOLEAN] /\ call \in [Users -> Calls]
  BY DEF Types, StoreTypes, CallTypes
<1>1. ASSUME NEW m \in Admins, NEW a \in Addresses, AddWallet(m, a) PROVE StillThere'
  <2>1. KnownAddresses' = KnownAddresses \cup {a} /\ UNCHANGED <<raced, call>> /\ mixed \ {a} \subseteq mixed'
    <3>1. mixed \ {a} \subseteq mixed'
      BY <1>1, Beginning DEF AddWallet
    <3> QED BY <1>1, <3>1, Sections DEF AddWallet
  <2>2. KnownAddresses \cup mixed \subseteq KnownAddresses' \cup mixed'
    BY <2>1
  <2> QED BY <2>1, <2>2 DEF StillThere
<1>2. ASSUME NEW m \in Admins, NEW a \in Addresses, RemoveWallet(m, a) PROVE StillThere'
  <2>1. /\ raced' = [u \in Users |-> raced[u] \/ call[u].at \in Choosing]
        /\ UNCHANGED call
    BY <1>2 DEF RemoveWallet
  <2>2. \A u \in Users : ~ raced'[u] => call'[u].at \notin {"select", "find"}
    BY <2>1 DEF Choosing
  <2> QED BY <2>2 DEF StillThere
<1>3. ASSUME \/ UNCHANGED vars
             \/ \E m \in Admins : AddActive(m) \/ AddUsage(m) \/ RemoveActive(m) \/ RemoveUsage(m)
      PROVE  StillThere'
  <2>1. UNCHANGED <<wallets, raced, call, mixed>>
    BY <1>3 DEF AddActive, AddUsage, RemoveActive, RemoveUsage, history, stores, vars
  <2> QED BY <2>1 DEF StillThere, KnownAddresses
<1>4. ASSUME NEW u \in Users, UserStep(u) PROVE StillThere'
  <2>1. KnownAddresses' = KnownAddresses /\ mixed' = mixed /\ \A v \in Users \ {u} : call'[v] = call[v]
    BY <1>4, UserAddresses, UserCall
  <2>2. \A v \in Users \ {u} : raced'[v] = raced[v]
    BY <1>0, <1>4 DEF UserStep, StartChoosing, Select, Find, Touch, ReleaseInfo, ReleaseUsage, history
  <2>3. ASSUME ~ raced'[u]
        PROVE  /\ call'[u].at = "select" => Range(call'[u].seen) \subseteq KnownAddresses \cup mixed
               /\ call'[u].at = "find" => call'[u].wallet \in KnownAddresses \cup mixed
    <3>1. ASSUME NEW acquiring \in BOOLEAN, StartChoosing(u, acquiring)
          PROVE  /\ call'[u].at # "find"
                 /\ call'[u].at = "select" => Range(call'[u].seen) \subseteq KnownAddresses \cup mixed
      <4>1. call'[u] \in {Idle, [at |-> "select", acquiring |-> acquiring, seen |-> active,
                                 wallet |-> None]}
        BY <1>0, <3>1 DEF StartChoosing
      <4>2. \A m \in Admins : admin[m].at # "remove_active"
        BY <1>0, <2>3, <3>1 DEF StartChoosing
      <4>3. ASSUME NEW a \in Range(active), a \notin mixed PROVE a \in KnownAddresses
        <5>1. a \in Addresses
          BY InLists DEF Types, StoreTypes
        <5>2. StoresOf(a)
          BY <4>3, <5>1 DEF Stores
        <5>3. UnderWay(a, Removing) => UnderWay(a, {"remove_usage"})
          BY <4>2 DEF UnderWay, Removing
        <5>4. ~ UnderWay(a, Removing)
          BY <4>3, <5>2, <5>3 DEF StoresOf
        <5>5. UnderWay(a, Adding \cup Removing) => UnderWay(a, Adding) \/ UnderWay(a, Removing)
          BY DEF UnderWay
        <5> QED BY <4>3, <5>2, <5>4, <5>5 DEF StoresOf
      <4> QED BY <4>1, <4>3 DEF Idle
    <3>2. ASSUME Select(u)
          PROVE  call'[u].at = "find" /\ call'[u].wallet \in KnownAddresses \cup mixed
      <4>1. /\ call[u].at = "select" /\ call'[u].at = "find"
            /\ call'[u].wallet \in IF strategy = "Random" THEN Range(call[u].seen)
                                   ELSE {Scan(call[u].seen)}
        BY <3>2, Moves
      <4>2. call[u].seen \in Lists /\ DOMAIN call[u].seen # {} /\ clock \in Nat
        BY <1>0, <4>1 DEF Types, CallTypes, StoreTypes, Calls
      <4>3. Scan(call[u].seen) \in Range(call[u].seen)
        BY <4>2, ScanInList
      <4>4. ~ raced[u]
        BY <2>3, <3>2 DEF Select, history
      <4>5. Range(call[u].seen) \subseteq KnownAddresses \cup mixed
        BY <4>1, <4>4 DEF StillThere
      <4> QED BY <4>1, <4>3, <4>5
    <3>3. ASSUME Find(u) \/ Touch(u) \/ ReleaseUsage(u) \/ \E success \in BOOLEAN : ReleaseInfo(u, success)
          PROVE  call'[u].at \notin {"select", "find"}
      <4>0. Idle.at = "idle"
        BY DEF Idle
      <4>1. CASE Find(u)
        BY <4>0, <4>1, Moves
      <4>2. CASE Touch(u)
        BY <4>2, Moves
      <4>3. CASE ReleaseUsage(u)
        BY <4>0, <4>3, Moves
      <4>4. ASSUME NEW success \in BOOLEAN, ReleaseInfo(u, success)
            PROVE  call'[u].at \notin {"select", "find"}
        <5>1. call'[u].at = IF success THEN "release_ok" ELSE "release_failed"
          BY <4>4, Moves
        <5> QED BY <5>1
      <4> QED BY <3>3, <4>1, <4>2, <4>3, <4>4
    <3> QED BY <1>4, <3>1, <3>2, <3>3 DEF UserStep
  <2> QED BY <2>1, <2>2, <2>3 DEF StillThere
<1> QED BY <1>1, <1>2, <1>3, <1>4 DEF Next, AdminStep

\* With wallets in the pool, get_next_wallet finds none only when remove_wallet has
\* overlapped it, or has overlapped an addition of the very wallet it chose: whoever
\* copies active_wallets while a wallet is being added still finds it in wallets.
THEOREM NoneNeedsARemoval == Spec => NoneOnlyInARace
<1>1. Init => Types /\ Stores /\ StillThere
  BY AllTypesInit, StoresInit
<1>2. Types /\ Stores /\ StillThere /\ [Next]_vars => (Types /\ Stores /\ StillThere)'
  BY TypesInductive, StoresInductive, StillThereInductive
<1>3. Types /\ Stores /\ StillThere /\ [Next]_vars
      => [\A u \in Users :
             call[u].at = "find" /\ call[u].wallet \notin KnownAddresses
             => raced[u] \/ call[u].wallet \in mixed]_vars
  BY DEF StillThere
<1> QED BY <1>1, <1>2, <1>3, PTL DEF Spec, NoneOnlyInARace

-----------------------------------------------------------------------------
\* The two counts

Releasing(c, at, a) == {u \in Users : c[u].at = at /\ c[u].wallet = a}

Ends == {"release_ok", "release_failed"}

\* An entry w against the usage n of its wallet, with the callers as c says.
Balanced(w, n, c) ==
    /\ w.total = n.total + Cardinality(Releasing(c, "release_ok", w.address))
                         + Cardinality(Releasing(c, "release_failed", w.address))
    /\ w.failed = n.total - n.ok + Cardinality(Releasing(c, "release_failed", w.address))

\* CountsAgree, entry by entry.
Counted ==
    \A i \in DOMAIN wallets :
        wallets[i].address \notin changed
        => Balanced(wallets[i], usage[wallets[i].address], call)

LEMMA OnceInductive == Types /\ Once /\ [Next]_vars => Once'
<1> SUFFICES ASSUME Types, Once, [Next]_vars PROVE Once'
  OBVIOUS
<1>0. clock \in Nat /\ DOMAIN wallets \subseteq 1 .. clock /\ admin \in [Admins -> ChangeCalls]
  BY DEF Types, StoreTypes, AdminTypes
<1>1. ASSUME NEW m \in Admins, NEW a \in Addresses, AddWallet(m, a) PROVE Once'
  <2>1. /\ changed' = changed \cup {a} /\ mixed' \subseteq mixed \cup {a}
        /\ admin' = [admin EXCEPT ![m] = [at |-> "add_active", address |-> a]]
    BY <1>1, Beginning DEF AddWallet
  <2>2. \A n \in Admins : admin'[n].at # "idle" => admin'[n].address \in changed'
    BY <1>0, <2>1 DEF Once
  <2>3. clock + 1 \notin DOMAIN wallets /\ wallets' = Put(wallets, clock + 1, NewInfo(a))
    BY <1>0, <1>1 DEF AddWallet
  <2>4. /\ DOMAIN wallets' = DOMAIN wallets \cup {clock + 1}
        /\ wallets'[clock + 1].address = a
        /\ \A i \in DOMAIN wallets : wallets'[i].address = wallets[i].address
    BY <2>3 DEF Put, NewInfo
  <2> QED BY <2>1, <2>2, <2>4 DEF Once
<1>2. ASSUME NEW m \in Admins, NEW a \in Addresses, RemoveWallet(m, a) PROVE Once'
  <2>1. /\ changed' = changed \cup {a} /\ mixed' \subseteq mixed \cup {a}
        /\ admin' = [admin EXCEPT ![m] = [at |-> "remove_active", address |-> a]]
    BY <1>2, Beginning DEF RemoveWallet
  <2>2. \A n \in Admins : admin'[n].at # "idle" => admin'[n].address \in changed'
    BY <1>0, <2>1 DEF Once
  <2> DEFINE D == {i \in DOMAIN wallets : wallets[i].address # a}
  <2>3. wallets' = Restrict(wallets, D)
    BY <1>2 DEF RemoveWallet
  <2>4. DOMAIN wallets' = D /\ \A i \in D : wallets'[i] = wallets[i]
    BY <2>3 DEF Restrict
  <2> QED BY <2>1, <2>2, <2>4 DEF Once
<1>3. ASSUME NEW m \in Admins, AddActive(m) \/ AddUsage(m) \/ RemoveActive(m) \/ RemoveUsage(m)
      PROVE  Once'
  <2>1. UNCHANGED <<wallets, changed, mixed>> /\ admin[m].at # "idle"
    BY <1>3 DEF AddActive, AddUsage, RemoveActive, RemoveUsage, Continue, End, history
  <2>2. \/ admin' = [admin EXCEPT ![m] = NoChange]
        \/ \E next : admin' = [admin EXCEPT ![m].at = next]
    BY <1>3 DEF AddActive, AddUsage, RemoveActive, RemoveUsage, Continue, End
  <2>3. \A n \in Admins : admin'[n].at # "idle" => admin'[n].address \in changed
    <3>1. CASE admin' = [admin EXCEPT ![m] = NoChange]
      BY <1>0, <3>1 DEF Once, NoChange
    <3>2. ASSUME NEW next, admin' = [admin EXCEPT ![m].at = next]
          PROVE  \A n \in Admins : admin'[n].at # "idle" => admin'[n].address \in changed
      <4>1. admin'[m].address = admin[m].address /\ \A n \in Admins \ {m} : admin'[n] = admin[n]
        BY <1>0, <3>2 DEF ChangeCalls
      <4> QED BY <2>1, <4>1 DEF Once
    <3> QED BY <2>2, <3>1, <3>2
  <2> QED BY <2>1, <2>3 DEF Once
<1>4. ASSUME NEW u \in Users, UserStep(u) PROVE Once'
  <2>1. /\ UNCHANGED <<admin, changed, mixed>> /\ DOMAIN wallets' = DOMAIN wallets
        /\ \A i \in DOMAIN wallets : wallets'[i].address = wallets[i].address
    BY <1>4, UserCall, UserAddresses
  <2> QED BY <2>1 DEF Once
<1>5. CASE UNCHANGED vars
  BY <1>5 DEF vars, stores, history, Once
<1> QED BY <1>1, <1>2, <1>3, <1>4, <1>5 DEF Next, AdminStep

LEMMA ReleasingIsFinite ==
  ASSUME NEW c, NEW at, NEW a
  PROVE  IsFiniteSet(Releasing(c, at, a)) /\ Cardinality(Releasing(c, at, a)) \in Nat
<1>1. Releasing(c, at, a) \in SUBSET Users
  BY DEF Releasing
<1> QED BY <1>1, FS_Subset, FS_CardinalityType

\* A wallet no change was about has its usage.
LEMMA HasUsage ==
  ASSUME Types, Stores, Once, NEW i \in DOMAIN wallets, wallets[i].address \notin changed
  PROVE  wallets[i].address \in DOMAIN usage /\ wallets[i].address \in Addresses
<1> DEFINE a == wallets[i].address
<1>1. a \in KnownAddresses /\ a \in Addresses /\ a \notin mixed
  BY DEF KnownAddresses, Types, StoreTypes, Info, Once
<1>2. ~ UnderWay(a, Adding \cup Removing)
  BY DEF Once, UnderWay, Adding, Removing
<1>3. StoresOf(a)
  BY <1>1 DEF Stores
<1> HIDE DEF a
<1>4. a \in DOMAIN usage
  BY <1>1, <1>2, <1>3 DEF StoresOf
<1> QED BY <1>1, <1>4 DEF a

LEMMA CountedInductive ==
  Types /\ Stores /\ Once /\ Counted /\ [Next]_vars => Counted'
<1> SUFFICES ASSUME Types, Stores, Once, Counted, [Next]_vars PROVE Counted'
  OBVIOUS
<1>0. /\ clock \in Nat /\ DOMAIN wallets \subseteq 1 .. clock
      /\ call \in [Users -> Calls] /\ wallets \in [DOMAIN wallets -> Info]
      /\ usage \in [DOMAIN usage -> Counts]
  BY DEF Types, StoreTypes, CallTypes
<1>1. ASSUME NEW m \in Admins, NEW a \in Addresses, AddWallet(m, a) PROVE Counted'
  <2>1. /\ wallets' = Put(wallets, clock + 1, NewInfo(a)) /\ changed' = changed \cup {a}
        /\ UNCHANGED <<usage, call>>
    BY <1>1 DEF AddWallet, Begin
  <2>3. clock + 1 \notin DOMAIN wallets
    BY <1>0
  <2>4. /\ DOMAIN wallets' = DOMAIN wallets \cup {clock + 1}
        /\ wallets'[clock + 1].address = a
        /\ \A i \in DOMAIN wallets : wallets'[i] = wallets[i]
    BY <2>1, <2>3 DEF Put, NewInfo
  <2> QED BY <2>1, <2>4 DEF Counted
<1>2. ASSUME NEW m \in Admins, NEW a \in Addresses, RemoveWallet(m, a) PROVE Counted'
  <2> DEFINE D == {i \in DOMAIN wallets : wallets[i].address # a}
  <2>1. /\ wallets' = Restrict(wallets, D) /\ changed' = changed \cup {a}
        /\ UNCHANGED <<usage, call>>
    BY <1>2 DEF RemoveWallet, Begin
  <2>3. DOMAIN wallets' = D /\ \A i \in D : wallets'[i] = wallets[i]
    BY <2>1 DEF Restrict
  <2> QED BY <2>1, <2>3 DEF Counted
<1>3. ASSUME UNCHANGED vars \/ \E m \in Admins : AddActive(m) \/ RemoveActive(m) PROVE Counted'
  <2>1. UNCHANGED <<wallets, usage, changed, call>>
    BY <1>3 DEF AddActive, RemoveActive, vars, stores, history
  <2> QED BY <2>1 DEF Counted
<1>4. ASSUME NEW m \in Admins, AddUsage(m) \/ RemoveUsage(m) PROVE Counted'
  <2> DEFINE b == admin[m].address
  <2>1. UNCHANGED <<wallets, changed, call>> /\ admin[m].at # "idle"
    BY <1>4 DEF AddUsage, RemoveUsage, End, history
  <2>2. \A c \in DOMAIN usage \ {b} : usage'[c] = usage[c]
    <3>1. CASE usage' = Put(usage, b, NewUsage(clock + 1))
      BY <3>1 DEF Put
    <3>2. CASE usage' = Restrict(usage, DOMAIN usage \ {b})
      BY <3>2 DEF Restrict
    <3> QED BY <1>4, <3>1, <3>2 DEF AddUsage, RemoveUsage
  <2>4. b \in changed
    BY <2>1 DEF Once
  <2>3. ASSUME NEW i \in DOMAIN wallets, wallets[i].address \notin changed
        PROVE  usage'[wallets[i].address] = usage[wallets[i].address]
    <3>1. wallets[i].address \in DOMAIN usage
      BY <2>3, HasUsage
    <3> QED BY <2>2, <2>3, <2>4, <3>1
  <2> QED BY <2>1, <2>3 DEF Counted
<1>5. ASSUME NEW u \in Users, UserStep(u) PROVE Counted'
  <2>0. /\ UNCHANGED changed /\ DOMAIN wallets' = DOMAIN wallets
        /\ \A i \in DOMAIN wallets : wallets'[i].address = wallets[i].address
        /\ \A v \in Users \ {u} : call'[v] = call[v]
    BY <1>5, UserCall, UserAddresses
  <2>1. ASSUME \/ Select(u) \/ Find(u) \/ Touch(u)
               \/ \E acquiring \in BOOLEAN : StartChoosing(u, acquiring)
        PROVE  Counted'
    <3>1. call[u].at \notin Ends /\ call'[u].at \notin Ends
      <4>0. Idle.at = "idle"
        BY DEF Idle
      <4>1. CASE Select(u)
        BY <4>1, Moves DEF Ends
      <4>2. CASE Find(u)
        BY <4>0, <4>2, Moves DEF Ends
      <4>3. CASE Touch(u)
        BY <4>3, Moves DEF Ends
      <4>4. ASSUME NEW acquiring \in BOOLEAN, StartChoosing(u, acquiring)
            PROVE  call[u].at \notin Ends /\ call'[u].at \notin Ends
        <5>1. /\ call[u] = Idle
              /\ call'[u] \in {Idle, [at |-> "select", acquiring |-> acquiring, seen |-> active,
                                      wallet |-> None]}
          BY <1>0, <4>4 DEF StartChoosing
        <5>2. call'[u].at \in {"idle", "select"}
          BY <4>0, <5>1
        <5> QED BY <4>0, <5>1, <5>2 DEF Ends
      <4> QED BY <2>1, <4>1, <4>2, <4>3, <4>4
    <3>2. \A a \in Addresses, at \in Ends : Releasing(call', at, a) = Releasing(call, at, a)
      BY <2>0, <3>1 DEF Releasing
    <3>3. wallets' = wallets
      BY <2>1 DEF Select, Find, Touch, StartChoosing, stores
    <3>4. ASSUME NEW a \in DOMAIN usage
          PROVE  usage'[a].total = usage[a].total /\ usage'[a].ok = usage[a].ok
      <4>1. CASE usage' = usage
        BY <4>1
      <4>2. CASE Touch(u)
        <5>1. /\ a = call[u].wallet => usage'[a].total = usage[a].total /\ usage'[a].ok = usage[a].ok
              /\ a # call[u].wallet => usage'[a] = usage[a]
          BY <4>2, TouchUsage
        <5> QED BY <5>1
      <4> QED BY <2>1, <4>1, <4>2 DEF Select, Find, StartChoosing, stores
    <3>5. ASSUME NEW i \in DOMAIN wallets, wallets[i].address \notin changed
          PROVE  Balanced(wallets[i], usage'[wallets[i].address], call')
      <4>1. PICK a \in DOMAIN usage : a = wallets[i].address /\ a \in Addresses
        BY <3>5, HasUsage
      <4>2. usage'[a].total = usage[a].total /\ usage'[a].ok = usage[a].ok
        BY <3>4
      <4>3. Balanced(wallets[i], usage[a], call)
        BY <3>5, <4>1 DEF Counted
      <4> QED BY <3>2, <4>1, <4>2, <4>3 DEF Balanced, Ends
    <3> QED BY <2>0, <3>3, <3>5 DEF Counted
  <2>2. ASSUME NEW success \in BOOLEAN, ReleaseInfo(u, success) PROVE Counted'
    <3> DEFINE b == call[u].wallet
               own == {i \in DOMAIN wallets : wallets[i].address = b}
    <3>1. /\ call[u].at = "holding" /\ call'[u].wallet = b
          /\ call'[u].at = IF success THEN "release_ok" ELSE "release_failed"
          /\ UNCHANGED usage
      <4>1. UNCHANGED usage
        BY <2>2 DEF ReleaseInfo
      <4> QED BY <2>2, <4>1, Moves
    <3>2. ASSUME NEW i \in DOMAIN wallets, wallets[i].address \notin changed
          PROVE  Balanced(wallets'[i], usage[wallets[i].address], call')
      <4>1. PICK a \in DOMAIN usage : a = wallets[i].address /\ a \in Addresses
        BY <3>2, HasUsage
      <4>2. Balanced(wallets[i], usage[a], call)
        BY <3>2, <4>1 DEF Counted
      <4>3. CASE a # b
        <5>1. \A at : Releasing(call', at, a) = Releasing(call, at, a)
          BY <2>0, <3>1, <4>3 DEF Releasing
        <5>0. own \in SUBSET Nat
          BY <1>0
        <5>2. own # {} => Min(own) \in own
          <6> HIDE DEF own
          <6> QED BY <5>0, MinIsLeast
        <5>3. wallets'[i] = wallets[i]
          BY <2>2, <4>1, <4>3, <5>2, ReleaseInfoWallets
        <5> QED BY <4>1, <4>2, <5>1, <5>3 DEF Balanced
      <4>4. CASE a = b
        <5>1. own = {i}
          BY <3>2, <4>1, <4>4 DEF Once
        <5>2. Min(own) = i
          <6>1. own \in SUBSET Nat
            BY <1>0
          <6> HIDE DEF own
          <6> QED BY <5>1, <6>1, MinIsLeast
        <5>3. wallets'[i].address = a /\ wallets'[i].total = wallets[i].total + 1
          BY <2>2, <4>1, <5>1, <5>2, ReleaseInfoWallets
        <5>9. wallets'[i].failed = IF success THEN wallets[i].failed ELSE wallets[i].failed + 1
          BY <2>2, <4>1, <5>1, <5>2, ReleaseInfoWallets
        <5>4. /\ wallets[i].total \in Nat /\ wallets[i].failed \in Nat
              /\ usage[a].total \in Nat /\ usage[a].ok \in Nat
          BY <1>0 DEF Info, Counts
        <5>5. PICK ok \in Nat, failed \in Nat, nowOk \in Nat, nowFailed \in Nat :
                /\ ok = Cardinality(Releasing(call, "release_ok", a))
                /\ failed = Cardinality(Releasing(call, "release_failed", a))
                /\ nowOk = Cardinality(Releasing(call', "release_ok", a))
                /\ nowFailed = Cardinality(Releasing(call', "release_failed", a))
          BY ReleasingIsFinite
        <5>6. wallets[i].total = usage[a].total + ok + failed
              /\ wallets[i].failed = usage[a].total - usage[a].ok + failed
          BY <4>1, <4>2, <5>5 DEF Balanced
        <5>7. CASE success
          <6>1. /\ Releasing(call', "release_ok", a) = Releasing(call, "release_ok", a) \cup {u}
                /\ u \notin Releasing(call, "release_ok", a)
                /\ Releasing(call', "release_failed", a) = Releasing(call, "release_failed", a)
            BY <2>0, <3>1, <4>4, <5>7 DEF Releasing
          <6>2. nowOk = ok + 1 /\ nowFailed = failed
            BY <5>5, <6>1, ReleasingIsFinite, FS_AddElement
          <6>3. wallets'[i].failed = wallets[i].failed
            BY <5>7, <5>9
          <6>4. /\ wallets'[i].total = usage[a].total + nowOk + nowFailed
                /\ wallets'[i].failed = usage[a].total - usage[a].ok + nowFailed
            <7> HIDE PoolAssumption
            <7> QED BY <5>3, <5>4, <5>6, <6>2, <6>3
          <6> QED BY <4>1, <5>3, <5>5, <6>4 DEF Balanced
        <5>8. CASE ~ success
          <6>1. /\ Releasing(call', "release_failed", a) = Releasing(call, "release_failed", a) \cup {u}
                /\ u \notin Releasing(call, "release_failed", a)
                /\ Releasing(call', "release_ok", a) = Releasing(call, "release_ok", a)
            BY <2>0, <3>1, <4>4, <5>8 DEF Releasing
          <6>2. nowOk = ok /\ nowFailed = failed + 1
            BY <5>5, <6>1, ReleasingIsFinite, FS_AddElement
          <6>3. wallets'[i].failed = wallets[i].failed + 1
            BY <5>8, <5>9
          <6>4. /\ wallets'[i].total = usage[a].total + nowOk + nowFailed
                /\ wallets'[i].failed = usage[a].total - usage[a].ok + nowFailed
            <7> HIDE PoolAssumption
            <7> QED BY <5>3, <5>4, <5>6, <6>2, <6>3
          <6> QED BY <4>1, <5>3, <5>5, <6>4 DEF Balanced
        <5> QED BY <5>7, <5>8
      <4> QED BY <4>3, <4>4
    <3> QED BY <2>0, <3>1, <3>2 DEF Counted
  <2>3. ASSUME ReleaseUsage(u) PROVE Counted'
    <3> DEFINE b == call[u].wallet
    <3>0. wallets' = wallets
      BY <2>3 DEF ReleaseUsage
    <3>1. call[u].at \in Ends /\ call'[u].at = "idle"
      <4>1. Idle.at = "idle"
        BY DEF Idle
      <4> QED BY <2>3, <4>1, Moves DEF Ends
    <3>2. ASSUME NEW i \in DOMAIN wallets, wallets[i].address \notin changed
          PROVE  Balanced(wallets[i], usage'[wallets[i].address], call')
      <4>1. PICK a \in DOMAIN usage : a = wallets[i].address /\ a \in Addresses
        BY <3>2, HasUsage
      <4>2. Balanced(wallets[i], usage[a], call)
        BY <3>2, <4>1 DEF Counted
      <4>3. CASE a # b
        <5>1. \A at \in Ends : Releasing(call', at, a) = Releasing(call, at, a)
          BY <2>0, <3>1, <4>3 DEF Releasing, Ends
        <5>2. usage'[a] = usage[a]
          BY <2>3, <4>3, ReleaseUsageUsage
        <5> QED BY <4>1, <4>2, <5>1, <5>2 DEF Balanced, Ends
      <4>4. CASE a = b
        <5>1. /\ usage'[a].total = usage[a].total + 1
              /\ usage'[a].ok = IF call[u].at = "release_ok" THEN usage[a].ok + 1 ELSE usage[a].ok
          BY <2>3, <4>4, ReleaseUsageUsage
        <5>4. /\ wallets[i].total \in Nat /\ wallets[i].failed \in Nat
              /\ usage[a].total \in Nat /\ usage[a].ok \in Nat
          BY <1>0 DEF Info, Counts
        <5>5. PICK ok \in Nat, failed \in Nat, nowOk \in Nat, nowFailed \in Nat :
                /\ ok = Cardinality(Releasing(call, "release_ok", a))
                /\ failed = Cardinality(Releasing(call, "release_failed", a))
                /\ nowOk = Cardinality(Releasing(call', "release_ok", a))
                /\ nowFailed = Cardinality(Releasing(call', "release_failed", a))
          BY ReleasingIsFinite
        <5>6. wallets[i].total = usage[a].total + ok + failed
              /\ wallets[i].failed = usage[a].total - usage[a].ok + failed
          BY <4>1, <4>2, <5>5 DEF Balanced
        <5>7. CASE call[u].at = "release_ok"
          <6>1. /\ Releasing(call, "release_ok", a) = Releasing(call', "release_ok", a) \cup {u}
                /\ u \notin Releasing(call', "release_ok", a)
                /\ Releasing(call', "release_failed", a) = Releasing(call, "release_failed", a)
            BY <2>0, <3>1, <4>4, <5>7 DEF Releasing
          <6>2. ok = nowOk + 1 /\ nowFailed = failed
            BY <5>5, <6>1, ReleasingIsFinite, FS_AddElement
          <6>4. /\ wallets[i].total = usage'[a].total + nowOk + nowFailed
                /\ wallets[i].failed = usage'[a].total - usage'[a].ok + nowFailed
            <7>1. usage'[a].total = usage[a].total + 1 /\ usage'[a].ok = usage[a].ok + 1
              BY <5>1, <5>7
            <7> HIDE PoolAssumption
            <7> QED BY <5>4, <5>6, <6>2, <7>1
          <6> QED BY <4>1, <5>5, <6>4 DEF Balanced
        <5>8. CASE call[u].at = "release_failed"
          <6>1. /\ Releasing(call, "release_failed", a) = Releasing(call', "release_failed", a) \cup {u}
                /\ u \notin Releasing(call', "release_failed", a)
                /\ Releasing(call', "release_ok", a) = Releasing(call, "release_ok", a)
            BY <2>0, <3>1, <4>4, <5>8 DEF Releasing
          <6>2. nowOk = ok /\ failed = nowFailed + 1
            BY <5>5, <6>1, ReleasingIsFinite, FS_AddElement
          <6>4. /\ wallets[i].total = usage'[a].total + nowOk + nowFailed
                /\ wallets[i].failed = usage'[a].total - usage'[a].ok + nowFailed
            <7>1. usage'[a].total = usage[a].total + 1 /\ usage'[a].ok = usage[a].ok
              BY <5>1, <5>8
            <7> HIDE PoolAssumption
            <7> QED BY <5>4, <5>6, <6>2, <7>1
          <6> QED BY <4>1, <5>5, <6>4 DEF Balanced
        <5> QED BY <3>1, <5>7, <5>8 DEF Ends
      <4> QED BY <4>3, <4>4
    <3> QED BY <2>0, <3>0, <3>2 DEF Counted
  <2>4. \/ Select(u) \/ Find(u) \/ Touch(u)
        \/ \E acquiring \in BOOLEAN : StartChoosing(u, acquiring)
        \/ \E success \in BOOLEAN : ReleaseInfo(u, success)
        \/ ReleaseUsage(u)
    BY <1>5 DEF UserStep
  <2> QED BY <2>1, <2>2, <2>3, <2>4
<1> QED BY <1>1, <1>2, <1>3, <1>4, <1>5 DEF Next, AdminStep

\* A WalletInfo and the usage of its wallet, which two locks guard, count the same
\* transactions but for the releases between the two: none is counted twice or lost.
THEOREM CountsNeverDrift == Spec => []CountsAgree
<1>1. Init => Types /\ Stores /\ Once /\ Counted
  <2> SUFFICES ASSUME Init PROVE Counted
    BY AllTypesInit, StoresInit
  <2>1. ASSUME NEW i \in DOMAIN wallets
        PROVE  Balanced(wallets[i], usage[wallets[i].address], call)
    <3>1. /\ wallets[i].address \in Range(Initial) /\ wallets[i].total = 0 /\ wallets[i].failed = 0
          /\ \A a \in Range(Initial) : usage[a].total = 0 /\ usage[a].ok = 0
      BY DEF Init, NewInfo, NewUsage, Range
    <3>2. \A a : \A at \in Ends : Releasing(call, at, a) = {}
      BY DEF Init, Idle, Releasing, Ends
    <3>3. \A at \in Ends : Cardinality(Releasing(call, at, wallets[i].address)) = 0
      BY <3>2, FS_EmptySet
    <3> QED BY <3>1, <3>3 DEF Balanced, Ends
  <2> QED BY <2>1 DEF Counted
<1>2. Types /\ Stores /\ Once /\ Counted /\ [Next]_vars => (Types /\ Stores /\ Once /\ Counted)'
  BY TypesInductive, StoresInductive, OnceInductive, CountedInductive
<1>3. Counted => CountsAgree
  BY DEF Counted, Balanced, Releasing, CountsAgree
<1> QED BY <1>1, <1>2, <1>3, PTL DEF Spec

-----------------------------------------------------------------------------
\* Round robin

\* The users that may still acquire a without having compared it with b.
Chasing(c, a, b) ==
    {u \in Users : \/ c[u].at \in {"find", "touch"} /\ c[u].wallet = a
                   \/ c[u].at = "select" /\ b \notin Range(c[u].seen)}

\* Every reading of the clock in a usage is one the clock has given.
Lasts == \A a \in DOMAIN usage : usage[a].last <= clock

\* A wallet that has passed b is the more recently used one of the two, so that only
\* those who have chosen it before can let it pass again.
Overtaking ==
    strategy = "RoundRobin" =>
        \A a \in Addresses, b \in Range(active) \cap DOMAIN usage :
            a # b /\ Settled(b) =>
                /\ passed[b][a] + Cardinality(Chasing(call, a, b)) <= Cardinality(Users)
                /\ passed[b][a] > 0 /\ a \in DOMAIN usage => usage[b].last < usage[a].last

\* Round robin chooses none that was used after one it has seen.
LEMMA ScanOldest ==
  ASSUME Types, strategy = "RoundRobin", NEW seen \in Lists,
         NEW b \in Range(seen) \cap DOMAIN usage
  PROVE  Scan(seen) \in DOMAIN usage /\ usage[Scan(seen)].last <= usage[b].last
<1> DEFINE known == {i \in DOMAIN seen : seen[i] \in DOMAIN usage}
           last(i) == usage[seen[i]].last
           best == {i \in DOMAIN seen : Eligible(seen[i]) /\
                      \A j \in DOMAIN seen : Eligible(seen[j]) => ~ Better(seen[j], seen[i])}
<1>1. /\ DOMAIN seen \in SUBSET Nat /\ usage \in [DOMAIN usage -> Counts]
  BY InLists DEF Types, StoreTypes
<1>2. \A i \in known : last(i) \in Nat
  BY <1>1 DEF Counts
<1>3. best = {i \in known : \A j \in known : ~ (last(j) < last(i))}
  BY DEF Eligible, Better
<1>4. PICK k \in known : seen[k] = b
  BY DEF Range
<1>5. PICK m \in {last(i) : i \in known} : \A n \in {last(i) : i \in known} : m <= n
  <2>1. {last(i) : i \in known} \in SUBSET Nat /\ {last(i) : i \in known} # {}
    BY <1>2, <1>4
  <2> HIDE DEF known, last
  <2> QED BY <2>1, Least
<1>6. PICK o \in known : last(o) = m
  BY <1>5
<1>7. o \in best
  <2>1. ASSUME NEW j \in known PROVE ~ (last(j) < last(o))
    <3>1. m <= last(j) /\ last(j) \in Nat /\ m \in Nat
      BY <1>2, <1>5, <1>6
    <3> HIDE DEF last
    <3> QED BY <1>6, <3>1
  <2> QED BY <1>3, <2>1
<1>8. best # {} /\ best \in SUBSET Nat
  BY <1>1, <1>7
<1>9. Min(best) \in best
  <2> HIDE DEF best
  <2> QED BY <1>8, MinIsLeast
<1>10. Scan(seen) = seen[Min(best)]
  BY <1>8 DEF Scan
<1>11. Min(best) \in known /\ ~ (last(k) < last(Min(best)))
  <2> HIDE DEF best, last
  <2> QED BY <1>3, <1>4, <1>9
<1>12. last(Min(best)) <= last(k)
  <2>1. last(Min(best)) \in Nat /\ last(k) \in Nat
    <3> HIDE DEF best, last
    <3> QED BY <1>2, <1>4, <1>11
  <2> HIDE DEF last, best
  <2> QED BY <1>11, <2>1
<1> QED BY <1>4, <1>10, <1>11, <1>12

LEMMA LastsInductive == Types /\ Lasts /\ [Next]_vars => Lasts'
<1> SUFFICES ASSUME Types, Lasts, [Next]_vars PROVE Lasts'
  OBVIOUS
<1> HIDE PoolAssumption
<1>0. clock \in Nat /\ usage \in [DOMAIN usage -> Counts] /\ \A a \in DOMAIN usage : usage[a].last \in Nat
  BY DEF Types, StoreTypes, Counts
<1>1. CASE UNCHANGED <<usage, clock>>
  BY <1>1 DEF Lasts
<1>11. CASE usage' = usage /\ clock' = clock + 1
  BY <1>0, <1>11 DEF Lasts
<1>2. ASSUME NEW m \in Admins, AddUsage(m) PROVE Lasts'
  <2> DEFINE b == admin[m].address
  <2>1. usage' = Put(usage, b, NewUsage(clock + 1)) /\ clock' = clock + 1
    BY <1>2 DEF AddUsage
  <2>2. /\ DOMAIN usage' = DOMAIN usage \cup {b}
        /\ \A a \in DOMAIN usage' : usage'[a].last = clock + 1 \/ (a \in DOMAIN usage /\ usage'[a] = usage[a])
    BY <2>1 DEF Put, NewUsage
  <2> QED BY <1>0, <2>1, <2>2 DEF Lasts
<1>3. ASSUME NEW m \in Admins, RemoveUsage(m) PROVE Lasts'
  <2>1. usage' = Restrict(usage, DOMAIN usage \ {admin[m].address}) /\ clock' = clock
    BY <1>3 DEF RemoveUsage
  <2>2. \A a \in DOMAIN usage' : a \in DOMAIN usage /\ usage'[a] = usage[a]
    BY <2>1 DEF Restrict
  <2> QED BY <2>1, <2>2 DEF Lasts
<1>4. ASSUME NEW u \in Users, Touch(u) \/ ReleaseUsage(u) PROVE Lasts'
  <2>1. clock' = clock + 1
    BY <1>4 DEF Touch, ReleaseUsage
  <2>2. /\ DOMAIN usage' = DOMAIN usage
        /\ \A a \in DOMAIN usage : usage'[a].last = clock + 1 \/ usage'[a] = usage[a]
    <3>1. CASE Touch(u)
      BY <3>1, TouchUsage
    <3>2. CASE ReleaseUsage(u)
      BY <3>2, ReleaseUsageUsage
    <3> QED BY <1>4, <3>1, <3>2
  <2> QED BY <1>0, <2>1, <2>2 DEF Lasts
<1> QED BY <1>1, <1>11, <1>2, <1>3, <1>4 DEF Next, AdminStep, UserStep, AddWallet, RemoveWallet, AddActive,
     RemoveActive, StartChoosing, Select, Find, ReleaseInfo, stores, vars

LEMMA ChasingIsFinite ==
  ASSUME NEW c, NEW a, NEW b
  PROVE  /\ IsFiniteSet(Chasing(c, a, b)) /\ Cardinality(Chasing(c, a, b)) \in Nat
         /\ Cardinality(Chasing(c, a, b)) <= Cardinality(Users) /\ Cardinality(Users) \in Nat
<1>1. Chasing(c, a, b) \in SUBSET Users
  BY DEF Chasing
<1> QED BY <1>1, FS_Subset, FS_CardinalityType

\* Who steps outside the choice of a wallet does not join the chase.
LEMMA ChaseShrinks ==
  ASSUME Types, NEW u \in Users, UserStep(u), NEW a, NEW b,
         u \in Chasing(call', a, b) => u \in Chasing(call, a, b)
  PROVE  Chasing(call', a, b) \subseteq Chasing(call, a, b)
<1>1. \A v \in Users \ {u} : call'[v] = call[v]
  BY UserCall
<1> QED BY <1>1 DEF Chasing

\* What Overtaking says of one pair of wallets.
Behind(a, b) ==
    /\ passed[b][a] + Cardinality(Chasing(call, a, b)) <= Cardinality(Users)
    /\ passed[b][a] > 0 /\ a \in DOMAIN usage => usage[b].last < usage[a].last

\* A wallet is settled after the step that ends its last change, or was settled before
\* and the step changes another.
LEMMA Settling ==
  ASSUME Types, NEW m \in Admins, AdminStep(m), NEW b \in Addresses, Settled(b)'
  PROVE  \/ (AddUsage(m) \/ RemoveUsage(m)) /\ admin[m].address = b
         \/ /\ Settled(b)
            /\ \A c \in Addresses : AddWallet(m, c) \/ RemoveWallet(m, c) => c # b
            /\ admin[m].at # "idle" => admin[m].address # b
<1> DEFINE K == Adding \cup Removing
<1>0. AdminTypes /\ "idle" \notin K /\ b \notin mixed' /\ ~ UnderWay(b, K)'
  BY DEF Types, Adding, Removing, Settled
<1>1. ASSUME NEW a \in Addresses, AddWallet(m, a) \/ RemoveWallet(m, a)
      PROVE  a # b /\ Settled(b) /\ admin[m].at = "idle"
  <2>1. PICK next \in {"add_active", "remove_active"} : Begin(m, a, next)
    BY <1>1 DEF AddWallet, RemoveWallet
  <2>2. /\ admin[m].at = "idle" /\ admin' = [admin EXCEPT ![m] = [at |-> next, address |-> a]]
        /\ mixed \ {a} \subseteq mixed'
    BY <2>1, Beginning
  <2>3. /\ UnderWay(b, K) <=> Others(m, b, K) \/ (admin[m].address = b /\ admin[m].at \in K)
        /\ UnderWay(b, K)' <=> Others(m, b, K) \/ (a = b /\ next \in K)
    <3> DEFINE c == [at |-> next, address |-> a]
    <3>1. admin' = [admin EXCEPT ![m] = c] /\ c.at = next /\ c.address = a
      BY <2>2
    <3> HIDE DEF c, K
    <3> QED BY <1>0, <3>1, OneMoves
  <2>4. next \in K
    BY DEF Adding, Removing
  <2> QED BY <1>0, <2>2, <2>3, <2>4 DEF Settled
<1>2. ASSUME AddActive(m) \/ RemoveActive(m)
      PROVE  Settled(b) /\ admin[m].at \in K /\ admin[m].address # b
  <2>1. PICK at \in K, next \in K : Continue(m, at, next)
    BY <1>2 DEF AddActive, RemoveActive, Adding, Removing
  <2>2. /\ admin[m].at = at
        /\ admin' = [admin EXCEPT ![m] = [at |-> next, address |-> admin[m].address]]
    BY <2>1, Continuing
  <2>3. /\ UnderWay(b, K) <=> Others(m, b, K) \/ (admin[m].address = b /\ admin[m].at \in K)
        /\ UnderWay(b, K)' <=> Others(m, b, K) \/ (admin[m].address = b /\ next \in K)
    <3> DEFINE c == [at |-> next, address |-> admin[m].address]
    <3>1. admin' = [admin EXCEPT ![m] = c] /\ c.at = next /\ c.address = admin[m].address
      BY <2>2
    <3> HIDE DEF c, K
    <3> QED BY <1>0, <3>1, OneMoves
  <2>4. mixed' = mixed
    BY <1>2 DEF AddActive, RemoveActive, history
  <2> QED BY <1>0, <2>2, <2>3, <2>4 DEF Settled
<1>3. ASSUME AddUsage(m) \/ RemoveUsage(m), admin[m].address # b PROVE Settled(b)
  <2>1. PICK at \in K : End(m, at)
    BY <1>3 DEF AddUsage, RemoveUsage, Adding, Removing
  <2>2. admin' = [admin EXCEPT ![m] = NoChange]
    BY <2>1, Ending
  <2>3. UnderWay(b, K) <=> Others(m, b, K) \/ (admin[m].address = b /\ admin[m].at \in K)
    <3> HIDE DEF K
    <3> QED BY <1>0, <2>2, OneMoves
  <2>4. UnderWay(b, K)' <=> Others(m, b, K) \/ (NoChange.address = b /\ NoChange.at \in K)
    <3> HIDE DEF K
    <3> QED BY <1>0, <2>2, OneMoves
  <2>5. mixed' = mixed
    BY <1>3 DEF AddUsage, RemoveUsage, history
  <2> QED BY <1>0, <1>3, <2>3, <2>4, <2>5 DEF Settled
<1>4. ASSUME AddUsage(m) \/ RemoveUsage(m) PROVE \A c \in Addresses : ~ AddWallet(m, c) /\ ~ RemoveWallet(m, c)
  BY <1>4 DEF AddUsage, RemoveUsage, AddWallet, RemoveWallet, Begin, End, NoChange
<1>5. ASSUME AddActive(m) \/ RemoveActive(m) PROVE \A c \in Addresses : ~ AddWallet(m, c) /\ ~ RemoveWallet(m, c)
  BY <1>5 DEF AddActive, RemoveActive, AddWallet, RemoveWallet, Begin, Continue, NoChange
<1>6. CASE \E a \in Addresses : AddWallet(m, a) \/ RemoveWallet(m, a)
  BY <1>1, <1>6
<1>7. CASE AddActive(m) \/ RemoveActive(m)
  BY <1>2, <1>5, <1>7
<1>8. CASE AddUsage(m) \/ RemoveUsage(m)
  BY <1>3, <1>4, <1>8
<1> QED BY <1>6, <1>7, <1>8 DEF AdminStep

\* A step of an administrator resets b's row, removes b or leaves the pair as it was.
LEMMA BehindAdmin ==
  ASSUME Types, Lasts, NEW m \in Admins, AdminStep(m),
         NEW a \in Addresses, NEW b \in Addresses, a # b,
         Settled(b) /\ b \in Range(active) \cap DOMAIN usage => Behind(a, b),
         Settled(b)', b \in Range(active)' \cap DOMAIN usage'
  PROVE  Behind(a, b)'
<1> DEFINE c == admin[m].address
<1>0. /\ clock \in Nat /\ usage \in [DOMAIN usage -> Counts] /\ passed \in [Addresses -> [Addresses -> Nat]]
      /\ \A d \in DOMAIN usage : usage[d].last \in Nat /\ usage[d].last < clock + 1
  <2> HIDE PoolAssumption
  <2>1. \A d \in DOMAIN usage : usage[d].last \in Nat /\ usage[d].last <= clock /\ clock \in Nat
    BY DEF Types, StoreTypes, Counts, Lasts
  <2> QED BY <2>1 DEF Types, StoreTypes
<1>1. ASSUME Behind(a, b), UNCHANGED <<call, passed>>, b \in DOMAIN usage,
             \A d \in DOMAIN usage' \cap DOMAIN usage : usage'[d].last = usage[d].last,
             DOMAIN usage' \subseteq DOMAIN usage
      PROVE  Behind(a, b)'
  BY <1>1 DEF Behind
<1>2. UNCHANGED call
  BY AdminLeavesCalls
<1>3. ASSUME NEW d \in Addresses, AddWallet(m, d) \/ RemoveWallet(m, d) PROVE Behind(a, b)'
  <2>1. UNCHANGED <<active, usage, passed>> /\ Begin(m, d, IF AddWallet(m, d) THEN "add_active" ELSE "remove_active")
    BY <1>3 DEF AddWallet, RemoveWallet
  <2>2. admin[m].at = "idle"
    BY <2>1 DEF Begin, NoChange
  <2>3. Settled(b)
    BY <2>2, Settling DEF AddUsage, RemoveUsage, End
  <2> QED BY <1>1, <1>2, <2>1, <2>3
<1>4. CASE AddActive(m) \/ RemoveActive(m)
  <2>1. UNCHANGED <<usage, passed>> /\ admin[m].at \in {"add_active", "remove_active"}
    BY <1>4 DEF AddActive, RemoveActive, Continue, history
  <2>2. Settled(b) /\ c # b
    BY <2>1, Settling DEF AddUsage, RemoveUsage, End
  <2>3. b \in Range(active)
    <3>1. Range(active)' \subseteq Range(active) \cup {c}
      BY <1>4, Sections
    <3> QED BY <2>2, <3>1
  <2> QED BY <1>1, <1>2, <2>1, <2>2, <2>3
<1>5. CASE RemoveUsage(m)
  <2>1. usage' = Restrict(usage, DOMAIN usage \ {c}) /\ UNCHANGED <<active, passed>>
    BY <1>5 DEF RemoveUsage, history
  <2>2. DOMAIN usage' = DOMAIN usage \ {c} /\ \A d \in DOMAIN usage' : usage'[d] = usage[d]
    BY <2>1 DEF Restrict
  <2>3. Settled(b)
    <3>1. ~ AddUsage(m) /\ c # b
      BY <1>5, <2>2 DEF AddUsage, RemoveUsage, End
    <3> QED BY <3>1, Settling
  <2> QED BY <1>1, <1>2, <2>1, <2>2, <2>3
<1>6. CASE AddUsage(m)
  <2>1. /\ usage' = Put(usage, c, NewUsage(clock + 1)) /\ passed' = Touched(c)
        /\ UNCHANGED active
    BY <1>6 DEF AddUsage
  <2>2. CASE b = c
    <3>1. passed'[b][a] = 0
      BY <1>0, <2>1, <2>2 DEF Touched
    <3> QED BY <3>1, ChasingIsFinite DEF Behind
  <2>3. CASE b # c
    <3>0. Settled(b)
      BY <2>3, Settling
    <3>1. /\ DOMAIN usage' = DOMAIN usage \cup {c}
          /\ \A d \in DOMAIN usage : d # c => usage'[d] = usage[d]
          /\ usage'[c].last = clock + 1
      BY <2>1 DEF Put, NewUsage
    <3>2. passed'[b] = passed[b]
      BY <1>0, <2>1, <2>3 DEF Touched
    <3>3. b \in DOMAIN usage /\ usage'[b] = usage[b] /\ usage[b].last < clock + 1 /\ Behind(a, b)
      BY <1>0, <2>1, <2>3, <3>0, <3>1
    <3>4. a \in DOMAIN usage' /\ passed'[b][a] > 0 => usage'[b].last < usage'[a].last
      BY <3>1, <3>2, <3>3 DEF Behind
    <3> QED BY <1>2, <3>2, <3>3, <3>4 DEF Behind
  <2> QED BY <2>2, <2>3
<1> QED BY <1>3, <1>4, <1>5, <1>6 DEF AdminStep

\* A step of a user: only a Touch passes b, and who makes it leaves the chase.
LEMMA BehindUser ==
  ASSUME Types, Lasts, NEW u \in Users, UserStep(u), NEW a \in Addresses, NEW b \in Addresses, a # b,
         strategy = "RoundRobin", b \in Range(active) \cap DOMAIN usage, Behind(a, b)
  PROVE  Behind(a, b)'
<1> DEFINE w == call[u].wallet
<1>0. /\ clock \in Nat /\ usage \in [DOMAIN usage -> Counts] /\ passed \in [Addresses -> [Addresses -> Nat]]
      /\ call \in [Users -> Calls] /\ passed[b][a] \in Nat
      /\ \A v \in Users \ {u} : call'[v] = call[v]
      /\ \A c \in DOMAIN usage : usage[c].last \in Nat /\ usage[c].last < clock + 1
  <2>1. \A v \in Users \ {u} : call'[v] = call[v]
    BY UserCall
  <2> HIDE PoolAssumption
  <2>2. \A c \in DOMAIN usage : usage[c].last \in Nat /\ usage[c].last <= clock /\ clock \in Nat
    BY DEF Types, StoreTypes, Counts, Lasts
  <2> QED BY <2>1, <2>2 DEF Types, StoreTypes, CallTypes
<1>1. ASSUME passed'[b][a] = 0 PROVE Behind(a, b)'
  BY <1>1, ChasingIsFinite DEF Behind
<1>2. ASSUME passed'[b][a] = passed[b][a],
             u \in Chasing(call', a, b) => u \in Chasing(call, a, b),
             DOMAIN usage' = DOMAIN usage, usage'[b] = usage[b],
             a \in DOMAIN usage => usage'[a] = usage[a] \/ usage'[a].last = clock + 1
      PROVE  Behind(a, b)'
  <2>1. Chasing(call', a, b) \subseteq Chasing(call, a, b)
    BY <1>2, ChaseShrinks
  <2>2. Cardinality(Chasing(call', a, b)) <= Cardinality(Chasing(call, a, b))
    BY <2>1, ChasingIsFinite, FS_Subset
  <2>3. a \in DOMAIN usage => usage'[b].last < usage'[a].last \/ usage'[a] = usage[a]
    BY <1>0, <1>2
  <2>4. PICK m \in Nat, n \in Nat, k \in Nat :
          /\ m = Cardinality(Chasing(call', a, b)) /\ n = Cardinality(Chasing(call, a, b))
          /\ k = Cardinality(Users)
    BY ChasingIsFinite
  <2>5. passed[b][a] + m <= k
    <3>1. passed[b][a] + n <= k /\ m <= n
      BY <2>2, <2>4 DEF Behind
    <3> HIDE PoolAssumption
    <3> QED BY <1>0, <2>4, <3>1
  <2> QED BY <1>2, <2>3, <2>4, <2>5 DEF Behind
<1>3. ASSUME NEW acquiring \in BOOLEAN, StartChoosing(u, acquiring) PROVE Behind(a, b)'
  <2>1. UNCHANGED <<usage, passed>>
    BY <1>3 DEF StartChoosing, stores
  <2>2. call'[u] \in {Idle, [at |-> "select", acquiring |-> acquiring, seen |-> active, wallet |-> None]}
    BY <1>0, <1>3 DEF StartChoosing
  <2>3. u \notin Chasing(call', a, b)
    BY <2>2 DEF Chasing, Idle
  <2> QED BY <1>2, <2>1, <2>3
<1>4. ASSUME Select(u) PROVE Behind(a, b)'
  <2>1. UNCHANGED <<usage, passed>>
    BY <1>4 DEF Select, stores, history
  <2>2. CASE passed[b][a] = 0
    BY <1>1, <2>1, <2>2
  <2>3. ASSUME passed[b][a] # 0, u \in Chasing(call', a, b) PROVE u \in Chasing(call, a, b)
    <3>1. /\ call[u].at = "select" /\ call'[u].at = "find" /\ call'[u].wallet = Scan(call[u].seen)
      <4>1. /\ call[u].at = "select" /\ call'[u].at = "find"
            /\ call'[u].wallet \in IF strategy = "Random" THEN Range(call[u].seen)
                                   ELSE {Scan(call[u].seen)}
        BY <1>4, Moves
      <4> QED BY <4>1
    <3>2. Scan(call[u].seen) = a
      BY <2>3, <3>1 DEF Chasing
    <3>3. ASSUME b \in Range(call[u].seen) PROVE FALSE
      <4>1. call[u].seen \in Lists
        BY <1>0 DEF Calls
      <4>2. a \in DOMAIN usage /\ usage[a].last <= usage[b].last
        BY <3>2, <3>3, <4>1, ScanOldest
      <4>3. usage[b].last < usage[a].last
        <5>1. passed[b][a] > 0
          BY <1>0, <2>3
        <5> QED BY <4>2, <5>1 DEF Behind
      <4> HIDE PoolAssumption
      <4> QED BY <1>0, <4>2, <4>3
    <3> QED BY <3>1, <3>3 DEF Chasing
  <2> QED BY <1>2, <2>1, <2>2, <2>3
<1>5. ASSUME Find(u) PROVE Behind(a, b)'
  <2>1. UNCHANGED <<usage, passed>>
    BY <1>5 DEF Find, stores
  <2>2. /\ call[u].at = "find"
        /\ call'[u] = Idle \/ (call'[u].at = "touch" /\ call'[u].wallet = call[u].wallet)
    BY <1>5, Moves
  <2>3. Idle.at = "idle"
    BY DEF Idle
  <2>4. u \in Chasing(call', a, b) => u \in Chasing(call, a, b)
    BY <2>2, <2>3 DEF Chasing
  <2> QED BY <1>2, <2>1, <2>4
<1>6. ASSUME NEW success \in BOOLEAN, ReleaseInfo(u, success) PROVE Behind(a, b)'
  <2>1. UNCHANGED <<usage, passed>>
    BY <1>6 DEF ReleaseInfo, history
  <2>2. call'[u].at = IF success THEN "release_ok" ELSE "release_failed"
    BY <1>6, Moves
  <2>3. u \notin Chasing(call', a, b)
    BY <2>2 DEF Chasing
  <2> QED BY <1>2, <2>1, <2>3
<1>7. ASSUME ReleaseUsage(u) PROVE Behind(a, b)'
  <2>1. passed' = Touched(w)
    BY <1>7 DEF ReleaseUsage
  <2>2. CASE w = b
    <3>1. passed'[b][a] = 0
      BY <1>0, <2>1, <2>2 DEF Touched
    <3> QED BY <1>1, <3>1
  <2>3. CASE w # b
    <3>1. passed'[b] = passed[b]
      BY <1>0, <2>1, <2>3 DEF Touched
    <3>2. u \notin Chasing(call', a, b)
      <4>1. call'[u] = Idle
        BY <1>7, Moves
      <4> QED BY <4>1 DEF Chasing, Idle
    <3>3. /\ DOMAIN usage' = DOMAIN usage /\ usage'[b] = usage[b]
          /\ a \in DOMAIN usage => usage'[a] = usage[a] \/ usage'[a].last = clock + 1
      BY <1>7, <2>3, ReleaseUsageUsage
    <3> QED BY <1>2, <3>1, <3>2, <3>3
  <2> QED BY <2>2, <2>3
<1>8. ASSUME Touch(u) PROVE Behind(a, b)'
  <2> DEFINE row == Touched(w)[b]
  <2>1. passed'[b] = [row EXCEPT ![w] = IF b = w THEN 0 ELSE @ + 1]
    BY <1>8 DEF Touch
  <2>2. w \in Addresses /\ call[u].at = "touch" /\ call'[u].at = "holding"
    BY <1>8, Moves DEF Types, CallTypes
  <2>3. row = IF b = w THEN [c \in Addresses |-> 0] ELSE passed[b]
    BY <1>0, <2>2 DEF Touched
  <2>4. u \notin Chasing(call', a, b)
    BY <2>2 DEF Chasing
  <2>5. CASE w = b
    <3>1. passed'[b][a] = 0
      BY <2>1, <2>3, <2>5
    <3> QED BY <1>1, <3>1
  <2>6. CASE w # b
    <3>1. /\ DOMAIN usage' = DOMAIN usage /\ usage'[b] = usage[b]
          /\ a \in DOMAIN usage => IF a = w THEN usage'[a].last = clock + 1 ELSE usage'[a] = usage[a]
      BY <1>8, <2>6, TouchUsage
    <3>2. CASE a # w
      <4>1. passed'[b][a] = passed[b][a]
        BY <1>0, <2>1, <2>2, <2>3, <2>6, <3>2
      <4> QED BY <1>2, <2>4, <3>1, <3>2, <4>1
    <3>3. CASE a = w
      <4>1. passed'[b][a] = passed[b][a] + 1
        BY <1>0, <2>1, <2>2, <2>3, <2>6, <3>3
      <4>2. /\ Chasing(call, a, b) = Chasing(call', a, b) \cup {u}
        BY <1>0, <2>2, <2>4, <3>3 DEF Chasing
      <4>3. PICK m \in Nat, n \in Nat, k \in Nat :
              /\ m = Cardinality(Chasing(call', a, b)) /\ n = Cardinality(Chasing(call, a, b))
              /\ k = Cardinality(Users)
        BY ChasingIsFinite
      <4>4. n = m + 1
        BY <2>4, <4>2, <4>3, ChasingIsFinite, FS_AddElement
      <4>5. passed[b][a] + n <= k
        BY <4>3 DEF Behind
      <4>6. passed'[b][a] + m <= k
        <5> HIDE PoolAssumption
        <5> QED BY <1>0, <4>1, <4>3, <4>4, <4>5
      <4>7. a \in DOMAIN usage' => usage'[b].last < usage'[a].last
        BY <1>0, <3>1, <3>3
      <4> QED BY <4>3, <4>6, <4>7 DEF Behind
    <3> QED BY <3>2, <3>3
  <2> QED BY <2>5, <2>6
<1> QED BY <1>3, <1>4, <1>5, <1>6, <1>7, <1>8 DEF UserStep

LEMMA OvertakingInductive ==
  Types /\ Lasts /\ Overtaking /\ [Next]_vars => Overtaking'
<1> SUFFICES ASSUME Types, Lasts, Overtaking, [Next]_vars, strategy' = "RoundRobin",
                    NEW a \in Addresses, NEW b \in Range(active)' \cap DOMAIN usage', a # b, Settled(b)'
             PROVE  Behind(a, b)'
  BY DEF Overtaking, Behind
<1>1. b \in Addresses
  BY TypesInductive DEF Types, StoreTypes
<1>2. strategy = "RoundRobin" /\ Settled(b) /\ b \in Range(active) \cap DOMAIN usage => Behind(a, b)
  BY DEF Overtaking, Behind
<1>3. ASSUME NEW m \in Admins, AdminStep(m) PROVE Behind(a, b)'
  <2>1. strategy = "RoundRobin"
    BY <1>3, AdminLeavesCalls
  <2> QED BY <1>1, <1>2, <1>3, <2>1, BehindAdmin
<1>4. ASSUME NEW u \in Users, UserStep(u) PROVE Behind(a, b)'
  <2>1. Range(active)' = Range(active) /\ DOMAIN usage' = DOMAIN usage
    BY <1>4, UserAddresses
  <2>2. strategy = "RoundRobin"
    BY <1>4 DEF UserStep, StartChoosing, Select, Find, Touch, ReleaseInfo, ReleaseUsage
  <2>3. Settled(b)
    BY <1>4, UserCall DEF Settled, UnderWay
  <2> QED BY <1>1, <1>2, <1>4, <2>1, <2>2, <2>3, BehindUser
<1>5. CASE UNCHANGED vars
  BY <1>2, <1>5 DEF vars, stores, history, Behind, Settled, UnderWay
<1> QED BY <1>3, <1>4, <1>5 DEF Next

\* With round robin, since a wallet was last used each of the others is acquired at most
\* once per concurrent user, whatever is added and removed meanwhile.
THEOREM OvertakingIsBounded == Spec => []BoundedOvertaking
<1>1. Init => Types /\ Lasts /\ Overtaking
  <2> SUFFICES ASSUME Init PROVE Lasts /\ Overtaking
    BY AllTypesInit
  <2>1. Lasts
    <3>1. ASSUME NEW a \in DOMAIN usage PROVE usage[a].last <= clock
      <4>1. /\ a \in Range(Initial) /\ clock = Len(Initial)
            /\ usage[a].last = CHOOSE i \in DOMAIN Initial : Initial[i] = a
        BY DEF Init, NewUsage
      <4>2. \E i \in DOMAIN Initial : Initial[i] = a
        BY <4>1 DEF Range
      <4>3. usage[a].last \in DOMAIN Initial
        BY <4>1, <4>2
      <4>4. DOMAIN Initial = 1 .. Len(Initial) /\ Len(Initial) \in Nat
        OBVIOUS
      <4> QED BY <4>1, <4>3, <4>4
    <3> QED BY <3>1 DEF Lasts
  <2>2. ASSUME NEW a \in Addresses, NEW b \in Range(active) \cap DOMAIN usage PROVE Behind(a, b)
    <3>1. b \in Addresses
      BY AllTypesInit DEF Types, StoreTypes
    <3>2. passed[b][a] = 0
      BY <3>1 DEF Init
    <3> QED BY <3>2, ChasingIsFinite DEF Behind
  <2> QED BY <2>1, <2>2 DEF Overtaking, Behind
<1>2. Types /\ Lasts /\ Overtaking /\ [Next]_vars => (Types /\ Lasts /\ Overtaking)'
  BY TypesInductive, LastsInductive, OvertakingInductive
<1>3. Types /\ Overtaking => BoundedOvertaking
  <2> SUFFICES ASSUME Types, Overtaking, strategy = "RoundRobin",
                      NEW a \in Range(active), NEW b \in Range(active) \cap DOMAIN usage, a # b, Settled(b)
               PROVE  passed[b][a] <= Cardinality(Users)
    BY DEF BoundedOvertaking
  <2>1. a \in Addresses /\ b \in Addresses /\ passed[b][a] \in Nat
    BY InLists DEF Types, StoreTypes
  <2>2. PICK n \in Nat, k \in Nat : n = Cardinality(Chasing(call, a, b)) /\ k = Cardinality(Users)
    BY ChasingIsFinite
  <2>3. passed[b][a] + n <= k
    BY <2>1, <2>2 DEF Overtaking
  <2> HIDE PoolAssumption
  <2> QED BY <2>1, <2>2, <2>3
<1> QED BY <1>1, <1>2, <1>3, PTL DEF Spec
=============================================================================
