----------------------------- MODULE WalletPool -----------------------------
(***************************************************************************)
(* wallet/pool.rs: three stores (wallets, active_wallets, wallet_usage),   *)
(* each behind a lock of its own, and the operations that walk through     *)
(* them one lock after the other.  One action is one critical section.     *)
(*                                                                         *)
(* A user acquires a wallet and releases it, as the executor does;         *)
(* administrators add and remove wallets, several of them at a time: the   *)
(* methods take &self and no lock is held from one section to the next.    *)
(*                                                                         *)
(* Every reading of the clock is later than the one before it, and a list  *)
(* of the code is a function from slots, numbered in the order of the      *)
(* additions (what is removed leaves its slot empty): clock counts both.   *)
(***************************************************************************)
EXTENDS Naturals, Sequences, FiniteSetsExt, Functions

CONSTANTS
    Addresses,     \* wallet addresses
    Initial,       \* those load_wallets_from_config has added, in their order
    Users,         \* concurrent callers of acquire_wallet and get_next_wallet
    Admins,        \* concurrent callers of add_wallet and remove_wallet
    Derives,       \* does add_wallet get an address from a key?  pool.rs:59 takes 20
                   \* bytes for a word of 32 and panics: FALSE as the code stands,
                   \* TRUE once that line is mended
    Strategies,    \* the values of rotation_strategy
    MaxConcurrent, \* max_concurrent_transactions, for a pool of each strategy
    MaxUses,       \* bound on the selections, for each strategy
    MaxChanges,    \* bound on the calls of add_wallet and remove_wallet
    None           \* no wallet

ASSUME PoolAssumption ==
    /\ None \notin Addresses
    /\ Initial \in Seq(Addresses) /\ IsInjective(Initial)
    /\ IsFiniteSet(Users)
    /\ Derives \in BOOLEAN /\ (~ Derives => Initial = << >>)
    /\ Strategies \subseteq {"RoundRobin", "LeastUsed", "BestPerformance", "Random"}
    /\ MaxConcurrent \in [Strategies -> Nat \ {0}]
    /\ MaxChanges \in Nat /\ \A s \in Strategies : MaxUses[s] \in Nat

VARIABLES
    strategy,  \* rotation_strategy
    wallets,   \* the list of WalletInfo: address, total and failed transactions
    active,    \* active_wallets, a list
    usage,     \* wallet_usage: a map from addresses
    clock,     \* readings of the clock and additions to a list so far
    call,      \* per user: where it is and what it has read so far
    admin,     \* per administrator: its call
    \* history
    uses,      \* selections so far
    changes,   \* calls of the administrators so far
    changed,   \* their addresses
    mixed,     \* addresses with an addition and a removal that overlapped, until a
               \* later change starts alone
    raced,     \* per user: did a removal overlap its get_next_wallet?
    passed,    \* passed[b][a]: acquisitions of a since b was last touched
    shown      \* the wallet the last selection returned, if get_next_wallet called it

stores  == <<wallets, active, usage>>
history == <<uses, changes, changed, mixed, raced, passed, shown>>
vars    == <<strategy, stores, clock, call, admin, history>>

NewInfo(a)  == [address |-> a, total |-> 0, failed |-> 0]
NewUsage(t) == [total |-> 0, ok |-> 0, last |-> t]
Put(f, i, x)  == [j \in DOMAIN f \cup {i} |-> IF j = i THEN x ELSE f[j]]

Idle        == [at |-> "idle", acquiring |-> FALSE, seen |-> << >>, wallet |-> None]
NoChange    == [at |-> "idle", address |-> None]

Init ==
    /\ strategy \in Strategies
    /\ wallets = [i \in DOMAIN Initial |-> NewInfo(Initial[i])]
    /\ active = Initial
    /\ usage = [a \in Range(Initial) |-> NewUsage(CHOOSE i \in DOMAIN Initial : Initial[i] = a)]
    /\ clock = Len(Initial)
    /\ call = [u \in Users |-> Idle]
    /\ admin = [m \in Admins |-> NoChange]
    /\ uses = 0 /\ changes = 0 /\ changed = {} /\ mixed = {}
    /\ raced = [u \in Users |-> FALSE]
    /\ passed = [b \in Addresses |-> [a \in Addresses |-> 0]]
    /\ shown = None

-----------------------------------------------------------------------------
\* add_wallet and remove_wallet: wallets, active_wallets, wallet_usage, in turn.

Adding   == {"add_active", "add_usage"}
Removing == {"remove_active", "remove_usage"}

UnderWay(a, kind) == \E m \in Admins : admin[m].address = a /\ admin[m].at \in kind

Begin(m, a, next) ==
    LET kind == IF next \in Adding THEN Adding ELSE Removing IN
    /\ admin[m] = NoChange
    /\ changes < MaxChanges
    /\ admin' = [admin EXCEPT ![m] = [at |-> next, address |-> a]]
    /\ changes' = changes + 1 /\ changed' = changed \cup {a}
    /\ mixed' = IF UnderWay(a, (Adding \cup Removing) \ kind) THEN mixed \cup {a}
                ELSE IF UnderWay(a, kind) THEN mixed ELSE mixed \ {a}

Continue(m, at, next) == admin[m].at = at /\ admin' = [admin EXCEPT ![m].at = next]

End(m, at) == admin[m].at = at /\ admin' = [admin EXCEPT ![m] = NoChange]

\* A second WalletInfo of an address may join the first.
AddWallet(m, a) ==
    /\ Derives
    /\ Begin(m, a, "add_active")
    /\ wallets' = Put(wallets, clock + 1, NewInfo(a))
    /\ clock' = clock + 1
    /\ UNCHANGED <<strategy, active, usage, call, uses, raced, passed, shown>>

Activated(a) == IF a \in Range(active) THEN active ELSE Put(active, clock + 1, a)

\* Mutation: the call ends without the third section.
AddActiveOnly(m) ==
    /\ End(m, "add_active")
    /\ active' = Activated(admin[m].address)
    /\ clock' = clock + 1
    /\ UNCHANGED <<strategy, wallets, usage, call, history>>

AddActive(m) ==
    /\ Continue(m, "add_active", "add_usage")
    /\ active' = Activated(admin[m].address)
    /\ clock' = clock + 1
    /\ UNCHANGED <<strategy, wallets, usage, call, history>>

\* The wallet a was just seen in use: nobody has passed it since.
Touched(a) == [passed EXCEPT ![a] = [b \in Addresses |-> 0]]

AddUsage(m) ==
    LET a == admin[m].address IN
    /\ End(m, "add_usage")
    /\ usage' = Put(usage, a, NewUsage(clock + 1))
    /\ clock' = clock + 1
    /\ passed' = Touched(a)
    /\ UNCHANGED <<strategy, wallets, active, call, uses, changes, changed, mixed, raced, shown>>

Choosing == {"select", "find"}

RemoveWallet(m, a) ==
    /\ Begin(m, a, "remove_active")
    /\ wallets' = Restrict(wallets, {i \in DOMAIN wallets : wallets[i].address # a})
    /\ raced' = [u \in Users |-> raced[u] \/ call[u].at \in Choosing]
    /\ UNCHANGED <<strategy, active, usage, clock, call, uses, passed, shown>>

\* Mutation: the address stays active.
RemoveNothing(m) ==
    /\ Continue(m, "remove_active", "remove_usage")
    /\ UNCHANGED <<strategy, stores, clock, call, history>>

RemoveActive(m) ==
    /\ Continue(m, "remove_active", "remove_usage")
    /\ active' = Restrict(active, {i \in DOMAIN active : active[i] # admin[m].address})
    /\ UNCHANGED <<strategy, wallets, usage, clock, call, history>>

RemoveUsage(m) ==
    /\ End(m, "remove_usage")
    /\ usage' = Restrict(usage, DOMAIN usage \ {admin[m].address})
    /\ UNCHANGED <<strategy, wallets, active, clock, call, history>>

-----------------------------------------------------------------------------
\* get_next_wallet, alone or within acquire_wallet: the copy of active_wallets, the
\* selection by usage, the search in wallets.

\* The semaphore guards acquire_wallet while it runs; _permit is dropped when it
\* returns, not when the wallet is released.
InAcquire == {u \in Users : call[u].acquiring /\ call[u].at \in Choosing \cup {"touch"}}

\* Mutation: acquire_wallet does not wait for a permit.
ChooseUnguarded(u, acquiring) ==
    /\ call[u] = Idle
    /\ uses < MaxUses[strategy]
    /\ uses' = uses + 1
    /\ call' = [call EXCEPT ![u] = IF DOMAIN active = {} THEN Idle ELSE
                  [at |-> "select", acquiring |-> acquiring, seen |-> active, wallet |-> None]]
    /\ raced' = [raced EXCEPT ![u] = \E m \in Admins : admin[m].at = "remove_active"]
    /\ UNCHANGED <<strategy, stores, clock, admin, changes, changed, mixed, passed, shown>>

StartChoosing(u, acquiring) ==
    /\ call[u] = Idle
    /\ uses < MaxUses[strategy]
    /\ acquiring => Cardinality(InAcquire) < MaxConcurrent[strategy]
    /\ uses' = uses + 1
    /\ call' = [call EXCEPT ![u] = IF DOMAIN active = {} THEN Idle ELSE
                  [at |-> "select", acquiring |-> acquiring, seen |-> active, wallet |-> None]]
    /\ raced' = [raced EXCEPT ![u] = \E m \in Admins : admin[m].at = "remove_active"]
    /\ UNCHANGED <<strategy, stores, clock, admin, changes, changed, mixed, passed, shown>>

Rate(a) == IF usage[a].total = 0 THEN [ok |-> 1, of |-> 1]
                                 ELSE [ok |-> usage[a].ok, of |-> usage[a].total]

\* Mutation: the latest instead of the oldest.
BetterSwapped(a, b) ==
    \/ strategy = "RoundRobin" /\ usage[a].last > usage[b].last
    \/ strategy = "LeastUsed" /\ usage[a].total < usage[b].total
    \/ strategy = "BestPerformance" /\ Rate(a).ok * Rate(b).of > Rate(b).ok * Rate(a).of

\* What makes the scan of a strategy replace the best so far, b, by a.
Better(a, b) ==
    \/ strategy = "RoundRobin" /\ usage[a].last < usage[b].last
    \/ strategy = "LeastUsed" /\ usage[a].total < usage[b].total
    \/ strategy = "BestPerformance" /\ Rate(a).ok * Rate(b).of > Rate(b).ok * Rate(a).of

\* An address without usage is passed over, and one that has never succeeded does
\* not beat the rate 0.0 the scan starts with.
Eligible(a) == a \in DOMAIN usage /\ (strategy = "BestPerformance" => Rate(a).ok > 0)

\* The first of the best, or the first address of all.
Scan(seen) ==
    LET best == {i \in DOMAIN seen : Eligible(seen[i]) /\
                   \A j \in DOMAIN seen : Eligible(seen[j]) => ~ Better(seen[j], seen[i])}
    IN  IF best = {} THEN seen[Min(DOMAIN seen)] ELSE seen[Min(best)]

Select(u) ==
    /\ call[u].at = "select"
    /\ \E a \in IF strategy = "Random" THEN Range(call[u].seen) ELSE {Scan(call[u].seen)} :
          call' = [call EXCEPT ![u] = [@ EXCEPT !.at = "find", !.seen = << >>, !.wallet = a]]
    /\ UNCHANGED <<strategy, stores, clock, admin, history>>

KnownAddresses == {wallets[i].address : i \in DOMAIN wallets}

Find(u) ==
    LET a == call[u].wallet IN
    /\ call[u].at = "find"
    /\ call' = [call EXCEPT ![u] = IF call[u].acquiring /\ a \in KnownAddresses
                                   THEN [@ EXCEPT !.at = "touch"] ELSE Idle]
    /\ raced' = [raced EXCEPT ![u] = FALSE]
    /\ shown' = IF call[u].acquiring THEN None ELSE a
    /\ UNCHANGED <<strategy, stores, clock, admin, uses, changes, changed, mixed, passed>>

\* update_wallet_usage: only last_used.
Touch(u) ==
    LET a == call[u].wallet IN
    /\ call[u].at = "touch"
    /\ usage' = IF a \in DOMAIN usage THEN [usage EXCEPT ![a].last = clock + 1] ELSE usage
    /\ clock' = clock + 1
    /\ call' = [call EXCEPT ![u].at = "holding"]
    /\ passed' = [b \in Addresses |-> [Touched(a)[b] EXCEPT ![a] = IF b = a THEN 0 ELSE @ + 1]]
    /\ UNCHANGED <<strategy, wallets, active, admin, uses, changes, changed, mixed, raced, shown>>

-----------------------------------------------------------------------------
\* release_wallet: WalletInfo::record_transaction, then the usage.

ReleaseInfo(u, success) ==
    LET own == {i \in DOMAIN wallets : wallets[i].address = call[u].wallet} IN
    /\ call[u].at = "holding"
    /\ wallets' = IF own = {} THEN wallets
                  ELSE [wallets EXCEPT ![Min(own)].total = @ + 1,
                                       ![Min(own)].failed = IF success THEN @ ELSE @ + 1]
    /\ call' = [call EXCEPT ![u].at = IF success THEN "release_ok" ELSE "release_failed"]
    /\ UNCHANGED <<strategy, active, usage, clock, admin, history>>

\* Mutation: only a success is counted as a use.
UsageOnSuccess(u) ==
    LET a == call[u].wallet  ok == call[u].at = "release_ok" IN
    /\ call[u].at \in {"release_ok", "release_failed"}
    /\ usage' = IF a \in DOMAIN usage /\ ok
                THEN [usage EXCEPT ![a].total = @ + 1, ![a].ok = @ + 1, ![a].last = clock + 1]
                ELSE usage
    /\ clock' = clock + 1
    /\ passed' = Touched(a)
    /\ call' = [call EXCEPT ![u] = Idle]
    /\ UNCHANGED <<strategy, wallets, active, admin, uses, changes, changed, mixed, raced, shown>>

ReleaseUsage(u) ==
    LET a == call[u].wallet  ok == call[u].at = "release_ok" IN
    /\ call[u].at \in {"release_ok", "release_failed"}
    /\ usage' = IF a \in DOMAIN usage
                THEN [usage EXCEPT ![a].total = @ + 1,
                                   ![a].ok = IF ok THEN @ + 1 ELSE @,
                                   ![a].last = clock + 1]
                ELSE usage
    /\ clock' = clock + 1
    /\ passed' = Touched(a)
    /\ call' = [call EXCEPT ![u] = Idle]
    /\ UNCHANGED <<strategy, wallets, active, admin, uses, changes, changed, mixed, raced, shown>>

-----------------------------------------------------------------------------
UserStep(u) ==
    \/ \E acquiring \in BOOLEAN : StartChoosing(u, acquiring)
    \/ Select(u) \/ Find(u) \/ Touch(u)
    \/ \E success \in BOOLEAN : ReleaseInfo(u, success)
    \/ ReleaseUsage(u)

AdminStep(m) ==
    \/ \E a \in Addresses : AddWallet(m, a) \/ RemoveWallet(m, a)
    \/ AddActive(m) \/ AddUsage(m) \/ RemoveActive(m) \/ RemoveUsage(m)

Next == (\E m \in Admins : AdminStep(m)) \/ (\E u \in Users : UserStep(u))

Spec == Init /\ [][Next]_vars

-----------------------------------------------------------------------------
\* Properties

IsList(f) == DOMAIN f \subseteq 1 .. clock /\ f \in [DOMAIN f -> Addresses]

Places == {"idle", "select", "find", "touch", "holding", "release_ok", "release_failed"}

\* Every variable has its type, and acquire_wallet is never inside more often than
\* the semaphore has permits.
TypeOK ==
    /\ strategy \in Strategies
    /\ DOMAIN wallets \subseteq 1 .. clock
    /\ wallets \in [DOMAIN wallets -> [address : Addresses, total : Nat, failed : Nat]]
    /\ IsList(active) /\ IsInjective(active)
    /\ DOMAIN usage \subseteq Addresses
    /\ usage \in [DOMAIN usage -> [total : Nat, ok : Nat, last : Nat]]
    /\ clock \in Nat
    /\ call \in [Users -> [at : Places, acquiring : BOOLEAN, seen : {call[u].seen : u \in Users},
                           wallet : Addresses \cup {None}]]
    /\ \A u \in Users : IsList(call[u].seen)
    /\ admin \in [Admins -> [at : {"idle"} \cup Adding \cup Removing,
                             address : Addresses \cup {None}]]
    /\ Cardinality(InAcquire) <= MaxConcurrent[strategy]

\* No change of a is under way, and the last ones did not mix.
Settled(a) == a \notin mixed /\ ~ UnderWay(a, Adding \cup Removing)

\* Once the changes of an address are through, the three stores agree on whether it is
\* in the pool, whatever other changes are under way: unless an addition and a removal
\* of this very address overlapped, which leaves it in any of the three and not in the
\* others until add_wallet or remove_wallet next runs for it alone.
StoresAgree ==
    \A a \in Addresses : Settled(a) =>
        /\ a \in KnownAddresses <=> a \in Range(active)
        /\ a \in DOMAIN usage <=> a \in Range(active)

\* The two counts of a wallet's transactions, under two locks, differ only by the
\* releases between the two; nothing is counted twice or lost.
CountsAgree ==
    \A i \in DOMAIN wallets : LET a == wallets[i].address IN
        a \notin changed =>
            LET releasing(at) == Cardinality({u \in Users : call[u].at = at /\ call[u].wallet = a})
            IN  /\ wallets[i].total = usage[a].total + releasing("release_ok")
                                                     + releasing("release_failed")
                /\ wallets[i].failed = usage[a].total - usage[a].ok
                                                      + releasing("release_failed")

\* get_next_wallet returns None, with wallets in the pool, only if remove_wallet
\* ran at the same time, or if it chose a wallet whose addition and removal had
\* overlapped: an addition alone is never seen half done.
NoneOnlyInARace ==
    [][\A u \in Users :
          call[u].at = "find" /\ call[u].wallet \notin KnownAddresses
          => raced[u] \/ call[u].wallet \in mixed]_vars

\* The README's even distribution of round robin: since a wallet was last used (or
\* add_wallet was through with it), each of the others is acquired at most once per
\* concurrent user, callers that choose at the same time included.
BoundedOvertaking ==
    strategy = "RoundRobin" =>
        \A a \in Range(active), b \in Range(active) \cap DOMAIN usage :
            a # b /\ Settled(b) => passed[b][a] <= Cardinality(Users)

\* The pool's own test: two calls of get_next_wallet in a row, with more wallets
\* than one, return different wallets.  The code selects by last_used, which
\* get_next_wallet does not set.
RotatesOnEachCall ==
    [][\A u \in Users :
          /\ call[u].at = "find" /\ ~ call[u].acquiring
          /\ shown # None
          /\ Cardinality(DOMAIN active) > 1
          => call[u].wallet # shown]_vars
=============================================================================
