---------------------------- MODULE BalanceChecker ----------------------------
(***************************************************************************)
(* security/balance.rs: a cache of the wallets' balances in front of the   *)
(* node, and the monitor that asks it for a list of addresses.             *)
(*                                                                         *)
(* A check looks into the cache under the read lock, and on a miss or an   *)
(* entry past its ttl asks the node, stamps what it is told, and takes the *)
(* write lock to store it.  Nothing holds two checks of an address apart,  *)
(* so an answer that was slow may replace one that was quick.  An entry's  *)
(* is_sufficient follows from its balance: the threshold never changes.    *)
(***************************************************************************)
EXTENDS Integers

CONSTANTS
    Addresses,
    Balances,    \* what a wallet may own
    Checkers,    \* concurrent callers
    CacheTtl,    \* cache_ttl
    MaxFetch,    \* the node client's patience with a request
    MaxNow       \* bound: the clock

VARIABLES
    now,
    chain,                 \* the balances, as the node would tell them
    balance_cache,         \* a partial function of Addresses
    monitoring_addresses,  \* the monitor's list, which holds an address once
    check,                 \* per caller: what it is doing
    \* history
    held                   \* per address and balance: when it last was the balance

NoCheck == [at |-> "idle"]
NoEntries == [a \in {} |-> 0]

Init ==
    /\ now = 0
    /\ chain \in [Addresses -> Balances]
    /\ balance_cache = NoEntries
    /\ monitoring_addresses = {}
    /\ check = [c \in Checkers |-> NoCheck]
    /\ held = [a \in Addresses |-> [b \in Balances |-> IF b = chain[a] THEN 0 ELSE -1]]

\* Time passes, but not beyond the patience of a caller that waits for the node.
Tick ==
    /\ now < MaxNow
    /\ \A c \in Checkers : check[c].at = "asking" => now - check[c].since < MaxFetch
    /\ now' = now + 1
    /\ held' = [a \in Addresses |-> [held[a] EXCEPT ![chain[a]] = now + 1]]
    /\ UNCHANGED <<chain, balance_cache, monitoring_addresses, check>>

\* The wallet pays, or is paid.
Transfer(a, b) ==
    /\ b # chain[a]
    /\ chain' = [chain EXCEPT ![a] = b]
    /\ held' = [held EXCEPT ![a][b] = now]
    /\ UNCHANGED <<now, balance_cache, monitoring_addresses, check>>

AddAddress(a) ==
    /\ a \notin monitoring_addresses
    /\ monitoring_addresses' = monitoring_addresses \cup {a}
    /\ UNCHANGED <<now, chain, balance_cache, check, held>>

RemoveAddress(a) ==
    /\ a \in monitoring_addresses
    /\ monitoring_addresses' = monitoring_addresses \ {a}
    /\ UNCHANGED <<now, chain, balance_cache, check, held>>

-----------------------------------------------------------------------------
\* check_multiple_balances: one address of a list after the other, in any order

Looking(todo) == IF todo = {} THEN NoCheck ELSE [at |-> "looking", todo |-> todo]

\* check_balance of one address, as by each task of preload_balances, or the
\* monitor's check of a copy of its list.
Begin(c, todo) ==
    /\ check[c].at = "idle"
    /\ todo # {}
    /\ check' = [check EXCEPT ![c] = Looking(todo)]
    /\ UNCHANGED <<now, chain, balance_cache, monitoring_addresses, held>>

\* Is there an entry for the address that has not outlived its ttl?
Fresh(a) ==
    /\ a \in DOMAIN balance_cache
    /\ now - balance_cache[a].last_updated < CacheTtl

\* A hit answers with the entry; a miss asks the node, which answers with what it
\* sees at this moment.
Look(c, a) ==
    /\ check[c].at = "looking" /\ a \in check[c].todo
    /\ check' = [check EXCEPT ![c] =
           IF Fresh(a) THEN Looking(@.todo \ {a})
           ELSE [at |-> "asking", todo |-> @.todo \ {a}, address |-> a,
                 since |-> now, balance |-> chain[a]]]
    /\ UNCHANGED <<now, chain, balance_cache, monitoring_addresses, held>>

\* The answer has come and gets the time of its arrival.
Stamp(c) ==
    /\ check[c].at = "asking"
    /\ check' = [check EXCEPT ![c] =
           [at |-> "storing", todo |-> @.todo, address |-> @.address,
            balance |-> @.balance, last_updated |-> now]]
    /\ UNCHANGED <<now, chain, balance_cache, monitoring_addresses, held>>

\* The node fails: `?' ends the whole list.
Fail(c) ==
    /\ check[c].at = "asking"
    /\ check' = [check EXCEPT ![c] = NoCheck]
    /\ UNCHANGED <<now, chain, balance_cache, monitoring_addresses, held>>

Entry(balance, last_updated) == [balance |-> balance, last_updated |-> last_updated]

StoreEntry(c, entry) ==
    /\ check[c].at = "storing"
    /\ balance_cache' = [a \in DOMAIN balance_cache \cup {check[c].address} |->
                            IF a = check[c].address THEN entry ELSE balance_cache[a]]
    /\ check' = [check EXCEPT ![c] = Looking(@.todo)]
    /\ UNCHANGED <<now, chain, monitoring_addresses, held>>

\* Mutation: the time is taken under the write lock, however long that took to get.
StoreStampedLate(c) == StoreEntry(c, Entry(check[c].balance, now))

Store(c) == StoreEntry(c, Entry(check[c].balance, check[c].last_updated))

ClearCache ==
    /\ balance_cache # NoEntries
    /\ balance_cache' = NoEntries
    /\ UNCHANGED <<now, chain, monitoring_addresses, check, held>>

Next ==
    \/ Tick
    \/ ClearCache
    \/ \E a \in Addresses : AddAddress(a) \/ RemoveAddress(a)
    \/ \E a \in Addresses, b \in Balances : Transfer(a, b)
    \/ \E c \in Checkers :
        \/ Begin(c, monitoring_addresses)
        \/ \E a \in Addresses : Begin(c, {a}) \/ Look(c, a)
        \/ Stamp(c) \/ Fail(c) \/ Store(c)

-----------------------------------------------------------------------------
\* Properties

Checks ==
    {NoCheck}
        \cup [at : {"looking"}, todo : SUBSET Addresses]
        \cup [at : {"asking"}, todo : SUBSET Addresses, address : Addresses,
              since : 0 .. now, balance : Balances]
        \cup [at : {"storing"}, todo : SUBSET Addresses, address : Addresses,
              balance : Balances, last_updated : 0 .. now]

\* Every variable has its type.
TypeOK ==
    /\ now \in 0 .. MaxNow
    /\ chain \in [Addresses -> Balances]
    /\ DOMAIN balance_cache \subseteq Addresses
    /\ \A a \in DOMAIN balance_cache :
        balance_cache[a] \in [balance : Balances, last_updated : 0 .. now]
    /\ monitoring_addresses \subseteq Addresses
    /\ check \in [Checkers -> Checks]
    /\ held \in [Addresses -> [Balances -> -1 .. now]]

\* What a hit answers was the wallet's balance at most a ttl and a slow answer of
\* the node ago, even where a slow answer has replaced a quick one that was newer:
\* an entry's age counts from its arrival, not from its turn at the lock.
HitIsRecent ==
    \A a \in Addresses :
        Fresh(a) => now - held[a][balance_cache[a].balance] <= CacheTtl - 1 + MaxFetch

BalanceAssumption == CacheTtl \in Nat /\ MaxFetch \in Nat /\ MaxNow \in Nat
=============================================================================
