---------------------------- MODULE Support_proofs ----------------------------
(***************************************************************************)
(* Theorems about the supporting components, proved for all values of      *)
(* their constants.  For each component there is an invariant of its own   *)
(* variables and two lemmas, that its initial states have it and that its  *)
(* steps keep it; what other components do leaves its variables alone.     *)
(* Those of the cache and the concurrency controller are in                *)
(* SupportStores_proofs, those of rotation and paging in                   *)
(* SupportLists_proofs; SupportInv at the end has them all.                *)
(***************************************************************************)
EXTENDS SupportStores_proofs, SupportLists_proofs, FiniteSetTheorems, TLAPS

-----------------------------------------------------------------------------
\* CircuitBreaker

\* A timer or a failed probe stands behind every open circuit.
BreakerInv == Breaker!TypeOK /\ Breaker!StuckOnlyByProbe

LEMMA BreakerStarts == SupportAssumption /\ Breaker!Init => BreakerInv
BY SMT DEF SupportAssumption, Breaker!BreakerAssumption, Breaker!Init, BreakerInv,
       Breaker!TypeOK, Breaker!StuckOnlyByProbe, Breaker!States

\* Every step of the breaker keeps its invariant: a call that read Closed leaves a
\* timer behind when it opens the circuit, and a timer that ends half-opens it.
LEMMA BreakerSteps ==
    ASSUME SupportAssumption, BreakerInv, [Breaker!Next]_breakerVars
    PROVE  BreakerInv'
<1> USE SupportAssumption DEF SupportAssumption, Breaker!BreakerAssumption, BreakerInv,
        Breaker!TypeOK, Breaker!StuckOnlyByProbe, Breaker!States
<1>1. CASE Breaker!Recover
  BY <1>1 DEF Breaker!Recover
<1>2. ASSUME NEW c \in Callers, Breaker!Enter(c) PROVE BreakerInv'
  BY <1>2 DEF Breaker!Enter
<1>3. ASSUME NEW c \in Callers, Breaker!Succeed(c) PROVE BreakerInv'
  BY <1>3 DEF Breaker!Succeed
<1>4. ASSUME NEW c \in Callers, Breaker!Fail(c) PROVE BreakerInv'
  BY <1>4 DEF Breaker!Fail, Breaker!TimersAfter
<1>5. CASE UNCHANGED breakerVars
  BY <1>5 DEF breakerVars
<1> QED
  BY <1>1, <1>2, <1>3, <1>4, <1>5 DEF Breaker!Next

\* A circuit that is open with no timer asleep was opened by a failed probe, for any
\* number of callers and timers: the `call' of api/middleware.rs.
THEOREM ProbesAloneGetStuck == Spec => []StuckOnlyByProbe
<1> DEFINE Inv == focus = "breaker" => BreakerInv
<1>1. Init => Inv
  BY SupportAssumption, BreakerStarts DEF Init
<1>2. Inv /\ [Next]_vars => Inv'
  BY SupportAssumption, BreakerSteps DEF Next, vars
<1>3. Inv => StuckOnlyByProbe
  BY DEF StuckOnlyByProbe, BreakerInv
<1> QED
  BY <1>1, <1>2, <1>3, PTL DEF Spec


-----------------------------------------------------------------------------
\* BalanceChecker

\* The balance that a wallet has is held until now.
HeldUntilNow == \A a \in Addresses : held[a][chain[a]] = now

\* What the node has answered was the balance when it was asked, or later, and the
\* node was asked within its client's patience.
AnswersAreRecent ==
    \A c \in Checkers :
        check[c].at = "asking" =>
            /\ check[c].since <= held[check[c].address][check[c].balance]
            /\ now - check[c].since <= MaxFetch

\* What was held so late that it may be stamped with the time t.
RecentAt(a, b, t) == t - MaxFetch <= held[a][b]

\* What is about to be stored, and what is stored, was held an answer before its stamp.
StampsAreRecent ==
    /\ \A c \in Checkers :
        check[c].at = "storing" =>
            RecentAt(check[c].address, check[c].balance, check[c].last_updated)
    /\ \A a \in DOMAIN balance_cache :
        RecentAt(a, balance_cache[a].balance, balance_cache[a].last_updated)

BalanceInv == Balance!TypeOK /\ HeldUntilNow /\ AnswersAreRecent /\ StampsAreRecent

LEMMA BalanceStarts == SupportAssumption /\ Balance!Init => BalanceInv
<1> SUFFICES ASSUME SupportAssumption, Balance!Init PROVE BalanceInv
  OBVIOUS
<1> USE DEF Balance!Init, Balance!NoCheck, Balance!NoEntries, SupportAssumption,
        Balance!BalanceAssumption
<1>1. Balance!TypeOK
  BY DEF Balance!TypeOK, Balance!Checks
<1>2. HeldUntilNow
  BY DEF HeldUntilNow
<1>3. AnswersAreRecent /\ StampsAreRecent
  BY DEF AnswersAreRecent, StampsAreRecent
<1> QED
  BY <1>1, <1>2, <1>3 DEF BalanceInv

\* A check that changes its place leaves those of the others, and time alone.
LEMMA ChecksMove ==
    ASSUME BalanceInv, SupportAssumption, NEW c \in Checkers, NEW to \in Balance!Checks,
           check' = [check EXCEPT ![c] = to],
           UNCHANGED <<now, chain, balance_cache, held>>,
           monitoring_addresses' = monitoring_addresses,
           to.at = "asking" => /\ to.since <= held[to.address][to.balance]
                               /\ now - to.since <= MaxFetch,
           to.at = "storing" => RecentAt(to.address, to.balance, to.last_updated)
    PROVE  BalanceInv'
<1> USE DEF BalanceInv, SupportAssumption, Balance!BalanceAssumption
<1>1. Balance!TypeOK'
  BY DEF Balance!TypeOK, Balance!Checks, Balance!NoCheck
<1>2. HeldUntilNow'
  BY DEF HeldUntilNow
<1>3. \A d \in Checkers : check'[d] = IF d = c THEN to ELSE check[d]
  BY DEF Balance!TypeOK
<1>4. AnswersAreRecent'
  BY <1>3 DEF AnswersAreRecent
<1>5. StampsAreRecent'
  BY <1>3 DEF StampsAreRecent, RecentAt
<1> QED
  BY <1>1, <1>2, <1>4, <1>5

\* Held times only grow, so that what was recent enough for its stamp stays so.
HeldGrows ==
    \A a \in Addresses, b \in Balances : held[a][b] <= held'[a][b]

LEMMA GrowthKeepsStamps ==
    ASSUME BalanceInv, SupportAssumption, HeldGrows, held' \in [Addresses -> [Balances -> Int]],
           UNCHANGED <<check, balance_cache>>
    PROVE  /\ StampsAreRecent'
           /\ \A c \in Checkers : check[c].at = "asking" =>
                check[c].since <= held'[check[c].address][check[c].balance]
<1> USE DEF BalanceInv, SupportAssumption, Balance!BalanceAssumption, HeldGrows
<1>1. ASSUME NEW a \in Addresses, NEW b \in Balances, NEW t \in Int, RecentAt(a, b, t)
      PROVE  t - MaxFetch <= held'[a][b]
  BY <1>1 DEF RecentAt, Balance!TypeOK
<1>2. ASSUME NEW c \in Checkers, check[c].at = "storing"
      PROVE  RecentAt(check[c].address, check[c].balance, check[c].last_updated)'
  <2>1. check[c] \in [at : {"storing"}, todo : SUBSET Addresses, address : Addresses,
                      balance : Balances, last_updated : 0 .. now]
    BY <1>2 DEF Balance!TypeOK, Balance!Checks, Balance!NoCheck
  <2>2. RecentAt(check[c].address, check[c].balance, check[c].last_updated)
    BY <1>2 DEF StampsAreRecent
  <2>3. /\ check[c].address \in Addresses /\ check[c].balance \in Balances
        /\ check[c].last_updated \in Int
    BY <2>1, now \in Int DEF Balance!TypeOK
  <2>4. check[c].last_updated - MaxFetch <= held'[check[c].address][check[c].balance]
    BY <1>1, <2>2, <2>3
  <2> QED
    BY <2>4 DEF RecentAt
<1>3. ASSUME NEW a \in DOMAIN balance_cache
      PROVE  RecentAt(a, balance_cache[a].balance, balance_cache[a].last_updated)'
  BY <1>1 DEF StampsAreRecent, RecentAt, Balance!TypeOK
<1>4. ASSUME NEW c \in Checkers, check[c].at = "asking"
      PROVE  check[c].since <= held'[check[c].address][check[c].balance]
  <2>1. check[c] \in [at : {"asking"}, todo : SUBSET Addresses, address : Addresses,
                      since : 0 .. now, balance : Balances]
    BY <1>4 DEF Balance!TypeOK, Balance!Checks, Balance!NoCheck
  <2> QED
    BY <1>4, <2>1 DEF AnswersAreRecent, Balance!TypeOK
<1> QED
  BY <1>2, <1>3, <1>4 DEF StampsAreRecent

LEMMA BalanceSteps ==
    ASSUME SupportAssumption, BalanceInv, [Balance!Next]_balanceVars
    PROVE  BalanceInv'
<1> USE DEF SupportAssumption, Balance!BalanceAssumption
<1>0. Balance!TypeOK /\ HeldUntilNow /\ AnswersAreRecent /\ StampsAreRecent
  BY DEF BalanceInv
<1>1. CASE Balance!Tick
  <2> USE <1>1 DEF Balance!Tick
  <2>1. held' \in [Addresses -> [Balances -> -1 .. now']]
    BY <1>0 DEF Balance!TypeOK
  <2>2. HeldGrows
    BY <1>0 DEF HeldGrows, Balance!TypeOK
  <2>3. Balance!TypeOK'
    <3>1. check' \in [Checkers -> Balance!Checks']
      BY <1>0 DEF Balance!TypeOK, Balance!Checks, Balance!NoCheck
    <3>2. \A a \in DOMAIN balance_cache' :
              balance_cache'[a] \in [balance : Balances, last_updated : 0 .. now']
      BY <1>0 DEF Balance!TypeOK
    <3> QED
      BY <1>0, <2>1, <3>1, <3>2 DEF Balance!TypeOK
  <2>4. HeldUntilNow'
    BY <1>0 DEF HeldUntilNow, Balance!TypeOK
  <2>5. AnswersAreRecent'
    <3>1. ASSUME NEW c \in Checkers, check[c].at = "asking" PROVE now' - check[c].since <= MaxFetch
      <4>1. check[c].since \in 0 .. now /\ now - check[c].since < MaxFetch
        BY <1>0, <3>1 DEF Balance!TypeOK, Balance!Checks, Balance!NoCheck
      <4> QED
        BY <1>0, <4>1 DEF Balance!TypeOK
    <3> QED
      BY <2>1, <2>2, <3>1, GrowthKeepsStamps DEF AnswersAreRecent
  <2>6. StampsAreRecent'
    BY <2>1, <2>2, GrowthKeepsStamps
  <2> QED
    BY <2>3, <2>4, <2>5, <2>6 DEF BalanceInv
<1>2. CASE Balance!ClearCache
  BY <1>0, <1>2 DEF Balance!ClearCache, Balance!NoEntries, BalanceInv, Balance!TypeOK,
     Balance!Checks, HeldUntilNow, AnswersAreRecent, StampsAreRecent, RecentAt
<1>3. ASSUME NEW a \in Addresses, Balance!AddAddress(a) \/ Balance!RemoveAddress(a)
      PROVE  BalanceInv'
  BY <1>0, <1>3 DEF Balance!AddAddress, Balance!RemoveAddress, BalanceInv, Balance!TypeOK,
     Balance!Checks, HeldUntilNow, AnswersAreRecent, StampsAreRecent, RecentAt
<1>4. ASSUME NEW a \in Addresses, NEW b \in Balances, Balance!Transfer(a, b)
      PROVE  BalanceInv'
  <2> USE <1>4 DEF Balance!Transfer
  <2>1. \A x \in Addresses, y \in Balances :
            held'[x][y] = IF x = a /\ y = b THEN now ELSE held[x][y]
    BY <1>0 DEF Balance!TypeOK
  <2>2. held' \in [Addresses -> [Balances -> -1 .. now]]
    BY <1>0 DEF Balance!TypeOK
  <2>3. HeldGrows
    BY <1>0, <2>1 DEF HeldGrows, Balance!TypeOK
  <2>4. Balance!TypeOK'
    BY <1>0, <2>2 DEF Balance!TypeOK, Balance!Checks
  <2>5. HeldUntilNow'
    BY <1>0, <2>1 DEF HeldUntilNow, Balance!TypeOK
  <2>6. AnswersAreRecent' /\ StampsAreRecent'
    <3>1. held' \in [Addresses -> [Balances -> Int]]
      BY <1>0, <2>2 DEF Balance!TypeOK
    <3> QED
      BY <1>0, <2>3, <3>1, GrowthKeepsStamps DEF AnswersAreRecent, BalanceInv
  <2> QED
    BY <2>4, <2>5, <2>6 DEF BalanceInv
<1>5. ASSUME NEW c \in Checkers, NEW todo \in SUBSET Addresses, Balance!Begin(c, todo)
      PROVE  BalanceInv'
  <2>1. Balance!Looking(todo) \in Balance!Checks
    BY DEF Balance!Looking, Balance!Checks
  <2>2. Balance!Looking(todo).at \notin {"asking", "storing"}
    BY DEF Balance!Looking, Balance!NoCheck
  <2> QED
    BY <1>0, <1>5, <2>1, <2>2, ChecksMove DEF Balance!Begin
<1>6. ASSUME NEW c \in Checkers, NEW a \in Addresses, Balance!Look(c, a)
      PROVE  BalanceInv'
  <2> DEFINE rest == Balance!Looking(check[c].todo \ {a})
             ask == [at |-> "asking", todo |-> check[c].todo \ {a}, address |-> a,
                     since |-> now, balance |-> chain[a]]
  <2>1. check[c] \in [at : {"looking"}, todo : SUBSET Addresses]
    BY <1>0, <1>6 DEF Balance!Look, Balance!TypeOK, Balance!Checks, Balance!NoCheck
  <2>2. rest \in Balance!Checks /\ rest.at \notin {"asking", "storing"}
    BY <2>1 DEF Balance!Looking, Balance!Checks, Balance!NoCheck
  <2>3. /\ ask \in Balance!Checks
        /\ ask.since <= held[ask.address][ask.balance]
        /\ now - ask.since <= MaxFetch
        /\ ask.at = "asking"
    BY <1>0, <2>1 DEF Balance!TypeOK, Balance!Checks, HeldUntilNow
  <2>4. check' = [check EXCEPT ![c] = rest] \/ check' = [check EXCEPT ![c] = ask]
    BY <1>0, <1>6 DEF Balance!Look, Balance!TypeOK
  <2> QED
    BY <1>0, <1>6, <2>2, <2>3, <2>4, ChecksMove DEF Balance!Look
<1>7. ASSUME NEW c \in Checkers, Balance!Stamp(c)
      PROVE  BalanceInv'
  <2> DEFINE to == [at |-> "storing", todo |-> check[c].todo, address |-> check[c].address,
                    balance |-> check[c].balance, last_updated |-> now]
  <2>1. check[c] \in [at : {"asking"}, todo : SUBSET Addresses, address : Addresses,
                      since : 0 .. now, balance : Balances]
    BY <1>0, <1>7 DEF Balance!Stamp, Balance!TypeOK, Balance!Checks, Balance!NoCheck
  <2>2. to \in Balance!Checks
    BY <1>0, <2>1 DEF Balance!Checks, Balance!TypeOK
  <2>3. RecentAt(to.address, to.balance, to.last_updated)
    BY <1>0, <2>1 DEF AnswersAreRecent, RecentAt, Balance!TypeOK
  <2>4. check' = [check EXCEPT ![c] = to] /\ to.at = "storing"
    BY <1>0, <1>7 DEF Balance!Stamp, Balance!TypeOK
  <2> QED
    BY <1>0, <1>7, <2>2, <2>3, <2>4, ChecksMove DEF Balance!Stamp
<1>8. ASSUME NEW c \in Checkers, Balance!Fail(c)
      PROVE  BalanceInv'
  BY <1>8, ChecksMove DEF Balance!Fail, Balance!Checks, Balance!NoCheck
<1>9. ASSUME NEW c \in Checkers, Balance!Store(c)
      PROVE  BalanceInv'
  <2> DEFINE entry == Balance!Entry(check[c].balance, check[c].last_updated)
             rest == Balance!Looking(check[c].todo)
  <2>0. Balance!StoreEntry(c, entry)
    BY <1>9 DEF Balance!Store
  <2>1. check[c] \in [at : {"storing"}, todo : SUBSET Addresses, address : Addresses,
                      balance : Balances, last_updated : 0 .. now]
    BY <1>0, <2>0 DEF Balance!StoreEntry, Balance!TypeOK, Balance!Checks, Balance!NoCheck
  <2>2. rest \in Balance!Checks /\ rest.at \notin {"asking", "storing"}
    BY <2>1 DEF Balance!Looking, Balance!Checks, Balance!NoCheck
  <2>3. \A d \in Checkers : check'[d] = IF d = c THEN rest ELSE check[d]
    BY <1>0, <2>0 DEF Balance!StoreEntry, Balance!TypeOK
  <2>4. check' \in [Checkers -> Balance!Checks]
    BY <1>0, <2>0, <2>2 DEF Balance!StoreEntry, Balance!TypeOK
  <2>5. /\ DOMAIN balance_cache' = DOMAIN balance_cache \cup {check[c].address}
        /\ \A a \in DOMAIN balance_cache' :
            balance_cache'[a] = IF a = check[c].address THEN entry ELSE balance_cache[a]
    BY <2>0 DEF Balance!StoreEntry
  <2>6. entry \in [balance : Balances, last_updated : 0 .. now]
    BY <2>1 DEF Balance!Entry
  <2>7. Balance!TypeOK'
    BY <1>0, <2>0, <2>1, <2>4, <2>5, <2>6 DEF Balance!StoreEntry, Balance!TypeOK, Balance!Checks
  <2>8. HeldUntilNow'
    BY <1>0, <2>0 DEF Balance!StoreEntry, HeldUntilNow
  <2>9. AnswersAreRecent'
    BY <1>0, <2>0, <2>2, <2>3 DEF Balance!StoreEntry, AnswersAreRecent
  <2>10. RecentAt(check[c].address, entry.balance, entry.last_updated)
    BY <1>0, <2>0 DEF StampsAreRecent, Balance!StoreEntry, Balance!Entry
  <2>11. StampsAreRecent'
    <3>1. held' = held
      BY <2>0 DEF Balance!StoreEntry
    <3> QED
      BY <1>0, <2>2, <2>3, <2>5, <2>10, <3>1 DEF StampsAreRecent, RecentAt
  <2> QED
    BY <2>7, <2>8, <2>9, <2>11 DEF BalanceInv
<1>10. CASE UNCHANGED balanceVars
  BY <1>0, <1>10 DEF balanceVars, BalanceInv, Balance!TypeOK, Balance!Checks, HeldUntilNow,
     AnswersAreRecent, StampsAreRecent, RecentAt
<1>11. monitoring_addresses \in SUBSET Addresses
  BY <1>0 DEF Balance!TypeOK
<1> QED
  BY <1>1, <1>2, <1>3, <1>4, <1>5, <1>6, <1>7, <1>8, <1>9, <1>10, <1>11 DEF Balance!Next

\* A balance that a hit answers was the wallet's at most a ttl and one answer of the
\* node ago, for any number of callers and wallets: check_balance of
\* security/balance.rs.
THEOREM HitsAreRecent == Spec => []HitIsRecent
<1> DEFINE Inv == focus = "balance" => BalanceInv
<1>1. Init => Inv
  BY SupportAssumption, BalanceStarts DEF Init
<1>2. Inv /\ [Next]_vars => Inv'
  BY SupportAssumption, BalanceSteps DEF Next, vars
<1>3. Inv => HitIsRecent
  <2> SUFFICES ASSUME BalanceInv, NEW a \in Addresses, Balance!Fresh(a)
               PROVE  now - held[a][balance_cache[a].balance] <= CacheTtl - 1 + MaxFetch
    BY DEF HitIsRecent, Balance!HitIsRecent
  <2>1. balance_cache[a] \in [balance : Balances, last_updated : 0 .. now]
    BY DEF BalanceInv, Balance!TypeOK, Balance!Fresh
  <2> QED
    BY <2>1, SupportAssumption DEF BalanceInv, StampsAreRecent, RecentAt, Balance!Fresh, Balance!TypeOK,
       SupportAssumption, Balance!BalanceAssumption
<1> QED
  BY <1>1, <1>2, <1>3, PTL DEF Spec

-----------------------------------------------------------------------------
\* WalletMonitor

\* A nonce gap among the issues of a wallet is excused by a regression.
Excused(issues, w) == "nonce_gap" \in issues => w \in regressed

\* What a round holds of the wallet it is at, and of those it has done.
RoundExcused(rd) ==
    /\ rd.at = "expected" =>
        rd.nonce <= node_nonce[rd.wallet] \/ rd.wallet \in regressed
    /\ rd.at \in {"nonce", "expected", "listed", "insert"} => Excused(rd.issues, rd.wallet)
    /\ rd.at # "idle" => \A w \in DOMAIN rd.verdicts : Excused(rd.verdicts[w], w)

MonitorInv ==
    /\ Monitor!TypeOK
    /\ \A r \in Rounders : RoundExcused(round[r])
    /\ \A w \in DOMAIN health_status : Excused(health_status[w].issues, w)
    /\ \A w \in Wallets : active_alerts[w].HighNonceGap > 0 => w \in regressed

LEMMA MonitorStarts == SupportAssumption /\ Monitor!Init => MonitorInv
<1> SUFFICES ASSUME SupportAssumption, Monitor!Init PROVE MonitorInv
  OBVIOUS
<1> USE DEF Monitor!Init, Monitor!NoRound, Monitor!Nothing, SupportAssumption,
        Monitor!MonitorAssumption
<1>1. Monitor!TypeOK
  BY DEF Monitor!TypeOK, Monitor!Rounds
<1> QED
  BY <1>1 DEF MonitorInv, RoundExcused, Excused, Monitor!AlertTypes

\* What the properties say of a round survives every change of the node's nonces that
\* is a growth, or a regression on record.
LEMMA NodeMoves ==
    ASSUME SupportAssumption, MonitorInv,
           node_nonce' \in [Wallets -> 0 .. MaxNonce], regressed' \in SUBSET Wallets,
           regressed \subseteq regressed',
           \A w \in Wallets : node_nonce[w] <= node_nonce'[w] \/ w \in regressed',
           UNCHANGED <<wallets, health_status, round, active_alerts>>
    PROVE  MonitorInv'
<1> USE DEF MonitorInv
<1>1. Monitor!TypeOK'
  BY DEF Monitor!TypeOK, Monitor!Rounds
<1>2. ASSUME NEW r \in Rounders PROVE RoundExcused(round[r])'
  <2>1. RoundExcused(round[r]) /\ round'[r] = round[r]
    OBVIOUS
  <2>2. round[r].at = "expected" => /\ round[r].wallet \in Wallets /\ round[r].nonce \in Int
                                    /\ node_nonce[round[r].wallet] \in Int
                                    /\ node_nonce'[round[r].wallet] \in Int
    BY SupportAssumption DEF Monitor!TypeOK, Monitor!Rounds, Monitor!NoRound,
       SupportAssumption, Monitor!MonitorAssumption
  <2> QED
    BY <2>1, <2>2 DEF RoundExcused, Excused
<1> QED
  BY <1>1, <1>2 DEF Excused, Monitor!TypeOK

\* A step of a round leaves the other rounds alone.
LEMMA RoundMoves ==
    ASSUME MonitorInv, NEW r \in Rounders, NEW to \in Monitor!Rounds, Monitor!Step(r, to),
           RoundExcused(to), UNCHANGED health_status
    PROVE  MonitorInv'
<1> USE DEF MonitorInv, Monitor!Step
<1>1. Monitor!TypeOK'
  BY DEF Monitor!TypeOK, Monitor!Rounds
<1>2. \A s \in Rounders : round'[s] = IF s = r THEN to ELSE round[s]
  BY DEF Monitor!TypeOK
<1>3. \A s \in Rounders : RoundExcused(round[s])'
  BY <1>2 DEF RoundExcused, Excused
<1> QED
  BY <1>1, <1>3 DEF Excused

\* Where a round is, by its place.
LEMMA RoundShapes ==
    ASSUME Monitor!TypeOK, NEW r \in Rounders
    PROVE  /\ round[r].at = "balance" =>
                round[r] \in [at : {"balance"}, todo : SUBSET Wallets, verdicts : Monitor!Verdicts]
           /\ round[r].at = "nonce" =>
                round[r] \in [at : {"nonce"}, todo : SUBSET Wallets, verdicts : Monitor!Verdicts,
                              wallet : Wallets, issues : SUBSET Monitor!Issues]
           /\ round[r].at \in {"expected", "listed", "insert"} =>
                round[r] \in [at : {"expected", "listed", "insert"}, todo : SUBSET Wallets,
                              verdicts : Monitor!Verdicts, wallet : Wallets,
                              issues : SUBSET Monitor!Issues, nonce : 0 .. MaxNonce]
BY DEF Monitor!TypeOK, Monitor!Rounds, Monitor!NoRound

\* The verdicts with one more are verdicts.
LEMMA WithIsVerdicts ==
    ASSUME NEW vs \in Monitor!Verdicts, NEW w \in Wallets, NEW is \in SUBSET Monitor!Issues
    PROVE  Monitor!With(vs, w, is) \in Monitor!Verdicts
<1>1. PICK ws \in SUBSET Wallets : vs \in [ws -> SUBSET Monitor!Issues]
  BY DEF Monitor!Verdicts
<1>2. Monitor!With(vs, w, is) \in [ws \cup {w} -> SUBSET Monitor!Issues]
  BY <1>1 DEF Monitor!With
<1> QED
  BY <1>2 DEF Monitor!Verdicts

LEMMA MonitorSteps ==
    ASSUME SupportAssumption, MonitorInv, [Monitor!Next]_monitorVars
    PROVE  MonitorInv'
<1>0. Monitor!TypeOK /\ (\A r \in Rounders : RoundExcused(round[r]))
  BY DEF MonitorInv
<1>a. MaxNonce \in Nat /\ MaxNonceGap \in Nat /\ MaxAlerts \in Nat
  BY DEF SupportAssumption, Monitor!MonitorAssumption
<1>1. ASSUME NEW w \in Wallets, Monitor!Send(w) PROVE MonitorInv'
  <2>1. node_nonce' \in [Wallets -> 0 .. MaxNonce]
    BY <1>0, <1>1, <1>a DEF Monitor!Send, Monitor!TypeOK
  <2>2. \A x \in Wallets : node_nonce[x] <= node_nonce'[x]
    BY <1>0, <1>1, <1>a DEF Monitor!Send, Monitor!TypeOK
  <2> QED
    BY <1>0, <1>1, <2>1, <2>2, NodeMoves DEF Monitor!Send, Monitor!TypeOK
<1>2. ASSUME NEW w \in Wallets, NEW n \in 0 .. MaxNonce, Monitor!Regress(w, n) PROVE MonitorInv'
  <2>1. node_nonce' \in [Wallets -> 0 .. MaxNonce]
    BY <1>0, <1>2, <1>a DEF Monitor!Regress, Monitor!TypeOK
  <2>2. \A x \in Wallets : node_nonce[x] <= node_nonce'[x] \/ x \in regressed'
    BY <1>0, <1>2, <1>a DEF Monitor!Regress, Monitor!TypeOK
  <2> QED
    BY <1>0, <1>2, <2>1, <2>2, NodeMoves DEF Monitor!Regress, Monitor!TypeOK
<1>3. ASSUME NEW w \in Wallets, NEW b \in BOOLEAN,
             Monitor!Enlist(w) \/ Monitor!Delist(w) \/ Monitor!UpdateStatus(w, b)
      PROVE  MonitorInv'
  <2>1. DOMAIN wallets' \subseteq Wallets /\ \A x \in DOMAIN wallets' : wallets'[x] \in BOOLEAN
    BY <1>0, <1>3 DEF Monitor!Enlist, Monitor!Delist, Monitor!UpdateStatus, Monitor!TypeOK,
       Monitor!With
  <2>2. UNCHANGED <<health_status, round, active_alerts, node_nonce, regressed>>
    BY <1>3 DEF Monitor!Enlist, Monitor!Delist, Monitor!UpdateStatus
  <2>3. Monitor!TypeOK'
    BY <1>0, <2>1, <2>2 DEF Monitor!TypeOK, Monitor!Rounds
  <2> QED
    BY <2>2, <2>3 DEF MonitorInv, RoundExcused, Excused
<1>4. ASSUME NEW w \in Wallets, NEW t \in Monitor!AlertTypes, Monitor!Resolve(w, t) PROVE MonitorInv'
  <2>1. active_alerts' \in [Wallets -> [Monitor!AlertTypes -> 0 .. MaxAlerts]]
    BY <1>0, <1>4, <1>a DEF Monitor!Resolve, Monitor!TypeOK
  <2>2. \A x \in Wallets : active_alerts'[x].HighNonceGap > 0 => active_alerts[x].HighNonceGap > 0
    BY <1>0, <1>4, <1>a DEF Monitor!Resolve, Monitor!TypeOK, Monitor!AlertTypes
  <2>3. UNCHANGED <<wallets, health_status, round, node_nonce, regressed>>
    BY <1>4 DEF Monitor!Resolve
  <2>4. Monitor!TypeOK'
    BY <1>0, <2>1, <2>3 DEF Monitor!TypeOK, Monitor!Rounds
  <2> QED
    BY <2>2, <2>3, <2>4 DEF MonitorInv, RoundExcused, Excused
<1>5. ASSUME NEW r \in Rounders, Monitor!Begin(r) PROVE MonitorInv'
  <2> DEFINE to == [at |-> "balance", todo |-> DOMAIN wallets, verdicts |-> Monitor!Nothing]
  <2>1. Monitor!Nothing \in Monitor!Verdicts
    BY DEF Monitor!Nothing, Monitor!Verdicts
  <2>2. to \in Monitor!Rounds
    BY <1>0, <2>1 DEF Monitor!Rounds, Monitor!TypeOK
  <2>3. RoundExcused(to)
    BY DEF RoundExcused, Monitor!Nothing
  <2> QED
    BY <1>5, <2>2, <2>3, RoundMoves DEF Monitor!Begin
<1>6. ASSUME NEW r \in Rounders, NEW w \in Wallets, NEW low \in BOOLEAN, Monitor!ReadBalance(r, w, low)
      PROVE  MonitorInv'
  <2> DEFINE to == [at |-> "nonce", todo |-> round[r].todo \ {w}, verdicts |-> round[r].verdicts,
                    wallet |-> w, issues |-> IF low THEN {"low_balance"} ELSE {}]
  <2>1. to \in Monitor!Rounds
    BY <1>0, <1>6, RoundShapes DEF Monitor!ReadBalance, Monitor!Rounds, Monitor!Issues
  <2>2. RoundExcused(to)
    BY <1>0, <1>6 DEF RoundExcused, Excused, Monitor!ReadBalance
  <2> QED
    BY <1>6, <2>1, <2>2, RoundMoves DEF Monitor!ReadBalance
<1>7. ASSUME NEW r \in Rounders, Monitor!ReadNonce(r) PROVE MonitorInv'
  <2> DEFINE to == [at |-> "expected", todo |-> round[r].todo, verdicts |-> round[r].verdicts,
                    wallet |-> round[r].wallet, issues |-> round[r].issues,
                    nonce |-> node_nonce[round[r].wallet]]
  <2>0. round[r] \in [at : {"nonce"}, todo : SUBSET Wallets, verdicts : Monitor!Verdicts,
                      wallet : Wallets, issues : SUBSET Monitor!Issues]
    BY <1>0, <1>7, RoundShapes DEF Monitor!ReadNonce
  <2>1. to \in Monitor!Rounds
    BY <1>0, <2>0 DEF Monitor!Rounds, Monitor!TypeOK
  <2>2. RoundExcused(to)
    BY <1>0, <1>a, <2>0, <1>7 DEF RoundExcused, Excused, Monitor!ReadNonce, Monitor!TypeOK
  <2> QED
    BY <1>7, <2>1, <2>2, RoundMoves DEF Monitor!ReadNonce
<1>8. ASSUME NEW r \in Rounders, Monitor!ReadExpected(r) PROVE MonitorInv'
  <2> DEFINE gap == round[r].nonce > node_nonce[round[r].wallet] + MaxNonceGap
             to == [round[r] EXCEPT !.at = "listed",
                                    !.issues = @ \cup IF gap THEN {"nonce_gap"} ELSE {}]
  <2>0. round[r] \in [at : {"expected", "listed", "insert"}, todo : SUBSET Wallets,
                      verdicts : Monitor!Verdicts, wallet : Wallets,
                      issues : SUBSET Monitor!Issues, nonce : 0 .. MaxNonce]
    BY <1>0, <1>8, RoundShapes DEF Monitor!ReadExpected
  <2>1. to \in Monitor!Rounds
    BY <2>0 DEF Monitor!Rounds, Monitor!Issues
  <2>2. gap => round[r].wallet \in regressed
    <3>1. round[r].nonce <= node_nonce[round[r].wallet] \/ round[r].wallet \in regressed
      BY <1>0, <1>8 DEF RoundExcused, Monitor!ReadExpected
    <3>2. round[r].nonce \in Int /\ node_nonce[round[r].wallet] \in Int
      BY <1>0, <1>a, <2>0 DEF Monitor!TypeOK
    <3> QED
      BY <1>a, <3>1, <3>2
  <2>3. /\ to.at = "listed" /\ to.wallet = round[r].wallet /\ to.verdicts = round[r].verdicts
        /\ to.issues = round[r].issues \cup IF gap THEN {"nonce_gap"} ELSE {}
    BY <2>0
  <2> HIDE DEF gap, to
  <2>4. RoundExcused(to)
    BY <1>0, <1>8, <2>2, <2>3 DEF RoundExcused, Excused, Monitor!ReadExpected
  <2>5. Monitor!Step(r, to) /\ UNCHANGED health_status
    BY <1>8 DEF Monitor!ReadExpected, Monitor!ExpectedNonce, gap, to
  <2> QED
    BY <2>1, <2>4, <2>5, RoundMoves
<1>9. ASSUME NEW r \in Rounders, Monitor!ReadList(r) PROVE MonitorInv'
  <2> DEFINE to == [round[r] EXCEPT !.at = "insert",
                                    !.issues = @ \cup Monitor!ListIssues(round[r].wallet)]
  <2>0. round[r] \in [at : {"expected", "listed", "insert"}, todo : SUBSET Wallets,
                      verdicts : Monitor!Verdicts, wallet : Wallets,
                      issues : SUBSET Monitor!Issues, nonce : 0 .. MaxNonce]
    BY <1>0, <1>9, RoundShapes DEF Monitor!ReadList
  <2>1. Monitor!ListIssues(round[r].wallet) \in SUBSET (Monitor!Issues \ {"nonce_gap"})
    BY DEF Monitor!ListIssues, Monitor!Issues
  <2>2. to \in Monitor!Rounds
    BY <2>0, <2>1 DEF Monitor!Rounds
  <2>3. /\ to.at = "insert" /\ to.wallet = round[r].wallet /\ to.verdicts = round[r].verdicts
        /\ to.issues = round[r].issues \cup Monitor!ListIssues(round[r].wallet)
    BY <2>0
  <2> HIDE DEF to
  <2>4. RoundExcused(to)
    BY <1>0, <1>9, <2>1, <2>3 DEF RoundExcused, Excused, Monitor!ReadList
  <2>5. Monitor!Step(r, to) /\ UNCHANGED health_status
    BY <1>9 DEF Monitor!ReadList, to
  <2> QED
    BY <2>2, <2>4, <2>5, RoundMoves
<1>10. ASSUME NEW r \in Rounders, Monitor!Insert(r) PROVE MonitorInv'
  <2> DEFINE w == round[r].wallet
             verdict == [issues |-> round[r].issues, nonce |-> round[r].nonce]
             vs == Monitor!With(round[r].verdicts, w, round[r].issues)
             to == [at |-> "balance", todo |-> round[r].todo, verdicts |-> vs]
  <2>0. round[r] \in [at : {"expected", "listed", "insert"}, todo : SUBSET Wallets,
                      verdicts : Monitor!Verdicts, wallet : Wallets,
                      issues : SUBSET Monitor!Issues, nonce : 0 .. MaxNonce]
    BY <1>0, <1>10, RoundShapes DEF Monitor!Insert
  <2>1. vs \in Monitor!Verdicts /\ to \in Monitor!Rounds
    BY <2>0, WithIsVerdicts DEF Monitor!Rounds
  <2>2. Excused(round[r].issues, w)
    BY <1>0, <1>10 DEF RoundExcused, Monitor!Insert
  <2>3. RoundExcused(to)
    BY <1>0, <1>10, <2>2 DEF RoundExcused, Excused, Monitor!Insert, Monitor!With
  <2>4. /\ DOMAIN health_status' = DOMAIN health_status \cup {w}
        /\ \A x \in DOMAIN health_status' :
            health_status'[x] = IF x = w THEN verdict ELSE health_status[x]
    BY <1>10 DEF Monitor!Insert, Monitor!With
  <2>5. verdict \in [issues : SUBSET Monitor!Issues, nonce : 0 .. MaxNonce]
    BY <2>0
  <2>6. Monitor!Step(r, to)
    BY <1>10 DEF Monitor!Insert
  <2> HIDE DEF to, vs
  <2>7. Monitor!TypeOK'
    <3>1. round' \in [Rounders -> Monitor!Rounds]
      BY <1>0, <2>1, <2>6 DEF Monitor!Step, Monitor!TypeOK
    <3>2. /\ DOMAIN health_status' \subseteq Wallets
          /\ \A x \in DOMAIN health_status' :
              health_status'[x] \in [issues : SUBSET Monitor!Issues, nonce : 0 .. MaxNonce]
      BY <1>0, <2>0, <2>4, <2>5 DEF Monitor!TypeOK
    <3> QED
      BY <1>0, <2>6, <3>1, <3>2 DEF Monitor!Step, Monitor!TypeOK, Monitor!Rounds
  <2>8. \A s \in Rounders : RoundExcused(round[s])'
    <3>1. \A s \in Rounders : round'[s] = IF s = r THEN to ELSE round[s]
      BY <1>0, <2>6 DEF Monitor!Step, Monitor!TypeOK
    <3> QED
      BY <1>0, <2>3, <2>6, <3>1 DEF RoundExcused, Excused, Monitor!Step
  <2>9. (\A x \in DOMAIN health_status : Excused(health_status[x].issues, x))'
    BY <2>2, <2>4, <2>6 DEF MonitorInv, Excused, Monitor!Step
  <2> QED
    BY <2>6, <2>7, <2>8, <2>9 DEF MonitorInv, Monitor!Step, Excused
<1>11. ASSUME NEW r \in Rounders, Monitor!Fail(r) \/ Monitor!Drop(r) PROVE MonitorInv'
  <2>1. Monitor!NoRound \in Monitor!Rounds /\ RoundExcused(Monitor!NoRound)
    BY DEF Monitor!Rounds, Monitor!NoRound, RoundExcused
  <2> QED
    BY <1>11, <2>1, RoundMoves DEF Monitor!Fail, Monitor!Drop
<1>12. ASSUME NEW r \in Rounders, NEW w \in Wallets, NEW issue \in Monitor!Issues,
              Monitor!Alert(r, w, issue)
       PROVE  MonitorInv'
  <2> DEFINE vs == round[r].verdicts
             fewer == Monitor!With(vs, w, vs[w] \ {issue})
             type == Monitor!AlertType(issue)
             to == [round[r] EXCEPT !.verdicts = fewer]
  <2>1. /\ round[r].at = "balance" /\ vs \in Monitor!Verdicts
        /\ w \in DOMAIN vs /\ issue \in vs[w] /\ active_alerts[w][type] < MaxAlerts
        /\ active_alerts' = [active_alerts EXCEPT ![w][type] = active_alerts[w][type] + 1]
        /\ round' = [round EXCEPT ![r] = to]
        /\ UNCHANGED <<wallets, health_status, node_nonce, regressed>>
    BY <1>0, <1>12, RoundShapes DEF Monitor!Alert, Monitor!TypeOK
  <2>2. vs[w] \subseteq Monitor!Issues
    BY <2>1 DEF Monitor!Verdicts
  <2>3. fewer \in Monitor!Verdicts
    BY <2>1, <2>2, WithIsVerdicts
  <2>4. /\ DOMAIN fewer = DOMAIN vs /\ fewer[w] = vs[w] \ {issue}
        /\ \A x \in DOMAIN vs \ {w} : fewer[x] = vs[x]
    BY <2>1 DEF Monitor!With
  <2>5. type \in Monitor!AlertTypes /\ (type = "HighNonceGap" => issue = "nonce_gap")
    BY DEF Monitor!AlertType, Monitor!AlertTypes, Monitor!Issues
  <2> HIDE DEF fewer, type
  <2>6. round[r] \in [at : {"balance"}, todo : SUBSET Wallets, verdicts : Monitor!Verdicts]
    BY <1>0, <2>1, RoundShapes
  <2>7. to \in Monitor!Rounds /\ to.at = "balance" /\ to.verdicts = fewer
    BY <2>3, <2>6 DEF Monitor!Rounds
  <2>8. \A x \in DOMAIN vs : Excused(vs[x], x)
    BY <1>0, <2>1 DEF RoundExcused
  <2>9. RoundExcused(to)
    BY <2>4, <2>7, <2>8 DEF RoundExcused, Excused
  <2> HIDE DEF to
  <2>10. active_alerts \in [Wallets -> [Monitor!AlertTypes -> 0 .. MaxAlerts]]
    BY <1>0 DEF Monitor!TypeOK
  <2>11. active_alerts[w][type] + 1 \in 0 .. MaxAlerts
    BY <1>a, <2>1, <2>5, <2>10
  <2>12. active_alerts' \in [Wallets -> [Monitor!AlertTypes -> 0 .. MaxAlerts]]
    BY <2>1, <2>5, <2>10, <2>11
  <2>13. \A x \in Wallets : active_alerts'[x].HighNonceGap > 0 => x \in regressed
    <3> SUFFICES ASSUME NEW x \in Wallets, active_alerts'[x]["HighNonceGap"] > 0
                 PROVE  x \in regressed
      OBVIOUS
    <3>1. CASE x = w /\ type = "HighNonceGap"
      BY <2>1, <2>5, <2>8, <3>1 DEF Excused
    <3>2. CASE ~ (x = w /\ type = "HighNonceGap")
      <4>1. "HighNonceGap" \in Monitor!AlertTypes
        BY DEF Monitor!AlertTypes
      <4>2. active_alerts'[x]["HighNonceGap"] = active_alerts[x]["HighNonceGap"]
        BY <2>1, <2>5, <2>10, <3>2, <4>1
      <4> QED
        BY <4>2 DEF MonitorInv
    <3> QED
      BY <3>1, <3>2
  <2>14. round' \in [Rounders -> Monitor!Rounds]
         /\ \A s \in Rounders : round'[s] = IF s = r THEN to ELSE round[s]
    BY <1>0, <2>1, <2>7 DEF Monitor!TypeOK
  <2>15. Monitor!TypeOK'
    BY <1>0, <2>1, <2>12, <2>14 DEF Monitor!TypeOK, Monitor!Rounds
  <2>16. \A s \in Rounders : RoundExcused(round[s])'
    BY <1>0, <2>1, <2>9, <2>14 DEF RoundExcused, Excused
  <2> QED
    BY <2>1, <2>13, <2>15, <2>16 DEF MonitorInv, Excused
<1>13. CASE UNCHANGED monitorVars
  BY <1>13 DEF monitorVars, MonitorInv, Monitor!TypeOK, Monitor!Rounds, RoundExcused, Excused
<1> QED
  BY <1>1, <1>2, <1>3, <1>4, <1>5, <1>6, <1>7, <1>8, <1>9, <1>10, <1>11, <1>12, <1>13
     DEF Monitor!Next

\* The monitor reports a nonce gap, or alerts of one, only of a wallet of which the node
\* has taken a nonce back, for any number of wallets and rounds: get_expected_nonce of
\* wallet/monitor.rs asks what get_wallet_nonce has asked.
THEOREM GapsNeedARegression == Spec => []GapNeedsRegression
<1> DEFINE Inv == focus = "monitor" => MonitorInv
<1>1. Init => Inv
  BY SupportAssumption, MonitorStarts DEF Init
<1>2. Inv /\ [Next]_vars => Inv'
  BY SupportAssumption, MonitorSteps DEF Next, vars
<1>3. Inv => GapNeedsRegression
  BY DEF GapNeedsRegression, Monitor!GapNeedsRegression, MonitorInv, Excused
<1> QED
  BY <1>1, <1>2, <1>3, PTL DEF Spec

-----------------------------------------------------------------------------
\* SimpleGateway

\* The handlers that have still to add to the counter n, where a is `adding'.
StillToAdd(a, n) == {h \in Handlers : n \in a[h]}

\* What the counter n will come to when they have.
Total(n) == counters[n] + Cardinality(StillToAdd(adding, n))

GatewayTypes ==
    /\ counters \in [Gateway!Counters -> Nat]
    /\ adding \in [Handlers -> SUBSET Gateway!Counters]
    /\ reading \subseteq Gateway!Counters
    /\ metrics \in [Gateway!Counters -> Nat]
    /\ overlap \in Nat

\* Requests count in pairs of counters, and each is counted once; what is in progress,
\* and what a reading overlaps with, is among them.
RequestsAgree ==
    /\ Total("successful_requests") = Total("total_requests")
    /\ Total("pending_transactions") = Total("total_transactions")
    /\ Total("total_transactions") <= Total("total_requests")
    /\ Total("total_requests") <= MaxRequests
    /\ Cardinality(Gateway!Active) <= Total("total_requests")
    /\ overlap <= Total("total_requests")

\* During a reading, what a counter still lacks was in progress at its start or has
\* begun since; so what has been loaded is the counter's total, but for those.
LacksAtMostOverlap ==
    reading # {} =>
        /\ \A n \in Gateway!Counters : Total(n) <= counters[n] + overlap
        /\ \A n \in Gateway!Counters \ reading :
            metrics[n] <= Total(n) /\ Total(n) <= metrics[n] + overlap

\* What a reader is told in the end.
ReportAgrees ==
    reading = {} =>
        /\ metrics["successful_requests"] <= metrics["total_requests"] + overlap
        /\ metrics["pending_transactions"] <= metrics["total_transactions"] + overlap

MetricsBounded == \A n \in Gateway!Counters : metrics[n] <= MaxRequests

GatewayInv ==
    GatewayTypes /\ RequestsAgree /\ LacksAtMostOverlap /\ ReportAgrees /\ MetricsBounded

LEMMA GatewayCardinality == \A S : Gateway!Cardinality(S) = Cardinality(S)
BY DEF Gateway!Cardinality, Cardinality

LEMMA HandlersAreFinite ==
    SupportAssumption => IsFiniteSet(Handlers) /\ MaxRequests \in Nat
<1>1. Gateway!IsFiniteSet(Handlers) <=> IsFiniteSet(Handlers)
  BY DEF Gateway!IsFiniteSet, IsFiniteSet
<1> QED
  BY <1>1 DEF SupportAssumption, Gateway!GatewayAssumption

LEMMA AddingIsFinite ==
    ASSUME SupportAssumption, NEW a, NEW n
    PROVE  IsFiniteSet(StillToAdd(a, n)) /\ Cardinality(StillToAdd(a, n)) \in Nat
BY HandlersAreFinite, FS_Subset, FS_CardinalityType DEF StillToAdd

\* Counters that will come to no more than the number of requests.
LEMMA TotalsBounded ==
    ASSUME SupportAssumption, GatewayTypes, RequestsAgree, NEW n \in Gateway!Counters
    PROVE  Total(n) \in Nat /\ counters[n] <= Total(n) /\ Total(n) <= MaxRequests
<1>1. \A m \in Gateway!Counters : Total(m) \in Nat /\ counters[m] <= Total(m)
  BY AddingIsFinite DEF GatewayTypes, Total
<1>2. {"total_requests", "successful_requests", "total_transactions", "pending_transactions"}
        = Gateway!Counters
  BY DEF Gateway!Counters
<1> QED
  BY <1>1, <1>2, HandlersAreFinite DEF RequestsAgree

LEMMA GatewayStarts == SupportAssumption /\ Gateway!Init => GatewayInv
<1> SUFFICES ASSUME SupportAssumption, Gateway!Init PROVE GatewayInv
  OBVIOUS
<1>1. GatewayTypes
  BY DEF GatewayTypes, Gateway!Init
<1>2. \A n \in Gateway!Counters : Total(n) = 0
  <2>1. \A n : StillToAdd(adding, n) = {}
    BY DEF Gateway!Init, StillToAdd
  <2> QED
    BY <2>1, FS_EmptySet DEF Gateway!Init, Total
<1>3. Cardinality(Gateway!Active) = 0
  <2>1. Gateway!Active = {}
    BY DEF Gateway!Init, Gateway!Active
  <2> QED
    BY <2>1, FS_EmptySet
<1>4. RequestsAgree
  BY <1>2, <1>3, HandlersAreFinite DEF RequestsAgree, Gateway!Init, Gateway!Counters
<1>5. LacksAtMostOverlap /\ ReportAgrees /\ MetricsBounded
  BY HandlersAreFinite DEF LacksAtMostOverlap, ReportAgrees, MetricsBounded, Gateway!Init,
     Gateway!Counters
<1> QED
  BY <1>1, <1>4, <1>5 DEF GatewayInv

\* What a new request changes in the totals: one more for each of its counters.
LEMMA HandleAdds ==
    ASSUME SupportAssumption, GatewayTypes, NEW h \in Handlers,
           NEW additions \in SUBSET Gateway!Counters, additions # {}, Gateway!Handle(h, additions)
    PROVE  /\ GatewayTypes'
           /\ \A n \in Gateway!Counters :
                Total(n)' = Total(n) + IF n \in additions THEN 1 ELSE 0
           /\ Cardinality(Gateway!Active') = Cardinality(Gateway!Active) + 1
<1> USE DEF Gateway!Handle
<1>1. GatewayTypes'
  BY DEF GatewayTypes
<1>2. ASSUME NEW n \in Gateway!Counters
      PROVE  Total(n)' = Total(n) + IF n \in additions THEN 1 ELSE 0
  <2>1. StillToAdd(adding', n) = IF n \in additions THEN StillToAdd(adding, n) \cup {h}
                                 ELSE StillToAdd(adding, n)
    BY DEF StillToAdd, GatewayTypes
  <2>2. h \notin StillToAdd(adding, n)
    BY DEF StillToAdd
  <2>3. Cardinality(StillToAdd(adding', n))
            = Cardinality(StillToAdd(adding, n)) + IF n \in additions THEN 1 ELSE 0
    BY <2>1, <2>2, AddingIsFinite, FS_AddElement
  <2>4. Total(n)' = counters[n] + Cardinality(StillToAdd(adding', n))
    BY DEF Total
  <2> QED
    BY <2>3, <2>4, AddingIsFinite DEF Total, GatewayTypes
<1>3. Cardinality(Gateway!Active') = Cardinality(Gateway!Active) + 1
  <2>1. Gateway!Active' = Gateway!Active \cup {h} /\ h \notin Gateway!Active
    BY DEF Gateway!Active, GatewayTypes
  <2>2. IsFiniteSet(Gateway!Active)
    BY HandlersAreFinite, FS_Subset DEF Gateway!Active
  <2> QED
    BY <2>1, <2>2, FS_AddElement
<1> QED
  BY <1>1, <1>2, <1>3

\* An addition that is seen moves from what is to be added to the counter.
LEMMA AddKeepsTotals ==
    ASSUME SupportAssumption, GatewayTypes, NEW h \in Handlers, NEW m \in Gateway!Counters,
           Gateway!Add(h, m)
    PROVE  /\ GatewayTypes'
           /\ \A n \in Gateway!Counters : Total(n)' = Total(n) /\ counters[n] <= counters'[n]
           /\ Cardinality(Gateway!Active') <= Cardinality(Gateway!Active)
<1> USE DEF Gateway!Add
<1>1. GatewayTypes'
  BY DEF GatewayTypes
<1>2. ASSUME NEW n \in Gateway!Counters
      PROVE  Total(n)' = Total(n) /\ counters[n] <= counters'[n]
  <2>1. StillToAdd(adding', n) = IF n = m THEN StillToAdd(adding, n) \ {h}
                                 ELSE StillToAdd(adding, n)
    BY DEF StillToAdd, GatewayTypes
  <2>2. n = m => h \in StillToAdd(adding, n)
    BY DEF StillToAdd
  <2>3. Cardinality(StillToAdd(adding', n))
            = Cardinality(StillToAdd(adding, n)) - IF n = m THEN 1 ELSE 0
    BY <2>1, <2>2, AddingIsFinite, FS_RemoveElement
  <2>4. Total(n)' = counters'[n] + Cardinality(StillToAdd(adding', n))
    BY DEF Total
  <2>5. counters'[n] = counters[n] + IF n = m THEN 1 ELSE 0
    BY DEF GatewayTypes
  <2> QED
    BY <2>3, <2>4, <2>5, AddingIsFinite DEF Total, GatewayTypes
<1>3. Cardinality(Gateway!Active') <= Cardinality(Gateway!Active)
  <2>1. Gateway!Active' \subseteq Gateway!Active
    BY DEF Gateway!Active, GatewayTypes
  <2>2. IsFiniteSet(Gateway!Active)
    BY HandlersAreFinite, FS_Subset DEF Gateway!Active
  <2> QED
    BY <2>1, <2>2, FS_Subset
<1> QED
  BY <1>1, <1>2, <1>3

LEMMA HandleKeeps ==
    ASSUME SupportAssumption, GatewayInv, NEW h \in Handlers,
           NEW additions \in {Gateway!Submit, Gateway!StatusOrCancel}, Gateway!Handle(h, additions)
    PROVE  GatewayInv'
<1>0. GatewayTypes /\ RequestsAgree /\ LacksAtMostOverlap /\ ReportAgrees /\ MetricsBounded
  BY DEF GatewayInv
<1> DEFINE new(n) == IF n \in additions THEN 1 ELSE 0
<1>1. additions \in SUBSET Gateway!Counters /\ additions # {}
  BY DEF Gateway!Submit, Gateway!StatusOrCancel, Gateway!Counters
<1>2. /\ GatewayTypes'
      /\ \A n \in Gateway!Counters : Total(n)' = Total(n) + new(n)
      /\ Cardinality(Gateway!Active') = Cardinality(Gateway!Active) + 1
  BY <1>0, <1>1, HandleAdds
<1>3. \A n \in Gateway!Counters : Total(n) \in Nat
  BY <1>0, TotalsBounded
<1>4. Total("total_requests") < MaxRequests
  BY GatewayCardinality DEF Gateway!Handle, Gateway!Requests, Total, StillToAdd
<1>5. /\ new("total_requests") = 1 /\ new("successful_requests") = 1
      /\ new("pending_transactions") = new("total_transactions")
      /\ new("total_transactions") \in {0, 1}
  BY DEF Gateway!Submit, Gateway!StatusOrCancel, Gateway!Counters
<1>6. \A n \in Gateway!Counters : new(n) \in {0, 1}
  OBVIOUS
<1> HIDE DEF new
<1>7. overlap' = (IF reading = {} THEN overlap ELSE overlap + 1)
  BY DEF Gateway!Handle
<1>8. UNCHANGED <<counters, reading, metrics>>
  BY DEF Gateway!Handle
<1>c. Cardinality(Gateway!Active) \in Nat
  BY HandlersAreFinite, FS_Subset, FS_CardinalityType DEF Gateway!Active
<1>9. RequestsAgree'
  <2>1. {"total_requests", "successful_requests", "total_transactions", "pending_transactions"}
            = Gateway!Counters
    BY DEF Gateway!Counters
  <2>2. overlap' <= overlap + 1 /\ overlap \in Nat /\ overlap' \in Nat
    BY <1>0, <1>2, <1>7 DEF GatewayTypes
  <2>3. /\ Total("total_requests")' = Total("total_requests") + 1
        /\ Total("successful_requests")' = Total("successful_requests") + 1
        /\ Total("pending_transactions")' = Total("pending_transactions") + new("total_transactions")
        /\ Total("total_transactions")' = Total("total_transactions") + new("total_transactions")
    BY <1>2, <1>5, <2>1
  <2>4. Cardinality(Gateway!Active)' = Cardinality(Gateway!Active') /\ MaxRequests' = MaxRequests
    OBVIOUS
  <2> QED
    BY <1>0, <1>2, <1>3, <1>4, <1>5, <1>c, <2>1, <2>2, <2>3, <2>4, HandlersAreFinite DEF RequestsAgree
<1>10. LacksAtMostOverlap'
  <2> SUFFICES ASSUME reading # {} PROVE LacksAtMostOverlap'
    BY <1>8 DEF LacksAtMostOverlap
  <2>1. overlap' = overlap + 1 /\ overlap \in Nat
    BY <1>0, <1>7 DEF GatewayTypes
  <2>2. ASSUME NEW n \in Gateway!Counters PROVE Total(n)' <= counters'[n] + overlap'
    <3>1. Total(n) <= counters[n] + overlap /\ counters[n] \in Nat
      BY <1>0 DEF LacksAtMostOverlap, GatewayTypes
    <3> QED
      BY <1>2, <1>3, <1>6, <1>8, <2>1, <3>1
  <2>3. ASSUME NEW n \in Gateway!Counters \ reading
        PROVE  metrics'[n] <= Total(n)' /\ Total(n)' <= metrics'[n] + overlap'
    <3>1. metrics[n] <= Total(n) /\ Total(n) <= metrics[n] + overlap /\ metrics[n] \in Nat
      BY <1>0 DEF LacksAtMostOverlap, GatewayTypes
    <3> QED
      BY <1>2, <1>3, <1>6, <1>8, <2>1, <3>1
  <2> QED
    BY <1>8, <2>2, <2>3 DEF LacksAtMostOverlap
<1>11. ReportAgrees' /\ MetricsBounded'
  BY <1>0, <1>7, <1>8 DEF ReportAgrees, MetricsBounded
<1> QED
  BY <1>2, <1>9, <1>10, <1>11 DEF GatewayInv

LEMMA AddKeeps ==
    ASSUME SupportAssumption, GatewayInv, NEW h \in Handlers, NEW m \in Gateway!Counters,
           Gateway!Add(h, m)
    PROVE  GatewayInv'
<1>0. GatewayTypes /\ RequestsAgree /\ LacksAtMostOverlap /\ ReportAgrees /\ MetricsBounded
  BY DEF GatewayInv
<1>1. /\ GatewayTypes'
      /\ \A n \in Gateway!Counters : Total(n)' = Total(n) /\ counters[n] <= counters'[n]
      /\ Cardinality(Gateway!Active') <= Cardinality(Gateway!Active)
  BY <1>0, AddKeepsTotals
<1>2. UNCHANGED <<reading, metrics, overlap>>
  BY DEF Gateway!Add
<1>3. {"total_requests", "successful_requests", "total_transactions", "pending_transactions"}
        = Gateway!Counters
  BY DEF Gateway!Counters
<1>4. \A n \in Gateway!Counters : Total(n) \in Nat
  BY <1>0, TotalsBounded
<1>5. Cardinality(Gateway!Active) \in Nat /\ Cardinality(Gateway!Active') \in Nat
  BY HandlersAreFinite, FS_Subset, FS_CardinalityType DEF Gateway!Active
<1>6. RequestsAgree'
  BY <1>0, <1>1, <1>2, <1>3, <1>4, <1>5 DEF RequestsAgree
<1>7. LacksAtMostOverlap'
  <2>1. ASSUME NEW n \in Gateway!Counters, reading # {}
        PROVE  Total(n)' <= counters'[n] + overlap'
    <3>1. Total(n) <= counters[n] + overlap /\ counters[n] \in Nat /\ counters'[n] \in Nat
          /\ overlap \in Nat
      BY <1>0, <1>1, <2>1 DEF LacksAtMostOverlap, GatewayTypes
    <3> QED
      BY <1>1, <1>2, <1>4, <3>1
  <2> QED
    BY <1>0, <1>1, <1>2, <2>1 DEF LacksAtMostOverlap
<1>8. ReportAgrees' /\ MetricsBounded'
  BY <1>0, <1>2 DEF ReportAgrees, MetricsBounded
<1> QED
  BY <1>1, <1>6, <1>7, <1>8 DEF GatewayInv

LEMMA StartKeeps ==
    ASSUME SupportAssumption, GatewayInv, Gateway!StartReading
    PROVE  GatewayInv'
<1> USE DEF Gateway!StartReading
<1>0. GatewayTypes /\ RequestsAgree
  BY DEF GatewayInv
<1>1. overlap' = Cardinality(Gateway!Active) /\ overlap' \in Nat
  BY GatewayCardinality, HandlersAreFinite, FS_Subset, FS_CardinalityType DEF Gateway!Active
<1>2. GatewayTypes'
  BY <1>0, <1>1 DEF GatewayTypes
<1>3. \A n : Total(n)' = Total(n)
  BY DEF Total
<1>4. RequestsAgree'
  BY <1>0, <1>1, <1>3 DEF RequestsAgree, Gateway!Active
<1>5. ASSUME NEW n \in Gateway!Counters PROVE Total(n) <= counters[n] + overlap'
  <2>1. StillToAdd(adding, n) \in SUBSET Gateway!Active
    BY DEF StillToAdd, Gateway!Active
  <2>2. Cardinality(StillToAdd(adding, n)) <= Cardinality(Gateway!Active)
    BY <2>1, HandlersAreFinite, FS_Subset DEF Gateway!Active
  <2> QED
    BY <1>0, <1>1, <2>2, AddingIsFinite DEF Total, GatewayTypes
<1>6. LacksAtMostOverlap' /\ ReportAgrees'
  BY <1>3, <1>5 DEF LacksAtMostOverlap, ReportAgrees, Gateway!Counters
<1>7. MetricsBounded'
  BY HandlersAreFinite DEF MetricsBounded
<1> QED
  BY <1>2, <1>4, <1>6, <1>7 DEF GatewayInv

LEMMA LoadKeeps ==
    ASSUME SupportAssumption, GatewayInv, NEW m \in Gateway!Counters, Gateway!Load(m)
    PROVE  GatewayInv'
<1> USE DEF Gateway!Load
<1>0. GatewayTypes /\ RequestsAgree /\ LacksAtMostOverlap /\ MetricsBounded
  BY DEF GatewayInv
<1>1. GatewayTypes'
  BY <1>0 DEF GatewayTypes
<1>2. \A n : Total(n)' = Total(n)
  BY DEF Total
<1>3. RequestsAgree'
  BY <1>0, <1>2 DEF RequestsAgree, Gateway!Active
<1>4. \A n \in Gateway!Counters : metrics'[n] = IF n = m THEN counters[m] ELSE metrics[n]
  BY <1>0 DEF GatewayTypes
<1>5. \A n \in Gateway!Counters :
        Total(n) \in Nat /\ counters[n] <= Total(n) /\ Total(n) <= MaxRequests
        /\ counters[n] \in Nat /\ metrics[n] \in Nat
  BY <1>0, TotalsBounded DEF GatewayTypes
<1>6. ASSUME NEW n \in Gateway!Counters \ reading'
      PROVE  metrics'[n] <= Total(n) /\ Total(n) <= metrics'[n] + overlap
  <2>1. CASE n = m
    BY <1>0, <1>4, <1>5, <2>1 DEF LacksAtMostOverlap
  <2>2. CASE n # m
    BY <1>0, <1>4, <2>2 DEF LacksAtMostOverlap
  <2> QED
    BY <2>1, <2>2
<1>7. LacksAtMostOverlap'
  BY <1>0, <1>2, <1>6 DEF LacksAtMostOverlap
<1>8. ReportAgrees'
  <2> SUFFICES ASSUME reading' = {}
               PROVE  /\ metrics'["successful_requests"] <= metrics'["total_requests"] + overlap
                      /\ metrics'["pending_transactions"] <= metrics'["total_transactions"] + overlap
    BY DEF ReportAgrees
  <2>1. {"total_requests", "successful_requests", "total_transactions", "pending_transactions"}
          = Gateway!Counters
    BY DEF Gateway!Counters
  <2>2. \A n \in Gateway!Counters :
            metrics'[n] <= Total(n) /\ Total(n) <= metrics'[n] + overlap
            /\ metrics'[n] \in Nat /\ Total(n) \in Nat
    BY <1>1, <1>5, <1>6 DEF GatewayTypes
  <2>3. overlap \in Nat
    BY <1>0 DEF GatewayTypes
  <2>4. /\ metrics'["successful_requests"] <= Total("total_requests")
        /\ metrics'["pending_transactions"] <= Total("total_transactions")
    BY <1>0, <2>1, <2>2 DEF RequestsAgree
  <2> QED
    BY <2>1, <2>2, <2>3, <2>4
<1>9. MetricsBounded'
  BY <1>0, <1>4, <1>5, HandlersAreFinite DEF MetricsBounded
<1> QED
  BY <1>1, <1>3, <1>7, <1>8, <1>9 DEF GatewayInv

LEMMA GatewaySteps ==
    ASSUME SupportAssumption, GatewayInv, [Gateway!Next]_gatewayVars
    PROVE  GatewayInv'
<1>1. CASE UNCHANGED gatewayVars
  BY <1>1 DEF gatewayVars, GatewayInv, GatewayTypes, RequestsAgree, LacksAtMostOverlap,
     ReportAgrees, MetricsBounded, Total, Gateway!Active
<1> QED
  BY <1>1, HandleKeeps, AddKeeps, StartKeeps, LoadKeeps DEF Gateway!Next

\* A report of the simple gateway disagrees with itself by no more than the requests
\* that were handled during its reading, and the counters agree once nothing is
\* handled, for any number of handlers: get_stats and get_metrics of
\* api/gateway_simple.rs.
THEOREM ReportsNearlyAgree == Spec => []ReportErrorBounded
<1> DEFINE Inv == focus = "gateway" => GatewayInv
<1>1. Init => Inv
  BY SupportAssumption, GatewayStarts DEF Init
<1>2. Inv /\ [Next]_vars => Inv'
  BY SupportAssumption, GatewaySteps DEF Next, vars
<1>3. Inv => ReportErrorBounded
  <2> SUFFICES ASSUME GatewayInv PROVE Gateway!ReportErrorBounded
    BY DEF ReportErrorBounded
  <2>1. ASSUME Gateway!Active = {}, NEW n \in Gateway!Counters PROVE counters[n] = Total(n)
    <3>1. StillToAdd(adding, n) = {}
      BY <2>1 DEF StillToAdd, Gateway!Active
    <3> QED
      BY <3>1, FS_EmptySet DEF Total, GatewayInv, GatewayTypes
  <2> QED
    BY <2>1 DEF GatewayInv, ReportAgrees, RequestsAgree, Gateway!ReportErrorBounded, Gateway!Counters
<1> QED
  BY <1>1, <1>2, <1>3, PTL DEF Spec

-----------------------------------------------------------------------------
\* GasPriceOracle

\* The current price is the default one or a fetched one: a fetched one has at least
\* the lower bound for a priority fee, and room for it in its max fee.
GasInv ==
    /\ config \in Configs
    /\ current.max_fee \in Nat /\ current.priority_fee \in Nat
    /\ Gas!RoomyEnough =>
        /\ current.priority_fee \in {Gas!PriorityFee, Gas!AtLeast(Gas!PriorityFee)}
        /\ current.priority_fee <= current.max_fee

\* The greater and the smaller of two numbers.
LEMMA GasMaxMin ==
    ASSUME NEW a \in Int, NEW b \in Int
    PROVE  /\ Gas!Max({a, b}) = IF a < b THEN b ELSE a
           /\ Gas!Min({a, b}) = IF a < b THEN a ELSE b
<1>1. Gas!Max({a, b}) = CHOOSE x \in {a, b} : \A y \in {a, b} : x >= y
  BY DEF Gas!Max
<1>2. Gas!Min({a, b}) = CHOOSE x \in {a, b} : \A y \in {a, b} : x =< y
  BY DEF Gas!Min
<1>3. ASSUME NEW x \in {a, b}, \A y \in {a, b} : x >= y PROVE x = IF a < b THEN b ELSE a
  BY <1>3
<1>4. ASSUME NEW x \in {a, b}, \A y \in {a, b} : x =< y PROVE x = IF a < b THEN a ELSE b
  BY <1>4
<1>5. \E x \in {a, b} : \A y \in {a, b} : x >= y
  BY a \in Int, b \in Int
<1>6. \E x \in {a, b} : \A y \in {a, b} : x =< y
  BY a \in Int, b \in Int
<1> QED
  BY <1>1, <1>2, <1>3, <1>4, <1>5, <1>6

\* What clamping does, under bounds of which the lower is below the upper.
LEMMA Clamping ==
    ASSUME SupportAssumption, config \in Configs, NEW fee \in Nat
    PROVE  /\ config.min \in Nat /\ config.max \in Nat /\ config.multiplier \in Nat
           /\ config.min < config.max
           /\ Gas!AtLeast(fee) = IF fee < config.min THEN config.min ELSE fee
           /\ Gas!Clamp(fee) = IF fee < config.min THEN config.min
                               ELSE IF fee < config.max THEN fee ELSE config.max
<1>1. /\ config.min \in Nat /\ config.max \in Nat /\ config.multiplier \in Nat
      /\ config.min < config.max
  BY DEF SupportAssumption, Gas!GasAssumption
<1>2. Gas!AtLeast(fee) = IF fee < config.min THEN config.min ELSE fee
  BY <1>1, GasMaxMin DEF Gas!AtLeast
<1>3. Gas!Clamp(fee) = IF Gas!AtLeast(fee) < config.max THEN Gas!AtLeast(fee) ELSE config.max
  <2>1. Gas!AtLeast(fee) \in Int /\ config.max \in Int
    BY <1>1, <1>2
  <2>2. Gas!Clamp(fee) = Gas!Min({Gas!AtLeast(fee), config.max})
    BY DEF Gas!Clamp
  <2> QED
    BY <2>1, <2>2, GasMaxMin
<1> QED
  BY <1>1, <1>2, <1>3

\* A product cut to a whole number grows with its factors.
LEMMA TimesGrows ==
    ASSUME NEW a \in Nat, NEW b \in Nat, NEW m \in Nat, NEW n \in Nat, a <= b, m <= n
    PROVE  /\ Gas!Times(a, m) \in Nat
           /\ Gas!Times(a, m) <= Gas!Times(b, n)
<1>1. a * m \in Nat /\ b * n \in Nat /\ a * m <= b * n
  <2>1. a * m \in Nat /\ b * m \in Nat /\ b * n \in Nat
    OBVIOUS
  <2>2. a * m <= b * m
    OBVIOUS
  <2>3. b * m <= b * n
    OBVIOUS
  <2> QED
    BY <2>1, <2>2, <2>3
<1>2. ASSUME NEW x \in Nat, NEW y \in Nat, x <= y PROVE x \div 10 \in Nat /\ x \div 10 <= y \div 10
  BY <1>2
<1> QED
  BY <1>1, <1>2 DEF Gas!Times

LEMMA GasStarts == SupportAssumption /\ Gas!Init => GasInv
BY DEF Gas!Init, GasInv, Gas!Fees, Gas!PriorityFee

LEMMA GasSteps ==
    ASSUME SupportAssumption, GasInv, [Gas!Next]_gasVars
    PROVE  GasInv'
<1>1. ASSUME NEW block, NEW base_fee \in BaseFees, Gas!FetchCurrent(block, base_fee)
      PROVE  GasInv'
  <2> DEFINE asked == Gas!Times(base_fee + Gas!PriorityFee, config.multiplier)
  <2>0. config \in Configs /\ config' = config
    BY <1>1 DEF GasInv, Gas!FetchCurrent
  <2>1. config.multiplier \in Nat /\ base_fee \in Nat /\ Gas!PriorityFee \in Nat
        /\ Gas!PriorityFee <= base_fee + Gas!PriorityFee
    BY <2>0 DEF SupportAssumption, Gas!GasAssumption, Gas!PriorityFee
  <2>2. asked \in Nat
    BY <2>1, TimesGrows, base_fee + Gas!PriorityFee \in Nat
  <2>3. current'.max_fee = Gas!Clamp(asked)
        /\ current'.priority_fee = Gas!AtLeast(Gas!PriorityFee)
    BY <1>1 DEF Gas!FetchCurrent, Gas!Fees
  <2>4. ASSUME config.multiplier >= 10 PROVE Gas!PriorityFee <= asked
    <3>1. Gas!Times(Gas!PriorityFee, 10) = Gas!PriorityFee
      BY DEF Gas!Times, Gas!PriorityFee
    <3>2. 10 \in Nat /\ 10 <= config.multiplier /\ base_fee + Gas!PriorityFee \in Nat
      BY <2>1, <2>4
    <3>3. Gas!Times(Gas!PriorityFee, 10) <= asked
      BY <2>1, <3>2, TimesGrows
    <3> QED
      BY <3>1, <3>3
  <2> HIDE DEF asked
  <2>5. ASSUME Gas!RoomyEnough PROVE current'.priority_fee <= current'.max_fee
    <3>1. /\ 10 * config.max >= 13 * Gas!AtLeast(Gas!PriorityFee)
          /\ Gas!PriorityFee <= asked
      BY <2>4, <2>5 DEF Gas!RoomyEnough
    <3> QED
      BY <2>0, <2>1, <2>2, <2>3, <3>1, Clamping
  <2>6. current'.max_fee \in Nat /\ current'.priority_fee \in Nat
    BY <2>0, <2>1, <2>2, <2>3, Clamping
  <2>7. Gas!AtLeast(Gas!PriorityFee)' = Gas!AtLeast(Gas!PriorityFee)
        /\ (Gas!RoomyEnough' <=> Gas!RoomyEnough)
    BY <2>0 DEF Gas!AtLeast, Gas!RoomyEnough
  <2> QED
    BY <2>0, <2>3, <2>5, <2>6, <2>7 DEF GasInv
<1>2. CASE Gas!FetchHistory
  BY <1>2 DEF Gas!FetchHistory, GasInv, Gas!RoomyEnough, Gas!AtLeast
<1>3. CASE UNCHANGED gasVars
  BY <1>3 DEF gasVars, GasInv, Gas!RoomyEnough, Gas!AtLeast
<1> QED
  BY <1>1, <1>2, <1>3 DEF Gas!Next

\* The multipliers of a recommendation: the max fee's is never the smaller, and the
\* priority fee's is 1.3 at most.
LEMMA MultipliersAreOrdered ==
    \A p \in Gas!Priorities :
        /\ Gas!Multipliers[p].max_fee \in Nat /\ Gas!Multipliers[p].priority_fee \in Nat
        /\ Gas!Multipliers[p].priority_fee <= Gas!Multipliers[p].max_fee
        /\ Gas!Multipliers[p].priority_fee <= 13
BY DEF Gas!Priorities, Gas!Multipliers

LEMMA RecommendedIsSendable ==
    ASSUME SupportAssumption, GasInv, Gas!RoomyEnough, NEW p \in Gas!Priorities
    PROVE  /\ Gas!Recommended(p).max_fee \in config.min .. config.max
           /\ Gas!Sendable(Gas!Recommended(p))
<1> DEFINE m == Gas!Multipliers[p].max_fee
           n == Gas!Multipliers[p].priority_fee
           top == Gas!Times(current.max_fee, m)
           tip == Gas!Times(current.priority_fee, n)
           floor == Gas!AtLeast(Gas!PriorityFee)
<1>1. m \in Nat /\ n \in Nat /\ n <= m /\ n <= 13
  BY MultipliersAreOrdered
<1>2. /\ config \in Configs /\ current.max_fee \in Nat /\ current.priority_fee \in Nat
      /\ current.priority_fee \in {Gas!PriorityFee, floor}
      /\ current.priority_fee <= current.max_fee
  BY DEF GasInv
<1>3. Gas!Recommended(p).max_fee = Gas!Clamp(top)
      /\ Gas!Recommended(p).priority_fee = Gas!AtLeast(tip)
  BY DEF Gas!Recommended, Gas!Fees
<1> HIDE DEF m, n
<1>4. top \in Nat /\ tip \in Nat /\ tip <= top
  BY <1>1, <1>2, TimesGrows
<1>5. floor \in Nat /\ Gas!PriorityFee \in Nat /\ Gas!PriorityFee <= floor
  BY <1>2, Clamping DEF Gas!PriorityFee
<1>6. tip <= Gas!Times(floor, 13)
  <2>1. current.priority_fee <= floor
    BY <1>2, <1>5
  <2> QED
    BY <1>1, <1>2, <1>5, <2>1, TimesGrows
<1>7. Gas!Times(floor, 13) <= config.max
  <2>1. 10 * config.max >= 13 * floor /\ config.max \in Nat
    BY <1>2, Clamping DEF Gas!RoomyEnough
  <2> HIDE DEF floor
  <2> QED
    BY <1>5, <2>1 DEF Gas!Times
<1>8. Gas!Times(floor, 13) \in Nat
  BY <1>5, TimesGrows
<1> HIDE DEF top, tip, floor
<1>9. /\ Gas!Clamp(top) \in config.min .. config.max
      /\ Gas!AtLeast(tip) <= Gas!Clamp(top)
  BY <1>2, <1>4, <1>6, <1>7, <1>8, Clamping
<1> QED
  BY <1>3, <1>9 DEF Gas!Sendable

\* With bounds that leave room for 1.3 times the priority fee, every recommendation is
\* within the bounds and can be sent, and so can what the executor makes of an offer
\* that can, for any bounds, blocks and offers: get_recommended_gas_price of
\* utils/gas.rs and execute_transaction of queue/executor.rs.
THEOREM RecommendationsCanBeSent == Spec => []RecommendationsSendable
<1> DEFINE Inv == focus = "gas" => GasInv
<1>1. Init => Inv
  BY SupportAssumption, GasStarts DEF Init
<1>2. Inv /\ [Next]_vars => Inv'
  BY SupportAssumption, GasSteps DEF Next, vars
<1>3. Inv => RecommendationsSendable
  <2> SUFFICES ASSUME GasInv, Gas!RoomyEnough, NEW p \in Gas!Priorities
               PROVE  /\ Gas!Recommended(p).max_fee \in config.min .. config.max
                      /\ Gas!Sendable(Gas!Recommended(p))
                      /\ \A user \in UserFees :
                            Gas!Sendable(user) => Gas!Sendable(Gas!ExecutorFees(user, p))
    BY DEF RecommendationsSendable, Gas!RecommendationsSendable
  <2>1. /\ Gas!Recommended(p).max_fee \in config.min .. config.max
        /\ Gas!Sendable(Gas!Recommended(p))
    BY SupportAssumption, RecommendedIsSendable
  <2> QED
    BY <2>1 DEF Gas!ExecutorFees, Gas!Sendable, Gas!Fees
<1> QED
  BY <1>1, <1>2, <1>3, PTL DEF Spec

-----------------------------------------------------------------------------
\* PriorityManager

PriorityInv ==
    /\ weights \in [Priority!Priorities -> 0 .. 255]
    /\ multipliers \in [Priority!Priorities -> Nat]
    /\ adjustments \in [Priority!Priorities -> Nat]

LEMMA PriorityStarts == Priority!Init => PriorityInv
BY DEF Priority!Init, PriorityInv, Priority!Priorities

LEMMA PrioritySteps ==
    ASSUME SupportAssumption, PriorityInv, [Priority!Next]_priorityVars
    PROVE  PriorityInv'
<1>1. Weights \subseteq 0 .. 255 /\ NewMultipliers \subseteq Nat
  BY DEF SupportAssumption, Priority!PriorityAssumption
<1> QED
  BY <1>1 DEF PriorityInv, Priority!Next, Priority!SetWeight, Priority!SetMultiplier,
     Priority!Adjust, Priority!Reset, Priority!UpdateHistory, priorityVars

\* What a priority brings to a score, and what the transaction does.
OfPriority(p) == weights[p] * multipliers[p] * adjustments[p]
OfFactors(f) ==
    Priority!Bonus(f.age > 300, 12) * f.tier * Priority!Bonus(f.gas_price_ratio > 15, 11) * f.congestion

LEMMA Reassociate ==
    ASSUME NEW a \in Nat, NEW b \in Nat, NEW c \in Nat, NEW d \in Nat, NEW e \in Nat,
           NEW f \in Nat, NEW g \in Nat
    PROVE  a * b * c * d * e * f * g = (a * b * g) * (c * d * e * f)
OBVIOUS

LEMMA Cancels ==
    ASSUME NEW a \in Nat, NEW b \in Nat, NEW c \in Nat, c > 0
    PROVE  a * c >= b * c <=> a >= b
<1>1. ASSUME a >= b PROVE a * c >= b * c
  BY <1>1
<1>2. ASSUME a < b PROVE a * c < b * c
  <2>1. (a + 1) * c <= b * c
    BY <1>2
  <2>2. (a + 1) * c = a * c + c
    OBVIOUS
  <2> QED
    BY <2>1, <2>2, a * c \in Nat, b * c \in Nat
<1> QED
  BY <1>1, <1>2, a * c \in Nat, b * c \in Nat

\* The factors of a transaction, with a neutral one's.
Positive(f) ==
    /\ f.tier \in Nat \ {0} /\ f.congestion \in Nat \ {0}
    /\ f.age \in Nat /\ f.gas_price_ratio \in Nat

LEMMA ScoreFactors ==
    ASSUME PriorityInv, NEW p \in Priority!Priorities, NEW f, Positive(f)
    PROVE  /\ OfPriority(p) \in Nat /\ OfFactors(f) \in Nat /\ OfFactors(f) > 0
           /\ Priority!Score(p, f) = OfPriority(p) * OfFactors(f)
<1> DEFINE a == Priority!Bonus(f.age > 300, 12)
           g == Priority!Bonus(f.gas_price_ratio > 15, 11)
<1>1. a \in Nat \ {0} /\ g \in Nat \ {0}
  BY DEF Priority!Bonus
<1>2. weights[p] \in Nat /\ multipliers[p] \in Nat /\ adjustments[p] \in Nat
  BY DEF PriorityInv
<1>3. f.tier \in Nat \ {0} /\ f.congestion \in Nat \ {0}
  BY DEF Positive
<1>4. OfFactors(f) = a * f.tier * g * f.congestion
  BY DEF OfFactors
<1>5. Priority!Score(p, f) = weights[p] * multipliers[p] * a * f.tier * g * f.congestion * adjustments[p]
  BY DEF Priority!Score, Priority!AgeBonus
<1> HIDE DEF a, g
<1>6. OfPriority(p) \in Nat
  BY <1>2 DEF OfPriority
<1>7. \A x \in Nat \ {0}, y \in Nat \ {0} : x * y \in Nat \ {0}
  OBVIOUS
<1>8. a * f.tier \in Nat \ {0}
  BY <1>1, <1>3, <1>7
<1>9. a * f.tier * g \in Nat \ {0}
  BY <1>1, <1>8, <1>7
<1>10. OfFactors(f) \in Nat \ {0}
  BY <1>3, <1>4, <1>7, <1>9
<1>11. Priority!Score(p, f) = OfPriority(p) * OfFactors(f)
  BY <1>1, <1>2, <1>3, <1>4, <1>5, Reassociate DEF OfPriority
<1> QED
  BY <1>6, <1>10, <1>11

\* So any two priorities compare alike for all transactions.
LEMMA ScoresCompareAlike ==
    ASSUME PriorityInv, NEW p \in Priority!Priorities, NEW q \in Priority!Priorities,
           NEW f, Positive(f)
    PROVE  Priority!Score(p, f) >= Priority!Score(q, f) <=> OfPriority(p) >= OfPriority(q)
BY ScoreFactors, Cancels

LEMMA OptimalIsTheSame ==
    ASSUME PriorityInv, NEW f, Positive(f), NEW g, Positive(g)
    PROVE  Priority!Optimal(f) = Priority!Optimal(g)
<1>1. \A p, q \in Priority!Priorities :
        Priority!Score(p, f) >= Priority!Score(q, f) <=> Priority!Score(p, g) >= Priority!Score(q, g)
  BY ScoresCompareAlike
<1> QED
  BY <1>1 DEF Priority!Optimal, Priority!Priorities

\* The factors of a transaction never change the priority recommended for it, nor the
\* time and the rate that come with it, whatever the weights, multipliers, adjustments
\* and history: calculate_optimal_priority and get_priority_recommendation of
\* queue/priority.rs.
THEOREM FactorsDoNotDecide == Spec => []FactorsNeverDecide
<1> DEFINE Inv == focus = "priority" => PriorityInv
<1>1. Init => Inv
  BY PriorityStarts DEF Init
<1>2. Inv /\ [Next]_vars => Inv'
  BY SupportAssumption, PrioritySteps DEF Next, vars
<1>3. Inv => FactorsNeverDecide
  <2>1. Positive(Priority!Neutral)
    BY DEF Positive, Priority!Neutral
  <2>2. \A f \in Priority!Factors : Positive(f)
    BY DEF Positive, Priority!Factors
  <2>3. ASSUME PriorityInv, NEW f \in Priority!Factors
        PROVE  Priority!Optimal(f) = Priority!Optimal(Priority!Neutral)
    BY <2>1, <2>2, <2>3, OptimalIsTheSame
  <2>4. ASSUME PriorityInv PROVE Priority!FactorsNeverDecide
    BY <2>3, <2>4 DEF Priority!FactorsNeverDecide, Priority!Recommendation
  <2> QED
    BY <2>4 DEF FactorsNeverDecide
<1> QED
  BY <1>1, <1>2, <1>3, PTL DEF Spec

-----------------------------------------------------------------------------
\* ServiceManager

Services == Service!Remote \cup {"wallet_pool", "task_scheduler"}

Reports ==
    {Service!NoReport}
        \cup [by : {"manager", "gateway"}, todo : Seq(Services),
              overall_status : {"healthy", "degraded", "unhealthy"},
              served : SUBSET Services, failed : SUBSET Services]

ServiceTypes ==
    /\ service_config \in ServiceConfigs
    /\ phase \in {"database", "redis", "wallets", "provider", "running", "shut", "refused"}
    /\ redis_cache \in BOOLEAN
    /\ up \subseteq Service!Remote
    /\ report \in Reports

\* Once they are loaded, the wallets are those of the configuration's keys.
WalletsOfKeys ==
    phase \in {"provider", "running", "shut"} =>
        loaded = Service!Loaded(service_config.wallets.private_keys)

Serves == Service!Serving(up, ailing, phase)
AskedBy(r) == Service!ToSet(Service!Asked(r.by))
ToAsk(r) == Service!ToSet(r.todo)

\* A report on its way: what serves has served, what fails of it has failed, and its
\* word so far is true of what it has asked.
ReportIsTrue(r) ==
    /\ ToAsk(r) \subseteq AskedBy(r)
    /\ Serves \subseteq r.served
    /\ AskedBy(r) \ Serves \subseteq r.failed
    /\ r.overall_status = "healthy" => AskedBy(r) \ ToAsk(r) \subseteq r.served
    /\ r.overall_status # "healthy" => r.failed # {}
    /\ r.overall_status = "unhealthy" => "database" \in r.failed
    /\ r.by = "gateway" /\ "database" \in AskedBy(r) \ (r.served \cup ToAsk(r)) =>
        r.overall_status = "unhealthy" \/ r.failed \ {"database"} # {}
    /\ service_config.queue.worker_threads > 0 => "task_scheduler" \notin r.failed

ServiceInv ==
    /\ ServiceTypes
    /\ WalletsOfKeys
    /\ report # Service!NoReport => phase \in {"running", "shut"} /\ ReportIsTrue(report)

LEMMA ConfigTypes ==
    ASSUME SupportAssumption, NEW c \in ServiceConfigs
    PROVE  c.queue.worker_threads \in Nat /\ c.wallets.private_keys \in Seq(STRING)
BY DEF SupportAssumption, Service!ServiceAssumption

\* What is asked, and the rest of a list of it.
LEMMA AskedTypes ==
    ASSUME redis_cache \in BOOLEAN
    PROVE  \A by \in {"manager", "gateway"} : Service!Asked(by) \in Seq(Services)
<1> DEFINE last == <<"wallet_pool", "task_scheduler", "ethereum_provider">>
           cache == IF redis_cache THEN <<"redis">> ELSE << >>
<1>1. <<"database">> \in Seq(Services) /\ last \in Seq(Services) /\ cache \in Seq(Services)
      /\ <<"database", "wallet_pool", "ethereum_provider">> \in Seq(Services)
  <2>1. \A a, b, c \in Services : <<a>> \in Seq(Services) /\ <<a, b, c>> \in Seq(Services)
    OBVIOUS
  <2>2. {"database", "redis", "ethereum_provider", "wallet_pool", "task_scheduler"} \subseteq Services
    BY DEF Services, Service!Remote
  <2>3. << >> \in Seq(Services)
    OBVIOUS
  <2> QED
    BY <2>1, <2>2, <2>3
<1>2. Service!Asked("manager") = <<"database">> \o cache \o last
  BY DEF Service!Asked
<1>3. \A a, b \in Seq(Services) : a \o b \in Seq(Services)
  OBVIOUS
<1> HIDE DEF last, cache
<1>4. Service!Asked("manager") \in Seq(Services)
  <2>1. <<"database">> \o cache \in Seq(Services)
    BY <1>1, <1>3
  <2> QED
    BY <1>1, <1>2, <1>3, <2>1
<1>5. Service!Asked("gateway") \in Seq(Services)
  BY <1>1 DEF Service!Asked
<1> QED
  BY <1>4, <1>5

LEMMA RestOfList ==
    ASSUME NEW s \in Seq(Services), s # << >>
    PROVE  /\ Tail(s) \in Seq(Services) /\ Head(s) \in Services
           /\ Service!ToSet(s) = {Head(s)} \cup Service!ToSet(Tail(s))
<1>1. /\ Tail(s) \in Seq(Services) /\ Head(s) \in Services
      /\ Len(s) \in Nat \ {0} /\ Len(Tail(s)) = Len(s) - 1
      /\ Head(s) = s[1]
      /\ \A i \in 1 .. Len(s) - 1 : Tail(s)[i] = s[i + 1]
  OBVIOUS
<1>2. DOMAIN s = 1 .. Len(s) /\ DOMAIN Tail(s) = 1 .. Len(s) - 1
  BY <1>1
<1>3. ASSUME NEW i \in 1 .. Len(s), i # 1 PROVE s[i] = Tail(s)[i - 1] /\ i - 1 \in 1 .. Len(s) - 1
  BY <1>1, <1>3
<1>4. 1 \in 1 .. Len(s)
  BY <1>1
<1>5. Service!ToSet(s) \subseteq {Head(s)} \cup Service!ToSet(Tail(s))
  <2>1. ASSUME NEW i \in 1 .. Len(s) PROVE s[i] \in {Head(s)} \cup Service!ToSet(Tail(s))
    BY <1>1, <1>2, <1>3 DEF Service!ToSet
  <2> QED
    BY <1>2, <2>1 DEF Service!ToSet
<1>6. {Head(s)} \cup Service!ToSet(Tail(s)) \subseteq Service!ToSet(s)
  BY <1>1, <1>2, <1>4 DEF Service!ToSet
<1> QED
  BY <1>1, <1>5, <1>6

LEMMA ServiceStarts == SupportAssumption /\ Service!Init => ServiceInv
BY DEF Service!Init, ServiceInv, ServiceTypes, WalletsOfKeys, Reports

\* Whatever changes of the world in the middle of a report is taken down in it.
LEMMA WorldChanges ==
    ASSUME SupportAssumption, ServiceInv, NEW remote \in SUBSET Service!Remote, NEW unhealthy,
           NEW at, at = phase \/ (phase = "running" /\ at = "shut"),
           Service!Changed(remote, unhealthy, at)
    PROVE  ServiceInv'
<1> USE DEF Service!Changed
<1>0. ServiceTypes /\ WalletsOfKeys
  BY DEF ServiceInv
<1> DEFINE serving == Service!Serving(remote, unhealthy, at)
<1>1. serving \subseteq Services
  BY DEF Service!Serving, Services
<1>2. Serves' = serving
  BY DEF Serves, Service!Serving
<1>3. CASE report = Service!NoReport
  BY <1>0, <1>3 DEF ServiceInv, ServiceTypes, WalletsOfKeys, Service!NoReport
<1>4. CASE report # Service!NoReport
  <2>1. report \in [by : {"manager", "gateway"}, todo : Seq(Services),
                    overall_status : {"healthy", "degraded", "unhealthy"},
                    served : SUBSET Services, failed : SUBSET Services]
        /\ report.by # "nobody"
    BY <1>0, <1>4 DEF ServiceTypes, Reports
  <2>2. ReportIsTrue(report) /\ phase \in {"running", "shut"}
    BY <1>4 DEF ServiceInv
  <2>3. Service!ToSet(Service!Asked(report.by)) \subseteq Services
    BY <1>0, <2>1, AskedTypes DEF ServiceTypes, Service!ToSet
  <2>4. report' = [report EXCEPT !.served = @ \cup serving,
                                 !.failed = @ \cup (Service!ToSet(Service!Asked(report.by)) \ serving)]
    BY <2>1
  <2> DEFINE mid == [report EXCEPT !.served = @ \cup serving]
             more == Service!ToSet(Service!Asked(report.by)) \ serving
  <2>a. report' = [mid EXCEPT !.failed = report.failed \cup more]
    BY <2>1, <2>4
  <2>b. more \subseteq Services
    BY <2>3
  <2> HIDE DEF serving
  <2>c. /\ mid \in [by : {"manager", "gateway"}, todo : Seq(Services),
                   overall_status : {"healthy", "degraded", "unhealthy"},
                   served : SUBSET Services, failed : SUBSET Services]
        /\ mid.by = report.by /\ mid.todo = report.todo
        /\ mid.overall_status = report.overall_status
        /\ mid.served = report.served \cup serving
    BY <1>1, <2>1
  <2> HIDE DEF mid, more
  <2>d. /\ report' \in [by : {"manager", "gateway"}, todo : Seq(Services),
                       overall_status : {"healthy", "degraded", "unhealthy"},
                       served : SUBSET Services, failed : SUBSET Services]
        /\ report'.by = mid.by /\ report'.todo = mid.todo
        /\ report'.overall_status = mid.overall_status
        /\ report'.served = mid.served
        /\ report'.failed = report.failed \cup more
    BY <2>1, <2>a, <2>b, <2>c
  <2>5. /\ report'.by = report.by /\ report'.todo = report.todo
        /\ report'.overall_status = report.overall_status
        /\ report'.served = report.served \cup serving
        /\ report'.failed = report.failed \cup (AskedBy(report) \ serving)
        /\ report' \in Reports
    BY <2>c, <2>d DEF Reports, AskedBy, more
  <2>6. AskedBy(report)' = AskedBy(report) /\ ToAsk(report)' = ToAsk(report)
    <3>1. redis_cache' = redis_cache
      OBVIOUS
    <3> QED
      BY <2>5, <3>1 DEF AskedBy, ToAsk, Service!Asked
  <2>7. service_config' = service_config /\ phase' \in {"running", "shut"}
    BY <2>2
  <2>8. service_config.queue.worker_threads > 0 => "task_scheduler" \in serving
    BY DEF serving, Service!Serving
  <2>9. ReportIsTrue(report)'
    BY <1>2, <2>2, <2>5, <2>6, <2>7, <2>8 DEF ReportIsTrue
  <2>10. ServiceTypes' /\ WalletsOfKeys'
    BY <1>0, <2>2, <2>5 DEF ServiceTypes, WalletsOfKeys
  <2> QED
    BY <2>7, <2>9, <2>10 DEF ServiceInv
<1> QED
  BY <1>3, <1>4

LEMMA BeginKeeps ==
    ASSUME SupportAssumption, ServiceInv, NEW by \in {"manager", "gateway"}, Service!Begin(by)
    PROVE  ServiceInv'
<1> USE DEF Service!Begin
<1>0. ServiceTypes /\ WalletsOfKeys
  BY DEF ServiceInv
<1>1. /\ report' = [by |-> by, todo |-> Service!Asked(by), overall_status |-> "healthy",
                    served |-> Serves, failed |-> Service!ToSet(Service!Asked(by)) \ Serves]
      /\ UNCHANGED <<service_config, phase, loaded, redis_cache, up, ailing>>
      /\ phase \in {"running", "shut"}
  BY DEF Serves
<1>2. Service!Asked(by) \in Seq(Services)
  BY <1>0, AskedTypes DEF ServiceTypes
<1>3. Serves \subseteq Services /\ Serves' = Serves
  BY <1>0, <1>1 DEF Serves, Service!Serving, Services, ServiceTypes
<1>4. report' \in Reports
  BY <1>1, <1>2, <1>3 DEF Reports, Service!ToSet
<1>5. AskedBy(report)' = Service!ToSet(Service!Asked(by))
      /\ ToAsk(report)' = Service!ToSet(Service!Asked(by))
  BY <1>1 DEF AskedBy, ToAsk, Service!Asked
<1>6. service_config.queue.worker_threads > 0 => "task_scheduler" \in Serves
  BY DEF Serves, Service!Serving
<1>7. ReportIsTrue(report)'
  BY <1>1, <1>3, <1>5, <1>6 DEF ReportIsTrue
<1> QED
  BY <1>0, <1>1, <1>4, <1>7 DEF ServiceInv, ServiceTypes, WalletsOfKeys

LEMMA AskKeeps ==
    ASSUME SupportAssumption, ServiceInv, Service!Ask
    PROVE  ServiceInv'
<1> USE DEF Service!Ask
<1>0. ServiceTypes /\ WalletsOfKeys
  BY DEF ServiceInv
<1> DEFINE service == Head(report.todo)
           word == IF service \in Serves THEN report.overall_status
                   ELSE Service!Blame(report.by, service)
<1>1. report \in [by : {"manager", "gateway"}, todo : Seq(Services),
                  overall_status : {"healthy", "degraded", "unhealthy"},
                  served : SUBSET Services, failed : SUBSET Services]
      /\ report # Service!NoReport
  BY <1>0 DEF ServiceTypes, Reports, Service!NoReport
<1>2. ReportIsTrue(report) /\ phase \in {"running", "shut"}
  BY <1>1 DEF ServiceInv
<1>3. /\ Tail(report.todo) \in Seq(Services) /\ service \in Services
      /\ ToAsk(report) = {service} \cup Service!ToSet(Tail(report.todo))
  BY <1>1, RestOfList DEF ToAsk
<1>4. report' = [report EXCEPT !.todo = Tail(@), !.overall_status = word]
  BY <1>1 DEF Serves
<1>5. word \in {"healthy", "degraded", "unhealthy"}
  BY <1>1 DEF Service!Blame
<1>6. /\ report'.by = report.by /\ report'.todo = Tail(report.todo)
      /\ report'.overall_status = word
      /\ report'.served = report.served /\ report'.failed = report.failed
      /\ report' \in Reports
  BY <1>1, <1>3, <1>4, <1>5 DEF Reports
<1>7. UNCHANGED <<service_config, phase, loaded, redis_cache, up, ailing>>
  OBVIOUS
<1>8. /\ AskedBy(report)' = AskedBy(report) /\ Serves' = Serves
      /\ ToAsk(report)' = Service!ToSet(Tail(report.todo))
  BY <1>6, <1>7 DEF AskedBy, ToAsk, Service!Asked, Serves, Service!Serving
<1>9. ReportIsTrue(report)'
  <2>1. CASE service \in Serves
    BY <1>2, <1>3, <1>6, <1>7, <1>8, <2>1 DEF ReportIsTrue
  <2>2. CASE service \notin Serves
    <3>1. service \in report.failed
      BY <1>2, <1>3, <2>2 DEF ReportIsTrue
    <3>2. word = IF report.by = "gateway" /\ service = "database" THEN "unhealthy" ELSE "degraded"
      BY <2>2 DEF Service!Blame
    <3> QED
      BY <1>2, <1>3, <1>6, <1>7, <1>8, <3>1, <3>2 DEF ReportIsTrue
  <2> QED
    BY <2>1, <2>2
<1> QED
  BY <1>0, <1>2, <1>6, <1>7, <1>9 DEF ServiceInv, ServiceTypes, WalletsOfKeys

\* ServiceManager::new, and what neither touches a report nor what it asks.
LEMMA OpenKeeps ==
    ASSUME SupportAssumption, ServiceInv,
           \/ Service!OpenDatabase \/ Service!OpenRedis \/ Service!LoadWallets
           \/ Service!OpenProvider \/ Service!StartBackgroundTasks \/ Service!Answer
           \/ UNCHANGED serviceVars
    PROVE  ServiceInv'
<1>0. ServiceTypes /\ WalletsOfKeys
  BY DEF ServiceInv
<1>1. ASSUME phase \in {"database", "redis", "wallets", "provider"},
             report' = report,
             service_config' = service_config /\ up' = up,
             redis_cache' \in BOOLEAN,
             phase' \in {"redis", "wallets", "provider", "running", "refused"},
             phase' \in {"provider", "running"} =>
                loaded' = Service!Loaded(service_config.wallets.private_keys)
      PROVE  ServiceInv'
  <2>1. report = Service!NoReport
    BY <1>1 DEF ServiceInv
  <2>2. ServiceTypes'
    BY <1>0, <1>1 DEF ServiceTypes
  <2>3. WalletsOfKeys'
    BY <1>1 DEF WalletsOfKeys
  <2> QED
    BY <1>1, <2>1, <2>2, <2>3 DEF ServiceInv
<1>2. CASE Service!OpenDatabase
  BY <1>0, <1>1, <1>2 DEF Service!OpenDatabase, Service!World, ServiceTypes
<1>3. CASE Service!OpenRedis
  BY <1>0, <1>1, <1>3 DEF Service!OpenRedis, Service!World, ServiceTypes
<1>4. CASE Service!LoadWallets
  <2> HIDE DEF Service!Loaded
  <2> QED
    BY <1>0, <1>1, <1>4 DEF Service!LoadWallets, Service!World, ServiceTypes
<1>5. CASE Service!OpenProvider
  <2>1. loaded' = Service!Loaded(service_config.wallets.private_keys)
    BY <1>0, <1>5 DEF Service!OpenProvider, WalletsOfKeys
  <2> QED
    BY <1>0, <1>1, <1>5, <2>1 DEF Service!OpenProvider, Service!World, ServiceTypes
<1>6. ASSUME UNCHANGED <<service_config, phase, loaded, redis_cache, up, ailing, report>>
      PROVE  ServiceInv'
  BY <1>0, <1>6 DEF ServiceInv, ServiceTypes, WalletsOfKeys, ReportIsTrue, Serves, AskedBy,
                    ToAsk, Service!Serving, Service!Asked
<1>7. CASE Service!StartBackgroundTasks
  BY <1>6, <1>7 DEF Service!StartBackgroundTasks, Service!World
<1>8. CASE UNCHANGED serviceVars
  BY <1>6, <1>8 DEF serviceVars
<1>9. CASE Service!Answer
  BY <1>0, <1>9 DEF Service!Answer, ServiceInv, ServiceTypes, WalletsOfKeys, Reports
<1> QED
  BY <1>2, <1>3, <1>4, <1>5, <1>7, <1>8, <1>9

LEMMA ServiceSteps ==
    ASSUME SupportAssumption, ServiceInv, [Next]_vars
    PROVE  ServiceInv'
<1>0. ServiceTypes
  BY DEF ServiceInv
<1>1. Service!Next \/ UNCHANGED serviceVars
  BY DEF Next, vars
<1>2. CASE Service!Shutdown
  BY <1>0, <1>2, WorldChanges DEF Service!Shutdown, ServiceTypes
<1>3. ASSUME NEW s \in Service!Remote, Service!Flip(s) PROVE ServiceInv'
  <2> DEFINE remote == IF s \in up THEN up \ {s} ELSE up \cup {s}
  <2>1. remote \in SUBSET Service!Remote
    BY <1>0 DEF ServiceTypes
  <2>2. Service!Changed(remote, ailing, phase)
    BY <1>3 DEF Service!Flip
  <2> HIDE DEF remote
  <2> QED
    BY <2>1, <2>2, WorldChanges
<1>4. CASE Service!Ail
  BY <1>0, <1>4, WorldChanges DEF Service!Ail, ServiceTypes
<1> QED
  BY <1>1, <1>2, <1>3, <1>4, OpenKeeps, BeginKeeps, AskKeeps DEF Service!Next

\* A configuration that Config::validate accepts.
LEMMA AcceptedConfig ==
    ASSUME SupportAssumption, NEW c \in ServiceConfigs, Service!Validate(c) = {}
    PROVE  c.queue.worker_threads > 0 /\ c.wallets.private_keys # << >>
<1>0. c.queue.worker_threads \in Nat
  BY ConfigTypes
<1>1. {"queue_worker_threads", "wallets_private_keys"} \subseteq DOMAIN Service!Broken(c)
      /\ Service!Broken(c).queue_worker_threads = (c.queue.worker_threads = 0)
      /\ Service!Broken(c).wallets_private_keys = (c.wallets.private_keys = << >>)
  BY DEF Service!Broken
<1>2. ~ Service!Broken(c).queue_worker_threads /\ ~ Service!Broken(c).wallets_private_keys
  BY <1>1 DEF Service!Validate
<1>3. c.queue.worker_threads # 0 /\ c.wallets.private_keys # << >>
  BY <1>1, <1>2
<1> QED
  BY <1>0, <1>3

\* What a health report says, once it is put together from answers of different
\* moments, is true of the services it asked, at some moment since it began: healthy
\* only if each has served, worse only if one has failed, unhealthy only for the
\* database (ServiceManager::health_check, and GET /health).
THEOREM ReportsAreTruthful == Spec => []ReportTruthful
<1>1. Init => ServiceInv
  BY SupportAssumption, ServiceStarts DEF Init
<1>2. ServiceInv /\ [Next]_vars => ServiceInv'
  BY SupportAssumption, ServiceSteps
<1>3. ServiceInv => ReportTruthful
  <2> SUFFICES ASSUME ServiceInv, report # Service!NoReport, report.todo = << >>
               PROVE  Service!ReportTruthful
    BY DEF ReportTruthful, Service!ReportTruthful
  <2>0. ServiceTypes /\ WalletsOfKeys /\ ReportIsTrue(report) /\ phase \in {"running", "shut"}
    BY DEF ServiceInv
  <2>1. report \in [by : {"manager", "gateway"}, todo : Seq(Services),
                    overall_status : {"healthy", "degraded", "unhealthy"},
                    served : SUBSET Services, failed : SUBSET Services]
    BY <2>0 DEF ServiceTypes, Reports
  <2>2. ToAsk(report) = {}
    BY DEF ToAsk, Service!ToSet
  <2>3. /\ report.overall_status = "healthy" => AskedBy(report) \subseteq report.served
        /\ report.overall_status # "healthy" => report.failed # {}
        /\ report.overall_status = "unhealthy" => "database" \in report.failed
    BY <2>0, <2>2 DEF ReportIsTrue
  <2>4. ASSUME report.by = "gateway", "database" \notin report.served
        PROVE  report.overall_status = "unhealthy" \/ report.failed # {"database"}
    <3>1. Service!Asked(report.by) = <<"database", "wallet_pool", "ethereum_provider">>
      BY <2>4 DEF Service!Asked
    <3>2. "database" \in AskedBy(report)
      BY <3>1 DEF AskedBy, Service!ToSet
    <3> QED
      BY <2>0, <2>2, <2>4, <3>2 DEF ReportIsTrue
  <2>5. ASSUME Service!Validate(service_config) = {}
        PROVE  /\ "task_scheduler" \notin report.failed
               /\ DOMAIN loaded = {} =>
                    Service!ToSet(service_config.wallets.private_keys) = {Service!Short}
    <3> DEFINE keys == service_config.wallets.private_keys
    <3>0. service_config \in ServiceConfigs
      BY <2>0 DEF ServiceTypes
    <3>1. service_config.queue.worker_threads > 0 /\ keys # << >> /\ keys \in Seq(STRING)
      <4>1. service_config.queue.worker_threads > 0 /\ keys # << >>
        BY <3>0, <2>5, SupportAssumption, AcceptedConfig
      <4>2. keys \in Seq(STRING)
        BY <3>0, SupportAssumption, ConfigTypes
      <4> QED
        BY <4>1, <4>2
    <3>2. loaded = Service!Loaded(keys)
      BY <2>0 DEF WalletsOfKeys
    <3> HIDE DEF keys
    <3>3. DOMAIN keys # {}
      <4>1. Len(keys) \in Nat /\ Len(keys) # 0 /\ DOMAIN keys = 1 .. Len(keys)
        BY <3>1
      <4>2. 1 \in 1 .. Len(keys)
        BY <4>1
      <4> QED
        BY <4>1, <4>2
    <3>4. DOMAIN loaded = {} => Service!ToSet(keys) = {Service!Short}
      BY <3>2, <3>3 DEF Service!Loaded, Service!ToSet
    <3> QED
      BY <2>0, <3>1, <3>4 DEF ReportIsTrue, keys
  <2> QED
    BY <2>3, <2>4, <2>5 DEF Service!ReportTruthful, AskedBy
<1> QED
  BY <1>1, <1>2, <1>3, PTL DEF Spec

-----------------------------------------------------------------------------
\* The types of all the components.  The invariants above have those of the breaker,
\* the balance checker and the monitor; for the others there is a little to add, and a
\* lemma that says so.

\* The history's limit, and what the default price and the fetched ones have.
GasTypes ==
    /\ current \in [max_fee : Nat, priority_fee : Nat, block : 0 .. MaxBlock]
    /\ history \in Seq(Nat) /\ Len(history) <= MaxHistory
    /\ fetching \in BOOLEAN

LEMMA GasHasTypes == SupportAssumption /\ Gas!Init => GasTypes
<1> SUFFICES ASSUME SupportAssumption, Gas!Init PROVE GasTypes
  OBVIOUS
<1>1. MaxHistory \in Nat /\ MaxBlock \in Nat
  BY DEF SupportAssumption, Gas!GasAssumption
<1>2. fetching \in BOOLEAN
  BY DEF Gas!Init
<1> QED
  BY <1>1, <1>2 DEF Gas!Init, Gas!Fees, Gas!PriorityFee, GasTypes

LEMMA GasKeepsTypes ==
    ASSUME SupportAssumption, GasInv, GasTypes, [Gas!Next]_gasVars
    PROVE  GasTypes'
<1>1. /\ MaxHistory \in Nat \ {0} /\ MaxBlock \in Nat
      /\ config \in Configs /\ config.multiplier \in Nat
  BY DEF SupportAssumption, Gas!GasAssumption, GasInv
<1>2. ASSUME NEW block \in current.block .. MaxBlock, NEW base_fee \in BaseFees,
             Gas!FetchCurrent(block, base_fee)
      PROVE  GasTypes'
  <2> DEFINE asked == Gas!Times(base_fee + Gas!PriorityFee, config.multiplier)
  <2>1. asked \in Nat /\ Gas!PriorityFee \in Nat
    <3> DEFINE sum == base_fee + Gas!PriorityFee
    <3>1. sum \in Nat /\ Gas!PriorityFee \in Nat
      BY DEF SupportAssumption, Gas!GasAssumption, Gas!PriorityFee
    <3> HIDE DEF sum
    <3>2. Gas!Times(sum, config.multiplier) \in Nat
      BY <1>1, <3>1, TimesGrows
    <3> QED
      BY <3>1, <3>2 DEF sum
  <2>2. current' = Gas!Fees(Gas!Clamp(asked), Gas!AtLeast(Gas!PriorityFee), block)
        /\ history' = history
    BY <1>2 DEF Gas!FetchCurrent
  <2> HIDE DEF asked
  <2>3. Gas!Clamp(asked) \in Nat /\ Gas!AtLeast(Gas!PriorityFee) \in Nat
    <3>1. config.min \in Nat /\ config.max \in Nat
      BY <1>1, <2>1, Clamping
    <3>2. Gas!Clamp(asked) = IF asked < config.min THEN config.min
                             ELSE IF asked < config.max THEN asked ELSE config.max
      BY <1>1, <2>1, Clamping
    <3>3. Gas!AtLeast(Gas!PriorityFee)
            = IF Gas!PriorityFee < config.min THEN config.min ELSE Gas!PriorityFee
      BY <1>1, <2>1, Clamping
    <3> QED
      BY <2>1, <3>1, <3>2, <3>3
  <2>4. block \in 0 .. MaxBlock
    BY <1>1 DEF GasTypes
  <2>5. current' \in [max_fee : Nat, priority_fee : Nat, block : 0 .. MaxBlock]
    BY <2>2, <2>3, <2>4 DEF Gas!Fees
  <2>6. fetching' \in BOOLEAN
    BY <1>2 DEF Gas!FetchCurrent
  <2> QED
    BY <2>2, <2>5, <2>6 DEF GasTypes
<1>3. CASE Gas!FetchHistory
  <2> DEFINE longer == Append(history, current.max_fee)
  <2>1. /\ history' = IF Len(longer) > MaxHistory THEN Tail(longer) ELSE longer
        /\ current' = current
    BY <1>3 DEF Gas!FetchHistory, Gas!Recent
  <2>2. longer \in Seq(Nat) /\ Len(longer) = Len(history) + 1 /\ Len(history) \in Nat
    BY DEF GasTypes
  <2> HIDE DEF longer
  <2>3. longer # << >> => Tail(longer) \in Seq(Nat) /\ Len(Tail(longer)) = Len(longer) - 1
    BY <2>2
  <2>4. history' \in Seq(Nat) /\ Len(history') <= MaxHistory
    BY <1>1, <2>1, <2>2, <2>3 DEF GasTypes
  <2>5. fetching' \in BOOLEAN
    BY <1>3 DEF Gas!FetchHistory
  <2> QED
    BY <2>1, <2>4, <2>5 DEF GasTypes
<1>4. CASE UNCHANGED gasVars
  BY <1>4 DEF gasVars, GasTypes
<1> QED
  BY <1>2, <1>3, <1>4 DEF Gas!Next

\* A task is completed once at most, and every call counts towards the bound.
PriorityTypes ==
    /\ changes \in Nat /\ changes <= MaxChanges
    /\ priority_history \in [Priority!Priorities -> [total : Nat, completed : Nat, time : Nat]]
    /\ \A p \in Priority!Priorities :
        /\ priority_history[p].completed <= priority_history[p].total
        /\ priority_history[p].total <= changes

LEMMA PriorityHasTypes == SupportAssumption /\ Priority!Init => PriorityTypes
BY DEF SupportAssumption, Priority!PriorityAssumption, Priority!Init, PriorityTypes

LEMMA PriorityKeepsTypes ==
    ASSUME SupportAssumption, PriorityTypes, [Priority!Next]_priorityVars
    PROVE  PriorityTypes'
<1>1. MaxChanges \in Nat /\ CompletionTimes \subseteq Nat
  BY DEF SupportAssumption, Priority!PriorityAssumption
<1>2. ASSUME Priority!Change, UNCHANGED priority_history PROVE PriorityTypes'
  BY <1>1, <1>2 DEF Priority!Change, PriorityTypes
<1>3. ASSUME NEW p \in Priority!Priorities, NEW time \in CompletionTimes,
             NEW success \in BOOLEAN, Priority!UpdateHistory(p, time, success)
      PROVE  PriorityTypes'
  <2> DEFINE h == priority_history[p]
             one == IF success THEN 1 ELSE 0
             entry == [total |-> h.total + 1, completed |-> h.completed + one,
                       time |-> h.time + time]
  <2>1. one \in {0, 1} /\ time \in Nat
    BY <1>1
  <2>2. /\ priority_history' = [priority_history EXCEPT ![p] = entry]
        /\ changes' = changes + 1 /\ changes < MaxChanges
    BY <1>3 DEF Priority!UpdateHistory, Priority!Change
  <2>3. /\ h \in [total : Nat, completed : Nat, time : Nat]
        /\ h.completed <= h.total /\ h.total <= changes /\ changes \in Nat
    BY DEF PriorityTypes
  <2> HIDE DEF h, one
  <2>4. /\ entry \in [total : Nat, completed : Nat, time : Nat]
        /\ entry.completed <= entry.total /\ entry.total <= changes'
    BY <2>1, <2>2, <2>3
  <2> HIDE DEF entry
  <2>5. ASSUME NEW q \in Priority!Priorities
        PROVE  /\ priority_history'[q].completed <= priority_history'[q].total
               /\ priority_history'[q].total <= changes'
    <3>1. priority_history[q] \in [total : Nat, completed : Nat, time : Nat]
          /\ priority_history[q].completed <= priority_history[q].total
          /\ priority_history[q].total <= changes
      BY DEF PriorityTypes
    <3>2. priority_history'[q] = IF q = p THEN entry ELSE priority_history[q]
      BY <2>2 DEF PriorityTypes
    <3> QED
      BY <2>2, <2>3, <2>4, <3>1, <3>2
  <2>6. priority_history' \in [Priority!Priorities -> [total : Nat, completed : Nat, time : Nat]]
    BY <2>2, <2>4 DEF PriorityTypes
  <2> QED
    BY <1>1, <2>2, <2>3, <2>5, <2>6 DEF PriorityTypes
<1>4. CASE UNCHANGED priorityVars
  BY <1>4 DEF priorityVars, PriorityTypes
<1> QED
  BY <1>2, <1>3, <1>4 DEF Priority!Next, Priority!SetWeight, Priority!SetMultiplier,
     Priority!Adjust, Priority!Reset

LEMMA PriorityTyped ==
    ASSUME SupportAssumption, PriorityInv, PriorityTypes
    PROVE  Priority!TypeOK
<1>1. MaxChanges \in Nat
  BY DEF SupportAssumption, Priority!PriorityAssumption
<1>2. ASSUME NEW p \in Priority!Priorities
      PROVE  /\ priority_history[p] \in [total : 0 .. MaxChanges, completed : 0 .. MaxChanges, time : Nat]
             /\ priority_history[p].completed <= priority_history[p].total
  BY <1>1 DEF PriorityTypes
<1> QED
  BY <1>1, <1>2 DEF Priority!TypeOK, PriorityInv, PriorityTypes

\* Every counter is at most the number of requests, and what a reading overlaps with too.
LEMMA GatewayTyped ==
    ASSUME SupportAssumption, GatewayInv
    PROVE  Gateway!TypeOK
<1>1. MaxRequests \in Nat /\ GatewayTypes /\ RequestsAgree /\ MetricsBounded
  BY HandlersAreFinite DEF GatewayInv
<1>2. \A n \in Gateway!Counters : counters[n] <= MaxRequests
  <2> SUFFICES ASSUME NEW n \in Gateway!Counters PROVE counters[n] <= MaxRequests
    OBVIOUS
  <2>1. Total(n) \in Nat /\ counters[n] <= Total(n) /\ Total(n) <= MaxRequests
    BY <1>1, TotalsBounded
  <2> HIDE DEF Total
  <2> QED
    BY <1>1, <2>1 DEF GatewayTypes
<1>3. counters \in [Gateway!Counters -> 0 .. MaxRequests]
  BY <1>1, <1>2 DEF GatewayTypes
<1>4. metrics \in [Gateway!Counters -> 0 .. MaxRequests]
  BY <1>1 DEF GatewayTypes, MetricsBounded
<1>5. overlap \in 0 .. 2 * MaxRequests
  <2>1. Total("total_requests") \in Nat /\ Total("total_requests") <= MaxRequests
    BY <1>1, TotalsBounded DEF Gateway!Counters
  <2> HIDE DEF Total
  <2> QED
    BY <1>1, <2>1 DEF GatewayTypes, RequestsAgree
<1> QED
  BY <1>1, <1>3, <1>4, <1>5 DEF Gateway!TypeOK, GatewayTypes

\* Only usable keys are loaded; only what a report asks has failed it, and that stays
\* the same as long as there is a report.
ServiceBounds ==
    /\ \A i \in DOMAIN loaded : loaded[i] \in Usable
    /\ ailing \in BOOLEAN
    /\ loops \in 0 .. MaxStarts
    /\ flips \in 0 .. MaxFlips
    /\ report # Service!NoReport => report.failed \subseteq AskedBy(report)

LEMMA ServiceHasBounds == SupportAssumption /\ Service!Init => ServiceBounds
<1> SUFFICES ASSUME SupportAssumption, Service!Init PROVE ServiceBounds
  OBVIOUS
<1>1. MaxFlips \in Nat /\ MaxStarts \in Nat
  BY DEF SupportAssumption, Service!ServiceAssumption
<1>2. ailing \in BOOLEAN
  BY DEF Service!Init
<1>3. DOMAIN loaded = {} /\ loops = 0 /\ flips = 0 /\ report = Service!NoReport
  BY DEF Service!Init, Service!NoWallets
<1> QED
  BY <1>1, <1>2, <1>3 DEF ServiceBounds

LEMMA ServiceKeepsBounds ==
    ASSUME SupportAssumption, ServiceInv, ServiceBounds, [Service!Next]_serviceVars
    PROVE  ServiceBounds'
<1>1. MaxFlips \in Nat /\ MaxStarts \in Nat /\ ServiceTypes
  BY DEF SupportAssumption, Service!ServiceAssumption, ServiceInv
<1>2. report # Service!NoReport =>
        /\ phase \in {"running", "shut"}
        /\ report \in [by : {"manager", "gateway"}, todo : Seq(Services),
                       overall_status : {"healthy", "degraded", "unhealthy"},
                       served : SUBSET Services, failed : SUBSET Services]
        /\ report.by # "nobody"
  BY <1>1 DEF ServiceInv, ServiceTypes, Reports, Service!NoReport
<1>3. ASSUME UNCHANGED <<report, redis_cache>>
      PROVE  report' # Service!NoReport => report'.failed \subseteq AskedBy(report)'
  BY <1>3 DEF ServiceBounds, AskedBy, Service!Asked
<1>4. ailing \in BOOLEAN
  BY DEF ServiceBounds
\* ServiceManager::new and start_background_tasks
<1>5. CASE Service!OpenDatabase
  BY <1>3, <1>4, <1>5 DEF Service!OpenDatabase, Service!World, ServiceBounds
<1>6. CASE Service!OpenRedis
  <2>1. report = Service!NoReport /\ report' = report
    BY <1>2, <1>6 DEF Service!OpenRedis, Service!World
  <2> QED
    BY <1>4, <1>6, <2>1 DEF Service!OpenRedis, Service!World, ServiceBounds
<1>7. CASE Service!LoadWallets
  <2> DEFINE keys == service_config.wallets.private_keys
  <2>1. UNCHANGED <<redis_cache, loops, ailing, report, flips>>
    BY <1>7 DEF Service!LoadWallets, Service!World
  <2>2. \A i \in DOMAIN loaded' : loaded'[i] \in Usable
    <3>1. CASE Service!ToSet(keys) \subseteq Usable \cup {Service!Short}
      <4>1. loaded' = [i \in {j \in DOMAIN keys : keys[j] # Service!Short} |-> keys[i]]
        BY <1>7, <3>1 DEF Service!LoadWallets, Service!Loaded
      <4>2. keys \in Seq(STRING)
        BY <1>1, ConfigTypes DEF ServiceTypes
      <4> HIDE DEF keys
      <4>3. \A i \in DOMAIN keys : keys[i] \in Usable \cup {Service!Short}
        BY <3>1, <4>2 DEF Service!ToSet
      <4> QED
        BY <4>1, <4>3
    <3>2. CASE ~ (Service!ToSet(keys) \subseteq Usable \cup {Service!Short})
      BY <1>7, <3>2 DEF Service!LoadWallets, ServiceBounds
    <3> QED
      BY <3>1, <3>2
  <2> QED
    BY <1>3, <1>4, <2>1, <2>2 DEF ServiceBounds
<1>8. CASE Service!OpenProvider
  BY <1>3, <1>4, <1>8 DEF Service!OpenProvider, Service!World, ServiceBounds
<1>9. CASE Service!StartBackgroundTasks
  BY <1>1, <1>3, <1>4, <1>9 DEF Service!StartBackgroundTasks, Service!World, ServiceBounds
\* The reports
<1>10. ASSUME NEW by, Service!Begin(by) PROVE ServiceBounds'
  <2>1. /\ report'.by = by /\ report'.failed \subseteq Service!ToSet(Service!Asked(by))
        /\ redis_cache' = redis_cache
    BY <1>10 DEF Service!Begin
  <2>2. AskedBy(report)' = Service!ToSet(Service!Asked(by))
    BY <2>1 DEF AskedBy, Service!Asked
  <2> QED
    BY <1>4, <1>10, <2>1, <2>2 DEF Service!Begin, ServiceBounds
<1>11. CASE Service!Ask
  <2>1. UNCHANGED <<loaded, redis_cache, loops, ailing, flips>> /\ report # Service!NoReport
    BY <1>11 DEF Service!Ask, Service!NoReport
  <2>2. report'.by = report.by /\ report'.failed = report.failed
    BY <1>2, <1>11, <2>1 DEF Service!Ask
  <2>3. AskedBy(report)' = AskedBy(report)
    BY <2>1, <2>2 DEF AskedBy, Service!Asked
  <2> QED
    BY <1>4, <2>1, <2>2, <2>3 DEF ServiceBounds
<1>12. CASE Service!Answer
  BY <1>4, <1>12 DEF Service!Answer, ServiceBounds
\* The world
<1>13. ASSUME NEW remote, NEW unhealthy \in BOOLEAN, NEW at,
              Service!Changed(remote, unhealthy, at), flips' \in 0 .. MaxFlips
       PROVE  ServiceBounds'
  <2>1. UNCHANGED <<loaded, redis_cache, loops>> /\ ailing' \in BOOLEAN
    BY <1>13 DEF Service!Changed
  <2>2. CASE report.by = "nobody" \/ report = Service!NoReport
    <3>1. report' = report
      BY <1>13, <2>2 DEF Service!Changed, Service!NoReport
    <3> QED
      BY <1>3, <1>13, <2>1, <3>1 DEF ServiceBounds
  <2>3. CASE report.by # "nobody" /\ report # Service!NoReport
    <3> DEFINE serving == Service!Serving(remote, unhealthy, at)
    <3>1. report' = [report EXCEPT !.served = @ \cup serving,
                        !.failed = @ \cup (Service!ToSet(Service!Asked(report.by)) \ serving)]
      BY <1>13, <2>3 DEF Service!Changed
    <3> HIDE DEF serving
    <3>2. report'.by = report.by
          /\ report'.failed \subseteq report.failed \cup AskedBy(report)
      BY <1>2, <2>3, <3>1 DEF AskedBy
    <3>3. AskedBy(report)' = AskedBy(report)
      BY <2>1, <3>2 DEF AskedBy, Service!Asked
    <3>4. report'.failed \subseteq AskedBy(report)'
      BY <2>3, <3>2, <3>3 DEF ServiceBounds
    <3> QED
      BY <1>13, <2>1, <3>4 DEF ServiceBounds
  <2> QED
    BY <2>2, <2>3
<1>14. flips \in 0 .. MaxFlips /\ (flips < MaxFlips => flips + 1 \in 0 .. MaxFlips)
  BY <1>1 DEF ServiceBounds
<1>15. CASE Service!Shutdown
  BY <1>4, <1>13, <1>14, <1>15 DEF Service!Shutdown
<1>16. ASSUME NEW s, Service!Flip(s) PROVE ServiceBounds'
  <2> DEFINE remote == IF s \in up THEN up \ {s} ELSE up \cup {s}
  <2>1. Service!Changed(remote, ailing, phase) /\ flips' \in 0 .. MaxFlips
    BY <1>14, <1>16 DEF Service!Flip
  <2> HIDE DEF remote
  <2> QED
    BY <1>4, <1>13, <2>1
<1>17. CASE Service!Ail
  <2>1. (~ ailing) \in BOOLEAN
    OBVIOUS
  <2>2. Service!Changed(up, ~ ailing, phase) /\ flips' \in 0 .. MaxFlips
    BY <1>14, <1>17 DEF Service!Ail
  <2> QED
    BY <1>13, <2>1, <2>2
<1>18. CASE UNCHANGED serviceVars
  BY <1>3, <1>4, <1>18 DEF serviceVars, ServiceBounds
<1> QED
  BY <1>5, <1>6, <1>7, <1>8, <1>9, <1>10, <1>11, <1>12, <1>15, <1>16, <1>17, <1>18
     DEF Service!Next

LEMMA ServiceTyped ==
    ASSUME SupportAssumption, ServiceInv, ServiceBounds
    PROVE  Service!TypeOK
<1>1. /\ ServiceTypes
      /\ report # Service!NoReport =>
            report \in [by : {"manager", "gateway"}, todo : Seq(Services),
                        overall_status : {"healthy", "degraded", "unhealthy"},
                        served : SUBSET Services, failed : SUBSET Services]
  BY DEF ServiceInv, ServiceTypes, Reports
<1> QED
  BY <1>1 DEF Service!TypeOK, ServiceTypes, ServiceBounds, AskedBy

\* Every component that works has its invariant.
SupportInv ==
    /\ focus \in {"cache", "permits", "breaker", "gas", "balance", "monitor", "rotator",
                  "gateway", "priority", "queries", "service"}
    /\ focus = "cache" => CacheInv
    /\ focus = "permits" => PermitsInv
    /\ focus = "breaker" => BreakerInv
    /\ focus = "gas" => GasInv /\ GasTypes
    /\ focus = "balance" => BalanceInv
    /\ focus = "monitor" => MonitorInv
    /\ focus = "rotator" => RotatorInv /\ RotatorBounds
    /\ focus = "gateway" => GatewayInv
    /\ focus = "priority" => PriorityInv /\ PriorityTypes
    /\ focus = "queries" => QueryInv /\ QueryBounds
    /\ focus = "service" => ServiceInv /\ ServiceBounds

LEMMA SupportStarts == Init => SupportInv
<1> USE SupportAssumption DEF Init
<1>1. Init => /\ focus = "cache" => CacheInv
              /\ focus = "permits" => PermitsInv
              /\ focus = "breaker" => BreakerInv
              /\ focus = "gas" => GasInv /\ GasTypes
              /\ focus = "balance" => BalanceInv
              /\ focus = "monitor" => MonitorInv
  BY CacheStart, PermitsStart, BreakerStarts, GasStarts, GasHasTypes, BalanceStarts,
     MonitorStarts
<1>2. Init => /\ focus = "rotator" => RotatorInv /\ RotatorBounds
              /\ focus = "gateway" => GatewayInv
              /\ focus = "priority" => PriorityInv /\ PriorityTypes
              /\ focus = "queries" => QueryInv /\ QueryBounds
              /\ focus = "service" => ServiceInv /\ ServiceBounds
  BY RotatorStart, BoundsStart, GatewayStarts, PriorityStarts, PriorityHasTypes, QueryStart,
     PagesStart, ServiceStarts, ServiceHasBounds
<1> QED
  BY <1>1, <1>2 DEF SupportInv

LEMMA SupportSteps == SupportInv /\ [Next]_vars => SupportInv'
<1> SUFFICES ASSUME SupportInv, [Next]_vars PROVE SupportInv'
  OBVIOUS
<1> USE SupportAssumption
<1>0. focus' = focus
  BY DEF Next, vars
<1>1. CASE focus = "cache"
  <2>1. CacheInv /\ [Cache!Next]_cacheVars
    BY <1>1 DEF SupportInv, Next, vars
  <2> QED
    BY <1>0, <1>1, <2>1, CacheSteps DEF SupportInv
<1>2. CASE focus = "permits"
  <2>1. PermitsInv /\ [Permits!Next]_concurrencyVars
    BY <1>2 DEF SupportInv, Next, vars
  <2> QED
    BY <1>0, <1>2, <2>1, PermitsSteps DEF SupportInv
<1>3. CASE focus = "breaker"
  <2>1. BreakerInv /\ [Breaker!Next]_breakerVars
    BY <1>3 DEF SupportInv, Next, vars
  <2> QED
    BY <1>0, <1>3, <2>1, BreakerSteps DEF SupportInv
<1>4. CASE focus = "gas"
  <2>1. GasInv /\ GasTypes /\ [Gas!Next]_gasVars
    BY <1>4 DEF SupportInv, Next, vars
  <2> QED
    BY <1>0, <1>4, <2>1, GasSteps, GasKeepsTypes DEF SupportInv
<1>5. CASE focus = "balance"
  <2>1. BalanceInv /\ [Balance!Next]_balanceVars
    BY <1>5 DEF SupportInv, Next, vars
  <2> QED
    BY <1>0, <1>5, <2>1, BalanceSteps DEF SupportInv
<1>6. CASE focus = "monitor"
  <2>1. MonitorInv /\ [Monitor!Next]_monitorVars
    BY <1>6 DEF SupportInv, Next, vars
  <2> QED
    BY <1>0, <1>6, <2>1, MonitorSteps DEF SupportInv
<1>7. CASE focus = "rotator"
  <2>1. RotatorInv /\ RotatorBounds /\ [Rotator!Next]_rotatorVars
    BY <1>7 DEF SupportInv, Next, vars
  <2> QED
    BY <1>0, <1>7, <2>1, RotatorSteps, BoundsStay DEF SupportInv
<1>8. CASE focus = "gateway"
  <2>1. GatewayInv /\ [Gateway!Next]_gatewayVars
    BY <1>8 DEF SupportInv, Next, vars
  <2> QED
    BY <1>0, <1>8, <2>1, GatewaySteps DEF SupportInv
<1>9. CASE focus = "priority"
  <2>1. PriorityInv /\ PriorityTypes /\ [Priority!Next]_priorityVars
    BY <1>9 DEF SupportInv, Next, vars
  <2> QED
    BY <1>0, <1>9, <2>1, PrioritySteps, PriorityKeepsTypes DEF SupportInv
<1>10. CASE focus = "queries"
  <2>1. QueryInv /\ QueryBounds /\ [Queries!Next]_queriesVars
    BY <1>10 DEF SupportInv, Next, vars
  <2> QED
    BY <1>0, <1>10, <2>1, QuerySteps, PagesStay DEF SupportInv
<1>11. CASE focus = "service"
  <2>1. ServiceInv /\ ServiceBounds /\ [Service!Next]_serviceVars
    BY <1>11 DEF SupportInv, Next, vars
  <2> QED
    BY <1>0, <1>11, <2>1, ServiceSteps, ServiceKeepsBounds DEF SupportInv
<1> QED
  BY <1>1, <1>2, <1>3, <1>4, <1>5, <1>6, <1>7, <1>8, <1>9, <1>10, <1>11 DEF SupportInv

LEMMA SupportTyped == SupportInv => TypeOK
<1> SUFFICES ASSUME SupportInv PROVE TypeOK
  OBVIOUS
<1> USE SupportAssumption
<1>1. /\ focus = "cache" => Cache!TypeOK
      /\ focus = "permits" => Permits!TypeOK
      /\ focus = "breaker" => Breaker!TypeOK
  BY CacheTyped, PermitsTyped DEF SupportInv, BreakerInv
<1>2. focus = "gas" => Gas!TypeOK
  BY DEF SupportInv, GasInv, GasTypes, Gas!TypeOK, Gas!FeeRecord
<1>3. focus = "balance" => Balance!TypeOK
  BY DEF SupportInv, BalanceInv
<1>4. focus = "monitor" => Monitor!TypeOK
  BY DEF SupportInv, MonitorInv
<1>5. /\ focus = "rotator" => Rotator!TypeOK
      /\ focus = "queries" => Queries!TypeOK
  BY RotatorTyped, QueriesTyped DEF SupportInv
<1>6. /\ focus = "gateway" => Gateway!TypeOK
      /\ focus = "priority" => Priority!TypeOK
      /\ focus = "service" => Service!TypeOK
  BY GatewayTyped, PriorityTyped, ServiceTyped DEF SupportInv
<1> QED
  BY <1>1, <1>2, <1>3, <1>4, <1>5, <1>6 DEF TypeOK, SupportInv

\* Every variable of the supporting components keeps its type whatever the constants
\* are: among them, the memory tier of cache/memory.rs never outgrows max_size, the
\* history of utils/gas.rs its limit, and no permit of queue/concurrency.rs is with
\* two callers at a time.
THEOREM SupportTypeCorrect == Spec => []TypeOK
<1>1. Init => SupportInv
  BY SupportStarts
<1>2. SupportInv /\ [Next]_vars => SupportInv'
  BY SupportSteps
<1>3. SupportInv => TypeOK
  BY SupportTyped
<1> QED
  BY <1>1, <1>2, <1>3, PTL DEF Spec
=============================================================================
