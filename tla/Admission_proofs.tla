-------------------------- MODULE Admission_proofs --------------------------
(***************************************************************************)
(* Proofs about Admission: what the rate limiter, the replay protection    *)
(* and the handlers promise together, for any number of handlers, users,   *)
(* nonces and requests, and for windows and limits of any size.            *)
(***************************************************************************)
EXTENDS Admission, FiniteSetTheorems, TLAPS

USE AdmissionAssumption DEF Rate!RateAssumption, Replay!ReplayAssumption

-----------------------------------------------------------------------------
\* Types

Stations == {"verify", "stamp", "replay", "wallets", "store", "schedule"}
InFlight == [at : Stations, user : Addresses, nonce : Nonces, stamp : 0 .. now]
Entry    == [user : Addresses, nonce : Nonces, timestamp : 0 .. now, at : 0 .. now]

LimiterTypes ==
    /\ requests \in [Identifiers -> SUBSET [at : 0 .. now, nth : Nat]]
    /\ admitted \in [Identifiers -> SUBSET [at : 0 .. now, nth : Nat]]
    /\ \A i \in Identifiers : IsFiniteSet(admitted[i])

ReplayTypes ==
    /\ entries \in [Addresses -> SUBSET [nonce : Nonces, timestamp : 0 .. now]]
    /\ recorded \in Seq(Entry)

HandlerTypes ==
    /\ now \in 0 .. MaxTime
    /\ handler \in [Handlers -> {Idle, Batch} \cup InFlight]
    /\ wallets \in [Wallets -> [total : Nat, failed : Nat]]
    /\ waiting \in Nat /\ arrivals \in 0 .. MaxRequests
    /\ stored \in [Addresses \X Nonces -> Nat]

Types == LimiterTypes /\ ReplayTypes /\ HandlerTypes

\* Rate names the operators of the same modules.
LEMMA SameCardinality == \A X : Rate!Cardinality(X) = Cardinality(X)
  BY DEF Rate!Cardinality, Cardinality, Rate!IsFiniteSet, IsFiniteSet

LEMMA MaxTimeIsNat == MaxTime \in Nat
  OBVIOUS

LEMMA AtOf ==
  /\ Idle.at = "idle" /\ Batch.at = "batch" /\ Idle # Batch
  /\ \A x \in InFlight : x.at \in Stations /\ x # Idle /\ x # Batch
<1>1. Idle.at = "idle" /\ Batch.at = "batch"
  BY DEF Idle, Batch
<1>2. \A x \in InFlight : x.at \in Stations
  BY DEF InFlight
<1>3. "idle" \notin Stations /\ "batch" \notin Stations
  BY DEF Stations
<1> QED BY <1>1, <1>2, <1>3

\* A handler that is at a station has a request.
LEMMA AtStation ==
  ASSUME HandlerTypes, NEW h \in Handlers, handler[h].at \in Stations
  PROVE  /\ handler[h] \in InFlight
         /\ handler[h].user \in Addresses /\ handler[h].nonce \in Nonces
         /\ handler[h].stamp \in 0 .. now
<1>1. handler[h] \in InFlight
  BY AtOf DEF HandlerTypes, Stations
<1> QED BY <1>1 DEF InFlight

\* The clock stands still or goes on by one; only Arrive and ArriveBatch call the
\* limiter, only CheckReplay and CleanUp the replay protection.
LEMMA LimiterStep ==
  ASSUME [Next]_vars
  PROVE  \/ now' = now /\ \E i \in Identifiers, allowed \in BOOLEAN :
                              Rate!CheckRateLimit(i, now, allowed)
         \/ UNCHANGED limiter /\ now' \in {now, now + 1}
<1>1. ASSUME NEW h \in Handlers, NEW i \in Identifiers,
             ArriveBatch(h, i) \/ \E a \in Addresses, n \in Nonces : Arrive(h, i, a, n)
      PROVE  now' = now /\ \E allowed \in BOOLEAN : Rate!CheckRateLimit(i, now, allowed)
  BY <1>1 DEF ArriveBatch, Arrive
<1> QED
  BY <1>1 DEF Next, Verify, Store, Schedule, ProcessSingle, ReadClock, CheckReplay, CheckWallets,
     Execute, Cancel, CleanUp, Tick, vars

LEMMA ReplayStep ==
  ASSUME HandlerTypes, [Next]_vars
  PROVE  \/ now' = now /\ \E a \in Addresses, n \in Nonces, stamp \in 0 .. now, fresh \in BOOLEAN :
                              Replay!CheckAndRecord(a, n, stamp, now, fresh)
         \/ now' = now /\ \E stamp \in 0 .. now : Replay!Cleanup(stamp)
         \/ UNCHANGED protection /\ now' \in {now, now + 1}
<1>1. ASSUME NEW h \in Handlers, CheckReplay(h)
      PROVE  now' = now /\ \E a \in Addresses, n \in Nonces, stamp \in 0 .. now, fresh \in BOOLEAN :
                              Replay!CheckAndRecord(a, n, stamp, now, fresh)
  BY <1>1, AtStation DEF CheckReplay, Stations
<1>2. CASE CleanUp
  BY <1>2 DEF CleanUp
<1> QED
  BY <1>1, <1>2 DEF Next, Arrive, ArriveBatch, Verify, Store, Schedule, ProcessSingle, ReadClock,
     CheckWallets, Execute, Cancel, Tick, vars

LEMMA ClockGrows ==
  ASSUME now \in 0 .. MaxTime, now' \in {now, now + 1}
  PROVE  0 .. now \subseteq 0 .. now'
<1>1. now \in Nat
  BY MaxTimeIsNat
<1> QED BY <1>1

\* What an allowed request adds to the limiter's state.
LEMMA LimiterTypesInductive ==
  ASSUME LimiterTypes, now \in 0 .. MaxTime, [Next]_vars
  PROVE  LimiterTypes'
<1>1. now \in Nat
  BY MaxTimeIsNat
<1>2. ASSUME NEW i \in Identifiers, NEW allowed \in BOOLEAN, now' = now,
             Rate!CheckRateLimit(i, now, allowed)
      PROVE  LimiterTypes'
  <2>1. PICK new \in SUBSET {Rate!Request(i, now)} :
           /\ requests' = [requests EXCEPT ![i] = Rate!Kept(i, now) \cup new]
           /\ admitted' = [admitted EXCEPT ![i] = @ \cup new]
    BY <1>2 DEF Rate!CheckRateLimit
  <2>2. IsFiniteSet(admitted[i]) /\ admitted[i] \in SUBSET [at : 0 .. now, nth : Nat]
    BY DEF LimiterTypes
  <2>3. Rate!Request(i, now) \in [at : 0 .. now, nth : Nat]
    <3>1. Cardinality(admitted[i]) \in Nat
      BY <2>2, FS_CardinalityType
    <3> QED BY <1>1, <3>1, SameCardinality DEF Rate!Request
  <2>4. Rate!Kept(i, now) \in SUBSET [at : 0 .. now, nth : Nat]
    BY DEF LimiterTypes, Rate!Kept, Rate!Within
  <2>5. IsFiniteSet(admitted[i] \cup new)
    <3>1. IsFiniteSet({Rate!Request(i, now)}) /\ new \subseteq {Rate!Request(i, now)}
      BY FS_Singleton
    <3>2. IsFiniteSet(new)
      BY <3>1, FS_Subset
    <3> QED BY <2>2, <3>2, FS_Union
  <2>6. \A j \in Identifiers : admitted'[j] = admitted[j] \/ admitted'[j] = admitted[i] \cup new
    BY <2>1 DEF LimiterTypes
  <2>7. requests' \in [Identifiers -> SUBSET [at : 0 .. now, nth : Nat]]
    BY <2>1, <2>3, <2>4 DEF LimiterTypes
  <2>8. admitted' \in [Identifiers -> SUBSET [at : 0 .. now, nth : Nat]]
    BY <2>1, <2>2, <2>3 DEF LimiterTypes
  <2>9. \A j \in Identifiers : IsFiniteSet(admitted'[j])
    BY <2>5, <2>6 DEF LimiterTypes
  <2> QED BY <1>2, <2>7, <2>8, <2>9 DEF LimiterTypes
<1>3. ASSUME UNCHANGED limiter, now' \in {now, now + 1} PROVE LimiterTypes'
  <2>1. [at : 0 .. now, nth : Nat] \subseteq [at : 0 .. now', nth : Nat]
    BY <1>3, ClockGrows
  <2> QED BY <1>3, <2>1 DEF LimiterTypes, limiter
<1> QED BY <1>2, <1>3, LimiterStep

LEMMA ReplayTypesInductive ==
  ASSUME ReplayTypes, HandlerTypes, [Next]_vars
  PROVE  ReplayTypes'
<1>1. now \in Nat /\ now \in 0 .. MaxTime
  BY MaxTimeIsNat DEF HandlerTypes
<1>2. ASSUME NEW a \in Addresses, NEW n \in Nonces, NEW stamp \in 0 .. now, NEW fresh \in BOOLEAN,
             now' = now, Replay!CheckAndRecord(a, n, stamp, now, fresh)
      PROVE  ReplayTypes'
  <2>1. [nonce |-> n, timestamp |-> stamp] \in [nonce : Nonces, timestamp : 0 .. now]
    OBVIOUS
  <2>2. [user |-> a, nonce |-> n, timestamp |-> stamp, at |-> now] \in Entry
    BY <1>1 DEF Entry
  <2>3. {e \in entries[a] : Replay!Live(e, stamp)} \in SUBSET [nonce : Nonces, timestamp : 0 .. now]
    BY DEF ReplayTypes
  <2>4. entries' \in [Addresses -> SUBSET [nonce : Nonces, timestamp : 0 .. now]]
    BY <1>2, <2>1, <2>3 DEF Replay!CheckAndRecord, Replay!Record, ReplayTypes
  <2>5. recorded' \in Seq(Entry)
    BY <1>2, <2>2 DEF Replay!CheckAndRecord, Replay!Record, ReplayTypes
  <2>6. Entry' = Entry
    BY <1>2 DEF Entry
  <2> QED BY <1>2, <2>4, <2>5, <2>6 DEF ReplayTypes
<1>3. ASSUME NEW stamp \in 0 .. now, now' = now, Replay!Cleanup(stamp) PROVE ReplayTypes'
  BY <1>3 DEF Replay!Cleanup, ReplayTypes, Entry
<1>4. ASSUME UNCHANGED protection, now' \in {now, now + 1} PROVE ReplayTypes'
  <2>1. 0 .. now \subseteq 0 .. now'
    BY <1>1, <1>4, ClockGrows
  <2>2. Entry \subseteq Entry'
    BY <2>1 DEF Entry
  <2>3. [nonce : Nonces, timestamp : 0 .. now] \subseteq [nonce : Nonces, timestamp : 0 .. now']
    BY <2>1
  <2>4. recorded \in Seq(Entry')
    BY <2>2 DEF ReplayTypes
  <2>5. entries \in [Addresses -> SUBSET [nonce : Nonces, timestamp : 0 .. now']]
    BY <2>3 DEF ReplayTypes
  <2> QED BY <1>4, <2>4, <2>5 DEF ReplayTypes, protection
<1> QED BY <1>2, <1>3, <1>4, ReplayStep

\* What a step makes of a handler: it goes to the next station with the same request, or
\* answers, or takes a new request.
LEMMA HandlerMoves ==
  ASSUME HandlerTypes, [Next]_vars, NEW h \in Handlers, handler'[h] # handler[h]
  PROVE  \/ handler'[h] = Idle /\ handler[h] # Idle
         \/ handler[h] = Idle /\ handler'[h] = Batch
         \/ handler[h] = Idle /\ handler'[h] \in InFlight /\ handler'[h].at = "verify"
         \/ /\ handler[h] \in InFlight /\ handler'[h] \in InFlight
            /\ handler'[h].user = handler[h].user /\ handler'[h].nonce = handler[h].nonce
            /\ <<handler[h].at, handler'[h].at>> \in
                  {<<"verify", "stamp">>, <<"stamp", "replay">>, <<"replay", "wallets">>,
                   <<"wallets", "store">>, <<"store", "schedule">>}
<1>0. now \in Nat
  BY MaxTimeIsNat DEF HandlerTypes
<1>1. ASSUME NEW g \in Handlers, NEW i \in Identifiers, NEW a \in Addresses, NEW n \in Nonces,
             Arrive(g, i, a, n)
      PROVE  handler[h] = Idle /\ handler'[h] \in InFlight /\ handler'[h].at = "verify"
  <2> DEFINE new == [at |-> "verify", user |-> a, nonce |-> n, stamp |-> now]
  <2>1. new \in InFlight /\ new.at = "verify"
    BY <1>0 DEF InFlight, Stations
  <2>2. handler[g] = Idle /\ handler' = [handler EXCEPT ![g] = new]
    BY <1>1 DEF Arrive
  <2> HIDE DEF new
  <2> QED BY <2>1, <2>2 DEF HandlerTypes
<1>2. ASSUME NEW g \in Handlers, NEW i \in Identifiers, ArriveBatch(g, i)
      PROVE  handler[h] = Idle /\ handler'[h] = Batch
  BY <1>2 DEF ArriveBatch, HandlerTypes
<1>3. ASSUME NEW g \in Handlers, Answered(g), handler[g] # Idle
      PROVE  handler'[h] = Idle /\ handler[h] # Idle
  BY <1>3 DEF Answered, HandlerTypes
<1>4. ASSUME NEW g \in Handlers, handler[g].at \in Stations, NEW new \in InFlight,
             handler' = [handler EXCEPT ![g] = new],
             new.user = handler[g].user, new.nonce = handler[g].nonce
      PROVE  /\ h = g /\ handler'[h] = new
             /\ handler[h] \in InFlight /\ handler'[h] \in InFlight
             /\ handler'[h].user = handler[h].user /\ handler'[h].nonce = handler[h].nonce
  BY <1>4, AtStation DEF HandlerTypes
<1>5. ASSUME NEW g \in Handlers, NEW ok \in BOOLEAN, Verify(g, ok)
      PROVE  (Answered(g) /\ handler[g] # Idle) \/ (handler[g].at = "verify" /\ Proceed(g, "stamp"))
  BY <1>5, AtOf DEF Verify
<1>6. ASSUME NEW g \in Handlers, ReadClock(g)
      PROVE  /\ handler[g].at = "stamp"
             /\ handler' = [handler EXCEPT ![g].at = "replay", ![g].stamp = now]
  BY <1>6 DEF ReadClock
<1>7. ASSUME NEW g \in Handlers, CheckReplay(g)
      PROVE  (Answered(g) /\ handler[g] # Idle) \/ (handler[g].at = "replay" /\ Proceed(g, "wallets"))
  BY <1>7, AtOf DEF CheckReplay
<1>8. ASSUME NEW g \in Handlers, CheckWallets(g)
      PROVE  (Answered(g) /\ handler[g] # Idle) \/ (handler[g].at = "wallets" /\ Proceed(g, "store"))
  BY <1>8, AtOf DEF CheckWallets
<1>9. ASSUME NEW g \in Handlers, NEW ok \in BOOLEAN, Store(g, ok)
      PROVE  (Answered(g) /\ handler[g] # Idle) \/ (handler[g].at = "store" /\ Proceed(g, "schedule"))
  BY <1>9, AtOf DEF Store
<1>10. ASSUME NEW g \in Handlers, NEW ok \in BOOLEAN, Schedule(g, ok) \/ ProcessSingle(g, ok)
       PROVE  Answered(g) /\ handler[g] # Idle
  BY <1>10, AtOf DEF Schedule, ProcessSingle
<1>11. \/ \E g \in Handlers, i \in Identifiers : ArriveBatch(g, i)
       \/ \E g \in Handlers, i \in Identifiers, a \in Addresses, n \in Nonces : Arrive(g, i, a, n)
       \/ \E g \in Handlers, ok \in BOOLEAN :
             Verify(g, ok) \/ Store(g, ok) \/ Schedule(g, ok) \/ ProcessSingle(g, ok)
       \/ \E g \in Handlers : ReadClock(g) \/ CheckReplay(g) \/ CheckWallets(g)
  BY DEF Next, Execute, Cancel, CleanUp, Tick, vars
<1>12. ASSUME NEW g \in Handlers, NEW to \in Stations, handler[g].at \in Stations, Proceed(g, to)
       PROVE  /\ handler[h] \in InFlight /\ handler'[h] \in InFlight
              /\ handler'[h].user = handler[h].user /\ handler'[h].nonce = handler[h].nonce
              /\ handler[h].at = handler[g].at /\ handler'[h].at = to
  <2> DEFINE new == [handler[g] EXCEPT !.at = to]
  <2>1. handler[g] \in InFlight
    BY <1>12, AtStation
  <2>2. /\ new \in InFlight /\ new.at = to
        /\ new.user = handler[g].user /\ new.nonce = handler[g].nonce
    BY <2>1 DEF InFlight
  <2>3. handler' = [handler EXCEPT ![g] = new]
    BY <1>12 DEF Proceed
  <2> HIDE DEF new
  <2> QED BY <1>4, <1>12, <2>2, <2>3
<1>13. ASSUME NEW g \in Handlers, ReadClock(g)
       PROVE  /\ handler[h] \in InFlight /\ handler'[h] \in InFlight
              /\ handler'[h].user = handler[h].user /\ handler'[h].nonce = handler[h].nonce
              /\ handler[h].at = "stamp" /\ handler'[h].at = "replay"
  <2> DEFINE mid == [handler[g] EXCEPT !.at = "replay"]
             new == [mid EXCEPT !.stamp = now]
  <2>1. handler[g] \in InFlight /\ handler[g].at \in Stations
    BY <1>6, <1>13, AtStation DEF Stations
  <2>2. /\ new \in InFlight /\ new.at = "replay"
        /\ new.user = handler[g].user /\ new.nonce = handler[g].nonce
    <3>1. /\ mid \in InFlight /\ mid.at = "replay"
          /\ mid.user = handler[g].user /\ mid.nonce = handler[g].nonce
      BY <2>1 DEF InFlight, Stations
    <3>2. now \in 0 .. now
      BY <1>0
    <3> HIDE DEF mid
    <3> QED BY <3>1, <3>2 DEF InFlight
  <2>3. handler' = [handler EXCEPT ![g] = new]
    BY <1>6, <1>13, <2>1 DEF HandlerTypes
  <2> HIDE DEF new
  <2> QED BY <1>4, <1>6, <1>13, <2>1, <2>2, <2>3
<1> QED
  BY <1>1, <1>2, <1>3, <1>5, <1>7, <1>8, <1>9, <1>10, <1>11, <1>12, <1>13
     DEF Stations

LEMMA HandlerTypesInductive ==
  ASSUME HandlerTypes, [Next]_vars
  PROVE  HandlerTypes'
<1>0. now \in Nat /\ now \in 0 .. MaxTime /\ MaxRequests \in Nat
  BY MaxTimeIsNat DEF HandlerTypes
<1>1. now' \in 0 .. MaxTime /\ now' \in {now, now + 1}
  <2>1. now' = now \/ (now < MaxTime /\ now' = now + 1)
    BY DEF Next, Arrive, ArriveBatch, Verify, Store, Schedule, ProcessSingle, ReadClock,
       CheckReplay, CheckWallets, Execute, Cancel, CleanUp, Tick, vars
  <2> QED BY <1>0, <2>1, MaxTimeIsNat
<1>2. arrivals' \in 0 .. MaxRequests
  <2>1. arrivals' = arrivals \/ (arrivals < MaxRequests /\ arrivals' = arrivals + 1)
    BY DEF Next, Arrive, ArriveBatch, Verify, Store, Schedule, ProcessSingle, ReadClock,
       CheckReplay, CheckWallets, Execute, Cancel, CleanUp, Tick, vars
  <2> QED BY <1>0, <2>1 DEF HandlerTypes
<1>3. waiting' \in Nat
  <2>1. \/ waiting' = waiting \/ waiting' = waiting + 1
        \/ waiting > 0 /\ waiting' = waiting - 1
    BY DEF Next, Arrive, ArriveBatch, Verify, Store, Schedule, ProcessSingle, ReadClock,
       CheckReplay, CheckWallets, Execute, Cancel, CleanUp, Tick, vars, pool
  <2> QED BY <2>1 DEF HandlerTypes
<1>4. handler' \in [Handlers -> {Idle, Batch} \cup InFlight']
  <2>1. \A h \in Handlers : handler'[h] \in {Idle, Batch} \cup InFlight
    BY HandlerMoves DEF HandlerTypes
  <2>2. InFlight \subseteq InFlight'
    BY <1>0, <1>1, ClockGrows DEF InFlight
  <2>3. DOMAIN handler' = Handlers /\ handler' = [h \in Handlers |-> handler'[h]]
    BY DEF HandlerTypes, Next, Arrive, ArriveBatch, Verify, Store, Schedule, ProcessSingle,
       ReadClock, CheckReplay, CheckWallets, Execute, Cancel, CleanUp, Tick, vars, Answered, Proceed
  <2> QED BY <2>1, <2>2, <2>3
<1>5. wallets' \in [Wallets -> [total : Nat, failed : Nat]]
  <2>1. ASSUME NEW w \in Wallets, NEW success \in BOOLEAN, Execute(w, success)
        PROVE  wallets' \in [Wallets -> [total : Nat, failed : Nat]]
    <3>1. wallets[w].total \in Nat /\ wallets[w].failed \in Nat
      BY DEF HandlerTypes
    <3> DEFINE new == [total |-> wallets[w].total + 1,
                       failed |-> wallets[w].failed + IF success THEN 0 ELSE 1]
    <3>2. new \in [total : Nat, failed : Nat]
      BY <3>1
    <3>3. wallets' = [wallets EXCEPT ![w] = new]
      BY <2>1 DEF Execute
    <3> HIDE DEF new
    <3> QED BY <3>2, <3>3 DEF HandlerTypes
  <2>2. UNCHANGED wallets \/ \E w \in Wallets, success \in BOOLEAN : Execute(w, success)
    BY DEF Next, Arrive, ArriveBatch, Verify, Store, Schedule, ProcessSingle,
       ReadClock, CheckReplay, CheckWallets, Cancel, CleanUp, Tick, vars, pool
  <2> QED BY <2>1, <2>2 DEF HandlerTypes
<1>6. stored' \in [Addresses \X Nonces -> Nat]
  <2>1. ASSUME NEW h \in Handlers, NEW reply \in BOOLEAN, Store(h, reply)
        PROVE  stored' \in [Addresses \X Nonces -> Nat]
    <3>1. handler[h].user \in Addresses /\ handler[h].nonce \in Nonces
      BY <2>1, AtStation DEF Store, Stations
    <3>2. PICK r \in Addresses \X Nonces : r = <<handler[h].user, handler[h].nonce>>
      BY <3>1
    <3>3. stored' = stored \/ stored' = [stored EXCEPT ![r] = @ + 1]
      BY <2>1, <3>2 DEF Store
    <3>4. stored \in [Addresses \X Nonces -> Nat] /\ stored[r] + 1 \in Nat
      BY DEF HandlerTypes
    <3> QED BY <3>3, <3>4
  <2>2. UNCHANGED stored \/ \E h \in Handlers, reply \in BOOLEAN : Store(h, reply)
    BY DEF Next, Arrive, ArriveBatch, Verify, Schedule, ProcessSingle,
       ReadClock, CheckReplay, CheckWallets, Execute, Cancel, CleanUp, Tick, vars
  <2> QED BY <2>1, <2>2 DEF HandlerTypes
<1> QED BY <1>1, <1>2, <1>3, <1>4, <1>5, <1>6 DEF HandlerTypes

LEMMA TypesInit == Init => Types
<1> SUFFICES ASSUME Init PROVE Types
  OBVIOUS
<1>1. LimiterTypes
  BY FS_EmptySet DEF Init, LimiterTypes, Rate!Init, Rate!NoRequests
<1>2. ReplayTypes
  BY DEF Init, ReplayTypes, Replay!Init
<1>3. HandlerTypes
  <2>1. wallets \in [Wallets -> [total : Nat, failed : Nat]]
    <3>1. \A past \in Pasts : past \in [total : Nat, failed : Nat]
      OBVIOUS
    <3> QED BY <3>1 DEF Init
  <2>2. MaxRequests \in Nat /\ MaxTime \in Nat
    OBVIOUS
  <2> QED BY <2>1, <2>2 DEF Init, HandlerTypes
<1> QED BY <1>1, <1>2, <1>3 DEF Types

LEMMA TypesInductive == Types /\ [Next]_vars => Types'
  BY LimiterTypesInductive, ReplayTypesInductive, HandlerTypesInductive DEF Types, HandlerTypes

LEMMA AllTypes == Spec => []Types
  BY TypesInit, TypesInductive, PTL DEF Spec

-----------------------------------------------------------------------------
\* The rate limiter.  What it still has in its history is all that counts in any of the
\* windows that end now, and what ends earlier has been counted already.

History ==
    \A i \in Identifiers :
        /\ requests[i] \subseteq admitted[i]
        /\ \A r \in admitted[i] : r.at <= now /\ (r.at + Day > now => r \in requests[i])

Passed(i, length, t) == {r \in admitted[i] : r.at <= t /\ r.at + length > t}

Keeps(length, limit) ==
    \A i \in Identifiers : \A t \in 0 .. now : Cardinality(Passed(i, length, t)) <= limit

LEMMA HistoryInductive ==
  ASSUME Types, History, [Next]_vars
  PROVE  History'
<1>0. now \in Nat
  BY MaxTimeIsNat DEF Types, HandlerTypes
<1>1. ASSUME NEW i \in Identifiers, NEW allowed \in BOOLEAN, now' = now,
             Rate!CheckRateLimit(i, now, allowed), NEW j \in Identifiers, NEW r \in admitted'[j]
      PROVE  r.at <= now /\ (r.at + Day > now => r \in requests'[j])
  <2>1. PICK new \in SUBSET {Rate!Request(i, now)} :
           /\ requests' = [requests EXCEPT ![i] = Rate!Kept(i, now) \cup new]
           /\ admitted' = [admitted EXCEPT ![i] = @ \cup new]
    BY <1>1 DEF Rate!CheckRateLimit
  <2>2. /\ DOMAIN requests = Identifiers /\ DOMAIN admitted = Identifiers
    BY DEF Types, LimiterTypes
  <2>3. CASE r \in admitted[j]
    <3>1. r.at + Day > now => r \in requests[j]
      BY <2>3 DEF History
    <3>2. r \in requests[j] /\ r.at + Day > now => r \in requests'[j]
      BY <2>1, <2>2 DEF Rate!Kept, Rate!Within
    <3> QED BY <2>3, <3>1, <3>2 DEF History
  <2>4. CASE r \notin admitted[j]
    <3>1. j = i /\ r \in new
      BY <2>1, <2>2, <2>4, <1>1
    <3>2. r.at = now
      BY <3>1 DEF Rate!Request
    <3> QED BY <1>0, <2>1, <2>2, <3>1, <3>2
  <2> QED BY <2>3, <2>4
<1>2. ASSUME NEW i \in Identifiers, NEW allowed \in BOOLEAN,
             Rate!CheckRateLimit(i, now, allowed), NEW j \in Identifiers
      PROVE  requests'[j] \subseteq admitted'[j]
  BY <1>2 DEF Rate!CheckRateLimit, Rate!Kept, Rate!Within, History, Types, LimiterTypes
<1>3. ASSUME UNCHANGED limiter, now' \in {now, now + 1} PROVE History'
  <2>1. \A i \in Identifiers : \A r \in admitted[i] : r.at \in Nat
    BY <1>0 DEF Types, LimiterTypes
  <2>2. Day \in Nat
    OBVIOUS
  <2>3. \A i \in Identifiers : \A r \in admitted[i] :
           r.at <= now' /\ (r.at + Day > now' => r.at + Day > now)
    BY <1>0, <1>3, <2>1, <2>2 DEF History
  <2> QED BY <1>3, <2>3 DEF History, limiter
<1> QED BY <1>1, <1>2, <1>3, LimiterStep DEF History

\* A set that grows by one element at most from a part of a set below the limit.
LEMMA OneMore ==
  ASSUME NEW S, IsFiniteSet(S), NEW T, NEW r, T \subseteq S \cup {r},
         NEW limit \in Nat, Cardinality(S) < limit
  PROVE  Cardinality(T) <= limit
<1>0. Cardinality(S) \in Nat
  BY FS_CardinalityType
<1>1. IsFiniteSet(S \cup {r}) /\ Cardinality(S \cup {r}) <= Cardinality(S) + 1
  <2>1. /\ IsFiniteSet(S \cup {r})
        /\ Cardinality(S \cup {r}) = IF r \in S THEN Cardinality(S) ELSE Cardinality(S) + 1
    BY FS_AddElement
  <2> QED BY <1>0, <2>1
<1>2. Cardinality(T) <= Cardinality(S \cup {r}) /\ Cardinality(T) \in Nat /\ Cardinality(S \cup {r}) \in Nat
  BY <1>1, FS_Subset, FS_CardinalityType
<1> QED BY <1>0, <1>1, <1>2

LEMMA KeepsInductive ==
  ASSUME NEW length \in Nat, length <= Day, NEW limit \in Nat,
         Types, History, Keeps(length, limit), [Next]_vars,
         \A i \in Identifiers :
            ~ Rate!OverLimit(Rate!Kept(i, now), now)
               => Cardinality(Rate!Within(Rate!Kept(i, now), length, now)) < limit
  PROVE  Keeps(length, limit)'
<1>0. now \in Nat /\ Day \in Nat
  BY MaxTimeIsNat DEF Types, HandlerTypes
<1>1. \A i \in Identifiers : \A r \in admitted[i] : r.at \in Nat /\ r.at <= now
  BY <1>0 DEF Types, LimiterTypes, History
<1>2. \A i \in Identifiers : IsFiniteSet(admitted[i])
  BY DEF Types, LimiterTypes
<1>3. ASSUME NEW i \in Identifiers, NEW allowed \in BOOLEAN, now' = now,
             Rate!CheckRateLimit(i, now, allowed),
             NEW j \in Identifiers, NEW t \in 0 .. now
      PROVE  Cardinality(Passed(j, length, t)') <= limit
  <2>1. /\ admitted' = [admitted EXCEPT ![i] =
                          @ \cup IF allowed THEN {Rate!Request(i, now)} ELSE {}]
        /\ allowed = ~ Rate!OverLimit(Rate!Kept(i, now), now)
    BY <1>3 DEF Rate!CheckRateLimit
  <2>2. DOMAIN admitted = Identifiers
    BY DEF Types, LimiterTypes
  <2>3. Rate!Request(i, now).at = now
    BY DEF Rate!Request
  <2>4. CASE Passed(j, length, t)' = Passed(j, length, t)
    BY <2>4 DEF Keeps
  <2>5. CASE j # i \/ ~ allowed \/ t # now
    <3>1. Passed(j, length, t)' = Passed(j, length, t)
      <4>1. CASE j # i \/ ~ allowed
        BY <2>1, <2>2, <4>1 DEF Passed
      <4>2. CASE t # now /\ j = i /\ allowed
        <5>1. t < now
          BY <1>0, <4>2
        <5>2. admitted'[j] = admitted[j] \cup {Rate!Request(i, now)}
          BY <2>1, <2>2, <4>2
        <5>3. ~ Rate!Request(i, now).at <= t
          BY <1>0, <2>3, <5>1
        <5> QED BY <5>2, <5>3 DEF Passed
      <4> QED BY <2>5, <4>1, <4>2
    <3> QED BY <2>4, <3>1
  <2>6. CASE j = i /\ allowed /\ t = now
    <3> DEFINE S == Rate!Within(Rate!Kept(i, now), length, now)
    <3>1. Cardinality(S) < limit
      BY <2>1, <2>6
    <3>2. IsFiniteSet(S)
      <4>1. IsFiniteSet(admitted[i])
        BY <1>2
      <4>2. S \subseteq admitted[i]
        BY DEF History, Rate!Within, Rate!Kept
      <4> QED BY <4>1, <4>2, FS_Subset
    <3>3. Passed(j, length, t)' \subseteq S \cup {Rate!Request(i, now)}
      <4>1. ASSUME NEW r \in admitted[i], r.at + length > now PROVE r \in S
        <5>1. r.at + Day > now
          BY <1>0, <1>1, <4>1
        <5> QED BY <4>1, <5>1 DEF History, Rate!Within, Rate!Kept
      <4>2. admitted'[j] = admitted[i] \cup {Rate!Request(i, now)}
        BY <2>1, <2>2, <2>6
      <4> QED BY <2>6, <4>1, <4>2 DEF Passed
    <3> HIDE DEF S
    <3> QED BY <3>1, <3>2, <3>3, OneMore
  <2> QED BY <2>5, <2>6
<1>4. ASSUME UNCHANGED limiter, now' \in {now, now + 1}, NEW j \in Identifiers, NEW t \in 0 .. now'
      PROVE  Cardinality(Passed(j, length, t)') <= limit
  <2>1. Passed(j, length, t)' = Passed(j, length, t)
    BY <1>4 DEF Passed, limiter
  <2>2. CASE t \in 0 .. now
    BY <2>1, <2>2 DEF Keeps
  <2>3. CASE t = now + 1
    <3>1. Passed(j, length, now + 1) \subseteq Passed(j, length, now)
      <4>1. \A r \in admitted[j] : r.at + length > now + 1 => r.at + length > now
        BY <1>0, <1>1
      <4> QED BY <1>1, <4>1 DEF Passed
    <3>2. Cardinality(Passed(j, length, now)) <= limit
      <4>1. now \in 0 .. now
        BY <1>0
      <4> QED BY <4>1 DEF Keeps
    <3>3. IsFiniteSet(Passed(j, length, now))
      <4>1. IsFiniteSet(admitted[j]) /\ Passed(j, length, now) \subseteq admitted[j]
        BY <1>2 DEF Passed
      <4> QED BY <4>1, FS_Subset
    <3>4. /\ Cardinality(Passed(j, length, now + 1)) <= Cardinality(Passed(j, length, now))
          /\ Cardinality(Passed(j, length, now + 1)) \in Nat
          /\ Cardinality(Passed(j, length, now)) \in Nat
      BY <3>1, <3>3, FS_Subset, FS_CardinalityType
    <3> QED BY <2>1, <2>3, <3>2, <3>4
  <2> QED BY <1>0, <1>4, <2>2, <2>3
<1>5. ASSUME NEW j \in Identifiers, NEW t \in 0 .. now'
      PROVE  Cardinality(Passed(j, length, t)') <= limit
  BY <1>3, <1>4, LimiterStep
<1> QED BY <1>5 DEF Keeps

\* In no window, wherever it starts, does a client get more requests through than the
\* limit of that window: the clean-up never forgets a request too early.
THEOREM WindowsHold == Spec => []RateBound
<1>0. /\ Minute \in Nat /\ Hour \in Nat /\ Day \in Nat
      /\ PerMinute \in Nat /\ PerHour \in Nat /\ PerDay \in Nat
      /\ Minute <= Day /\ Hour <= Day
  OBVIOUS
<1> DEFINE Limits == Keeps(Minute, PerMinute) /\ Keeps(Hour, PerHour) /\ Keeps(Day, PerDay)
<1>1. Init => History /\ Limits
  <2>1. ASSUME Init, NEW length, NEW limit \in Nat PROVE Keeps(length, limit)
    <3>1. \A i \in Identifiers : \A t : Passed(i, length, t) = {}
      BY <2>1 DEF Init, Rate!Init, Rate!NoRequests, Passed
    <3>2. Cardinality({}) = 0
      BY FS_EmptySet
    <3> QED BY <3>1, <3>2 DEF Keeps
  <2>2. Init => History
    BY DEF Init, Rate!Init, Rate!NoRequests, History
  <2> QED BY <1>0, <2>1, <2>2
<1>2. Types /\ History /\ Limits /\ [Next]_vars => History' /\ Limits'
  <2> SUFFICES ASSUME Types, History, Limits, [Next]_vars PROVE History' /\ Limits'
    OBVIOUS
  <2>1. ASSUME NEW i \in Identifiers
        PROVE  LET kept == Rate!Kept(i, now) IN
               ~ Rate!OverLimit(kept, now) =>
                  /\ Cardinality(Rate!Within(kept, Minute, now)) < PerMinute
                  /\ Cardinality(Rate!Within(kept, Hour, now)) < PerHour
                  /\ Cardinality(Rate!Within(kept, Day, now)) < PerDay
    <3>1. IsFiniteSet(Rate!Kept(i, now))
      <4>1. IsFiniteSet(admitted[i]) /\ Rate!Kept(i, now) \subseteq admitted[i]
        BY DEF Types, LimiterTypes, History, Rate!Kept, Rate!Within
      <4> QED BY <4>1, FS_Subset
    <3>2. \A length : /\ IsFiniteSet(Rate!Within(Rate!Kept(i, now), length, now))
                      /\ Cardinality(Rate!Within(Rate!Kept(i, now), length, now)) \in Nat
      <4>1. \A length : Rate!Within(Rate!Kept(i, now), length, now) \subseteq Rate!Kept(i, now)
        BY DEF Rate!Within
      <4> QED BY <3>1, <4>1, FS_Subset, FS_CardinalityType
    <3>3. Cardinality(Rate!Kept(i, now)) \in Nat
      BY <3>1, FS_CardinalityType
    <3>4. Rate!Within(Rate!Kept(i, now), Day, now) = Rate!Kept(i, now)
      BY DEF Rate!Within, Rate!Kept
    <3> QED BY <1>0, <3>2, <3>3, <3>4, SameCardinality DEF Rate!OverLimit
  <2>2. History'
    BY HistoryInductive
  <2>3. Keeps(Minute, PerMinute)'
    BY <1>0, <2>1, KeepsInductive
  <2>4. Keeps(Hour, PerHour)'
    BY <1>0, <2>1, KeepsInductive
  <2>5. Keeps(Day, PerDay)'
    BY <1>0, <2>1, KeepsInductive
  <2> QED BY <2>2, <2>3, <2>4, <2>5
<1>3. Limits => RateBound
  <2> SUFFICES ASSUME Limits, NEW i \in Identifiers, NEW t \in 0 .. now
               PROVE  LET upTo == {r \in admitted[i] : r.at <= t} IN
                      /\ Cardinality(Rate!Within(upTo, Minute, t)) <= PerMinute
                      /\ Cardinality(Rate!Within(upTo, Hour, t)) <= PerHour
                      /\ Cardinality(Rate!Within(upTo, Day, t)) <= PerDay
    BY SameCardinality DEF RateBound, Rate!RateBound
  <2>1. \A length : Rate!Within({r \in admitted[i] : r.at <= t}, length, t) = Passed(i, length, t)
    BY DEF Rate!Within, Passed
  <2> QED BY <2>1 DEF Keeps
<1> HIDE DEF Limits
<1> QED BY <1>1, <1>2, <1>3, AllTypes, PTL DEF Spec

-----------------------------------------------------------------------------
\* The replay protection.  Whoever comes to the lock has read the clock before, so
\* what he cleans up is of no use to anybody who comes later; and so is what the
\* clean-up task drops.

Known(k, stamp) ==
    \E e \in entries[recorded[k].user] :
        /\ e.nonce = recorded[k].nonce /\ e.timestamp = recorded[k].timestamp
        /\ Replay!Live(e, stamp)

StillKnown == \A k \in DOMAIN recorded : Replay!Live(recorded[k], now) => Known(k, now)

\* What is live now was live at any earlier reading of the clock.
LEMMA LiveBefore ==
  ASSUME NEW e, e.timestamp \in Nat, NEW stamp \in Nat, NEW later \in Nat, stamp <= later,
         Replay!Live(e, later)
  PROVE  Replay!Live(e, stamp)
<1>1. Window \in Nat
  OBVIOUS
<1> QED BY <1>1 DEF Replay!Live

LEMMA Appended ==
  ASSUME NEW S, NEW s \in Seq(S), NEW e \in S
  PROVE  /\ DOMAIN Append(s, e) = DOMAIN s \cup {Len(s) + 1}
         /\ \A k \in DOMAIN s : Append(s, e)[k] = s[k] /\ k < Len(s) + 1
         /\ Append(s, e)[Len(s) + 1] = e
         /\ Len(s) + 1 \notin DOMAIN s /\ Len(s) \in Nat /\ DOMAIN s = 1 .. Len(s)
  OBVIOUS

LEMMA EntryTypes ==
  ASSUME Types
  PROVE  /\ now \in Nat
         /\ \A k \in DOMAIN recorded :
               /\ recorded[k].user \in Addresses /\ recorded[k].nonce \in Nonces
               /\ recorded[k].timestamp \in Nat /\ recorded[k].timestamp <= now
               /\ recorded[k].at \in Nat
         /\ \A a \in Addresses : \A e \in entries[a] : e.timestamp \in Nat /\ e.timestamp <= now
<1>1. now \in Nat
  BY MaxTimeIsNat DEF Types, HandlerTypes
<1>2. \A k \in DOMAIN recorded : recorded[k] \in Entry
  BY DEF Types, ReplayTypes
<1>3. \A a \in Addresses : \A e \in entries[a] : e.timestamp \in 0 .. now
  BY DEF Types, ReplayTypes
<1> QED BY <1>1, <1>2, <1>3 DEF Entry

\* One entry is added, or none, by who has read the clock at stamp.
LEMMA RecordStep ==
  ASSUME Types, NEW a \in Addresses, NEW n \in Nonces, NEW stamp \in 0 .. now,
         NEW fresh \in BOOLEAN, Replay!CheckAndRecord(a, n, stamp, now, fresh), fresh
  PROVE  LET e == [user |-> a, nonce |-> n, timestamp |-> stamp, at |-> now] IN
         /\ e \in Entry
         /\ recorded' = Append(recorded, e)
         /\ entries' = [entries EXCEPT ![a] = {x \in @ : Replay!Live(x, stamp)}
                                                \cup {[nonce |-> n, timestamp |-> stamp]}]
         /\ ~ \E x \in entries[a] : x.nonce = n /\ Replay!Live(x, stamp)
<1>1. now \in 0 .. now
  BY EntryTypes
<1> QED BY <1>1 DEF Replay!CheckAndRecord, Replay!Record, Replay!IsNonceUsed, Entry

LEMMA StillKnownInductive == Types /\ StillKnown /\ [Next]_vars => StillKnown'
<1> SUFFICES ASSUME Types, StillKnown, [Next]_vars PROVE StillKnown'
  OBVIOUS
<1>0. now \in Nat
  BY EntryTypes
<1>1. ASSUME NEW a \in Addresses, NEW n \in Nonces, NEW stamp \in 0 .. now, NEW fresh \in BOOLEAN,
             now' = now, Replay!CheckAndRecord(a, n, stamp, now, fresh)
      PROVE  StillKnown'
  <2>1. CASE ~ fresh
    BY <1>1, <2>1 DEF Replay!CheckAndRecord, Replay!Record, StillKnown, Known
  <2>2. CASE fresh
    <3> DEFINE e == [user |-> a, nonce |-> n, timestamp |-> stamp, at |-> now]
               x == [nonce |-> n, timestamp |-> stamp]
    <3>1. /\ e \in Entry /\ recorded' = Append(recorded, e)
          /\ entries' = [entries EXCEPT ![a] = {y \in @ : Replay!Live(y, stamp)} \cup {x}]
      BY <1>1, <2>2, RecordStep
    <3>2. /\ e.user = a /\ e.nonce = n /\ e.timestamp = stamp
          /\ x.nonce = n /\ x.timestamp = stamp
      OBVIOUS
    <3> HIDE DEF e, x
    <3>3. DOMAIN entries = Addresses /\ recorded \in Seq(Entry)
      BY DEF Types, ReplayTypes
    <3>4. ASSUME NEW k \in DOMAIN recorded, Replay!Live(recorded'[k], now) PROVE Known(k, now)'
      <4>1. recorded'[k] = recorded[k]
        BY <3>1, <3>3, Appended
      <4>2. PICK y \in entries[recorded[k].user] :
               /\ y.nonce = recorded[k].nonce /\ y.timestamp = recorded[k].timestamp
               /\ Replay!Live(y, now)
        BY <3>4, <4>1 DEF StillKnown, Known
      <4>3. Replay!Live(y, stamp)
        <5>1. y.timestamp \in Nat /\ stamp \in Nat /\ stamp <= now
          BY <1>0, <4>2, EntryTypes
        <5> QED BY <1>0, <4>2, <5>1, LiveBefore
      <4>4. y \in entries'[recorded[k].user]
        BY <3>1, <3>3, <4>2, <4>3, EntryTypes
      <4> QED BY <1>1, <4>1, <4>2, <4>4 DEF Known
    <3>5. ASSUME Replay!Live(recorded'[Len(recorded) + 1], now)
          PROVE  \E y \in entries'[recorded'[Len(recorded) + 1].user] :
                    /\ y.nonce = recorded'[Len(recorded) + 1].nonce
                    /\ y.timestamp = recorded'[Len(recorded) + 1].timestamp
                    /\ Replay!Live(y, now)
      <4>1. recorded'[Len(recorded) + 1] = e
        BY <3>1, <3>3, Appended
      <4>2. x \in entries'[a]
        BY <3>1, <3>3
      <4>3. Replay!Live(x, now)
        BY <3>2, <3>5, <4>1 DEF Replay!Live
      <4> QED BY <3>2, <4>1, <4>2, <4>3
    <3>6. ASSUME NEW k \in DOMAIN recorded', Replay!Live(recorded'[k], now') PROVE Known(k, now)'
      <4>1. k \in DOMAIN recorded \/ k = Len(recorded) + 1
        BY <3>1, <3>3, Appended
      <4> QED BY <1>1, <3>4, <3>5, <3>6, <4>1 DEF Known
    <3> QED BY <3>6 DEF StillKnown
  <2> QED BY <2>1, <2>2
<1>2. ASSUME NEW stamp \in 0 .. now, now' = now, Replay!Cleanup(stamp) PROVE StillKnown'
  <2>1. /\ recorded' = recorded
        /\ entries' = [a \in Addresses |-> {e \in entries[a] : Replay!Live(e, stamp)}]
    BY <1>2 DEF Replay!Cleanup
  <2>2. ASSUME NEW k \in DOMAIN recorded, Replay!Live(recorded[k], now) PROVE Known(k, now)'
    <3>1. PICK y \in entries[recorded[k].user] :
             /\ y.nonce = recorded[k].nonce /\ y.timestamp = recorded[k].timestamp
             /\ Replay!Live(y, now)
      BY <2>2 DEF StillKnown, Known
    <3>2. Replay!Live(y, stamp)
      <4>1. y.timestamp \in Nat /\ stamp \in Nat /\ stamp <= now
        BY <1>0, <3>1, EntryTypes
      <4> QED BY <1>0, <3>1, <4>1, LiveBefore
    <3>3. y \in entries'[recorded[k].user]
      BY <2>1, <3>1, <3>2, EntryTypes
    <3> QED BY <1>2, <2>1, <3>1, <3>3 DEF Known
  <2> QED BY <1>2, <2>1, <2>2 DEF StillKnown
<1>3. ASSUME UNCHANGED protection, now' \in {now, now + 1} PROVE StillKnown'
  <2>1. UNCHANGED <<entries, recorded>> /\ now' \in Nat /\ now <= now'
    BY <1>0, <1>3 DEF protection
  <2>2. ASSUME NEW k \in DOMAIN recorded, Replay!Live(recorded[k], now') PROVE Known(k, now)'
    <3>1. Replay!Live(recorded[k], now)
      BY <1>0, <2>1, <2>2, EntryTypes, LiveBefore
    <3>2. PICK y \in entries[recorded[k].user] :
             y.nonce = recorded[k].nonce /\ y.timestamp = recorded[k].timestamp
      BY <3>1 DEF StillKnown, Known
    <3>3. Replay!Live(y, now')
      BY <2>2, <3>2 DEF Replay!Live
    <3> QED BY <2>1, <3>2, <3>3 DEF Known
  <2> QED BY <2>1, <2>2 DEF StillKnown
<1> QED BY <1>1, <1>2, <1>3, ReplayStep DEF Types

LEMMA StillKnownHolds == Spec => []StillKnown
<1>1. Init => StillKnown
  BY DEF Init, Replay!Init, StillKnown
<1> QED BY <1>1, StillKnownInductive, AllTypes, PTL DEF Spec

\* What was recorded less than a window ago is known to every handler that reads the
\* clock now, whatever was cleaned up since.
THEOREM RecordsAreKnown == Spec => []RecentNonceIsKnown
<1>1. StillKnown => RecentNonceIsKnown
  BY DEF StillKnown, Known, RecentNonceIsKnown, Replay!IsNonceUsed
<1> QED BY <1>1, StillKnownHolds, PTL

\* In whatever order late readers of the clock come to the lock, a nonce that was
\* recorded is not recorded again before its window is over.
THEOREM NoncesAreGoodOnce == Spec => []NonceOncePerWindow
<1>1. Init => NonceOncePerWindow
  BY DEF Init, Replay!Init, NonceOncePerWindow, Replay!NonceOncePerWindow
<1>2. Types /\ StillKnown /\ NonceOncePerWindow /\ [Next]_vars => NonceOncePerWindow'
  <2> SUFFICES ASSUME Types, StillKnown, NonceOncePerWindow, [Next]_vars
               PROVE  NonceOncePerWindow'
    OBVIOUS
  <2>0. now \in Nat /\ Window \in Nat
    BY EntryTypes
  <2>1. ASSUME NEW a \in Addresses, NEW n \in Nonces, NEW stamp \in 0 .. now, NEW fresh \in BOOLEAN,
               Replay!CheckAndRecord(a, n, stamp, now, fresh), fresh
        PROVE  NonceOncePerWindow'
    <3> DEFINE e == [user |-> a, nonce |-> n, timestamp |-> stamp, at |-> now]
    <3>1. e \in Entry /\ recorded' = Append(recorded, e)
      BY <2>1, RecordStep
    <3>2. e.user = a /\ e.nonce = n /\ e.at = now
      OBVIOUS
    <3> HIDE DEF e
    <3>3. recorded \in Seq(Entry)
      BY DEF Types, ReplayTypes
    <3>4. ASSUME NEW k \in DOMAIN recorded, recorded[k].user = a, recorded[k].nonce = n
          PROVE  now >= recorded[k].timestamp + Window
      <4>1. ASSUME Replay!Live(recorded[k], now) PROVE FALSE
        <5>1. PICK y \in entries[a] : y.nonce = n /\ Replay!Live(y, now)
          BY <3>4, <4>1 DEF StillKnown, Known
        <5>2. Replay!Live(y, stamp)
          <6>1. y.timestamp \in Nat /\ stamp \in Nat /\ stamp <= now
            BY <2>0, <5>1, EntryTypes
          <6> QED BY <2>0, <5>1, <6>1, LiveBefore
        <5>3. ~ \E x \in entries[a] : x.nonce = n /\ Replay!Live(x, stamp)
          BY <2>1, RecordStep
        <5> QED BY <5>1, <5>2, <5>3
      <4>2. recorded[k].timestamp \in Nat
        BY EntryTypes
      <4> QED BY <2>0, <4>1, <4>2 DEF Replay!Live
    <3>5. ASSUME NEW i \in DOMAIN recorded', NEW j \in DOMAIN recorded', i < j,
                 recorded'[i].user = recorded'[j].user, recorded'[i].nonce = recorded'[j].nonce
          PROVE  recorded'[j].at >= recorded'[i].timestamp + Window
      <4>1. /\ i \in DOMAIN recorded \/ i = Len(recorded) + 1
            /\ j \in DOMAIN recorded \/ j = Len(recorded) + 1
        BY <3>1, <3>3, Appended
      <4>2. \A k \in DOMAIN recorded : k < Len(recorded) + 1 /\ k \in Nat
        BY <3>1, <3>3, Appended
      <4>3. i \in DOMAIN recorded /\ recorded'[i] = recorded[i]
        <5>1. Len(recorded) \in Nat
          BY <3>3
        <5>2. i # Len(recorded) + 1
          BY <3>5, <4>1, <4>2, <5>1
        <5> QED BY <3>1, <3>3, <4>1, <5>2, Appended
      <4>4. CASE j \in DOMAIN recorded
        <5>1. recorded'[j] = recorded[j]
          BY <3>1, <3>3, <4>4, Appended
        <5> QED BY <3>5, <4>3, <4>4, <5>1 DEF NonceOncePerWindow, Replay!NonceOncePerWindow
      <4>5. CASE j = Len(recorded) + 1
        <5>1. recorded'[j] = e
          BY <3>1, <3>3, <4>5, Appended
        <5> QED BY <3>2, <3>4, <3>5, <4>3, <5>1
      <4> QED BY <4>1, <4>4, <4>5
    <3> QED BY <3>5 DEF NonceOncePerWindow, Replay!NonceOncePerWindow
  <2>2. CASE UNCHANGED recorded
    BY <2>2 DEF NonceOncePerWindow, Replay!NonceOncePerWindow
  <2> QED
    BY <2>1, <2>2, ReplayStep DEF Types, protection, Replay!Cleanup, Replay!CheckAndRecord, Replay!Record
<1> QED BY <1>1, <1>2, StillKnownHolds, AllTypes, PTL DEF Spec

-----------------------------------------------------------------------------
\* A handler between the replay protection and the database is as good as a row: for
\* each there is a record.

Carriers(a, n) == {h \in Handlers : /\ handler[h].at \in {"wallets", "store"}
                                    /\ handler[h].user = a /\ handler[h].nonce = n}

Records(a, n) == {k \in DOMAIN recorded : recorded[k].user = a /\ recorded[k].nonce = n}

RowsAreCovered ==
    \A a \in Addresses, n \in Nonces :
        stored[a, n] + Cardinality(Carriers(a, n)) <= Cardinality(Records(a, n))

LEMMA Counts ==
  ASSUME Types, NEW a \in Addresses, NEW n \in Nonces
  PROVE  /\ IsFiniteSet(Carriers(a, n)) /\ Cardinality(Carriers(a, n)) \in Nat
         /\ IsFiniteSet(Records(a, n)) /\ Cardinality(Records(a, n)) \in Nat
         /\ stored[a, n] \in Nat
<1>1. IsFiniteSet(Carriers(a, n))
  <2>1. IsFiniteSet(Handlers) /\ Carriers(a, n) \subseteq Handlers
    BY DEF Carriers
  <2> QED BY <2>1, FS_Subset
<1>2. IsFiniteSet(Records(a, n))
  <2>1. recorded \in Seq(Entry)
    BY DEF Types, ReplayTypes
  <2>2. DOMAIN recorded = 1 .. Len(recorded) /\ Len(recorded) \in Int
    BY <2>1
  <2>3. IsFiniteSet(1 .. Len(recorded))
    BY <2>2, FS_Interval
  <2>4. Records(a, n) \subseteq 1 .. Len(recorded)
    BY <2>2 DEF Records
  <2> QED BY <2>3, <2>4, FS_Subset
<1>3. stored[a, n] \in Nat
  BY DEF Types, HandlerTypes
<1> QED BY <1>1, <1>2, <1>3, FS_CardinalityType

\* Only a recorded nonce takes a handler past the replay protection.
LEMMA OnlyByRecord ==
  ASSUME HandlerTypes, [Next]_vars, NEW g \in Handlers,
         handler[g].at = "replay", handler'[g].at = "wallets"
  PROVE  /\ Replay!CheckAndRecord(handler[g].user, handler[g].nonce, handler[g].stamp, now, TRUE)
         /\ handler' = [handler EXCEPT ![g].at = "wallets"] /\ UNCHANGED stored
<1>0. DOMAIN handler = Handlers /\ handler[g] # Idle /\ handler[g] # Batch /\ handler'[g] # handler[g]
  BY AtOf DEF HandlerTypes
<1>1. ASSUME NEW h \in Handlers, h # g, NEW x, handler' = [handler EXCEPT ![h] = x]
      PROVE  FALSE
  BY <1>0, <1>1
<1>2. ASSUME Answered(g) PROVE FALSE
  BY <1>0, <1>2, AtOf DEF Answered
<1>3. ~ \E h \in Handlers, i \in Identifiers, a \in Addresses, n \in Nonces : Arrive(h, i, a, n)
  BY <1>0 DEF Arrive, HandlerTypes
<1>4. ~ \E h \in Handlers, i \in Identifiers : ArriveBatch(h, i)
  BY <1>0 DEF ArriveBatch, HandlerTypes
<1>5. ~ \E h \in Handlers, ok \in BOOLEAN :
           Verify(h, ok) \/ Store(h, ok) \/ Schedule(h, ok) \/ ProcessSingle(h, ok)
  BY <1>0 DEF Verify, Store, Schedule, ProcessSingle, Answered, Proceed, HandlerTypes
<1>6. ~ \E h \in Handlers : ReadClock(h) \/ CheckWallets(h)
  BY <1>0 DEF ReadClock, CheckWallets, Answered, Proceed, HandlerTypes
<1>7. ASSUME NEW h \in Handlers, CheckReplay(h) PROVE h = g
  BY <1>0, <1>7 DEF CheckReplay, Answered, Proceed, HandlerTypes
<1>8. CheckReplay(g)
  BY <1>0, <1>3, <1>4, <1>5, <1>6, <1>7 DEF Next, Execute, Cancel, CleanUp, Tick, vars
<1> QED BY <1>2, <1>8 DEF CheckReplay, Proceed

\* Only Store adds a row.
LEMMA OnlyByStore ==
  ASSUME HandlerTypes, [Next]_vars
  PROVE  \/ UNCHANGED stored
         \/ \E h \in Handlers : /\ handler[h].at = "store" /\ Proceed(h, "schedule")
                                /\ stored' = [stored EXCEPT ![<<handler[h].user, handler[h].nonce>>] = @ + 1]
                                /\ UNCHANGED protection
  BY DEF Next, Arrive, ArriveBatch, Verify, Store, Schedule, ProcessSingle, ReadClock,
     CheckReplay, CheckWallets, Execute, Cancel, CleanUp, Tick, vars

LEMMA RowsAreCoveredInductive == Types /\ RowsAreCovered /\ [Next]_vars => RowsAreCovered'
<1> SUFFICES ASSUME Types, RowsAreCovered, [Next]_vars, NEW a \in Addresses, NEW n \in Nonces
             PROVE  stored'[a, n] + Cardinality(Carriers(a, n)') <= Cardinality(Records(a, n)')
  BY DEF RowsAreCovered
<1>0. /\ HandlerTypes /\ DOMAIN handler = Handlers /\ Types'
      /\ stored[a, n] + Cardinality(Carriers(a, n)) <= Cardinality(Records(a, n))
  BY TypesInductive DEF RowsAreCovered, Types, HandlerTypes
<1>1. /\ IsFiniteSet(Carriers(a, n)) /\ Cardinality(Carriers(a, n)) \in Nat
      /\ IsFiniteSet(Records(a, n)) /\ Cardinality(Records(a, n)) \in Nat
      /\ stored[a, n] \in Nat
  BY Counts
<1>2. /\ IsFiniteSet(Carriers(a, n)') /\ Cardinality(Carriers(a, n)') \in Nat
      /\ IsFiniteSet(Records(a, n)') /\ Cardinality(Records(a, n)') \in Nat
      /\ stored'[a, n] \in Nat
  <2>1. IsFiniteSet(Carriers(a, n)')
    <3>1. IsFiniteSet(Handlers) /\ Carriers(a, n)' \subseteq Handlers
      BY DEF Carriers
    <3> QED BY <3>1, FS_Subset
  <2>2. IsFiniteSet(Records(a, n)')
    <3>1. recorded' \in Seq(Entry')
      BY <1>0 DEF Types, ReplayTypes
    <3>2. DOMAIN recorded' = 1 .. Len(recorded') /\ Len(recorded') \in Int
      BY <3>1
    <3>3. IsFiniteSet(1 .. Len(recorded'))
      BY <3>2, FS_Interval
    <3>4. Records(a, n)' \subseteq 1 .. Len(recorded')
      BY <3>2 DEF Records
    <3> QED BY <3>3, <3>4, FS_Subset
  <2>3. stored'[a, n] \in Nat
    BY <1>0 DEF Types, HandlerTypes
  <2> QED BY <2>1, <2>2, <2>3, FS_CardinalityType
<1>n. PICK s \in Nat, c \in Nat, r \in Nat, t \in Nat, d \in Nat, q \in Nat :
         /\ s = stored[a, n] /\ c = Cardinality(Carriers(a, n)) /\ r = Cardinality(Records(a, n))
         /\ t = stored'[a, n] /\ d = Cardinality(Carriers(a, n)') /\ q = Cardinality(Records(a, n)')
  BY <1>1, <1>2
<1>s. SUFFICES t + d <= q
  BY <1>n
<1>b. s + c <= r
  BY <1>0, <1>n
<1>3. Records(a, n) \subseteq Records(a, n)'
  <2>1. recorded \in Seq(Entry)
    BY DEF Types, ReplayTypes
  <2>2. recorded' = recorded \/ \E e \in Entry : recorded' = Append(recorded, e)
    BY <1>0, ReplayStep, RecordStep DEF protection, Replay!Cleanup, Replay!CheckAndRecord, Replay!Record
  <2>3. CASE recorded' = recorded
    BY <2>3 DEF Records
  <2>4. ASSUME NEW e \in Entry, recorded' = Append(recorded, e)
        PROVE  Records(a, n) \subseteq Records(a, n)'
    BY <2>1, <2>4, Appended DEF Records
  <2> QED BY <2>2, <2>3, <2>4
<1>4. r <= q
  BY <1>2, <1>3, <1>n, FS_Subset
<1>5. CASE \E g \in Handlers : handler[g].at = "replay" /\ handler'[g].at = "wallets"
  <2>1. PICK g \in Handlers : handler[g].at = "replay" /\ handler'[g].at = "wallets"
    BY <1>5
  <2>2. /\ handler' = [handler EXCEPT ![g].at = "wallets"] /\ UNCHANGED stored
        /\ handler[g] \in InFlight /\ handler[g].stamp \in 0 .. now
        /\ handler[g].user \in Addresses /\ handler[g].nonce \in Nonces
    BY <1>0, <2>1, OnlyByRecord, AtStation DEF Stations
  <2>3. PICK e \in Entry : /\ recorded' = Append(recorded, e)
                           /\ e.user = handler[g].user /\ e.nonce = handler[g].nonce
    <3> DEFINE e == [user |-> handler[g].user, nonce |-> handler[g].nonce,
                     timestamp |-> handler[g].stamp, at |-> now]
    <3>1. e \in Entry /\ recorded' = Append(recorded, e)
      BY <1>0, <2>1, <2>2, OnlyByRecord, RecordStep
    <3>2. e.user = handler[g].user /\ e.nonce = handler[g].nonce
      OBVIOUS
    <3> HIDE DEF e
    <3> QED BY <3>1, <3>2
  <2>4. recorded \in Seq(Entry)
    BY DEF Types, ReplayTypes
  <2>5. /\ handler'[g].user = handler[g].user /\ handler'[g].nonce = handler[g].nonce
        /\ \A h \in Handlers : h # g => handler'[h] = handler[h]
    BY <1>0, <2>2 DEF InFlight
  <2>6. CASE handler[g].user = a /\ handler[g].nonce = n
    <3>1. Carriers(a, n)' \subseteq Carriers(a, n) \cup {g}
      BY <2>5 DEF Carriers
    <3>2. Len(recorded) + 1 \notin Records(a, n)
      BY <2>4, Appended DEF Records
    <3>3. Records(a, n) \cup {Len(recorded) + 1} \subseteq Records(a, n)'
      <4>1. Len(recorded) + 1 \in DOMAIN recorded' /\ recorded'[Len(recorded) + 1] = e
        BY <2>3, <2>4, Appended
      <4> QED BY <1>3, <2>3, <2>6, <4>1 DEF Records
    <3>4. r + 1 <= q
      <4>1. /\ IsFiniteSet(Records(a, n) \cup {Len(recorded) + 1})
            /\ Cardinality(Records(a, n) \cup {Len(recorded) + 1}) = Cardinality(Records(a, n)) + 1
        BY <1>1, <3>2, FS_AddElement
      <4>2. Cardinality(Records(a, n) \cup {Len(recorded) + 1}) <= Cardinality(Records(a, n)')
        BY <1>2, <3>3, FS_Subset
      <4> QED BY <4>1, <4>2, <1>n
    <3>5. d <= c + 1
      <4>1. c < c + 1 /\ c + 1 \in Nat
        OBVIOUS
      <4>2. Cardinality(Carriers(a, n)) < c + 1
        BY <4>1, <1>n
      <4>3. Cardinality(Carriers(a, n)') <= c + 1
        BY <1>1, <3>1, <4>1, <4>2, OneMore
      <4> QED BY <4>3, <1>n
    <3>6. t = s
      BY <1>n, <2>2
    <3> QED BY <1>b, <3>4, <3>5, <3>6
  <2>7. CASE ~ (handler[g].user = a /\ handler[g].nonce = n)
    <3>1. Carriers(a, n)' \subseteq Carriers(a, n)
      BY <2>5, <2>7 DEF Carriers
    <3>2. d <= c
      BY <1>1, <3>1, <1>n, FS_Subset
    <3>3. t = s
      BY <1>n, <2>2
    <3> QED BY <1>b, <1>4, <3>2, <3>3
  <2> QED BY <2>6, <2>7
<1>6. CASE ~ \E g \in Handlers : handler[g].at = "replay" /\ handler'[g].at = "wallets"
  <2>1. Carriers(a, n)' \subseteq Carriers(a, n)
    <3> SUFFICES ASSUME NEW h \in Handlers, handler'[h].at \in {"wallets", "store"},
                        handler'[h].user = a, handler'[h].nonce = n, handler'[h] # handler[h]
                 PROVE  h \in Carriers(a, n)
      BY DEF Carriers
    <3>1. /\ handler'[h].user = handler[h].user /\ handler'[h].nonce = handler[h].nonce
          /\ handler[h].at = "wallets" /\ handler'[h].at = "store"
      BY <1>0, <1>6, HandlerMoves, AtOf
    <3> QED BY <3>1 DEF Carriers
  <2>2. d <= c
    BY <1>1, <2>1, <1>n, FS_Subset
  <2>3. CASE t = s
    BY <1>b, <1>4, <2>2, <2>3
  <2>4. ASSUME NEW h \in Handlers, handler[h].at = "store", Proceed(h, "schedule"),
               stored' = [stored EXCEPT ![<<handler[h].user, handler[h].nonce>>] = @ + 1],
               handler[h].user = a, handler[h].nonce = n
        PROVE  t + d <= q
    <3>1. h \in Carriers(a, n)
      BY <2>4 DEF Carriers
    <3>2. h \notin Carriers(a, n)'
      <4>1. handler[h] \in InFlight
        BY <1>0, <2>4, AtStation DEF Stations
      <4>2. handler'[h].at = "schedule"
        BY <1>0, <2>4, <4>1 DEF Proceed, InFlight
      <4> QED BY <4>2 DEF Carriers
    <3>3. Carriers(a, n)' \subseteq Carriers(a, n) \ {h}
      BY <2>1, <3>2
    <3>4. /\ IsFiniteSet(Carriers(a, n) \ {h})
          /\ Cardinality(Carriers(a, n) \ {h}) = Cardinality(Carriers(a, n)) - 1
      BY <1>1, <3>1, FS_RemoveElement
    <3>5. Cardinality(Carriers(a, n)') <= Cardinality(Carriers(a, n) \ {h})
      BY <3>3, <3>4, FS_Subset
    <3>6. d <= c - 1
      BY <3>4, <3>5, <1>n
    <3>7. stored'[a, n] = stored[a, n] + 1
      <4>1. stored \in [Addresses \X Nonces -> Nat] /\ <<a, n>> \in Addresses \X Nonces
        BY DEF Types, HandlerTypes
      <4> QED BY <2>4, <4>1
    <3>8. t = s + 1
      BY <1>n, <3>7
    <3> QED BY <1>b, <1>4, <3>6, <3>8
  <2>5. ASSUME NEW h \in Handlers, handler[h].at = "store",
               stored' = [stored EXCEPT ![<<handler[h].user, handler[h].nonce>>] = @ + 1],
               ~ (handler[h].user = a /\ handler[h].nonce = n)
        PROVE  t = s
    <3>1. <<handler[h].user, handler[h].nonce>> # <<a, n>>
      BY <2>5
    <3>2. stored \in [Addresses \X Nonces -> Nat] /\ <<a, n>> \in Addresses \X Nonces
      BY DEF Types, HandlerTypes
    <3>3. stored'[a, n] = stored[a, n]
      BY <2>5, <3>1, <3>2
    <3> QED BY <1>n, <3>3
  <2>6. CASE UNCHANGED stored
    <3>1. t = s
      BY <1>n, <2>6
    <3> QED BY <2>3, <3>1
  <2> QED BY <1>0, <2>3, <2>4, <2>5, <2>6, OnlyByStore
<1> QED BY <1>5, <1>6

\* A recorded nonce is good for one row in the database, however many handlers carry it
\* at the same time.
THEOREM RowsHaveRecords == Spec => []RowPerRecord
<1>1. Init => RowsAreCovered
  <2> SUFFICES ASSUME Init, NEW a \in Addresses, NEW n \in Nonces
               PROVE  stored[a, n] + Cardinality(Carriers(a, n)) <= Cardinality(Records(a, n))
    BY DEF RowsAreCovered
  <2>1. Carriers(a, n) = {}
    BY AtOf DEF Init, Carriers
  <2>2. Records(a, n) = {}
    BY DEF Init, Replay!Init, Records
  <2>3. stored[a, n] = 0
    <3>1. <<a, n>> \in Addresses \X Nonces
      OBVIOUS
    <3> QED BY <3>1 DEF Init
  <2>4. Cardinality(Carriers(a, n)) = 0 /\ Cardinality(Records(a, n)) = 0
    BY <2>1, <2>2, FS_EmptySet
  <2>5. 0 + 0 <= 0
    OBVIOUS
  <2> QED BY <2>3, <2>4, <2>5, Zenon
<1>2. Types /\ RowsAreCovered => RowPerRecord
  <2> SUFFICES ASSUME Types, RowsAreCovered, NEW a \in Addresses, NEW n \in Nonces
               PROVE  stored[a, n] <= Cardinality(Records(a, n))
    BY DEF RowPerRecord, Records
  <2>1. stored[a, n] + Cardinality(Carriers(a, n)) <= Cardinality(Records(a, n))
    BY DEF RowsAreCovered
  <2>2. PICK s \in Nat, c \in Nat, r \in Nat :
           s = stored[a, n] /\ c = Cardinality(Carriers(a, n)) /\ r = Cardinality(Records(a, n))
    BY Counts
  <2>3. s + c <= r
    BY <2>1, <2>2
  <2>4. s <= r
    BY <2>3
  <2> QED BY <2>2, <2>4
<1> QED BY <1>1, <1>2, RowsAreCoveredInductive, AllTypes, PTL DEF Spec

-----------------------------------------------------------------------------
\* The queue holds no more tasks than requests that were let in and are done: each
\* handler on its way has room in the bound for the task it may leave behind.

Busy == {h \in Handlers : handler[h] # Idle}

TasksHaveArrived == waiting + Cardinality(Busy) <= arrivals

\* A step takes in a request, or leaves a task behind and is done, or does neither.
LEMMA WaitingStep ==
  ASSUME HandlerTypes, [Next]_vars
  PROVE  \/ /\ arrivals' = arrivals + 1 /\ waiting' = waiting
            /\ \E h \in Handlers : \E x : handler' = [handler EXCEPT ![h] = x]
         \/ /\ arrivals' = arrivals /\ waiting' \in {waiting, waiting - 1}
            /\ \A h \in Handlers : handler[h] = Idle => handler'[h] = Idle
         \/ /\ arrivals' = arrivals /\ waiting' = waiting + 1
            /\ \E h \in Handlers : handler[h] # Idle /\ Answered(h)
<1>0. DOMAIN handler = Handlers /\ waiting \in Nat
  BY DEF HandlerTypes
<1>1. ASSUME NEW h \in Handlers, NEW i \in Identifiers,
             ArriveBatch(h, i) \/ \E a \in Addresses, n \in Nonces : Arrive(h, i, a, n)
      PROVE  /\ arrivals' = arrivals + 1 /\ waiting' = waiting
             /\ \E g \in Handlers : \E x : handler' = [handler EXCEPT ![g] = x]
  <2>1. \E x : handler' = [handler EXCEPT ![h] = x]
    <3>1. handler = [handler EXCEPT ![h] = handler[h]]
      BY DEF HandlerTypes
    <3>2. CASE ArriveBatch(h, i)
      BY <3>1, <3>2 DEF ArriveBatch
    <3>3. ASSUME NEW a \in Addresses, NEW n \in Nonces, Arrive(h, i, a, n)
          PROVE  \E x : handler' = [handler EXCEPT ![h] = x]
      <4> DEFINE new == [at |-> "verify", user |-> a, nonce |-> n, stamp |-> now]
      <4>1. handler' = handler \/ handler' = [handler EXCEPT ![h] = new]
        BY <3>3 DEF Arrive
      <4> HIDE DEF new
      <4> QED BY <3>1, <4>1
    <3> QED BY <1>1, <3>2, <3>3
  <2>2. arrivals' = arrivals + 1 /\ waiting' = waiting
    BY <1>1 DEF ArriveBatch, Arrive, pool
  <2> QED BY <2>1, <2>2
<1>2. ASSUME NEW h \in Handlers, handler[h] # Idle, Answered(h) \/ \E at \in Stations : Proceed(h, at)
      PROVE  \A g \in Handlers : handler[g] = Idle => handler'[g] = Idle
  BY <1>0, <1>2 DEF Answered, Proceed
<1>3. ASSUME NEW h \in Handlers, NEW ok \in BOOLEAN, Verify(h, ok) \/ Store(h, ok)
      PROVE  /\ arrivals' = arrivals /\ waiting' = waiting
             /\ \A g \in Handlers : handler[g] = Idle => handler'[g] = Idle
  <2>1. handler[h] # Idle
    BY <1>3, AtOf DEF Verify, Store
  <2>2. Answered(h) \/ \E at \in Stations : Proceed(h, at)
    BY <1>3 DEF Verify, Store, Stations
  <2> QED BY <1>2, <1>3, <2>1, <2>2 DEF Verify, Store, pool
<1>4. ASSUME NEW h \in Handlers, ReadClock(h)
      PROVE  /\ arrivals' = arrivals /\ waiting' = waiting
             /\ \A g \in Handlers : handler[g] = Idle => handler'[g] = Idle
  <2>1. handler[h] # Idle
    BY <1>4, AtOf DEF ReadClock
  <2> QED BY <1>0, <1>4, <2>1 DEF ReadClock, pool
<1>5. ASSUME NEW h \in Handlers, CheckReplay(h) \/ CheckWallets(h)
      PROVE  /\ arrivals' = arrivals /\ waiting' = waiting
             /\ \A g \in Handlers : handler[g] = Idle => handler'[g] = Idle
  <2>1. handler[h] # Idle
    BY <1>5, AtOf DEF CheckReplay, CheckWallets
  <2>2. Answered(h) \/ \E at \in Stations : Proceed(h, at)
    BY <1>5 DEF CheckReplay, CheckWallets, Stations
  <2> QED BY <1>2, <1>5, <2>1, <2>2 DEF CheckReplay, CheckWallets, pool
<1>6. ASSUME NEW h \in Handlers, NEW ok \in BOOLEAN, Schedule(h, ok) \/ ProcessSingle(h, ok)
      PROVE  /\ arrivals' = arrivals /\ waiting' \in {waiting, waiting + 1}
             /\ handler[h] # Idle /\ Answered(h)
  BY <1>6, AtOf DEF Schedule, ProcessSingle
<1>7. ASSUME (\E w \in Wallets, success \in BOOLEAN : Execute(w, success)) \/ Cancel
      PROVE  arrivals' = arrivals /\ waiting' = waiting - 1 /\ handler' = handler
  BY <1>7 DEF Execute, Cancel
<1>8. ASSUME CleanUp \/ Tick \/ UNCHANGED vars
      PROVE  arrivals' = arrivals /\ waiting' = waiting /\ handler' = handler
  BY <1>8 DEF CleanUp, Tick, vars, pool
<1> QED BY <1>1, <1>2, <1>3, <1>4, <1>5, <1>6, <1>7, <1>8 DEF Next

LEMMA TasksHaveArrivedInductive == Types /\ TasksHaveArrived /\ [Next]_vars => TasksHaveArrived'
<1> SUFFICES ASSUME Types, TasksHaveArrived, [Next]_vars
             PROVE  TasksHaveArrived'
  OBVIOUS
<1>1. /\ HandlerTypes /\ DOMAIN handler = Handlers /\ waiting \in Nat /\ arrivals \in Nat
      /\ waiting' \in Nat /\ arrivals' \in Nat /\ DOMAIN handler' = Handlers
  BY TypesInductive DEF Types, HandlerTypes
<1>2. /\ IsFiniteSet(Busy) /\ IsFiniteSet(Busy')
      /\ Cardinality(Busy) \in Nat /\ Cardinality(Busy') \in Nat
  <2>1. Busy \subseteq Handlers /\ Busy' \subseteq Handlers
    BY DEF Busy
  <2> QED BY <2>1, FS_Subset, FS_CardinalityType
<1>3. PICK b \in Nat, c \in Nat : b = Cardinality(Busy) /\ c = Cardinality(Busy')
  BY <1>2
<1>4. waiting + b <= arrivals
  BY <1>3 DEF TasksHaveArrived
<1> SUFFICES waiting' + c <= arrivals'
  BY <1>3 DEF TasksHaveArrived
<1>5. CASE /\ arrivals' = arrivals + 1 /\ waiting' = waiting
           /\ \E h \in Handlers : \E x : handler' = [handler EXCEPT ![h] = x]
  <2>1. PICK h \in Handlers : \E x : handler' = [handler EXCEPT ![h] = x]
    BY <1>5
  <2>2. Busy' \subseteq Busy \cup {h}
    BY <1>1, <2>1 DEF Busy
  <2>3. c <= b + 1
    <3>1. b < b + 1 /\ b + 1 \in Nat
      OBVIOUS
    <3>2. Cardinality(Busy) < b + 1
      BY <1>3, <3>1
    <3>3. Cardinality(Busy') <= b + 1
      BY <1>2, <2>2, <3>1, <3>2, OneMore
    <3> QED BY <1>3, <3>3
  <2> QED BY <1>1, <1>4, <1>5, <2>3
<1>6. CASE /\ arrivals' = arrivals /\ waiting' \in {waiting, waiting - 1}
           /\ \A h \in Handlers : handler[h] = Idle => handler'[h] = Idle
  <2>1. Busy' \subseteq Busy
    BY <1>6 DEF Busy
  <2>2. c <= b
    BY <1>2, <1>3, <2>1, FS_Subset
  <2> QED BY <1>1, <1>4, <1>6, <2>2
<1>7. CASE /\ arrivals' = arrivals /\ waiting' = waiting + 1
           /\ \E h \in Handlers : handler[h] # Idle /\ Answered(h)
  <2>1. PICK h \in Handlers : handler[h] # Idle /\ Answered(h)
    BY <1>7
  <2>2. h \in Busy /\ Busy' \subseteq Busy \ {h}
    BY <1>1, <2>1 DEF Busy, Answered
  <2>3. IsFiniteSet(Busy \ {h}) /\ Cardinality(Busy \ {h}) = Cardinality(Busy) - 1
    BY <1>2, <2>2, FS_RemoveElement
  <2>4. Cardinality(Busy') <= Cardinality(Busy \ {h})
    BY <2>2, <2>3, FS_Subset
  <2>5. c <= b - 1
    BY <1>3, <2>3, <2>4
  <2> QED BY <1>1, <1>4, <1>7, <2>5
<1> QED BY <1>1, <1>5, <1>6, <1>7, WaitingStep

\* Every variable keeps its type: handlers carry no stamp younger than the clock, nor
\* does the replay protection, and no task is in the queue that no request brought.
THEOREM AdmissionTypeCorrect == Spec => []TypeOK
<1>1. Init => TasksHaveArrived
  <2> SUFFICES ASSUME Init PROVE TasksHaveArrived
    OBVIOUS
  <2>1. Busy = {}
    BY DEF Init, Busy
  <2>2. Cardinality(Busy) = 0 /\ waiting = 0 /\ arrivals = 0
    BY <2>1, FS_EmptySet DEF Init
  <2> QED BY <2>2 DEF TasksHaveArrived
<1>2. Types /\ TasksHaveArrived => TypeOK
  <2> SUFFICES ASSUME Types, TasksHaveArrived PROVE TypeOK
    OBVIOUS
  <2>1. waiting \in 0 .. MaxRequests
    <3>1. IsFiniteSet(Busy) /\ Cardinality(Busy) \in Nat
      <4>1. Busy \subseteq Handlers
        BY DEF Busy
      <4> QED BY <4>1, FS_Subset, FS_CardinalityType
    <3>2. waiting \in Nat /\ arrivals \in 0 .. MaxRequests /\ MaxRequests \in Nat
      BY DEF Types, HandlerTypes
    <3> QED BY <3>1, <3>2 DEF TasksHaveArrived
  <2>2. \A h \in Handlers : handler[h] \in {Idle, Batch} \/
          handler[h] \in [at : {"verify", "stamp", "replay", "wallets", "store", "schedule"},
                          user : Addresses, nonce : Nonces, stamp : 0 .. now]
    BY DEF Types, HandlerTypes, InFlight, Stations
  <2> QED BY <2>1, <2>2 DEF TypeOK, Types, LimiterTypes, ReplayTypes, HandlerTypes
<1> QED BY <1>1, <1>2, TasksHaveArrivedInductive, AllTypes, PTL DEF Spec

-----------------------------------------------------------------------------
\* Nothing but the look at the wallets takes a handler to the database.
LEMMA OnlyWithWallets ==
  ASSUME HandlerTypes, [Next]_vars, NEW g \in Handlers,
         handler[g].at = "wallets", handler'[g].at = "store"
  PROVE  HealthyWallets # {}
<1>0. DOMAIN handler = Handlers /\ handler[g] # Idle /\ handler[g] # Batch /\ handler'[g] # handler[g]
  BY AtOf DEF HandlerTypes
<1>1. ASSUME NEW h \in Handlers, h # g, NEW x, handler' = [handler EXCEPT ![h] = x]
      PROVE  FALSE
  BY <1>0, <1>1
<1>2. ASSUME Answered(g) PROVE FALSE
  BY <1>0, <1>2, AtOf DEF Answered
<1>3. ~ \E h \in Handlers, i \in Identifiers, a \in Addresses, n \in Nonces : Arrive(h, i, a, n)
  BY <1>0 DEF Arrive, HandlerTypes
<1>4. ~ \E h \in Handlers, i \in Identifiers : ArriveBatch(h, i)
  BY <1>0 DEF ArriveBatch, HandlerTypes
<1>5. ~ \E h \in Handlers, ok \in BOOLEAN :
           Verify(h, ok) \/ Store(h, ok) \/ Schedule(h, ok) \/ ProcessSingle(h, ok)
  BY <1>0 DEF Verify, Store, Schedule, ProcessSingle, Answered, Proceed, HandlerTypes
<1>6. ~ \E h \in Handlers : ReadClock(h) \/ CheckReplay(h)
  BY <1>0 DEF ReadClock, CheckReplay, Answered, Proceed, HandlerTypes
<1>7. ASSUME NEW h \in Handlers, CheckWallets(h) PROVE h = g
  BY <1>0, <1>7 DEF CheckWallets, Answered, Proceed, HandlerTypes
<1>8. CheckWallets(g)
  BY <1>0, <1>3, <1>4, <1>5, <1>6, <1>7 DEF Next, Execute, Cancel, CleanUp, Tick, vars
<1> QED BY <1>2, <1>8 DEF CheckWallets

\* Once no wallet is healthy and the last task is done, submit_transaction refuses each
\* request, so nothing but a batch ever makes a wallet healthy again.
THEOREM ShutUntilABatch == Spec => OnlyABatchReopens
<1>1. ASSUME Types, [Next]_vars, Shut
      PROVE  Shut' \/ \E h \in Handlers : handler[h] = Batch /\ handler'[h] = Idle
  <2>0. HandlerTypes /\ DOMAIN handler = Handlers
    BY <1>1 DEF Types, HandlerTypes
  <2> SUFFICES ASSUME ~ \E h \in Handlers : handler[h] = Batch /\ handler'[h] = Idle
               PROVE  Shut'
    OBVIOUS
  <2>1. \A h \in Handlers, ok \in BOOLEAN : ~ ProcessSingle(h, ok) /\ ~ Schedule(h, ok)
    BY <1>1, <2>0 DEF ProcessSingle, Answered, Schedule, Shut
  <2>2. ~ Cancel /\ \A w \in Wallets, success \in BOOLEAN : ~ Execute(w, success)
    <3>1. ~ (waiting > 0)
      BY <1>1 DEF Shut
    <3> QED BY <3>1 DEF Cancel, Execute
  <2>3. wallets' = wallets /\ waiting' = waiting
    BY <1>1, <2>1, <2>2 DEF Next, Arrive, ArriveBatch, Verify, Store, ReadClock, CheckReplay,
       CheckWallets, CleanUp, Tick, vars, pool
  <2>4. HealthyWallets' = {} /\ waiting' = 0
    BY <1>1, <2>3 DEF Shut, HealthyWallets, Healthy
  <2>5. ASSUME NEW h \in Handlers PROVE handler'[h].at \notin {"store", "schedule"}
    <3>1. HealthyWallets = {} /\ handler[h].at \notin {"store", "schedule"}
      BY <1>1 DEF Shut
    <3>2. ~ (handler[h].at = "wallets" /\ handler'[h].at = "store")
      BY <1>1, <2>0, <3>1, OnlyWithWallets
    <3>3. CASE handler'[h] = handler[h]
      BY <3>1, <3>3
    <3>4. CASE handler'[h] # handler[h]
      BY <1>1, <2>0, <3>1, <3>2, <3>4, HandlerMoves, AtOf
    <3> QED BY <3>3, <3>4
  <2> QED BY <2>4, <2>5 DEF Shut
<1>2. Types /\ [Next]_vars =>
        [Shut => Shut' \/ \E h \in Handlers : handler[h] = Batch /\ handler'[h] = Idle]_vars
  BY <1>1
<1> QED BY <1>2, AllTypes, PTL DEF Spec, OnlyABatchReopens
=============================================================================
