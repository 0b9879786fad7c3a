---------------------------- MODULE CacheManager ----------------------------
(***************************************************************************)
(* cache/memory.rs and cache/redis.rs: a CacheManager with a bounded tier  *)
(* in memory in front of an optional tier in Redis.  Each tier has its own *)
(* lock; one action is one call into one tier.  Redis may fail at any of   *)
(* them, before or after it has done what it was asked.                    *)
(*                                                                         *)
(* Time shows only as entries that lapse: is_expired turns true of them.   *)
(***************************************************************************)
EXTENDS Naturals, FiniteSets

CONSTANTS
    Keys, Values,
    Clients, \* concurrent callers
    MaxSize, \* max_size of the tier in memory
    None     \* no key, no value

CacheAssumption == None \notin Keys \cup Values /\ MaxSize \in Nat \ {0}

VARIABLES
    use_redis, \* is there a Redis at all?
    memory,    \* the entries of the memory tier, by key; of last_accessed, which keys' it is after
    redis,     \* the value of each key, or None
    call,      \* per client: its call and how far it is
    \* history
    truth,     \* per key: the value of the last write, None if it removed the key
    suspect    \* keys whose last write met another call, or failed in Redis

stores == <<use_redis, memory, redis>>

Nothing == [k \in {} |-> None]

Idle == [at |-> "idle", key |-> None, value |-> None, met |-> FALSE]

Init ==
    /\ use_redis \in BOOLEAN
    /\ memory = Nothing
    /\ redis = [k \in Keys |-> None]
    /\ call = [c \in Clients |-> Idle]
    /\ truth = [k \in Keys |-> None]
    /\ suspect = {}

-----------------------------------------------------------------------------
\* MemoryCache: each of its operations holds the write lock of the map.

Fresh(k) == k \in DOMAIN memory /\ memory[k].fresh

Retain(entries, kept) == [j \in kept |-> [entries[j] EXCEPT !.older = @ \cap kept]]

Without(entries, k) == Retain(entries, DOMAIN entries \ {k})

\* The entry of k is now the one accessed last.
Latest(entries, k, v) ==
    [j \in DOMAIN entries \cup {k} |->
        IF j = k THEN [value |-> v, fresh |-> TRUE, older |-> DOMAIN entries \ {k}]
        ELSE Without(entries, k)[j]]

\* Mutation: no room is made.
Unbounded(entries, k) == entries

\* evict_lru makes room for a new key; an expired entry counts like any other.
MakeRoom(entries, k) ==
    IF Cardinality(DOMAIN entries) >= MaxSize /\ k \notin DOMAIN entries
    THEN Without(entries, CHOOSE j \in DOMAIN entries : entries[j].older = {})
    ELSE entries

MemorySet(k, v) == memory' = Latest(MakeRoom(memory, k), k, v)

\* An entry that is found is accessed, an expired one removed.
MemoryGet(k) ==
    memory' = IF Fresh(k) THEN Latest(memory, k, memory[k].value) ELSE Without(memory, k)

-----------------------------------------------------------------------------
\* History: who meets whom.

Writing == {"set_redis", "delete_redis", "clear_redis"}

\* The client's call concerns the key; clear concerns them all.
Concerns(c, k) == call[c] # Idle /\ (call[c].key = k \/ call[c].at = "clear_redis")

\* The calls a new one on the keys meets, if it or they write.
Met(keys, writes) ==
    {c \in Clients : /\ \E k \in keys : Concerns(c, k)
                     /\ writes \/ call[c].at \in Writing}

\* The client's new call is at its place, and those it meets know.
Starts(c, keys, new, writes) ==
    call' = [d \in Clients |->
                IF d = c THEN [new EXCEPT !.met = Met(keys, writes) # {}]
                ELSE [call[d] EXCEPT !.met = @ \/ d \in Met(keys, writes)]]

\* A write of v to the keys is over: with nobody in between and done in Redis,
\* it counts; otherwise what the tiers hold is anybody's guess.
Written(c, keys, v, done) ==
    /\ truth' = [k \in Keys |-> IF k \in keys THEN v ELSE truth[k]]
    /\ suspect' = IF call[c].met \/ ~ done THEN suspect \cup keys ELSE suspect \ keys
    /\ call' = [call EXCEPT ![c] = Idle]

-----------------------------------------------------------------------------
\* get: memory, Redis, and the value found there back into memory.

GetMemory(c, k) ==
    /\ call[c] = Idle
    /\ MemoryGet(k)
    /\ IF Fresh(k) \/ ~ use_redis
       THEN UNCHANGED call
       ELSE Starts(c, {k}, [Idle EXCEPT !.at = "get_redis", !.key = k], FALSE)
    /\ UNCHANGED <<use_redis, redis, truth, suspect>>

\* An error of Redis is taken for a missing key.
GetRedis(c, reply) ==
    LET k == call[c].key IN
    /\ call[c].at = "get_redis"
    /\ call' = IF reply /\ redis[k] # None
               THEN [call EXCEPT ![c].at = "fill", ![c].value = redis[k]]
               ELSE [call EXCEPT ![c] = Idle]
    /\ UNCHANGED <<stores, truth, suspect>>

GetFill(c) ==
    /\ call[c].at = "fill"
    /\ MemorySet(call[c].key, call[c].value)
    /\ call' = [call EXCEPT ![c] = Idle]
    /\ UNCHANGED <<use_redis, redis, truth, suspect>>

-----------------------------------------------------------------------------
\* set.  An error of SETEX ends the caller: execute panics.

SetMemory(c, k, v) ==
    /\ call[c] = Idle
    /\ Starts(c, {k}, [Idle EXCEPT !.at = "set_redis", !.key = k, !.value = v], TRUE)
    /\ MemorySet(k, v)
    /\ suspect' = suspect \cup {k}
    /\ UNCHANGED <<use_redis, redis, truth>>

SetRedis(c, done) ==
    LET k == call[c].key IN
    /\ call[c].at = "set_redis"
    /\ redis' = IF use_redis /\ done THEN [redis EXCEPT ![k] = call[c].value] ELSE redis
    /\ Written(c, {k}, call[c].value, done \/ ~ use_redis)
    /\ UNCHANGED <<use_redis, memory>>

-----------------------------------------------------------------------------
\* delete

DeleteMemory(c, k) ==
    /\ call[c] = Idle
    /\ Starts(c, {k}, [Idle EXCEPT !.at = "delete_redis", !.key = k], TRUE)
    /\ memory' = Without(memory, k)
    /\ suspect' = suspect \cup {k}
    /\ UNCHANGED <<use_redis, redis, truth>>

\* Mutation: the key stays in Redis.
DeleteForgotten(c, done) ==
    /\ call[c].at = "delete_redis"
    /\ Written(c, {call[c].key}, None, done \/ ~ use_redis)
    /\ UNCHANGED stores

DeleteRedis(c, done) ==
    LET k == call[c].key IN
    /\ call[c].at = "delete_redis"
    /\ redis' = IF use_redis /\ done THEN [redis EXCEPT ![k] = None] ELSE redis
    /\ Written(c, {k}, None, done \/ ~ use_redis)
    /\ UNCHANGED <<use_redis, memory>>

-----------------------------------------------------------------------------
\* clear

ClearMemory(c) ==
    /\ call[c] = Idle
    /\ Starts(c, Keys, [Idle EXCEPT !.at = "clear_redis"], TRUE)
    /\ memory' = Nothing
    /\ suspect' = Keys
    /\ UNCHANGED <<use_redis, redis, truth>>

\* KEYS and DEL under one write lock on the connection (redis.rs:247), which every
\* operation of RedisCache takes and all its clones share: nobody sets a key in between.
ClearRedis(c, done) ==
    /\ call[c].at = "clear_redis"
    /\ redis' = IF use_redis /\ done THEN [k \in Keys |-> None] ELSE redis
    /\ Written(c, Keys, None, done \/ ~ use_redis)
    /\ UNCHANGED <<use_redis, memory>>

-----------------------------------------------------------------------------
\* Entries lapse; the clean-up task drops those that have.

Lapse(k) ==
    /\ Fresh(k)
    /\ memory' = [memory EXCEPT ![k].fresh = FALSE]
    /\ UNCHANGED <<use_redis, redis, call, truth, suspect>>

RedisLapse(k) ==
    /\ redis[k] # None
    /\ redis' = [redis EXCEPT ![k] = None]
    /\ UNCHANGED <<use_redis, memory, call, truth, suspect>>

CleanupExpired ==
    /\ memory' = Retain(memory, {k \in DOMAIN memory : memory[k].fresh})
    /\ UNCHANGED <<use_redis, redis, call, truth, suspect>>

Next ==
    \/ \E c \in Clients :
          \/ \E k \in Keys : \/ GetMemory(c, k) \/ DeleteMemory(c, k)
                             \/ \E v \in Values : SetMemory(c, k, v)
          \/ \E done \in BOOLEAN : GetRedis(c, done) \/ SetRedis(c, done)
                                   \/ DeleteRedis(c, done) \/ ClearRedis(c, done)
          \/ GetFill(c) \/ ClearMemory(c)
    \/ \E k \in Keys : Lapse(k) \/ RedisLapse(k)
    \/ CleanupExpired

-----------------------------------------------------------------------------
\* Properties

Places == {"idle", "get_redis", "fill"} \cup Writing

\* Every variable has its type; the entries in memory are in an order, and the memory
\* tier never outgrows max_size, whatever fills it.
TypeOK ==
    /\ DOMAIN memory \subseteq Keys /\ Cardinality(DOMAIN memory) <= MaxSize
    /\ \A k \in DOMAIN memory :
        /\ memory[k] \in [value : Values, fresh : BOOLEAN, older : SUBSET (DOMAIN memory \ {k})]
        /\ \A j \in DOMAIN memory \ {k} : j \in memory[k].older <=> k \notin memory[j].older
    /\ redis \in [Keys -> Values \cup {None}]
    /\ ~ use_redis => redis = [k \in Keys |-> None]
    /\ call \in [Clients -> [at : Places, key : Keys \cup {None},
                             value : Values \cup {None}, met : BOOLEAN]]
    /\ truth \in [Keys -> Values \cup {None}] /\ suspect \subseteq Keys

\* A stale or deleted value comes back only through a race or a fault: once a write
\* has gone through both tiers undisturbed, a get finds its value or nothing, and
\* no tier or fill under way holds any other.
StaleNeedsARace ==
    \A k \in Keys \ suspect :
        /\ k \in DOMAIN memory => memory[k].value = truth[k]
        /\ redis[k] \in {truth[k], None}
        /\ \A c \in Clients : call[c].at = "fill" /\ call[c].key = k
                                 => call[c].value = truth[k]
=============================================================================
