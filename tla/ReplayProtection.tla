-------------------------- MODULE ReplayProtection --------------------------
(***************************************************************************)
(* security/replay.rs: the nonces a user has shown within the window.  The *)
(* clock is read before the lock is taken, so an entry may be recorded     *)
(* with a timestamp older than those already there.                        *)
(***************************************************************************)
EXTENDS Naturals, Sequences

CONSTANTS
    Addresses, \* users
    Nonces,
    Window     \* window_duration

ReplayAssumption == Nonces \subseteq Nat /\ Window \in Nat \ {0}

VARIABLES
    entries,  \* per user, the entries: a nonce and its timestamp
    recorded  \* history: all the entries ever made, with user and moment, in order

Init == entries = [a \in Addresses |-> {}] /\ recorded = << >>

\* An entry counts as long as it is younger than the window.
Live(e, stamp) == e.timestamp + Window > stamp

IsNonceUsed(a, nonce, stamp) ==
    \E e \in entries[a] : e.nonce = nonce /\ Live(e, stamp)

\* Mutation: the entry carries the end of its window.
RecordExpiry(a, nonce, stamp, now, fresh) ==
    /\ entries' = IF ~ fresh THEN entries
                  ELSE [entries EXCEPT ![a] = {e \in @ : Live(e, stamp)}
                                  \cup {[nonce |-> nonce, timestamp |-> stamp + Window]}]
    /\ recorded' = IF ~ fresh THEN recorded
                   ELSE Append(recorded, [user |-> a, nonce |-> nonce, timestamp |-> stamp,
                                          at |-> now])

Record(a, nonce, stamp, now, fresh) ==
    /\ entries' = IF ~ fresh THEN entries
                  ELSE [entries EXCEPT ![a] = {e \in @ : Live(e, stamp)}
                                              \cup {[nonce |-> nonce, timestamp |-> stamp]}]
    /\ recorded' = IF ~ fresh THEN recorded
                   ELSE Append(recorded, [user |-> a, nonce |-> nonce, timestamp |-> stamp,
                                          at |-> now])

\* Mutation: only an older entry is a replay.
RecordUnlessOlder(a, nonce, stamp, now, fresh) ==
    /\ fresh = ~ \E e \in entries[a] : e.nonce = nonce /\ Live(e, stamp) /\ e.timestamp < stamp
    /\ Record(a, nonce, stamp, now, fresh)

\* check_and_record with the clock's value stamp, under the write lock at now.  A
\* refusal cleans nothing up.
CheckAndRecord(a, nonce, stamp, now, fresh) ==
    /\ fresh = ~ IsNonceUsed(a, nonce, stamp)
    /\ Record(a, nonce, stamp, now, fresh)

\* Mutation: everything older than now is cleaned up.
CleanupPast(stamp) ==
    /\ entries' = [a \in Addresses |-> {e \in entries[a] : e.timestamp >= stamp}]
    /\ UNCHANGED recorded

\* The cleanup task, with the cutoff of a clock it has read at stamp.
Cleanup(stamp) ==
    /\ entries' = [a \in Addresses |-> {e \in entries[a] : Live(e, stamp)}]
    /\ UNCHANGED recorded

-----------------------------------------------------------------------------
\* Properties

\* In whatever order late readers of the clock come to the lock, a nonce that was
\* recorded is not recorded again before its window is over.
NonceOncePerWindow ==
    \A i, j \in DOMAIN recorded :
        LET e == recorded[i]  f == recorded[j] IN
        i < j /\ e.user = f.user /\ e.nonce = f.nonce => f.at >= e.timestamp + Window
=============================================================================
