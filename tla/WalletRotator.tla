---------------------------- MODULE WalletRotator ----------------------------
(***************************************************************************)
(* wallet/rotation.rs: a list of wallets that the rotator shares with its  *)
(* owner, put into an order of the policy's strategy, and counts of how    *)
(* often each has been rotated.                                            *)
(*                                                                         *)
(* A rotation copies the list, orders the copy, counts its wallets one     *)
(* after the other, each under a lock of its own, and ends.  A forced one  *)
(* counts them all a second time, with its own reason.  Whether to rotate  *)
(* is asked with a call of its own, should_rotate, which binds nobody and  *)
(* is all that last_rotation is for: both are left out.                    *)
(***************************************************************************)
EXTENDS Naturals, FiniteSets, Sequences, SequencesExt

CONSTANTS
    Members,       \* the wallets that may be listed
    Rotators,      \* concurrent callers
    Worn,          \* the wallets that a sorting strategy puts last
    MaxRotations   \* bound: rotations of a wallet

VARIABLES
    strategy,
    listed,         \* the shared list
    rotation_index,
    total_rotations,
    job,            \* per caller: its rotation
    \* history
    moved           \* wallets that have not been in the list all the time

NoJob == [at |-> "idle"]

Init ==
    /\ strategy \in {"RoundRobin", "LeastUsed", "Random"}
    /\ listed = SetToSeq(Members)
    /\ rotation_index = 0
    /\ total_rotations = [w \in Members |-> 0]
    /\ job = [r \in Rotators |-> NoJob]
    /\ moved = {}

-----------------------------------------------------------------------------
\* The world

\* The owner changes the list.
Leave(w) ==
    /\ \E i \in DOMAIN listed : listed[i] = w /\ listed' = RemoveAt(listed, i)
    /\ moved' = moved \cup {w}
    /\ UNCHANGED <<strategy, rotation_index, total_rotations, job>>

Join(w) ==
    /\ ~ Contains(listed, w)
    /\ listed' = Append(listed, w)
    /\ UNCHANGED <<strategy, rotation_index, total_rotations, job, moved>>

-----------------------------------------------------------------------------
\* rotate_wallets and force_rotation

\* The sorting strategies are, like LeastUsed, a stable sort by a key of the wallet,
\* which has two values here.
Before(v, w, list) ==
    \/ v \notin Worn /\ w \in Worn
    \/ (v \in Worn <=> w \in Worn) /\ \E i, j \in DOMAIN list : i < j /\ list[i] = v /\ list[j] = w

Sorted(list) ==
    {s \in SetToSeqs(ToSet(list)) : \A i, j \in DOMAIN s : i < j => Before(s[i], s[j], list)}

Orders(list) ==
    CASE strategy = "RoundRobin" -> {list}
      [] strategy = "LeastUsed" -> Sorted(list)
      [] strategy = "Random" -> SetToSeqs(ToSet(list))

Steps(r, to) ==
    /\ job' = [job EXCEPT ![r] = to]
    /\ UNCHANGED <<strategy, listed, moved>>

\* A caller rotates, or forces a rotation: the copy of the list, and its order unless
\* that is round robin.
Copy(r, passes) ==
    /\ job[r].at = "idle"
    /\ \E order \in Orders(listed) :
        Steps(r, [at |-> "ordering", passes |-> passes, order |-> order])
    /\ UNCHANGED <<rotation_index, total_rotations>>

\* rotate_round_robin moves the index on for every wallet that it pushes.
Advance(list) == Len(list)

\* Round robin, and LoadBalanced: the copy from the index on, under its lock.
FromIndex(list) == [i \in DOMAIN list |-> list[((rotation_index + i - 1) % Len(list)) + 1]]

\* Mutation: a rotation counts for the wallet that it puts first.
FirstOnly(order) == IF order = << >> THEN << >> ELSE <<Head(order)>>

\* The wallets that a rotation counts for.
Rotated(order) == order

Turn(r) ==
    /\ job[r].at = "ordering"
    /\ LET list == job[r].order
           order == IF strategy = "RoundRobin" THEN FromIndex(list) ELSE list IN
       /\ Steps(r, [at |-> "counting", passes |-> job[r].passes, order |-> order,
                  todo |-> Rotated(order)])
       /\ rotation_index' =
            IF strategy = "RoundRobin" THEN rotation_index + Advance(list) ELSE rotation_index
    /\ UNCHANGED total_rotations

\* update_rotation_stats for the next wallet of the order.
Count(r) ==
    /\ job[r].at \in {"counting", "recounting"} /\ job[r].todo # << >>
    /\ LET w == Head(job[r].todo) IN
       /\ total_rotations[w] < MaxRotations
       /\ total_rotations' = [total_rotations EXCEPT ![w] = @ + 1]
    /\ Steps(r, [job[r] EXCEPT !.todo = Tail(@)])
    /\ UNCHANGED rotation_index

\* The end of rotate_wallets; force_rotation goes on to count the wallets again.
Finish(r) ==
    /\ job[r].at = "counting" /\ job[r].todo = << >>
    /\ Steps(r, IF job[r].passes = 2 THEN [job[r] EXCEPT !.at = "recounting", !.todo = Rotated(job[r].order)]
                ELSE NoJob)
    /\ UNCHANGED <<rotation_index, total_rotations>>

FinishForced(r) ==
    /\ job[r].at = "recounting" /\ job[r].todo = << >>
    /\ Steps(r, NoJob)
    /\ UNCHANGED <<rotation_index, total_rotations>>

Next ==
    \/ \E w \in Members : Leave(w) \/ Join(w)
    \/ \E r \in Rotators :
        \/ \E passes \in {1, 2} : Copy(r, passes)
        \/ Turn(r) \/ Count(r) \/ Finish(r) \/ FinishForced(r)

-----------------------------------------------------------------------------
\* Properties

Lists == {s \in BoundedSeq(Members, Cardinality(Members)) : IsInjective(s)}

\* Every variable has its type.
TypeOK ==
    /\ strategy \in {"RoundRobin", "LeastUsed", "Random"}
    /\ listed \in Lists
    /\ rotation_index \in Nat
    /\ total_rotations \in [Members -> 0 .. MaxRotations]
    /\ \A r \in Rotators : job[r].at \in {"idle", "ordering", "counting", "recounting"}
    /\ moved \subseteq Members

Busy == {r \in Rotators : job[r].at \in {"counting", "recounting"}}

\* Rotating prefers no wallet.  None that stays in the list is rotated more than
\* another that does, but for the rotations under way, which are each at most one
\* ahead: whatever the strategy, and however rotations overlap or the list changes
\* around them.  And while nobody joins or leaves, every round robin rotation returns
\* the list in its own order: the index moves on by a whole turn each time.
RotationsBalanced ==
    /\ \A w1, w2 \in Members \ moved :
        total_rotations[w1] <= total_rotations[w2] + Cardinality(Busy)
    /\ strategy = "RoundRobin" /\ moved = {} => \A r \in Busy : job[r].order = listed

RotatorAssumption ==
    IsFiniteSet(Members) /\ IsFiniteSet(Rotators) /\ Worn \subseteq Members /\ MaxRotations \in Nat
=============================================================================
