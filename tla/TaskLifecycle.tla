--------------------------- MODULE TaskLifecycle ---------------------------
(***************************************************************************)
(* What the task queue promises about one task, whatever the interleaving  *)
(* of submitters, workers and cancellers: a task has at most one live copy,*)
(* it is taken at most MaxRetries + 1 times, and once it is cancelled it   *)
(* is never taken again.  TaskScheduler implements this specification.     *)
(***************************************************************************)
EXTENDS Naturals

CONSTANTS Tasks,      \* the task ids
          MaxRetries  \* how often a task may go back to the queue

VARIABLES phase,      \* where the single live copy of each task is
          attempts    \* how often each task has been taken from the queue

vars == <<phase, attempts>>

Phases == {"new", "queued", "taken", "revoked", "done", "cancelled"}

Init ==
    /\ phase = [t \in Tasks |-> "new"]
    /\ attempts = [t \in Tasks |-> 0]

\* The only transitions of a task that leave its attempts alone.
Moves == { <<"new", "queued">>,        \* schedule_task
           <<"taken", "done">>,        \* complete_task
           <<"queued", "cancelled">>,  \* cancel_task finds it waiting
           <<"taken", "revoked">>,     \* cancel_task finds it in processing
           <<"revoked", "done">>,      \* its worker completes it all the same
           <<"revoked", "cancelled">> } \* its worker asks for a retry: refused

Move(t) ==
    /\ \E p \in Phases :
          /\ <<phase[t], p>> \in Moves
          /\ phase' = [phase EXCEPT ![t] = p]
    /\ UNCHANGED attempts

Take(t) ==
    /\ phase[t] = "queued"
    /\ phase' = [phase EXCEPT ![t] = "taken"]
    /\ attempts' = [attempts EXCEPT ![t] = @ + 1]

Requeue(t) ==
    /\ phase[t] = "taken"
    /\ attempts[t] <= MaxRetries
    /\ phase' = [phase EXCEPT ![t] = "queued"]
    /\ UNCHANGED attempts

Next == \E t \in Tasks : Move(t) \/ Take(t) \/ Requeue(t)

Spec == Init /\ [][Next]_vars
=============================================================================
