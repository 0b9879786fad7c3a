-------------------------- MODULE MCTaskScheduler --------------------------
(* Small instances of TaskScheduler for TLC. *)
EXTENDS TaskScheduler, TLC

\* Ids, submitters and workers are interchangeable; priorities are numbers.
Symmetry ==
    Permutations(Tasks) \cup Permutations(Submitters) \cup Permutations(Workers)
=============================================================================
