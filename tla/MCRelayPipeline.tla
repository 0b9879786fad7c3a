-------------------------- MODULE MCRelayPipeline --------------------------
(* Small instances of RelayPipeline for TLC. *)
EXTENDS RelayPipeline, TLC

\* Ids, handlers and wallets are interchangeable.
Symmetry ==
    Permutations(Tasks) \cup Permutations(Submitters) \cup Permutations(Wallets)
=============================================================================
