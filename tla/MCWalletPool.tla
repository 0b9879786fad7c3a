---------------------------- MODULE MCWalletPool ----------------------------
(* Small instances of WalletPool for TLC. *)
EXTENDS WalletPool, TLC

CONSTANTS a1, a2

MCAddresses == {a1, a2}
MCInitial == <<a1, a2>>
AllStrategies == {"RoundRobin", "LeastUsed", "BestPerformance", "Random"}
MCMaxConcurrent == [s \in Strategies |-> IF s = "RoundRobin" THEN 2 ELSE 1]
MCMaxUses == [s \in Strategies |-> IF s = "RoundRobin" THEN 3 ELSE 2]
MCMaxConcurrent1 == [s \in Strategies |-> 1]
MCMaxUses1 == [s \in Strategies |-> 4]

Symmetry == Permutations(Users) \cup Permutations(Admins)
=============================================================================
