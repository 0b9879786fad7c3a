---------------------------- MODULE MCAdmission ----------------------------
(* Small instances of Admission for TLC. *)
EXTENDS Admission, TLC

\* A new wallet, which one failure makes unhealthy, and one that a success heals.
WalletPasts == {[total |-> 0, failed |-> 0], [total |-> 5, failed |-> 1]}

Symmetry == Permutations(Handlers)
=============================================================================
