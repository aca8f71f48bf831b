---------------------------- MODULE MCRunLifecycle ----------------------------
(* Instances of RunLifecycle for TLC. *)
EXTENDS RunLifecycle, TLC

\* Threads, Runs and Requests are interchangeable.
Symmetry == Permutations(Threads) \cup Permutations(Runs) \cup Permutations(Requests)

OpsCore == {"create", "cancel", "restore"}
OpsCancel == {"create", "cancel"}
=============================================================================
