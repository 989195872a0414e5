---------------------------- MODULE MCVMLifecycle ----------------------------
(* TLC instances of VMLifecycle. *)
EXTENDS VMLifecycle, TLC

\* Runs are interchangeable, and so are clients.
Symmetry == Permutations(Runs) \cup Permutations(Clients)
=============================================================================
