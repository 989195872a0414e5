-------------------------- MODULE MCSupervisedRun --------------------------
(* TLC instances of SupervisedRun. *)
EXTENDS SupervisedRun, TLC

\* Connections are interchangeable, and so are attempts.
Symmetry == Permutations(Conns) \cup Permutations(Attempts)
=============================================================================
