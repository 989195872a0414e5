----------------------------- MODULE MCAutostart -----------------------------
(* TLC instances of Autostart. *)
EXTENDS Autostart, TLC

\* What a plist says matters only by being the same or not.
Symmetry == Permutations(Versions)
=============================================================================
