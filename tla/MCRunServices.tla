----------------------------- MODULE MCRunServices -----------------------------
(* A small instance of RunServices: a guest that fills the log and its backups    *)
(* more than once, without and with files of an earlier version, and one that     *)
(* prints nothing and is monitored.                                                *)
EXTENDS RunServices

MCScenarios ==
  {[metrics |-> FALSE, output |-> 7, leftovers |-> {3}],
   [metrics |-> TRUE, output |-> 0, leftovers |-> {}]}
=============================================================================
