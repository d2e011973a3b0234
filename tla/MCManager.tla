------------------------------ MODULE MCManager ------------------------------
(* The manager for TLC.  The configurations differ in how many requests    *)
(* run at a time, in whether the server restarts, and in database faults.  *)
EXTENDS Manager, TLC

Symmetry ==
  Permutations(Names) \cup Permutations(Launches) \cup Permutations(Clients)
===============================================================================
