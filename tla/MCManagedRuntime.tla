-------------------------- MODULE MCManagedRuntime --------------------------
(* TLC instances of ManagedRuntime: two commands race, a third one follows.  *)
EXTENDS ManagedRuntime, TLC

Symmetry == Permutations(Ops) \cup Permutations(Subs)
=============================================================================
