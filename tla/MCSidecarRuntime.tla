-------------------------- MODULE MCSidecarRuntime --------------------------
(* TLC instance of SidecarRuntime: three directories let an orphan, the      *)
(* running instance and a candidate exist at the same time.                  *)
EXTENDS SidecarRuntime, TLC

Symmetry == Permutations(Dirs) \cup Permutations(Configs)
=============================================================================
