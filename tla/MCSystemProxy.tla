--------------------------- MODULE MCSystemProxy ---------------------------
(* TLC instances of SystemProxy: three settings a user may have chosen.      *)
EXTENDS SystemProxy, TLC

Symmetry == Permutations(Settings)
=============================================================================
