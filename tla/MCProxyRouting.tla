--------------------------- MODULE MCProxyRouting ---------------------------
(* Instance of ProxyRouting for TLC: what has the same role is interchangeable. *)
EXTENDS ProxyRouting

Symmetry == Permutations(Subs) \cup Permutations(Conns)
=============================================================================
