---------------------------- MODULE DurableState ----------------------------
(***************************************************************************)
(* What the application may rely on about state.json: one durable value    *)
(* that changes only by a committed save, and a copy of the value before   *)
(* it to fall back to when the file itself is lost.                        *)
(***************************************************************************)
CONSTANTS
  Values,       \* valid states of the application
  None          \* nothing is stored

VARIABLES
  value,        \* what a load returns
  previous      \* what a load would return if the current file were lost

vars == <<value, previous>>

Init == value \in Values \cup {None} /\ previous \in Values \cup {None}

\* The durable value is copied before it is replaced.
BackUp == value # None /\ previous' = value /\ UNCHANGED value

\* A new value; the one it replaces is still available.
Commit(v) == previous = value /\ value' = v /\ UNCHANGED previous

\* The current file is lost.
FallBack == value' = previous /\ UNCHANGED previous

\* The copy is lost.
LoseCopy == previous' = None /\ UNCHANGED value

Next ==
  \/ BackUp
  \/ \E v \in Values : Commit(v)
  \/ FallBack
  \/ LoseCopy

Spec == Init /\ [][Next]_vars
=============================================================================
