----------------------------- MODULE ManagedCore -----------------------------
(***************************************************************************)
(* What the rest of the application may rely on about the managed core:    *)
(* the life cycle of SidecarLifecycle and the configuration in effect.     *)
(***************************************************************************)
CONSTANTS
  Configs,      \* generated configurations
  None          \* no configuration is in effect

VARIABLES
  lifecycle,    \* "Offline" while no runtime object exists
  applied       \* the configuration of the Ready instance

vars == <<lifecycle, applied>>

Lifecycles == {"Offline", "Stopped", "Ready", "RecoveryRequired"}

Init == lifecycle = "Offline" /\ applied = None

\* The runtime is created with nothing running.
Launch == lifecycle = "Offline" /\ lifecycle' = "Stopped" /\ applied' = None

\* A checked candidate became Ready.
Apply(c) == lifecycle = "Stopped" /\ lifecycle' = "Ready" /\ applied' = c

\* The instance is stopped, by request or to make room for a candidate.
TakeDown == lifecycle = "Ready" /\ lifecycle' = "Stopped" /\ applied' = None

\* An exit or a cleanup could not be confirmed.
LoseTrack ==
  lifecycle \in {"Stopped", "Ready"} /\ lifecycle' = "RecoveryRequired" /\ applied' = None

\* Only a Stop that confirms everything ends the recovery state.
Recover == lifecycle = "RecoveryRequired" /\ lifecycle' = "Stopped" /\ applied' = None

\* The application process ends.
Vanish == lifecycle # "Offline" /\ lifecycle' = "Offline" /\ applied' = None

Next ==
  \/ Launch
  \/ \E c \in Configs : Apply(c)
  \/ TakeDown
  \/ LoseTrack
  \/ Recover
  \/ Vanish

Spec == Init /\ [][Next]_vars
=============================================================================
