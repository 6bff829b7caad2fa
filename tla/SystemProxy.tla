---------------------------- MODULE SystemProxy ----------------------------
(***************************************************************************)
(* The system-proxy transaction: the supervisor of application/runtime.rs  *)
(* over the WinINet adapter of platform/windows/system_proxy.rs and its    *)
(* recovery record (platform/windows/recovery.rs).                         *)
(*                                                                         *)
(* The transition mutex serialises activations and deactivations, so one   *)
(* is under way at a time; call is the next native or store call it makes. *)
(* Between two calls the user may change the setting in the system dialog  *)
(* and the application may be killed.  A setting stands for a class of     *)
(* snapshots that semantically_equals does not tell apart.                 *)
(***************************************************************************)
EXTENDS Naturals

CONSTANTS
  Settings,     \* what a user may have chosen
  Managed,      \* ManagedProxyState::loopback of the fixed mixed port
  Torn,         \* a setting of which only some options were written
  Nothing,      \* nothing
  MayTear,      \* whether a rejected write may leave Torn behind
  MaxRestarts   \* bound on the restarts of the application

ASSUME SettingsAssumption == Managed \notin Settings /\ Torn \notin Settings /\ Managed # Torn
ASSUME NothingAssumption == Nothing \notin Settings \cup {Managed, Torn}
ASSUME RestartAssumption == MayTear \in BOOLEAN /\ MaxRestarts \in Nat

VARIABLES
  proxy,        \* the default connection's setting in WinINet
  record,       \* the stored ProxyRecoveryRecord
  captureMode,  \* RuntimeSupervisor.state
  core,         \* SidecarLifecycle of the supervised core
  call,         \* the call the transition makes next
  seen,         \* the setting the transition read last
  own,          \* what the user chose last (history)
  raced,        \* a write replaced a setting it had not read (history)
  mistaken,     \* a setting no user chose was captured as the user's (history)
  leftover,     \* this run started over a managed setting (history)
  restarts      \* how often the application was restarted

osVars      == <<proxy, own>>
historyVars == <<raced, mistaken, leftover, restarts>>
proxyVars == <<osVars, record, captureMode, core, call, seen, historyVars>>

-----------------------------------------------------------------------------
(* Values *)

Observable == Settings \cup {Managed, Torn}

Modes == {"Off", "SystemProxy", "RecoveryRequired"}

Points == {"idle", "capture", "arm", "apply", "verify", "commit", "prove",
           "load", "check", "write_back", "verify_back", "clear", "stop"}

NoRecord == [phase |-> "None", snapshot |-> Nothing]
Transitioning(s) == [phase |-> "Transitioning", snapshot |-> s]
Stable(s) == [phase |-> "Stable", snapshot |-> s]

Records == [phase: {"None", "Transitioning", "Stable"}, snapshot: Observable \cup {Nothing}]

ProxyTypeOK ==
  /\ proxy \in Observable /\ own \in Settings
  /\ record \in Records
  /\ captureMode \in Modes
  /\ core \in {"Stopped", "Ready", "RecoveryRequired"}
  /\ call \in Points
  /\ seen \in Observable \cup {Nothing}
  /\ raced \in BOOLEAN /\ mistaken \in BOOLEAN /\ leftover \in BOOLEAN
  /\ restarts \in 0..MaxRestarts

ProxyInit ==
  /\ own \in Settings /\ proxy = own
  /\ record = NoRecord
  /\ captureMode = "Off" /\ core = "Stopped"
  /\ call = "idle" /\ seen = Nothing
  /\ raced = FALSE /\ mistaken = FALSE /\ leftover = FALSE /\ restarts = 0

-----------------------------------------------------------------------------
(* Calls.  Each may be refused; what a refused call has done is open.      *)

\* WinINet now holds target, or after a refusal what it held, target or a
\* mixture.  A refused notification comes after a complete write.
SettingWritten(target) == proxy' = target
Rejected(target) == proxy' \in {proxy, target} \cup (IF MayTear THEN {Torn} ELSE {})

\* The write replaces a setting other than the one that was read.
NoteRace == raced' = (raced \/ (proxy # seen /\ proxy' # proxy))

\* The record store holds r, or after a refusal what it held or r.
Saved(r) == record' = r
NotSaved(r) == record' \in {record, r}

\* The transition ends with an error: an enable (the mode is still Off) in
\* an uncertain state keeps the core and requires recovery, a restore leaves
\* everything to the next attempt.
Fail ==
  /\ call' = "idle" /\ seen' = Nothing
  /\ captureMode' = IF captureMode = "Off" THEN "RecoveryRequired" ELSE captureMode

Go(point) == call' = point /\ UNCHANGED captureMode

-----------------------------------------------------------------------------
(* activate_system_proxy *)

\* activate_from_off: the core first.  Ready in a runtime that was constructed
\* without a mixed port (whether it was is left open) is an error that leaves the
\* core running.  A refused candidate leaves the core as it was or Stopped, or in
\* recovery with the supervisor.
ActivateFromOff ==
  /\ call = "idle" /\ captureMode = "Off"
  /\ \/ core' = "Ready" /\ core # "RecoveryRequired" /\ Go("capture")
     \/ core' = "Ready" /\ core # "RecoveryRequired" /\ UNCHANGED <<captureMode, call>>
     \/ core' \in {core, "Stopped"} /\ core # "RecoveryRequired"
        /\ UNCHANGED <<captureMode, call>>
     \/ core' = "RecoveryRequired" /\ captureMode' = "RecoveryRequired" /\ call' = "idle"
  /\ UNCHANGED <<osVars, record, seen, historyVars>>

\* reconfigure: only the core is replaced.  A candidate that fails its check
\* leaves the old core; one that fails later leaves none, or an uncertain one.
Reconfigure ==
  /\ call = "idle" /\ captureMode = "SystemProxy"
  /\ \/ core' = "Ready" /\ core = "Ready" /\ UNCHANGED captureMode
     \/ core' \in {"Stopped", "RecoveryRequired"} /\ captureMode' = "RecoveryRequired"
  /\ UNCHANGED <<osVars, record, call, seen, historyVars>>

\* enable: the setting before the change.
Capture ==
  /\ call = "capture"
  /\ \/ seen' = proxy /\ Go("arm")
     \/ UNCHANGED seen /\ Go("stop")
  /\ UNCHANGED <<osVars, record, core, historyVars>>

\* Mutant: the record is kept in memory only.
Arm_Unsaved ==
  /\ call = "arm" /\ Go("apply")
  /\ UNCHANGED <<osVars, record, core, seen, historyVars>>

\* enable: the transitioning record, before anything is changed.
Arm ==
  /\ call = "arm"
  /\ \/ Saved(Transitioning(seen)) /\ Go("apply")
     \/ NotSaved(Transitioning(seen)) /\ Go("stop")
  /\ mistaken' = (mistaken \/ (record' = Transitioning(seen) /\ seen \notin Settings))
  /\ UNCHANGED <<osVars, core, seen, raced, leftover, restarts>>

\* enable: the managed setting is written and announced.
Apply ==
  /\ call = "apply"
  /\ \/ SettingWritten(Managed) /\ Go("verify")
     \/ Rejected(Managed) /\ Go("prove")
  /\ NoteRace
  /\ UNCHANGED <<own, record, core, seen, mistaken, leftover, restarts>>

\* Mutant: a readback that fails counts as a setting that was not applied.
Verify_Optimistic ==
  /\ call = "verify"
  /\ \/ seen' = proxy /\ Go(IF proxy = Managed THEN "commit" ELSE "prove")
     \/ UNCHANGED seen /\ Go("stop")
  /\ UNCHANGED <<osVars, record, core, historyVars>>

\* enable: the readback.
Verify ==
  /\ call = "verify"
  /\ \/ seen' = proxy /\ Go(IF proxy = Managed THEN "commit" ELSE "prove")
     \/ Fail
  /\ UNCHANGED <<osVars, record, core, historyVars>>

\* Mutant: a refused save of the stable record is ignored.
Commit_Ignores ==
  /\ call = "commit"
  /\ NotSaved(Stable(record.snapshot))
  /\ captureMode' = "SystemProxy" /\ call' = "idle" /\ seen' = Nothing
  /\ UNCHANGED <<osVars, core, historyVars>>

\* enable: the record becomes stable and the mode SystemProxy.
Commit ==
  /\ call = "commit"
  /\ \/ /\ Saved(Stable(record.snapshot))
        /\ captureMode' = "SystemProxy" /\ call' = "idle" /\ seen' = Nothing
     \/ NotSaved(Stable(record.snapshot)) /\ Fail
  /\ UNCHANGED <<osVars, core, historyVars>>

\* Mutant: whatever is not the managed setting counts as the captured one.
Prove_Loose ==
  /\ call = "prove"
  /\ \/ seen' = proxy /\ Go(IF proxy = Managed THEN "write_back" ELSE "clear")
     \/ Fail
  /\ UNCHANGED <<osVars, record, core, historyVars>>

\* prove_enable_unapplied: a setting that is neither the captured one nor the
\* managed one proves nothing.
Prove ==
  /\ call = "prove"
  /\ \/ /\ proxy \in {record.snapshot, Managed}
        /\ seen' = proxy
        /\ Go(IF proxy = record.snapshot THEN "clear" ELSE "write_back")
     \/ Fail
  /\ UNCHANGED <<osVars, record, core, historyVars>>

-----------------------------------------------------------------------------
(* deactivate_system_proxy *)

\* restore: the record is loaded; without one nothing is managed.
Deactivate ==
  /\ call = "idle" /\ captureMode = "SystemProxy"
  /\ call' = IF record = NoRecord THEN "stop" ELSE "check"
  /\ UNCHANGED <<osVars, record, captureMode, core, seen, historyVars>>

\* rollback_if_still_managed: a setting that is not the managed one is the
\* user's and stays.
Check ==
  /\ call = "check"
  /\ \/ seen' = proxy /\ Go(IF proxy = Managed THEN "write_back" ELSE "stop")
     \/ Fail
  /\ UNCHANGED <<osVars, record, core, historyVars>>

-----------------------------------------------------------------------------
(* Common to the rollback of an enable and to a restore *)

WriteBack ==
  /\ call = "write_back"
  /\ \/ SettingWritten(record.snapshot) /\ Go("verify_back") /\ UNCHANGED seen
     \/ Rejected(record.snapshot) /\ Fail
  /\ NoteRace
  /\ UNCHANGED <<own, record, core, mistaken, leftover, restarts>>

VerifyBack ==
  /\ call = "verify_back"
  /\ \/ proxy = record.snapshot /\ seen' = proxy /\ Go("clear")
     \/ Fail
  /\ UNCHANGED <<osVars, record, core, historyVars>>

Clear ==
  /\ call = "clear"
  /\ \/ Saved(NoRecord) /\ Go("stop") /\ UNCHANGED seen
     \/ NotSaved(NoRecord) /\ Fail
  /\ UNCHANGED <<osVars, core, historyVars>>

\* stop_sidecar_or_require_recovery, and the mode of a transition that ends.
StopCore ==
  /\ call = "stop"
  /\ \/ core' = "Stopped" /\ captureMode' = "Off"
     \/ core' = "RecoveryRequired" /\ captureMode' = "RecoveryRequired"
  /\ call' = "idle" /\ seen' = Nothing
  /\ UNCHANGED <<osVars, record, historyVars>>

-----------------------------------------------------------------------------
(* Environment *)

\* The user changes the setting in the system dialog.
UserSets(s) ==
  /\ proxy' = s /\ own' = s
  /\ raced' = FALSE /\ mistaken' = FALSE
  /\ UNCHANGED <<record, captureMode, core, call, seen, leftover, restarts>>

\* The application ends, at any point, and a new supervisor is constructed.
Restart ==
  /\ restarts < MaxRestarts /\ restarts' = restarts + 1
  /\ captureMode' = "Off" /\ core' = "Stopped" /\ call' = "idle" /\ seen' = Nothing
  /\ leftover' = (proxy = Managed)
  /\ UNCHANGED <<osVars, record, raced, mistaken>>

ProxyNext ==
  \/ ActivateFromOff \/ Reconfigure \/ Deactivate
  \/ Capture \/ Arm \/ Apply \/ Verify \/ Commit \/ Prove
  \/ Check \/ WriteBack \/ VerifyBack \/ Clear \/ StopCore
  \/ \E s \in Settings : UserSets(s)
  \/ Restart

ProxySpec == ProxyInit /\ [][ProxyNext]_proxyVars

-----------------------------------------------------------------------------
(* Properties *)

Excused == raced \/ mistaken

\* What the user chose last is never lost: it is in WinINet or in the record,
\* whatever call of enable, restore or a rollback fails and wherever the
\* application is killed.  The exceptions are named: a change that fell between
\* a read and the write after it, and a leftover captured as the user's own.
UserSettingKept == Excused \/ proxy = own \/ record.snapshot = own

\* A setting of the kind users choose is the user's last one: enable, restore
\* and the rollback never bring back an older choice.
NoOlderChoice == Excused \/ (proxy \in Settings => proxy = own)

\* The supervisor reports SystemProxy only over a stable record: enable commits
\* it last.  (A failed deactivation may already have cleared it.)
CommittedIsStable ==
  captureMode = "SystemProxy" => record.phase # "Transitioning"

\* What the supervisor promises the user: the setting can always be given back, and
\* "captured" is said only over a committed record.
Safety == ProxyTypeOK /\ UserSettingKept /\ CommittedIsStable

Enabling == {"capture", "arm", "apply", "verify", "commit", "prove"}

\* What the transition has established where it acts on it.
PointFacts ==
  /\ call \in Enabling => captureMode = "Off"
  /\ call = "check" => captureMode = "SystemProxy"
  /\ call = "arm" => seen # Nothing /\ (Excused \/ proxy = own \/ seen \notin Settings)
  /\ call = "apply" => record.snapshot = seen /\ (Excused \/ proxy = own)
  /\ call = "write_back" => seen = Managed
  /\ call = "clear" => Excused \/ proxy = own
  /\ call \in {"apply", "verify", "commit", "prove", "check", "write_back", "verify_back"}
       => record.snapshot # Nothing
  /\ record.snapshot = Nothing <=> record = NoRecord

\* Where the setting cannot be the managed one, in a run that started without it.
ManagedFacts == ~leftover =>
  /\ call \in {"capture", "arm", "apply", "verify_back", "clear", "stop"} => proxy # Managed
  /\ call = "idle" /\ captureMode = "Off" => proxy # Managed
  /\ call = "arm" => seen # Managed
  /\ call \in {"apply", "verify", "commit", "prove", "write_back", "verify_back"}
       => record.snapshot # Managed
  /\ captureMode = "SystemProxy" => record.snapshot # Managed
  /\ captureMode = "SystemProxy" /\ record.snapshot = Nothing => proxy # Managed

\* The inductive invariant of the transaction.
ProxyIInv ==
  ProxyTypeOK /\ UserSettingKept /\ NoOlderChoice /\ CommittedIsStable /\ PointFacts /\ ManagedFacts

\* The supervisor never takes the core away from under the managed setting:
\* StopCore runs only after WinINet was seen without it.  The exceptions: a
\* replacement that fails after the old core is gone, which requires recovery,
\* and a run that started over the managed setting an earlier one left.
CoreOutlivesProxy ==
  [][core # "Stopped" /\ core' = "Stopped" /\ proxy = Managed /\ restarts' = restarts
       => \/ leftover
          \/ captureMode = "SystemProxy" /\ captureMode' = "RecoveryRequired"]_proxyVars
=============================================================================
