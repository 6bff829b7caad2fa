--------------------------- MODULE SidecarRuntime ---------------------------
(***************************************************************************)
(* The configuration-replacement transaction of the managed sing-box core: *)
(* SidecarRuntime (singbox/runtime.rs) over the Windows port that owns the *)
(* private directories and the processes (managed_sidecar_port.rs,         *)
(* private_runtime.rs, managed_sidecar.rs).                                *)
(*                                                                         *)
(* One worker thread owns the runtime, so its methods never overlap; what  *)
(* interleaves with them is the operating system: a process may exit, fail *)
(* to exit or bind the API listener at any time, a file operation may fail *)
(* half way, and the desktop application itself may be killed between any  *)
(* two of its steps.  A method is split where such an event can fall; the  *)
(* control point is pc.  Every step of a method is forced.                 *)
(*                                                                         *)
(* The methods are called as the worker calls them: prepare_replacement is *)
(* followed by commit_prepared or cancel_prepared before anything else.    *)
(***************************************************************************)
EXTENDS Naturals

CONSTANTS
  Dirs,         \* instance directories; a process is named by the directory
                \* that holds the configuration it was started with
  Configs,      \* generated configurations (final bytes, secret included)
  None,         \* no directory, no configuration
  MaxIdentity   \* u64::MAX of the port's identity counter

ASSUME NoneAssumption == None \notin Dirs /\ None \notin Configs
ASSUME IdentityAssumption == MaxIdentity \in Nat

VARIABLES
  pc,           \* control point of the worker; "down" before the port exists
  result,       \* what the last finished method returned
  child,        \* SidecarRuntime.child: the identity it holds, 0 for none
  candidate,    \* ConfigSlots.candidate
  active,       \* ConfigSlots.active
  recovery,     \* SidecarRuntime.recovery_required
  request,      \* the argument of the prepare_replacement under way
  making,       \* the instance directory PrivateRuntime::create works on
  pending,      \* the port's pending runtime
  running,      \* the port's running children, by identity
  nextIdentity, \* the port's identity counter
  disk,         \* what exists of every instance directory
  core,         \* what every process is doing
  orphans       \* directories and processes an earlier run of the
                \* application left behind (history)

runtimeVars == <<child, candidate, active, recovery>>
portVars    == <<pending, running, nextIdentity>>
osVars      == <<disk, core, orphans>>
vars == <<pc, result, request, making, runtimeVars, portVars, osVars>>

-----------------------------------------------------------------------------
(* Values *)

Identities == 1..MaxIdentity

\* How far create() got: the directory exists, its DACL is proven, the
\* configuration file exists, its DACL is proven, the secret is in it.
DirStates == {"none", "bare", "secured", "config_bare", "config", "secret"}

\* A `sing-box check`, a `sing-box run`, and a `run` that holds the fixed
\* loopback API listener.
CoreStates == {"none", "check", "run", "serving"}

PendingRuntime == [dir: Dirs \cup {None}, config: Configs \cup {None},
                   checking: BOOLEAN, checked: BOOLEAN]
NoPending == [dir |-> None, config |-> None, checking |-> FALSE, checked |-> FALSE]

RunningChild == [dir: Dirs \cup {None}, config: Configs \cup {None}, ready: BOOLEAN]
NoChild == [dir |-> None, config |-> None, ready |-> FALSE]

Phases == {"down", "idle", "creating", "writing", "checking", "prepared",
           "launching", "awaiting_ready"}
Results == {"none", "Ok", "CandidateCheck", "CandidatePrepare", "ActiveStop",
            "CandidateStart", "CandidateReady", "CandidateStop", "RecoveryRequired"}

TypeOK ==
  /\ pc \in Phases
  /\ result \in Results
  /\ child \in Identities \cup {0}
  /\ candidate \in Configs \cup {None}
  /\ active \in Configs \cup {None}
  /\ recovery \in BOOLEAN
  /\ request \in Configs \cup {None}
  /\ making \in Dirs \cup {None}
  /\ pending \in PendingRuntime
  /\ running \in [Identities -> RunningChild]
  /\ nextIdentity \in Identities \cup {0}
  /\ disk \in [Dirs -> DirStates]
  /\ core \in [Dirs -> CoreStates]
  /\ orphans \subseteq Dirs

-----------------------------------------------------------------------------
(* Helpers *)

Alive(d) == core[d] # "none"
Running(i) == running[i].dir # None
HasPending == pending.dir # None

\* SidecarRuntime::snapshot
Lifecycle == IF recovery THEN "RecoveryRequired"
             ELSE IF child # 0 THEN "Ready" ELSE "Stopped"

\* has_pending_cleanup: a pending runtime that is not a checked candidate.
HasPendingCleanup == HasPending /\ ~pending.checked

\* remove_config_and_directory, failing: the configuration file may be gone,
\* the directory is not.
PartlyRemoved(s) ==
  {s} \cup (IF s \in {"config_bare", "config", "secret"} THEN {"secured"} ELSE {})

\* f with v at every point of S.
Put(f, S, v) == [d \in DOMAIN f |-> IF d \in S THEN v ELSE f[d]]

Finish(r) == pc' = "idle" /\ result' = r

\* The directory of the child the runtime holds, None without one.
ChildDir == IF child = 0 THEN None ELSE running[child].dir

\* The fields of the runtime after Port::new in a fresh process.
FreshRuntime ==
  /\ child' = 0
  /\ candidate' = None
  /\ active' = None
  /\ recovery' = FALSE
  /\ pending' = NoPending
  /\ running' = [i \in Identities |-> NoChild]
  /\ nextIdentity' = 0
  /\ request' = None
  /\ making' = None

\* discard_pending: confirm the exit of the check child, remove the private
\* directory, and only then forget the pending runtime.
DiscardSucceeds ==
  /\ pending' = NoPending
  /\ core' = [core EXCEPT ![pending.dir] = "none"]
  /\ disk' = [disk EXCEPT ![pending.dir] = "none"]

DiscardFails ==
  \/ /\ pending.checking
     /\ pending' = [pending EXCEPT !.checked = FALSE]
     /\ UNCHANGED <<core, disk>>
  \/ /\ HasPending
     /\ disk[pending.dir] # "none"
     /\ pending' = [pending EXCEPT !.checked = FALSE, !.checking = FALSE]
     /\ core' = [core EXCEPT ![pending.dir] = "none"]
     /\ \E s \in PartlyRemoved(disk[pending.dir]) :
          disk' = [disk EXCEPT ![pending.dir] = s]

\* Mutant: the entry is dropped before the private directory is removed.
PortStopSucceeds_KeepsDirectory(i) ==
  /\ running' = [running EXCEPT ![i] = NoChild]
  /\ core' = [core EXCEPT ![running[i].dir] = "none"]
  /\ UNCHANGED disk

\* WindowsManagedSidecarPort::stop of identity i.  The entry leaves the map
\* only after the exit is confirmed and the directory is removed.
PortStopSucceeds(i) ==
  /\ running' = [running EXCEPT ![i] = NoChild]
  /\ core' = [core EXCEPT ![running[i].dir] = "none"]
  /\ disk' = [disk EXCEPT ![running[i].dir] = "none"]

PortStopFails(i) ==
  /\ running' = [running EXCEPT ![i].ready = FALSE]
  /\ \/ UNCHANGED <<core, disk>>
     \/ /\ core' = [core EXCEPT ![running[i].dir] = "none"]
        /\ \E s \in PartlyRemoved(disk[running[i].dir]) :
             disk' = [disk EXCEPT ![running[i].dir] = s]

-----------------------------------------------------------------------------
(* The application process *)

\* Port::new proves and removes every directory left in the runtime root and
\* verifies the bundled resources; the processes of those directories are not
\* looked for.
OpenPort ==
  /\ pc = "down"
  /\ \A d \in Dirs : disk[d] \notin {"bare", "config_bare"}
  /\ disk' = [d \in Dirs |-> "none"]
  /\ FreshRuntime
  /\ pc' = "idle"
  /\ result' = "none"
  /\ UNCHANGED <<core, orphans>>

\* cleanup_orphaned_instances stops at the first directory it cannot prove or
\* remove; the ones it visited before are gone.
OpenPortFails ==
  /\ pc = "down"
  /\ \E removed \in SUBSET {d \in Dirs : disk[d] \in {"secured", "config", "secret"}} :
       disk' = [d \in Dirs |-> IF d \in removed THEN "none" ELSE disk[d]]
  /\ UNCHANGED <<pc, result, request, making, runtimeVars, portVars, core, orphans>>

\* The application is killed: nothing of it runs any more, no Drop, no Stop.
\* Its child processes and directories stay.
Crash ==
  /\ pc # "down"
  /\ FreshRuntime
  /\ pc' = "down"
  /\ result' = "none"
  /\ orphans' = {d \in Dirs : disk[d] # "none" \/ Alive(d)}
  /\ UNCHANGED <<disk, core>>

-----------------------------------------------------------------------------
(* prepare_replacement *)

\* A runtime that still owns unconfirmed resources refuses every candidate.
PrepareRefused ==
  /\ pc = "idle"
  /\ recovery \/ HasPendingCleanup
  /\ recovery' = TRUE
  /\ Finish("RecoveryRequired")
  /\ UNCHANGED <<child, candidate, active, request, making, portVars, osVars>>

\* Mutant: a failed check clears the recovery flag without asking for it first.
CheckNotStarted_IgnoresRecovery ==
  /\ pc = "idle"
  /\ ~HasPendingCleanup
  /\ recovery' = HasPendingCleanup
  /\ Finish("CandidateCheck")
  /\ UNCHANGED <<child, candidate, active, request, making, portVars, osVars>>

\* The check fails before a directory exists: resources, secret or create().
CheckNotStarted ==
  /\ pc = "idle"
  /\ ~recovery /\ ~HasPendingCleanup
  /\ recovery' = HasPendingCleanup
  /\ Finish("CandidateCheck")
  /\ UNCHANGED <<child, candidate, active, request, making, portVars, osVars>>

\* create(): a fresh name, then directory DACL, file and file DACL in turn.
CreateDirectory(c, d) ==
  /\ pc = "idle"
  /\ ~recovery /\ ~HasPendingCleanup
  /\ ~HasPending
  /\ disk[d] = "none" /\ ~Alive(d)
  /\ disk' = [disk EXCEPT ![d] = "bare"]
  /\ orphans' = orphans \ {d}
  /\ making' = d
  /\ request' = c
  /\ pc' = "creating"
  /\ UNCHANGED <<result, runtimeVars, portVars, core>>

ProveDirectory ==
  /\ pc = "creating"
  /\ disk[making] \in {"bare", "secured"}
  /\ disk' = [disk EXCEPT ![making] =
                IF disk[making] = "bare" THEN "secured" ELSE "config_bare"]
  /\ UNCHANGED <<pc, result, request, making, runtimeVars, portVars, core, orphans>>

\* The last readback succeeds and the port takes ownership of the directory.
CreateFinishes ==
  /\ pc = "creating"
  /\ disk[making] = "config_bare"
  /\ disk' = [disk EXCEPT ![making] = "config"]
  /\ pending' = [dir |-> making, config |-> request, checking |-> FALSE, checked |-> FALSE]
  /\ making' = None
  /\ pc' = "writing"
  /\ UNCHANGED <<result, request, runtimeVars, running, nextIdentity, core, orphans>>

\* Mutant: a directory that could not be removed is not handed to the port.
CreateFails_Leaks ==
  /\ pc = "creating"
  /\ \E s \in PartlyRemoved(disk[making]) \cup {"none"} : disk' = [disk EXCEPT ![making] = s]
  /\ recovery' = FALSE
  /\ making' = None
  /\ request' = None
  /\ Finish("CandidateCheck")
  /\ UNCHANGED <<child, candidate, active, pending, running, nextIdentity, core, orphans>>

\* cleanup_after_prepare_failure: removed, or handed to the port as a pending
\* runtime that only an explicit Stop may retry.
CreateFails ==
  /\ pc = "creating"
  /\ \/ /\ disk' = [disk EXCEPT ![making] = "none"]
        /\ recovery' = FALSE
        /\ UNCHANGED pending
     \/ /\ \E s \in PartlyRemoved(disk[making]) : disk' = [disk EXCEPT ![making] = s]
        /\ pending' = [dir |-> making, config |-> request,
                       checking |-> FALSE, checked |-> FALSE]
        /\ recovery' = TRUE
  /\ making' = None
  /\ request' = None
  /\ Finish("CandidateCheck")
  /\ UNCHANGED <<child, candidate, active, running, nextIdentity, core, orphans>>

\* Mutant: a rejected candidate clears both configuration slots.
CandidateRejected_ClearsSlots(r) ==
  /\ recovery' = HasPendingCleanup'
  /\ request' = None
  /\ candidate' = None
  /\ active' = None
  /\ Finish(r)
  /\ UNCHANGED <<child, making, running, nextIdentity, orphans>>

\* The end of a failed check or prepare: the port has tried to discard the
\* candidate, the runtime asks what is left of it.
CandidateRejected(r) ==
  /\ recovery' = HasPendingCleanup'
  /\ request' = None
  /\ Finish(r)
  /\ UNCHANGED <<child, candidate, active, making, running, nextIdentity, orphans>>

\* write_checked_config and the spawn of `sing-box check`.
StartCheck ==
  /\ pc = "writing"
  /\ disk' = [disk EXCEPT ![pending.dir] = "secret"]
  /\ core' = [core EXCEPT ![pending.dir] = "check"]
  /\ pending' = [pending EXCEPT !.checking = TRUE]
  /\ pc' = "checking"
  /\ UNCHANGED <<result, request, making, runtimeVars, running, nextIdentity, orphans>>

\* The write, the readback or the spawn fails; a failed write has already
\* tried to remove the directory.
StartCheckFails ==
  /\ pc = "writing"
  /\ \/ DiscardSucceeds
     \/ /\ \E s \in {"config", "secret", "secured"} :
             disk' = [disk EXCEPT ![pending.dir] = s]
        /\ UNCHANGED <<pending, core>>
  /\ CandidateRejected("CandidateCheck")

\* The check exits with success and the bytes read back unchanged.
CheckPasses ==
  /\ pc = "checking"
  /\ core[pending.dir] = "check"
  /\ core' = [core EXCEPT ![pending.dir] = "none"]
  /\ pending' = [pending EXCEPT !.checking = FALSE, !.checked = TRUE]
  /\ candidate' = request
  /\ request' = None
  /\ pc' = "prepared"
  /\ result' = "Ok"
  /\ UNCHANGED <<child, active, recovery, making, running, nextIdentity, disk, orphans>>

\* The check's exit is confirmed but it failed, timed out, or the bytes differ
\* afterwards (CandidateCheck), or prepare() finds them changed.
CheckFails(r) ==
  /\ pc = "checking"
  /\ \/ DiscardSucceeds
     \/ /\ pending' = [pending EXCEPT !.checking = FALSE, !.checked = FALSE]
        /\ core' = [core EXCEPT ![pending.dir] = "none"]
        /\ \E s \in PartlyRemoved(disk[pending.dir]) :
             disk' = [disk EXCEPT ![pending.dir] = s]
  /\ CandidateRejected(r)

\* The check neither ended in time nor could be killed: no second attempt, the
\* port keeps the process handle.
CheckUnconfirmed ==
  /\ pc = "checking"
  /\ UNCHANGED <<pending, core, disk>>
  /\ CandidateRejected("CandidateCheck")

-----------------------------------------------------------------------------
(* commit_prepared and cancel_prepared *)

\* Mutant: the old child is replaced in the map without waiting for its exit.
StopOldInstance_NoWait ==
  /\ pc = "prepared"
  /\ running' = [i \in Identities |-> NoChild]
  /\ child' = 0
  /\ active' = None
  /\ pc' = "launching"
  /\ UNCHANGED <<result, candidate, recovery, request, making, pending,
                 nextIdentity, core, disk, orphans>>

\* The old instance stops first; the candidate is started only afterwards.
StopOldInstance ==
  /\ pc = "prepared"
  /\ IF child = 0 THEN UNCHANGED <<running, core, disk>> ELSE PortStopSucceeds(child)
  /\ child' = 0
  /\ active' = None
  /\ pc' = "launching"
  /\ UNCHANGED <<result, candidate, recovery, request, making, pending,
                 nextIdentity, orphans>>

\* The old instance cannot be confirmed stopped: it stays owned, the candidate
\* is discarded.  Two port calls, each with its own outcome.
StopOldInstanceFails ==
  /\ pc = "prepared"
  /\ child # 0
  /\ running' = [running EXCEPT ![child].ready = FALSE]
  /\ \E gone \in BOOLEAN, discarded \in BOOLEAN :
       LET old == running[child].dir
           new == pending.dir
       IN /\ core' = [core EXCEPT ![old] = IF gone THEN "none" ELSE @]
          /\ \E s \in (IF gone THEN PartlyRemoved(disk[old]) ELSE {disk[old]}),
                t \in (IF discarded THEN {"none"} ELSE PartlyRemoved(disk[new])) :
               disk' = [disk EXCEPT ![old] = s, ![new] = t]
          /\ pending' = IF discarded THEN NoPending
                        ELSE [pending EXCEPT !.checked = FALSE]
          /\ Finish(IF discarded THEN "ActiveStop" ELSE "CandidateStop")
  /\ recovery' = TRUE
  /\ candidate' = None
  /\ UNCHANGED <<child, active, request, making, nextIdentity, orphans>>

\* Mutant: the identity counter is incremented without checked_add.
RunCandidate_UncheckedAdd ==
  /\ pc = "launching"
  /\ \A i \in Identities : ~Running(i)
  /\ pending.checked
  /\ running' = [i \in Identities |->
                   IF i = nextIdentity + 1
                   THEN [dir |-> pending.dir, config |-> pending.config, ready |-> FALSE]
                   ELSE running[i]]
  /\ nextIdentity' = nextIdentity + 1
  /\ core' = [core EXCEPT ![pending.dir] = "run"]
  /\ pending' = NoPending
  /\ pc' = "awaiting_ready"
  /\ UNCHANGED <<result, request, making, runtimeVars, disk, orphans>>

\* run(): the checked bytes are compared once more, the identity is new, and
\* no other child may be in the map.
RunCandidate ==
  /\ pc = "launching"
  /\ \A i \in Identities : ~Running(i)
  /\ pending.checked
  /\ nextIdentity + 1 \in Identities
  /\ running' = [running EXCEPT ![nextIdentity + 1] =
                   [dir |-> pending.dir, config |-> pending.config, ready |-> FALSE]]
  /\ nextIdentity' = nextIdentity + 1
  /\ core' = [core EXCEPT ![pending.dir] = "run"]
  /\ pending' = NoPending
  /\ pc' = "awaiting_ready"
  /\ UNCHANGED <<result, request, making, runtimeVars, disk, orphans>>

\* Changed bytes, an exhausted identity counter, or a spawn failure.
RunCandidateFails ==
  /\ pc = "launching"
  /\ DiscardSucceeds \/ DiscardFails
  /\ candidate' = None
  /\ recovery' = HasPendingCleanup'
  /\ Finish("CandidateStart")
  /\ UNCHANGED <<child, active, request, making, running, nextIdentity, orphans>>

\* ready(): the child lives and answers the authenticated API.  Only the
\* process that holds the listener and knows this instance's secret can.
CandidateBecomesReady ==
  /\ pc = "awaiting_ready"
  /\ core[running[nextIdentity].dir] = "serving"
  /\ running' = [running EXCEPT ![nextIdentity].ready = TRUE]
  /\ child' = nextIdentity
  /\ active' = candidate
  /\ candidate' = None
  /\ recovery' = FALSE
  /\ Finish("Ok")
  /\ UNCHANGED <<request, making, pending, nextIdentity, osVars>>

\* Not ready in time: stop the candidate; the old configuration is not started.
CandidateNotReady ==
  /\ pc = "awaiting_ready"
  /\ candidate' = None
  /\ \/ /\ PortStopSucceeds(nextIdentity)
        /\ Finish("CandidateReady")
        /\ UNCHANGED <<child, recovery>>
     \/ /\ PortStopFails(nextIdentity)
        /\ child' = nextIdentity
        /\ recovery' = TRUE
        /\ Finish("CandidateStop")
  /\ UNCHANGED <<active, request, making, pending, nextIdentity, orphans>>

\* Mutant: a cancelled candidate that could not be removed is not reported.
CancelPrepared_Silent ==
  /\ pc = "prepared"
  /\ candidate' = None
  /\ DiscardSucceeds \/ DiscardFails
  /\ Finish("Ok")
  /\ UNCHANGED <<child, active, recovery, request, making, running, nextIdentity, orphans>>

\* A save that failed, a changed state or an exit before the commit.
CancelPrepared ==
  /\ pc = "prepared"
  /\ candidate' = None
  /\ \/ DiscardSucceeds /\ Finish("Ok") /\ UNCHANGED recovery
     \/ DiscardFails /\ Finish("CandidateStop") /\ recovery' = TRUE
  /\ UNCHANGED <<child, active, request, making, running, nextIdentity, orphans>>

-----------------------------------------------------------------------------
(* stop, also as recover_active_failure *)

StopSucceeds ==
  /\ pc = "idle"
  /\ core' = Put(core, {ChildDir, pending.dir}, "none")
  /\ disk' = Put(disk, {ChildDir, pending.dir}, "none")
  /\ running' = IF child = 0 THEN running ELSE [running EXCEPT ![child] = NoChild]
  /\ pending' = NoPending
  /\ child' = 0
  /\ candidate' = None
  /\ active' = None
  /\ recovery' = FALSE
  /\ Finish("Ok")
  /\ UNCHANGED <<request, making, nextIdentity, orphans>>

\* Mutant: the failed stop returns without raising recovery_required.
StopFailsOnChild_NoRecovery ==
  /\ pc = "idle"
  /\ child # 0
  /\ PortStopFails(child)
  /\ Finish("ActiveStop")
  /\ UNCHANGED <<child, candidate, active, recovery, request, making, pending,
                 nextIdentity, orphans>>

\* The child's exit or its cleanup is not confirmed: everything stays owned.
StopFailsOnChild ==
  /\ pc = "idle"
  /\ child # 0
  /\ PortStopFails(child)
  /\ recovery' = TRUE
  /\ Finish("ActiveStop")
  /\ UNCHANGED <<child, candidate, active, request, making, pending, nextIdentity, orphans>>

\* Mutant: Stop clears recovery_required once the child is gone.
StopFailsOnPending_Clears ==
  /\ pc = "idle"
  /\ HasPending
  /\ disk[pending.dir] # "none"
  /\ pending' = [pending EXCEPT !.checked = FALSE, !.checking = FALSE]
  /\ core' = Put(core, {ChildDir, pending.dir}, "none")
  /\ disk' = Put(disk, {ChildDir}, "none")
  /\ running' = IF child = 0 THEN running ELSE [running EXCEPT ![child] = NoChild]
  /\ child' = 0
  /\ candidate' = None
  /\ active' = None
  /\ recovery' = FALSE
  /\ Finish("CandidateStop")
  /\ UNCHANGED <<request, making, nextIdentity, orphans>>

\* The child is gone but the pending runtime is not.
StopFailsOnPending ==
  /\ pc = "idle"
  /\ \/ /\ pending.checking
        /\ pending' = [pending EXCEPT !.checked = FALSE]
        /\ core' = Put(core, {ChildDir}, "none")
        /\ disk' = Put(disk, {ChildDir}, "none")
     \/ /\ HasPending
        /\ disk[pending.dir] # "none"
        /\ pending' = [pending EXCEPT !.checked = FALSE, !.checking = FALSE]
        /\ core' = Put(core, {ChildDir, pending.dir}, "none")
        /\ \E s \in PartlyRemoved(disk[pending.dir]) :
             disk' = [Put(disk, {ChildDir}, "none") EXCEPT ![pending.dir] = s]
  /\ running' = IF child = 0 THEN running ELSE [running EXCEPT ![child] = NoChild]
  /\ child' = 0
  /\ candidate' = None
  /\ active' = None
  /\ recovery' = TRUE
  /\ Finish("CandidateStop")
  /\ UNCHANGED <<request, making, nextIdentity, orphans>>

-----------------------------------------------------------------------------
(* The operating system *)

\* A process binds the fixed loopback listener if nobody holds it.
CoreBinds(d) ==
  /\ core[d] = "run"
  /\ \A e \in Dirs : core[e] # "serving"
  /\ core' = [core EXCEPT ![d] = "serving"]
  /\ UNCHANGED <<pc, result, request, making, runtimeVars, portVars, disk, orphans>>

\* A process ends by itself: it fails, or an earlier kill takes effect late.
CoreExits(d) ==
  /\ Alive(d)
  /\ core' = [core EXCEPT ![d] = "none"]
  /\ UNCHANGED <<pc, result, request, making, runtimeVars, portVars, disk, orphans>>

-----------------------------------------------------------------------------
Init ==
  /\ pc = "down"
  /\ result = "none"
  /\ child = 0
  /\ candidate = None
  /\ active = None
  /\ recovery = FALSE
  /\ request = None
  /\ making = None
  /\ pending = NoPending
  /\ running = [i \in Identities |-> NoChild]
  /\ nextIdentity = 0
  /\ disk = [d \in Dirs |-> "none"]
  /\ core = [d \in Dirs |-> "none"]
  /\ orphans = {}

PrepareReplacement ==
  \/ PrepareRefused
  \/ CheckNotStarted
  \/ \E c \in Configs, d \in Dirs : CreateDirectory(c, d)
  \/ ProveDirectory
  \/ CreateFinishes
  \/ CreateFails
  \/ StartCheck
  \/ StartCheckFails
  \/ CheckPasses
  \/ \E r \in {"CandidateCheck", "CandidatePrepare"} : CheckFails(r)
  \/ CheckUnconfirmed

CommitPrepared ==
  \/ StopOldInstance
  \/ StopOldInstanceFails
  \/ RunCandidate
  \/ RunCandidateFails
  \/ CandidateBecomesReady
  \/ CandidateNotReady

Stop ==
  \/ StopSucceeds
  \/ StopFailsOnChild
  \/ StopFailsOnPending

OperatingSystem ==
  \E d \in Dirs : CoreBinds(d) \/ CoreExits(d)

Next ==
  \/ OpenPort
  \/ OpenPortFails
  \/ Crash
  \/ PrepareReplacement
  \/ CommitPrepared
  \/ CancelPrepared
  \/ Stop
  \/ OperatingSystem

Spec == Init /\ [][Next]_vars

-----------------------------------------------------------------------------
(* What the transaction promises *)

\* Directories and processes the application would still clean up.
Owned == {making, pending.dir} \cup {running[i].dir : i \in Identities}

\* Nothing leaks: whatever this run of the application created and has not
\* removed - a directory or a process, on every failure path of create, check,
\* run and stop - is still reachable from the port, so that a Stop can retry it.
NothingUnowned ==
  \A d \in Dirs \ orphans : (disk[d] # "none" \/ Alive(d)) => d \in Owned

\* "Stopped" is never claimed while something is left: snapshot() returns it
\* only when every process has exited and every private directory is gone.
StoppedMeansClean ==
  (pc = "idle" /\ Lifecycle = "Stopped") =>
    \A d \in Dirs \ orphans : disk[d] = "none" /\ ~Alive(d)

\* A replacement never runs two cores: the candidate is started only after the
\* exit of the old instance is confirmed, whatever failed before.
OneCore ==
  \A d, e \in Dirs \ orphans :
    core[d] \in {"run", "serving"} /\ core[e] \in {"run", "serving"} => d = e

\* While the runtime reports Ready, the child it holds is the one that passed
\* the Ready check with exactly the active configuration, and no earlier failed
\* stop has withdrawn that.
ReadyIsTheActiveConfig ==
  (pc # "down" /\ Lifecycle = "Ready") =>
    /\ Running(child)
    /\ running[child].ready
    /\ running[child].config = active
    /\ active # None

\* What every caller of the transaction relies on: nothing is lost track of, Stopped
\* and Ready are true, and there are never two cores of one run.
Safety ==
  /\ TypeOK
  /\ NothingUnowned
  /\ StoppedMeansClean
  /\ OneCore
  /\ ReadyIsTheActiveConfig

\* The port forgets a child only in a step that leaves no process and no
\* directory of it; otherwise a later Stop could not retry.
ForgottenOnlyWhenGone ==
  [][ \A i \in Identities :
        (Running(i) /\ ~Running(i)' /\ pc' # "down") =>
           core'[running[i].dir] = "none" /\ disk'[running[i].dir] = "none" ]_vars

\* Until the candidate is prepared, and when its check or preparation fails,
\* the instance that runs is not touched.
PreparationKeepsActive ==
  [][ (pc \in {"creating", "writing", "checking"} /\ pc' # "down") =>
        UNCHANGED <<child, active, running>> ]_vars

-----------------------------------------------------------------------------
(* The abstract life cycle this transaction implements *)

ManagedCore == INSTANCE ManagedCore WITH
  lifecycle <- IF pc = "down" THEN "Offline" ELSE Lifecycle,
  applied   <- IF pc # "down" /\ Lifecycle = "Ready" THEN active ELSE None

\* Every step of the transaction is a step of the life cycle the application
\* builds on; in particular a runtime that requires recovery never becomes
\* Ready again without a successful Stop, and one configuration replaces
\* another only through Stopped.
ImplementsManagedCore == ManagedCore!Spec

-----------------------------------------------------------------------------
(* The inductive invariant *)

\* An empty slot holds nothing, a used one holds a configuration.
SlotFacts ==
  /\ HasPending <=> pending.config # None
  /\ ~HasPending => ~pending.checking /\ ~pending.checked
  /\ \A i \in Identities : Running(i) <=> running[i].config # None

PhaseFacts ==
  /\ pc = "down" => /\ child = 0 /\ candidate = None /\ active = None /\ ~recovery
                    /\ ~HasPending
  /\ pc = "idle" => /\ candidate = None
                    /\ HasPending => recovery /\ ~pending.checked
  /\ pc \in {"creating", "writing", "checking", "prepared", "launching",
             "awaiting_ready"} => ~recovery
  /\ pc \in {"creating", "writing", "checking"} => request # None /\ candidate = None
  /\ pc = "creating" => ~HasPending
  /\ pc \in {"writing", "checking"} =>
       HasPending /\ ~pending.checked /\ pending.config = request
  /\ pc \in {"prepared", "launching"} =>
       pending.checked /\ HasPending /\ candidate = pending.config
  /\ pc \in {"launching", "awaiting_ready"} => child = 0 /\ active = None
  /\ pc = "awaiting_ready" =>
       /\ ~HasPending
       /\ nextIdentity # 0 /\ Running(nextIdentity)
       /\ candidate = running[nextIdentity].config
  /\ making # None <=> pc = "creating"
  /\ pending.checking => pc = "checking" \/ (pc = "idle" /\ recovery)

HeldIdentity == IF pc = "awaiting_ready" THEN nextIdentity ELSE child

ChildFacts ==
  /\ child # 0 => Running(child)
  /\ \A i \in Identities : Running(i) => i = HeldIdentity /\ i <= nextIdentity
  /\ (child # 0 /\ ~recovery) =>
        running[child].ready /\ running[child].config = active

OwnershipFacts ==
  /\ Owned \cap orphans = {}
  /\ \A i \in Identities : Running(i) => running[i].dir \notin {making, pending.dir}
  /\ making # None =>
        disk[making] \in {"bare", "secured", "config_bare"} /\ ~Alive(making)
  /\ HasPending =>
        /\ core[pending.dir] \in {"none", "check"}
        /\ ~pending.checking => ~Alive(pending.dir)
        /\ disk[pending.dir] # "none"
  /\ \A i \in Identities : Running(i) =>
        core[running[i].dir] # "check" /\ disk[running[i].dir] # "none"

IInv ==
  /\ TypeOK
  /\ SlotFacts
  /\ PhaseFacts
  /\ ChildFacts
  /\ OwnershipFacts
  /\ NothingUnowned
=============================================================================
