------------------------ MODULE SidecarRuntimeProofs ------------------------
(***************************************************************************)
(* TLAPS proofs about SidecarRuntime: IInv is inductive, the promises of   *)
(* the transaction follow from it, and the transaction implements the      *)
(* abstract life cycle ManagedCore.  One lemma per action.                 *)
(***************************************************************************)
EXTENDS SidecarRuntime, TLAPS

USE NoneAssumption, IdentityAssumption

LEMMA PartlyRemovedType ==
  ASSUME NEW s \in DirStates, NEW t \in PartlyRemoved(s)
  PROVE  t \in DirStates /\ (s # "none" => t # "none")
BY DEF DirStates, PartlyRemoved

LEMMA DiscardSucceedsEffect ==
  ASSUME TypeOK, HasPending, DiscardSucceeds
  PROVE  /\ pending' = NoPending /\ pending' \in PendingRuntime
         /\ core' \in [Dirs -> CoreStates] /\ disk' \in [Dirs -> DirStates]
         /\ core'[pending.dir] = "none" /\ disk'[pending.dir] = "none"
         /\ \A d \in Dirs : d # pending.dir => core'[d] = core[d] /\ disk'[d] = disk[d]
BY DEF TypeOK, DiscardSucceeds, HasPending, PendingRuntime, NoPending, CoreStates, DirStates

LEMMA DiscardFailsEffect ==
  ASSUME TypeOK, HasPending, DiscardFails
  PROVE  /\ pending' \in PendingRuntime
         /\ pending'.dir = pending.dir /\ pending'.config = pending.config
         /\ disk[pending.dir] # "none" => disk'[pending.dir] # "none"
         /\ ~pending'.checked
         /\ pending'.checking => pending.checking /\ UNCHANGED <<core, disk>>
         /\ ~pending'.checking => core'[pending.dir] = "none"
         /\ core' \in [Dirs -> CoreStates] /\ disk' \in [Dirs -> DirStates]
         /\ \A d \in Dirs : d # pending.dir => core'[d] = core[d] /\ disk'[d] = disk[d]
<1> USE DEF TypeOK, HasPending, PendingRuntime
<1>1. CASE pending.checking /\ pending' = [pending EXCEPT !.checked = FALSE]
           /\ UNCHANGED <<core, disk>>
  BY <1>1
<1>2. ASSUME pending' = [pending EXCEPT !.checked = FALSE, !.checking = FALSE],
             core' = [core EXCEPT ![pending.dir] = "none"],
             NEW s \in PartlyRemoved(disk[pending.dir]),
             disk' = [disk EXCEPT ![pending.dir] = s]
      PROVE  /\ pending' \in PendingRuntime
             /\ pending'.dir = pending.dir /\ pending'.config = pending.config
             /\ disk[pending.dir] # "none" => disk'[pending.dir] # "none"
             /\ ~pending'.checked
             /\ ~pending'.checking /\ core'[pending.dir] = "none"
             /\ core' \in [Dirs -> CoreStates] /\ disk' \in [Dirs -> DirStates]
             /\ \A d \in Dirs : d # pending.dir => core'[d] = core[d] /\ disk'[d] = disk[d]
  <2>1. s \in DirStates /\ (disk[pending.dir] # "none" => s # "none")
    BY PartlyRemovedType
  <2> QED BY <1>2, <2>1 DEF CoreStates
<1>3. CASE pending.checking /\ pending' = [pending EXCEPT !.checked = FALSE]
           /\ UNCHANGED <<core, disk>>
  BY <1>1, <1>3
<1>4. CASE ~(pending.checking /\ pending' = [pending EXCEPT !.checked = FALSE]
             /\ UNCHANGED <<core, disk>>)
  <2>1. PICK s \in PartlyRemoved(disk[pending.dir]) :
          /\ pending' = [pending EXCEPT !.checked = FALSE, !.checking = FALSE]
          /\ core' = [core EXCEPT ![pending.dir] = "none"]
          /\ disk' = [disk EXCEPT ![pending.dir] = s]
    BY <1>4 DEF DiscardFails
  <2> QED BY <1>2, <2>1
<1> QED BY <1>3, <1>4

LEMMA PortStopFailsEffect ==
  ASSUME TypeOK, NEW i \in Identities, Running(i), PortStopFails(i)
  PROVE  /\ running' = [running EXCEPT ![i].ready = FALSE]
         /\ running' \in [Identities -> RunningChild]
         /\ ~running'[i].ready
         /\ \A j \in Identities : /\ running'[j].dir = running[j].dir
                                  /\ running'[j].config = running[j].config
                                  /\ j # i => running'[j] = running[j]
         /\ core' \in [Dirs -> CoreStates] /\ disk' \in [Dirs -> DirStates]
         /\ core'[running[i].dir] \in {core[running[i].dir], "none"}
         /\ disk[running[i].dir] # "none" => disk'[running[i].dir] # "none"
         /\ \A d \in Dirs : d # running[i].dir => core'[d] = core[d] /\ disk'[d] = disk[d]
<1> USE DEF TypeOK, Running, RunningChild
<1>1. running' = [running EXCEPT ![i].ready = FALSE] /\ running' \in [Identities -> RunningChild]
  <2>1. running[i] \in RunningChild OBVIOUS
  <2>2. [running[i] EXCEPT !.ready = FALSE] \in RunningChild BY <2>1
  <2>3. running' = [running EXCEPT ![i] = [running[i] EXCEPT !.ready = FALSE]]
    BY DEF PortStopFails
  <2> QED BY <2>2, <2>3
<1>a. /\ ~running'[i].ready
      /\ \A j \in Identities : /\ running'[j].dir = running[j].dir
                               /\ running'[j].config = running[j].config
                               /\ j # i => running'[j] = running[j]
  BY <1>1
<1>2. CASE UNCHANGED <<core, disk>>
  BY <1>1, <1>a, <1>2
<1>3. ASSUME core' = [core EXCEPT ![running[i].dir] = "none"],
             NEW s \in PartlyRemoved(disk[running[i].dir]),
             disk' = [disk EXCEPT ![running[i].dir] = s]
      PROVE  /\ core' \in [Dirs -> CoreStates] /\ disk' \in [Dirs -> DirStates]
             /\ core'[running[i].dir] \in {core[running[i].dir], "none"}
             /\ disk[running[i].dir] # "none" => disk'[running[i].dir] # "none"
             /\ \A d \in Dirs : d # running[i].dir => core'[d] = core[d] /\ disk'[d] = disk[d]
  <2>1. s \in DirStates /\ (disk[running[i].dir] # "none" => s # "none")
    BY PartlyRemovedType
  <2> QED BY <1>3, <2>1 DEF CoreStates
<1> QED BY <1>1, <1>a, <1>2, <1>3 DEF PortStopFails

LEMMA OpenPortStep == ASSUME IInv, OpenPort PROVE IInv'
<1> USE DEF IInv, OpenPort, FreshRuntime, Finish, CandidateRejected, HasPendingCleanup,
     runtimeVars, portVars, osVars, Alive, Running, HasPending, Put, ChildDir,
     Identities, DirStates, CoreStates, PendingRuntime, NoPending, RunningChild,
     NoChild, Phases, Results
<1>1. TypeOK' BY DEF TypeOK
<1>2. SlotFacts' BY DEF TypeOK, SlotFacts, PhaseFacts
<1>3. PhaseFacts' BY DEF TypeOK, SlotFacts, PhaseFacts, ChildFacts, HeldIdentity
<1>4. ChildFacts' BY DEF TypeOK, SlotFacts, PhaseFacts, ChildFacts, HeldIdentity
<1>5. OwnershipFacts' BY DEF TypeOK, SlotFacts, PhaseFacts, ChildFacts, HeldIdentity,
     OwnershipFacts, NothingUnowned, Owned
<1>6. NothingUnowned' BY DEF TypeOK, PhaseFacts, ChildFacts, HeldIdentity,
     OwnershipFacts, NothingUnowned, Owned
<1> QED BY <1>1, <1>2, <1>3, <1>4, <1>5, <1>6

LEMMA OpenPortFailsStep == ASSUME IInv, OpenPortFails PROVE IInv'
<1> USE DEF IInv, OpenPortFails, FreshRuntime, Finish, CandidateRejected,
     HasPendingCleanup, runtimeVars, portVars, osVars, Alive, Running, HasPending, Put,
     ChildDir, Identities, DirStates, CoreStates, PendingRuntime, NoPending,
     RunningChild, NoChild, Phases, Results
<1>1. TypeOK' BY DEF TypeOK
<1>2. SlotFacts' BY DEF TypeOK, SlotFacts, PhaseFacts
<1>3. PhaseFacts' BY DEF TypeOK, SlotFacts, PhaseFacts, ChildFacts, HeldIdentity
<1>4. ChildFacts' BY DEF TypeOK, SlotFacts, PhaseFacts, ChildFacts, HeldIdentity
<1>5. OwnershipFacts' BY DEF TypeOK, SlotFacts, PhaseFacts, ChildFacts, HeldIdentity,
     OwnershipFacts, NothingUnowned, Owned
<1>6. NothingUnowned' BY DEF TypeOK, PhaseFacts, ChildFacts, HeldIdentity,
     OwnershipFacts, NothingUnowned, Owned
<1> QED BY <1>1, <1>2, <1>3, <1>4, <1>5, <1>6

LEMMA CrashStep == ASSUME IInv, Crash PROVE IInv'
<1> USE DEF IInv, Crash, FreshRuntime, Finish, CandidateRejected, HasPendingCleanup,
     runtimeVars, portVars, osVars, Alive, Running, HasPending, Put, ChildDir,
     Identities, DirStates, CoreStates, PendingRuntime, NoPending, RunningChild,
     NoChild, Phases, Results
<1>1. TypeOK' BY DEF TypeOK
<1>2. SlotFacts' BY DEF TypeOK, SlotFacts, PhaseFacts
<1>3. PhaseFacts' BY DEF TypeOK, SlotFacts, PhaseFacts, ChildFacts, HeldIdentity
<1>4. ChildFacts' BY DEF TypeOK, SlotFacts, PhaseFacts, ChildFacts, HeldIdentity
<1>5. OwnershipFacts' BY DEF TypeOK, SlotFacts, PhaseFacts, ChildFacts, HeldIdentity,
     OwnershipFacts, NothingUnowned, Owned
<1>6. NothingUnowned' BY DEF TypeOK, PhaseFacts, ChildFacts, HeldIdentity,
     OwnershipFacts, NothingUnowned, Owned
<1> QED BY <1>1, <1>2, <1>3, <1>4, <1>5, <1>6

LEMMA PrepareRefusedStep == ASSUME IInv, PrepareRefused PROVE IInv'
<1> USE DEF IInv, PrepareRefused, FreshRuntime, Finish, CandidateRejected,
     HasPendingCleanup, runtimeVars, portVars, osVars, Alive, Running, HasPending, Put,
     ChildDir, Identities, DirStates, CoreStates, PendingRuntime, NoPending,
     RunningChild, NoChild, Phases, Results
<1>1. TypeOK' BY DEF TypeOK
<1>2. SlotFacts' BY DEF TypeOK, SlotFacts, PhaseFacts
<1>3. PhaseFacts' BY DEF TypeOK, SlotFacts, PhaseFacts, ChildFacts, HeldIdentity
<1>4. ChildFacts' BY DEF TypeOK, SlotFacts, PhaseFacts, ChildFacts, HeldIdentity
<1>5. OwnershipFacts' BY DEF TypeOK, SlotFacts, PhaseFacts, ChildFacts, HeldIdentity,
     OwnershipFacts, NothingUnowned, Owned
<1>6. NothingUnowned' BY DEF TypeOK, PhaseFacts, ChildFacts, HeldIdentity,
     OwnershipFacts, NothingUnowned, Owned
<1> QED BY <1>1, <1>2, <1>3, <1>4, <1>5, <1>6

LEMMA CheckNotStartedStep == ASSUME IInv, CheckNotStarted PROVE IInv'
<1> USE DEF IInv, CheckNotStarted, FreshRuntime, Finish, CandidateRejected,
     HasPendingCleanup, runtimeVars, portVars, osVars, Alive, Running, HasPending, Put,
     ChildDir, Identities, DirStates, CoreStates, PendingRuntime, NoPending,
     RunningChild, NoChild, Phases, Results
<1>1. TypeOK' BY DEF TypeOK
<1>2. SlotFacts' BY DEF TypeOK, SlotFacts, PhaseFacts
<1>3. PhaseFacts' BY DEF TypeOK, SlotFacts, PhaseFacts, ChildFacts, HeldIdentity
<1>4. ChildFacts' BY DEF TypeOK, SlotFacts, PhaseFacts, ChildFacts, HeldIdentity
<1>5. OwnershipFacts' BY DEF TypeOK, SlotFacts, PhaseFacts, ChildFacts, HeldIdentity,
     OwnershipFacts, NothingUnowned, Owned
<1>6. NothingUnowned' BY DEF TypeOK, PhaseFacts, ChildFacts, HeldIdentity,
     OwnershipFacts, NothingUnowned, Owned
<1> QED BY <1>1, <1>2, <1>3, <1>4, <1>5, <1>6

LEMMA CreateFinishesStep == ASSUME IInv, CreateFinishes PROVE IInv'
<1> USE DEF IInv, CreateFinishes, FreshRuntime, Finish, CandidateRejected,
     HasPendingCleanup, runtimeVars, portVars, osVars, Alive, Running, HasPending, Put,
     ChildDir, Identities, DirStates, CoreStates, PendingRuntime, NoPending,
     RunningChild, NoChild, Phases, Results
<1>1. TypeOK' BY DEF TypeOK
<1>2. SlotFacts' BY DEF TypeOK, SlotFacts, PhaseFacts
<1>3. PhaseFacts' BY DEF TypeOK, SlotFacts, PhaseFacts, ChildFacts, HeldIdentity
<1>4. ChildFacts' BY DEF TypeOK, SlotFacts, PhaseFacts, ChildFacts, HeldIdentity
<1>5. OwnershipFacts' BY DEF TypeOK, SlotFacts, PhaseFacts, ChildFacts, HeldIdentity,
     OwnershipFacts, NothingUnowned, Owned
<1>6. NothingUnowned' BY DEF TypeOK, PhaseFacts, ChildFacts, HeldIdentity,
     OwnershipFacts, NothingUnowned, Owned
<1> QED BY <1>1, <1>2, <1>3, <1>4, <1>5, <1>6

LEMMA StartCheckStep == ASSUME IInv, StartCheck PROVE IInv'
<1> USE DEF IInv, StartCheck, FreshRuntime, Finish, CandidateRejected,
     HasPendingCleanup, runtimeVars, portVars, osVars, Alive, Running, HasPending, Put,
     ChildDir, Identities, DirStates, CoreStates, PendingRuntime, NoPending,
     RunningChild, NoChild, Phases, Results
<1>1. TypeOK' BY DEF TypeOK
<1>2. SlotFacts' BY DEF TypeOK, SlotFacts, PhaseFacts
<1>3. PhaseFacts' BY DEF TypeOK, SlotFacts, PhaseFacts, ChildFacts, HeldIdentity
<1>4. ChildFacts' BY DEF TypeOK, SlotFacts, PhaseFacts, ChildFacts, HeldIdentity
<1>5. OwnershipFacts' BY DEF TypeOK, SlotFacts, PhaseFacts, ChildFacts, HeldIdentity,
     OwnershipFacts, NothingUnowned, Owned
<1>6. NothingUnowned' BY DEF TypeOK, PhaseFacts, ChildFacts, HeldIdentity,
     OwnershipFacts, NothingUnowned, Owned
<1> QED BY <1>1, <1>2, <1>3, <1>4, <1>5, <1>6

LEMMA CheckPassesStep == ASSUME IInv, CheckPasses PROVE IInv'
<1> USE DEF IInv, CheckPasses, FreshRuntime, Finish, CandidateRejected,
     HasPendingCleanup, runtimeVars, portVars, osVars, Alive, Running, HasPending, Put,
     ChildDir, Identities, DirStates, CoreStates, PendingRuntime, NoPending,
     RunningChild, NoChild, Phases, Results
<1>1. TypeOK' BY DEF TypeOK
<1>2. SlotFacts' BY DEF TypeOK, SlotFacts, PhaseFacts
<1>3. PhaseFacts' BY DEF TypeOK, SlotFacts, PhaseFacts, ChildFacts, HeldIdentity
<1>4. ChildFacts' BY DEF TypeOK, SlotFacts, PhaseFacts, ChildFacts, HeldIdentity
<1>5. OwnershipFacts' BY DEF TypeOK, SlotFacts, PhaseFacts, ChildFacts, HeldIdentity,
     OwnershipFacts, NothingUnowned, Owned
<1>6. NothingUnowned' BY DEF TypeOK, PhaseFacts, ChildFacts, HeldIdentity,
     OwnershipFacts, NothingUnowned, Owned
<1> QED BY <1>1, <1>2, <1>3, <1>4, <1>5, <1>6

LEMMA CheckUnconfirmedStep == ASSUME IInv, CheckUnconfirmed PROVE IInv'
<1> USE DEF IInv, CheckUnconfirmed, FreshRuntime, Finish, CandidateRejected,
     HasPendingCleanup, runtimeVars, portVars, osVars, Alive, Running, HasPending, Put,
     ChildDir, Identities, DirStates, CoreStates, PendingRuntime, NoPending,
     RunningChild, NoChild, Phases, Results
<1>1. TypeOK' BY DEF TypeOK
<1>2. SlotFacts' BY DEF TypeOK, SlotFacts, PhaseFacts
<1>3. PhaseFacts' BY DEF TypeOK, SlotFacts, PhaseFacts, ChildFacts, HeldIdentity
<1>4. ChildFacts' BY DEF TypeOK, SlotFacts, PhaseFacts, ChildFacts, HeldIdentity
<1>5. OwnershipFacts' BY DEF TypeOK, SlotFacts, PhaseFacts, ChildFacts, HeldIdentity,
     OwnershipFacts, NothingUnowned, Owned
<1>6. NothingUnowned' BY DEF TypeOK, PhaseFacts, ChildFacts, HeldIdentity,
     OwnershipFacts, NothingUnowned, Owned
<1> QED BY <1>1, <1>2, <1>3, <1>4, <1>5, <1>6

LEMMA RunCandidateStep == ASSUME IInv, RunCandidate PROVE IInv'
<1> USE DEF IInv, RunCandidate, FreshRuntime, Finish, CandidateRejected,
     HasPendingCleanup, runtimeVars, portVars, osVars, Alive, Running, HasPending, Put,
     ChildDir, Identities, DirStates, CoreStates, PendingRuntime, NoPending,
     RunningChild, NoChild, Phases, Results
<1>1. TypeOK' BY DEF TypeOK
<1>2. SlotFacts' BY DEF TypeOK, SlotFacts, PhaseFacts
<1>3. PhaseFacts' BY DEF TypeOK, SlotFacts, PhaseFacts, ChildFacts, HeldIdentity
<1>4. ChildFacts' BY DEF TypeOK, SlotFacts, PhaseFacts, ChildFacts, HeldIdentity
<1>5. OwnershipFacts' BY DEF TypeOK, SlotFacts, PhaseFacts, ChildFacts, HeldIdentity,
     OwnershipFacts, NothingUnowned, Owned
<1>6. NothingUnowned' BY DEF TypeOK, PhaseFacts, ChildFacts, HeldIdentity,
     OwnershipFacts, NothingUnowned, Owned
<1> QED BY <1>1, <1>2, <1>3, <1>4, <1>5, <1>6

LEMMA StopSucceedsStep == ASSUME IInv, StopSucceeds PROVE IInv'
<1> USE DEF IInv, StopSucceeds, FreshRuntime, Finish, CandidateRejected,
     HasPendingCleanup, runtimeVars, portVars, osVars, Alive, Running, HasPending, Put,
     ChildDir, Identities, DirStates, CoreStates, PendingRuntime, NoPending,
     RunningChild, NoChild, Phases, Results
<1>1. TypeOK' BY DEF TypeOK
<1>2. SlotFacts' BY DEF TypeOK, SlotFacts, PhaseFacts
<1>3. PhaseFacts' BY DEF TypeOK, SlotFacts, PhaseFacts, ChildFacts, HeldIdentity
<1>4. ChildFacts' BY DEF TypeOK, SlotFacts, PhaseFacts, ChildFacts, HeldIdentity
<1>5. OwnershipFacts' BY DEF TypeOK, SlotFacts, PhaseFacts, ChildFacts, HeldIdentity,
     OwnershipFacts, NothingUnowned, Owned
<1>6. NothingUnowned' BY DEF TypeOK, PhaseFacts, ChildFacts, HeldIdentity,
     OwnershipFacts, NothingUnowned, Owned
<1> QED BY <1>1, <1>2, <1>3, <1>4, <1>5, <1>6

LEMMA CreateDirectoryStep == ASSUME IInv, NEW c \in Configs, NEW d \in Dirs, CreateDirectory(c, d) PROVE IInv'
<1> USE DEF IInv, CreateDirectory, FreshRuntime, Finish, CandidateRejected,
     HasPendingCleanup, runtimeVars, portVars, osVars, Alive, Running, HasPending, Put,
     ChildDir, Identities, DirStates, CoreStates, PendingRuntime, NoPending,
     RunningChild, NoChild, Phases, Results
<1>1. TypeOK' BY DEF TypeOK
<1>2. SlotFacts' BY DEF TypeOK, SlotFacts, PhaseFacts
<1>3. PhaseFacts' BY DEF TypeOK, SlotFacts, PhaseFacts, ChildFacts, HeldIdentity
<1>4. ChildFacts' BY DEF TypeOK, SlotFacts, PhaseFacts, ChildFacts, HeldIdentity
<1>5. OwnershipFacts' BY DEF TypeOK, SlotFacts, PhaseFacts, ChildFacts, HeldIdentity,
     OwnershipFacts, NothingUnowned, Owned
<1>6. NothingUnowned' BY DEF TypeOK, PhaseFacts, ChildFacts, HeldIdentity,
     OwnershipFacts, NothingUnowned, Owned
<1> QED BY <1>1, <1>2, <1>3, <1>4, <1>5, <1>6

LEMMA CoreBindsStep == ASSUME IInv, NEW d \in Dirs, CoreBinds(d) PROVE IInv'
<1> USE DEF IInv, CoreBinds, FreshRuntime, Finish, CandidateRejected, HasPendingCleanup,
     runtimeVars, portVars, osVars, Alive, Running, HasPending, Put, ChildDir,
     Identities, DirStates, CoreStates, PendingRuntime, NoPending, RunningChild,
     NoChild, Phases, Results
<1>1. TypeOK' BY DEF TypeOK
<1>2. SlotFacts' BY DEF TypeOK, SlotFacts, PhaseFacts
<1>3. PhaseFacts' BY DEF TypeOK, SlotFacts, PhaseFacts, ChildFacts, HeldIdentity
<1>4. ChildFacts' BY DEF TypeOK, SlotFacts, PhaseFacts, ChildFacts, HeldIdentity
<1>5. OwnershipFacts' BY DEF TypeOK, SlotFacts, PhaseFacts, ChildFacts, HeldIdentity,
     OwnershipFacts, NothingUnowned, Owned
<1>6. NothingUnowned' BY DEF TypeOK, PhaseFacts, ChildFacts, HeldIdentity,
     OwnershipFacts, NothingUnowned, Owned
<1> QED BY <1>1, <1>2, <1>3, <1>4, <1>5, <1>6

LEMMA CoreExitsStep == ASSUME IInv, NEW d \in Dirs, CoreExits(d) PROVE IInv'
<1> USE DEF IInv, CoreExits, FreshRuntime, Finish, CandidateRejected, HasPendingCleanup,
     runtimeVars, portVars, osVars, Alive, Running, HasPending, Put, ChildDir,
     Identities, DirStates, CoreStates, PendingRuntime, NoPending, RunningChild,
     NoChild, Phases, Results
<1>1. TypeOK' BY DEF TypeOK
<1>2. SlotFacts' BY DEF TypeOK, SlotFacts, PhaseFacts
<1>3. PhaseFacts' BY DEF TypeOK, SlotFacts, PhaseFacts, ChildFacts, HeldIdentity
<1>4. ChildFacts' BY DEF TypeOK, SlotFacts, PhaseFacts, ChildFacts, HeldIdentity
<1>5. OwnershipFacts' BY DEF TypeOK, SlotFacts, PhaseFacts, ChildFacts, HeldIdentity,
     OwnershipFacts, NothingUnowned, Owned
<1>6. NothingUnowned' BY DEF TypeOK, PhaseFacts, ChildFacts, HeldIdentity,
     OwnershipFacts, NothingUnowned, Owned
<1> QED BY <1>1, <1>2, <1>3, <1>4, <1>5, <1>6

LEMMA RunCandidateFailsStep == ASSUME IInv, RunCandidateFails PROVE IInv'
<1> USE DEF IInv, RunCandidateFails, Finish, CandidateRejected, HasPendingCleanup,
     runtimeVars, portVars, osVars, Alive, Running, HasPending, Put, ChildDir,
     Identities, DirStates, CoreStates, PendingRuntime, NoPending, RunningChild,
     NoChild, Phases, Results
<1>0. HasPending /\ pending.dir \in Dirs BY DEF TypeOK, PhaseFacts
<1>1. CASE DiscardSucceeds
  <2>1. TypeOK' BY <1>0, <1>1, DiscardSucceedsEffect DEF TypeOK
  <2>2. SlotFacts' BY <1>0, <1>1, DiscardSucceedsEffect DEF TypeOK, SlotFacts, PhaseFacts
  <2>3. PhaseFacts' BY <1>0, <1>1, DiscardSucceedsEffect DEF TypeOK, SlotFacts,
       PhaseFacts, ChildFacts, HeldIdentity
  <2>4. ChildFacts' BY <1>0, <1>1, DiscardSucceedsEffect DEF TypeOK, SlotFacts,
       PhaseFacts, ChildFacts, HeldIdentity
  <2>5. OwnershipFacts' BY <1>0, <1>1, DiscardSucceedsEffect DEF TypeOK, SlotFacts,
       PhaseFacts, ChildFacts, HeldIdentity, OwnershipFacts, NothingUnowned, Owned
  <2>6. NothingUnowned' BY <1>0, <1>1, DiscardSucceedsEffect DEF TypeOK, PhaseFacts,
       ChildFacts, HeldIdentity, OwnershipFacts, NothingUnowned, Owned
  <2> QED BY <2>1, <2>2, <2>3, <2>4, <2>5, <2>6
<1>2. CASE DiscardFails
  <2>1. TypeOK' BY <1>0, <1>2, DiscardFailsEffect DEF TypeOK
  <2>2. SlotFacts' BY <1>0, <1>2, DiscardFailsEffect DEF TypeOK, SlotFacts, PhaseFacts
  <2>3. PhaseFacts' BY <1>0, <1>2, DiscardFailsEffect DEF TypeOK, SlotFacts, PhaseFacts,
       ChildFacts, HeldIdentity
  <2>4. ChildFacts' BY <1>0, <1>2, DiscardFailsEffect DEF TypeOK, SlotFacts, PhaseFacts,
       ChildFacts, HeldIdentity
  <2>5. OwnershipFacts' BY <1>0, <1>2, DiscardFailsEffect DEF TypeOK, SlotFacts,
       PhaseFacts, ChildFacts, HeldIdentity, OwnershipFacts, NothingUnowned, Owned
  <2>6. NothingUnowned' BY <1>0, <1>2, DiscardFailsEffect DEF TypeOK, PhaseFacts,
       ChildFacts, HeldIdentity, OwnershipFacts, NothingUnowned, Owned
  <2> QED BY <2>1, <2>2, <2>3, <2>4, <2>5, <2>6
<1> QED BY <1>1, <1>2

LEMMA CancelPreparedStep == ASSUME IInv, CancelPrepared PROVE IInv'
<1> USE DEF IInv, CancelPrepared, Finish, CandidateRejected, HasPendingCleanup,
     runtimeVars, portVars, osVars, Alive, Running, HasPending, Put, ChildDir,
     Identities, DirStates, CoreStates, PendingRuntime, NoPending, RunningChild,
     NoChild, Phases, Results
<1>0. HasPending /\ pending.dir \in Dirs BY DEF TypeOK, PhaseFacts
<1>1. CASE DiscardSucceeds /\ Finish("Ok") /\ UNCHANGED recovery
  <2>1. TypeOK' BY <1>0, <1>1, DiscardSucceedsEffect DEF TypeOK
  <2>2. SlotFacts' BY <1>0, <1>1, DiscardSucceedsEffect DEF TypeOK, SlotFacts, PhaseFacts
  <2>3. PhaseFacts' BY <1>0, <1>1, DiscardSucceedsEffect DEF TypeOK, SlotFacts,
       PhaseFacts, ChildFacts, HeldIdentity
  <2>4. ChildFacts' BY <1>0, <1>1, DiscardSucceedsEffect DEF TypeOK, SlotFacts,
       PhaseFacts, ChildFacts, HeldIdentity
  <2>5. OwnershipFacts' BY <1>0, <1>1, DiscardSucceedsEffect DEF TypeOK, SlotFacts,
       PhaseFacts, ChildFacts, HeldIdentity, OwnershipFacts, NothingUnowned, Owned
  <2>6. NothingUnowned' BY <1>0, <1>1, DiscardSucceedsEffect DEF TypeOK, PhaseFacts,
       ChildFacts, HeldIdentity, OwnershipFacts, NothingUnowned, Owned
  <2> QED BY <2>1, <2>2, <2>3, <2>4, <2>5, <2>6
<1>2. CASE DiscardFails /\ Finish("CandidateStop") /\ recovery' = TRUE
  <2>1. TypeOK' BY <1>0, <1>2, DiscardFailsEffect DEF TypeOK
  <2>2. SlotFacts' BY <1>0, <1>2, DiscardFailsEffect DEF TypeOK, SlotFacts, PhaseFacts
  <2>3. PhaseFacts' BY <1>0, <1>2, DiscardFailsEffect DEF TypeOK, SlotFacts, PhaseFacts,
       ChildFacts, HeldIdentity
  <2>4. ChildFacts' BY <1>0, <1>2, DiscardFailsEffect DEF TypeOK, SlotFacts, PhaseFacts,
       ChildFacts, HeldIdentity
  <2>5. OwnershipFacts' BY <1>0, <1>2, DiscardFailsEffect DEF TypeOK, SlotFacts,
       PhaseFacts, ChildFacts, HeldIdentity, OwnershipFacts, NothingUnowned, Owned
  <2>6. NothingUnowned' BY <1>0, <1>2, DiscardFailsEffect DEF TypeOK, PhaseFacts,
       ChildFacts, HeldIdentity, OwnershipFacts, NothingUnowned, Owned
  <2> QED BY <2>1, <2>2, <2>3, <2>4, <2>5, <2>6
<1> QED BY <1>1, <1>2

LEMMA ProveDirectoryStep == ASSUME IInv, ProveDirectory PROVE IInv'
<1> USE DEF IInv, ProveDirectory, Finish, CandidateRejected, HasPendingCleanup,
     runtimeVars, portVars, osVars, Alive, Running, HasPending, Put, ChildDir,
     Identities, DirStates, CoreStates, PendingRuntime, NoPending, RunningChild,
     NoChild, Phases, Results
<1>0. making \in Dirs BY DEF TypeOK, PhaseFacts
<1>1. CASE disk' = [disk EXCEPT ![making] = "secured"]
  <2>1. TypeOK' BY <1>0, <1>1 DEF TypeOK
  <2>2. SlotFacts' BY <1>0, <1>1 DEF TypeOK, SlotFacts, PhaseFacts
  <2>3. PhaseFacts' BY <1>0, <1>1 DEF TypeOK, SlotFacts, PhaseFacts, ChildFacts,
       HeldIdentity
  <2>4. ChildFacts' BY <1>0, <1>1 DEF TypeOK, SlotFacts, PhaseFacts, ChildFacts,
       HeldIdentity
  <2>5. OwnershipFacts' BY <1>0, <1>1 DEF TypeOK, SlotFacts, PhaseFacts, ChildFacts,
       HeldIdentity, OwnershipFacts, NothingUnowned, Owned
  <2>6. NothingUnowned' BY <1>0, <1>1 DEF TypeOK, PhaseFacts, ChildFacts, HeldIdentity,
       OwnershipFacts, NothingUnowned, Owned
  <2> QED BY <2>1, <2>2, <2>3, <2>4, <2>5, <2>6
<1>2. CASE disk' = [disk EXCEPT ![making] = "config_bare"]
  <2>1. TypeOK' BY <1>0, <1>2 DEF TypeOK
  <2>2. SlotFacts' BY <1>0, <1>2 DEF TypeOK, SlotFacts, PhaseFacts
  <2>3. PhaseFacts' BY <1>0, <1>2 DEF TypeOK, SlotFacts, PhaseFacts, ChildFacts,
       HeldIdentity
  <2>4. ChildFacts' BY <1>0, <1>2 DEF TypeOK, SlotFacts, PhaseFacts, ChildFacts,
       HeldIdentity
  <2>5. OwnershipFacts' BY <1>0, <1>2 DEF TypeOK, SlotFacts, PhaseFacts, ChildFacts,
       HeldIdentity, OwnershipFacts, NothingUnowned, Owned
  <2>6. NothingUnowned' BY <1>0, <1>2 DEF TypeOK, PhaseFacts, ChildFacts, HeldIdentity,
       OwnershipFacts, NothingUnowned, Owned
  <2> QED BY <2>1, <2>2, <2>3, <2>4, <2>5, <2>6
<1> QED BY <1>1, <1>2

LEMMA CreateFailsStep == ASSUME IInv, CreateFails PROVE IInv'
<1> USE DEF IInv, CreateFails, Finish, CandidateRejected, HasPendingCleanup,
     runtimeVars, portVars, osVars, Alive, Running, HasPending, Put, ChildDir,
     Identities, DirStates, CoreStates, PendingRuntime, NoPending, RunningChild,
     NoChild, Phases, Results
<1>0. making \in Dirs /\ ~HasPending BY DEF TypeOK, PhaseFacts
<1>1. CASE disk' = [disk EXCEPT ![making] = "none"] /\ recovery' = FALSE /\ UNCHANGED pending
  <2>1. TypeOK' BY <1>0, <1>1 DEF TypeOK
  <2>2. SlotFacts' BY <1>0, <1>1 DEF TypeOK, SlotFacts, PhaseFacts
  <2>3. PhaseFacts' BY <1>0, <1>1 DEF TypeOK, SlotFacts, PhaseFacts, ChildFacts,
       HeldIdentity
  <2>4. ChildFacts' BY <1>0, <1>1 DEF TypeOK, SlotFacts, PhaseFacts, ChildFacts,
       HeldIdentity
  <2>5. OwnershipFacts' BY <1>0, <1>1 DEF TypeOK, SlotFacts, PhaseFacts, ChildFacts,
       HeldIdentity, OwnershipFacts, NothingUnowned, Owned
  <2>6. NothingUnowned' BY <1>0, <1>1 DEF TypeOK, PhaseFacts, ChildFacts, HeldIdentity,
       OwnershipFacts, NothingUnowned, Owned
  <2> QED BY <2>1, <2>2, <2>3, <2>4, <2>5, <2>6
<1>2. ASSUME NEW s \in PartlyRemoved(disk[making]), disk' = [disk EXCEPT ![making] = s],
             pending' = [dir |-> making, config |-> request, checking |-> FALSE, checked |-> FALSE],
             recovery' = TRUE
      PROVE  IInv'
  <2>0. s \in DirStates /\ s # "none" BY <1>0, PartlyRemovedType DEF TypeOK, OwnershipFacts
  <2>1. TypeOK' BY <1>0, <1>2, <2>0 DEF TypeOK
  <2>2. SlotFacts' BY <1>0, <1>2, <2>0 DEF TypeOK, SlotFacts, PhaseFacts
  <2>3. PhaseFacts' BY <1>0, <1>2, <2>0 DEF TypeOK, SlotFacts, PhaseFacts, ChildFacts,
       HeldIdentity
  <2>4. ChildFacts' BY <1>0, <1>2, <2>0 DEF TypeOK, SlotFacts, PhaseFacts, ChildFacts,
       HeldIdentity
  <2>5. OwnershipFacts' BY <1>0, <1>2, <2>0 DEF TypeOK, SlotFacts, PhaseFacts,
       ChildFacts, HeldIdentity, OwnershipFacts, NothingUnowned, Owned
  <2>6. NothingUnowned' BY <1>0, <1>2, <2>0 DEF TypeOK, PhaseFacts, ChildFacts,
       HeldIdentity, OwnershipFacts, NothingUnowned, Owned
  <2> QED BY <2>1, <2>2, <2>3, <2>4, <2>5, <2>6
<1> QED BY <1>1, <1>2

LEMMA StartCheckFailsStep == ASSUME IInv, StartCheckFails PROVE IInv'
<1> USE DEF IInv, StartCheckFails, Finish, CandidateRejected, HasPendingCleanup,
     runtimeVars, portVars, osVars, Alive, Running, HasPending, Put, ChildDir,
     Identities, DirStates, CoreStates, PendingRuntime, NoPending, RunningChild,
     NoChild, Phases, Results
<1>0. HasPending /\ pending.dir \in Dirs BY DEF TypeOK, PhaseFacts
<1>1. CASE DiscardSucceeds
  <2>1. TypeOK' BY <1>0, <1>1, DiscardSucceedsEffect DEF TypeOK
  <2>2. SlotFacts' BY <1>0, <1>1, DiscardSucceedsEffect DEF TypeOK, SlotFacts, PhaseFacts
  <2>3. PhaseFacts' BY <1>0, <1>1, DiscardSucceedsEffect DEF TypeOK, SlotFacts,
       PhaseFacts, ChildFacts, HeldIdentity
  <2>4. ChildFacts' BY <1>0, <1>1, DiscardSucceedsEffect DEF TypeOK, SlotFacts,
       PhaseFacts, ChildFacts, HeldIdentity
  <2>5. OwnershipFacts' BY <1>0, <1>1, DiscardSucceedsEffect DEF TypeOK, SlotFacts,
       PhaseFacts, ChildFacts, HeldIdentity, OwnershipFacts, NothingUnowned, Owned
  <2>6. NothingUnowned' BY <1>0, <1>1, DiscardSucceedsEffect DEF TypeOK, PhaseFacts,
       ChildFacts, HeldIdentity, OwnershipFacts, NothingUnowned, Owned
  <2> QED BY <2>1, <2>2, <2>3, <2>4, <2>5, <2>6
<1>2. ASSUME NEW s \in {"config", "secret", "secured"}, disk' = [disk EXCEPT ![pending.dir] = s],
             UNCHANGED <<pending, core>>
      PROVE  IInv'
  <2>1. TypeOK' BY <1>0, <1>2 DEF TypeOK
  <2>2. SlotFacts' BY <1>0, <1>2 DEF TypeOK, SlotFacts, PhaseFacts
  <2>3. PhaseFacts' BY <1>0, <1>2 DEF TypeOK, SlotFacts, PhaseFacts, ChildFacts,
       HeldIdentity
  <2>4. ChildFacts' BY <1>0, <1>2 DEF TypeOK, SlotFacts, PhaseFacts, ChildFacts,
       HeldIdentity
  <2>5. OwnershipFacts' BY <1>0, <1>2 DEF TypeOK, SlotFacts, PhaseFacts, ChildFacts,
       HeldIdentity, OwnershipFacts, NothingUnowned, Owned
  <2>6. NothingUnowned' BY <1>0, <1>2 DEF TypeOK, PhaseFacts, ChildFacts, HeldIdentity,
       OwnershipFacts, NothingUnowned, Owned
  <2> QED BY <2>1, <2>2, <2>3, <2>4, <2>5, <2>6
<1> QED BY <1>1, <1>2

LEMMA CheckFailsStep == ASSUME IInv, NEW r \in {"CandidateCheck", "CandidatePrepare"}, CheckFails(r) PROVE IInv'
<1> USE DEF IInv, CheckFails, Finish, CandidateRejected, HasPendingCleanup, runtimeVars,
     portVars, osVars, Alive, Running, HasPending, Put, ChildDir, Identities, DirStates,
     CoreStates, PendingRuntime, NoPending, RunningChild, NoChild, Phases, Results
<1>0. HasPending /\ pending.dir \in Dirs BY DEF TypeOK, PhaseFacts
<1>1. CASE DiscardSucceeds
  <2>1. TypeOK' BY <1>0, <1>1, DiscardSucceedsEffect DEF TypeOK
  <2>2. SlotFacts' BY <1>0, <1>1, DiscardSucceedsEffect DEF TypeOK, SlotFacts, PhaseFacts
  <2>3. PhaseFacts' BY <1>0, <1>1, DiscardSucceedsEffect DEF TypeOK, SlotFacts,
       PhaseFacts, ChildFacts, HeldIdentity
  <2>4. ChildFacts' BY <1>0, <1>1, DiscardSucceedsEffect DEF TypeOK, SlotFacts,
       PhaseFacts, ChildFacts, HeldIdentity
  <2>5. OwnershipFacts' BY <1>0, <1>1, DiscardSucceedsEffect DEF TypeOK, SlotFacts,
       PhaseFacts, ChildFacts, HeldIdentity, OwnershipFacts, NothingUnowned, Owned
  <2>6. NothingUnowned' BY <1>0, <1>1, DiscardSucceedsEffect DEF TypeOK, PhaseFacts,
       ChildFacts, HeldIdentity, OwnershipFacts, NothingUnowned, Owned
  <2> QED BY <2>1, <2>2, <2>3, <2>4, <2>5, <2>6
<1>2. ASSUME pending' = [pending EXCEPT !.checking = FALSE, !.checked = FALSE],
             core' = [core EXCEPT ![pending.dir] = "none"],
             NEW s \in PartlyRemoved(disk[pending.dir]), disk' = [disk EXCEPT ![pending.dir] = s]
      PROVE  IInv'
  <2>0. s \in DirStates /\ s # "none" BY <1>0, PartlyRemovedType DEF TypeOK, OwnershipFacts
  <2>1. TypeOK' BY <1>0, <1>2, <2>0 DEF TypeOK
  <2>2. SlotFacts' BY <1>0, <1>2, <2>0 DEF TypeOK, SlotFacts, PhaseFacts
  <2>3. PhaseFacts' BY <1>0, <1>2, <2>0 DEF TypeOK, SlotFacts, PhaseFacts, ChildFacts,
       HeldIdentity
  <2>4. ChildFacts' BY <1>0, <1>2, <2>0 DEF TypeOK, SlotFacts, PhaseFacts, ChildFacts,
       HeldIdentity
  <2>5. OwnershipFacts' BY <1>0, <1>2, <2>0 DEF TypeOK, SlotFacts, PhaseFacts,
       ChildFacts, HeldIdentity, OwnershipFacts, NothingUnowned, Owned
  <2>6. NothingUnowned' BY <1>0, <1>2, <2>0 DEF TypeOK, PhaseFacts, ChildFacts,
       HeldIdentity, OwnershipFacts, NothingUnowned, Owned
  <2> QED BY <2>1, <2>2, <2>3, <2>4, <2>5, <2>6
<1> QED BY <1>1, <1>2

LEMMA StopOldInstanceStep == ASSUME IInv, StopOldInstance PROVE IInv'
<1> USE DEF IInv, StopOldInstance, Finish, CandidateRejected, HasPendingCleanup,
     runtimeVars, portVars, osVars, Alive, Running, HasPending, Put, ChildDir,
     Identities, DirStates, CoreStates, PendingRuntime, NoPending, RunningChild,
     NoChild, Phases, Results
<1>0. HasPending /\ pending.dir \in Dirs BY DEF TypeOK, PhaseFacts
<1>1. CASE child = 0
  <2>1. TypeOK' BY <1>0, <1>1 DEF TypeOK
  <2>2. SlotFacts' BY <1>0, <1>1 DEF TypeOK, SlotFacts, PhaseFacts
  <2>3. PhaseFacts' BY <1>0, <1>1 DEF TypeOK, SlotFacts, PhaseFacts, ChildFacts,
       HeldIdentity
  <2>4. ChildFacts' BY <1>0, <1>1 DEF TypeOK, SlotFacts, PhaseFacts, ChildFacts,
       HeldIdentity
  <2>5. OwnershipFacts' BY <1>0, <1>1 DEF TypeOK, SlotFacts, PhaseFacts, ChildFacts,
       HeldIdentity, OwnershipFacts, NothingUnowned, Owned
  <2>6. NothingUnowned' BY <1>0, <1>1 DEF TypeOK, PhaseFacts, ChildFacts, HeldIdentity,
       OwnershipFacts, NothingUnowned, Owned
  <2> QED BY <2>1, <2>2, <2>3, <2>4, <2>5, <2>6
<1>2. CASE child # 0
  <2>0. /\ child \in Identities /\ Running(child) /\ running[child].dir \in Dirs
        /\ running' = [running EXCEPT ![child] = NoChild]
        /\ core' = [core EXCEPT ![running[child].dir] = "none"]
        /\ disk' = [disk EXCEPT ![running[child].dir] = "none"]
    BY <1>2 DEF TypeOK, ChildFacts, PortStopSucceeds
  <2>1. TypeOK' BY <1>0, <1>2, <2>0 DEF TypeOK
  <2>2. SlotFacts' BY <1>0, <1>2, <2>0 DEF TypeOK, SlotFacts, PhaseFacts
  <2>3. PhaseFacts' BY <1>0, <1>2, <2>0 DEF TypeOK, SlotFacts, PhaseFacts, ChildFacts,
       HeldIdentity
  <2>4. ChildFacts' BY <1>0, <1>2, <2>0 DEF TypeOK, SlotFacts, PhaseFacts, ChildFacts,
       HeldIdentity
  <2>5. OwnershipFacts' BY <1>0, <1>2, <2>0 DEF TypeOK, SlotFacts, PhaseFacts,
       ChildFacts, HeldIdentity, OwnershipFacts, NothingUnowned, Owned
  <2>6. NothingUnowned' BY <1>0, <1>2, <2>0 DEF TypeOK, PhaseFacts, ChildFacts,
       HeldIdentity, OwnershipFacts, NothingUnowned, Owned
  <2> QED BY <2>1, <2>2, <2>3, <2>4, <2>5, <2>6
<1> QED BY <1>1, <1>2

LEMMA CandidateBecomesReadyStep == ASSUME IInv, CandidateBecomesReady PROVE IInv'
<1> USE DEF IInv, CandidateBecomesReady, Finish, CandidateRejected, HasPendingCleanup,
     runtimeVars, portVars, osVars, Alive, Running, HasPending, Put, ChildDir,
     Identities, DirStates, CoreStates, PendingRuntime, NoPending, RunningChild,
     NoChild, Phases, Results
<1>0. nextIdentity \in Identities /\ running[nextIdentity] \in RunningChild /\ running'
     = [running EXCEPT ![nextIdentity] = [running[nextIdentity] EXCEPT !.ready = TRUE]]
     BY DEF TypeOK, PhaseFacts
<1>1. CASE TRUE
  <2>0. [running[nextIdentity] EXCEPT !.ready = TRUE] \in RunningChild BY <1>0
  <2>a. running' \in [Identities -> RunningChild] BY <1>0, <2>0 DEF TypeOK
  <2>1. TypeOK' BY <1>0, <2>0, <2>a DEF TypeOK
  <2>2. SlotFacts' BY <1>0, <2>0, <2>a DEF TypeOK, SlotFacts, PhaseFacts
  <2>3. PhaseFacts' BY <1>0, <2>0, <2>a DEF TypeOK, SlotFacts, PhaseFacts, ChildFacts,
       HeldIdentity
  <2>4. ChildFacts' BY <1>0, <2>0, <2>a DEF TypeOK, SlotFacts, PhaseFacts, ChildFacts,
       HeldIdentity
  <2>5. OwnershipFacts' BY <1>0, <2>0, <2>a DEF TypeOK, SlotFacts, PhaseFacts,
       ChildFacts, HeldIdentity, OwnershipFacts, NothingUnowned, Owned
  <2>6. NothingUnowned' BY <1>0, <2>0, <2>a DEF TypeOK, PhaseFacts, ChildFacts,
       HeldIdentity, OwnershipFacts, NothingUnowned, Owned
  <2> QED BY <2>1, <2>2, <2>3, <2>4, <2>5, <2>6
<1> QED BY <1>1

LEMMA CandidateNotReadyStep == ASSUME IInv, CandidateNotReady PROVE IInv'
<1> USE DEF IInv, CandidateNotReady, Finish, CandidateRejected, HasPendingCleanup,
     runtimeVars, portVars, osVars, Alive, Running, HasPending, Put, ChildDir,
     Identities, DirStates, CoreStates, PendingRuntime, NoPending, RunningChild,
     NoChild, Phases, Results
<1>0. nextIdentity \in Identities /\ Running(nextIdentity) /\ running[nextIdentity].dir
     \in Dirs BY DEF TypeOK, PhaseFacts
<1>1. CASE PortStopSucceeds(nextIdentity) /\ Finish("CandidateReady") /\ UNCHANGED <<child, recovery>>
  <2>0. running' = [running EXCEPT ![nextIdentity] = NoChild] /\ core' = [core EXCEPT
       ![running[nextIdentity].dir] = "none"] /\ disk' = [disk EXCEPT
       ![running[nextIdentity].dir] = "none"] BY <1>1 DEF PortStopSucceeds
  <2>1. TypeOK' BY <1>0, <1>1, <2>0 DEF TypeOK
  <2>2. SlotFacts' BY <1>0, <1>1, <2>0 DEF TypeOK, SlotFacts, PhaseFacts
  <2>3. PhaseFacts' BY <1>0, <1>1, <2>0 DEF TypeOK, SlotFacts, PhaseFacts, ChildFacts,
       HeldIdentity
  <2>4. ChildFacts' BY <1>0, <1>1, <2>0 DEF TypeOK, SlotFacts, PhaseFacts, ChildFacts,
       HeldIdentity
  <2>5. OwnershipFacts' BY <1>0, <1>1, <2>0 DEF TypeOK, SlotFacts, PhaseFacts,
       ChildFacts, HeldIdentity, OwnershipFacts, NothingUnowned, Owned
  <2>6. NothingUnowned' BY <1>0, <1>1, <2>0 DEF TypeOK, PhaseFacts, ChildFacts,
       HeldIdentity, OwnershipFacts, NothingUnowned, Owned
  <2> QED BY <2>1, <2>2, <2>3, <2>4, <2>5, <2>6
<1>2. CASE PortStopFails(nextIdentity) /\ child' = nextIdentity /\ recovery' = TRUE /\ Finish("CandidateStop")
  <2>1. TypeOK' BY <1>0, <1>2, PortStopFailsEffect DEF TypeOK
  <2>2. SlotFacts' BY <1>0, <1>2, PortStopFailsEffect DEF TypeOK, SlotFacts, PhaseFacts
  <2>3. PhaseFacts' BY <1>0, <1>2, PortStopFailsEffect DEF TypeOK, SlotFacts,
       PhaseFacts, ChildFacts, HeldIdentity
  <2>4. ChildFacts' BY <1>0, <1>2, PortStopFailsEffect DEF TypeOK, SlotFacts,
       PhaseFacts, ChildFacts, HeldIdentity
  <2>5. OwnershipFacts' BY <1>0, <1>2, PortStopFailsEffect DEF TypeOK, SlotFacts,
       PhaseFacts, ChildFacts, HeldIdentity, OwnershipFacts, NothingUnowned, Owned
  <2>6. NothingUnowned' BY <1>0, <1>2, PortStopFailsEffect DEF TypeOK, PhaseFacts,
       ChildFacts, HeldIdentity, OwnershipFacts, NothingUnowned, Owned
  <2> QED BY <2>1, <2>2, <2>3, <2>4, <2>5, <2>6
<1> QED BY <1>1, <1>2

LEMMA StopFailsOnChildStep == ASSUME IInv, StopFailsOnChild PROVE IInv'
<1> USE DEF IInv, StopFailsOnChild, Finish, CandidateRejected, HasPendingCleanup,
     runtimeVars, portVars, osVars, Alive, Running, HasPending, Put, ChildDir,
     Identities, DirStates, CoreStates, PendingRuntime, NoPending, RunningChild,
     NoChild, Phases, Results
<1>0. child \in Identities /\ Running(child) /\ running[child].dir \in Dirs BY DEF
     TypeOK, ChildFacts
<1>1. CASE TRUE
  <2>1. TypeOK' BY <1>0, PortStopFailsEffect DEF TypeOK
  <2>2. SlotFacts' BY <1>0, PortStopFailsEffect DEF TypeOK, SlotFacts, PhaseFacts
  <2>3. PhaseFacts' BY <1>0, PortStopFailsEffect DEF TypeOK, SlotFacts, PhaseFacts,
       ChildFacts, HeldIdentity
  <2>4. ChildFacts' BY <1>0, PortStopFailsEffect DEF TypeOK, SlotFacts, PhaseFacts,
       ChildFacts, HeldIdentity
  <2>5. OwnershipFacts' BY <1>0, PortStopFailsEffect DEF TypeOK, SlotFacts, PhaseFacts,
       ChildFacts, HeldIdentity, OwnershipFacts, NothingUnowned, Owned
  <2>6. NothingUnowned' BY <1>0, PortStopFailsEffect DEF TypeOK, PhaseFacts, ChildFacts,
       HeldIdentity, OwnershipFacts, NothingUnowned, Owned
  <2> QED BY <2>1, <2>2, <2>3, <2>4, <2>5, <2>6
<1> QED BY <1>1

LEMMA StopOldInstanceFailsStep == ASSUME IInv, StopOldInstanceFails PROVE IInv'
<1> USE DEF IInv, StopOldInstanceFails, Finish, CandidateRejected, HasPendingCleanup,
     runtimeVars, portVars, osVars, Alive, Running, HasPending, Put, ChildDir,
     Identities, DirStates, CoreStates, PendingRuntime, NoPending, RunningChild,
     NoChild, Phases, Results
<1>0. /\ HasPending /\ pending.dir \in Dirs /\ ~pending.checking
      /\ child \in Identities /\ Running(child) /\ running[child].dir \in Dirs
      /\ running[child].dir # pending.dir
  BY DEF TypeOK, PhaseFacts, ChildFacts, OwnershipFacts
<1> DEFINE old == running[child].dir
           new == pending.dir
<1>1. PICK gone \in BOOLEAN, discarded \in BOOLEAN :
        /\ core' = [core EXCEPT ![old] = IF gone THEN "none" ELSE @]
        /\ \E s \in (IF gone THEN PartlyRemoved(disk[old]) ELSE {disk[old]}),
              t \in (IF discarded THEN {"none"} ELSE PartlyRemoved(disk[new])) :
             disk' = [disk EXCEPT ![old] = s, ![new] = t]
        /\ pending' = IF discarded THEN NoPending ELSE [pending EXCEPT !.checked = FALSE]
        /\ Finish(IF discarded THEN "ActiveStop" ELSE "CandidateStop")
  OBVIOUS
<1>2. PICK s \in (IF gone THEN PartlyRemoved(disk[old]) ELSE {disk[old]}),
           t \in (IF discarded THEN {"none"} ELSE PartlyRemoved(disk[new])) :
        disk' = [disk EXCEPT ![old] = s, ![new] = t]
  BY <1>1
<1>3. /\ s \in DirStates /\ (disk[old] # "none" => s # "none")
      /\ t \in DirStates /\ (~discarded => (disk[new] # "none" => t # "none"))
      /\ discarded => t = "none"
  BY <1>0, PartlyRemovedType DEF TypeOK
<1>4. /\ running' \in [Identities -> RunningChild]
      /\ \A j \in Identities : /\ running'[j].dir = running[j].dir
                               /\ running'[j].config = running[j].config
  <2>1. running[child] \in RunningChild BY <1>0 DEF TypeOK
  <2>2. [running[child] EXCEPT !.ready = FALSE] \in RunningChild BY <2>1
  <2>3. running' = [running EXCEPT ![child] = [running[child] EXCEPT !.ready = FALSE]]
    OBVIOUS
  <2> QED BY <1>0, <2>2, <2>3 DEF TypeOK
<1>5. /\ pending' \in PendingRuntime /\ ~pending'.checked /\ ~pending'.checking
      /\ discarded => pending'.dir = None /\ pending'.config = None
      /\ ~discarded => pending'.dir = new /\ pending'.config = pending.config
  BY <1>0, <1>1 DEF TypeOK
<1>6. /\ core' \in [Dirs -> CoreStates] /\ disk' \in [Dirs -> DirStates]
      /\ core'[old] \in {core[old], "none"} /\ disk'[old] = s /\ disk'[new] = t
      /\ core'[new] = core[new]
      /\ \A d \in Dirs : /\ d # old => core'[d] = core[d]
                         /\ d # old /\ d # new => disk'[d] = disk[d]
  BY <1>0, <1>1, <1>2, <1>3 DEF TypeOK
<1> HIDE DEF old, new
<1>7. old = running[child].dir /\ new = pending.dir BY DEF old, new
<1>8. TypeOK' BY <1>0, <1>1, <1>3, <1>4, <1>5, <1>6, <1>7 DEF TypeOK
<1>9. SlotFacts' BY <1>0, <1>1, <1>3, <1>4, <1>5, <1>6, <1>7 DEF TypeOK, SlotFacts,
     PhaseFacts
<1>10. PhaseFacts' BY <1>0, <1>1, <1>3, <1>4, <1>5, <1>6, <1>7 DEF TypeOK, SlotFacts,
     PhaseFacts, ChildFacts, HeldIdentity
<1>11. ChildFacts' BY <1>0, <1>1, <1>3, <1>4, <1>5, <1>6, <1>7 DEF TypeOK, SlotFacts,
     PhaseFacts, ChildFacts, HeldIdentity
<1>12. OwnershipFacts' BY <1>0, <1>1, <1>3, <1>4, <1>5, <1>6, <1>7 DEF TypeOK,
     SlotFacts, PhaseFacts, ChildFacts, HeldIdentity, OwnershipFacts, NothingUnowned,
     Owned
<1>13. NothingUnowned' BY <1>0, <1>1, <1>3, <1>4, <1>5, <1>6, <1>7 DEF TypeOK,
     PhaseFacts, ChildFacts, HeldIdentity, OwnershipFacts, NothingUnowned, Owned
<1> QED BY <1>8, <1>9, <1>10, <1>11, <1>12, <1>13

LEMMA StopFailsOnPendingStep == ASSUME IInv, StopFailsOnPending PROVE IInv'
<1> USE DEF IInv, StopFailsOnPending, Finish, CandidateRejected, HasPendingCleanup,
     runtimeVars, portVars, osVars, Alive, Running, HasPending, Put, ChildDir,
     Identities, DirStates, CoreStates, PendingRuntime, NoPending, RunningChild,
     NoChild, Phases, Results
<1>0. /\ HasPending /\ pending.dir \in Dirs /\ ChildDir \in Dirs \cup {None}
      /\ ChildDir # pending.dir
  BY DEF TypeOK, SlotFacts, ChildFacts, OwnershipFacts
<1>1. /\ running' \in [Identities -> RunningChild]
      /\ \A i \in Identities : running'[i].dir = None /\ running'[i].config = None
  BY DEF TypeOK, SlotFacts, ChildFacts, PhaseFacts, HeldIdentity
<1>2. /\ core' \in [Dirs -> CoreStates] /\ disk' \in [Dirs -> DirStates]
      /\ pending' \in PendingRuntime /\ pending'.dir = pending.dir
      /\ pending'.config = pending.config /\ ~pending'.checked
      /\ disk'[pending.dir] # "none"
      /\ pending'.checking => core'[pending.dir] = core[pending.dir]
      /\ ~pending'.checking => core'[pending.dir] = "none"
      /\ ChildDir # None => core'[ChildDir] = "none" /\ disk'[ChildDir] = "none"
      /\ \A d \in Dirs \ {ChildDir, pending.dir} : core'[d] = core[d] /\ disk'[d] = disk[d]
  <2>1. CASE pending' = [pending EXCEPT !.checked = FALSE] /\ pending.checking
    <3>1. core' = Put(core, {ChildDir}, "none") /\ disk' = Put(disk, {ChildDir}, "none")
      BY <1>0, <2>1 DEF TypeOK
    <3> QED BY <1>0, <2>1, <3>1 DEF TypeOK, OwnershipFacts
  <2>2. CASE ~(pending' = [pending EXCEPT !.checked = FALSE] /\ pending.checking)
    <3>1. PICK s \in PartlyRemoved(disk[pending.dir]) :
            /\ pending' = [pending EXCEPT !.checked = FALSE, !.checking = FALSE]
            /\ core' = Put(core, {ChildDir, pending.dir}, "none")
            /\ disk' = [Put(disk, {ChildDir}, "none") EXCEPT ![pending.dir] = s]
      BY <2>2
    <3>2. s \in DirStates /\ s # "none"
      BY <1>0, PartlyRemovedType DEF TypeOK, OwnershipFacts
    <3>3. /\ core' \in [Dirs -> CoreStates] /\ disk' \in [Dirs -> DirStates]
          /\ disk'[pending.dir] # "none" /\ core'[pending.dir] = "none"
          /\ ChildDir # None => core'[ChildDir] = "none" /\ disk'[ChildDir] = "none"
          /\ \A d \in Dirs \ {ChildDir, pending.dir} : core'[d] = core[d] /\ disk'[d] = disk[d]
      BY <1>0, <3>1, <3>2 DEF TypeOK
    <3> QED BY <1>0, <3>1, <3>3 DEF TypeOK
  <2> QED BY <2>1, <2>2
<1>3. TypeOK' BY <1>0, <1>1, <1>2 DEF TypeOK
<1>4. SlotFacts' BY <1>0, <1>1, <1>2 DEF TypeOK, SlotFacts, PhaseFacts
<1>5. PhaseFacts' BY <1>0, <1>1, <1>2 DEF TypeOK, SlotFacts, PhaseFacts, ChildFacts,
     HeldIdentity
<1>6. ChildFacts' BY <1>0, <1>1, <1>2 DEF TypeOK, SlotFacts, PhaseFacts, ChildFacts,
     HeldIdentity
<1>7. OwnershipFacts' BY <1>0, <1>1, <1>2 DEF TypeOK, SlotFacts, PhaseFacts, ChildFacts,
     HeldIdentity, OwnershipFacts, NothingUnowned, Owned
<1>8. NothingUnowned' BY <1>0, <1>1, <1>2 DEF TypeOK, PhaseFacts, ChildFacts,
     HeldIdentity, OwnershipFacts, NothingUnowned, Owned
<1> QED BY <1>3, <1>4, <1>5, <1>6, <1>7, <1>8

-----------------------------------------------------------------------------
LEMMA InitIInv == Init => IInv
<1> SUFFICES ASSUME Init PROVE IInv
  OBVIOUS
<1>1. pending.dir = None /\ pending.config = None /\ ~pending.checking /\ ~pending.checked
  BY DEF Init, NoPending
<1>2. \A i \in Identities : running[i].dir = None /\ running[i].config = None
  BY DEF Init, NoChild
<1>3. pending \in PendingRuntime
  BY DEF Init, NoPending, PendingRuntime
<1>4. NoChild \in RunningChild
  BY DEF NoChild, RunningChild
<1>5. running \in [Identities -> RunningChild]
  BY <1>4 DEF Init
<1>6. disk \in [Dirs -> DirStates] /\ core \in [Dirs -> CoreStates]
  BY DEF Init, DirStates, CoreStates
<1>7. TypeOK
  BY <1>3, <1>5, <1>6 DEF Init, TypeOK, Phases, Results
<1>8. SlotFacts /\ PhaseFacts /\ ChildFacts
  BY <1>1, <1>2 DEF Init, SlotFacts, PhaseFacts, ChildFacts, HeldIdentity, Running, HasPending
<1>9. NothingUnowned
  BY DEF Init, NothingUnowned, Alive
<1>10. OwnershipFacts
  BY <1>1, <1>2 DEF Init, OwnershipFacts, Owned, Running, HasPending
<1> QED BY <1>7, <1>8, <1>9, <1>10 DEF IInv

LEMMA StutterIInv == ASSUME IInv, UNCHANGED vars PROVE IInv'
BY DEF vars, runtimeVars, portVars, osVars, IInv, TypeOK, SlotFacts, PhaseFacts, ChildFacts,
       HeldIdentity, OwnershipFacts, NothingUnowned, Owned, Alive, Running, HasPending

\* The inductive step: no operation, no failure of it and no event of the
\* operating system leads out of the inductive invariant.
LEMMA NextIInv == ASSUME IInv, [Next]_vars PROVE IInv'
<1>1. CASE OpenPort \/ OpenPortFails \/ Crash
  BY <1>1, OpenPortStep, OpenPortFailsStep, CrashStep
<1>2. CASE PrepareReplacement
  BY <1>2, PrepareRefusedStep, CheckNotStartedStep, CreateDirectoryStep, ProveDirectoryStep,
     CreateFinishesStep, CreateFailsStep, StartCheckStep, StartCheckFailsStep,
     CheckPassesStep, CheckFailsStep, CheckUnconfirmedStep
     DEF PrepareReplacement
<1>3. CASE CommitPrepared
  BY <1>3, StopOldInstanceStep, StopOldInstanceFailsStep, RunCandidateStep,
     RunCandidateFailsStep, CandidateBecomesReadyStep, CandidateNotReadyStep
     DEF CommitPrepared
<1>4. CASE CancelPrepared
  BY <1>4, CancelPreparedStep
<1>5. CASE Stop
  BY <1>5, StopSucceedsStep, StopFailsOnChildStep, StopFailsOnPendingStep DEF Stop
<1>6. CASE OperatingSystem
  BY <1>6, CoreBindsStep, CoreExitsStep DEF OperatingSystem
<1>7. CASE UNCHANGED vars
  BY <1>7, StutterIInv
<1> QED BY <1>1, <1>2, <1>3, <1>4, <1>5, <1>6, <1>7 DEF Next

\* The invariant that ties the runtime's fields, the port's maps, the processes
\* and the directories together holds in every reachable state, for any number
\* of directories, configurations and identities.
THEOREM Consistency == Spec => []IInv
BY InitIInv, NextIInv, PTL DEF Spec

\* Type correctness; in particular the checked identity counter never leaves
\* the range of a u64.
THEOREM TypeCorrect == Spec => []TypeOK
BY Consistency, PTL DEF IInv

\* Every directory and process of this application run stays reachable from
\* the port until it is gone.
THEOREM NoLeak == Spec => []NothingUnowned
BY Consistency, PTL DEF IInv

\* The runtime says Stopped only when nothing is left.
THEOREM StoppedIsClean == Spec => []StoppedMeansClean
<1>1. IInv => StoppedMeansClean
  <2> SUFFICES ASSUME IInv, pc = "idle", Lifecycle = "Stopped",
                      NEW d \in Dirs \ orphans
               PROVE  disk[d] = "none" /\ ~Alive(d)
    BY DEF StoppedMeansClean
  <2>1. child = 0 /\ ~HasPending
    BY DEF Lifecycle, IInv, PhaseFacts, TypeOK
  <2>2. making = None /\ \A i \in Identities : running[i].dir = None
    BY <2>1 DEF IInv, PhaseFacts, ChildFacts, HeldIdentity, Running, TypeOK, Identities
  <2>3. d \notin Owned
    BY <2>1, <2>2, NoneAssumption DEF Owned, HasPending
  <2> QED BY <2>3 DEF IInv, NothingUnowned, Alive
<1> QED BY <1>1, Consistency, PTL

\* Never two cores of this application run.
THEOREM SingleCore == Spec => []OneCore
<1>1. IInv => OneCore
  <2> SUFFICES ASSUME IInv, NEW d \in Dirs \ orphans, NEW e \in Dirs \ orphans,
                      core[d] \in {"run", "serving"}, core[e] \in {"run", "serving"}
               PROVE  d = e
    BY DEF OneCore
  <2>1. ASSUME NEW x \in Dirs \ orphans, core[x] \in {"run", "serving"}
        PROVE  \E i \in Identities : Running(i) /\ x = running[i].dir
    <3>1. x \in Owned BY <2>1 DEF IInv, NothingUnowned, Alive
    <3>2. x # making /\ x # pending.dir
      BY <2>1, NoneAssumption DEF IInv, OwnershipFacts, Alive, HasPending
    <3> QED BY <3>1, <3>2, NoneAssumption DEF Owned, Running
  <2>2. PICK i \in Identities : Running(i) /\ d = running[i].dir BY <2>1
  <2>3. PICK j \in Identities : Running(j) /\ e = running[j].dir BY <2>1
  <2>4. i = j BY <2>2, <2>3 DEF IInv, ChildFacts
  <2> QED BY <2>2, <2>3, <2>4
<1> QED BY <1>1, Consistency, PTL

\* Ready means the active configuration, proven Ready and not withdrawn.
THEOREM ReadyIsActive == Spec => []ReadyIsTheActiveConfig
<1>1. IInv => ReadyIsTheActiveConfig
  BY DEF IInv, TypeOK, SlotFacts, ChildFacts, ReadyIsTheActiveConfig, Lifecycle
<1> QED BY <1>1, Consistency, PTL

\* All that the callers of the transaction rely on, together.
THEOREM SafetyHolds == Spec => []Safety
BY TypeCorrect, NoLeak, StoppedIsClean, SingleCore, ReadyIsActive, PTL DEF Safety

-----------------------------------------------------------------------------
\* A step of the transaction is a step of the abstract life cycle, or none.
LEMMA StepSimulation ==
  ASSUME IInv, [Next]_vars
  PROVE  [ManagedCore!Next]_(ManagedCore!vars)
<1> USE DEF ManagedCore!Next, ManagedCore!vars, ManagedCore!Launch, ManagedCore!Apply,
            ManagedCore!TakeDown, ManagedCore!LoseTrack, ManagedCore!Recover,
            ManagedCore!Vanish, Lifecycle
<1>1. CASE OpenPort
  BY <1>1 DEF OpenPort, FreshRuntime
<1>2. CASE OpenPortFails
  BY <1>2 DEF OpenPortFails, runtimeVars
<1>3. CASE Crash
  BY <1>3 DEF Crash, FreshRuntime
<1>4. CASE PrepareReplacement
  <2> USE DEF IInv, PhaseFacts, Finish, CandidateRejected
  <2>1. UNCHANGED <<child, active>> /\ pc # "down" /\ pc' # "down"
    BY <1>4 DEF PrepareReplacement, PrepareRefused, CheckNotStarted, CreateDirectory,
                ProveDirectory, CreateFinishes, CreateFails, StartCheck, StartCheckFails,
                CheckPasses, CheckFails, CheckUnconfirmed, runtimeVars
  <2>2. recovery => recovery'
    BY <1>4 DEF PrepareReplacement, PrepareRefused, CheckNotStarted, CreateDirectory,
                ProveDirectory, CreateFinishes, CreateFails, StartCheck, StartCheckFails,
                CheckPasses, CheckFails, CheckUnconfirmed, runtimeVars
  <2>3. recovery \in BOOLEAN /\ recovery' \in BOOLEAN BY NextIInv DEF TypeOK
  <2> QED BY <2>1, <2>2, <2>3
<1>5. CASE CommitPrepared
  <2> USE DEF IInv, PhaseFacts, Finish
  <2>1. CASE StopOldInstance BY <2>1 DEF StopOldInstance
  <2>2. CASE StopOldInstanceFails BY <2>2 DEF StopOldInstanceFails
  <2>3. CASE RunCandidate BY <2>3 DEF RunCandidate, runtimeVars
  <2>4. CASE RunCandidateFails
    <3>1. recovery' \in BOOLEAN BY NextIInv DEF TypeOK
    <3> QED BY <2>4, <3>1 DEF RunCandidateFails
  <2>5. CASE CandidateBecomesReady
    <3>1. candidate \in Configs
      BY <2>5 DEF CandidateBecomesReady, TypeOK, SlotFacts
    <3> QED BY <2>5, <3>1 DEF CandidateBecomesReady
  <2>6. CASE CandidateNotReady BY <2>6 DEF CandidateNotReady
  <2> QED BY <1>5, <2>1, <2>2, <2>3, <2>4, <2>5, <2>6 DEF CommitPrepared
<1>6. CASE CancelPrepared
  BY <1>6 DEF CancelPrepared, Finish, IInv, PhaseFacts
<1>7. CASE Stop
  BY <1>7 DEF Stop, StopSucceeds, StopFailsOnChild, StopFailsOnPending, Finish, IInv, TypeOK
<1>8. CASE OperatingSystem
  BY <1>8 DEF OperatingSystem, CoreBinds, CoreExits, runtimeVars
<1>9. CASE UNCHANGED vars
  BY <1>9 DEF vars, runtimeVars
<1> QED BY <1>1, <1>2, <1>3, <1>4, <1>5, <1>6, <1>7, <1>8, <1>9 DEF Next

\* The transaction implements the abstract life cycle.
THEOREM Refinement == Spec => ImplementsManagedCore
<1>1. Init => ManagedCore!Init
  BY DEF Init, ManagedCore!Init
<1>2. IInv /\ [Next]_vars => [ManagedCore!Next]_(ManagedCore!vars)
  BY StepSimulation
<1> QED BY <1>1, <1>2, Consistency, PTL DEF Spec, ManagedCore!Spec, ImplementsManagedCore

-----------------------------------------------------------------------------
\* Preparing a candidate never touches the instance that runs.
THEOREM PreparationIsHarmless == Spec => PreparationKeepsActive
<1>1. ASSUME IInv, [Next]_vars, pc \in {"creating", "writing", "checking"}, pc' # "down"
      PROVE  UNCHANGED <<child, active, running>>
  BY <1>1 DEF Next, PrepareReplacement, CommitPrepared, Stop, OperatingSystem, OpenPort,
     OpenPortFails, Crash, PrepareRefused, CheckNotStarted, CreateDirectory, ProveDirectory,
     CreateFinishes, CreateFails, StartCheck, StartCheckFails, CheckPasses, CheckFails,
     CheckUnconfirmed, StopOldInstance, StopOldInstanceFails, RunCandidate,
     RunCandidateFails, CandidateBecomesReady, CandidateNotReady, CancelPrepared,
     StopSucceeds, StopFailsOnChild, StopFailsOnPending, CoreBinds, CoreExits,
     CandidateRejected, runtimeVars, portVars, vars
<1>2. IInv /\ [Next]_vars =>
        [(pc \in {"creating", "writing", "checking"} /\ pc' # "down") =>
           UNCHANGED <<child, active, running>>]_vars
  BY <1>1
<1> QED BY <1>2, Consistency, PTL DEF Spec, PreparationKeepsActive

\* A child leaves the map of the port only together with its process and its
\* directory.
THEOREM ForgettingIsSafe == Spec => ForgottenOnlyWhenGone
<1>1. ASSUME IInv, [Next]_vars, pc' # "down",
             NEW i \in Identities, Running(i), ~Running(i)'
      PROVE  core'[running[i].dir] = "none" /\ disk'[running[i].dir] = "none"
  <2> USE DEF Running
  <2>0. /\ running \in [Identities -> RunningChild] /\ running[i] \in RunningChild
        /\ running[i].dir \in Dirs /\ i = HeldIdentity /\ pc # "down"
        /\ core \in [Dirs -> CoreStates] /\ disk \in [Dirs -> DirStates]
        /\ Identities \subseteq Nat \ {0}
    BY <1>1 DEF IInv, TypeOK, ChildFacts, PhaseFacts, HeldIdentity, RunningChild, Identities
  <2>1. CASE OpenPort \/ OpenPortFails \/ Crash
    BY <1>1, <2>0, <2>1 DEF OpenPort, OpenPortFails, Crash
  <2>2. CASE PrepareReplacement \/ CancelPrepared \/ OperatingSystem \/ UNCHANGED vars
    BY <1>1, <2>2 DEF PrepareReplacement, PrepareRefused, CheckNotStarted, CreateDirectory,
       ProveDirectory, CreateFinishes, CreateFails, StartCheck, StartCheckFails, CheckPasses,
       CheckFails, CheckUnconfirmed, CandidateRejected, CancelPrepared, OperatingSystem,
       CoreBinds, CoreExits, portVars, vars
  <2>3. CASE CommitPrepared
    <3>1. CASE StopOldInstance
      BY <1>1, <2>0, <3>1 DEF StopOldInstance, PortStopSucceeds, HeldIdentity
    <3>2. CASE StopOldInstanceFails
      BY <1>1, <2>0, <3>2 DEF StopOldInstanceFails, HeldIdentity, RunningChild
    <3>3. CASE RunCandidate
      BY <1>1, <2>0, <3>3 DEF RunCandidate
    <3>4. CASE RunCandidateFails
      BY <1>1, <2>0, <3>4 DEF RunCandidateFails
    <3>5. CASE CandidateBecomesReady
      BY <1>1, <2>0, <3>5 DEF CandidateBecomesReady, RunningChild
    <3>6. CASE CandidateNotReady
      BY <1>1, <2>0, <3>6 DEF CandidateNotReady, PortStopSucceeds, PortStopFails,
         HeldIdentity, RunningChild
    <3> QED BY <2>3, <3>1, <3>2, <3>3, <3>4, <3>5, <3>6 DEF CommitPrepared
  <2>4. CASE Stop
    <3>1. pc = "idle" BY <2>4 DEF Stop, StopSucceeds, StopFailsOnChild, StopFailsOnPending
    <3>2. i = child /\ child # 0 /\ ChildDir = running[i].dir
      BY <2>0, <3>1 DEF HeldIdentity, ChildDir
    <3>3. CASE StopSucceeds
      BY <2>0, <3>2, <3>3 DEF StopSucceeds, Put
    <3>4. CASE StopFailsOnChild
      BY <1>1, <2>0, <3>2, <3>4 DEF StopFailsOnChild, PortStopFails, RunningChild
    <3>5. CASE StopFailsOnPending
      <4>1. running[i].dir # pending.dir
        BY <1>1 DEF IInv, OwnershipFacts
      <4> QED BY <2>0, <3>2, <3>5, <4>1 DEF StopFailsOnPending, Put
    <3> QED BY <2>4, <3>3, <3>4, <3>5 DEF Stop
  <2> QED BY <1>1, <2>1, <2>2, <2>3, <2>4 DEF Next
<1>2. IInv /\ [Next]_vars =>
        [ \A i \in Identities :
            (Running(i) /\ ~Running(i)' /\ pc' # "down") =>
               core'[running[i].dir] = "none" /\ disk'[running[i].dir] = "none" ]_vars
  BY <1>1
<1> QED BY <1>2, Consistency, PTL DEF Spec, ForgottenOnlyWhenGone

=============================================================================
