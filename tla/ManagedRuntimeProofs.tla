------------------------ MODULE ManagedRuntimeProofs ------------------------
(***************************************************************************)
(* Proofs for ManagedRuntime: its inductive invariant IInv, and from it    *)
(* the invariants and the action properties of the model-checked run, for  *)
(* any commands, subscriptions and bounds.                                 *)
(*                                                                         *)
(* A lemma "...Frame" names the actions that can change a part of the      *)
(* state; a lemma "...Step" preserves one part of IInv.                    *)
(***************************************************************************)
EXTENDS ManagedRuntime, TLAPS

USE NoneAssumption, KindsAssumption

-----------------------------------------------------------------------------
(* Values *)

\* The values the commands read and want.
LEMMA StateTypes ==
  /\ NoState \in States /\ NoRequest \in Requests
  /\ \A s \in States :
       /\ s.gen \in Nat /\ s.edits \in Nat
       /\ s.edits < MaxEdits => Edited(s) \in States
       /\ s.sub # None => Artifact(s) \in Artifacts
  /\ \A s \in States, sub \in Subs \cup {None}, base \in 0..MaxGen :
       s.gen < MaxGen => Raised(s, sub, base) \in States
  /\ \A s \in States : s.gen < MaxGen => Restructured(s) \in States
  /\ \A s, t \in States : [old |-> s, new |-> t] \in Requests
  /\ \A a \in Artifacts : Tuple(a) \in Tuples
<1>1. NoState \in States /\ NoRequest \in Requests
  BY BoundsAssumption DEF NoState, States, NoRequest, Requests
<1>2. ASSUME NEW s \in States
      PROVE  /\ s.gen \in Nat /\ s.edits \in Nat
             /\ s.edits < MaxEdits => Edited(s) \in States
             /\ s.sub # None => Artifact(s) \in Artifacts
  <2>1. s.gen \in Nat /\ s.edits \in Nat
    BY BoundsAssumption DEF States
  <2>2. s.edits < MaxEdits => Edited(s) \in States
    BY BoundsAssumption DEF Edited, States
  <2>3. s.sub # None => Artifact(s) \in Artifacts
    BY DEF States, Artifact, Artifacts
  <2> QED BY <2>1, <2>2, <2>3
<1>3. ASSUME NEW s \in States, NEW sub \in Subs \cup {None}, NEW base \in 0..MaxGen,
             s.gen < MaxGen
      PROVE  Raised(s, sub, base) \in States
  BY <1>3, BoundsAssumption DEF Raised, States
<1>4. ASSUME NEW s \in States, s.gen < MaxGen PROVE Restructured(s) \in States
  <2>1. s.sub \in Subs \cup {None} /\ s.gen + 1 \in 0..MaxGen
    BY <1>4, BoundsAssumption DEF States
  <2> QED BY <1>3, <1>4, <2>1 DEF Restructured
<1>5. \A s, t \in States : [old |-> s, new |-> t] \in Requests BY DEF Requests
<1>6. \A a \in Artifacts : Tuple(a) \in Tuples BY DEF Artifacts, Tuple, Tuples
<1> QED BY <1>1, <1>2, <1>3, <1>4, <1>5, <1>6

\* What the observations make of a snapshot.
LEMMA SnapshotTypes ==
  /\ SeenStopped \in Snapshots
  /\ \A s \in Snapshots, o \in Ops, st \in Statuses : Switched(s, o, st) \in Snapshots
  /\ \A s \in Snapshots, life \in SeenLives : FailedIn(s, life) \in Snapshots
  /\ \A a \in Artifacts, o \in Ops \cup {None} : SeenReady(a, o) \in Snapshots
<1>1. NoSwitch \in Switches BY DEF NoSwitch, Switches, Statuses
<1>2. SeenStopped \in Snapshots
  BY <1>1 DEF SeenStopped, Snapshots, SeenLives
<1>3. ASSUME NEW s \in Snapshots, NEW o \in Ops, NEW st \in Statuses
      PROVE  Switched(s, o, st) \in Snapshots
  BY DEF Switched, Snapshots, Switches
<1>4. ASSUME NEW s \in Snapshots, NEW life \in SeenLives PROVE FailedIn(s, life) \in Snapshots
  BY <1>1 DEF FailedIn, Snapshots
<1>5. ASSUME NEW a \in Artifacts, NEW o \in Ops \cup {None} PROVE SeenReady(a, o) \in Snapshots
  BY <1>1, StateTypes DEF SeenReady, Snapshots, SeenLives, Switches, Statuses
<1> QED BY <1>2, <1>3, <1>4, <1>5

\* What each of them leaves of the life cycle and of the tuple.
LEMMA SwitchedKeeps ==
  \A s \in Snapshots, o \in Ops, st \in Statuses :
    Switched(s, o, st).life = s.life /\ Switched(s, o, st).applied = s.applied
BY DEF Switched, Snapshots

\* What a failure, a start and a stop make of the life cycle and of the tuple.
LEMMA SnapshotFacts ==
  /\ \A s \in Snapshots, life \in SeenLives :
       /\ FailedIn(s, life).life = life
       /\ FailedIn(s, life).applied = IF life = "Ready" THEN s.applied ELSE None
  /\ \A a, o : SeenReady(a, o).life = "Ready" /\ SeenReady(a, o).applied = Tuple(a)
  /\ SeenStopped.life = "Stopped" /\ SeenStopped.applied = None
BY DEF FailedIn, Snapshots, SeenReady, SeenStopped

\* What each of them leaves of the switch.
LEMMA SwitchedSwitch ==
  \A s \in Snapshots, o \in Ops, st \in Statuses :
    LET w == Switched(s, o, st).switch
    IN  /\ w = s.switch \/ (w.op = o /\ w.status = st)
        /\ s.switch.op = o \/ st = "Queued" => w.op = o /\ w.status = st
BY DEF Switched, Snapshots

\* What they make of the switch.
LEMMA SwitchOutcomes ==
  /\ \A s \in Snapshots, life \in SeenLives : FailedIn(s, life).switch \in {s.switch, NoSwitch}
  /\ \A a : SeenReady(a, None).switch = NoSwitch
  /\ \A a : \A o \in Ops : SeenReady(a, o).switch.op = o /\ SeenReady(a, o).switch.status = "Ready"
  /\ SeenStopped.switch = NoSwitch
  /\ NoSwitch.op = None /\ NoSwitch.status = "none"
BY DEF FailedIn, Snapshots, SeenReady, SeenStopped, NoSwitch

\* The names of the places a thread can be in.
LEMMA NameTypes ==
  /\ DOMAIN Reports = {"reportFailed", "reportCancelled"}
  /\ \A p \in DOMAIN Reports : Reports[p] \in {"Failed", "Cancelled"}
  /\ PCs = {"new", "dispatch", "quitting", "quiesce", "waiting", "gone", "done", "reportFailed",
             "reportCancelled"}
BY DEF Reports, PCs

\* The parts of TypeOK.
ClientTypes ==
  /\ pc \in [Ops -> PCs]
  /\ kind \in [Ops -> Kinds \cup {None}]
  /\ req \in [Ops -> Requests]
  /\ cancel \in [Ops -> BOOLEAN]
GuardTypes ==
  /\ busy \in Ops \cup {None}
  /\ subWrite \in Ops \cup {"update", None}
  /\ closing \in BOOLEAN
  /\ waiting \in Ops \cup {None}
  /\ requested \in BOOLEAN
  /\ complete \in BOOLEAN
  /\ queue \in Ops \cup {None}
  /\ worker \in [phase: Phases, op: Ops \cup {None}]

-----------------------------------------------------------------------------
(* Types *)

\* What a step does to the threads and their requests.
LEMMA ClientFrame ==
  [Next]_vars =>
    \/ UNCHANGED clientVars
    \/ \E os : Over(os)
    \/ \E o \in Ops : \/ Command(o) \/ Dispatch(o) \/ CloseWrites(o) \/ Quiesce(o) \/ Timeout(o)
                      \/ WorkerDocumentQueue(o)
<1> SUFFICES ASSUME [Next]_vars, ~ UNCHANGED clientVars, ~ \E os : Over(os)
             PROVE  \E o \in Ops : \/ Command(o) \/ Dispatch(o) \/ CloseWrites(o) \/ Quiesce(o)
                                   \/ Timeout(o) \/ WorkerDocumentQueue(o)
  OBVIOUS
<1>1. \A o \in Ops : ~ Finish(o) /\ ~ Hangup(o) BY DEF Finish, Hangup
<1> QED
  BY <1>1 DEF Next, Client, Work, vars, ReportApply, Take, WorkerStart, WorkerStartCore,
       WorkerStarted, WorkerStop,       WorkerShutdown, WorkerSelect, WorkerRead, WorkerQueue, WorkerDocumentRejected,
       WorkerDocumentSaved, WorkerCheck, WorkerCancelPoint, WorkerPersist, WorkerSave, WorkerSavedTooLate,
       WorkerCommit, WorkerPublish, WorkerInstall, WorkerReinstall, WorkerNotReady, Sample,
       RoutingEdit, BeginUpdate, EndUpdate, DeleteSelected, DeleteOther

\* The threads and their requests keep their types.
LEMMA ClientTypesStep == IInv /\ [Next]_vars => ClientTypes'
<1> SUFFICES ASSUME IInv, [Next]_vars PROVE ClientTypes'
  OBVIOUS
<1> USE DEF ClientTypes, PCs, Kinds
<1>0. ClientTypes /\ state \in States BY DEF IInv, Consistent, TypeOK
<1>1. CASE UNCHANGED clientVars BY <1>0, <1>1 DEF clientVars
<1>2. ASSUME NEW os, Over(os) PROVE ClientTypes' BY <1>0, <1>2, StateTypes DEF Over
<1>3. ASSUME NEW o \in Ops, NEW k \in Kinds, NEW old \in States, NEW new \in States,
             NEW next \in {"dispatch", "quitting", "reportFailed", "reportCancelled"},
             Issue(o, k, next, old, new)
      PROVE  ClientTypes'
  BY <1>0, <1>3, StateTypes, NameTypes DEF Issue
<1>4. ASSUME NEW o \in Ops, Command(o) PROVE ClientTypes'
  <2>1. ASSUME NEW s \in Subs, NEW force \in BOOLEAN, BeginActivate(o, s, force)
        PROVE  ClientTypes'
    <3>1. Selecting(s) \in States
      BY <1>0, <2>1, BoundsAssumption DEF BeginActivate, Selecting, Raised, States
    <3> QED BY <1>0, <1>3, <2>1, <3>1 DEF BeginActivate
  <2> QED BY <1>0, <1>3, <1>4, <2>1, StateTypes
          DEF Command, BeginStart, BeginStop, BeginApply, BeginSave, BeginQuery, BeginShutdown
<1>5. ASSUME NEW o \in Ops, Dispatch(o) PROVE ClientTypes'
  BY <1>0, <1>2, <1>5, NameTypes DEF Dispatch, Refused
<1>6. ASSUME NEW o \in Ops, CloseWrites(o) \/ Quiesce(o) PROVE ClientTypes'
  BY <1>0, <1>2, <1>6 DEF CloseWrites, Quiesce
<1>7. ASSUME NEW o \in Ops, Timeout(o) PROVE ClientTypes'
  BY <1>0, <1>7 DEF Timeout
<1>8. ASSUME NEW o \in Ops, WorkerDocumentQueue(o) PROVE ClientTypes'
  <2>1. CASE Finish(o) BY <1>2, <2>1 DEF Finish
  <2>2. ASSUME NEW new \in DocumentOutcomes, req' = [req EXCEPT ![o] = [old |-> state, new |-> new]],
               UNCHANGED <<pc, kind, cancel>>
        PROVE  ClientTypes'
    <3>1. new \in States BY <1>0, StateTypes DEF DocumentOutcomes
    <3> QED BY <1>0, <2>2, <3>1, StateTypes
  <2> QED BY <1>8, <2>1, <2>2 DEF WorkerDocumentQueue
<1> QED BY <1>1, <1>2, <1>4, <1>5, <1>6, <1>7, <1>8, ClientFrame

\* So do the guards, the channel and the worker.
LEMMA GuardTypesStep == IInv /\ [Next]_vars => GuardTypes'
<1> SUFFICES ASSUME IInv, [Next]_vars PROVE GuardTypes'
  OBVIOUS
<1> USE DEF GuardTypes, Phases, exitVars, guardVars
<1>0. GuardTypes /\ RequestPlaces BY DEF IInv, Consistent, TypeOK
<1>1. ASSUME NEW o \in Ops, Command(o) PROVE GuardTypes'
  BY <1>0, <1>1 DEF Command, BeginStart, BeginStop, BeginActivate, BeginApply, BeginSave,
                    BeginQuery, BeginShutdown
<1>2. ASSUME NEW o \in Ops, Dispatch(o) PROVE GuardTypes' BY <1>0, <1>2 DEF Dispatch, DropGuards
<1>3. ASSUME NEW o \in Ops, ReportApply(o) \/ CloseWrites(o) \/ Quiesce(o) \/ Timeout(o)
      PROVE  GuardTypes'
  BY <1>0, <1>3 DEF ReportApply, CloseWrites, Quiesce, Timeout
<1>4. ASSUME NEW o \in Ops, Finish(o), UNCHANGED <<queue, closing, requested>>,
             waiting' \in Ops \cup {None}, complete' \in BOOLEAN
      PROVE  GuardTypes'
  BY <1>0, <1>4 DEF Finish, DropGuards
<1>5. ASSUME NEW o \in Ops, NEW p \in Phases, Goto(o, p),
             UNCHANGED <<queue, closing, waiting, exitVars>>, busy' \in {busy, None},
             subWrite' \in {subWrite, o, None}
      PROVE  GuardTypes'
  BY <1>0, <1>5 DEF Goto
<1>6. ASSUME NEW o \in Ops, Take(o) PROVE GuardTypes' BY <1>0, <1>6 DEF Take, Goto
<1>7. ASSUME NEW o \in Ops, WorkerShutdown(o) PROVE GuardTypes'
  <2>1. CASE Hangup(o) BY <1>0, <1>7, <2>1 DEF WorkerShutdown, Hangup, DropGuards
  <2>2. CASE Finish(o) /\ UNCHANGED queue
    <3>1. /\ UNCHANGED <<closing, requested>>
          /\ waiting' \in Ops \cup {None} /\ complete' \in BOOLEAN
      BY <1>0, <1>7 DEF WorkerShutdown
    <3> QED BY <1>4, <2>2, <3>1
  <2> QED BY <1>7, <2>1, <2>2 DEF WorkerShutdown
<1>8. ASSUME NEW o \in Ops,
             WorkerStarted(o) \/ WorkerStop(o) \/ WorkerSelect(o) \/ WorkerRead(o)
               \/ WorkerDocumentRejected(o) \/ WorkerDocumentSaved(o)
               \/ WorkerInstall(o) \/ WorkerReinstall(o) \/ WorkerNotReady(o)
      PROVE  GuardTypes'
  BY <1>0, <1>4, <1>8 DEF WorkerStarted, WorkerStop, WorkerSelect, WorkerRead,
       WorkerDocumentRejected, WorkerDocumentSaved, WorkerInstall, WorkerReinstall,
       WorkerNotReady
<1>9. ASSUME NEW o \in Ops,
             WorkerStart(o) \/ WorkerStartCore(o) \/ WorkerQueue(o) \/ WorkerDocumentQueue(o)
      PROVE  GuardTypes'
  BY <1>0, <1>4, <1>5, <1>9 DEF WorkerStart, WorkerStartCore, WorkerQueue, WorkerDocumentQueue
<1>10. ASSUME NEW o \in Ops,
              WorkerCheck(o) \/ WorkerCancelPoint(o) \/ WorkerPersist(o) \/ WorkerSave(o)
                \/ WorkerSavedTooLate(o) \/ WorkerCommit(o) \/ WorkerPublish(o)
       PROVE  GuardTypes'
  BY <1>5, <1>10 DEF WorkerCheck, WorkerCancelPoint, WorkerPersist, WorkerSave,
       WorkerSavedTooLate, WorkerCommit, WorkerPublish, CancelCandidate, Concluded
<1>11. CASE Sample \/ RoutingEdit \/ BeginUpdate \/ EndUpdate \/ DeleteSelected \/ DeleteOther
            \/ UNCHANGED vars
  BY <1>0, <1>11 DEF Sample, RoutingEdit, BeginUpdate, EndUpdate, DeleteSelected, DeleteOther, vars
<1> QED BY <1>1, <1>2, <1>3, <1>6, <1>7, <1>8, <1>9, <1>10, <1>11 DEF Next, Client, Work

-----------------------------------------------------------------------------
(* Who writes what *)

\* The threads of the commands leave the worker, the core and what is stored to the worker.
LEMMA ThreadsLeave ==
  ASSUME NEW o \in Ops, Command(o) \/ Client(o) \/ Timeout(o)
  PROVE  /\ UNCHANGED <<worker, state, core, index, readBack, complete>>
         /\ UNCHANGED seen \/ (\E g \in 0..state.gen : BeginApply(o, g)) \/ ReportApply(o)
<1> USE DEF clientVars, guardVars, exitVars, indexVars
<1>1. CASE Command(o)
  BY <1>1 DEF Command, BeginStart, BeginStop, BeginActivate, BeginApply, BeginSave, BeginQuery,
              BeginShutdown
<1>2. CASE Client(o) \/ Timeout(o)
  BY <1>2 DEF Client, Timeout, Dispatch, ReportApply, CloseWrites, Quiesce
<1> QED BY <1>1, <1>2

\* Who writes state.json.
LEMMA StateFrame ==
  ASSUME [Next]_vars
  PROVE  \/ UNCHANGED state
         \/ \E o \in Ops :
              \/ WorkerDocumentSaved(o) \/ WorkerSave(o)
         \/ RoutingEdit \/ EndUpdate \/ DeleteSelected \/ DeleteOther
<1>1. ASSUME NEW o \in Ops, Work(o), ~ WorkerDocumentSaved(o), ~ WorkerSave(o)
      PROVE  UNCHANGED state
  BY <1>1 DEF Work, Take, WorkerStart, WorkerStartCore, WorkerStarted, WorkerStop,
       WorkerShutdown, WorkerSelect, WorkerRead, WorkerQueue, WorkerDocumentRejected,
       WorkerDocumentQueue, WorkerCheck, WorkerCancelPoint, WorkerPersist, WorkerSavedTooLate,
       WorkerCommit, WorkerPublish, WorkerInstall, WorkerReinstall, WorkerNotReady
<1>2. CASE Sample \/ BeginUpdate \/ UNCHANGED vars BY <1>2 DEF Sample, BeginUpdate, vars
<1> QED BY <1>1, <1>2, ThreadsLeave DEF Next

\* Who moves the core.
LEMMA CoreFrame ==
  ASSUME [Next]_vars
  PROVE  \/ UNCHANGED core
         \/ \E o \in Ops :
              \/ WorkerStartCore(o) \/ WorkerStop(o) \/ WorkerShutdown(o)
              \/ WorkerQueue(o) \/ WorkerDocumentQueue(o) \/ WorkerCheck(o)
              \/ WorkerCancelPoint(o) \/ WorkerPersist(o) \/ WorkerSave(o)
              \/ WorkerSavedTooLate(o) \/ WorkerCommit(o)
         \/ Sample
<1>1. ASSUME NEW o \in Ops,
             \/ Take(o) \/ WorkerStart(o) \/ WorkerStarted(o) \/ WorkerSelect(o) \/ WorkerRead(o)
             \/ WorkerDocumentRejected(o) \/ WorkerDocumentSaved(o) \/ WorkerPublish(o)
             \/ WorkerInstall(o) \/ WorkerReinstall(o) \/ WorkerNotReady(o)
      PROVE  UNCHANGED core
  BY <1>1 DEF Take, WorkerStart, WorkerStarted, WorkerSelect, WorkerRead,
       WorkerDocumentRejected, WorkerDocumentSaved, WorkerPublish, WorkerInstall,
       WorkerReinstall, WorkerNotReady
<1>2. CASE RoutingEdit \/ BeginUpdate \/ EndUpdate \/ DeleteSelected \/ DeleteOther \/ UNCHANGED vars
  BY <1>2 DEF RoutingEdit, BeginUpdate, EndUpdate, DeleteSelected, DeleteOther, vars
<1> QED BY <1>1, <1>2, ThreadsLeave DEF Next, Work

\* Who writes the snapshot.
LEMMA SeenFrame ==
  ASSUME [Next]_vars
  PROVE  \/ UNCHANGED <<core, seen>>
         \/ \E o \in Ops :
              \/ (\E g \in 0..state.gen : BeginApply(o, g)) \/ ReportApply(o)
              \/ WorkerStartCore(o) \/ WorkerStarted(o) \/ WorkerStop(o) \/ WorkerShutdown(o)
              \/ WorkerQueue(o) \/ WorkerDocumentQueue(o) \/ WorkerCheck(o)
              \/ WorkerCancelPoint(o) \/ WorkerPersist(o) \/ WorkerSave(o)
              \/ WorkerSavedTooLate(o) \/ WorkerCommit(o) \/ WorkerPublish(o)
         \/ Sample
<1>1. ASSUME NEW o \in Ops,
             \/ Take(o) \/ WorkerStart(o) \/ WorkerSelect(o) \/ WorkerRead(o)
             \/ WorkerDocumentRejected(o) \/ WorkerDocumentSaved(o)
             \/ WorkerInstall(o) \/ WorkerReinstall(o) \/ WorkerNotReady(o)
      PROVE  UNCHANGED <<core, seen>>
  BY <1>1 DEF Take, WorkerStart, WorkerSelect, WorkerRead, WorkerDocumentRejected,
       WorkerDocumentSaved, WorkerInstall, WorkerReinstall, WorkerNotReady
<1>2. CASE RoutingEdit \/ BeginUpdate \/ EndUpdate \/ DeleteSelected \/ DeleteOther \/ UNCHANGED vars
  BY <1>2 DEF RoutingEdit, BeginUpdate, EndUpdate, DeleteSelected, DeleteOther, vars
<1> QED BY <1>1, <1>2, ThreadsLeave DEF Next, Work

\* Who writes the index.
LEMMA IndexFrame ==
  ASSUME [Next]_vars
  PROVE  \/ UNCHANGED indexVars
         \/ \E o \in Ops :
              \/ WorkerStarted(o) \/ WorkerStop(o) \/ WorkerShutdown(o)
              \/ WorkerSelect(o) \/ WorkerDocumentRejected(o)
              \/ WorkerDocumentSaved(o) \/ WorkerDocumentQueue(o)
              \/ WorkerInstall(o) \/ WorkerReinstall(o) \/ WorkerNotReady(o)
<1> USE DEF indexVars
<1>1. ASSUME NEW o \in Ops,
             \/ Take(o) \/ WorkerStart(o) \/ WorkerStartCore(o) \/ WorkerRead(o) \/ WorkerQueue(o)
             \/ WorkerCheck(o) \/ WorkerCancelPoint(o) \/ WorkerPersist(o) \/ WorkerSave(o)
             \/ WorkerSavedTooLate(o) \/ WorkerCommit(o) \/ WorkerPublish(o)
      PROVE  UNCHANGED indexVars
  BY <1>1 DEF Take, WorkerStart, WorkerStartCore, WorkerRead, WorkerQueue, WorkerCheck,
       WorkerCancelPoint, WorkerPersist, WorkerSave, WorkerSavedTooLate, WorkerCommit,
       WorkerPublish
<1>2. CASE \/ Sample \/ RoutingEdit \/ BeginUpdate \/ EndUpdate \/ DeleteSelected \/ DeleteOther
           \/ UNCHANGED vars
  BY <1>2 DEF Sample, RoutingEdit, BeginUpdate, EndUpdate, DeleteSelected, DeleteOther, vars
<1> QED BY <1>1, <1>2, ThreadsLeave DEF Next, Work

\* What is saved is a state: nobody raises the generation over its limit.
LEMMA StateTypeStep == IInv /\ [Next]_vars => state' \in States
<1> SUFFICES ASSUME IInv, [Next]_vars PROVE state' \in States
  OBVIOUS
<1>0. state \in States /\ req \in [Ops -> Requests] BY DEF IInv, Consistent, TypeOK
<1>1. CASE UNCHANGED state BY <1>0, <1>1
<1>2. ASSUME NEW o \in Ops, WorkerDocumentSaved(o) PROVE state' \in States
  BY <1>0, <1>2, StateTypes DEF WorkerDocumentSaved, DocumentOutcomes
<1>3. ASSUME NEW o \in Ops, WorkerSave(o) PROVE state' \in States
  BY <1>0, <1>3 DEF WorkerSave, Requests
<1>4. CASE RoutingEdit BY <1>0, <1>4, StateTypes DEF RoutingEdit
<1>5. CASE EndUpdate BY <1>0, <1>5, StateTypes DEF EndUpdate
<1>6. CASE DeleteSelected
  <2>1. state.gen + 1 \in 0..MaxGen
    BY <1>0, <1>6, StateTypes, BoundsAssumption DEF DeleteSelected
  <2> QED BY <1>0, <1>6, <2>1, StateTypes DEF DeleteSelected
<1>7. CASE DeleteOther BY <1>0, <1>7, StateTypes DEF DeleteOther
<1> QED BY <1>1, <1>2, <1>3, <1>4, <1>5, <1>6, <1>7, StateFrame

\* The artifact of a request that the worker starts or applies.
LEMMA RequestArtifact ==
  ASSUME IInv, NEW o \in Ops,
         \/ \E p \in {"begin", "starting", "started"} : On(o, p, {"start"})
         \/ \E p \in {"begin", "ready"} : On(o, p, Activations)
         \/ worker.op = o /\ worker.phase \in Candidate
  PROVE  Artifact(req[o].new) \in Artifacts /\ req[o].new \in States
<1>1. req[o].new \in States BY DEF IInv, Consistent, TypeOK, Requests
<1>2. req[o].new.sub # None BY DEF IInv, RequestFacts, Sound, On
<1> QED BY <1>1, <1>2, StateTypes

\* The core runs an artifact of a subscription.
LEMMA CoreTypeStep == IInv /\ [Next]_vars => core' \in [life: CoreLives, art: Artifacts \cup {None}]
<1> SUFFICES ASSUME IInv, [Next]_vars PROVE core' \in [life: CoreLives, art: Artifacts \cup {None}]
  OBVIOUS
<1> USE DEF CoreLives
<1>0. core \in [life: CoreLives, art: Artifacts \cup {None}] BY DEF IInv, Consistent, TypeOK
<1>a. \A life \in CoreLives : Down(life) \in [life: CoreLives, art: Artifacts \cup {None}]
  BY DEF Down
<1>b. \A a \in Artifacts : CommitOutcomes(a) \subseteq [life: CoreLives, art: Artifacts \cup {None}]
  BY <1>a DEF CommitOutcomes
<1>1. CASE UNCHANGED core BY <1>0, <1>1
<1>2. ASSUME NEW o \in Ops, WorkerStartCore(o)
      PROVE  core' \in [life: CoreLives, art: Artifacts \cup {None}]
  <2>1. Artifact(req[o].new) \in Artifacts BY <1>2, RequestArtifact DEF WorkerStartCore
  <2> QED BY <1>0, <1>a, <1>b, <1>2, <2>1 DEF WorkerStartCore
<1>3. CASE \E o \in Ops : WorkerStop(o) \/ WorkerShutdown(o)
  BY <1>0, <1>a, <1>3 DEF WorkerStop, WorkerShutdown, StopCore
<1>4. CASE \E o \in Ops : WorkerQueue(o) \/ WorkerDocumentQueue(o)
  BY <1>0, <1>a, <1>4 DEF WorkerQueue, WorkerDocumentQueue
<1>5. CASE \E o \in Ops : WorkerCheck(o)
  BY <1>0, <1>a, <1>5 DEF WorkerCheck, PrepareFailures
<1>6. CASE \E o \in Ops : \/ WorkerCancelPoint(o) \/ WorkerPersist(o) \/ WorkerSave(o)
                          \/ WorkerSavedTooLate(o)
  BY <1>0, <1>a, <1>6 DEF WorkerCancelPoint, WorkerPersist, WorkerSave, WorkerSavedTooLate,
      CancelCandidate
<1>7. ASSUME NEW o \in Ops, WorkerCommit(o)
      PROVE  core' \in [life: CoreLives, art: Artifacts \cup {None}]
  <2>1. Artifact(req[o].new) \in Artifacts
    BY <1>7, RequestArtifact DEF WorkerCommit, On, Candidate
  <2> QED BY <1>b, <1>7, <2>1 DEF WorkerCommit
<1>8. CASE Sample BY <1>0, <1>a, <1>8 DEF Sample
<1> QED BY <1>1, <1>2, <1>3, <1>4, <1>5, <1>6, <1>7, <1>8, CoreFrame

\* The snapshot keeps its type.
LEMMA SeenTypeStep == IInv /\ [Next]_vars => seen' \in Snapshots
<1> SUFFICES ASSUME IInv, [Next]_vars PROVE seen' \in Snapshots
  OBVIOUS
<1> USE DEF SeenLives, Statuses
<1>0. /\ seen \in Snapshots /\ core.life \in CoreLives
      /\ worker.phase \in Candidate => core.life # "Offline"
  BY DEF IInv, Consistent, TypeOK, CoreFacts
<1>1. CASE UNCHANGED <<core, seen>> BY <1>0, <1>1
<1>2. ASSUME NEW o \in Ops, NEW g \in 0..state.gen, BeginApply(o, g) PROVE seen' \in Snapshots
  BY <1>0, <1>2, SnapshotTypes DEF BeginApply
<1>3. ASSUME NEW o \in Ops, ReportApply(o) PROVE seen' \in Snapshots
  BY <1>0, <1>3, NameTypes, SnapshotTypes DEF ReportApply
<1>a. ASSUME NEW o \in Ops, WorkerStartCore(o) PROVE seen' \in Snapshots
  BY <1>0, <1>a, SnapshotTypes DEF WorkerStartCore
<1>4. ASSUME NEW o \in Ops, WorkerStarted(o) PROVE seen' \in Snapshots
  <2>1. core.life = "Ready" => core.art \in Artifacts
    BY DEF IInv, CoreFacts
  <2>2. core.life # "Offline" BY <1>4 DEF WorkerStarted, On, IInv, CoreFacts
  <2> QED BY <1>0, <1>4, <2>1, <2>2, SnapshotTypes DEF WorkerStarted, CoreLives
<1>5. ASSUME NEW o \in Ops, WorkerStop(o) \/ WorkerShutdown(o) PROVE seen' \in Snapshots
  BY <1>0, <1>5, SnapshotTypes DEF WorkerStop, WorkerShutdown, StopCore
<1>6. ASSUME NEW o \in Ops, WorkerQueue(o) \/ WorkerDocumentQueue(o) PROVE seen' \in Snapshots
  <2>1. Switched(seen, o, "Queued") \in Snapshots BY <1>0, SnapshotTypes
  <2> QED BY <1>6, <2>1, SnapshotTypes DEF WorkerQueue, WorkerDocumentQueue
<1>7. ASSUME NEW o \in Ops, WorkerCheck(o) PROVE seen' \in Snapshots
  <2>1. core.life \in SeenLives BY <1>0, <1>7 DEF WorkerCheck, On, Candidate, CoreLives
  <2>2. CASE core' \in PrepareFailures
    <3>1. core'.life \in SeenLives BY <2>1, <2>2 DEF PrepareFailures, Down
    <3>2. FailedIn(seen, core'.life) \in Snapshots BY <1>0, <3>1, SnapshotTypes
    <3> QED BY <1>0, <1>7, <3>2, SnapshotTypes DEF WorkerCheck
  <2>3. CASE seen' = Switched(seen, o, "Prepared") BY <1>0, <2>3, SnapshotTypes
  <2> QED BY <1>7, <2>2, <2>3, SnapshotTypes DEF WorkerCheck
<1>8. ASSUME NEW o \in Ops,
             \/ WorkerCancelPoint(o) \/ WorkerPersist(o) \/ WorkerSave(o) \/ WorkerSavedTooLate(o)
      PROVE  seen' \in Snapshots
  BY <1>0, <1>8, SnapshotTypes DEF WorkerCancelPoint, WorkerPersist, WorkerSave, WorkerSavedTooLate,
      CancelCandidate
<1>9. ASSUME NEW o \in Ops, WorkerCommit(o) PROVE seen' \in Snapshots
  BY <1>0, <1>9, SnapshotTypes DEF WorkerCommit
<1>10. ASSUME NEW o \in Ops, WorkerPublish(o) PROVE seen' \in Snapshots
  <2>1. CASE core.life = "Ready"
    <3>1. core.art \in Artifacts
      BY <1>10, <2>1 DEF IInv, Consistent, TypeOK, CoreFacts
    <3> QED BY <1>10, <2>1, <3>1, SnapshotTypes DEF WorkerPublish
  <2>2. CASE core.life # "Ready"
    BY <1>0, <1>10, <2>2, SnapshotTypes DEF WorkerPublish, On, Candidate, CoreLives
  <2> QED BY <2>1, <2>2
<1>11. CASE Sample 
  <2>1. [seen EXCEPT !.life = "Ready"] \in Snapshots BY <1>0 DEF Snapshots
  <2> QED BY <1>0, <1>11, <2>1, SnapshotTypes DEF Sample, Down
<1> QED BY <1>1, <1>2, <1>3, <1>a, <1>4, <1>5, <1>6, <1>7, <1>8, <1>9, <1>10, <1>11, SeenFrame

\* The index is of an artifact.
LEMMA IndexTypeStep ==
  IInv /\ [Next]_vars => index' \in Artifacts \cup {None} /\ readBack' \in Artifacts \cup {None}
<1> SUFFICES ASSUME IInv, [Next]_vars
             PROVE  index' \in Artifacts \cup {None} /\ readBack' \in Artifacts \cup {None}
  OBVIOUS
<1> USE DEF indexVars, Clear, Install
<1>0. /\ index \in Artifacts \cup {None} /\ readBack \in Artifacts \cup {None}
      /\ core.art \in Artifacts \cup {None} /\ state \in States
  BY DEF IInv, Consistent, TypeOK
<1>1. CASE UNCHANGED indexVars BY <1>0, <1>1
<1>2. ASSUME NEW o \in Ops, WorkerStarted(o)
      PROVE  index' \in Artifacts \cup {None} /\ readBack' \in Artifacts \cup {None}
  <2>1. Artifact(req[o].new) \in Artifacts BY <1>2, RequestArtifact DEF WorkerStarted
  <2> QED BY <1>0, <1>2, <2>1 DEF WorkerStarted
<1>3. CASE \E o \in Ops : WorkerStop(o) \/ WorkerShutdown(o)
  BY <1>0, <1>3 DEF WorkerStop, WorkerShutdown, StopCore
<1>4. CASE \E o \in Ops : WorkerSelect(o) BY <1>0, <1>4 DEF WorkerSelect
<1>5. CASE \E o \in Ops : WorkerDocumentRejected(o) \/ WorkerDocumentSaved(o)
                          \/ WorkerDocumentQueue(o) \/ WorkerNotReady(o)
  BY <1>0, <1>5 DEF WorkerDocumentRejected, WorkerDocumentSaved, WorkerDocumentQueue,
                    WorkerNotReady, IndexWhenNotReady
<1>6. ASSUME NEW o \in Ops, WorkerInstall(o)
      PROVE  index' \in Artifacts \cup {None} /\ readBack' \in Artifacts \cup {None}
  <2>1. Artifact(req[o].new) \in Artifacts BY <1>6, RequestArtifact DEF WorkerInstall
  <2> QED BY <1>6, <2>1 DEF WorkerInstall
<1>7. CASE \E o \in Ops : WorkerReinstall(o) BY <1>0, <1>7, StateTypes DEF WorkerReinstall
<1> QED BY <1>1, <1>2, <1>3, <1>4, <1>5, <1>6, <1>7, IndexFrame

-----------------------------------------------------------------------------
(* What a step does to state.json, the core and the worker *)

\* Whoever writes state.json lets it grow: NoLostEdit for one step.
LEMMA StateGrows == IInv /\ [Next]_vars => Grown(state, state')
<1> SUFFICES ASSUME IInv, [Next]_vars PROVE Grown(state, state')
  OBVIOUS
<1> USE DEF Grown
<1>0. state \in States /\ state.gen \in Nat /\ state.edits \in Nat
  BY StateTypes DEF IInv, Consistent, TypeOK
<1>a. Grown(state, Edited(state)) BY <1>0 DEF Edited, States
<1>b. \A sub, base : Grown(state, Raised(state, sub, base)) BY <1>0 DEF Raised
<1>c. Grown(state, Restructured(state)) BY <1>b DEF Restructured
<1>1. CASE UNCHANGED state BY <1>0, <1>1
<1>2. ASSUME NEW o \in Ops, WorkerDocumentSaved(o) PROVE Grown(state, state')
  BY <1>0, <1>a, <1>c, <1>2 DEF WorkerDocumentSaved, DocumentOutcomes
<1>3. ASSUME NEW o \in Ops, WorkerSave(o) PROVE Grown(state, state')
  <2>1. CASE UNCHANGED state BY <1>0, <2>1
  <2>2. CASE state' = req[o].new
    <3>1. state = req[o].old /\ Sound(req[o])
      BY <1>3 DEF IInv, RequestFacts, WorkerSave, On, Candidate
    <3> QED BY <2>2, <3>1 DEF Sound
  <2> QED BY <1>3, <2>1, <2>2 DEF WorkerSave
<1>4. CASE RoutingEdit BY <1>a, <1>c, <1>4 DEF RoutingEdit
<1>5. CASE EndUpdate BY <1>0, <1>a, <1>c, <1>5 DEF EndUpdate
<1>6. CASE DeleteSelected BY <1>b, <1>6 DEF DeleteSelected
<1>7. CASE DeleteOther BY <1>a, <1>7 DEF DeleteOther
<1> QED BY <1>1, <1>2, <1>3, <1>4, <1>5, <1>6, <1>7, StateFrame

\* An artifact that is known stays known.
LEMMA KnownStays ==
  IInv /\ [Next]_vars =>
    \A a \in Artifacts : Known(a) => a.gen <= state'.gen
                                     /\ (a.gen = state'.gen => a = Artifact(state'))
<1> SUFFICES ASSUME IInv, [Next]_vars, NEW a \in Artifacts, Known(a)
             PROVE  a.gen <= state'.gen /\ (a.gen = state'.gen => a = Artifact(state'))
  OBVIOUS
<1>1. state.gen \in Nat /\ state'.gen \in Nat
  BY StateTypes, StateTypeStep DEF IInv, Consistent, TypeOK
<1>2. a.gen \in Nat BY BoundsAssumption DEF Artifacts
<1>3. Grown(state, state') BY StateGrows
<1>4. a.gen <= state'.gen BY <1>1, <1>2, <1>3 DEF Known, Grown
<1>5. ASSUME a.gen = state'.gen PROVE a = Artifact(state')
  <2>1. state.gen = state'.gen BY <1>1, <1>2, <1>3, <1>5 DEF Known, Grown
  <2> QED BY <1>3, <1>5, <2>1 DEF Known, Grown, Artifact
<1> QED BY <1>4, <1>5

\* The selection goes only by a deletion, which needs the runtime guard.
LEMMA SelectionStays ==
  IInv /\ [Next]_vars => (state.sub # None => state'.sub # None \/ DeleteSelected)
<1> SUFFICES ASSUME IInv, [Next]_vars, state.sub # None
             PROVE  state'.sub # None \/ DeleteSelected
  OBVIOUS
<1>0. state \in States BY DEF IInv, Consistent, TypeOK
<1>a. Edited(state).sub = state.sub /\ Restructured(state).sub = state.sub
  BY <1>0 DEF Edited, Restructured, Raised, States
<1>1. ASSUME NEW o \in Ops, WorkerDocumentSaved(o) PROVE state'.sub # None
  BY <1>a, <1>1 DEF WorkerDocumentSaved, DocumentOutcomes
<1>2. ASSUME NEW o \in Ops, WorkerSave(o) PROVE state'.sub # None
  <2>1. Sound(req[o]) BY <1>2 DEF IInv, RequestFacts, WorkerSave, On, Candidate
  <2> QED BY <1>2, <2>1 DEF WorkerSave, Sound
<1>3. CASE RoutingEdit BY <1>a, <1>3 DEF RoutingEdit
<1>4. CASE EndUpdate BY <1>a, <1>4 DEF EndUpdate
<1>5. CASE DeleteOther BY <1>a, <1>5 DEF DeleteOther
<1> QED BY <1>1, <1>2, <1>3, <1>4, <1>5, StateFrame

\* A core becomes Ready by a start or by a commit, with the artifact of the request.
LEMMA CoreBecomesReady ==
  IInv /\ [Next]_vars /\ core'.life = "Ready" =>
    \/ UNCHANGED core
    \/ \E o \in Ops : /\ core'.art = Artifact(req[o].new)
                      /\ WorkerStartCore(o) \/ WorkerCommit(o)
<1> SUFFICES ASSUME IInv, [Next]_vars, core'.life = "Ready", core' # core
             PROVE  \E o \in Ops : /\ core'.art = Artifact(req[o].new)
                                   /\ WorkerStartCore(o) \/ WorkerCommit(o)
  OBVIOUS
<1>a. \A life : Down(life).life = life BY DEF Down
<1>b. \A a : \A c \in CommitOutcomes(a) : c.life = "Ready" => c.art = a
  BY <1>a DEF CommitOutcomes
<1>1. ASSUME NEW o \in Ops, WorkerStartCore(o) PROVE core'.art = Artifact(req[o].new)
  BY <1>a, <1>b, <1>1 DEF WorkerStartCore
<1>2. ASSUME NEW o \in Ops, WorkerCommit(o) PROVE core'.art = Artifact(req[o].new)
  BY <1>b, <1>2 DEF WorkerCommit
<1>3. ASSUME NEW o \in Ops, WorkerStop(o) \/ WorkerShutdown(o) PROVE FALSE
  BY <1>a, <1>3 DEF WorkerStop, WorkerShutdown, StopCore
<1>4. ASSUME NEW o \in Ops, WorkerQueue(o) \/ WorkerDocumentQueue(o) PROVE FALSE
  BY <1>a, <1>4 DEF WorkerQueue, WorkerDocumentQueue
<1>5. ASSUME NEW o \in Ops, WorkerCheck(o) PROVE FALSE
  BY <1>a, <1>5 DEF WorkerCheck, PrepareFailures
<1>6. ASSUME NEW o \in Ops,
             \/ WorkerCancelPoint(o) \/ WorkerPersist(o) \/ WorkerSave(o) \/ WorkerSavedTooLate(o)
      PROVE  FALSE
  BY <1>a, <1>6 DEF WorkerCancelPoint, WorkerPersist, WorkerSave, WorkerSavedTooLate,
      CancelCandidate
<1>7. CASE Sample BY <1>a, <1>7 DEF Sample
<1> QED BY <1>1, <1>2, <1>3, <1>4, <1>5, <1>6, <1>7, CoreFrame

\* The worker moves only by its own steps.
LEMMA WorkerFrame == [Next]_vars => UNCHANGED worker \/ \E o \in Ops : Work(o)
BY ThreadsLeave DEF Next, Sample, RoutingEdit, BeginUpdate, EndUpdate, DeleteSelected,
       DeleteOther, vars

\* After a start and after a commit the worker publishes the outcome.
LEMMA OutcomeIsPublished ==
  [Next]_vars =>
    /\ worker.phase = "applied" => UNCHANGED worker \/ \E o \in Ops : WorkerPublish(o)
    /\ worker.phase = "started" => UNCHANGED worker \/ \E o \in Ops : WorkerStarted(o)
BY WorkerFrame DEF Work, On, Take, WorkerStart, WorkerStartCore, WorkerStarted, WorkerStop,
       WorkerShutdown, WorkerSelect, WorkerRead, WorkerQueue, WorkerDocumentRejected,
       WorkerDocumentSaved, WorkerDocumentQueue, WorkerCheck, WorkerCancelPoint, WorkerPersist,
       WorkerSave, WorkerSavedTooLate, WorkerCommit, WorkerPublish, WorkerInstall,
       WorkerReinstall, WorkerNotReady

-----------------------------------------------------------------------------
(* IInv is inductive *)

\* Whoever moves the core, or publishes, leaves a true snapshot; a start and a commit are the exceptions.
LEMMA ObservedStep == IInv /\ [Next]_vars => ObservedIsTrue'
<1> SUFFICES ASSUME IInv, [Next]_vars, worker'.phase \notin {"started", "applied"}
             PROVE  /\ seen'.life = "Ready" <=> core'.life = "Ready"
                    /\ seen'.life = "RecoveryRequired" <=> core'.life = "RecoveryRequired"
                    /\ seen'.applied = IF core'.life = "Ready" THEN Tuple(core'.art) ELSE None
  BY DEF ObservedIsTrue
<1> USE DEF SeenLives, Statuses
<1>0. /\ seen \in Snapshots /\ core.life \in CoreLives /\ ObservedIsTrue
      /\ worker.phase \in Candidate => core.life # "Offline"
  BY DEF IInv, Consistent, TypeOK, CoreFacts
<1>a. \A life : Down(life).life = life BY DEF Down
<1>b. \A o \in Ops : Switched(seen, o, "Queued") \in Snapshots BY <1>0, SnapshotTypes
<1>1. CASE \/ worker.phase = "applied" /\ ~ \E o \in Ops : WorkerPublish(o)
           \/ worker.phase = "started" /\ ~ \E o \in Ops : WorkerStarted(o)
  BY <1>1, OutcomeIsPublished
<1>2. CASE worker.phase \notin {"started", "applied"} /\ UNCHANGED <<core, seen>> BY <1>0, <1>2 DEF ObservedIsTrue
<1>3. CASE worker.phase \notin {"started", "applied"} /\ \E o \in Ops, g \in 0..state.gen : BeginApply(o, g)
  BY <1>0, <1>3, SwitchedKeeps DEF BeginApply, ObservedIsTrue
<1>4. CASE worker.phase \notin {"started", "applied"} /\ \E o \in Ops : ReportApply(o)
  BY <1>0, <1>b, <1>4, SwitchedKeeps, NameTypes DEF ReportApply, ObservedIsTrue
<1>b1. ASSUME NEW o \in Ops, WorkerStartCore(o)
      PROVE  /\ seen'.life = "Ready" <=> core'.life = "Ready"
             /\ seen'.life = "RecoveryRequired" <=> core'.life = "RecoveryRequired"
             /\ seen'.applied = IF core'.life = "Ready" THEN Tuple(core'.art) ELSE None
  <2>1. worker.phase \notin {"started", "applied"} BY <1>b1 DEF WorkerStartCore, On
  <2>2. CASE UNCHANGED <<core, seen>> BY <1>0, <2>1, <2>2 DEF ObservedIsTrue
  <2>3. CASE UNCHANGED core /\ core.life = "RecoveryRequired" /\ seen' = FailedIn(seen, "RecoveryRequired")
    BY <1>0, <2>3, SnapshotFacts
  <2>4. CASE core.life \in {"Offline", "Stopped"} /\ core' = Down("Stopped") /\ UNCHANGED seen
    BY <1>0, <1>a, <2>1, <2>4 DEF ObservedIsTrue
  <2> QED BY <1>b1, <2>2, <2>3, <2>4 DEF WorkerStartCore, Goto
<1>5. ASSUME NEW o \in Ops, WorkerStarted(o)
      PROVE  /\ seen'.life = "Ready" <=> core'.life = "Ready"
             /\ seen'.life = "RecoveryRequired" <=> core'.life = "RecoveryRequired"
             /\ seen'.applied = IF core'.life = "Ready" THEN Tuple(core'.art) ELSE None
  <2>1. UNCHANGED core BY <1>5 DEF WorkerStarted
  <2>2. CASE core.life = "Ready" /\ seen' = SeenReady(core.art, None) BY <2>1, <2>2, SnapshotFacts
  <2>3. CASE core.life # "Ready" /\ seen' = FailedIn(seen, core.life)
    <3>1. core.life \in SeenLives
      BY <1>0, <1>5 DEF WorkerStarted, On, IInv, CoreFacts, CoreLives
    <3> QED BY <1>0, <2>1, <2>3, <3>1, SnapshotFacts
  <2> QED BY <1>5, <2>2, <2>3 DEF WorkerStarted
<1>6. ASSUME NEW o \in Ops, WorkerStop(o) \/ WorkerShutdown(o)
      PROVE  /\ seen'.life = "Ready" <=> core'.life = "Ready"
             /\ seen'.life = "RecoveryRequired" <=> core'.life = "RecoveryRequired"
             /\ seen'.applied = IF core'.life = "Ready" THEN Tuple(core'.art) ELSE None
  BY <1>0, <1>a, <1>6, SnapshotFacts DEF WorkerStop, WorkerShutdown, StopCore
<1>7. ASSUME NEW o \in Ops, WorkerQueue(o) \/ WorkerDocumentQueue(o)
      PROVE  /\ seen'.life = "Ready" <=> core'.life = "Ready"
             /\ seen'.life = "RecoveryRequired" <=> core'.life = "RecoveryRequired"
             /\ seen'.applied = IF core'.life = "Ready" THEN Tuple(core'.art) ELSE None
  <2>1. worker.phase \notin {"started", "applied"} BY <1>7 DEF WorkerQueue, WorkerDocumentQueue, On
  <2>2. seen'.life = seen.life /\ seen'.applied = seen.applied
    BY <1>0, <1>b, <1>7, SwitchedKeeps DEF WorkerQueue, WorkerDocumentQueue
  <2>3. UNCHANGED core \/ (core.life = "Offline" /\ core'.life = "Stopped")
    BY <1>a, <1>7 DEF WorkerQueue, WorkerDocumentQueue
  <2> QED BY <1>0, <2>1, <2>2, <2>3 DEF ObservedIsTrue
<1>8. ASSUME NEW o \in Ops, WorkerCheck(o)
      PROVE  /\ seen'.life = "Ready" <=> core'.life = "Ready"
             /\ seen'.life = "RecoveryRequired" <=> core'.life = "RecoveryRequired"
             /\ seen'.applied = IF core'.life = "Ready" THEN Tuple(core'.art) ELSE None
  <2>1. worker.phase \notin {"started", "applied"} /\ core.life \in SeenLives
    BY <1>0, <1>8 DEF WorkerCheck, On, Candidate, CoreLives
  <2>2. CASE seen' = Switched(seen, o, "Prepared") /\ UNCHANGED core
    BY <1>0, <2>1, <2>2, SwitchedKeeps DEF ObservedIsTrue
  <2>3. CASE seen' = Switched(seen, o, "Failed") /\ UNCHANGED core
    BY <1>0, <2>1, <2>3, SwitchedKeeps DEF ObservedIsTrue
  <2>4. CASE seen' = Switched(FailedIn(seen, core'.life), o, "Failed") /\ core' \in PrepareFailures
    <3>1. core'.life \in SeenLives BY <1>a, <2>1, <2>4 DEF PrepareFailures
    <3>2. FailedIn(seen, core'.life) \in Snapshots BY <1>0, <3>1, SnapshotTypes
    <3>3. seen'.life = core'.life
          /\ seen'.applied = IF core'.life = "Ready" THEN seen.applied ELSE None
      BY <1>0, <2>4, <3>1, <3>2, SnapshotFacts, SwitchedKeeps
    <3> QED BY <1>0, <1>a, <2>1, <2>4, <3>3 DEF ObservedIsTrue, PrepareFailures
  <2> QED BY <1>8, <1>a, <2>2, <2>3, <2>4 DEF WorkerCheck, PrepareFailures
<1>9. ASSUME NEW o \in Ops,
             \/ WorkerCancelPoint(o) \/ WorkerPersist(o) \/ WorkerSave(o) \/ WorkerSavedTooLate(o)
      PROVE  /\ seen'.life = "Ready" <=> core'.life = "Ready"
             /\ seen'.life = "RecoveryRequired" <=> core'.life = "RecoveryRequired"
             /\ seen'.applied = IF core'.life = "Ready" THEN Tuple(core'.art) ELSE None
  <2>1. worker.phase \notin {"started", "applied"}
    BY <1>9 DEF WorkerCancelPoint, WorkerPersist, WorkerSave, WorkerSavedTooLate, On
  <2>2. CASE UNCHANGED <<core, seen>> BY <1>0, <2>1, <2>2 DEF ObservedIsTrue
  <2>3. CASE UNCHANGED core /\ \E st \in Statuses : seen' = Switched(seen, o, st)
    BY <1>0, <2>1, <2>3, SwitchedKeeps DEF ObservedIsTrue
  <2>4. CASE /\ core' = Down("RecoveryRequired")
             /\ seen' = Switched(FailedIn(seen, "RecoveryRequired"), o, "Failed")
    <3>1. FailedIn(seen, "RecoveryRequired") \in Snapshots BY <1>0, SnapshotTypes
    <3> QED BY <1>0, <1>a, <2>4, <3>1, SnapshotFacts, SwitchedKeeps
  <2> QED BY <1>9, <2>2, <2>3, <2>4
          DEF WorkerCancelPoint, WorkerPersist, WorkerSave, WorkerSavedTooLate,
      CancelCandidate
<1>10. ASSUME NEW o \in Ops, WorkerCommit(o) PROVE FALSE
  BY <1>10 DEF WorkerCommit, Goto
<1>11. ASSUME NEW o \in Ops, WorkerPublish(o)
       PROVE  /\ seen'.life = "Ready" <=> core'.life = "Ready"
              /\ seen'.life = "RecoveryRequired" <=> core'.life = "RecoveryRequired"
              /\ seen'.applied = IF core'.life = "Ready" THEN Tuple(core'.art) ELSE None
  <2>1. UNCHANGED core BY <1>11 DEF WorkerPublish
  <2>2. CASE core.life = "Ready" /\ seen' = SeenReady(core.art, o) BY <2>1, <2>2, SnapshotFacts
  <2>3. CASE core.life # "Ready" /\ seen' = Switched(FailedIn(seen, core.life), o, "Failed")
    <3>1. core.life \in SeenLives BY <1>0, <1>11 DEF WorkerPublish, On, Candidate, CoreLives
    <3>2. FailedIn(seen, core.life) \in Snapshots BY <1>0, <3>1, SnapshotTypes
    <3> QED BY <1>0, <2>1, <2>3, <3>1, <3>2, SnapshotFacts, SwitchedKeeps
  <2> QED BY <1>11, <2>2, <2>3 DEF WorkerPublish
<1>12. CASE Sample
  <2>1. worker.phase \notin {"started", "applied"} /\ core.life = "Ready" BY <1>12 DEF Sample
  <2>2. CASE seen' = [seen EXCEPT !.life = "Ready"] /\ UNCHANGED core
    <3>1. seen'.life = "Ready" /\ seen'.applied = seen.applied BY <1>0, <2>2 DEF Snapshots
    <3> QED BY <1>0, <2>1, <2>2, <3>1 DEF ObservedIsTrue
  <2>3. CASE core'.life \in {"Stopped", "RecoveryRequired"} /\ seen' = FailedIn(seen, core'.life)
    BY <1>0, <2>3, SnapshotFacts
  <2> QED BY <1>a, <1>12, <2>2, <2>3 DEF Sample
<1> QED BY <1>1, <1>2, <1>3, <1>4, <1>b1, <1>5, <1>6, <1>7, <1>8, <1>9, <1>10, <1>11, <1>12, SeenFrame

\* What runs is known to state.json, and stays selected.
LEMMA GenerationStep == IInv /\ [Next]_vars => GenerationNamesConfig' /\ RunningIsSelected'
<1> SUFFICES ASSUME IInv, [Next]_vars, core'.life = "Ready"
             PROVE  /\ core'.art.gen <= state'.gen
                    /\ core'.art.gen = state'.gen => core'.art = Artifact(state')
                    /\ state'.sub # None
  BY DEF GenerationNamesConfig, RunningIsSelected
<1>1. CASE UNCHANGED core
  <2>1. core.art \in Artifacts /\ Known(core.art) /\ state.sub # None
    BY <1>1 DEF IInv, Consistent, TypeOK, CoreFacts, GenerationNamesConfig, RunningIsSelected,
                Known
  <2>2. ~ DeleteSelected
    <3>1. SUFFICES ASSUME DeleteSelected PROVE FALSE
      OBVIOUS
    <3>2. worker.phase \in {"started", "applied"}
      BY <1>1, <3>1 DEF IInv, Consistent, ObservedIsTrue, DeleteSelected
    <3>3. worker.op \in Ops /\ kind[worker.op] \in Activations \cup {"start", "save"}
      BY <3>2 DEF IInv, Consistent, TypeOK, RequestPlaces
    <3>4. busy = worker.op
      BY <3>2, <3>3 DEF IInv, GuardFacts, Pending, Candidate
    <3> QED BY <3>1, <3>3, <3>4 DEF DeleteSelected
  <2> QED BY <1>1, <2>1, <2>2, KnownStays, SelectionStays
<1>2. ASSUME NEW o \in Ops, core'.art = Artifact(req[o].new), WorkerStartCore(o) \/ WorkerCommit(o)
      PROVE  /\ core'.art.gen <= state'.gen
             /\ core'.art.gen = state'.gen => core'.art = Artifact(state')
             /\ state'.sub # None
  <2>1. state.sub # None /\ Known(Artifact(req[o].new))
    BY <1>2 DEF IInv, RequestFacts, WorkerStartCore, WorkerCommit, On, Pending, Candidate
  <2>2. Artifact(req[o].new) \in Artifacts
    BY <1>2, RequestArtifact DEF WorkerStartCore, WorkerCommit, On, Candidate
  <2>3. state' = state BY <1>2 DEF WorkerStartCore, WorkerCommit
  <2> QED BY <1>2, <2>1, <2>2, <2>3, KnownStays
<1> QED BY <1>1, <1>2, CoreBecomesReady

-----------------------------------------------------------------------------
(* What a step does to the requests and the runtime guard *)

\* A command begins: it goes on with the runtime guard, or without being dispatched.
Begins(o) ==
  /\ pc[o] = "new"
  /\ \E next \in {"dispatch", "quitting", "reportFailed", "reportCancelled"} :
       /\ pc' = [pc EXCEPT ![o] = next]
       /\ IF next = "dispatch" THEN busy = None /\ busy' = o ELSE UNCHANGED busy
       /\ next = "quitting" => kind'[o] = "shutdown"
  /\ \E k \in Kinds : kind' = [kind EXCEPT ![o] = k]
  /\ \A x \in Ops \ {o} : req'[x] = req[x]
  /\ UNCHANGED <<queue, worker>>

\* The worker is done with its request.
Ends(o) == worker.op = o /\ Finish(o) /\ UNCHANGED queue

\* The worker goes on with an activation or a save; it gives the guard back at the end.
Proceeds(o) ==
  /\ worker.op = o /\ kind[o] \in Activations \cup {"save"}
  /\ worker.phase \in Candidate \cup {"begin"}
  /\ worker.phase = "begin" /\ kind[o] = "save" => WorkerDocumentQueue(o)
  /\ \E p \in Candidate \cup {"failed", "ready"} :
       /\ worker' = [phase |-> p, op |-> o]
       /\ \/ UNCHANGED busy
          \/ p \notin Candidate /\ busy' = (IF busy = o THEN None ELSE busy)
  /\ UNCHANGED <<pc, kind, queue>>
  /\ UNCHANGED req \/ (WorkerDocumentQueue(o) /\ \A x \in Ops \ {o} : req'[x] = req[x])

\* The worker goes on with a start.
Starting(o) ==
  /\ worker.op = o /\ kind[o] = "start"
  /\ \/ worker.phase = "begin" /\ worker' = [phase |-> "starting", op |-> o]
     \/ worker.phase = "starting" /\ worker' = [phase |-> "started", op |-> o]
  /\ UNCHANGED <<pc, kind, req, busy, queue>>

\* The twelve shapes a step can have.
LEMMA StepShapes ==
  ASSUME IInv, [Next]_vars
  PROVE  \/ UNCHANGED <<pc, kind, req, busy, queue, worker>>
         \/ \E o \in Ops :
              \/ Command(o) /\ Begins(o)
              \/ Dispatch(o) \/ ReportApply(o) \/ CloseWrites(o) \/ Quiesce(o) \/ Timeout(o)
              \/ Take(o) \/ Ends(o) \/ Proceeds(o) \/ Starting(o)
              \/ WorkerShutdown(o) /\ Hangup(o)
<1>0. req \in [Ops -> Requests] /\ kind \in [Ops -> Kinds \cup {None}]
  BY DEF IInv, Consistent, TypeOK
<1>1. ASSUME NEW o \in Ops, Command(o) PROVE Begins(o)
  BY <1>0, <1>1 DEF Command, BeginStart, BeginStop, BeginActivate, BeginApply, BeginSave,
                    BeginQuery, BeginShutdown, Issue, Begins, Kinds
<1>2. ASSUME NEW o \in Ops,
             WorkerStarted(o) \/ WorkerStop(o) \/ WorkerSelect(o) \/ WorkerRead(o)
               \/ WorkerDocumentRejected(o) \/ WorkerDocumentSaved(o)
               \/ WorkerInstall(o) \/ WorkerReinstall(o) \/ WorkerNotReady(o)
      PROVE  Ends(o)
  BY <1>2 DEF WorkerStarted, WorkerStop, WorkerSelect, WorkerRead, WorkerDocumentRejected,
              WorkerDocumentSaved, WorkerInstall, WorkerReinstall, WorkerNotReady, On, Ends
<1>3. ASSUME NEW o \in Ops, WorkerShutdown(o) PROVE Ends(o) \/ Hangup(o)
  BY <1>3 DEF WorkerShutdown, On, Ends
<1>4. ASSUME NEW o \in Ops, WorkerQueue(o) \/ WorkerDocumentQueue(o) PROVE Ends(o) \/ Proceeds(o)
  BY <1>0, <1>4 DEF WorkerQueue, WorkerDocumentQueue, On, Ends, Proceeds, Goto, clientVars,
                    Candidate, Activations
<1>5. ASSUME NEW o \in Ops,
             WorkerCheck(o) \/ WorkerCancelPoint(o) \/ WorkerPersist(o) \/ WorkerSave(o)
               \/ WorkerSavedTooLate(o) \/ WorkerCommit(o) \/ WorkerPublish(o)
      PROVE  Proceeds(o)
  BY <1>5 DEF WorkerCheck, WorkerCancelPoint, WorkerPersist, WorkerSave,
              WorkerSavedTooLate, WorkerCommit,           WorkerPublish, CancelCandidate, Concluded, On, Proceeds, Goto, clientVars,
              guardVars, Candidate
<1>6. CASE Sample \/ RoutingEdit \/ BeginUpdate \/ EndUpdate \/ DeleteSelected \/ DeleteOther
           \/ UNCHANGED vars
  BY <1>6 DEF Sample, RoutingEdit, BeginUpdate, EndUpdate, DeleteSelected, DeleteOther, vars,
              clientVars, guardVars
<1>7. ASSUME NEW o \in Ops, WorkerStart(o) \/ WorkerStartCore(o) PROVE Ends(o) \/ Starting(o)
  BY <1>7 DEF WorkerStart, WorkerStartCore, On, Ends, Starting, Goto, clientVars
<1> QED BY <1>1, <1>2, <1>3, <1>4, <1>5, <1>6, <1>7 DEF Next, Client, Work

\* A request stays in one place.
LEMMA PlacesStep == IInv /\ [Next]_vars => RequestPlaces'
<1> SUFFICES ASSUME IInv, [Next]_vars PROVE RequestPlaces'
  OBVIOUS
<1> USE DEF RequestPlaces
<1>0. /\ RequestPlaces
      /\ pc \in [Ops -> PCs] /\ kind \in [Ops -> Kinds \cup {None}]
      /\ worker \in [phase: Phases, op: Ops \cup {None}] /\ queue \in Ops \cup {None}
  BY DEF IInv, Consistent, TypeOK
<1>1. CASE UNCHANGED <<pc, kind, req, busy, queue, worker>> BY <1>0, <1>1
<1>2. ASSUME NEW o \in Ops, Begins(o) PROVE RequestPlaces' BY <1>0, <1>2 DEF Begins
<1>3. ASSUME NEW o \in Ops, Dispatch(o) PROVE RequestPlaces'
  <2>1. CASE queue' = o /\ pc' = [pc EXCEPT ![o] = "waiting"] /\ UNCHANGED kind
    BY <1>0, <1>3, <2>1 DEF Dispatch
  <2>2. CASE Refused(o) /\ UNCHANGED queue
    <3>1. CASE pc' = [pc EXCEPT ![o] = "reportCancelled"] /\ UNCHANGED kind
      BY <1>0, <1>3, <2>2, <3>1 DEF Dispatch
    <3>2. CASE Over({o}) BY <1>0, <1>3, <2>2, <3>2 DEF Dispatch, Over
    <3> QED BY <2>2, <3>1, <3>2 DEF Refused
  <2> QED BY <1>3, <2>1, <2>2 DEF Dispatch
<1>4. ASSUME NEW o \in Ops, ReportApply(o) PROVE RequestPlaces'
  BY <1>0, <1>4, NameTypes DEF ReportApply, Over
<1>5. ASSUME NEW o \in Ops, Quiesce(o) PROVE RequestPlaces'
  <2>1. UNCHANGED <<queue, worker>> /\ pc[o] = "quiesce" BY <1>5 DEF Quiesce
  <2>2. CASE pc' = [pc EXCEPT ![o] = "dispatch"] /\ UNCHANGED kind BY <1>0, <2>1, <2>2
  <2>3. CASE Over({o}) BY <1>0, <2>1, <2>3 DEF Over
  <2> QED BY <1>5, <2>2, <2>3 DEF Quiesce
<1>6. ASSUME NEW o \in Ops, Timeout(o) PROVE RequestPlaces' BY <1>0, <1>6 DEF Timeout
<1>7. ASSUME NEW o \in Ops, Take(o) PROVE RequestPlaces'
  BY <1>0, <1>7 DEF Take, Goto, clientVars
<1>8. ASSUME NEW o \in Ops, Ends(o) PROVE RequestPlaces' BY <1>0, <1>8 DEF Ends, Finish, Over
<1>9. ASSUME NEW o \in Ops, Proceeds(o) PROVE RequestPlaces'
  BY <1>0, <1>9 DEF Proceeds, Candidate
<1>10. ASSUME NEW o \in Ops, WorkerShutdown(o), Hangup(o) PROVE RequestPlaces'
  BY <1>0, <1>10 DEF WorkerShutdown, On, Hangup, Over
<1>11. ASSUME NEW o \in Ops, CloseWrites(o) PROVE RequestPlaces'
  BY <1>0, <1>11 DEF CloseWrites
<1>12. ASSUME NEW o \in Ops, Starting(o) PROVE RequestPlaces'
  BY <1>0, <1>12 DEF Starting
<1> QED BY <1>1, <1>2, <1>3, <1>4, <1>5, <1>6, <1>7, <1>8, <1>9, <1>10, <1>11, <1>12, StepShapes

\* A request keeps the runtime guard until its outcome is published.
LEMMA GuardStep == IInv /\ [Next]_vars => GuardFacts'
<1> SUFFICES ASSUME IInv, [Next]_vars PROVE GuardFacts'
  OBVIOUS
<1> USE DEF GuardFacts, Pending, Activations
<1>0. /\ GuardFacts /\ RequestPlaces
      /\ pc \in [Ops -> PCs] /\ kind \in [Ops -> Kinds \cup {None}]
      /\ worker \in [phase: Phases, op: Ops \cup {None}] /\ queue \in Ops \cup {None}
  BY DEF IInv, Consistent, TypeOK
<1>1. CASE UNCHANGED <<pc, kind, req, busy, queue, worker>> BY <1>0, <1>1
<1>2. ASSUME NEW o \in Ops, Begins(o) PROVE GuardFacts'
  BY <1>0, <1>2 DEF Begins, RequestPlaces
<1>3. ASSUME NEW o \in Ops, Dispatch(o) PROVE GuardFacts'
  <2>1. CASE queue' = o /\ pc' = [pc EXCEPT ![o] = "waiting"] /\ UNCHANGED <<kind, guardVars>>
    BY <1>0, <1>3, <2>1 DEF Dispatch, guardVars
  <2>2. CASE Refused(o) /\ DropGuards(o) /\ UNCHANGED queue
    <3>1. CASE pc' = [pc EXCEPT ![o] = "reportCancelled"] /\ UNCHANGED kind
      BY <1>0, <1>3, <2>2, <3>1 DEF Dispatch, DropGuards, RequestPlaces
    <3>2. CASE Over({o}) BY <1>0, <1>3, <2>2, <3>2 DEF Dispatch, DropGuards, Over, Kinds
    <3> QED BY <2>2, <3>1, <3>2 DEF Refused
  <2> QED BY <1>3, <2>1, <2>2 DEF Dispatch
<1>4. ASSUME NEW o \in Ops, ReportApply(o) PROVE GuardFacts'
  BY <1>0, <1>4 DEF ReportApply, Over, guardVars, Kinds
<1>5. ASSUME NEW o \in Ops, Quiesce(o) PROVE GuardFacts'
  <2>1. UNCHANGED <<busy, queue, worker>> BY <1>5 DEF Quiesce
  <2>2. CASE pc' = [pc EXCEPT ![o] = "dispatch"] /\ UNCHANGED kind
    BY <1>0, <1>5, <2>1, <2>2 DEF Quiesce, RequestPlaces
  <2>3. CASE Over({o}) BY <1>0, <2>1, <2>3 DEF Over, Kinds
  <2> QED BY <1>5, <2>2, <2>3 DEF Quiesce
<1>6. ASSUME NEW o \in Ops, Timeout(o) PROVE GuardFacts' BY <1>0, <1>6 DEF Timeout
<1>7. ASSUME NEW o \in Ops, Take(o) PROVE GuardFacts'
  BY <1>0, <1>7 DEF Take, Goto, clientVars, guardVars
<1>8. ASSUME NEW o \in Ops, Ends(o) PROVE GuardFacts'
  BY <1>0, <1>8 DEF Ends, Finish, Over, DropGuards, Kinds
<1>9. ASSUME NEW o \in Ops, Proceeds(o) PROVE GuardFacts'
  BY <1>0, <1>9 DEF Proceeds, Candidate, RequestPlaces
<1>10. ASSUME NEW o \in Ops, WorkerShutdown(o), Hangup(o) PROVE GuardFacts'
  BY <1>0, <1>10 DEF WorkerShutdown, On, Hangup, Over, DropGuards
<1>11. ASSUME NEW o \in Ops, CloseWrites(o) PROVE GuardFacts'
  BY <1>0, <1>11 DEF CloseWrites, RequestPlaces
<1>12. ASSUME NEW o \in Ops, Starting(o) PROVE GuardFacts'
  BY <1>0, <1>12 DEF Starting, Candidate
<1> QED BY <1>1, <1>2, <1>3, <1>4, <1>5, <1>6, <1>7, <1>8, <1>9, <1>10, <1>11, <1>12, StepShapes

\* A command is issued with what it read; a start with the state as it is.
LEMMA CommandsAreSound ==
  ASSUME IInv, NEW o \in Ops, Command(o), kind'[o] \in Activations \cup {"start"}
  PROVE  Sound(req'[o]) /\ (kind'[o] = "start" => req'[o].new = state /\ state.sub # None)
<1> USE DEF Activations
<1>0. /\ state \in States /\ state.gen \in Nat /\ state.edits \in Nat
      /\ req \in [Ops -> Requests] /\ kind \in [Ops -> Kinds \cup {None}]
  BY StateTypes DEF IInv, Consistent, TypeOK
<1>a. state.sub # None => Sound([old |-> state, new |-> state]) BY <1>0 DEF Sound, Grown
<1>1. CASE BeginStart(o) BY <1>0, <1>a, <1>1 DEF BeginStart, Issue
<1>2. CASE \E s \in Subs, force \in BOOLEAN : BeginActivate(o, s, force)
  <2>1. PICK s \in Subs, force \in BOOLEAN : BeginActivate(o, s, force) BY <1>2
  <2>2. Sound([old |-> state, new |-> Selecting(s)])
    BY <1>0 DEF Sound, Grown, Selecting, Raised
  <2> QED BY <1>0, <2>1, <2>2 DEF BeginActivate, Issue
<1>3. CASE \E g \in 0..state.gen : BeginApply(o, g) BY <1>0, <1>a, <1>3 DEF BeginApply, Issue
<1>4. CASE BeginStop(o) \/ BeginSave(o) \/ BeginQuery(o, "select") \/ BeginQuery(o, "read")
           \/ BeginShutdown(o)
  BY <1>0, <1>4 DEF BeginStop, BeginSave, BeginQuery, BeginShutdown, Issue
<1> QED BY <1>1, <1>2, <1>3, <1>4 DEF Command

\* Otherwise a request stays as it is, or it is dropped, or a save takes what it wants.
LEMMA RequestKept ==
  ASSUME IInv, [Next]_vars, NEW x \in Ops
  PROVE  \/ kind'[x] = kind[x] /\ req'[x] = req[x]
         \/ kind'[x] = None
         \/ Command(x)
         \/ WorkerDocumentQueue(x) /\ kind'[x] = "save"
<1> SUFFICES ASSUME ~ Command(x), kind'[x] # None
             PROVE  \/ kind'[x] = kind[x] /\ req'[x] = req[x]
                    \/ WorkerDocumentQueue(x) /\ kind'[x] = "save"
  OBVIOUS
<1>0. kind \in [Ops -> Kinds \cup {None}] /\ req \in [Ops -> Requests]
  BY DEF IInv, Consistent, TypeOK
<1>1. ASSUME NEW o \in Ops, Command(o) PROVE kind'[x] = kind[x] /\ req'[x] = req[x]
  <2>1. o # x BY <1>1
  <2> QED BY <1>0, <1>1, <2>1 DEF Command, BeginStart, BeginStop, BeginActivate, BeginApply,
             BeginSave, BeginQuery, BeginShutdown, Issue
<1>2. ASSUME NEW o \in Ops,
             \/ Dispatch(o) \/ ReportApply(o) \/ CloseWrites(o) \/ Quiesce(o) \/ Timeout(o)
             \/ Take(o) \/ Ends(o) \/ Starting(o)
      PROVE  kind'[x] = kind[x] /\ req'[x] = req[x]
  BY <1>2 DEF Dispatch, Refused, ReportApply, CloseWrites, Quiesce, Timeout, Take, Ends, Starting, Finish,
              Over, clientVars
<1>3. ASSUME NEW o \in Ops, Hangup(o) PROVE kind'[x] = kind[x] /\ req'[x] = req[x]
  BY <1>3 DEF Hangup, Over
<1>4. ASSUME NEW o \in Ops, Proceeds(o)
      PROVE  \/ kind'[x] = kind[x] /\ req'[x] = req[x]
             \/ WorkerDocumentQueue(x) /\ kind'[x] = "save"
  BY <1>4 DEF Proceeds, WorkerDocumentQueue, On
<1>5. CASE UNCHANGED <<pc, kind, req, busy, queue, worker>> BY <1>5
<1> QED BY <1>1, <1>2, <1>3, <1>4, <1>5, StepShapes

\* A start is pending since it was issued.
LEMMA StartPending ==
  ASSUME IInv, [Next]_vars, NEW x \in Ops, kind'[x] = "start", Pending(x)', ~ Command(x)
  PROVE  Pending(x) /\ kind[x] = "start" /\ req'[x] = req[x]
<1>0. /\ RequestPlaces /\ pc \in [Ops -> PCs] /\ kind \in [Ops -> Kinds \cup {None}]
      /\ worker \in [phase: Phases, op: Ops \cup {None}] /\ queue \in Ops \cup {None}
  BY DEF IInv, Consistent, TypeOK
<1>1. kind[x] = "start" /\ req'[x] = req[x] BY RequestKept DEF Kinds
<1>2. Pending(x)
  <2> USE <1>0, <1>1 DEF Pending
  <2>1. CASE UNCHANGED <<pc, kind, req, busy, queue, worker>> BY <2>1
  <2>2. ASSUME NEW o \in Ops, Command(o), Begins(o) PROVE Pending(x)
    <3>1. o # x BY <2>2
    <3> QED BY <2>2, <3>1 DEF Begins
  <2>3. ASSUME NEW o \in Ops, Dispatch(o) PROVE Pending(x)
    BY <2>3 DEF Dispatch, Refused, Over
  <2>4. ASSUME NEW o \in Ops, ReportApply(o) PROVE Pending(x) BY <2>4 DEF ReportApply, Over
  <2>5. ASSUME NEW o \in Ops, Quiesce(o) PROVE Pending(x)
    <3>1. pc[o] = "quiesce" /\ kind[o] = "shutdown" /\ UNCHANGED <<queue, worker>>
      BY <2>5 DEF Quiesce, RequestPlaces
    <3>2. o # x BY <3>1
    <3> QED BY <2>5, <3>1, <3>2 DEF Quiesce, Over
  <2>6. ASSUME NEW o \in Ops, Timeout(o) PROVE Pending(x) BY <2>6 DEF Timeout
  <2>7. ASSUME NEW o \in Ops, Take(o) PROVE Pending(x) BY <2>7 DEF Take, Goto, clientVars
  <2>8. ASSUME NEW o \in Ops, Ends(o) PROVE Pending(x) BY <2>8 DEF Ends, Finish, Over
  <2>9. ASSUME NEW o \in Ops, Proceeds(o) PROVE Pending(x)
    BY <2>9 DEF Proceeds, Activations
  <2>10. ASSUME NEW o \in Ops, WorkerShutdown(o), Hangup(o) PROVE Pending(x)
    BY <2>10 DEF Hangup, Over
  <2>11. ASSUME NEW o \in Ops, CloseWrites(o) PROVE Pending(x) BY <2>11 DEF CloseWrites
  <2>12. ASSUME NEW o \in Ops, Starting(o) PROVE Pending(x) BY <2>12 DEF Starting
  <2> QED BY <2>1, <2>2, <2>3, <2>4, <2>5, <2>6, <2>7, <2>8, <2>9, <2>10, <2>11, <2>12, StepShapes
<1> QED BY <1>1, <1>2

\* How the worker comes to a phase.
LEMMA WorkerPhases ==
  ASSUME [Next]_vars, worker' # worker
  PROVE  \/ worker'.phase \in {"idle", "exited", "begin"}
         \/ \E o \in Ops : /\ worker.op = o /\ worker'.op = o
                           /\ \/ worker'.phase = "starting" /\ WorkerStart(o)
                              \/ worker'.phase = "started" /\ WorkerStartCore(o)
                              \/ worker'.phase = "checking" /\ (WorkerQueue(o) \/ WorkerDocumentQueue(o))
                              \/ worker'.phase = "prepared" /\ WorkerCheck(o)
                              \/ worker'.phase = "persist" /\ WorkerCancelPoint(o)
                              \/ worker'.phase = "saving" /\ WorkerPersist(o)
                              \/ worker'.phase = "persisted" /\ WorkerSave(o)
                              \/ worker'.phase = "applied" /\ WorkerCommit(o)
                              \/ worker'.phase = "ready" /\ WorkerPublish(o) /\ core.life = "Ready"
                              \/ worker'.phase = "failed"
<1> USE DEF Goto, On, Finish
<1>1. PICK o \in Ops : Work(o) BY WorkerFrame
<1>2. CASE Take(o) \/ WorkerStarted(o) \/ WorkerStop(o) \/ WorkerSelect(o) \/ WorkerRead(o)
           \/ WorkerDocumentRejected(o) \/ WorkerDocumentSaved(o)
           \/ WorkerInstall(o) \/ WorkerReinstall(o) \/ WorkerNotReady(o)
  BY <1>2 DEF Take, WorkerStarted, WorkerStop, WorkerSelect, WorkerRead, WorkerDocumentRejected,
              WorkerDocumentSaved, WorkerInstall, WorkerReinstall, WorkerNotReady
<1>3. CASE WorkerShutdown(o) BY <1>3 DEF WorkerShutdown, Hangup
<1>4. CASE WorkerQueue(o) \/ WorkerDocumentQueue(o) BY <1>4 DEF WorkerQueue, WorkerDocumentQueue
<1>5. CASE WorkerCheck(o) BY <1>5 DEF WorkerCheck, Concluded
<1>6. CASE WorkerCancelPoint(o) BY <1>6 DEF WorkerCancelPoint, CancelCandidate, Concluded
<1>7. CASE WorkerPersist(o) \/ WorkerSave(o)
  BY <1>7 DEF WorkerPersist, WorkerSave, CancelCandidate, Concluded
<1>8. CASE WorkerSavedTooLate(o) BY <1>8 DEF WorkerSavedTooLate, CancelCandidate, Concluded
<1>9. CASE WorkerCommit(o) BY <1>9 DEF WorkerCommit
<1>10. CASE WorkerPublish(o) BY <1>10 DEF WorkerPublish, Concluded
<1>11. CASE WorkerStart(o) \/ WorkerStartCore(o) BY <1>11 DEF WorkerStart, WorkerStartCore
<1> QED BY <1>1, <1>2, <1>3, <1>4, <1>5, <1>6, <1>7, <1>8, <1>9, <1>10, <1>11 DEF Work

\* The request the worker is on stays while it is in its phase.
LEMMA WorkedOnStays ==
  ASSUME IInv, [Next]_vars, worker.op \in Ops, UNCHANGED worker
  PROVE  kind'[worker.op] = kind[worker.op] /\ req'[worker.op] = req[worker.op]
<1>0. RequestPlaces /\ queue \in Ops \cup {None} BY DEF IInv, Consistent, TypeOK
<1>1. CASE UNCHANGED <<pc, kind, req, busy, queue, worker>> BY <1>1
<1>2. ASSUME NEW o \in Ops, Begins(o)
      PROVE  kind'[worker.op] = kind[worker.op] /\ req'[worker.op] = req[worker.op]
  <2>1. o # worker.op BY <1>0, <1>2 DEF Begins, RequestPlaces
  <2>2. kind \in [Ops -> Kinds \cup {None}] BY DEF IInv, Consistent, TypeOK
  <2> QED BY <1>2, <2>1, <2>2 DEF Begins
<1>3. ASSUME NEW o \in Ops, Dispatch(o) \/ ReportApply(o) \/ CloseWrites(o) \/ Quiesce(o)
      PROVE  kind'[worker.op] = kind[worker.op] /\ req'[worker.op] = req[worker.op]
  <2>1. o # worker.op
    BY <1>0, <1>3, NameTypes DEF Dispatch, ReportApply, CloseWrites, Quiesce, RequestPlaces
  <2> QED BY <1>3, <2>1 DEF Dispatch, Refused, ReportApply, CloseWrites, Quiesce, Over
<1>4. ASSUME NEW o \in Ops, Timeout(o) \/ Take(o)
      PROVE  kind'[worker.op] = kind[worker.op] /\ req'[worker.op] = req[worker.op]
  BY <1>4 DEF Timeout, Take, clientVars
<1>5. ASSUME NEW o \in Ops, Ends(o) \/ Starting(o) \/ (WorkerShutdown(o) /\ Hangup(o))
      PROVE  FALSE
  BY <1>0, <1>5 DEF Ends, Starting, Finish, Hangup, WorkerShutdown, On, RequestPlaces
<1>6. ASSUME NEW o \in Ops, Proceeds(o)
      PROVE  kind'[worker.op] = kind[worker.op] /\ req'[worker.op] = req[worker.op]
  <2>1. ~ WorkerDocumentQueue(o)
    BY <1>0, <1>6 DEF WorkerDocumentQueue, On, Goto, Finish
  <2> QED BY <1>6, <2>1 DEF Proceeds
<1> QED BY <1>1, <1>2, <1>3, <1>4, <1>5, <1>6, StepShapes

\* What is pending with the runtime guard keeps the selection.
LEMMA GuardKeepsSelection ==
  ASSUME IInv, [Next]_vars, busy \in Ops, state.sub # None PROVE state'.sub # None
BY SelectionStays DEF DeleteSelected

\* What a request wants still grows out of what it read, and is known once it is saved.
LEMMA RequestStep == IInv /\ [Next]_vars => RequestFacts'
<1> SUFFICES ASSUME IInv, [Next]_vars PROVE RequestFacts'
  OBVIOUS
<1>0. /\ RequestPlaces /\ RequestFacts /\ GuardFacts /\ kind \in [Ops -> Kinds \cup {None}]
      /\ worker \in [phase: Phases, op: Ops \cup {None}] /\ req \in [Ops -> Requests]
      /\ state \in States
  BY DEF IInv, Consistent, TypeOK
<1>1. ASSUME NEW x \in Ops, kind'[x] \in Activations \cup {"start"} PROVE Sound(req'[x])
  BY <1>0, <1>1, RequestKept, CommandsAreSound DEF RequestFacts, Activations, Kinds
<1>2. ASSUME NEW x \in Ops, kind'[x] = "start", Pending(x)'
      PROVE  /\ state'.sub # None
             /\ Artifact(req'[x].new).gen <= state'.gen
             /\ Artifact(req'[x].new).gen = state'.gen => Artifact(req'[x].new) = Artifact(state')
  <2>1. CASE Command(x)
    <3>1. state' = state
      BY <2>1 DEF Command, BeginStart, BeginStop, BeginActivate, BeginApply, BeginSave,
                  BeginQuery, BeginShutdown
    <3>2. req'[x].new = state /\ state.sub # None BY <1>2, <2>1, CommandsAreSound
    <3>3. state.gen \in Nat BY <1>0, StateTypes
    <3> QED BY <3>1, <3>2, <3>3 DEF Artifact
  <2>2. CASE ~ Command(x)
    <3>1. Pending(x) /\ kind[x] = "start" /\ req'[x] = req[x] BY <1>2, <2>2, StartPending
    <3>2. busy = x BY <1>0, <3>1 DEF GuardFacts
    <3>3. state.sub # None /\ Known(Artifact(req[x].new)) BY <1>0, <3>1 DEF RequestFacts
    <3>4. Artifact(req[x].new) \in Artifacts
      BY <1>0, <3>1, StateTypes DEF RequestFacts, Sound, Requests
    <3> QED BY <3>1, <3>2, <3>3, <3>4, KnownStays, GuardKeepsSelection
  <2> QED BY <2>1, <2>2
<1>3. ASSUME worker'.phase \in Candidate PROVE Sound(req'[worker'.op])
  <2>1. CASE UNCHANGED worker
    <3>1. worker.op \in Ops BY <1>0, <1>3, <2>1 DEF RequestPlaces, Candidate
    <3> QED BY <1>0, <1>3, <2>1, <3>1, WorkedOnStays DEF RequestFacts
  <2>2. CASE worker' # worker
    <3>1. PICK o \in Ops : /\ worker.op = o /\ worker'.op = o
                           /\ \/ WorkerQueue(o) /\ worker'.phase = "checking"
                              \/ WorkerDocumentQueue(o) /\ worker'.phase = "checking"
                              \/ WorkerCheck(o) \/ WorkerCancelPoint(o) \/ WorkerPersist(o)
                              \/ WorkerSave(o) \/ WorkerCommit(o)
      BY <1>3, <2>2, WorkerPhases DEF Candidate
    <3>2. CASE WorkerQueue(o)
      <4>1. kind[o] \in Activations /\ UNCHANGED req
        BY <1>0, <3>1, <3>2 DEF WorkerQueue, On, Finish, clientVars
      <4> QED BY <1>0, <3>1, <4>1 DEF RequestFacts
    <3>3. CASE WorkerDocumentQueue(o)
      <4>1. PICK new \in DocumentOutcomes : req' = [req EXCEPT ![o] = [old |-> state, new |-> new]]
        BY <1>0, <3>1, <3>3 DEF WorkerDocumentQueue, Finish
      <4>2. state.sub # None BY <3>3 DEF WorkerDocumentQueue
      <4>3. state.gen \in Nat /\ state.edits \in Nat BY <1>0, StateTypes
      <4>4. new.sub # None /\ Grown(state, new)
        BY <1>0, <4>2, <4>3 DEF DocumentOutcomes, Grown, Edited, Restructured, Raised, States
      <4> QED BY <1>0, <3>1, <4>1, <4>4 DEF Sound
    <3>4. CASE \/ WorkerCheck(o) \/ WorkerCancelPoint(o) \/ WorkerPersist(o) \/ WorkerSave(o)
               \/ WorkerCommit(o)
      <4>1. worker.phase \in Candidate /\ UNCHANGED req
        BY <3>4 DEF WorkerCheck, WorkerCancelPoint, WorkerPersist, WorkerSave,
                    WorkerCommit, On, Candidate, clientVars
      <4> QED BY <1>0, <3>1, <4>1 DEF RequestFacts
    <3> QED BY <3>1, <3>2, <3>3, <3>4
  <2> QED BY <2>1, <2>2
<1>4. ASSUME worker'.phase \in {"persisted", "applied"}
      PROVE  LET a == Artifact(req'[worker'.op].new)
             IN  state'.sub # None /\ a.gen <= state'.gen /\ (a.gen = state'.gen => a = Artifact(state'))
  <2>1. CASE worker.phase \in {"persisted", "applied"} /\ worker'.op = worker.op
             /\ worker.op \in Ops /\ req'[worker.op] = req[worker.op]
    <3>1. state.sub # None /\ Known(Artifact(req[worker.op].new))
      BY <1>0, <2>1 DEF RequestFacts
    <3>2. Artifact(req[worker.op].new) \in Artifacts
      BY <2>1, RequestArtifact DEF Candidate
    <3>3. busy = worker.op
      BY <1>0, <2>1 DEF GuardFacts, Pending, Candidate, RequestPlaces
    <3> QED BY <2>1, <3>1, <3>2, <3>3, KnownStays, GuardKeepsSelection
  <2>2. CASE UNCHANGED worker
    <3>1. worker.op \in Ops BY <1>0, <1>4, <2>2 DEF RequestPlaces
    <3> QED BY <1>4, <2>1, <2>2, <3>1, WorkedOnStays
  <2>3. CASE worker' # worker
    <3>1. PICK o \in Ops : /\ worker.op = o /\ worker'.op = o
                           /\ \/ WorkerSave(o) /\ worker'.phase = "persisted"
                              \/ WorkerCommit(o)
      BY <1>4, <2>3, WorkerPhases
    <3>2. CASE WorkerCommit(o)
      BY <2>1, <3>1, <3>2 DEF WorkerCommit, On, clientVars
    <3>3. CASE WorkerSave(o) /\ worker'.phase = "persisted"
      <4>1. state' = req[o].new /\ req' = req
        BY <3>3 DEF WorkerSave, CancelCandidate, Concluded, Goto, clientVars
      <4>2. req[o].new.sub # None
        BY <1>0, <3>1, <3>3 DEF RequestFacts, Sound, WorkerSave, On, Candidate
      <4>3. req[o].new.gen \in Nat BY <1>0, StateTypes DEF Requests
      <4> QED BY <3>1, <4>1, <4>2, <4>3 DEF Artifact
    <3> QED BY <3>1, <3>2, <3>3
  <2> QED BY <2>2, <2>3
<1>5. ASSUME worker'.phase = "saving" PROVE state' = req'[worker'.op].old
  <2>1. CASE UNCHANGED worker
    <3>1. worker.op \in Ops BY <1>0, <1>5, <2>1 DEF RequestPlaces
    <3>2. req'[worker.op] = req[worker.op] BY <2>1, <3>1, WorkedOnStays
    <3>3. UNCHANGED state
      <4>1. ASSUME NEW o \in Ops, WorkerDocumentSaved(o) \/ WorkerSave(o) PROVE FALSE
        BY <1>5, <2>1, <4>1 DEF WorkerDocumentSaved, On, WorkerSave, CancelCandidate, Concluded,
           Goto
      <4>2. CASE RoutingEdit \/ EndUpdate \/ DeleteSelected \/ DeleteOther
        BY <1>5, <2>1, <4>2 DEF RoutingEdit, EndUpdate, DeleteSelected, DeleteOther, GateFree
      <4> QED BY <4>1, <4>2, StateFrame
    <3> QED BY <1>0, <1>5, <2>1, <3>2, <3>3 DEF RequestFacts
  <2>2. CASE worker' # worker
    <3>1. PICK o \in Ops : worker'.op = o /\ WorkerPersist(o) BY <1>5, <2>2, WorkerPhases
    <3> QED BY <1>5, <3>1 DEF WorkerPersist, CancelCandidate, Concluded, Goto, clientVars
  <2> QED BY <2>1, <2>2
<1> QED BY <1>1, <1>2, <1>3, <1>4, <1>5 DEF RequestFacts, Known

\* No step takes the port away from a core that has one.
LEMMA OfflineIsInitial == IInv /\ [Next]_vars /\ core'.life = "Offline" => core.life = "Offline"
<1> SUFFICES ASSUME IInv, [Next]_vars, core'.life = "Offline" PROVE core.life = "Offline"
  OBVIOUS
<1>a. \A life : Down(life).life = life BY DEF Down
<1>1. CASE UNCHANGED core BY <1>1
<1>2. ASSUME NEW o \in Ops, WorkerStartCore(o) PROVE core.life = "Offline"
  BY <1>a, <1>2 DEF WorkerStartCore, CommitOutcomes
<1>3. ASSUME NEW o \in Ops, WorkerStop(o) \/ WorkerShutdown(o) PROVE core.life = "Offline"
  BY <1>a, <1>3 DEF WorkerStop, WorkerShutdown, StopCore
<1>4. ASSUME NEW o \in Ops, WorkerQueue(o) \/ WorkerDocumentQueue(o) PROVE core.life = "Offline"
  BY <1>a, <1>4 DEF WorkerQueue, WorkerDocumentQueue
<1>5. ASSUME NEW o \in Ops, WorkerCheck(o) PROVE core.life = "Offline"
  BY <1>a, <1>5 DEF WorkerCheck, PrepareFailures
<1>6. ASSUME NEW o \in Ops,
             \/ WorkerCancelPoint(o) \/ WorkerPersist(o) \/ WorkerSave(o) \/ WorkerSavedTooLate(o)
      PROVE  core.life = "Offline"
  BY <1>a, <1>6 DEF WorkerCancelPoint, WorkerPersist, WorkerSave, WorkerSavedTooLate,
      CancelCandidate
<1>7. ASSUME NEW o \in Ops, WorkerCommit(o) PROVE core.life = "Offline"
  BY <1>a, <1>7 DEF WorkerCommit, CommitOutcomes
<1>8. CASE Sample BY <1>a, <1>8 DEF Sample
<1> QED BY <1>1, <1>2, <1>3, <1>4, <1>5, <1>6, <1>7, <1>8, CoreFrame

\* Between a start or a commit and the end of its request nobody moves the core.
LEMMA CoreWaits ==
  ASSUME [Next]_vars, worker.phase \in {"started", "applied", "ready"} PROVE UNCHANGED core
BY CoreFrame DEF WorkerStartCore, WorkerStop, WorkerShutdown, WorkerQueue, WorkerDocumentQueue,
                 WorkerCheck, WorkerCancelPoint, WorkerPersist, WorkerSave,
                 WorkerSavedTooLate,               WorkerCommit, Sample, On

\* The core the worker goes on with is the one of its request.
LEMMA CoreStep == IInv /\ [Next]_vars => CoreFacts'
<1> SUFFICES ASSUME IInv, [Next]_vars PROVE CoreFacts'
  OBVIOUS
<1>0. /\ RequestPlaces /\ CoreFacts
      /\ worker \in [phase: Phases, op: Ops \cup {None}]
  BY DEF IInv, Consistent, TypeOK
<1>1. core'.life = "Ready" => core'.art \in Artifacts
  BY <1>0, CoreBecomesReady, RequestArtifact
     DEF CoreFacts, WorkerStartCore, WorkerCommit, On, Candidate
<1>2. ASSUME worker'.phase \in Candidate, core'.life = "Offline" PROVE FALSE
  <2>1. core.life = "Offline" BY <1>2, OfflineIsInitial
  <2>2. worker.phase \notin Candidate BY <1>0, <2>1 DEF CoreFacts
  <2>3. PICK o \in Ops : (WorkerQueue(o) \/ WorkerDocumentQueue(o)) /\ worker'.phase = "checking"
    BY <1>2, <2>2, WorkerPhases
       DEF Candidate, WorkerCheck, WorkerCancelPoint, WorkerPersist, WorkerSave,
           WorkerCommit, On
  <2> QED BY <1>2, <2>1, <2>3 DEF WorkerQueue, WorkerDocumentQueue, Finish, Down
<1>3. ASSUME worker'.phase \in {"started", "applied"}, core'.life = "Ready"
      PROVE  core'.art = Artifact(req'[worker'.op].new)
  <2>1. CASE UNCHANGED worker
    <3>1. worker.op \in Ops BY <1>0, <1>3, <2>1 DEF RequestPlaces
    <3> QED BY <1>0, <1>3, <2>1, <3>1, CoreWaits, WorkedOnStays DEF CoreFacts
  <2>2. CASE worker' # worker
    <3>1. PICK o \in Ops : /\ worker'.op = o
                           /\ \/ WorkerStartCore(o) /\ worker'.phase = "started"
                              \/ WorkerCommit(o)
      BY <1>3, <2>2, WorkerPhases
    <3> QED BY <1>3, <3>1 DEF WorkerStartCore, WorkerCommit, CommitOutcomes, Down, Finish, clientVars
  <2> QED BY <2>1, <2>2
<1>4. ASSUME worker'.phase = "ready", kind'[worker'.op] \in Activations
      PROVE  core'.life = "Ready" /\ core'.art = Artifact(req'[worker'.op].new)
  <2>1. CASE UNCHANGED worker
    <3>1. worker.op \in Ops BY <1>0, <1>4, <2>1 DEF RequestPlaces
    <3> QED BY <1>0, <1>4, <2>1, <3>1, CoreWaits, WorkedOnStays DEF CoreFacts
  <2>2. CASE worker' # worker
    <3>1. PICK o \in Ops : worker.op = o /\ worker'.op = o /\ WorkerPublish(o) /\ core.life = "Ready"
      BY <1>4, <2>2, WorkerPhases
    <3> QED BY <1>0, <3>1 DEF CoreFacts, WorkerPublish, On, clientVars
  <2> QED BY <2>1, <2>2
<1>5. ASSUME worker'.phase = "started", core'.life = "Offline" PROVE FALSE
  <2>1. core.life = "Offline" BY <1>5, OfflineIsInitial
  <2>2. CASE UNCHANGED worker BY <1>0, <1>5, <2>1, <2>2 DEF CoreFacts
  <2>3. CASE worker' # worker
    <3>1. PICK o \in Ops : WorkerStartCore(o) BY <1>5, <2>3, WorkerPhases
    <3> QED BY <1>5, <3>1 DEF WorkerStartCore, CommitOutcomes, Down, Finish
  <2> QED BY <2>2, <2>3
<1> QED BY <1>1, <1>2, <1>3, <1>4, <1>5 DEF CoreFacts

\* Where an index comes from.
LEMMA IndexMoves ==
  ASSUME [Next]_vars, index' # None, index' # index
  PROVE  \E o \in Ops :
           \/ WorkerStarted(o) /\ core.life = "Ready" /\ index' = Artifact(req[o].new)
           \/ WorkerInstall(o) /\ index' = Artifact(req[o].new)
           \/ WorkerReinstall(o) /\ state.sub # None /\ index' = Artifact(state)
<1> USE DEF indexVars, Clear, Install
<1>1. ASSUME NEW o \in Ops, WorkerStarted(o)
      PROVE  core.life = "Ready" /\ index' = Artifact(req[o].new)
  BY <1>1 DEF WorkerStarted
<1>2. ASSUME NEW o \in Ops, WorkerStop(o) \/ WorkerShutdown(o) PROVE FALSE
  BY <1>2 DEF WorkerStop, WorkerShutdown, StopCore
<1>3. ASSUME NEW o \in Ops, WorkerSelect(o) PROVE FALSE BY <1>3 DEF WorkerSelect
<1>4. ASSUME NEW o \in Ops, WorkerDocumentRejected(o) \/ WorkerDocumentSaved(o)
                            \/ WorkerDocumentQueue(o) \/ WorkerNotReady(o)
      PROVE  FALSE
  BY <1>4 DEF WorkerDocumentRejected, WorkerDocumentSaved, WorkerDocumentQueue,
              WorkerNotReady, IndexWhenNotReady
<1>5. ASSUME NEW o \in Ops, WorkerInstall(o) PROVE index' = Artifact(req[o].new)
  BY <1>5 DEF WorkerInstall
<1>6. ASSUME NEW o \in Ops, WorkerReinstall(o) PROVE state.sub # None /\ index' = Artifact(state)
  BY <1>6 DEF WorkerReinstall
<1> QED BY <1>1, <1>2, <1>3, <1>4, <1>5, <1>6, IndexFrame

\* The index is known, and agrees with what runs or is about to run.
LEMMA IndexStep == IInv /\ [Next]_vars => IndexFacts'
<1> SUFFICES ASSUME IInv, [Next]_vars, index' # None
             PROVE  /\ index'.gen <= state'.gen
                    /\ index'.gen = state'.gen => index' = Artifact(state')
                    /\ core'.life = "Ready" /\ worker'.phase # "started" =>
                         SameConfig(index', core'.art)
                    /\ worker'.phase = "persisted" =>
                         /\ index'.gen <= req'[worker'.op].new.gen
                         /\ SameConfig(index', Artifact(req'[worker'.op].new))
  BY DEF IndexFacts, Known, SameConfig
<1>0. /\ RequestPlaces /\ CoreFacts /\ IndexFacts /\ RequestFacts
      /\ worker \in [phase: Phases, op: Ops \cup {None}] /\ state \in States
      /\ index \in Artifacts \cup {None} /\ req \in [Ops -> Requests]
  BY DEF IInv, Consistent, TypeOK
<1>a. core.life = "Ready" => Known(core.art)
  BY DEF IInv, Consistent, GenerationNamesConfig, Known
<1>b. state.gen \in Nat BY <1>0, StateTypes
<1>1. CASE UNCHANGED index
  <2>1. index \in Artifacts /\ Known(index) BY <1>0, <1>1 DEF IndexFacts
  <2>2. index.gen <= state'.gen /\ (index.gen = state'.gen => index = Artifact(state'))
    BY <2>1, KnownStays
  <2>3. ASSUME core'.life = "Ready", worker'.phase # "started" PROVE SameConfig(index, core'.art)
    <3>1. CASE UNCHANGED core /\ worker.phase # "started"
      BY <1>0, <1>1, <2>3, <3>1 DEF IndexFacts
    <3>4. CASE UNCHANGED core /\ worker.phase = "started"
      <4>1. PICK o \in Ops : WorkerStarted(o) BY <2>3, <3>4, OutcomeIsPublished
      <4>2. index = Artifact(req[o].new) BY <1>1, <2>3, <3>4, <4>1 DEF WorkerStarted, Install
      <4>3. core.art = Artifact(req[o].new)
        BY <1>0, <2>3, <3>4, <4>1 DEF WorkerStarted, On, CoreFacts
      <4> QED BY <3>4, <4>2, <4>3 DEF SameConfig
    <3>2. ASSUME NEW o \in Ops, WorkerStartCore(o), core' # core PROVE FALSE
      BY <2>3, <3>2 DEF WorkerStartCore, Goto, Down
    <3>3. ASSUME NEW o \in Ops, core'.art = Artifact(req[o].new), WorkerCommit(o)
          PROVE  SameConfig(index, core'.art)
      BY <1>0, <1>1, <3>3 DEF WorkerCommit, On, IndexFacts
    <3> QED BY <2>3, <3>1, <3>2, <3>3, <3>4, CoreBecomesReady
  <2>4. ASSUME worker'.phase = "persisted"
        PROVE  /\ index.gen <= req'[worker'.op].new.gen
               /\ SameConfig(index, Artifact(req'[worker'.op].new))
    <3>1. CASE UNCHANGED worker
      <4>1. worker.op \in Ops BY <1>0, <2>4, <3>1 DEF RequestPlaces
      <4> QED BY <1>0, <1>1, <2>4, <3>1, <4>1, WorkedOnStays DEF IndexFacts
    <3>2. CASE worker' # worker
      <4>1. PICK o \in Ops : worker.op = o /\ worker'.op = o /\ WorkerSave(o)
        BY <2>4, <3>2, WorkerPhases
      <4>2. state = req[o].old /\ req' = req /\ Sound(req[o])
        BY <1>0, <2>4, <4>1 DEF WorkerSave, CancelCandidate, Concluded, Goto, clientVars, On,
                                RequestFacts, Candidate
      <4>3. req[o].new.gen \in Nat /\ index.gen \in Nat
        BY <1>0, <2>1, StateTypes, BoundsAssumption DEF Requests, Artifacts
      <4>4. index.gen <= req[o].new.gen
        BY <1>b, <2>1, <4>2, <4>3 DEF Known, Sound, Grown
      <4>5. ASSUME index.gen = req[o].new.gen PROVE index = Artifact(req[o].new)
        <5>1. index.gen = state.gen /\ req[o].new.gen = req[o].old.gen
          BY <1>b, <2>1, <4>2, <4>3, <4>5 DEF Known, Sound, Grown
        <5> QED BY <2>1, <4>2, <5>1 DEF Known, Sound, Grown, Artifact
      <4> QED BY <4>1, <4>2, <4>4, <4>5 DEF SameConfig, Artifact
    <3> QED BY <3>1, <3>2
  <2> QED BY <1>1, <2>2, <2>3, <2>4
<1>2. ASSUME NEW o \in Ops, WorkerStarted(o), core.life = "Ready", index' = Artifact(req[o].new)
      PROVE  /\ index'.gen <= state'.gen
             /\ index'.gen = state'.gen => index' = Artifact(state')
             /\ core'.life = "Ready" => SameConfig(index', core'.art)
             /\ worker'.phase # "persisted"
  <2>1. index' = core.art /\ UNCHANGED <<core, state>>
    BY <1>0, <1>2 DEF WorkerStarted, On, CoreFacts
  <2> QED BY <1>2, <1>a, <2>1 DEF WorkerStarted, Finish, Known, SameConfig
<1>3. ASSUME NEW o \in Ops, WorkerInstall(o), index' = Artifact(req[o].new)
      PROVE  /\ index'.gen <= state'.gen
             /\ index'.gen = state'.gen => index' = Artifact(state')
             /\ core'.life = "Ready" => SameConfig(index', core'.art)
             /\ worker'.phase # "persisted"
  <2>1. index' = core.art /\ core.life = "Ready" /\ UNCHANGED <<core, state>>
    BY <1>0, <1>3 DEF WorkerInstall, On, CoreFacts
  <2> QED BY <1>3, <1>a, <2>1 DEF WorkerInstall, Finish, Known, SameConfig
<1>4. ASSUME NEW o \in Ops, WorkerReinstall(o), state.sub # None, index' = Artifact(state)
      PROVE  /\ index'.gen <= state'.gen
             /\ index'.gen = state'.gen => index' = Artifact(state')
             /\ core'.life = "Ready" => SameConfig(index', core'.art)
             /\ worker'.phase # "persisted"
  <2>1. UNCHANGED <<core, state>> /\ worker'.phase # "persisted"
    BY <1>4 DEF WorkerReinstall, Finish
  <2>2. index'.gen = state.gen BY <1>4 DEF Artifact
  <2> QED BY <1>4, <1>a, <1>b, <2>1, <2>2 DEF Known, SameConfig
<1> QED BY <1>1, <1>2, <1>3, <1>4, IndexMoves

-----------------------------------------------------------------------------
(* The switch and the status of its command *)

\* A command is untouched from the moment it is issued.
LEMMA UntouchedBefore ==
  ASSUME IInv, [Next]_vars, NEW x \in Ops, ~ Command(x)
  PROVE  (pc'[x] = "new" => pc[x] = "new") /\ (Untouched(x)' => Untouched(x))
<1> USE NameTypes DEF Untouched
<1>0. /\ RequestPlaces /\ pc \in [Ops -> PCs]
      /\ worker \in [phase: Phases, op: Ops \cup {None}] /\ queue \in Ops \cup {None}
  BY DEF IInv, Consistent, TypeOK
<1>1. CASE UNCHANGED <<pc, kind, req, busy, queue, worker>> BY <1>1
<1>2. ASSUME NEW o \in Ops, Command(o), Begins(o)
      PROVE  (pc'[x] = "new" => pc[x] = "new") /\ (Untouched(x)' => Untouched(x))
  <2>1. o # x BY <1>2
  <2> QED BY <1>0, <1>2, <2>1 DEF Begins
<1>3. ASSUME NEW o \in Ops, Dispatch(o)
      PROVE  (pc'[x] = "new" => pc[x] = "new") /\ (Untouched(x)' => Untouched(x))
  BY <1>0, <1>3 DEF Dispatch, Refused, Over
<1>4. ASSUME NEW o \in Ops, ReportApply(o)
      PROVE  (pc'[x] = "new" => pc[x] = "new") /\ (Untouched(x)' => Untouched(x))
  BY <1>0, <1>4 DEF ReportApply, Over
<1>5. ASSUME NEW o \in Ops, Quiesce(o)
      PROVE  (pc'[x] = "new" => pc[x] = "new") /\ (Untouched(x)' => Untouched(x))
  <2>1. UNCHANGED <<queue, worker>> /\ pc[o] = "quiesce" BY <1>5 DEF Quiesce
  <2>2. CASE pc' = [pc EXCEPT ![o] = "dispatch"] BY <1>0, <2>1, <2>2
  <2>3. CASE Over({o}) BY <1>0, <2>1, <2>3 DEF Over
  <2> QED BY <1>5, <2>2, <2>3 DEF Quiesce
<1>6. ASSUME NEW o \in Ops, Timeout(o)
      PROVE  (pc'[x] = "new" => pc[x] = "new") /\ (Untouched(x)' => Untouched(x))
  BY <1>0, <1>6 DEF Timeout
<1>7. ASSUME NEW o \in Ops, Take(o)
      PROVE  (pc'[x] = "new" => pc[x] = "new") /\ (Untouched(x)' => Untouched(x))
  BY <1>0, <1>7 DEF Take, Goto, clientVars
<1>8. ASSUME NEW o \in Ops, Ends(o)
      PROVE  (pc'[x] = "new" => pc[x] = "new") /\ (Untouched(x)' => Untouched(x))
  BY <1>0, <1>8 DEF Ends, Finish, Over
<1>9. ASSUME NEW o \in Ops, Proceeds(o)
      PROVE  (pc'[x] = "new" => pc[x] = "new") /\ (Untouched(x)' => Untouched(x))
  BY <1>0, <1>9 DEF Proceeds, Candidate
<1>10. ASSUME NEW o \in Ops, WorkerShutdown(o), Hangup(o)
       PROVE  (pc'[x] = "new" => pc[x] = "new") /\ (Untouched(x)' => Untouched(x))
  BY <1>0, <1>10 DEF Hangup, Over
<1>11. ASSUME NEW o \in Ops, CloseWrites(o) PROVE (pc'[x] = "new" => pc[x] = "new") /\ (Untouched(x)' => Untouched(x))
  BY <1>0, <1>11 DEF CloseWrites
<1>12. ASSUME NEW o \in Ops, Starting(o) PROVE (pc'[x] = "new" => pc[x] = "new") /\ (Untouched(x)' => Untouched(x))
  BY <1>0, <1>12 DEF Starting
<1> QED BY <1>1, <1>2, <1>3, <1>4, <1>5, <1>6, <1>7, <1>8, <1>9, <1>10, <1>11, <1>12, StepShapes

\* How the worker moves the switch of its command o.
WorkerSwitches(o) ==
  LET to(p, status) == worker'.phase = p /\ worker'.op = o /\ seen'.switch.status = status
  IN \/ worker.phase = "begin" /\ (to("checking", "Checking") \/ (Finish(o) /\ seen'.switch.status = "Failed"))
     \/ worker.phase = "checking" /\ (to("prepared", "Prepared") \/ to("failed", "Failed"))
     \/ worker.phase = "prepared" /\ (to("failed", "Cancelled") \/ to("failed", "Failed"))
     \/ worker.phase = "persist" /\ (to("failed", "Cancelled") \/ to("failed", "Failed"))
     \/ worker.phase = "saving" /\ (to("persisted", "Persisted") \/ to("failed", "Failed"))
     \/ worker.phase = "persisted" /\ (to("applied", "Applying") \/ to("failed", "Failed"))
     \/ worker.phase = "applied" /\ (to("ready", "Ready") \/ to("failed", "Failed"))

\* Who moves the switch, and how.
LEMMA SwitchMoves ==
  ASSUME IInv, [Next]_vars, seen'.switch # seen.switch
  PROVE  \/ seen'.switch = NoSwitch
         \/ \E o \in Ops :
              /\ seen'.switch.op = o
              /\ \/ pc[o] = "new" /\ pc'[o] # "new" /\ seen'.switch.status = "Queued" /\ UNCHANGED worker
                 \/ ReportApply(o) /\ seen'.switch.status \in {"Failed", "Cancelled"}
                 \/ worker.op = o /\ WorkerSwitches(o)
<1> USE DEF Statuses, SeenLives
<1>0. /\ seen \in Snapshots /\ core.life \in CoreLives /\ pc \in [Ops -> PCs]
      /\ worker.phase \in Candidate => core.life # "Offline"
  BY DEF IInv, Consistent, TypeOK, CoreFacts
<1>a. \A o \in Ops : /\ Switched(seen, o, "Queued") \in Snapshots
                     /\ Switched(seen, o, "Queued").switch.op = o
                     /\ Switched(seen, o, "Queued").switch.status = "Queued"
  BY <1>0, SnapshotTypes, SwitchedSwitch
<1>b. \A o \in Ops, st \in Statuses :
        /\ Switched(Switched(seen, o, "Queued"), o, st).switch.op = o
        /\ Switched(Switched(seen, o, "Queued"), o, st).switch.status = st
  BY <1>a, SwitchedSwitch
<1>c. \A o \in Ops, st \in Statuses :
        LET w == Switched(seen, o, st).switch
        IN  w = seen.switch \/ (w.op = o /\ w.status = st)
  BY <1>0, SwitchedSwitch
<1>d. \A life \in SeenLives, o \in Ops, st \in Statuses :
        LET w == Switched(FailedIn(seen, life), o, st).switch
        IN  w = seen.switch \/ w = NoSwitch \/ (w.op = o /\ w.status = st)
  <2> TAKE life \in SeenLives, o \in Ops, st \in Statuses
  <2>1. FailedIn(seen, life) \in Snapshots BY <1>0, SnapshotTypes
  <2>2. FailedIn(seen, life).switch \in {seen.switch, NoSwitch} BY <1>0, SwitchOutcomes
  <2> QED BY <2>1, <2>2, SwitchedSwitch
<1>1. CASE UNCHANGED <<core, seen>> BY <1>1
<1>2. ASSUME NEW o \in Ops, NEW g \in 0..state.gen, BeginApply(o, g)
      PROVE  /\ seen'.switch.op = o
             /\ pc[o] = "new" /\ pc'[o] # "new" /\ seen'.switch.status = "Queued" /\ UNCHANGED worker
  BY <1>0, <1>a, <1>2 DEF BeginApply, Issue
<1>3. ASSUME NEW o \in Ops, ReportApply(o)
      PROVE  seen'.switch.op = o /\ seen'.switch.status \in {"Failed", "Cancelled"}
  BY <1>b, <1>3, NameTypes DEF ReportApply
<1>e. ASSUME NEW o \in Ops, WorkerStartCore(o) PROVE seen'.switch = NoSwitch
  BY <1>0, <1>e, SwitchOutcomes DEF WorkerStartCore
<1>4. ASSUME NEW o \in Ops, WorkerStarted(o) PROVE seen'.switch = NoSwitch
  <2>1. core.life \in SeenLives BY <1>0, <1>4 DEF WorkerStarted, On, IInv, CoreFacts, CoreLives
  <2> QED BY <1>0, <1>4, <2>1, SwitchOutcomes DEF WorkerStarted
<1>5. ASSUME NEW o \in Ops, WorkerStop(o) \/ WorkerShutdown(o) PROVE seen'.switch = NoSwitch
  BY <1>0, <1>5, SwitchOutcomes DEF WorkerStop, WorkerShutdown, StopCore
<1>6. ASSUME NEW o \in Ops, WorkerQueue(o) \/ WorkerDocumentQueue(o)
      PROVE  seen'.switch.op = o /\ worker.op = o /\ WorkerSwitches(o)
  BY <1>b, <1>6 DEF WorkerQueue, WorkerDocumentQueue, On, Goto, WorkerSwitches
<1>7. ASSUME NEW o \in Ops, WorkerCheck(o)
      PROVE  seen'.switch = NoSwitch \/ (seen'.switch.op = o /\ worker.op = o /\ WorkerSwitches(o))
  <2>1. worker.op = o /\ worker.phase = "checking" /\ core.life \in SeenLives
    BY <1>0, <1>7 DEF WorkerCheck, On, Candidate, CoreLives
  <2>2. CASE seen' = Switched(seen, o, "Prepared") /\ Goto(o, "prepared")
    BY <1>c, <2>1, <2>2 DEF Goto, WorkerSwitches
  <2>3. CASE seen' = Switched(seen, o, "Failed") /\ Goto(o, "failed")
    BY <1>c, <2>1, <2>3 DEF Goto, WorkerSwitches
  <2>4. CASE seen' = Switched(FailedIn(seen, core'.life), o, "Failed") /\ Goto(o, "failed")
             /\ core' \in PrepareFailures
    <3>1. core'.life \in SeenLives BY <2>1, <2>4 DEF PrepareFailures, Down
    <3> QED BY <1>d, <2>1, <2>4, <3>1 DEF Goto, WorkerSwitches
  <2> QED BY <1>7, <2>2, <2>3, <2>4 DEF WorkerCheck, Concluded
<1>8. ASSUME NEW o \in Ops, NEW st \in {"Cancelled", "Failed"}, CancelCandidate(o, st)
      PROVE  \/ seen'.switch = NoSwitch
             \/ seen'.switch.op = o /\ seen'.switch.status \in {st, "Failed"}
                /\ worker' = [phase |-> "failed", op |-> o]
  BY <1>c, <1>d, <1>8 DEF CancelCandidate, Concluded, Goto
<1>9. ASSUME NEW o \in Ops, WorkerCancelPoint(o)
      PROVE  seen'.switch = NoSwitch \/ (seen'.switch.op = o /\ worker.op = o /\ WorkerSwitches(o))
  BY <1>8, <1>9 DEF WorkerCancelPoint, On, WorkerSwitches
<1>f. ASSUME NEW o \in Ops, WorkerPersist(o)
      PROVE  seen'.switch = NoSwitch \/ (seen'.switch.op = o /\ worker.op = o /\ WorkerSwitches(o))
  BY <1>8, <1>f DEF WorkerPersist, On, WorkerSwitches
<1>10. ASSUME NEW o \in Ops, WorkerSave(o)
       PROVE  seen'.switch = NoSwitch \/ (seen'.switch.op = o /\ worker.op = o /\ WorkerSwitches(o))
  BY <1>8, <1>c, <1>10 DEF WorkerSave, On, Goto, WorkerSwitches
<1>11. ASSUME NEW o \in Ops, WorkerSavedTooLate(o)
       PROVE  seen'.switch = NoSwitch \/ (seen'.switch.op = o /\ worker.op = o /\ WorkerSwitches(o))
  BY <1>8, <1>11 DEF WorkerSavedTooLate, On, WorkerSwitches
<1>12. ASSUME NEW o \in Ops, WorkerCommit(o)
       PROVE  seen'.switch.op = o /\ worker.op = o /\ WorkerSwitches(o)
  BY <1>c, <1>12 DEF WorkerCommit, On, Goto, WorkerSwitches
<1>13. ASSUME NEW o \in Ops, WorkerPublish(o)
       PROVE  seen'.switch = NoSwitch \/ (seen'.switch.op = o /\ worker.op = o /\ WorkerSwitches(o))
  <2>1. worker.op = o /\ worker.phase = "applied" /\ core.life \in SeenLives
    BY <1>0, <1>13 DEF WorkerPublish, On, Candidate, CoreLives
  <2>2. CASE seen' = SeenReady(core.art, o) /\ Goto(o, "ready")
    BY <2>1, <2>2, SwitchOutcomes DEF Goto, WorkerSwitches
  <2>3. CASE seen' = Switched(FailedIn(seen, core.life), o, "Failed") /\ Goto(o, "failed")
    BY <1>d, <2>1, <2>3 DEF Goto, WorkerSwitches
  <2> QED BY <1>13, <2>2, <2>3 DEF WorkerPublish, Concluded
<1>14. CASE Sample
  <2>1. CASE seen' = [seen EXCEPT !.life = "Ready"] BY <1>0, <2>1 DEF Snapshots
  <2>2. CASE \E life \in SeenLives : seen' = FailedIn(seen, life) BY <1>0, <2>2, SwitchOutcomes
  <2> QED BY <1>14, <2>1, <2>2 DEF Sample, Down
<1> QED BY <1>1, <1>2, <1>3, <1>e, <1>4, <1>5, <1>6, <1>7, <1>9, <1>f, <1>10, <1>11, <1>12, <1>13,
           <1>14, SeenFrame

\* The status of the switch follows the phase of its command.
LEMMA SwitchStep == IInv /\ [Next]_vars => SwitchFacts'
<1> SUFFICES ASSUME IInv, [Next]_vars PROVE SwitchFacts'
  OBVIOUS
<1> USE DEF Statuses
<1>0. /\ SwitchFacts /\ RequestPlaces /\ seen \in Snapshots /\ pc \in [Ops -> PCs]
      /\ worker \in [phase: Phases, op: Ops \cup {None}]
  BY DEF IInv, Consistent, TypeOK
<1>1. seen'.switch.op = None => seen'.switch.status = "none"
  BY <1>0, SwitchMoves, SwitchOutcomes DEF SwitchFacts
<1>2. ASSUME NEW x \in Ops, seen'.switch.op = x PROVE pc'[x] # "new"
  <2>1. CASE seen'.switch = seen.switch
    <3>1. pc[x] # "new" BY <1>0, <1>2, <2>1 DEF SwitchFacts
    <3>2. ~ Command(x)
      BY <3>1 DEF Command, BeginStart, BeginStop, BeginActivate, BeginApply, BeginSave,
                  BeginQuery, BeginShutdown, Issue
    <3> QED BY <3>1, <3>2, UntouchedBefore
  <2>2. CASE seen'.switch # seen.switch
    <3>1. CASE ReportApply(x) BY <3>1 DEF ReportApply, Over
    <3>2. CASE worker.op = x
      <4>1. pc[x] # "new" BY <1>0, <3>2 DEF RequestPlaces
      <4>2. ~ Command(x)
        BY <4>1 DEF Command, BeginStart, BeginStop, BeginActivate, BeginApply, BeginSave,
                    BeginQuery, BeginShutdown, Issue
      <4> QED BY <4>1, <4>2, UntouchedBefore
    <3> QED BY <1>2, <2>2, <3>1, <3>2, SwitchMoves, SwitchOutcomes
  <2> QED BY <2>1, <2>2
<1>3. ASSUME NEW x \in Ops, seen'.switch.op = x, Untouched(x)'
      PROVE  seen'.switch.status = "Queued"
  <2>1. CASE seen'.switch = seen.switch
    <3>1. pc[x] # "new" BY <1>0, <1>3, <2>1 DEF SwitchFacts
    <3>2. ~ Command(x)
      BY <3>1 DEF Command, BeginStart, BeginStop, BeginActivate, BeginApply, BeginSave,
                  BeginQuery, BeginShutdown, Issue
    <3>3. Untouched(x) BY <1>3, <3>2, UntouchedBefore
    <3> QED BY <1>0, <1>3, <2>1, <3>3 DEF SwitchFacts
  <2>2. CASE seen'.switch # seen.switch
    <3>1. CASE ReportApply(x)
      <4>1. pc'[x] = "done" /\ UNCHANGED <<queue, worker>> BY <3>1 DEF ReportApply, Over
      <4>2. queue # x /\ worker.op # x
        BY <1>0, <3>1, NameTypes DEF ReportApply, RequestPlaces
      <4> QED BY <1>3, <4>1, <4>2, NameTypes DEF Untouched
    <3>2. CASE worker.op = x /\ WorkerSwitches(x)
      <4>1. pc[x] \in {"waiting", "gone"} /\ queue # x
        BY <1>0, <3>2 DEF RequestPlaces
      <4>2. worker'.op = x => worker'.phase # "begin"
        BY <3>2 DEF WorkerSwitches, Finish
      <4>3. worker' # worker BY <3>2 DEF WorkerSwitches, Finish
      <4>4. queue' # x /\ pc'[x] \in {"waiting", "gone", "done"}
        <5>1. ASSUME NEW o \in Ops, Take(o) \/ Proceeds(o)
              PROVE  queue' # x /\ pc'[x] = pc[x]
          BY <4>1, <5>1 DEF Take, Proceeds, clientVars
        <5>2. ASSUME NEW o \in Ops, Ends(o) PROVE queue' # x /\ pc'[x] \in {pc[x], "done"}
          BY <4>1, <5>2 DEF Ends, Finish, Over
        <5>h. ASSUME NEW o \in Ops, Hangup(o) PROVE queue' # x /\ pc'[x] \in {pc[x], "done"}
          <6>1. queue' # x BY <5>h DEF Hangup
          <6>2. Over({o, queue}) BY <5>h DEF Hangup
          <6> QED BY <6>1, <6>2 DEF Over
        <5>3. ASSUME NEW o \in Ops, \/ Begins(o) \/ Dispatch(o) \/ ReportApply(o) \/ CloseWrites(o)
                                   \/ Quiesce(o) \/ Timeout(o)
              PROVE  worker' = worker
          BY <5>3 DEF Begins, Dispatch, ReportApply, CloseWrites, Quiesce, Timeout
        <5>4. ASSUME NEW o \in Ops, Starting(o) PROVE queue' # x /\ pc'[x] = pc[x]
          BY <4>1, <5>4 DEF Starting
        <5> QED BY <4>1, <4>3, <5>1, <5>2, <5>h, <5>3, <5>4, StepShapes
      <4> QED BY <1>3, <4>2, <4>4, NameTypes DEF Untouched
    <3> QED BY <1>3, <2>2, <3>1, <3>2, SwitchMoves, SwitchOutcomes
  <2> QED BY <2>1, <2>2
<1>4. ASSUME NEW x \in Ops, seen'.switch.op = x, worker'.op = x, worker'.phase \in Candidate
      PROVE  seen'.switch.status = StatusAt[worker'.phase]
  <2> USE DEF StatusAt
  <2>1. CASE UNCHANGED worker
    <3>1. pc[x] \in {"waiting", "gone"} BY <1>0, <1>4, <2>1 DEF RequestPlaces
    <3>2. ~ ReportApply(x) BY <3>1, NameTypes DEF ReportApply
    <3>3. ~ WorkerSwitches(x) BY <1>4, <2>1 DEF WorkerSwitches, Finish, Candidate
    <3>4. seen'.switch = seen.switch
      BY <1>4, <3>1, <3>2, <3>3, SwitchMoves, SwitchOutcomes
    <3> QED BY <1>0, <1>4, <2>1, <3>4 DEF SwitchFacts
  <2>2. CASE worker' # worker
    <3>1. worker.op = x BY <1>4, <2>2, WorkerPhases DEF Candidate
    <3>2. CASE (WorkerQueue(x) \/ WorkerDocumentQueue(x)) /\ worker'.phase = "checking"
      <4>1. seen' = Switched(Switched(seen, x, "Queued"), x, "Checking")
        BY <3>2 DEF WorkerQueue, WorkerDocumentQueue, Finish
      <4>2. Switched(seen, x, "Queued") \in Snapshots BY <1>0, SnapshotTypes
      <4>3. Switched(seen, x, "Queued").switch.op = x BY <1>0, SwitchedSwitch
      <4> QED BY <3>2, <4>1, <4>2, <4>3, SwitchedSwitch
    <3>3. CASE WorkerCheck(x) /\ worker'.phase = "prepared"
      <4>1. seen' = Switched(seen, x, "Prepared") BY <3>3 DEF WorkerCheck, Concluded, Goto
      <4> QED BY <1>0, <1>4, <3>3, <4>1, SwitchedSwitch
    <3>4. CASE WorkerCancelPoint(x) /\ worker'.phase = "persist"
      <4>1. seen' = seen /\ worker.phase = "prepared"
        BY <3>4 DEF WorkerCancelPoint, CancelCandidate, Concluded, Goto, On
      <4> QED BY <1>0, <1>4, <3>1, <3>4, <4>1 DEF SwitchFacts, Candidate
    <3>7. CASE WorkerPersist(x) /\ worker'.phase = "saving"
      <4>1. seen' = seen /\ worker.phase = "persist"
        BY <3>7 DEF WorkerPersist, CancelCandidate, Concluded, Goto, On
      <4> QED BY <1>0, <1>4, <3>1, <3>7, <4>1 DEF SwitchFacts, Candidate
    <3>5. CASE WorkerSave(x) /\ worker'.phase = "persisted"
      <4>1. seen' = Switched(seen, x, "Persisted")
        BY <3>5 DEF WorkerSave, CancelCandidate, Concluded, Goto
      <4> QED BY <1>0, <1>4, <3>5, <4>1, SwitchedSwitch
    <3>6. CASE WorkerCommit(x) /\ worker'.phase = "applied"
      <4>1. seen' = Switched(seen, x, "Applying") BY <3>6 DEF WorkerCommit
      <4> QED BY <1>0, <1>4, <3>6, <4>1, SwitchedSwitch
    <3> QED BY <1>4, <2>2, <3>2, <3>3, <3>4, <3>5, <3>6, <3>7, WorkerPhases DEF Candidate
  <2> QED BY <2>1, <2>2
<1> QED BY <1>1, <1>2, <1>3, <1>4 DEF SwitchFacts

\* Quit completes only with the core stopped.
LEMMA QuitStep == IInv /\ [Next]_vars => NoCoreAfterShutdown'
<1> SUFFICES ASSUME IInv, [Next]_vars PROVE NoCoreAfterShutdown'
  OBVIOUS
<1>0. NoCoreAfterShutdown /\ RequestPlaces BY DEF IInv
<1>1. ASSUME complete'
      PROVE  core'.life \in {"Offline", "Stopped"} /\ worker'.phase = "exited" /\ index' = None
  <2>1. CASE \E o \in Ops : WorkerShutdown(o)
    BY <1>1, <2>1 DEF WorkerShutdown, StopCore, Down, Clear, Hangup
  <2>2. CASE ~ \E o \in Ops : WorkerShutdown(o)
    <3>1. complete
      <4>1. ASSUME NEW o \in Ops, Work(o) PROVE UNCHANGED complete
        BY <2>2, <4>1 DEF Work, exitVars, Take, WorkerStart, WorkerStartCore, WorkerStarted,
           WorkerStop, WorkerSelect, WorkerRead, WorkerQueue, WorkerDocumentRejected,
           WorkerDocumentSaved, WorkerDocumentQueue, WorkerCheck, WorkerCancelPoint,
           WorkerPersist, WorkerSave, WorkerSavedTooLate, WorkerCommit, WorkerPublish,
           WorkerInstall, WorkerReinstall, WorkerNotReady
      <4>2. CASE \/ Sample \/ RoutingEdit \/ BeginUpdate \/ EndUpdate \/ DeleteSelected
                 \/ DeleteOther \/ UNCHANGED vars
        BY <1>1, <4>2 DEF Sample, RoutingEdit, BeginUpdate, EndUpdate, DeleteSelected, DeleteOther,
                    vars, exitVars
      <4> QED BY <1>1, <4>1, <4>2, ThreadsLeave DEF Next
    <3>2. worker.phase = "exited" /\ worker.op = None
          /\ core.life \in {"Offline", "Stopped"} /\ index = None
      BY <1>0, <3>1 DEF NoCoreAfterShutdown, RequestPlaces
    <3>3. \A o \in Ops : ~ Work(o)
      BY <3>2 DEF Work, Take, WorkerStart, WorkerStartCore, WorkerStarted, WorkerStop, WorkerShutdown,
           WorkerSelect, WorkerRead, WorkerQueue, WorkerDocumentRejected, WorkerDocumentSaved,
           WorkerDocumentQueue, WorkerCheck, WorkerCancelPoint, WorkerPersist, WorkerSave,
           WorkerSavedTooLate, WorkerCommit, WorkerPublish, WorkerInstall, WorkerReinstall,
           WorkerNotReady, On
    <3>4. UNCHANGED <<core, index>>
      <4>1. UNCHANGED core BY <3>2, <3>3, CoreFrame DEF Work, Sample
      <4>2. UNCHANGED indexVars BY <3>3, IndexFrame DEF Work
      <4> QED BY <4>1, <4>2 DEF indexVars
    <3> QED BY <3>2, <3>3, <3>4, WorkerFrame
  <2> QED BY <2>1, <2>2
<1> QED BY <1>1 DEF NoCoreAfterShutdown

-----------------------------------------------------------------------------
(* The theorems *)

\* TypeOK from its parts.
LEMMA TypeStep == IInv /\ [Next]_vars => TypeOK'
<1> SUFFICES ASSUME IInv, [Next]_vars PROVE TypeOK'
  OBVIOUS
<1>1. ClientTypes' BY ClientTypesStep
<1>2. GuardTypes' BY GuardTypesStep
<1>3. state' \in States BY StateTypeStep
<1>4. core' \in [life: CoreLives, art: Artifacts \cup {None}] BY CoreTypeStep
<1>5. seen' \in Snapshots BY SeenTypeStep
<1>6. index' \in Artifacts \cup {None} /\ readBack' \in Artifacts \cup {None} BY IndexTypeStep
<1> QED BY <1>1, <1>2, <1>3, <1>4, <1>5, <1>6 DEF TypeOK, ClientTypes, GuardTypes

\* The application starts without a core, a request or a snapshot.
LEMMA InitIInv == Init => IInv
<1> SUFFICES ASSUME Init PROVE IInv
  OBVIOUS
<1> USE DEF Init
<1>1. NoState \in States /\ NoRequest \in Requests BY StateTypes
<1>2. state \in States
  BY BoundsAssumption DEF NoState, States
<1>3. ClientTypes BY <1>1, NameTypes DEF ClientTypes
<1>4. GuardTypes BY DEF GuardTypes, Phases
<1>5. core \in [life: CoreLives, art: Artifacts \cup {None}] BY DEF Down, CoreLives
<1>6. seen \in Snapshots
  BY DEF Snapshots, SeenLives, Switches, NoSwitch, Statuses
<1>7. TypeOK BY <1>2, <1>3, <1>4, <1>5, <1>6 DEF TypeOK, ClientTypes, GuardTypes
<1>8. core.life = "Offline" BY DEF Down
<1>9. Consistent
  BY <1>7, <1>8 DEF Consistent, ObservedIsTrue, GenerationNamesConfig, RunningIsSelected
<1>10. RequestPlaces BY DEF RequestPlaces
<1>11. GuardFacts BY DEF GuardFacts, Pending, Kinds, Activations
<1>12. RequestFacts BY DEF RequestFacts, Kinds, Activations, Candidate
<1>13. CoreFacts BY <1>8 DEF CoreFacts, Candidate
<1>14. IndexFacts BY DEF IndexFacts
<1>15. SwitchFacts BY DEF SwitchFacts, NoSwitch
<1>16. NoCoreAfterShutdown BY DEF NoCoreAfterShutdown
<1> QED BY <1>9, <1>10, <1>11, <1>12, <1>13, <1>14, <1>15, <1>16 DEF IInv

\* The invariant is inductive.
LEMMA IInvStep == IInv /\ [Next]_vars => IInv'
BY TypeStep, ObservedStep, GenerationStep, PlacesStep, GuardStep, RequestStep, CoreStep,
   IndexStep, SwitchStep, QuitStep
   DEF IInv, Consistent

\* What holds of the controller and its worker in every state, whatever the commands, the
\* subscriptions and the bounds: IInv.
THEOREM Invariance == Spec => []IInv
BY InitIInv, IInvStep, PTL DEF Spec

\* The snapshot is true outside of a start and a commit, a generation names one configuration, and
\* what runs is selected.
THEOREM ConsistentHolds == Spec => []Consistent
<1>1. IInv => Consistent BY DEF IInv
<1> QED BY <1>1, Invariance, PTL

\* A hot switch is translated by the index of the artifact that runs: the generation that
\* reconcile_manual_selection compares is enough to tell artifacts apart.
THEOREM HotSwitchIsSafeHolds == Spec => []HotSwitchIsSafe
<1>1. IInv => HotSwitchIsSafe
  <2> SUFFICES ASSUME IInv, worker.phase \in {"idle", "begin"}, HotSwitchAllowed
               PROVE  index = core.art
    BY DEF HotSwitchIsSafe
  <2>1. core.life = "Ready" /\ index # None /\ index.gen = seen.applied.gen
    BY DEF HotSwitchAllowed
  <2>2. seen.applied = Tuple(core.art) BY <2>1 DEF IInv, Consistent, ObservedIsTrue
  <2>3. index.gen = core.art.gen BY <2>1, <2>2 DEF Tuple
  <2> QED BY <2>1, <2>3 DEF IInv, IndexFacts, SameConfig
<1> QED BY <1>1, Invariance, PTL

\* The process ends only with the core confirmed stopped and the worker gone.
THEOREM NoCoreAfterShutdownHolds == Spec => []NoCoreAfterShutdown
<1>1. IInv => NoCoreAfterShutdown BY DEF IInv
<1> QED BY <1>1, Invariance, PTL

\* Nobody overwrites what somebody else saved: what state.json holds only grows, and a
\* change of the selection or the structure raises the generation.
THEOREM NoLostEditHolds == Spec => NoLostEdit
<1>1. IInv /\ [Next]_vars =>
        [/\ state'.edits >= state.edits
         /\ state'.gen >= state.gen
         /\ state'.gen = state.gen => state'.sub = state.sub /\ state'.base = state.base]_vars
  BY StateGrows DEF Grown
<1> QED BY <1>1, Invariance, PTL DEF Spec, NoLostEdit

\* Quit lets at most the command go on that is past its last check: without one, no core
\* becomes Ready after it and nothing is selected, and no command but a document save, before
\* the writes are closed, gets past its check.
THEOREM QuitFreezesSelectionHolds == Spec => QuitFreezesSelection
<1>1. ASSUME IInv, [Next]_vars PROVE state'.sub \in {state.sub, None} \/ worker.phase = "saving"
  <2>0. state \in States BY <1>1 DEF IInv, Consistent, TypeOK
  <2>1. Edited(state).sub = state.sub /\ Restructured(state).sub = state.sub
    BY <2>0 DEF Edited, Restructured, Raised, States
  <2>2. ASSUME NEW o \in Ops, WorkerSave(o) PROVE worker.phase = "saving"
    BY <2>2 DEF WorkerSave, On
  <2>3. ASSUME NEW o \in Ops, WorkerDocumentSaved(o) PROVE state'.sub = state.sub
    BY <2>1, <2>3 DEF WorkerDocumentSaved, DocumentOutcomes
  <2>4. CASE RoutingEdit BY <2>1, <2>4 DEF RoutingEdit
  <2>5. CASE EndUpdate BY <2>1, <2>5 DEF EndUpdate
  <2>6. CASE DeleteSelected BY <2>6 DEF DeleteSelected, Raised
  <2>7. CASE DeleteOther BY <2>1, <2>7 DEF DeleteOther
  <2> QED BY <1>1, <2>2, <2>3, <2>4, <2>5, <2>6, <2>7, StateFrame
<1>2. ASSUME IInv, [Next]_vars, closing PROVE state'.sub = state.sub \/ worker.phase = "saving"
  <2>0. state \in States BY <1>2 DEF IInv, Consistent, TypeOK
  <2>1. Edited(state).sub = state.sub /\ Restructured(state).sub = state.sub
    BY <2>0 DEF Edited, Restructured, Raised, States
  <2>2. ASSUME NEW o \in Ops, WorkerSave(o) PROVE worker.phase = "saving"
    BY <2>2 DEF WorkerSave, On
  <2>3. ASSUME NEW o \in Ops, WorkerDocumentSaved(o) PROVE FALSE
    BY <1>2, <2>3 DEF WorkerDocumentSaved, CanWrite
  <2>4. CASE RoutingEdit BY <2>1, <2>4 DEF RoutingEdit
  <2>5. CASE EndUpdate BY <1>2, <2>5 DEF EndUpdate
  <2>6. CASE DeleteSelected \/ DeleteOther BY <1>2, <2>6 DEF DeleteSelected, DeleteOther, CanWrite
  <2> QED BY <1>2, <2>2, <2>3, <2>4, <2>5, <2>6, StateFrame
<1>3. ASSUME IInv, [Next]_vars, ~PastItsLastCheck, core'.life = "Ready" PROVE core.life = "Ready"
  <2>1. \A o \in Ops : ~ WorkerStartCore(o) /\ ~ WorkerCommit(o)
    BY <1>3 DEF WorkerStartCore, WorkerCommit, On, PastItsLastCheck
  <2> QED BY <1>3, <2>1, CoreBecomesReady
<1>4. ASSUME IInv, [Next]_vars, requested, ~PastItsLastCheck, PastItsLastCheck'
      PROVE  kind[worker.op] = "save" /\ ~closing
  <2>1. worker' # worker BY <1>4 DEF PastItsLastCheck
  <2>2. PICK o \in Ops : \/ WorkerStart(o) /\ worker'.phase = "starting"
                         \/ WorkerPersist(o) /\ worker'.phase = "saving"
                         \/ WorkerSave(o)
    BY <1>4, <2>1, WorkerPhases DEF PastItsLastCheck
  <2>3. ~ WorkerSave(o) BY <1>4 DEF WorkerSave, On, PastItsLastCheck
  <2>4. ~ (WorkerStart(o) /\ worker'.phase = "starting") BY <1>4 DEF WorkerStart, Finish
  <2>5. WorkerPersist(o) /\ worker'.phase = "saving" BY <2>2, <2>3, <2>4
  <2> QED BY <1>4, <2>5 DEF WorkerPersist, CancelCandidate, Concluded, Goto, On, Cancelled
<1>5. IInv /\ [Next]_vars =>
        [/\ requested /\ ~PastItsLastCheck =>
              /\ core'.life = "Ready" => core.life = "Ready"
              /\ state'.sub \in {state.sub, None}
              /\ PastItsLastCheck' => kind[worker.op] = "save" /\ ~closing
         /\ closing => state'.sub = state.sub \/ worker.phase = "saving"]_vars
  BY <1>1, <1>2, <1>3, <1>4 DEF PastItsLastCheck
<1> QED BY <1>5, Invariance, PTL DEF Spec, QuitFreezesSelection

\* The statuses of one switch follow each other as TASK-011 draws them: nothing is
\* cancelled after it was persisted, and a terminal status is final.
THEOREM SwitchFollowsProtocolHolds == Spec => SwitchFollowsProtocol
<1>1. ASSUME IInv, [Next]_vars, seen.switch # seen'.switch, seen.switch.op = seen'.switch.op
      PROVE  seen'.switch.status \in StatusOrder[seen.switch.status]
  <2>0. SwitchFacts /\ seen.switch \in Switches
    BY <1>1 DEF IInv, Consistent, TypeOK, Snapshots
  <2>1. seen'.switch # NoSwitch
    <3>1. ASSUME seen.switch.op = None PROVE seen.switch = NoSwitch
      BY <2>0, <3>1 DEF SwitchFacts, Switches, NoSwitch
    <3> QED BY <1>1, <3>1, SwitchOutcomes
  <2>2. PICK o \in Ops :
          /\ seen'.switch.op = o
          /\ \/ pc[o] = "new" /\ pc'[o] # "new" /\ seen'.switch.status = "Queued" /\ UNCHANGED worker
             \/ ReportApply(o) /\ seen'.switch.status \in {"Failed", "Cancelled"}
             \/ worker.op = o /\ WorkerSwitches(o)
    BY <1>1, <2>1, SwitchMoves
  <2>3. /\ pc[o] # "new"
        /\ Untouched(o) => seen.switch.status = "Queued"
        /\ worker.op = o /\ worker.phase \in Candidate => seen.switch.status = StatusAt[worker.phase]
    BY <1>1, <2>0, <2>2 DEF SwitchFacts
  <2>4. CASE ReportApply(o) /\ seen'.switch.status \in {"Failed", "Cancelled"}
    <3>1. seen.switch.status = "Queued" BY <2>3, <2>4 DEF ReportApply, Untouched
    <3> QED BY <2>4, <3>1 DEF StatusOrder
  <2>5. CASE worker.op = o /\ WorkerSwitches(o)
    <3>1. worker.phase = "begin" => seen.switch.status = "Queued" BY <2>3, <2>5 DEF Untouched
    <3> QED BY <2>3, <2>5, <3>1 DEF WorkerSwitches, StatusOrder, StatusAt, Candidate
  <2> QED BY <2>2, <2>3, <2>4, <2>5
<1>2. IInv /\ [Next]_vars =>
        [LET old == seen.switch
             new == seen'.switch
         IN old # new /\ old.op = new.op => new.status \in StatusOrder[old.status]]_vars
  BY <1>1
<1> QED BY <1>2, Invariance, PTL DEF Spec, SwitchFollowsProtocol
=============================================================================
