--------------------------- MODULE ManagedRuntime ---------------------------
(***************************************************************************)
(* ManagedObservationRuntimeController and its worker (application/        *)
(* managed_observation_runtime.rs), with the parts of SubscriptionManager, *)
(* SubscriptionScheduler and InMemoryRuntimeObservations they touch.       *)
(*                                                                         *)
(* Commands of the user interface run on threads of their own: each takes  *)
(* the runtime guard, most also the subscription write guard, reads        *)
(* state.json, hands a request with its guards to the single worker over a *)
(* queue of capacity one, and waits for the answer for a bounded time.     *)
(* The worker owns the core; routing edits and subscription updates change *)
(* state.json meanwhile, and Quit may come at any point.                   *)
(*                                                                         *)
(* The core itself is the one of ManagedCore: SidecarRuntime implements    *)
(* it.  A section under the state gate is one step (StateStore).           *)
(***************************************************************************)
EXTENDS Naturals

CONSTANTS
  Ops,          \* commands of the user interface, each issued at most once
  Subs,         \* subscriptions
  None,         \* no command, no subscription, no artifact
  MaxGen,       \* largest configuration generation, 2^53 - 1 in the code
  MaxEdits      \* bound on the edits that do not raise the generation

ASSUME NoneAssumption == None \notin Ops /\ None \notin Subs /\ "update" \notin Ops
ASSUME BoundsAssumption == MaxGen \in Nat /\ MaxEdits \in Nat

VARIABLES
  pc,           \* per command: where its thread is
  kind,         \* per command: what it is
  req,          \* per command: the state it read and the state it wants
  cancel,       \* per command: the cancel flag of an activation
  busy,         \* the runtime guard: the command that holds it
  subWrite,     \* the subscription write guard
  closing,      \* SubscriptionManager.closing
  waiting,      \* shutdown_waiting: the Quit that is under way
  requested,    \* shutdown_requested
  complete,     \* shutdown_complete
  queue,        \* the request channel, capacity one
  worker,       \* the worker's phase and command
  state,        \* what state.json holds
  core,         \* the managed core: life cycle and artifact in effect
  seen,         \* the observation snapshot
  index,        \* AppliedRoutingIndex
  readBack      \* the artifact selector_runtime_nodes was read back from

clientVars == <<pc, kind, req, cancel>>
guardVars  == <<busy, subWrite, closing, waiting>>
exitVars   == <<requested, complete>>
indexVars  == <<index, readBack>>
vars == <<clientVars, guardVars, exitVars, queue, worker, state, core, seen, indexVars>>

-----------------------------------------------------------------------------
(* Values *)

\* The structure of the configuration is named by the generation that made it.
States == [sub: Subs \cup {None}, gen: 0..MaxGen, base: 0..MaxGen, edits: 0..MaxEdits]
NoState == [sub |-> None, gen |-> 0, base |-> 0, edits |-> 0]
Requests == [old: States, new: States]

\* The next generation, of this selection and structure: a new structure, another
\* selection or none.  Any other change keeps the generation.
Raised(s, sub, base) == [sub |-> sub, gen |-> s.gen + 1, base |-> base, edits |-> s.edits]
Restructured(s) == Raised(s, s.sub, s.gen + 1)
Edited(s) == [s EXCEPT !.edits = @ + 1]

\* A generated configuration: of which subscription, generation and structure.
Artifacts == [sub: Subs, gen: 0..MaxGen, base: 0..MaxGen]
Artifact(s) == [sub |-> s.sub, gen |-> s.gen, base |-> s.base]

\* What is published of it.
Tuples == [sub: Subs, gen: 0..MaxGen]
Tuple(a) == [sub |-> a.sub, gen |-> a.gen]

Kinds == {"start", "stop", "activate", "apply", "save", "select", "read", "shutdown"}
ASSUME KindsAssumption == None \notin Kinds
Reports == [reportFailed |-> "Failed", reportCancelled |-> "Cancelled"]
PCs == {"new", "dispatch", "quitting", "quiesce", "waiting", "gone", "done"} \cup DOMAIN Reports
Phases == {"idle", "begin", "starting", "started", "checking", "prepared", "persist", "saving",
           "persisted", "applied", "failed", "ready", "exited"}

CoreLives == {"Offline", "Stopped", "Ready", "RecoveryRequired"}
SeenLives == {"NotObserved", "Stopped", "Ready", "RecoveryRequired"}
Statuses == {"none", "Queued", "Checking", "Prepared", "Persisted", "Applying", "Ready",
             "Failed", "Cancelled"}
Switches == [op: Ops \cup {None}, status: Statuses]
NoSwitch == [op |-> None, status |-> "none"]
Snapshots == [life: SeenLives, applied: Tuples \cup {None}, switch: Switches]

Activations == {"activate", "apply"}

TypeOK ==
  /\ pc \in [Ops -> PCs]
  /\ kind \in [Ops -> Kinds \cup {None}]
  /\ req \in [Ops -> Requests]
  /\ cancel \in [Ops -> BOOLEAN]
  /\ busy \in Ops \cup {None}
  /\ subWrite \in Ops \cup {"update", None}
  /\ closing \in BOOLEAN
  /\ waiting \in Ops \cup {None}
  /\ requested \in BOOLEAN
  /\ complete \in BOOLEAN
  /\ queue \in Ops \cup {None}
  /\ worker \in [phase: Phases, op: Ops \cup {None}]
  /\ state \in States
  /\ core \in [life: CoreLives, art: Artifacts \cup {None}]
  /\ seen \in Snapshots
  /\ index \in Artifacts \cup {None}
  /\ readBack \in Artifacts \cup {None}

-----------------------------------------------------------------------------
(* InMemoryRuntimeObservations: each of these is one update of the snapshot *)

\* record_subscription_switch: a command may announce itself, and then only
\* that command moves the switch on.
Switched(s, o, status) ==
  IF status = "Queued" \/ s.switch.op = o
  THEN [s EXCEPT !.switch = [op |-> o, status |-> status]] ELSE s

\* record_managed_failure with a life cycle.
FailedIn(s, life) ==
  IF life = "Ready" THEN [s EXCEPT !.life = life]
  ELSE [life |-> life, applied |-> None,
        switch |-> IF s.switch.status = "Ready" THEN NoSwitch ELSE s.switch]

\* record_managed_stopped
SeenStopped == [life |-> "Stopped", applied |-> None, switch |-> NoSwitch]

\* record_subscription_ready; o is None for Start.
SeenReady(art, o) ==
  [life |-> "Ready", applied |-> Tuple(art),
   switch |-> IF o = None THEN NoSwitch ELSE [op |-> o, status |-> "Ready"]]

-----------------------------------------------------------------------------
(* The core, as ManagedCore lets it move *)

Down(life) == [life |-> life, art |-> None]

\* start_or_replace and commit_prepared: Ready with the artifact, or not.
CommitOutcomes(art) ==
  {[life |-> "Ready", art |-> art], Down("Stopped"), Down("RecoveryRequired")}

\* prepare_replacement and cancel_prepared, failing: only an unconfirmed
\* cleanup changes what the runtime reports.
PrepareFailures == {core, Down("RecoveryRequired")}

-----------------------------------------------------------------------------
(* Guards *)

\* Dropping a request drops the guards it owns.
DropGuards(o) ==
  /\ busy' = IF busy = o THEN None ELSE busy
  /\ subWrite' = IF subWrite = o THEN None ELSE subWrite

\* begin_write_owned
CanWrite == subWrite = None /\ ~closing

\* These commands are over for their callers and, where they were queued, for
\* the worker: the requests are dropped.
NoRequest == [old |-> NoState, new |-> NoState]
Over(os) ==
  /\ pc' = [o \in Ops |-> IF o \in os THEN "done" ELSE pc[o]]
  /\ kind' = [o \in Ops |-> IF o \in os THEN None ELSE kind[o]]
  /\ req' = [o \in Ops |-> IF o \in os THEN NoRequest ELSE req[o]]
  /\ cancel' = [o \in Ops |-> IF o \in os THEN FALSE ELSE cancel[o]]

-----------------------------------------------------------------------------
(* Commands: the part that runs on the caller's thread *)

Issue(o, k, next, old, new) ==
  /\ pc[o] = "new"
  /\ pc' = [pc EXCEPT ![o] = next]
  /\ kind' = [kind EXCEPT ![o] = k]
  /\ req' = [req EXCEPT ![o] = [old |-> old, new |-> new]]
  /\ UNCHANGED cancel

\* start: both guards, and the selected configuration as it is now.
BeginStart(o) ==
  /\ ~requested /\ busy = None /\ CanWrite
  /\ state.sub # None
  /\ Issue(o, "start", "dispatch", state, state)
  /\ busy' = o /\ subWrite' = o
  /\ UNCHANGED <<closing, waiting, exitVars, queue, worker, state, core, seen, indexVars>>

\* stop: also while shutting down, but then without the write guard.
BeginStop(o) ==
  /\ busy = None
  /\ requested \/ CanWrite
  /\ Issue(o, "stop", "dispatch", NoState, NoState)
  /\ busy' = o
  /\ subWrite' = IF requested THEN subWrite ELSE o
  /\ UNCHANGED <<closing, waiting, exitVars, queue, worker, state, core, seen, indexVars>>

\* The state an activation of s wants: another selection raises the generation.
Selecting(s) ==
  IF state.sub = s THEN state ELSE Raised(state, s, state.base)

\* should_return_already_current
AlreadyCurrent(new) == seen.life = "Ready" /\ seen.applied = Tuple(new)

\* Mutant: the generation is raised without looking at its limit.
BeginActivate_UncheckedAdd(o, s, force) ==
  /\ ~requested /\ busy = None /\ CanWrite
  /\ Issue(o, "activate", "dispatch", state, Selecting(s))
  /\ busy' = o /\ subWrite' = o
  /\ UNCHANGED <<closing, waiting, exitVars, queue, worker, state, core, seen, indexVars>>

\* activate: a request with the state it was computed from, unless there is
\* nothing to do.
BeginActivate(o, s, force) ==
  /\ ~requested /\ busy = None /\ CanWrite
  /\ Selecting(s).gen <= MaxGen
  /\ ~force => ~AlreadyCurrent(Selecting(s))
  /\ Issue(o, "activate", "dispatch", state, Selecting(s))
  /\ busy' = o /\ subWrite' = o
  /\ UNCHANGED <<closing, waiting, exitVars, queue, worker, state, core, seen, indexVars>>

\* apply_proxy_routing for the generation g the caller saw.  It announces itself
\* before it is queued; an error is reported after the guards are dropped.
BeginApply(o, g) ==
  /\ ~requested /\ busy = None /\ CanWrite
  /\ state.sub # None
  /\ \/ /\ g = state.gen
        /\ Issue(o, "apply", "dispatch", state, state)
        /\ busy' = o /\ subWrite' = o
        /\ seen' = Switched(seen, o, "Queued")
     \/ /\ g # state.gen                          \* StateChanged
        /\ Issue(o, "apply", "reportCancelled", state, state)
        /\ UNCHANGED <<busy, subWrite, seen>>
     \/ /\ g = state.gen                          \* the projection or the compiler fails
        /\ Issue(o, "apply", "reportFailed", state, state)
        /\ seen' = Switched(seen, o, "Queued")
        /\ UNCHANGED <<busy, subWrite>>
  /\ UNCHANGED <<closing, waiting, exitVars, queue, worker, state, core, indexVars>>

\* The error path of a routing apply: announce it again, then its terminal status.
ReportApply(o) ==
  /\ pc[o] \in DOMAIN Reports
  /\ Over({o})
  /\ seen' = Switched(Switched(seen, o, "Queued"), o, Reports[pc[o]])
  /\ UNCHANGED <<guardVars, exitVars, queue, worker, state, core, indexVars>>

\* save_document takes the runtime guard only; the worker takes the write guard.
BeginSave(o) ==
  /\ ~requested /\ busy = None
  /\ Issue(o, "save", "dispatch", NoState, NoState)
  /\ busy' = o
  /\ UNCHANGED <<subWrite, closing, waiting, exitVars, queue, worker, state, core, seen,
                 indexVars>>

\* reconcile_manual_selection and running_configuration
BeginQuery(o, k) ==
  /\ k = "select" => ~requested
  /\ busy = None
  /\ Issue(o, k, "dispatch", NoState, NoState)
  /\ busy' = o
  /\ UNCHANGED <<subWrite, closing, waiting, exitVars, queue, worker, state, core, seen,
                 indexVars>>

\* The channel is full or closed: the caller learns it, a routing apply reports it.
Refused(o) ==
  IF kind[o] = "apply"
  THEN pc' = [pc EXCEPT ![o] = "reportCancelled"] /\ UNCHANGED <<kind, req, cancel>>
  ELSE Over({o})

\* Mutant: a request that cannot be queued keeps its guards.
Dispatch_Leaks(o) ==
  /\ pc[o] = "dispatch"
  /\ \/ /\ queue = None /\ worker.phase # "exited"
        /\ queue' = o
        /\ pc' = [pc EXCEPT ![o] = "waiting"]
        /\ UNCHANGED <<kind, req, cancel>>
     \/ /\ queue # None \/ worker.phase = "exited"
        /\ Refused(o)
        /\ UNCHANGED queue
  /\ UNCHANGED <<guardVars, exitVars, worker, state, core, seen, indexVars>>

\* try_send: queued, or Busy with the request and its guards dropped.
Dispatch(o) ==
  /\ pc[o] = "dispatch"
  /\ \/ /\ queue = None /\ worker.phase # "exited"
        /\ queue' = o
        /\ pc' = [pc EXCEPT ![o] = "waiting"]
        /\ UNCHANGED <<kind, req, cancel, guardVars>>
     \/ /\ queue # None \/ worker.phase = "exited"
        /\ Refused(o)
        /\ DropGuards(o)
        /\ waiting' = IF waiting = o THEN None ELSE waiting
        /\ UNCHANGED <<queue, closing>>
  /\ UNCHANGED <<exitVars, worker, state, core, seen, indexVars>>

\* recv_timeout: the caller leaves, the request stays with its guards.  Only an
\* activation asks to be cancelled.  save and read wait without a limit.
Timeout(o) ==
  /\ pc[o] = "waiting"
  /\ kind[o] \notin {"save", "read"}
  /\ pc' = [pc EXCEPT ![o] = "gone"]
  /\ cancel' = [cancel EXCEPT ![o] = kind[o] \in Activations]
  /\ waiting' = IF waiting = o THEN None ELSE waiting
  /\ UNCHANGED <<kind, req, busy, subWrite, closing, exitVars, queue, worker, state, core,
                 seen, indexVars>>

-----------------------------------------------------------------------------
(* Quit.  Once complete is set the tray handler exits at any time. *)

\* shutdown, refused while another Quit waits.
BeginShutdown(o) ==
  /\ ~complete
  /\ waiting = None
  /\ Issue(o, "shutdown", "quitting", NoState, NoState)
  /\ waiting' = o
  /\ requested' = TRUE
  /\ UNCHANGED <<busy, subWrite, closing, complete, queue, worker, state, core, seen, indexVars>>

\* request_closing, the next store: no write begins and no document is committed any more.
CloseWrites(o) ==
  /\ pc[o] = "quitting"
  /\ pc' = [pc EXCEPT ![o] = "quiesce"]
  /\ closing' = TRUE
  /\ UNCHANGED <<kind, req, cancel, busy, subWrite, waiting, exitVars, queue, worker, state, core,
                 seen, indexVars>>

\* SubscriptionScheduler::shutdown: no write is in flight any more, or the wait
\* has been too long and Quit fails before the worker is asked.
Quiesce(o) ==
  /\ pc[o] = "quiesce"
  /\ \/ /\ subWrite = None
        /\ pc' = [pc EXCEPT ![o] = "dispatch"]
        /\ UNCHANGED <<kind, req, cancel, waiting>>
     \/ /\ Over({o})
        /\ waiting' = None
  /\ UNCHANGED <<busy, subWrite, closing, exitVars, queue, worker, state,
                 core, seen, indexVars>>

-----------------------------------------------------------------------------
(* The worker *)

\* The command the worker is on, at phase p, of one of the kinds ks.
On(o, p, ks) == worker.phase = p /\ worker.op = o /\ kind[o] \in ks

Goto(o, p) == worker' = [phase |-> p, op |-> o]

\* The answer is sent and the request dropped.
Finish(o) ==
  /\ Over({o})
  /\ worker' = [phase |-> "idle", op |-> None]
  /\ DropGuards(o)

Take(o) ==
  /\ worker.phase = "idle"
  /\ queue = o
  /\ queue' = None
  /\ Goto(o, "begin")
  /\ UNCHANGED <<clientVars, guardVars, exitVars, state, core, seen, indexVars>>

\* A new index starts without any read-back.
Install(art) == index' = art /\ readBack' = None
Clear == index' = None /\ readBack' = None

\* The Start arm.  Quit is looked at here, and not again.
WorkerStart(o) ==
  /\ On(o, "begin", {"start"})
  /\ \/ requested /\ Finish(o)                               \* Busy
     \/ ~requested /\ Goto(o, "starting") /\ UNCHANGED <<clientVars, busy, subWrite>>
  /\ UNCHANGED <<closing, waiting, exitVars, queue, state, core, seen, indexVars>>

\* start_runtime up to the outcome of start_or_replace: the core is checked and
\* spawned, which takes seconds.
WorkerStartCore(o) ==
  /\ On(o, "starting", {"start"})
  /\ \/ /\ core.life \in {"Ready", "Offline"}               \* AlreadyRunning, no port
        /\ Finish(o)
        /\ UNCHANGED <<core, seen>>
     \/ /\ core.life = "RecoveryRequired"
        /\ seen' = FailedIn(seen, "RecoveryRequired")
        /\ Finish(o)
        /\ UNCHANGED core
     \/ /\ core.life \in {"Offline", "Stopped"}             \* it does not compile
        /\ core' = Down("Stopped")
        /\ Finish(o)
        /\ UNCHANGED seen
     \/ /\ core.life \in {"Offline", "Stopped"}
        /\ core' \in CommitOutcomes(Artifact(req[o].new))
        /\ Goto(o, "started")
        /\ UNCHANGED <<clientVars, busy, subWrite, seen>>
  /\ UNCHANGED <<closing, waiting, exitVars, queue, state, indexVars>>

\* record_subscription_ready and the index of what was started, or the failure.
WorkerStarted(o) ==
  /\ On(o, "started", {"start"})
  /\ IF core.life = "Ready"
     THEN seen' = SeenReady(core.art, None) /\ Install(Artifact(req[o].new))
     ELSE seen' = FailedIn(seen, core.life) /\ UNCHANGED indexVars
  /\ Finish(o)
  /\ UNCHANGED <<closing, waiting, exitVars, queue, state, core>>

\* stop_runtime
StopCore ==
  \/ /\ core' = Down(IF core.life = "Offline" THEN "Offline" ELSE "Stopped")
     /\ seen' = SeenStopped
     /\ Clear
  \/ /\ core.life \in {"Ready", "RecoveryRequired"}
     /\ core' = Down("RecoveryRequired")
     /\ seen' = FailedIn(seen, "RecoveryRequired")
     /\ UNCHANGED indexVars

WorkerStop(o) ==
  /\ On(o, "begin", {"stop"})
  /\ StopCore
  /\ Finish(o)
  /\ UNCHANGED <<closing, waiting, exitVars, queue, state>>

\* Mutant: the request still in the channel is forgotten.
Hangup_Unanswered(o) ==
  /\ worker' = [phase |-> "exited", op |-> None]
  /\ Over({o})
  /\ UNCHANGED <<queue, busy, subWrite>>

\* The receiver goes: a request still in the channel is dropped, its caller
\* gets an error.
Hangup(o) ==
  /\ worker' = [phase |-> "exited", op |-> None]
  /\ queue' = None
  /\ Over({o, queue})
  /\ DropGuards(queue)

\* Mutant: shutdown_complete is set whatever Stop returned.
WorkerShutdown_Unconfirmed(o) ==
  /\ On(o, "begin", {"shutdown"})
  /\ StopCore
  /\ complete' = TRUE
  /\ waiting' = IF waiting = o THEN None ELSE waiting
  /\ Hangup(o)
  /\ UNCHANGED <<closing, requested, state>>

\* The worker ends only when the core is confirmed stopped.
WorkerShutdown(o) ==
  /\ On(o, "begin", {"shutdown"})
  /\ StopCore
  /\ waiting' = IF waiting = o THEN None ELSE waiting
  /\ \/ /\ core'.life # "RecoveryRequired"
        /\ complete' = TRUE
        /\ Hangup(o)
     \/ /\ core'.life = "RecoveryRequired"
        /\ complete' = FALSE
        /\ Finish(o)
        /\ UNCHANGED queue
  /\ UNCHANGED <<closing, requested, state>>

\* Mutant: the index is used without comparing its generation.
HotSwitchAllowed_Unchecked ==
  core.life = "Ready" /\ seen.life = "Ready" /\ index # None

\* reconcile_manual_selection: the index must be the one of the applied generation.
HotSwitchAllowed ==
  /\ core.life = "Ready" /\ seen.life = "Ready"
  /\ index # None /\ seen.applied # None /\ index.gen = seen.applied.gen

\* PUT, then GET: the node is read back from the running core, or it is unknown.
\* Nothing is sent when the pool is not in the index.
WorkerSelect(o) ==
  /\ On(o, "begin", {"select"})
  /\ readBack' \in IF HotSwitchAllowed THEN {core.art, None, readBack} ELSE {readBack}
  /\ Finish(o)
  /\ UNCHANGED <<closing, waiting, exitVars, queue, state, core, seen, index>>

WorkerRead(o) ==
  /\ On(o, "begin", {"read"})
  /\ Finish(o)
  /\ UNCHANGED <<closing, waiting, exitVars, queue, state, core, seen,
                 indexVars>>

-----------------------------------------------------------------------------
(* The worker: activation and document save *)

\* The Activate arm before apply_activation: a first core needs a port.
WorkerQueue(o) ==
  /\ On(o, "begin", Activations)
  /\ \/ /\ core' = IF core.life = "Offline" THEN Down("Stopped") ELSE core
        /\ seen' = Switched(Switched(seen, o, "Queued"), o, "Checking")
        /\ Goto(o, "checking")
        /\ UNCHANGED <<clientVars, busy, subWrite>>
     \/ /\ core.life = "Offline"
        /\ seen' = Switched(Switched(seen, o, "Queued"), o, "Failed")
        /\ Finish(o)
        /\ UNCHANGED core
  /\ UNCHANGED <<closing, waiting, exitVars, queue, state, indexVars>>

\* What a document save wants of the state: nothing new, an edit of another
\* subscription, or a new structure of the selected one.
DocumentOutcomes ==
  {state}
    \cup (IF state.edits < MaxEdits THEN {Edited(state)} ELSE {})
    \cup (IF state.gen < MaxGen /\ state.sub # None
          THEN {Restructured(state)} ELSE {})

\* actual_selected_ready for the selected subscription
SelectedReady == core.life = "Ready" /\ AlreadyCurrent(state)

\* The result is not Ready: the index goes if nothing runs.
IndexWhenNotReady == IF core.life = "Stopped" THEN Clear ELSE UNCHANGED indexVars

\* The SaveDocument arm up to the check: rejected, or the write guard is taken.
WorkerDocumentRejected(o) ==
  /\ On(o, "begin", {"save"})
  /\ IndexWhenNotReady
  /\ Finish(o)
  /\ UNCHANGED <<closing, waiting, exitVars, queue, state, core, seen>>

\* NotRequired: a save that need not be applied is committed at once.
WorkerDocumentSaved(o) ==
  /\ On(o, "begin", {"save"})
  /\ CanWrite
  /\ state' \in {new \in DocumentOutcomes : new.gen = state.gen}
  /\ IndexWhenNotReady
  /\ Finish(o)
  /\ UNCHANGED <<closing, waiting, exitVars, queue, core, seen>>

\* The selected subscription has to be applied.  The switch fails at once when
\* the state does not project, the configuration does not compile or there is
\* no port.
WorkerDocumentQueue(o) ==
  /\ On(o, "begin", {"save"})
  /\ CanWrite
  /\ state.sub # None
  /\ \/ /\ \E new \in DocumentOutcomes :
             /\ new.gen = state.gen => ~SelectedReady
             /\ req' = [req EXCEPT ![o] = [old |-> state, new |-> new]]
        /\ core' = IF core.life = "Offline" THEN Down("Stopped") ELSE core
        /\ seen' = Switched(Switched(seen, o, "Queued"), o, "Checking")
        /\ subWrite' = o
        /\ Goto(o, "checking")
        /\ UNCHANGED <<pc, kind, cancel, busy, indexVars>>
     \/ /\ seen' = Switched(Switched(seen, o, "Queued"), o, "Failed")
        /\ IndexWhenNotReady
        /\ Finish(o)
        /\ UNCHANGED core
  /\ UNCHANGED <<closing, waiting, exitVars, queue, state>>

\* apply_activation and apply_document_save are over, with this result: the
\* activation drops its guards, the document save only the write guard.
Concluded(o, result) ==
  /\ Goto(o, result)
  /\ busy' = IF busy = o /\ kind[o] \in Activations THEN None ELSE busy
  /\ subWrite' = IF subWrite = o THEN None ELSE subWrite

\* prepare_replacement
WorkerCheck(o) ==
  /\ On(o, "checking", Activations \cup {"save"})
  /\ \/ /\ core.life # "RecoveryRequired"
        /\ seen' = Switched(seen, o, "Prepared")
        /\ Goto(o, "prepared")
        /\ UNCHANGED <<core, busy, subWrite>>
     \/ /\ core' \in PrepareFailures
        /\ seen' = Switched(IF kind[o] = "save" /\ core'.life # "RecoveryRequired"
                            THEN seen ELSE FailedIn(seen, core'.life), o, "Failed")
        /\ Concluded(o, "failed")
  /\ UNCHANGED <<clientVars, closing, waiting, exitVars, queue, state, indexVars>>

\* cancel_prepared, then the given terminal status; Failed if it cannot clean up.
CancelCandidate(o, status) ==
  /\ \/ seen' = Switched(seen, o, status) /\ UNCHANGED core
     \/ /\ core' = Down("RecoveryRequired")
        /\ seen' = Switched(FailedIn(seen, "RecoveryRequired"), o, "Failed")
  /\ Concluded(o, "failed")

\* The end asked for by the caller that left, by Quit, or by the deadline.
Cancelled(o) == requested \/ cancel[o]

\* The candidate is checked and nothing is saved yet: the last free way out.
WorkerCancelPoint(o) ==
  /\ On(o, "prepared", Activations \cup {"save"})
  /\ \/ /\ Cancelled(o) \/ kind[o] = "save"
        /\ CancelCandidate(o, IF kind[o] = "save" THEN "Failed" ELSE "Cancelled")
     \/ /\ ~Cancelled(o)
        /\ Goto(o, "persist")
        /\ UNCHANGED <<core, seen, busy, subWrite>>
  /\ UNCHANGED <<clientVars, closing, waiting, exitVars, queue, state, indexVars>>

\* Mutant: the state is saved without comparing it with the one that was read.
WorkerPersist_Blind(o) ==
  /\ On(o, "persist", Activations \cup {"save"})
  /\ Goto(o, "saving")
  /\ UNCHANGED <<clientVars, guardVars, exitVars, queue, state, core, seen, indexVars>>

\* Mutant: nobody looks at the cancel flags again under the gate.
WorkerPersist_LateQuit(o) ==
  /\ On(o, "persist", Activations \cup {"save"})
  /\ state = req[o].old
  /\ Goto(o, "saving")
  /\ UNCHANGED <<clientVars, guardVars, exitVars, queue, state, core, seen, indexVars>>

\* The section under the state gate, up to the save.  Refused when the gate is taken,
\* the state has changed, or the end has been asked for meanwhile.
WorkerPersist(o) ==
  /\ On(o, "persist", Activations \cup {"save"})
  /\ \/ /\ state = req[o].old
        /\ IF kind[o] = "save" THEN ~closing ELSE ~Cancelled(o)
        /\ Goto(o, "saving")
        /\ UNCHANGED <<core, seen, busy, subWrite>>
     \/ /\ state = req[o].old /\ kind[o] # "save" /\ Cancelled(o)
        /\ CancelCandidate(o, "Cancelled")
     \/ CancelCandidate(o, "Failed")
  /\ UNCHANGED <<clientVars, closing, waiting, exitVars, queue, state, indexVars>>

\* Mutant: the worker goes on when the save has failed.
WorkerSave_Unsaved(o) ==
  /\ On(o, "saving", Activations \cup {"save"})
  /\ state' \in {req[o].new, state}
  /\ seen' = Switched(seen, o, "Persisted")
  /\ Goto(o, "persisted")
  /\ UNCHANGED <<clientVars, guardVars, exitVars, queue, core, indexVars>>

\* The save, still under the gate, or its failure.  An activation that changes nothing
\* writes nothing.
WorkerSave(o) ==
  /\ On(o, "saving", Activations \cup {"save"})
  /\ \/ /\ state' = req[o].new
        /\ seen' = Switched(seen, o, "Persisted")
        /\ Goto(o, "persisted")
        /\ UNCHANGED <<core, busy, subWrite>>
     \/ /\ kind[o] = "save" \/ req[o].new # req[o].old
        /\ CancelCandidate(o, "Failed")
        /\ UNCHANGED state
  /\ UNCHANGED <<clientVars, closing, waiting, exitVars, queue, indexVars>>

\* Mutant: the deadline after the save is reported as a cancellation.
WorkerSavedTooLate_Cancelled(o) ==
  /\ On(o, "persisted", {"save"})
  /\ CancelCandidate(o, "Cancelled")
  /\ UNCHANGED <<clientVars, closing, waiting, exitVars, queue, state, indexVars>>

\* The deadline of a document save passes between the save and the apply.
WorkerSavedTooLate(o) ==
  /\ On(o, "persisted", {"save"})
  /\ CancelCandidate(o, "Failed")
  /\ UNCHANGED <<clientVars, closing, waiting, exitVars, queue, state, indexVars>>

\* commit_prepared: past the save an activation is not cancelled any more.  The
\* snapshot shows the old instance until the outcome is published.
WorkerCommit(o) ==
  /\ On(o, "persisted", Activations \cup {"save"})
  /\ core' \in CommitOutcomes(Artifact(req[o].new))
  /\ seen' = Switched(seen, o, "Applying")
  /\ Goto(o, "applied")
  /\ UNCHANGED <<clientVars, guardVars, exitVars, queue, state, indexVars>>

\* Mutant: a failed commit publishes only the error.
WorkerPublish_StatusOnly(o) ==
  /\ On(o, "applied", Activations \cup {"save"})
  /\ \/ /\ core.life = "Ready"
        /\ seen' = SeenReady(core.art, o)
        /\ Concluded(o, "ready")
     \/ /\ core.life # "Ready"
        /\ seen' = Switched(seen, o, "Failed")
        /\ Concluded(o, "failed")
  /\ UNCHANGED <<clientVars, closing, waiting, exitVars, queue, state, core, indexVars>>

\* record_subscription_ready, or activation_runtime_failure.
WorkerPublish(o) ==
  /\ On(o, "applied", Activations \cup {"save"})
  /\ \/ /\ core.life = "Ready"
        /\ seen' = SeenReady(core.art, o)
        /\ Concluded(o, "ready")
     \/ /\ core.life # "Ready"
        /\ seen' = Switched(FailedIn(seen, core.life), o, "Failed")
        /\ Concluded(o, "failed")
  /\ UNCHANGED <<clientVars, closing, waiting, exitVars, queue, state, core, indexVars>>

\* The end of both arms.  The activation installs the index of what it applied.
WorkerInstall(o) ==
  /\ On(o, "ready", Activations)
  /\ Install(Artifact(req[o].new))
  /\ Finish(o)
  /\ UNCHANGED <<closing, waiting, exitVars, queue, state, core, seen>>

\* The document save reads state.json again for it, if the gate is free and the
\* state still projects.
WorkerReinstall(o) ==
  /\ On(o, "ready", {"save"})
  /\ \/ state.sub # None /\ Install(Artifact(state))
     \/ UNCHANGED indexVars
  /\ Finish(o)
  /\ UNCHANGED <<closing, waiting, exitVars, queue, state, core, seen>>

WorkerNotReady(o) ==
  /\ On(o, "failed", Activations \cup {"save"})
  /\ IndexWhenNotReady
  /\ Finish(o)
  /\ UNCHANGED <<closing, waiting, exitVars, queue, state, core, seen>>

\* sample_runtime, when no request has come: a sample, or the end of the core.
Sample ==
  /\ worker.phase = "idle" /\ queue = None
  /\ core.life = "Ready"
  /\ \/ seen' = [seen EXCEPT !.life = "Ready"] /\ UNCHANGED core
     \/ /\ core' \in {Down("Stopped"), Down("RecoveryRequired")}
        /\ seen' = FailedIn(seen, core'.life)
  /\ UNCHANGED <<clientVars, guardVars, exitVars, queue, worker, state, indexVars>>

-----------------------------------------------------------------------------
(* The other writers of state.json *)

\* The worker holds the gate from the comparison to the end of the save.  (Every other
\* section under the gate is one step.)
GateFree == worker.phase # "saving"

\* ProxyRouting::mutate takes the state gate only, at any time.
RoutingEdit ==
  /\ GateFree
  /\ \/ state.gen < MaxGen /\ state' = Restructured(state)
     \/ state.edits < MaxEdits /\ state' = Edited(state)     \* SetManualSelection
  /\ UNCHANGED <<clientVars, guardVars, exitVars, queue, worker, core, seen, indexVars>>

\* A subscription is updated, edited or imported: the write guard is held while
\* the document is fetched.
BeginUpdate ==
  /\ CanWrite
  /\ subWrite' = "update"
  /\ UNCHANGED <<clientVars, busy, closing, waiting, exitVars, queue, worker, state, core, seen,
                 indexVars>>

\* The commit, refused once the manager is closing; or any failure before it.
EndUpdate ==
  /\ subWrite = "update"
  /\ subWrite' = None
  /\ \/ /\ GateFree /\ ~closing
        /\ \/ state.sub # None /\ state.gen < MaxGen /\ state' = Restructured(state)
           \/ state.edits < MaxEdits /\ state' = Edited(state)
     \/ UNCHANGED state
  /\ UNCHANGED <<clientVars, busy, closing, waiting, exitVars, queue, worker, core, seen,
                 indexVars>>

\* Mutant: the caller's view of the runtime is not asked for.
DeleteSelected_Running ==
  /\ busy = None /\ CanWrite
  /\ state.sub # None
  /\ state.gen < MaxGen
  /\ state' = Raised(state, None, state.gen + 1)
  /\ UNCHANGED <<clientVars, guardVars, exitVars, queue, worker, core, seen, indexVars>>

\* delete_subscription of the selected one, under the runtime guard and only
\* when the snapshot says Stopped.  (Another one is an edit.)
DeleteSelected ==
  /\ busy = None /\ CanWrite /\ GateFree
  /\ state.sub # None
  /\ seen.life = "Stopped"
  /\ state.gen < MaxGen
  /\ state' = Raised(state, None, state.gen + 1)
  /\ UNCHANGED <<clientVars, guardVars, exitVars, queue, worker, core, seen, indexVars>>

DeleteOther ==
  /\ busy = None /\ CanWrite /\ GateFree
  /\ state.edits < MaxEdits
  /\ state' = Edited(state)
  /\ UNCHANGED <<clientVars, guardVars, exitVars, queue, worker, core, seen, indexVars>>

-----------------------------------------------------------------------------
(* The specification *)

Init ==
  /\ pc = [o \in Ops |-> "new"]
  /\ kind = [o \in Ops |-> None]
  /\ req = [o \in Ops |-> NoRequest]
  /\ cancel = [o \in Ops |-> FALSE]
  /\ busy = None /\ subWrite = None /\ closing = FALSE /\ waiting = None
  /\ requested = FALSE /\ complete = FALSE
  /\ queue = None
  /\ worker = [phase |-> "idle", op |-> None]
  /\ state \in {[NoState EXCEPT !.sub = s] : s \in Subs \cup {None}}
  /\ core = Down("Offline")
  /\ seen = [life |-> "NotObserved", applied |-> None, switch |-> NoSwitch]
  /\ index = None
  /\ readBack = None

Client(o) == Dispatch(o) \/ ReportApply(o) \/ CloseWrites(o) \/ Quiesce(o)

Command(o) ==
  \/ BeginStart(o)
  \/ BeginStop(o)
  \/ \E s \in Subs, force \in BOOLEAN : BeginActivate(o, s, force)
  \/ \E g \in 0..state.gen : BeginApply(o, g)
  \/ BeginSave(o)
  \/ BeginQuery(o, "select")
  \/ BeginQuery(o, "read")
  \/ BeginShutdown(o)

Work(o) ==
  \/ Take(o)
  \/ WorkerStart(o) \/ WorkerStartCore(o) \/ WorkerStarted(o)
  \/ WorkerStop(o) \/ WorkerShutdown(o)
  \/ WorkerSelect(o) \/ WorkerRead(o)
  \/ WorkerQueue(o)
  \/ WorkerDocumentRejected(o) \/ WorkerDocumentSaved(o) \/ WorkerDocumentQueue(o)
  \/ WorkerCheck(o) \/ WorkerCancelPoint(o) \/ WorkerPersist(o) \/ WorkerSave(o)
  \/ WorkerSavedTooLate(o) \/ WorkerCommit(o) \/ WorkerPublish(o)
  \/ WorkerInstall(o) \/ WorkerReinstall(o) \/ WorkerNotReady(o)

Next ==
  \/ \E o \in Ops : Command(o) \/ Client(o) \/ Timeout(o) \/ Work(o)
  \/ Sample
  \/ RoutingEdit
  \/ BeginUpdate \/ EndUpdate
  \/ DeleteSelected \/ DeleteOther

Spec == Init /\ [][Next]_vars

\* The worker and the calling threads are scheduled, and a fetch is bounded by
\* its timeout.  Nobody has to issue a command, to quit or to edit.
FairSpec ==
  /\ Spec
  /\ WF_vars(\E o \in Ops : Work(o))
  /\ \A o \in Ops : WF_vars(Client(o))
  /\ WF_vars(EndUpdate)

-----------------------------------------------------------------------------
(* Properties *)

\* Outside of a start and of a commit, the snapshot tells the truth about the core: Ready with
\* the tuple of the artifact that runs, RecoveryRequired, or neither.
ObservedIsTrue ==
  worker.phase \notin {"started", "applied"} =>
    /\ seen.life = "Ready" <=> core.life = "Ready"
    /\ seen.life = "RecoveryRequired" <=> core.life = "RecoveryRequired"
    /\ seen.applied = IF core.life = "Ready" THEN Tuple(core.art) ELSE None

\* A generation names one configuration: what runs under the generation that
\* state.json holds is what state.json holds, so "already current" and "dirty"
\* can be decided by comparing generations (should_return_already_current).  The
\* writers of this model are the ones that raise the generation; ProxyRouting
\* has the one that does not, an update of a subscription that is not selected.
GenerationNamesConfig ==
  core.life = "Ready" =>
    /\ core.art.gen <= state.gen
    /\ core.art.gen = state.gen => core.art = Artifact(state)

\* What runs was selected, and is not deleted under it.
RunningIsSelected == core.life = "Ready" => state.sub # None

\* What the application believes of the core and what it has stored agree with the
\* core: the snapshot is true, the generation names what runs, and that is selected.
Consistent == TypeOK /\ ObservedIsTrue /\ GenerationNamesConfig /\ RunningIsSelected

\* A hot switch is translated by the index of the artifact that runs, though
\* the index may be another one (reconcile_manual_selection).
HotSwitchIsSafe ==
  worker.phase \in {"idle", "begin"} /\ HotSwitchAllowed => index = core.art

\* Quit ends the process only with the core confirmed stopped, the worker gone
\* and nothing that could start it again.
NoCoreAfterShutdown ==
  complete => core.life \in {"Offline", "Stopped"} /\ worker.phase = "exited" /\ index = None

\* No worker overwrites what somebody else saved while it was checking a
\* candidate; and whoever changes the selection or the structure raises the
\* generation.
NoLostEdit ==
  [][/\ state'.edits >= state.edits
     /\ state'.gen >= state.gen
     /\ state'.gen = state.gen => state'.sub = state.sub /\ state'.base = state.base]_vars

\* Quit may find one command past its last check of the flags: a start under way, or a
\* candidate that is being saved or has been.
PastItsLastCheck == worker.phase \in {"starting", "saving", "persisted"}

\* Quit does not stop that command, which may still select its subscription and
\* make its core Ready, and it is the last one: without one no core becomes Ready and the
\* selection can only be deleted, and no other gets past its check, except for a document
\* save before the writes are closed.  Once they are, nothing but that save changes the selection.
QuitFreezesSelection ==
  [][/\ requested /\ ~PastItsLastCheck =>
          /\ core'.life = "Ready" => core.life = "Ready"
          /\ state'.sub \in {state.sub, None}
          /\ PastItsLastCheck' => kind[worker.op] = "save" /\ ~closing
     /\ closing => state'.sub = state.sub \/ worker.phase = "saving"]_vars

\* The order of the statuses of one switch, as TASK-011 draws it.  Nothing is
\* cancelled after it was persisted, and a terminal status is final.
StatusOrder ==
  [Queued |-> {"Checking", "Failed", "Cancelled"}, Checking |-> {"Prepared", "Failed"},
   Prepared |-> {"Persisted", "Cancelled", "Failed"}, Persisted |-> {"Applying", "Failed"},
   Applying |-> {"Ready", "Failed"}, Ready |-> {}, Failed |-> {}, Cancelled |-> {}]

SwitchFollowsProtocol ==
  [][LET old == seen.switch
         new == seen'.switch
     IN old # new /\ old.op = new.op => new.status \in StatusOrder[old.status]]_vars

\* Whoever takes the runtime guard or the write guard gives it back, even when
\* the caller has left or the request was never queued.
GuardsAreReleased ==
  /\ \A o \in Ops : busy = o ~> busy # o
  /\ \A w \in Ops \cup {"update"} : subWrite = w ~> subWrite # w

\* save_document and running_configuration wait without a limit: the worker
\* answers them, or ends and drops the request.
WaitingEnds == \A o \in Ops : pc[o] = "waiting" ~> pc[o] # "waiting"

\* Nobody is kept waiting, by a guard or for an answer, even when the worker ends with
\* a request in its channel.
NobodyWaitsForever == GuardsAreReleased /\ WaitingEnds

-----------------------------------------------------------------------------
(* The inductive invariant *)

\* A request is in one place: with its thread, in the channel or with the worker.
RequestPlaces ==
  /\ worker.phase \in {"idle", "exited"} <=> worker.op = None
  /\ queue # None => queue # worker.op /\ pc[queue] \in {"waiting", "gone"}
  /\ worker.op # None => pc[worker.op] \in {"waiting", "gone"}
  /\ worker.phase \in {"starting", "started"} => kind[worker.op] = "start"
  /\ worker.op # None /\ worker.phase \notin {"begin", "starting", "started"} =>
       kind[worker.op] \in Activations \cup {"save"}
  /\ \A o \in Ops : pc[o] \in {"quitting", "quiesce"} => kind[o] = "shutdown"

\* The phases of a request in which its guards are held, and those with a candidate.
Candidate == {"checking", "prepared", "persist", "saving", "persisted", "applied"}
Pending(o) ==
  \/ pc[o] = "dispatch"
  \/ queue = o
  \/ worker.op = o /\ worker.phase \in Candidate \cup {"begin", "starting", "started"}

\* The runtime guard stays with the request until its outcome is published.
GuardFacts ==
  \A o \in Ops :
    kind[o] \in Activations \cup {"start", "save"} /\ Pending(o) => busy = o

\* What is wanted grew out of what was read, and is the configuration of a subscription.
Grown(old, new) ==
  /\ new.edits >= old.edits
  /\ new.gen >= old.gen
  /\ new.gen = old.gen => new.sub = old.sub /\ new.base = old.base
Sound(r) == r.new.sub # None /\ Grown(r.old, r.new)

\* An artifact is of a generation that state.json has had, and of the current one only
\* if it is what state.json holds.
Known(a) == a.gen <= state.gen /\ (a.gen = state.gen => a = Artifact(state))

RequestFacts ==
  /\ \A o \in Ops : kind[o] \in Activations \cup {"start"} => Sound(req[o])
  /\ \A o \in Ops : kind[o] = "start" /\ Pending(o) =>
       state.sub # None /\ Known(Artifact(req[o].new))
  /\ worker.phase \in Candidate => Sound(req[worker.op])
  /\ worker.phase = "saving" => state = req[worker.op].old
  /\ worker.phase \in {"persisted", "applied"} =>
       state.sub # None /\ Known(Artifact(req[worker.op].new))

\* Two artifacts of one generation are the same.
SameConfig(a, b) == a.gen = b.gen => a = b

CoreFacts ==
  /\ core.life = "Ready" => core.art \in Artifacts
  /\ worker.phase \in Candidate => core.life # "Offline"
  /\ worker.phase = "started" => core.life # "Offline"
  /\ worker.phase \in {"started", "applied"} /\ core.life = "Ready" =>
       core.art = Artifact(req[worker.op].new)
  /\ worker.phase = "ready" /\ kind[worker.op] \in Activations =>
       core.life = "Ready" /\ core.art = Artifact(req[worker.op].new)

IndexFacts ==
  index # None =>
    /\ Known(index)
    /\ core.life = "Ready" /\ worker.phase # "started" => SameConfig(index, core.art)
    /\ worker.phase = "persisted" =>
         /\ index.gen <= req[worker.op].new.gen
         /\ SameConfig(index, Artifact(req[worker.op].new))

\* The worker has not begun with the command; afterwards its phase tells the status.
Untouched(o) ==
  \/ pc[o] \in {"dispatch", "quitting", "quiesce"} \cup DOMAIN Reports
  \/ queue = o
  \/ worker.op = o /\ worker.phase = "begin"
StatusAt ==
  [checking |-> "Checking", prepared |-> "Prepared", persist |-> "Prepared",
   saving |-> "Prepared", persisted |-> "Persisted", applied |-> "Applying"]

SwitchFacts ==
  /\ seen.switch.op = None => seen.switch.status = "none"
  /\ \A o \in Ops : seen.switch.op = o =>
       /\ pc[o] # "new"
       /\ Untouched(o) => seen.switch.status = "Queued"
       /\ worker.op = o /\ worker.phase \in Candidate => seen.switch.status = StatusAt[worker.phase]

IInv ==
  /\ Consistent
  /\ RequestPlaces
  /\ GuardFacts
  /\ RequestFacts
  /\ CoreFacts
  /\ IndexFacts
  /\ SwitchFacts
  /\ NoCoreAfterShutdown
=============================================================================
