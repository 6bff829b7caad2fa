--------------------------- MODULE ObservationFeed ---------------------------
(***************************************************************************)
(* What the core is doing, on its way to the page: the worker samples the  *)
(* core over its Clash API and records what it does, IPC threads record    *)
(* too, each record is one update of the snapshot under its lock, and the  *)
(* delta is sent after the lock is released.  The sink drops deltas while  *)
(* the window is hidden; the page takes deltas, a first snapshot and one   *)
(* snapshot after each of its own actions, and keeps the newest.           *)
(*                                                                         *)
(* The page of src/App.tsx and src/lib/observability.ts is part of the     *)
(* model: an event holds what the page reads out of the payload.           *)
(***************************************************************************)
EXTENDS Integers, Sequences, FiniteSets, SequencesExt, ClashApi

CONSTANTS
  Ops,          \* ids of the switch operations
  Window,       \* TRAFFIC_HISTORY_WINDOW_MS
  Capacity,     \* TRAFFIC_HISTORY_CAPACITY
  MaxRevision, MaxClock, MaxActions, MaxRestores, MaxChannel   \* bounds

ASSUME BoundsAssumption ==
  /\ {Window, Capacity, MaxRevision, MaxActions, MaxRestores, MaxChannel} \subseteq Nat
  /\ MaxClock \in Nat \ {0}

\* A switch is told from whoever else may hold the guards.
ASSUME NamesAssumption == Ops \cap {"free", "worker", "command"} = {}

VARIABLES
  snap,       \* RuntimeObservationSnapshot
  now,        \* the monotonic clock
  core,       \* the worker's runtime: its lifecycle, and a number for each child
  work,       \* what the worker is in the middle of
  guard,      \* who holds the operation guards
  sending,    \* thread -> the delta it has still to send
  window,     \* the main window: visible, and a restore that has to send
  channel,    \* events on their way to the page
  command,    \* the page's start or stop: none, start, stop, answered
  page

feed == <<snap, now, sending>>
worker == <<core, work, guard>>
desk == <<window, channel>>
vars == <<snap, now, core, work, guard, sending, window, channel, command, page>>

None == {}
Some(x) == {x}
The(s) == CHOOSE x \in s : TRUE
Threads == {"worker", "ipc"}

-----------------------------------------------------------------------------
(* The payload, and what the page reads out of it.  Whoever reads the      *)
(* snapshot refreshes its observed_at_ms first: it is always now.          *)

observed_at_ms == now

NewMock == [rev |-> 0, history |-> <<>>, source |-> "MockOnly", capture |-> "NotObserved",
            lifecycle |-> "NotObserved", id |-> None, gen |-> None, switch |-> None, traffic |-> None]

map_source(s) == IF s = "MockOnly" THEN "mock" ELSE "runtime"
map_capture_mode(m) == CASE m \in {"NotObserved", "Off"} -> "off" [] m = "SystemProxy" -> "systemProxy"
                         [] m = "RecoveryRequired" -> "recoveryRequired"
map_sidecar_lifecycle(l) == CASE l = "NotObserved" -> "notAttached" [] l = "Stopped" -> "stopped"
                              [] l = "Ready" -> "ready" [] l = "RecoveryRequired" -> "recoveryRequired"
Response(s) ==
  [rev |-> s.rev, at |-> observed_at_ms, history |-> [i \in DOMAIN s.history |-> s.history[i].at],
   source |-> map_source(s.source), capture |-> map_capture_mode(s.capture),
   lifecycle |-> map_sidecar_lifecycle(s.lifecycle), id |-> s.id, gen |-> s.gen, switch |-> s.switch]

isSubscriptionSwitch(w) ==
  CASE w.status = "failed" -> w.error \notin {"none", "cancelled"}
    [] w.status = "cancelled" -> w.error = "cancelled"
    [] OTHER -> w.error = "none"

Readable(r) ==
  /\ r.source \in {"mock", "runtime"} /\ r.capture \in {"off", "systemProxy", "recoveryRequired"}
  /\ r.lifecycle \in {"notAttached", "stopped", "ready", "recoveryRequired"}
  /\ Len(r.history) <= Capacity
  /\ (r.id = None) = (r.gen = None)
  /\ \A w \in r.switch : /\ isSubscriptionSwitch(w)
                         /\ w.status = "ready" => r.lifecycle = "ready" /\ r.id # None
  /\ \A i \in DOMAIN r.history : /\ r.history[i] <= r.at /\ r.at - r.history[i] <= Window
                                 /\ i > 1 => r.history[i] > r.history[i - 1]

parseRuntimeObservation(r) ==
  IF Readable(r) THEN Some([rev |-> r.rev, at |-> r.at]) ELSE None

(* An event: the revision it was made at, and what the page reads.         *)
Event(s) == [rev |-> s.rev, read |-> parseRuntimeObservation(Response(s))]

-----------------------------------------------------------------------------
(* The snapshot under its lock.                                            *)

\* The points are in the order of their times, so those that retain keeps are the ones
\* from the first recent one on.
Recent(history, oldest) ==
  CHOOSE k \in 1..(Len(history) + 1) :
    \A i \in DOMAIN history : history[i].at >= oldest <=> i >= k
Newest(history, from) ==
  LET excess == Len(history) - from + 1 - Capacity
  IN SubSeq(history, IF excess > 0 THEN from + excess ELSE from, Len(history))

\* Mutant: the window is one wider than the page's.
prune_traffic_history_Wider(s) ==
  [s EXCEPT !.history = Newest(@, Recent(@, observed_at_ms - Window - 1))]

prune_traffic_history(s) ==
  [s EXCEPT !.history = Newest(@, Recent(@, observed_at_ms - Window))]

snapshot == prune_traffic_history(snap)

(* update: thread t changes the snapshot, and holds the delta when it      *)
(* leaves.                                                                 *)
update(t, changed) ==
  /\ sending[t] = None /\ snap.rev < MaxRevision
  /\ \E s \in {prune_traffic_history(changed)} :
       /\ snap' = [s EXCEPT !.rev = @ + 1]
       /\ sending' = [sending EXCEPT ![t] = Some(Event(snap'))]

Managed(s, lifecycle) == [s EXCEPT !.source = "ManagedSidecar", !.lifecycle = lifecycle]
\* Mutant: the last rates go, the chart stays.
Cleared_KeepsHistory(s) == [s EXCEPT !.traffic = None]

Cleared(s) == [s EXCEPT !.traffic = None, !.history = <<>>]

record_subscription_ready(s, id, op) ==
  [Cleared(Managed(s, "Ready")) EXCEPT !.capture = "Off", !.id = Some(id), !.gen = Some(id),
     !.switch = {[op |-> o, status |-> "ready", error |-> "none"] : o \in op}]

record_managed_stopped(s) ==
  [Cleared(Managed(s, "Stopped")) EXCEPT !.capture = "Off", !.id = None, !.gen = None, !.switch = None]

(* An IPC thread names no lifecycle and only leaves a log line.            *)
record_managed_failure(s, lifecycle) ==
  LET down(t) == [Cleared(t) EXCEPT !.id = None, !.gen = None,
                                    !.switch = {w \in @ : w.status # "ready"}]
      of(l) == LET t == [Managed(s, l) EXCEPT !.capture = "Off"] IN IF l = "Ready" THEN t ELSE down(t)
  IN IF lifecycle = None THEN s ELSE of(The(lifecycle))

record_subscription_switch(s, w) ==
  IF w.status = "queued" \/ \E c \in s.switch : c.op = w.op THEN [s EXCEPT !.switch = Some(w)] ELSE s

Point(child) == [at |-> now, child |-> child]
apply_managed_observation(s, observation) ==
  LET m == Managed(s, "Ready")
      same == m.history # <<>> /\ Last(m.history).at = now
      past == IF same THEN Front(m.history) ELSE m.history
  IN IF observation.traffic = None THEN m
     ELSE [m EXCEPT !.traffic = observation.traffic,
                    !.history = Append(past, Point(The(observation.traffic)))]

-----------------------------------------------------------------------------
(* The sink, and the window.                                               *)

Emitted(event) == Len(channel) < MaxChannel /\ channel' = Append(channel, event)

SendDelta(t) ==
  /\ sending[t] # None
  /\ sending' = [sending EXCEPT ![t] = None]
  /\ IF window.visible THEN Emitted(The(sending[t])) ELSE UNCHANGED channel
  /\ UNCHANGED <<snap, now, window, worker, command, page>>

(* Closing the window hides it.  The window's own thread does this and the *)
(* restore, one after the other.                                           *)
CloseRequested ==
  /\ window.visible /\ ~window.restoring
  /\ window' = [window EXCEPT !.visible = FALSE]
  /\ UNCHANGED <<feed, worker, channel, command, page>>

ShowWindow ==
  /\ ~window.restoring /\ window.restores < MaxRestores
  /\ window' = [visible |-> TRUE, restoring |-> TRUE, restores |-> window.restores + 1]
  /\ UNCHANGED <<feed, worker, channel, command, page>>

\* Mutant: the window is shown and the page hears of it with the next update.
RestoreEmit_Silent ==
  /\ window.restoring
  /\ window' = [window EXCEPT !.restoring = FALSE]
  /\ UNCHANGED <<feed, worker, channel, command, page>>

RestoreEmit ==
  /\ window.restoring
  /\ snap' = snapshot
  /\ Emitted(Event(snap'))
  /\ window' = [window EXCEPT !.restoring = FALSE]
  /\ UNCHANGED <<now, sending, worker, command, page>>

-----------------------------------------------------------------------------
(* The worker: the page's start and stop, the phases of a switch, samples. *)

WorkerRecords(changed) == update("worker", changed) /\ UNCHANGED <<now, desk, command, page>>
WorkerFree == guard = "command" /\ work = [at |-> "idle"]
NewChild == [state |-> "Ready", child |-> core.child + 1]

StartCore ==
  /\ WorkerFree /\ command = "start" /\ core.state = "Stopped"
  /\ \/ /\ core' = NewChild
        /\ WorkerRecords(record_subscription_ready(snap, NewChild.child, None))
     \/ \E l \in {"Stopped", "RecoveryRequired"} :
          /\ core' = [core EXCEPT !.state = l]
          /\ WorkerRecords(record_managed_failure(snap, Some(l)))
     \/ UNCHANGED core /\ WorkerRecords(record_managed_failure(snap, None))
  /\ work' = [at |-> "answer"] /\ UNCHANGED guard

StartRunning ==
  /\ WorkerFree /\ command = "start" /\ core.state = "Ready"
  /\ work' = [at |-> "answer"]
  /\ UNCHANGED <<feed, core, guard, desk, command, page>>

StartUnrecovered ==
  /\ WorkerFree /\ command = "start" /\ core.state = "RecoveryRequired"
  /\ WorkerRecords(record_managed_failure(snap, Some("RecoveryRequired")))
  /\ work' = [at |-> "answer"] /\ UNCHANGED <<core, guard>>

stop_runtime ==
  /\ WorkerFree /\ command = "stop"
  /\ \/ /\ core' = [core EXCEPT !.state = "Stopped"]
        /\ WorkerRecords(record_managed_stopped(snap))
     \/ /\ core.state # "Stopped" /\ core' = [core EXCEPT !.state = "RecoveryRequired"]
        /\ WorkerRecords(record_managed_failure(snap, Some("RecoveryRequired")))
  /\ work' = [at |-> "answer"] /\ UNCHANGED guard

(* The response is sent after the record, and the guards are dropped with  *)
(* it.  A command that nobody waits for any more leaves a log line.        *)
WorkerAnswers ==
  /\ work.at = "answer" /\ sending["worker"] = None
  /\ work' = [at |-> "idle"] /\ guard' = "free"
  /\ IF guard = "command" /\ command \notin {"start", "stop"}
     THEN /\ \/ update("worker", record_managed_failure(snap, None))
             \/ snap.rev = MaxRevision /\ UNCHANGED <<snap, sending>>
          /\ UNCHANGED command
     ELSE /\ command' = IF guard = "command" THEN "answered" ELSE command
          /\ UNCHANGED <<snap, sending>>
  /\ UNCHANGED <<now, core, desk, page>>

switch_phase(t, op, status, error) ==
  update(t, record_subscription_switch(snap, [op |-> op, status |-> status, error |-> error]))

(* Checking, Prepared, Persisted and Applying are one status here: the     *)
(* feed tells a switch that is queued, under way or over apart.            *)
Phases == [accepted |-> {"queued"}, queued |-> {"underway", "failed"},
           underway |-> {"underway", "cancelled", "failed"}, broken |-> {"failed"}]

ErrorOf(status) == CASE status = "cancelled" -> "cancelled" [] status = "failed" -> "startFailed"
                     [] OTHER -> "none"

SwitchPhase ==
  /\ work.at \in DOMAIN Phases
  /\ \E status \in Phases[work.at] :
       /\ switch_phase("worker", work.op, status, ErrorOf(status))
       /\ work' = IF status \in {"failed", "cancelled"} THEN [at |-> "answer"] ELSE [work EXCEPT !.at = status]
  /\ UNCHANGED <<now, core, guard, desk, command, page>>

SwitchReady ==
  /\ work.at = "underway"
  /\ core' = NewChild
  /\ WorkerRecords(record_subscription_ready(snap, NewChild.child, Some(work.op)))
  /\ work' = [at |-> "answer"] /\ UNCHANGED guard

(* A check that fails leaves the core as it is; a commit that fails does   *)
(* not.  The lifecycle is recorded first, then the switch.                 *)
activation_runtime_failure ==
  /\ work.at = "underway"
  /\ \E l \in {core.state, "Stopped", "RecoveryRequired"} :
       /\ core' = [core EXCEPT !.state = l]
       /\ WorkerRecords(record_managed_failure(snap, Some(l)))
  /\ work' = [work EXCEPT !.at = "broken"] /\ UNCHANGED guard

(* One sample.  One that fails takes the core down.                        *)
Sampling == work.at = "idle" /\ core.state = "Ready" /\ command \notin {"start", "stop"}

Sampled ==
  /\ Sampling
  /\ \E read \in Samples \ {"failed"} :
       WorkerRecords(apply_managed_observation(snap,
         [traffic |-> IF read = "traffic" THEN Some(core.child) ELSE None]))
  /\ UNCHANGED worker

\* Mutant: the failure is logged, and the core is shown as it was.
SampleFails_NoLifecycle ==
  /\ Sampling /\ "failed" \in Samples
  /\ \E l \in {"Stopped", "RecoveryRequired"} :
       /\ core' = [core EXCEPT !.state = l]
       /\ WorkerRecords(record_managed_failure(snap, None))
  /\ UNCHANGED <<work, guard>>

SampleFails ==
  /\ Sampling /\ "failed" \in Samples
  /\ \E l \in {"Stopped", "RecoveryRequired"} :
       /\ core' = [core EXCEPT !.state = l]
       /\ WorkerRecords(record_managed_failure(snap, Some(l)))
  /\ UNCHANGED <<work, guard>>

-----------------------------------------------------------------------------
(* IPC threads: a routing apply is queued before the worker has it, or is  *)
(* refused; a command nobody answered in time leaves a log line.           *)

QueueApply(op) ==
  /\ guard = "free" /\ command \notin {"start", "stop"}
  /\ switch_phase("ipc", op, "queued", "none")
  /\ guard' = op
  /\ UNCHANGED <<now, core, work, desk, command, page>>

(* The worker gets a switch, with or without a line queued for it before.  *)
Accept(op) ==
  /\ guard \in {"free", op} /\ sending["ipc"] = None /\ work.at = "idle" /\ command \notin {"start", "stop"}
  /\ work' = [at |-> "accepted", op |-> op] /\ guard' = "worker"
  /\ UNCHANGED <<feed, core, desk, command, page>>

RefuseApply ==
  /\ guard \in Ops
  /\ \E e \in {<<"failed", "configurationFailed">>, <<"cancelled", "cancelled">>} :
       switch_phase("ipc", guard, e[1], e[2])
  /\ guard' = "free"
  /\ UNCHANGED <<now, core, work, desk, command, page>>

\* Mutant: the guards are the waiting command's, not the worker's.
ResponseTimeout_FreesGuard ==
  /\ command \in {"start", "stop"} /\ guard = "command"
  /\ \/ update("ipc", record_managed_failure(snap, None))
     \/ snap.rev = MaxRevision /\ UNCHANGED <<snap, sending>>
  /\ command' = "answered" /\ guard' = "free"
  /\ UNCHANGED <<now, core, work, desk, page>>

ResponseTimeout ==
  /\ command \in {"start", "stop"} /\ guard = "command"
  /\ \/ update("ipc", record_managed_failure(snap, None))
     \/ snap.rev = MaxRevision /\ UNCHANGED <<snap, sending>>
  /\ command' = "answered"
  /\ UNCHANGED <<now, worker, desk, page>>

-----------------------------------------------------------------------------
(* The page.  floor is the revision the last answer to one of its actions  *)
(* came at.                                                                *)

\* Mutant: of two payloads of one revision the last one wins.
acceptNewerObservation_Ties(current, next) ==
  IF \A c \in current : next.rev >= c.rev THEN Some(next) ELSE current

acceptNewerObservation(current, next) ==
  IF \A c \in current : next.rev > c.rev \/ (next.rev = c.rev /\ next.at > c.at)
  THEN Some(next) ELSE current

Acting == page.acting # "no"
\* Mutant: a delta confirms the state while an action is under way.
applyObservation_Confirms(p, next) ==
  LET accepted == acceptNewerObservation(p.obs, next)
  IN IF accepted = p.obs THEN p ELSE [p EXCEPT !.obs = accepted, !.error = FALSE]

applyObservation(p, next) ==
  LET accepted == acceptNewerObservation(p.obs, next)
  IN IF accepted = p.obs THEN p ELSE [p EXCEPT !.obs = accepted, !.error = Acting]

PageOnly == UNCHANGED <<worker, window, command>>

(* A payload that cannot be read is dropped by the listener.               *)
Deliver ==
  /\ channel # <<>>
  /\ channel' = Tail(channel)
  /\ LET e == Head(channel)
     IN page' = IF page.first = "subscribing" \/ e.read = None THEN page ELSE applyObservation(page, The(e.read))
  /\ PageOnly /\ UNCHANGED feed

(* The snapshot is taken when its command runs; its answer comes later.    *)
runtime_observation_snapshot(p) ==
  /\ snap' = snapshot
  /\ page' = [p EXCEPT !.reply = Some(Event(snap'))]
  /\ UNCHANGED <<now, sending, worker, desk>>

(* Once the listener is attached, the page asks for what it has missed.    *)
Subscribed ==
  /\ page.first = "subscribing" /\ page.reply = None
  /\ runtime_observation_snapshot([page EXCEPT !.first = "asked"])
  /\ UNCHANGED command

(* The first snapshot is of no use once the page has acted.                *)
GetFirst ==
  /\ page.first = "asked"
  /\ LET e == The(page.reply)
         done == [page EXCEPT !.first = "done", !.reply = None]
     IN page' = IF page.actions # 0 THEN done
                ELSE IF e.read = None THEN [done EXCEPT !.error = TRUE]
                ELSE applyObservation(done, The(e.read))
  /\ PageOnly /\ UNCHANGED <<feed, channel>>

runManagedRuntimeAction(action) ==
  /\ page.acting = "no" /\ page.actions < MaxActions /\ command = "none"
  /\ page' = [page EXCEPT !.acting = "waiting", !.actions = @ + 1, !.error = TRUE,
                          !.early = @ \/ page.first = "subscribing",
                          !.start = IF page.obs = None THEN -1 ELSE The(page.obs).rev]
  /\ \/ guard = "free" /\ guard' = "command" /\ command' = action
     \/ guard # "free" /\ UNCHANGED guard /\ command' = "answered"    \* Busy
  /\ UNCHANGED <<feed, core, work, desk>>

GetAnswer ==
  /\ page.acting = "waiting" /\ command = "answered" /\ sending["ipc"] = None /\ page.reply = None
  /\ runtime_observation_snapshot([page EXCEPT !.acting = "reading", !.floor = snap.rev])
  /\ command' = "none"

GetAfterAction ==
  /\ page.acting = "reading"
  /\ LET e == The(page.reply)
         done == [page EXCEPT !.acting = "no", !.reply = None, !.start = -1]
     IN page' = IF e.read = None THEN [done EXCEPT !.error = TRUE]
                ELSE [done EXCEPT !.obs = acceptNewerObservation(page.obs, The(e.read)),
                                  !.error = \E c \in page.obs : The(e.read).rev < c.rev /\ c.rev <= page.start]
  /\ PageOnly /\ UNCHANGED <<feed, channel>>

(* A bound: time passes while there is a history to prune.                 *)
Tick ==
  /\ now < MaxClock /\ snap.history # <<>> /\ now' = now + 1
  /\ UNCHANGED <<snap, sending, worker, desk, command, page>>

-----------------------------------------------------------------------------
(* The page loads with the application, or again while a core runs that    *)
(* was sampled a moment before; revisions are counted from there.          *)
Init ==
  /\ now = 1
  /\ \/ snap = NewMock /\ core = [state |-> "Stopped", child |-> 0]
     \/ /\ core = [state |-> "Ready", child |-> 1]
        /\ snap = [record_subscription_ready(NewMock, 1, None)
                     EXCEPT !.traffic = Some(1), !.history = <<[at |-> 0, child |-> 1]>>]
  /\ work = [at |-> "idle"] /\ guard = "free" /\ sending = [t \in Threads |-> None]
  /\ window = [visible |-> TRUE, restoring |-> FALSE, restores |-> 0] /\ channel = <<>>
  /\ command = "none"
  /\ page = [obs |-> None, error |-> FALSE, first |-> "subscribing", acting |-> "no", actions |-> 0,
             early |-> FALSE, start |-> -1, floor |-> -1, reply |-> None]

WorkerNext == \/ StartCore \/ StartRunning \/ StartUnrecovered \/ stop_runtime \/ WorkerAnswers
              \/ SwitchPhase \/ SwitchReady \/ activation_runtime_failure
              \/ Sampled \/ SampleFails
PageNext == \/ Deliver \/ Subscribed \/ GetFirst
            \/ \E a \in {"start", "stop"} : runManagedRuntimeAction(a)
            \/ GetAnswer \/ GetAfterAction

Next == \/ WorkerNext \/ PageNext \/ Tick
        \/ \E t \in Threads : SendDelta(t)
        \/ CloseRequested \/ ShowWindow \/ RestoreEmit
        \/ \E op \in Ops : QueueApply(op) \/ Accept(op)
        \/ RefuseApply \/ ResponseTimeout

Spec == Init /\ [][Next]_vars

-----------------------------------------------------------------------------
(* Types, and the guards are held for as long as the worker has a request, *)
(* whether or not anybody still waits for it.                              *)
TypeOK ==
  /\ snap.rev \in 0..MaxRevision /\ now \in 0..MaxClock
  /\ core.state \in {"Stopped", "Ready", "RecoveryRequired"}
  /\ guard \in {"free", "worker", "command"} \cup Ops
  /\ command \in {"none", "start", "stop", "answered"}
  /\ guard = "free" => work = [at |-> "idle"]

(* What was recorded last of the core's lifecycle is what the core is.     *)
RecordIsTheCore == snap.lifecycle \in {core.state, "NotObserved"}

(* Everything the page is sent it can read: whatever the order of records, *)
(* samples and prunes, the payload passes parseRuntimeObservation.  One    *)
(* that does not is dropped and the page keeps the state before it.        *)
EveryPayloadIsRead ==
  /\ \A i \in DOMAIN channel : channel[i].read # None
  /\ \A t \in Threads : \A e \in sending[t] : e.read # None
  /\ \A e \in page.reply : e.read # None

(* Rates are those of the core that runs: a new core, or none, starts with *)
(* an empty history.                                                       *)
OldCoreIsForgotten ==
  /\ \A i \in DOMAIN snap.history : snap.history[i].child = core.child
  /\ core.state # "Ready" => snap.history = <<>> /\ snap.traffic = None

(* What is recorded is of the core there is: its lifecycle, its traffic,   *)
(* and guards that are held as long as the worker has a request.           *)
Consistent == TypeOK /\ RecordIsTheCore /\ OldCoreIsForgotten

(* With nothing on its way and the window visible, the page shows the last *)
(* revision.  Deltas overtake each other, are dropped while the window is  *)
(* hidden, and are not heard before the page listens.  An action begun     *)
(* before it listens makes it drop its first snapshot, and is left out.    *)
PageCatchesUp ==
  (/\ \A t \in Threads : sending[t] = None
   /\ channel = <<>> /\ window.visible /\ ~window.restoring
   /\ page.first = "done" /\ ~Acting /\ ~page.early)
  => \E o \in page.obs : o.rev = snap.rev

(* What the page shows as certain after an action is no older than the     *)
(* action's answer (App.tsx: a snapshot from before the action is no proof *)
(* that the core stopped).                                                 *)
ConfirmedIsCurrent ==
  ~page.error => ~Acting /\ \A o \in page.obs : o.rev >= page.floor

(* The page ends with the newest revision, and claims nothing older to be  *)
(* the result of its own action.                                           *)
PageIsCurrent == PageCatchesUp /\ ConfirmedIsCurrent

(* The page never goes back, though deltas are sent outside of the lock.   *)
PageNeverGoesBack ==
  [][\A o \in page.obs : \E n \in page'.obs : n.rev >= o.rev /\ n.at >= o.at]_vars

-----------------------------------------------------------------------------
(* The inductive invariant                                                 *)

Options(S) == {o \in SUBSET S : \A x, y \in o : x = y}
Points == [at : Nat, child : Nat]
Switches == [op : Ops, status : {"queued", "underway", "ready", "cancelled", "failed"},
             error : {"none", "cancelled", "configurationFailed", "startFailed"}]
Snapshots ==
  [rev : Nat, history : Seq(Points), source : {"MockOnly", "ManagedSidecar"},
   capture : {"NotObserved", "Off"}, lifecycle : {"NotObserved", "Stopped", "Ready", "RecoveryRequired"},
   id : Options(Nat), gen : Options(Nat), switch : Options(Switches), traffic : Options(Nat)]
Reads == [rev : Nat, at : Nat]
EventRecords == [rev : Nat, read : Options(Reads)]

StateTypes ==
  /\ snap \in Snapshots
  /\ core \in [state : {"Stopped", "Ready", "RecoveryRequired"}, child : Nat]
  /\ work \in [at : {"idle", "answer"}] \cup [at : {"accepted", "queued", "underway", "broken"}, op : Ops]
  /\ sending \in [Threads -> Options(EventRecords)]
  /\ window \in [visible : BOOLEAN, restoring : BOOLEAN, restores : Nat]
  /\ channel \in Seq(EventRecords)
  /\ page \in [obs : Options(Reads), error : BOOLEAN, first : {"subscribing", "asked", "done"},
               acting : {"no", "waiting", "reading"}, actions : Nat, early : BOOLEAN,
               start : Int, floor : Int, reply : Options(EventRecords)]

(* The points of the chart were taken one after the other, none after now. *)
InOrder(history) ==
  /\ \A i \in DOMAIN history : history[i].at <= now
  /\ \A i, j \in DOMAIN history : i < j => history[i].at < history[j].at

(* The identities are there together, and a switch agrees with the core    *)
(* that is shown with it.                                                  *)
Agrees(s) ==
  /\ s.id = None <=> s.gen = None
  /\ \A w \in s.switch : /\ isSubscriptionSwitch(w)
                         /\ w.status = "ready" => s.lifecycle = "Ready" /\ s.id # None

(* A request of an apply that is queued is not with the worker.            *)
GuardFacts == guard \in {"free"} \cup Ops => work = [at |-> "idle"]

(* What is on its way to the page, and what the page has or will read.     *)
Travelling ==
  (UNION {sending[t] : t \in Threads}) \cup {channel[i] : i \in DOMAIN channel} \cup page.reply
Known == page.obs \cup UNION {e.read : e \in Travelling}

(* A later revision was made at a later time, and none is ahead of the     *)
(* snapshot.                                                               *)
RevisionFacts ==
  /\ \A e \in Travelling : e.read # None /\ \A r \in e.read : r.rev = e.rev
  /\ \A r \in Known : r.rev <= snap.rev /\ r.at <= now
  /\ \A r, q \in Known : r.rev < q.rev => r.at <= q.at

(* The page waits for one answer at a time, and knows what it began when.  *)
PageFacts ==
  /\ page.reply # None <=> (page.first = "asked" \/ page.acting = "reading")
  /\ ~(page.first = "asked" /\ page.acting = "reading")
  /\ \A e \in page.reply : page.acting = "reading" => e.rev = page.floor
  /\ page.acting # "no" => page.error /\ page.actions # 0
  /\ page.acting = "no" => page.floor = -1 \/ \E o \in page.obs : o.rev >= page.floor
  /\ page.first = "subscribing" /\ page.actions # 0 => page.early
  /\ page.first = "asked" /\ page.actions # 0 => page.early \/ page.acting = "waiting"

(* The newest revision is shown or will be: somebody still has it to send, *)
(* or the page will ask.                                                   *)
NewestIsOnItsWay ==
  \/ page.first = "subscribing" \/ page.early \/ page.acting = "waiting"
  \/ ~window.visible \/ window.restoring
  \/ \E t \in Threads : \E e \in sending[t] : e.rev = snap.rev
  \/ \E i \in DOMAIN channel : channel[i].rev = snap.rev
  \/ \E e \in page.reply : e.rev = snap.rev /\ (page.first = "asked" => page.actions = 0)
  \/ \E o \in page.obs : o.rev = snap.rev

IInv ==
  /\ StateTypes
  /\ Consistent
  /\ GuardFacts
  /\ InOrder(snap.history) /\ Agrees(snap)
  /\ RevisionFacts
  /\ PageFacts
  /\ NewestIsOnItsWay
=============================================================================
