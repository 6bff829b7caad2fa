# Veyra: a TLA+ verification project

Veyra is a Windows desktop application (Tauri, Rust and React) that manages
proxy subscriptions and runs a bundled sing-box core as a child process. This
directory holds TLA+ models of the parts of it that keep state under failure and
concurrency, the TLC configurations that check them, and TLAPS proofs.

Paths are relative to the repository; Rust paths to `src-tauri/src/`.

## 1. The system

| Part | State it keeps | Operations | Talks to |
|---|---|---|---|
| Replacement transaction, `singbox/runtime.rs` | held child, candidate and active configuration, `recovery_required` | `prepare_replacement`, `commit_prepared`, `cancel_prepared`, `stop`, `recover_active_failure` | the sidecar port |
| Sidecar port, `platform/windows/managed_sidecar_port.rs`, `singbox/managed_sidecar.rs` | pending runtime, running children, identity counter | `new`, `check`, `prepare`, `discard`, `run`, `ready`, `stop` | private directories, processes |
| Private directories, `platform/windows/private_runtime.rs` | one directory with one secret file per instance | `create`, `write_checked_config`, `cleanup`, `cleanup_orphaned_instances` | the file system |
| State store, `storage/` | `state.json`, its backup and its copies | `load`, `save`, migration, recovery | the file system |
| State gate, `application/state_access.rs` | one mutex | `try_lock` | everybody who uses the store |
| Controller and worker, `application/managed_observation_runtime.rs` | runtime guard, request channel (capacity 1), cancel flags, shutdown flags, routing index, read-back nodes | the commands of the user interface; the arms of `worker_loop`; sampling | store, transaction, observations, subscription manager |
| Observations, `application/observability.rs` | one snapshot with its revision and traffic history, the delta sink | `record_*`, `snapshot` | frontend |
| Subscription manager and scheduler, `application/subscription_*.rs` | write guard, `closing`, process deadlines | import, edit, update, document save, delete; periodic updates | store, fetch, parser |
| Proxy routing, `application/proxy_routing.rs` | the revision and the state it names, the tuple of the last apply | `mutate`, `apply_configuration`, manual selection, snapshot | store, controller |
| System proxy and supervisor, `platform/windows/system_proxy.rs`, `application/runtime.rs` | the WinINet setting, a recovery record, the capture mode | enable, restore; activate, deactivate | not constructed in production yet |
| Fetch, parser, documents, `subscription/` | one busy flag (`document.rs`) | requests and redirects, text into nodes, bounded checks for the editor | subscription manager, IPC |
| Compiler, `singbox/compiler.rs` | none | `compile`, `validate_standard`, `domain` | controller |
| Clash API client, `singbox/clash_api.rs` | none | sample requests, selector requests | controller |
| Migration, `storage/migration.rs` | none | one step per schema version | store |
| IPC commands, `commands.rs` | none | the page's requests and their answers | everything above |
| Frontend, `src/` | the observation shown, the subscription list, a dialog, a pending operation | the page's handlers | IPC, events |

What is hard here: the worker and any number of command threads share guards,
a channel of capacity one, flags and a file; callers time out while their
request goes on; the application can be killed between any two file operations
or process operations, fetches take seconds while the state moves on, answers and
events reach the page in any order, and stopping a process, removing a directory or replacing
a file may each fail on its own; Quit races all of it. `PROJECT.json` lists these
hazards line by line with the properties that cover them.

What makes the parts correct:

- transaction: nothing that was created is lost track of, `Stopped` and `Ready`
  are never claimed wrongly, no two cores, no way out of recovery but Stop;
- store: whatever fails, the last valid state can be loaded; no lost update;
- controller: the snapshot is true, a generation names one configuration, what
  runs is selected, Quit leaves nothing running and nothing waiting;
- subscriptions: a commit after a slow fetch loses nothing of another writer, the
  validators kept are of the body kept, attempts are spaced, shutdown ends;
- routing: what the page is told (applied, in sync, this revision) is true;
- pipeline: an accepted entry connects the way it was written;
- page: it never goes back, catches up, and saves only what the user edited.

## 2. The modules

| Module | Models | Role |
|---|---|---|
| `ManagedCore` | what callers may assume of the core | abstract specification |
| `SidecarRuntime` | transaction, port, directories, processes | implements `ManagedCore` |
| `SidecarRuntimeProofs` | | theorems about it |
| `DurableState` | what callers may assume of the store | abstract specification |
| `StateStore` | store, snapshot files, migration control, gate | implements `DurableState` |
| `DurabilityProofs` | | theorems about `StateStore` and `SystemProxy` |
| `SystemProxy` | system-proxy adapter, recovery record, supervisor, a user at the system dialog | `ProxySpec`; theorems in `DurabilityProofs` |
| `ManagedRuntime` | controller, worker, snapshot, guards, Quit, the other writers of `state.json` | composes the two abstract components with the threads |
| `ManagedRuntimeProofs` | | theorems about it |
| `Migration` | schema steps, shape and validation of `state.json` | operators, joined to `StateStore` in its run |
| `AppData` | `AppState`, its validation, pool members, provider replacement, projection | operators shared by `ProxyRouting` and `SubscriptionWrites` |
| `AppDataProofs` | | lemmas about them: what each writer keeps valid, well-formed, of the same structure |
| `ProxyRouting` | routing service, its revisions, applies and hot switches, with worker and updates around it | |
| `ProxyRoutingProofs` | | theorems about it |
| `SubscriptionWrites` | subscription manager and scheduler | |
| `SubscriptionWritesProofs` | | theorems about it |
| `NodeParser`, `CoreCompiler` | one entry into a node; nodes, pools and routes into a configuration and back | operators |
| `SubscriptionPipeline` | fetch, text, parser, compiler, the editor's worker thread | composes the two |
| `ClashApi` | what the client makes of the core's answers | operators |
| `ObservationFeed` | sampling, snapshot, deltas, window, `App.tsx` | composes `ClashApi` with the page |
| `ObservationFeedProofs` | | theorems about it |
| `SubscriptionViews` | requests, commands, summaries and their readers | operators |
| `SubscriptionPage` | the subscription page and the application behind it | composes them |
| `SubscriptionEdgeProofs` | | theorems about `SubscriptionPipeline` and `SubscriptionPage` |
| `MC...` | instances for TLC | symmetry sets, grids of inputs |

`ManagedRuntime` uses the core as `ManagedCore` describes it and treats a section
of the gate as one step, as `StateStore` justifies. The other composed modules do
the same and add to each other: `ManagedRuntime` has guards, queue and Quit and knows a
configuration by its generation; `ProxyRouting` has the content of the configuration
and one activation at a time; `SubscriptionWrites` has the writes behind "an
update"; `SubscriptionPage` and `ObservationFeed` have what the user sees.

### SidecarRuntime

One worker thread owns the runtime, so methods do not overlap; a method is split
where the operating system or a crash can come between, and `pc` says where it
is. `child`, `candidate`, `active`, `recovery` are the fields of
`SidecarRuntime`; `pending`, `running`, `nextIdentity` those of the port; `disk`
and `core` are what exists in the file system and which processes live.
`disk[d]` records how far `create()` got (`bare`, `secured`, `config_bare`,
`config`, `secret`), because a failed cleanup and a crash leave different things
at each point. `orphans` is a history variable: what an earlier, killed run left.
A process is named by its directory. A configuration is a value of `Configs`;
what is compared byte by byte in the code is equality of those values. `CoreExits`
and `CoreBinds` are free actions of the environment; an old core that still
holds the API listener keeps a new one from becoming ready. A directory name is
random in the code; here it is any unused one.

### StateStore

`file` maps `state.json`, the backup, the pre-migration copy and the corrupt copy
to a content, of which the model keeps what `decode` makes of it: absent,
current, of an older schema (migrates), foreign (an error that is not
recoverable), damaged (recoverable). Each `atomic_replace` is three steps
(create, write and sync, rename) and can fail or be cut by a crash at each. A
caller enters the gate, loads, and then reads, saves, finds a conflict or gives
up; `basis` is the state its pending change was computed from, `None` when it is
computed in the same section.

Assumption: a file is lost or damaged only while nobody is in the gate, and the
backup is not damaged at the same time as the state (`LoseFile`). `save` copies
`state.json` to the backup without decoding it, so damage between `load` and
`save` followed by a failed write would leave no valid file; two independent
faults are beyond what the store promises.

### ManagedRuntime

`pc`, `kind`, `req`, `cancel` are per command: where its thread is, what it
asked for, the state it read (`old`) and wants (`new`), its cancel flag. `busy`
and `subWrite` are the guards with their holder. `queue` is the channel and
`worker` the phase of the arm it is in. `state` is `state.json` reduced to the
selection, the generation, the generation of the last structural change (`base`)
and a counter of other edits. `core` is the `ManagedCore` state, `seen` the
snapshot, `index` the routing index (named by the artifact it was built from) and
`readBack` the artifact the shown runtime nodes were read from.

The commands run up to `try_send` in two steps (`Begin...`, `Dispatch`), because
between them the worker may fill the channel or end. Routing edits take the state
gate only and may come at any moment. An update holds the write guard while it
fetches. What takes seconds is more than one step: a plain start is the look at the
flags, `start_or_replace`, and the publication of its outcome (phase `starting`); the
save of an activation is the comparison with the last look at the flags, and the write
(phase `saving`), both under the gate, which keeps the other writers out (`GateFree`).
Quit is two stores, `shutdown_requested` and, later, `closing`. It therefore does not
stop a command past its last check: `QuitFreezesSelection` says this one is the last.

Abstractions: the artifact of a core in recovery is `None` (nobody may rely on
it); the result a caller gets is not kept, only that it got one;
`routing_apply_terminal` is in `ProxyRouting`; deadlines are free choices. Every writer
of the model raises the generation when the configuration changes;
`GenerationNamesConfig` is about them. The one writer that does not is the first
finding below.

### SystemProxy

The transition mutex of `RuntimeSupervisor` lets one activation or deactivation run
at a time; `call` names the native or store call it makes next, and each call is
an action. `proxy` is the WinINet setting, `record` the stored recovery record,
`captureMode` the mode of the supervisor, `core` the life cycle of the core, `seen` what the
transition read last. The last three calls (write back, read back, clear) are
common to `prove_enable_unapplied` and `rollback_if_still_managed`, which differ in
what a refusal leads to (`Fail`): an enable is still in mode Off. A refused write
has done nothing, everything or, with `MayTear`, a part; a refused save has or
has not taken effect. A setting is a class of `semantically_equals`; the mixed
port is fixed at construction, so `Managed` is one value.

History variables name the two ways the design can lose a setting: `raced` (a
write replaced something other than what was read) and `mistaken` (what was
captured was never a user's choice). `UserSettingKept` shows there is no third.
`leftover` marks a run that started over the managed setting of an earlier one.
A core that dies by itself is not modelled: the supervisor does not notice it.
Nothing constructs the supervisor in production yet; `Restart` is therefore
`RuntimeSupervisor::new` and nothing else.

### AppData and ProxyRouting

`AppData` has `state.json` as records of tables. An import makes a subscription, its
provider and its implicit pool from one suffix, so the three share a name; the id
of a node is the hash of provider and connection, so it is that pair.
`ReplaceProvider`, `Valid` and `Projection` are used by both writers.

In `ProxyRouting` each mutation is an action and one section of the gate. `cas` is
`RevisionState`; `named` is a history variable that keeps which state every revision
named. `call` is the request of the page after its gate section: `apply`, `reconcile`,
`settle`. `run` is what the observation says, `art` the projection the core runs and
`core` the member each selector of it uses, which is what the page's words are
compared with. `terminal` and `switch` are the two records of a failed apply. A reconciliation whose
caller gave up after its receive timeout stays in the channel with the runtime guard and is
done by the worker later (`late`); the caller was told nothing is applied.

### SubscriptionWrites

`op[c]` is where a client (page, scheduler) is: admitted, entered, fetching, gate
section, saving. `Recheck` is the second look at `closing` after the write flag is
taken; `Unchanged` the comparison of `UpdateSnapshot` after the fetch. A body is its one
connection and its format, its validators are the body itself, so that
`ValidatorsNameContent` can compare them. `written` (what the last other writer saved) and
`tried` are history variables. `tried` has, by subscription, the last attempt of the
scheduler and the shortest interval an attempt of anybody had since: the page may
shorten the interval and update at once, which moves the process deadline forward, so
an attempt is spaced by the shortest of these intervals and not by the one of the
attempt before it.

### NodeParser, CoreCompiler, SubscriptionPipeline

An entry is a function from the fields it has to classes of JSON values (a text of
the right form, another text, a number, a list, not ASCII ...); an absent field is
outside its domain. The parser is the order of its checks and look-ups, field by
field, in its three spellings. The compiler builds outbounds, groups and rules from
nodes and reads them back. `SubscriptionPipeline` adds the requests (scheme, origin,
redirect count, validators sent and kept), the text with its layers (Base64, JSON,
YAML, lines), and the editor's worker thread with its timeout.

### ClashApi and ObservationFeed

A sample is three requests; each is answered, refused, malformed or silent. `snap` is
the snapshot, `sending[t]` a delta a thread has taken from it and not yet sent,
`channel` what is on its way to the page, `page` what `App.tsx` keeps. An event holds what
the page reads out of the payload (`parseRuntimeObservation`), so that a payload the
page would refuse shows as such.

### SubscriptionViews and SubscriptionPage

Every command is a call with an answer: sent, performed, answered, and the three are
separate steps. `page` is the component's state, `dialog` the open dialog with its epoch,
`lists` the calls of the list command. The application behind it is one record with
the checks of `commands.rs` and the manager in order. Assumptions: answers of
`list_subscriptions`, a synchronous command, come in order; an event causes one list
call; errors are told apart only until they are read. `stale` and `disturbed` mark
the two states the code accepts (see 5).

### Migration

A document is a record of the tables a version has; credentials are the optional
fields. `Documents` has every protocol with every combination of credentials,
references that dangle and not, and every version from 0 to 7. `decode` gives the
class `StateStore` works with.

## 3. The runs

| Run | Bounds | Distinct states | Shows |
|---|---|---|---|
| `MCSidecarRuntime` | 3 directories, 2 configurations, 2 identities | 5 751 | all properties of the transaction and the refinement of `ManagedCore` |
| `MCStateStore` | 2 callers, 3 values; the documents of `Migration` | 12 428 | all properties of the store, the refinement of `DurableState`, and that migrations keep what a file says |
| `MCManagedRuntime` | 3 commands, 2 subscriptions, generations to 2, 1 other edit | 977 707 | the safety properties of controller and worker |
| `MCManagedRuntimeLive` | 2 commands, 1 subscription, generations to 1 | 23 355 | guards are released, waits end |
| `MCSystemProxy` | 3 settings, torn writes, 2 restarts | 2 966 | the user's setting and the core under every refusal |
| `MCProxyRouting` | 2 subscriptions, 2 connections, 1 custom pool, 3 routes, 1 edit, 1 other write, 1 operation | 416 312 | what the routing page is told is true |
| `MCProxyRoutingGeneration` | the same | violation | finding 1 |
| `MCSubscriptionWrites` | 2 subscriptions, 2 URLs, 2 connections, 1 request of the page, 1 event, 1 tick | 276 140 | no lost write, honest validators, spacing, and liveness of shutdown and of due updates |
| `MCSubscriptionPipeline` | a grid of entries in three spellings, 2 redirects, 2 editors | 149 400 | an accepted entry connects as written; fetch and editor end |
| `MCSubscriptionPipelineStripped` | entries with fields of unusual types | violation | finding 2 |
| `MCObservationFeed` | 1 apply, window and history of 1, 3 revisions, clock to 2, 1 action, 1 restore | 3 999 018 | the page's merge, and that every payload is readable |
| `MCSubscriptionPage` | 3 ids, 2 sites, generations to 3, 2 acts, 1 touched field | 696 593 | dialogs, pending operations and the list under late answers |

A run names few properties; most are conjunctions of named parts, each with its own
comment in the module. `Consistent` and `Safety` are the type invariant with the
component's basic invariants (`ObservedIsTrue`, `GenerationNamesConfig` and
`RunningIsSelected` of the controller; `NothingUnowned`, `StoppedMeansClean`, `OneCore`
and `ReadyIsTheActiveConfig` of the transaction). `NothingStoredIsLost`,
`CommitsAreJustified`, `StaysWithSource`, `CompilesAndReadsBack`, `NobodyWaitsForever`
and `WorkEnds` join the parts that answer one question.

Why the bounds are enough to meet the cases: a replacement needs the running
directory and the candidate's; the third directory is an orphan of an earlier
run. Two identities exhaust the counter in the second replacement. Three values
tell the saved state, the state before and a concurrent one apart. Three
commands are an operation in the worker, one that waits in the channel and one
that comes late or quits; two generations are a structural edit during an
activation. In `ProxyRouting` one edit, one foreign write and one operation, from
initial states with pools and routes already there and a core that is stopped until
`StartCore`, are what a stale claim needs: something that was true, a change, and the claim; three routes are the
fewest in which an order can be wrong after a move. In `SubscriptionWrites` one request
beside the scheduler and one event are the two-writer races; the clock passes one
interval. The grid of `SubscriptionPipeline` writes each setting at each of its places,
alone and together with the others that the same rule reads. Three revisions in
`ObservationFeed` are one shown, one overtaken, one newest. Two acts in
`SubscriptionPage` are an operation and what the user does before its answer.

Deadlock is not checked where a bounded supply of requests may be used up or the
process ends (`ManagedRuntime` and the five modules after `SystemProxy`). It is
checked in the others. Symmetry is used
only in runs without liveness properties; the refinements are safety properties.

Fairness (`FairSpec`) is weak fairness of the worker, of each command's own
thread and of the end of a fetch. The code justifies it: the worker blocks only
with timeouts (process waits, API calls, the channel), threads are scheduled by
the operating system, a fetch has a timeout. No command, edit or Quit is required
to happen, and no timeout to expire. In `SubscriptionWrites` it is weak fairness of each
client's steps (every fetch has a timeout), of the scheduler's loop and of the shutdown
thread; time need not pass and nobody need ask. In `SubscriptionPipeline`, of the
request (a per-request timeout) and of the editor's worker thread, which computes
without waiting.

### Disagreements between design and code

Shown by a run:

1. The generation is the version of the running projection (`TASK-011`, expansion 006):
   an update of a subscription that is not selected changes the members of a custom
   pool in use and leaves the generation (`MCProxyRoutingGeneration`). The page keeps
   saying "applied". `AppliedIsWhatRuns` shows this is the only way.
2. Credentials and transport fields are never stripped (`TASK-011`, partial import 030): a user name and
   password written as numbers are read as absent, and `network: h2`, `http` or `quic`
   is accepted as plain TCP (`MCSubscriptionPipelineStripped`).

Met while modelling, visible in the models, without a run of their own:

3. Names are validated by the rules for lengths and control characters (`TASK-011.md:93`):
   only their length is. The reader of the page refuses such a name and with it the whole
   list. `EveryAnswerIsRead` is about states without one. An edit with such a name and a new
   URL is stored, its dialog stays open over an unreadable answer, and what it then
   compares the URL with is the old one; the exception of `FormShowsStored`. It takes two
   touched fields, one more than the run has, and showed when the proof failed without it.
4. *No orphan* (`docs/veyra.md:4455`): `Port::new` removes left directories, not left
   processes, and children are in no job object (`orphans` in `SidecarRuntime`).
5. The routing index is of the applied artifact (`TASK-012`): after a document
   save the worker reads `state.json` again and may find a later edit, or finds the
   gate taken and keeps the index of the old instance. `HotSwitchIsSafe` shows the
   generation check still keeps a wrong index from being used.
6. The index is cleared when Stopped is confirmed (`TASK-012`): not by the failed
   sample.
7. A late operation does not replace the current one (`TASK-011`): a failed
   routing apply reports after its guards are gone.
8. The snapshot is the setting before the change (`foundation.md`): after a restart
   over a captured proxy it is the managed setting. A half written restore ends the
   same way. Both are the exception `mistaken`.
9. A manual change is never overwritten (`foundation.md`): it is, between the
   readback and the write of a restore (`raced`).
10. The parser skips what cannot be represented (`DCR-002:73`): it accepts nodes the compiler
    refuses, and one of them keeps its subscription from being activated.
11. TUIC nodes of version 2 migrate (`DCR-002:56`): `v3_options` has no case for them and
    the load fails. A file that migrates and then does not validate is replaced by the
    backup, though `DCR-002:61` keeps the original (a copy is kept).

## 4. The proofs

TLAPS proves the following for every value of the constants: any number of
directories, commands, subscriptions, connections, pools, routes, documents, dialogs and
editors, any window and capacity of the chart, and any bound. The proof modules are named
after the module they are about; `DurabilityProofs` is about the two components whose state
outlives the process, `StateStore` and `SystemProxy` (whose definitions say Proxy where the
two would have the same name), `SubscriptionEdgeProofs` about the two ends of a
subscription, where it comes from and where it is shown (the invariants of the page are
`LocksIInv` and, on top of it, `ShownIInv`, its specification `PageSpec`), and `AppDataProofs` has lemmas only. Each has the same plan: an inductive invariant `IInv`
(stated at the end of the component's module), `Init => IInv`, one step per action for
`IInv /\ [Next]_vars => IInv'`, and the properties from it. The invariants of the runs
are conjuncts or consequences of `IInv`; to see `IInv` itself on a small instance, add
it to the `INVARIANTS` of the run's cfg.

| Module | Theorems, with the runs' properties they state |
|---|---|
| `SidecarRuntimeProofs` | `Safety` and its parts, two action properties (`ForgottenOnlyWhenGone`, `PreparationKeepsActive`), the refinement of `ManagedCore` |
| `DurabilityProofs` | `NothingStoredIsLost` with its parts, the refinement of `DurableState`; `Safety` with its parts and `CoreOutlivesProxy` of `SystemProxy` |
| `ManagedRuntimeProofs` | `Consistent`, `HotSwitchIsSafe`, `NoCoreAfterShutdown`, `NoLostEdit`, `QuitFreezesSelection`, `SwitchFollowsProtocol` |
| `ProxyRoutingProofs` | `Consistent`, `RevisionNamesState`, `AppliedIsWhatRuns`, `SelectorAppliedIsTrue` |
| `SubscriptionWritesProofs` | `Consistent`, `ValidatorsNameContent`, `OthersSurvive`, `AttemptsAreSpaced`, `CommitsAreJustified` |
| `SubscriptionEdgeProofs` | `Consistent` and `StaysWithSource` of `SubscriptionPipeline`; `LocksAreTrue`, `ShownIsStored`, `EveryAnswerIsRead` and `UntouchedStays` of `SubscriptionPage` |
| `ObservationFeedProofs` | `Consistent`, `EveryPayloadIsRead`, `PageIsCurrent`, `PageNeverGoesBack` |

### Why the invariants are not inductive alone, and what is added

- Transaction: that a removed slot owned nothing else depends on the phase. `IInv`
  adds what each control point knows (`PhaseFacts`), that an empty slot is empty in all
  its fields (`SlotFacts`), that at most one child is in the map and it is the held one
  (`ChildFacts`), and that slots do not share directories (`OwnershipFacts`).
- Store: `IInv` adds which files equal which at every control point (`LoadFacts`,
  `SaveFacts`), which is why a cut between two renames is harmless.
- System proxy: `IInv` adds what each call has established (`PointFacts`, for example
  that at `clear` the setting is the user's again), that a setting of a user's kind is
  the last one (`NoOlderChoice`), and where the managed setting cannot be in place
  (`ManagedFacts`).
- Controller and worker: a request is in one place, with its thread, in the channel or
  with the worker (`RequestPlaces`); it holds the runtime guard until its outcome is
  published (`GuardFacts`); what it wants grew out of what it read (`RequestFacts`). An
  artifact is `Known`: of a generation `state.json` has had, and of the current one only
  if it is what `state.json` holds. Because everybody who changes the selection or the
  structure raises the generation, a known artifact stays known (the lemma of each step
  of `state`), and two artifacts of one generation are the same. That gives the truth of
  the snapshot and the safety of a hot switch by an index that may be old. The status of a
  switch is a function of the phase of the worker (`SwitchFacts`).
- Routing: `RevisionsKept` says no revision was shown that is ahead of the comparison,
  so a new one is new. `CoreKept` says what runs was `Made` of this state or of one before
  it: while the generation is the same and no custom pool draws on a subscription that is not
  selected, everything a hot switch leaves alone is the same. This exception is the one of
  finding 1, and the proof needs it in one place only, the update of another subscription.
  `CallKept` says the node of a hot switch stays selected while its call is under way.
  One lemma per writer states what it does to shape, validity, order and generation.
- Subscription writers: `Kept` says what a client knows where it is. Every state in the
  hand of a client that holds the gate is `Sound` (well-formed, valid, with validators of its
  bodies) and `Justified` by the state it is compared with: no other's target lost, new
  nodes under a new generation, an override only over a document that was read. The
  write flag and the gate keep it justified until it is saved. For the spacing,
  `Spaced`: the process deadline of a subscription is at least its last attempt plus the shortest
  interval since, and what the scheduler has taken up (`TakenUp`: still to do in this pass, or
  in hand before the fetch) is past it. An attempt of the page in between moves the
  deadline with the interval, hence the shortest.
- Fetch and editor: `FetchShape` keeps what was asked and sent per request, so a
  redirect away from the origin drops the validators and a later one back does not
  bring them; `OneThread` says the flag is up as long as a thread works, also after its
  caller gave up. Parser and compiler are opaque to these proofs.
- Feed: that a payload can be read is not about the payload but about the snapshot it is
  made of, so `IInv` has what every record keeps of it: the points of the chart are in the
  order of their times and none is ahead of the clock (`InOrder`), identities and switch agree with
  the lifecycle (`Agrees`). Then a prune leaves at most `Capacity` points, all within `Window`
  (lemmas `RecentFacts`, `NewestFacts`, `Pruned`). The page compares revision and time, so
  it goes back in neither only because a later revision was never made at an earlier time, of
  all that is shown or on its way (`RevisionFacts`). That it catches up rests on
  `NewestIsOnItsWay`: the newest revision is shown, in a thread's hand, in the channel, in
  the answer the page waits for, or there is still a reason for the page to ask or the window
  to send. Each step hands it to the next place; the window is what covers a delta
  that was dropped. `PageFacts` has which answer the page waits for.
- Page: that what is pending has an end is not inductive, because the end is told by
  somebody else. `LocksIInv` adds who that is. `LocksFit` pairs each kind of pending
  operation with its one call and its dialog. `ActivationFits` says what the worker has is
  waited for, by its command or by the page; and that no record, neither the
  application's nor the one the page has seen, tells the end of what is not over (`NotOver`),
  which is why a late observation does not end the next activation. That rests on
  identities: no record names an operation that has not begun (`RecordFormed`). `Formed`
  and `WorkFits` are what these need to be told: the worker's subscription is there
  and a generation is left for it.
- What the page shows: a save changes only what was touched because of what its request
  says, and the request was made earlier, of a form that was filled earlier still, from an
  answer that was true when it was given. `ShownIInv` has the chain: what was read for the
  dialog that is open is what is stored (`ReadingsTrue`), the untouched fields of the form
  show it (`DialogTrue`), and a request has no value for an untouched field, or the one
  that is stored (`RequestsFit`, `EditKeeps`). Each link holds until the next because
  nothing else writes meanwhile: the page has one write under way, by `LocksIInv`, and the
  scheduler touches only an interval that is set, which it leaves. Answers for a dialog that is
  gone stay apart from those of the next by its epoch (`ReadingsFit`). One lemma per
  command says what it stores and whether the page reads its answer (`OutcomesShown`).
  An activation has more answers than one (`ActivationAnswers`): a refusal before the queue,
  the subscription that runs already, still pending after the wait, and what the worker
  ends with; each is read by the table of `parseActivateResult`, with the state it claims
  to have changed.

`Refinement` in the first two modules: initial states map to initial states, each step
to a step or a stutter of the abstract specification.

### Assumptions

All are named and evaluated by TLC in the runs of their modules. They say that absent is no value
(`NoneAssumption`, `NothingAssumption`, `NilAssumption`, `KindsAssumption`, `NamesAssumption`; of `SystemProxy`,
that the managed and the torn setting are not a user's; of `ObservationFeed`, that a switch is
told from the other holders of the guards), that bounds, window and capacity are natural
numbers (`IdentityAssumption`, `BoundsAssumption`, `RestartAssumption`, `MaxGenAssumption`; the
page starts at generation 2, so that there is an older one to run), that the page has a
remote subscription at first (`RemoteAssumption`) and that absent options are not
options (`ViewAssumption`), that there is a URL and the first subscription is
one, that intervals are positive (`BoundsAssumption` of `SubscriptionWrites`; the code's shortest
is the unit), that a custom pool does not have the id of a runtime pool and that there are
two route ids (`NamesAssumption` of `ProxyRouting`), and that texts have the three
fields of a text (`TextsAssumption`).

### Only model-checked

- Liveness (`NobodyWaitsForever`, `ShutdownEnds`, `DueIsAttempted`, `WorkEnds`): fairness
  and ENABLED are outside the prover.
- What a data operator computes: `MigrationIsWhole`, `TlsAsWritten`,
  `CompilesAndReadsBack`. They are statements about folds and filters of sequences of
  any length, and no induction over data is available.
- `ListCatchesUp` of `SubscriptionPage`: the list is made of answers of any age, and
  that it is right again in the end needs which of the answers and events still to come
  will tell of which change, an invariant of its own.

None of the modules uses a RECURSIVE operator.

## 5. Not modelled

- `subscribe()` and `RuntimeObservationSubscription`, which have no caller in production,
  and the `record_*` entry points only mocks call.
- The tokenisers (JSON, YAML, Base64, URI) and the text of the configuration; the
  formatting of a document; wording, logging, the log summary of the observation.
- Poisoned locks and a failing `emit_to`, which the code ignores; counters above
  2^53; a second instance of the application.
- The proxy routing page (`src/lib/proxy-routing.ts`): it may go back to an older snapshot when
  the answer of a mutation is overtaken (`:276`). File picking, focus and menus of the
  subscription page; the node and traffic counts of its cards.
- Two losses the page accepts: a refresh refused as Busy leaves the list as it was
  (`stale`), and an activation whose record is overwritten before the page saw it stays
  pending (`disturbed`). A third is of the observation: an action begun before the page
  listens makes it drop its first snapshot (`early`). The last two are hazards with a note
  in `PROJECT.json`.
- `Drop` of the controller without Quit, which production never does.

## 6. Plan

Done: all modules above and the proofs about them. Left:

1. The proof that the list of the subscription page catches up (`ListCatchesUp`).
2. The startup restore of the system proxy, once production wires it.
3. The proxy routing page.
