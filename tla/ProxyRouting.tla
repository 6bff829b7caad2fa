---------------------------- MODULE ProxyRouting ----------------------------
(***************************************************************************)
(* ProxyRoutingManager (application/proxy_routing.rs), which edits pools   *)
(* and routes for the page that shows them, and the runtime controller it  *)
(* asks to apply them.                                                     *)
(*                                                                         *)
(* The page sends one mutation at a time, with the revision of the         *)
(* snapshot it shows (the page itself is left out).  A mutation is one     *)
(* step under the state gate.  What follows it, a hot switch of a selector *)
(* or an apply, runs after the gate is released, while subscriptions are   *)
(* updated and the core is started and stopped.                            *)
(*                                                                         *)
(* Guards, the worker's queue and Quit are in ManagedRuntime.  Here the    *)
(* worker has at most one request in hand: an activation, which holds both *)
(* the runtime guard and the subscription write guard, or a hot switch,    *)
(* which holds the runtime guard, also when its caller has given up.       *)
(***************************************************************************)
EXTENDS AppData, SequencesExt

CONSTANTS
  Subs,         \* subscriptions, also the names of their providers
  Conns,        \* connections of nodes
  PoolIds,      \* ids of custom pools
  RouteIds,     \* ids of routes
  MaxSources,   \* MAX_SOURCES
  MaxPools,     \* MAX_POOLS
  MaxRoutes,    \* MAX_ROUTES
  MaxRevision,  \* MAX_SAFE_INTEGER, for the revision
  MaxOps,       \* bound on the activations and applies
  MaxEdits,     \* bound on the writes of the page to state.json
  MaxWrites     \* bound on the writes of others

ASSUME BoundsAssumption ==
  MaxRevision \in Nat \ {0} /\ MaxOps \in Nat /\ MaxRoutes \in Nat

\* What is absent is no value, no custom pool has the id of a runtime pool, and ids
\* do not run out with the first route.
ASSUME NamesAssumption ==
  /\ \A s \in Subs \cup {None}, g \in 0..MaxGen : [sub |-> s, gen |-> g] # None
  /\ \A id \in PoolIds, s \in Subs \cup {None} : id # RuntimePool(s)
  /\ \E r, q \in RouteIds : r # q

VARIABLES
  st,           \* what state.json holds
  cas,          \* RevisionState
  named,        \* every revision with the state a snapshot showed under it
  tuple,        \* apply_tuple: what the last apply was for
  terminal,     \* routing_apply_terminal
  switch,       \* subscription_switch of the observations
  run,          \* life cycle and identity of the observations
  art,          \* the projection the core runs, AppliedRoutingIndex included
  core,         \* the member each selector of the core uses, None before it is known
  readBack,     \* selector_runtime_nodes
  act,          \* the activation the worker has in hand
  late,         \* the hot switch whose caller has given up
  ops,          \* operation ids given out
  writes,       \* writes to state.json so far, of the page and of others
  call          \* the mutation or apply of the page that is under way

runVars  == <<terminal, switch, run, art, core, readBack, act, late, ops>>
revVars  == <<cas, named>>
vars == <<st, writes, revVars, tuple, runVars, call>>

-----------------------------------------------------------------------------
(* The revision *)

\* Mutant: what subscriptions change is not part of the comparison.
CasMaterial_NoNodes(s) ==
  [active |-> s.active, gen |-> s.gen, providers |-> s.providers, nodes |-> {},
   pools |-> s.pools, target |-> s.target, routes |-> s.routes]

\* What a snapshot shows of the state, and the comparison covers.
CasMaterial(s) ==
  [active |-> s.active, gen |-> s.gen, providers |-> s.providers, nodes |-> s.nodes,
   pools |-> s.pools, target |-> s.target, routes |-> s.routes]

\* observe: a material that differs from the last one gets the next revision,
\* and none when the numbers are used up.
Observed(s) ==
  IF cas.mat = CasMaterial(s) THEN {cas}
  ELSE IF cas.rev < MaxRevision THEN {[rev |-> cas.rev + 1, mat |-> CasMaterial(s)]} ELSE {}

\* What the page is told of a state: all but the subscriptions themselves.
Shown(s) ==
  [active |-> s.active, gen |-> s.gen, providers |-> s.providers, nodes |-> s.nodes,
   pools |-> s.pools, target |-> s.target, routes |-> s.routes]

\* build_snapshot of a state that was observed as c.
Told(c, s) == cas' = c /\ named' = named \cup {[rev |-> c.rev, shown |-> Shown(s)]}

-----------------------------------------------------------------------------
(* apply_mutation: the states a request leads to, none when it is refused *)

\* validate_filter
FilterAccepted(f) == f.include \cap f.exclude = {}

\* validate_sources
SourcesAccepted(sources) ==
  /\ DOMAIN sources # {} /\ Cardinality(DOMAIN sources) <= MaxSources
  /\ \A p \in DOMAIN sources : FilterAccepted(sources[p])

CustomPool(sources, selection, enabled) ==
  [kind |-> "custom", sources |-> sources, selection |-> selection, enabled |-> enabled]

PoolCreated(s, id, pool) ==
  IF Cardinality(DOMAIN s.pools) < MaxPools /\ SourcesAccepted(pool.sources)
     /\ id \notin DOMAIN s.pools
  THEN {[s EXCEPT !.pools = With(@, id, pool)]} ELSE {}

PoolUpdated(s, id, pool) ==
  IF SourcesAccepted(pool.sources) /\ id \in DOMAIN s.pools /\ s.pools[id].kind = "custom"
  THEN {[s EXCEPT !.pools = With(@, id, pool)]} ELSE {}

\* A pool the default target or a route names stays.
PoolDeleted(s, id) ==
  IF /\ id \in DOMAIN s.pools /\ s.pools[id].kind = "custom"
     /\ s.target # ToPool(id)
     /\ \A i \in DOMAIN s.routes : s.routes[i].target # ToPool(id)
  THEN {[s EXCEPT !.pools = Without(@, {id})]} ELSE {}

SelectionSet(s, id, node) ==
  IF id \in DOMAIN s.pools /\ s.pools[id].selection.kind = "manual"
  THEN {[s EXCEPT !.pools = With(@, id, [@[id] EXCEPT !.selection = Manual(node)])]} ELSE {}

TargetSet(s, target) == {[s EXCEPT !.target = target]}

\* normalize_priorities: the priority of a route is its place.
Normalised(routes) == [i \in DOMAIN routes |-> [routes[i] EXCEPT !.priority = i - 1]]

\* validate_matcher
MatcherAccepted(route) == route.values # {}

\* Mutant: the new route keeps the priority it was made with.
RouteCreated_NotNormalised(s, route, at) ==
  IF Len(s.routes) < MaxRoutes /\ at <= Len(s.routes) /\ MatcherAccepted(route)
     /\ \A i \in DOMAIN s.routes : s.routes[i].id # route.id
  THEN {[s EXCEPT !.routes = InsertAt(@, at + 1, route)]} ELSE {}

RouteCreated(s, route, at) ==
  IF Len(s.routes) < MaxRoutes /\ at <= Len(s.routes) /\ MatcherAccepted(route)
     /\ \A i \in DOMAIN s.routes : s.routes[i].id # route.id
  THEN {[s EXCEPT !.routes = Normalised(InsertAt(@, at + 1, route))]} ELSE {}

\* The route keeps its place and its priority.
RouteUpdated(s, route) ==
  {[s EXCEPT !.routes = [@ EXCEPT ![i] = [route EXCEPT !.priority = s.routes[i].priority]]] :
     i \in {j \in DOMAIN s.routes : s.routes[j].id = route.id /\ MatcherAccepted(route)}}

RouteDeleted(s, id) ==
  {[s EXCEPT !.routes = Normalised(RemoveAt(@, i))] :
     i \in {j \in DOMAIN s.routes : s.routes[j].id = id}}

\* The ids must be those of the routes, each once.
RoutesReordered(s, ids) ==
  IF Len(ids) = Len(s.routes) /\ IsInjective(ids)
     /\ Range(ids) \subseteq {s.routes[i].id : i \in DOMAIN s.routes}
  THEN {[s EXCEPT !.routes =
           Normalised([k \in DOMAIN ids |->
             s.routes[CHOOSE i \in DOMAIN s.routes : s.routes[i].id = ids[k]]])]}
  ELSE {}

-----------------------------------------------------------------------------
(* What a snapshot says of the runtime *)

InProgress == {"Queued", "Applying"}
Ended == {"Cancelled", "Failed"}

Desired(s) == [sub |-> s.active, gen |-> s.gen]

\* Of a failed operation, the state shown and the failure.
FailureShown(error) ==
  CASE error \in {"configurationFailed", "saveFailed"} -> <<run.life, "configurationFailed">>
    [] error = "stopFailed"       -> <<"RecoveryRequired", "stopFailed">>
    [] error = "startFailed"      -> <<"Stopped", "startFailed">>
    [] error = "recoveryRequired" -> <<"RecoveryRequired", "recoveryRequired">>
    [] OTHER                      -> <<run.life, "stateChanged">>

\* canonical_runtime_apply_state: runtime state, apply state, operation, failure.
\* The time-out that is shown as unknown comes from document saves only.
ApplyState(s) ==
  LET mine    == tuple = Desired(s)
      told    == terminal # None
      pending == <<run.life, "savedPendingApply", None, None>>
      failed  == FailureShown(switch.error)
  IN IF told /\ terminal.goal = Desired(s)
     THEN <<run.life, "savedApplyFailed", terminal.op, terminal.failure>>
     ELSE IF told /\ switch.op = terminal.op THEN pending
     ELSE IF switch.status \in InProgress \cup Ended /\ ~mine THEN pending
     ELSE IF switch.status \in InProgress THEN <<"Transitioning", "applying", switch.op, None>>
     ELSE IF switch.status \in Ended THEN <<failed[1], "savedApplyFailed", switch.op, failed[2]>>
     ELSE IF run.life = "Ready" /\ run.applied = Desired(s) THEN <<"Ready", "applied", None, None>>
     ELSE pending

\* selectors
SelectorState(s, id) ==
  LET desired == s.pools[id].selection.node
  IN IF ApplyState(s)[1] # "Ready" THEN "savedOnly"
     ELSE IF id \notin DOMAIN readBack THEN "unknown"
     ELSE IF desired = None THEN "savedOnly"
     ELSE IF readBack[id] = desired THEN "inSync" ELSE "notApplied"

-----------------------------------------------------------------------------
(* Init *)

Sub == [remote |-> TRUE, url |-> "u", validators |-> None,
        policy |-> [auto |-> FALSE, interval |-> None], doc |-> None]
Draft(c) == [conn |-> c, label |-> CHOOSE l \in Labels : TRUE]
Route(r, enabled, target) ==
  [id |-> r, enabled |-> enabled, priority |-> 0, values |-> {"v"}, target |-> target]

NoSwitch == [op |-> None, status |-> None, error |-> None]
Down(life) == [life |-> life, applied |-> None]

\* Each state of ss, with the generation an edit raises, if it can be saved.
Grown(ss) == {n \in UNION {Bumped(s) : s \in ss} : Valid(n)}

\* A state.json that earlier sessions left: two subscriptions, one of them
\* selected, and perhaps a custom pool, on the other one or on it with two routes.
Imports(ss) == UNION {Imported(s, x, Sub, {Draft(c) : c \in Conns}) : s \in ss, x \in Subs}
Selections == {n \in UNION {Selected(s, x) : s \in Imports(Imports({Empty})), x \in Subs} : Valid(n)}
OnePool(x) == CustomPool(With(NoFn, x, AnyNode), Manual(None), TRUE)
Pooled == Grown(UNION {PoolCreated(s, p, OnePool(x)) : s \in Selections, p \in PoolIds, x \in Subs})
OwnPool(s) == \E p \in PoolIds : DOMAIN s.pools[p].sources = OwnProviders(s)
First == CHOOSE r \in RouteIds : TRUE
Second == CHOOSE r \in RouteIds : r # First
Routed(ss, r, t) == Grown(UNION {RouteCreated(s, Route(r, TRUE, t), 0) : s \in ss})

Earlier ==
  Selections \cup {s \in Pooled : ~OwnPool(s)}
  \cup UNION {Routed(Routed({s \in Pooled : OwnPool(s)}, First, Direct), Second, ToPool(p)) : p \in PoolIds}

Init ==
  /\ st \in Earlier
  /\ cas = [rev |-> 1, mat |-> CasMaterial(st)]            \* the page has been opened
  /\ named = {[rev |-> 1, shown |-> Shown(st)]}
  /\ tuple = None
  /\ terminal = None
  /\ switch = NoSwitch
  /\ run = Down("Stopped")
  /\ art = None
  /\ core = NoFn
  /\ readBack = NoFn
  /\ act = None
  /\ late = None
  /\ ops = 0
  /\ writes = [page |-> 0, others |-> 0]
  /\ call = None

-----------------------------------------------------------------------------
(* Queries and mutations, up to the release of the gate *)

\* snapshot, for a query of the page; also what a refused request leaves.
Query ==
  /\ \E c \in Observed(st) : Told(c, st)
  /\ UNCHANGED <<st, writes, tuple, runVars, call>>

\* A request of the page is for the revision of some snapshot.
Current(c) == \E n \in named : n.rev = c.rev

NewCall == [phase |-> "done", pool |-> None, node |-> None, result |-> None, shown |-> None,
            goal |-> None]

\* Mutant: no edit raises the generation.
Raised_Never(manual, s) == {s}

\* A hot switch is no change of the configuration.
Raised(manual, s) == BumpedIf(~manual, s)

Write(s) ==
  /\ writes.others < MaxWrites /\ writes' = [writes EXCEPT !.others = @ + 1]
  /\ st' = s
WriteEdit(s) ==
  /\ writes.page < MaxEdits /\ writes' = [writes EXCEPT !.page = @ + 1]
  /\ st' = s

\* Nothing to do, or saved.  `after` is what is left to do for an accepted request.
\* One that is refused, for its revision, its content or a save that fails, has the
\* state observed and is over: the step Query.
Mutate(nexts, manual, after) ==
  /\ call = None
  /\ \/ \E c \in Observed(st) : \E n \in nexts :
          /\ Current(c) /\ CasMaterial(n) = c.mat
          /\ Told(c, n)
          /\ call' = after
          /\ UNCHANGED <<st, writes, tuple>>
     \/ \E c \in Observed(st) : \E n \in nexts : \E s \in Raised(manual, n) :
          /\ Current(c) /\ CasMaterial(n) # c.mat
          /\ c.rev < MaxRevision
          /\ Valid(s)
          /\ WriteEdit(s)
          /\ Told([rev |-> c.rev + 1, mat |-> CasMaterial(s)], s)
          /\ tuple' = IF manual THEN tuple ELSE None
          /\ call' = after
  /\ UNCHANGED runVars

Edit(nexts) == Mutate(nexts, FALSE, None)

\* The pools and routes a page can put together from what it shows.
Pools ==
  LET Whole(ps) == [p \in ps |-> AnyNode]
      all == DOMAIN st.providers
  IN {CustomPool(Whole({p}), Manual(None), TRUE) : p \in all}
     \cup {CustomPool(Whole(all), UrlTest, TRUE), CustomPool(Whole(all), Manual(None), FALSE)}
     \cup {CustomPool(With(NoFn, n.provider, [AnyNode EXCEPT !.include = {NodeId(n)}]),
                      Manual(None), TRUE) : n \in NodesOf(st, st.active)}
Routes == {Route(r, TRUE, ToPool(id)) : r \in RouteIds, id \in PoolIds}
          \cup {Route(r, FALSE, Direct) : r \in RouteIds}
Targets == {Follow} \cup {ToPool(id) : id \in PoolIds}

CreateCustomPool == \E id \in PoolIds, pool \in Pools : Edit(PoolCreated(st, id, pool))
UpdateCustomPool == \E id \in PoolIds, pool \in Pools : Edit(PoolUpdated(st, id, pool))
DeleteCustomPool == \E id \in PoolIds : Edit(PoolDeleted(st, id))
SetDefaultTarget == \E t \in Targets : Edit(TargetSet(st, t))
CreateRoute == \E r \in Routes, at \in 0..MaxRoutes : Edit(RouteCreated(st, r, at))
UpdateRoute == \E r \in Routes : Edit(RouteUpdated(st, r))
DeleteRoute == \E r \in RouteIds : Edit(RouteDeleted(st, r))
ReorderRoutes == \E ids \in TupleOf(RouteIds, Len(st.routes)) : Edit(RoutesReordered(st, ids))

SetManualSelection ==
  \E id \in DOMAIN st.pools \cap ({ImplicitPool(st.active)} \cup PoolIds) :
    \E n \in Members(st, st.pools[id]) : Mutate(SelectionSet(st, id, n), TRUE,
           [NewCall EXCEPT !.phase = "saved", !.pool = id, !.node = n])

-----------------------------------------------------------------------------
(* A hot switch: reconcile_manual_selection, then settle_manual_outcome *)

\* The applied artifact, which the index is made from, has the pool and the node.
InIndex(id, node) == id \in DOMAIN art.pools /\ node \in art.pools[id].members

Reconciled(result) == call' = [call EXCEPT !.phase = "settle", !.result = result]

\* Nothing is sent: a guard is taken, the core is not ready, or it does not know
\* the pool or the node.
ReconcileSkipped ==
  /\ call # None /\ call.phase = "saved"
  /\ Reconciled("savedOnly")
  /\ UNCHANGED <<st, writes, revVars, tuple, runVars>>

\* Mutant: what is selected is recorded, not what the core answered.
ReadBack_Requested(id, answer) ==
  With(readBack, id, IF id \in DOMAIN st.pools THEN st.pools[id].selection.node ELSE answer)

\* classify_selector_read_back, and the removal when there is no answer.
ReadBack(id, answer) ==
  IF answer = None THEN Without(readBack, {id}) ELSE With(readBack, id, answer)

\* The core has a selector for the pool, not a group that tests.
Selects(id) == art.pools[id].selection.kind = "manual"

\* The members the pool may use once the node has been written, or not.  Without
\* a selection the core took one of its own; a group that tests moves by itself.
Uses(id, node, written) ==
  IF written /\ Selects(id) THEN {node}
  ELSE IF core[id] = None THEN art.pools[id].members ELSE {core[id]}

\* The runtime guard: nothing else may start, stop, replace or switch the core.
RuntimeFree == act = None /\ late = None

\* The core now uses this member, and that or nothing was read back.
SwitchSeen(id, now, answer) ==
  /\ core' = IF Selects(id) THEN [core EXCEPT ![id] = now] ELSE core
  /\ readBack' = ReadBack(id, answer)

\* PUT, which may be lost and which only a selector takes, then GET, which may fail.
Reconcile ==
  /\ call # None /\ call.phase = "saved"
  /\ RuntimeFree /\ run.life = "Ready" /\ InIndex(call.pool, call.node)
  /\ \E written \in BOOLEAN : \E now \in Uses(call.pool, call.node, written) :
       \E answer \in {now, None} :
          /\ SwitchSeen(call.pool, now, answer)
          /\ Reconciled(IF answer = None THEN "unknown"
                        ELSE IF answer = call.node THEN "applied" ELSE "notApplied")
  /\ UNCHANGED <<st, writes, revVars, tuple, terminal, switch, run, art, act, late, ops>>

\* The caller's wait ends first: it is told "unknown", and the request stays with the
\* worker and keeps the runtime guard.
ReconcileTimeout ==
  /\ call # None /\ call.phase = "saved"
  /\ RuntimeFree
  /\ Reconciled("unknown")
  /\ late' = [pool |-> call.pool, node |-> call.node]
  /\ UNCHANGED <<st, writes, revVars, tuple, terminal, switch, run, art, core, readBack, act, ops>>

\* The worker gets to it, and finds the core ready for it or not.
ReconcileLate ==
  /\ late # None /\ late' = None
  /\ \/ /\ run.life = "Ready" /\ InIndex(late.pool, late.node)
        /\ \E written \in BOOLEAN : \E now \in Uses(late.pool, late.node, written) :
             \E answer \in {now, None} : SwitchSeen(late.pool, now, answer)
     \/ UNCHANGED <<core, readBack>>
  /\ UNCHANGED <<st, writes, revVars, tuple, terminal, switch, run, art, act, ops, call>>

StillDesired(s) ==
  call.pool \in DOMAIN s.pools /\ s.pools[call.pool].selection = Manual(call.node)

\* Mutant: a selection that has been overtaken is reported as the core answered.
Outcome_Unchecked(s) == call.result

Outcome(s) == IF StillDesired(s) THEN call.result ELSE "superseded"

Finished(result, selection) ==
  call' = [NewCall EXCEPT !.phase = "done", !.result = result, !.shown = selection]

\* finish_manual_selection: against the latest state, or what was saved when the
\* gate is taken.
Settle ==
  /\ call # None /\ call.phase = "settle"
  /\ \/ \E c \in Observed(st) :
          /\ Told(c, st)
          /\ Finished(Outcome(st), IF call.pool \in DOMAIN st.pools
                                  THEN st.pools[call.pool].selection ELSE None)
     \/ /\ Finished(call.result, Manual(call.node))
        /\ UNCHANGED revVars
  /\ UNCHANGED <<st, writes, tuple, runVars>>

\* The answer reaches the page.
Return ==
  /\ call # None /\ call.phase = "done"
  /\ call' = None
  /\ UNCHANGED <<st, writes, revVars, tuple, runVars>>

-----------------------------------------------------------------------------
(* Applying the configuration *)

\* The gate is released before the apply starts; it is for what was read under it.
ApplyConfiguration ==
  /\ call = None /\ st.active # None
  /\ \E c \in Observed(st) :
       /\ Current(c)
       /\ Told(c, st)
       /\ call' = [NewCall EXCEPT !.phase = "apply", !.goal = Desired(st)]
       /\ tuple' = Desired(st)
  /\ UNCHANGED <<st, writes, runVars>>

NextOp == ops + 1

\* The error path of a routing apply: it is announced and ended at once.
PreflightFails(status, error, failure) ==
  /\ terminal' = [op |-> NextOp, goal |-> Desired(st), failure |-> failure]
  /\ switch' = [op |-> NextOp, status |-> status, error |-> error]
  /\ call' = None
  /\ UNCHANGED act

\* activate_with_expected_generation for apply_proxy_routing.
Preflight ==
  /\ call # None /\ call.phase = "apply"
  /\ ops < MaxOps /\ ops' = NextOp
  /\ \/ /\ call' = None                                       \* a guard is taken: Busy
        /\ UNCHANGED <<terminal, switch, act>>
     \/ /\ RuntimeFree
        /\ \/ /\ Desired(st) # call.goal
              /\ PreflightFails("Cancelled", "cancelled", "stateChanged")
           \/ /\ Desired(st) = call.goal /\ ~Projects(st)      \* what projects also compiles
              /\ PreflightFails("Failed", "configurationFailed", "configurationFailed")
           \/ /\ Desired(st) = call.goal /\ Projects(st)
              /\ terminal' = None
              /\ switch' = [op |-> NextOp, status |-> "Queued", error |-> None]
              /\ act' = [op |-> NextOp, phase |-> "queued", old |-> st, new |-> st]
              /\ call' = [call EXCEPT !.phase = "waiting"]
  /\ UNCHANGED <<st, writes, revVars, tuple, run, art, core, readBack, late>>

\* activate, from the page of subscriptions.
Activate(s, force) ==
  /\ RuntimeFree /\ ops < MaxOps /\ ops' = NextOp
  /\ \E new \in Selected(st, s) :
       /\ Projects(new)
       /\ ~force => ~(run.life = "Ready" /\ run.applied = Desired(new))
       /\ act' = [op |-> NextOp, phase |-> "queued", old |-> st, new |-> new]
  /\ UNCHANGED <<st, writes, revVars, tuple, terminal, switch, run, art, core, readBack, late,
                 call>>

\* The worker answers, or the caller gives up; either way the page gets a
\* snapshot of now, or an error.
Answer ==
  /\ call # None /\ call.phase = "waiting"
  /\ call' = None
  /\ \/ \E c \in Observed(st) : Told(c, st)
     \/ UNCHANGED revVars
  /\ UNCHANGED <<st, writes, tuple, runVars>>

-----------------------------------------------------------------------------
(* The worker on an activation *)

\* record_managed_failure
FailedIn(life) == IF life = "Ready" THEN run ELSE Down(life)

Fails(life, error) ==
  /\ act' = None
  /\ run' = FailedIn(life)
  /\ switch' = [op |-> act.op, status |-> "Failed", error |-> error]
  /\ IF life = "Ready" THEN UNCHANGED <<art, core, readBack>>
     ELSE IF life = "Stopped" THEN art' = None /\ core' = NoFn /\ readBack' = NoFn
     ELSE UNCHANGED <<art, core, readBack>>

Ends(status, error) ==
  /\ act' = None
  /\ switch' = [op |-> act.op, status |-> status, error |-> error]
  /\ UNCHANGED <<run, art, core, readBack>>

\* The candidate is checked, and then saved if the state is the one it was made
\* from.  What is shown is the same before and after the check.
WorkerPersists ==
  /\ act # None /\ act.phase = "queued"
  /\ \/ /\ st = act.old
        /\ IF act.new = st THEN UNCHANGED <<st, writes>> ELSE Write(act.new)
        /\ act' = [act EXCEPT !.phase = "persisted"]
        /\ switch' = [op |-> act.op, status |-> "Applying", error |-> None]
        /\ UNCHANGED <<run, art, core, readBack>>
     \/ /\ \/ run.life # "RecoveryRequired" /\ Fails(run.life, "configurationFailed")
           \/ Fails("RecoveryRequired", "recoveryRequired")
           \/ Ends("Cancelled", "cancelled")                   \* the caller gave up
           \/ st # act.old /\ Ends("Failed", "busy")
        /\ UNCHANGED <<st, writes>>
  /\ UNCHANGED <<revVars, tuple, terminal, late, ops, call>>

Chosen(p) == [id \in DOMAIN p.pools |-> p.pools[id].selection.node]

\* Mutant: values read back from the core that was replaced are kept.
Installed_KeepsReadBack(p) ==
  /\ art' = p
  /\ core' = Chosen(p)
  /\ UNCHANGED readBack

\* install_applied_routing_index.  A selector starts with its selection.
Installed(p) ==
  /\ art' = p
  /\ core' = Chosen(p)
  /\ readBack' = NoFn

BecomesReady(p) ==
  /\ run' = [life |-> "Ready", applied |-> [sub |-> p.sub, gen |-> p.gen]]
  /\ Installed(p)

WorkerCommits ==
  /\ act # None /\ act.phase = "persisted"
  /\ \/ /\ BecomesReady(Projection(act.new))
        /\ act' = None
        /\ switch' = [op |-> act.op, status |-> "Ready", error |-> None]
     \/ Fails("RecoveryRequired", "stopFailed")
     \/ Fails("Stopped", "startFailed")
     \/ Fails("RecoveryRequired", "recoveryRequired")
  /\ UNCHANGED <<st, writes, revVars, tuple, terminal, late, ops, call>>

-----------------------------------------------------------------------------
(* The rest of the application *)

ForgetReadySwitch == switch' = IF switch.status = "Ready" THEN NoSwitch ELSE switch

StartCore ==
  /\ RuntimeFree /\ run.life = "Stopped" /\ Projects(st)
  /\ BecomesReady(Projection(st))
  /\ switch' = NoSwitch
  /\ UNCHANGED <<st, writes, revVars, tuple, terminal, act, late, ops, call>>

StopCore ==
  /\ RuntimeFree /\ run.life # "Stopped"
  /\ run' = Down("Stopped") /\ switch' = NoSwitch
  /\ art' = None /\ core' = NoFn /\ readBack' = NoFn
  /\ UNCHANGED <<st, writes, revVars, tuple, terminal, act, late, ops, call>>

\* sample_runtime finds the core gone; the index and its read-backs stay.
CoreLost ==
  /\ act = None /\ run.life = "Ready"
  /\ run' \in {Down("Stopped"), Down("RecoveryRequired")}
  /\ ForgetReadySwitch
  /\ UNCHANGED <<st, writes, revVars, tuple, terminal, art, core, readBack, act, late, ops,
                 call>>

\* SubscriptionManager::update commits what it fetched; only the selected
\* subscription raises the generation.
UpdateSubscription(s, drafts) ==
  /\ act = None
  /\ \E n \in ReplaceProvider(st, s, drafts) : \E new \in BumpedIf(st.active = s, n) :
       n # st /\ Valid(new) /\ Write(new)
  /\ UNCHANGED <<revVars, tuple, runVars, call>>

\* The selected subscription stays as long as the core may run.
DeleteSubscription(s) ==
  /\ RuntimeFree
  /\ s \in DOMAIN st.subs
  /\ s = st.active => run.life = "Stopped"
  /\ \E new \in Deleted(st, s) : Valid(new) /\ Write(new)
  /\ UNCHANGED <<revVars, tuple, runVars, call>>

Batches == {{Draft(c) : c \in cs} : cs \in SUBSET Conns \ {{}}}

Environment ==
  \/ StartCore \/ StopCore \/ CoreLost
  \/ \E s \in Subs : (\E force \in BOOLEAN : Activate(s, force)) \/ DeleteSubscription(s)
  \/ \E s \in Subs, drafts \in Batches : UpdateSubscription(s, drafts)

Next ==
  \/ Query
  \/ CreateCustomPool \/ UpdateCustomPool \/ DeleteCustomPool
  \/ CreateRoute \/ UpdateRoute \/ DeleteRoute \/ ReorderRoutes
  \/ SetDefaultTarget \/ SetManualSelection \/ ApplyConfiguration
  \/ ReconcileSkipped \/ Reconcile \/ ReconcileTimeout \/ ReconcileLate
  \/ Settle \/ Return \/ Preflight \/ Answer
  \/ WorkerPersists \/ WorkerCommits
  \/ Environment

Spec == Init /\ [][Next]_vars

-----------------------------------------------------------------------------
(* Properties *)

\* What the service stores, remembers and tells.
TypeOK ==
  /\ Valid(st)
  /\ cas.rev \in 0..MaxRevision
  /\ run.life \in {"Stopped", "Ready", "RecoveryRequired"}
  /\ run.life = "Ready" <=> run.applied # None
  /\ DOMAIN readBack \subseteq DOMAIN core
  /\ ops \in 0..MaxOps

\* A revision names one state: two snapshots of one revision show the same, so an
\* edit is only ever saved onto what its page shows.  Subscriptions change the
\* state without the service (observe, mutate).
RevisionNamesState ==
  \A m, n \in named : m.rev = n.rev => m.shown = n.shown

\* The order routes are consulted in, by priority and then by id, is the order of
\* the list the page shows (normalize_priorities, project_selected_runtime).
Ordered(routes) == \A i, j \in DOMAIN routes : i < j => routes[i].priority < routes[j].priority
RoutesApplyInOrder == Ordered(st.routes)

\* The configuration without what a hot switch may change.
Structure(p) ==
  [p EXCEPT !.pools = [id \in DOMAIN p.pools |->
     [members |-> p.pools[id].members, kind |-> p.pools[id].selection.kind]]]

DrawsOnOthers(s) ==
  \E id \in PoolsInUse(s) : ~(DOMAIN s.pools[id].sources \subseteq OwnProviders(s))

\* A snapshot that says "applied" is about the configuration the core runs, as
\* long as no custom pool draws on a subscription that is not selected.
AppliedIsWhatRuns ==
  ApplyState(st)[2] = "applied" /\ ~DrawsOnOthers(st) => Structure(Projection(st)) = Structure(art)

\* The same without the exception.  An update of another subscription changes the
\* members of the pool and not the generation.
AppliedIsAlwaysWhatRuns ==
  ApplyState(st)[2] = "applied" => Structure(Projection(st)) = Structure(art)

\* A selector shown in sync has its node selected in the core, if the core has a
\* selector there: a group that tests moves by itself.
InSyncIsTrue ==
  \A id \in DOMAIN st.pools :
    /\ st.pools[id].selection.kind = "manual" /\ SelectorState(st, id) = "inSync"
    /\ Selects(id)
    => core[id] = st.pools[id].selection.node

\* What the service stores and what it keeps of the core fit: routes in the order they
\* are shown, read-backs only of selectors the core has, an identity only while it is
\* Ready, and "inSync" where it is in sync.
Consistent == TypeOK /\ RoutesApplyInOrder /\ InSyncIsTrue

\* "selectorApplied" agrees with the snapshot it comes with, and with the core as
\* long as that has the pool as a selector (settle_manual_outcome).
SelectorAppliedIsTrue ==
  [][/\ call # None /\ call' # None
     /\ call.phase = "settle" /\ call'.phase = "done" /\ call'.result = "applied"
     => LET id == call.pool
        IN /\ call'.shown = Manual(call.node)
           /\ run.life = "Ready" /\ id \in DOMAIN core /\ Selects(id)
              => core[id] = call.node]_vars

-----------------------------------------------------------------------------
(* The inductive invariant. *)

RouteRecords ==
  [id : RouteIds, enabled : BOOLEAN, priority : Nat, values : {{"v"}},
   target : {Direct} \cup {ToPool(id) : id \in PoolIds}]

\* What is saved, and what an activation means to save.
Shaped(s) ==
  /\ WellFormed(s)
  /\ s.routes \in Seq(RouteRecords) /\ Ordered(s.routes)
  /\ s.active \in Subs \cup {None}
Sound(s) == Shaped(s) /\ Valid(s)

\* No snapshot was ahead of the comparison, and the last one showed what it holds.
RevisionsKept ==
  /\ cas.rev \in 1..MaxRevision
  /\ \A n \in named : /\ n.rev \in 1..cas.rev
                      /\ n.rev = cas.rev => n.shown = cas.mat

\* A projection of s, or of a state before it: if the generation is still the same,
\* so is all that a hot switch leaves alone.
Made(p, s) ==
  /\ p.gen <= s.gen
  /\ p.sub = s.active /\ p.gen = s.gen /\ ~DrawsOnOthers(s)
     => Structure(Projection(s)) = Structure(p)

\* The core and what is remembered of it.
CoreKept ==
  /\ run.life = "Ready" =>
       /\ run.applied = [sub |-> art.sub, gen |-> art.gen]
       /\ art.sub \in Subs \cup {None} /\ art.gen \in 0..MaxGen
       /\ DOMAIN core = DOMAIN art.pools
       /\ Made(art, st)
  /\ \A id \in DOMAIN readBack : Selects(id) => core[id] = readBack[id]

\* The activation in hand is sound, and raises the generation if it changes anything.
ActKept ==
  act # None =>
    /\ DOMAIN act = {"op", "phase", "old", "new"}
    /\ Sound(act.new) /\ act.new.pools = act.old.pools
    /\ (\A f \in Fields : act.new[f] = act.old[f]) \/ act.old.gen < act.new.gen
    /\ act.phase = "persisted" => Made(Projection(act.new), st)

\* A hot switch is of a node that is selected as long as its pool exists.
Picks(s) ==
  call.pool \in DOMAIN s.pools => s.pools[call.pool].selection = Manual(call.node)
CallKept ==
  call # None =>
    /\ DOMAIN call = {"phase", "pool", "node", "result", "shown", "goal"}
    /\ call.phase \in {"saved", "settle"} =>
         Picks(st) /\ \A s \in Subs \cup {None} : call.pool # RuntimePool(s)
    /\ call.phase = "settle" /\ call.result = "applied" =>
         /\ late = None
         /\ act # None => Picks(act.new)
         /\ run.life = "Ready" /\ call.pool \in DOMAIN core /\ Selects(call.pool)
            => core[call.pool] = call.node

IInv ==
  /\ TypeOK
  /\ Sound(st)
  /\ RevisionsKept
  /\ RevisionNamesState
  /\ CoreKept
  /\ ActKept
  /\ CallKept
=============================================================================
