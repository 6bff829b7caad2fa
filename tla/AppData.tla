------------------------------ MODULE AppData ------------------------------
(***************************************************************************)
(* AppState (domain/state.rs): what state.json holds, and the functions    *)
(* every writer shares: validate, resolve_pool_members, the replacement of *)
(* a provider's nodes (application/provider_replacement.rs, subscription/  *)
(* normalize.rs) and the projection of the selected subscription           *)
(* (application/selected_subscription.rs).                                 *)
(*                                                                         *)
(* Ids are model values.  Import makes a subscription, its provider and    *)
(* its implicit pool from one random suffix, so the three share a name     *)
(* here.  The id of a node is the hash of its provider and its connection, *)
(* so it is that pair; the label is the name and protocol filters look at. *)
(***************************************************************************)
EXTENDS Naturals, FiniteSets, Sequences

CONSTANTS
  None,         \* an absent value
  Labels,       \* what regions, protocols and keywords of a filter tell apart
  MaxGen        \* largest configuration generation, 2^53 - 1 in the code

ASSUME MaxGenAssumption == MaxGen \in Nat

-----------------------------------------------------------------------------
(* Functions with a changing domain *)

With(f, k, v) == [x \in DOMAIN f \cup {k} |-> IF x = k THEN v ELSE f[x]]
Without(f, K) == [x \in DOMAIN f \ K |-> f[x]]
NoFn == [x \in {} |-> None]

-----------------------------------------------------------------------------
(* Values *)

\* RouteTarget.
Follow == <<"follow">>
Direct == <<"direct">>
Block  == <<"block">>
ToPool(id) == <<"pool", id>>

\* The pools that are named after a subscription: the one Import makes, and the
\* one that exists in a projection only.
ImplicitPool(x) == <<"implicit", x>>
RuntimePool(s)  == <<"runtime", s>>

\* AppState::empty
Empty ==
  [target |-> Follow, active |-> None, gen |-> 0, subs |-> NoFn, providers |-> NoFn,
   nodes |-> {}, pools |-> NoFn, routes |-> <<>>]

NodeId(n) == <<n.provider, n.conn>>
NodesOf(st, p) == {n \in st.nodes : n.provider = p}
ProvidersOf(st, s) == {p \in DOMAIN st.providers : st.providers[p] = s}

AnyNode == [labels |-> Labels, include |-> {}, exclude |-> {}]
Manual(node) == [kind |-> "manual", node |-> node]
UrlTest == [kind |-> "urlTest", node |-> None]

-----------------------------------------------------------------------------
(* NodeFilter *)

\* Regions, protocols and keywords together let some labels through.
Matches(f, n) ==
  /\ n.label \in f.labels
  /\ f.include = {} \/ NodeId(n) \in f.include
  /\ NodeId(n) \notin f.exclude

\* Every node a filter names exists and is of its provider.
FilterValid(f, p, nodes) ==
  /\ \A id \in f.include \cup f.exclude : \E n \in nodes : NodeId(n) = id /\ n.provider = p
  /\ f.include \cap f.exclude = {}

\* resolve_pool_members for some of the sources.
MembersFrom(st, sources) ==
  {NodeId(n) : n \in {m \in st.nodes : m.provider \in DOMAIN sources
                                       /\ Matches(sources[m.provider], m)}}
Members(st, pool) == MembersFrom(st, pool.sources)

-----------------------------------------------------------------------------
(* validate *)

\* SubscriptionUpdatePolicy: a day is the shortest interval, and is the unit here.
PolicyValid(policy) == policy.interval # None => policy.interval >= 1

\* Subscription::validate.  A manual subscription has nothing remote about it.
SubscriptionValid(s) ==
  IF s.remote THEN s.url # None /\ PolicyValid(s.policy)
  ELSE /\ s.url = None /\ s.validators = None
       /\ s.policy = [auto |-> FALSE, interval |-> None]
       /\ s.doc # None => ~s.doc.override

TargetValid(t, pools) == t \in {Follow, Direct, Block} \/ \E id \in pools : t = ToPool(id)

PoolValid(st, pool) ==
  /\ DOMAIN pool.sources # {}
  /\ \A p \in DOMAIN pool.sources :
       p \in DOMAIN st.providers /\ FilterValid(pool.sources[p], p, st.nodes)
  /\ pool.selection.node # None => pool.selection.node \in Members(st, pool)

RoutesValid(st) ==
  /\ \A i, j \in DOMAIN st.routes : st.routes[i].id = st.routes[j].id => i = j
  /\ \A i \in DOMAIN st.routes :
       st.routes[i].values # {} /\ TargetValid(st.routes[i].target, DOMAIN st.pools)

\* AppState::validate, as every writer calls it before it saves.
Valid(st) ==
  /\ \A m, n \in st.nodes : NodeId(m) = NodeId(n) => m = n
  /\ TargetValid(st.target, DOMAIN st.pools)
  /\ st.gen <= MaxGen
  /\ st.active \in DOMAIN st.subs \cup {None}
  /\ \A s \in DOMAIN st.subs : SubscriptionValid(st.subs[s])
  /\ \A p \in DOMAIN st.providers : st.providers[p] \in DOMAIN st.subs
  /\ \A n \in st.nodes : n.provider \in DOMAIN st.providers
  /\ \A id \in DOMAIN st.pools : PoolValid(st, st.pools[id])
  /\ RoutesValid(st)

-----------------------------------------------------------------------------
(* Writers.  Each operator gives the states a request may lead to: none when it *)
(* is refused.  The caller validates and saves.                                *)

\* next_generation
Bumped(st) == IF st.gen < MaxGen THEN {[st EXCEPT !.gen = @ + 1]} ELSE {}
BumpedIf(cond, st) == IF cond THEN Bumped(st) ELSE {st}

\* deduplicate_parsed_nodes: of the drafts with one connection the first stays.
Deduplicated(drafts) ==
  {drafts[i] : i \in {j \in DOMAIN drafts :
                        \A k \in 1..(j - 1) : drafts[k].conn # drafts[j].conn}}

\* normalize_nodes: the id follows from the provider and the connection.
Normalized(p, drafts) == {[provider |-> p, conn |-> d.conn, label |-> d.label] : d \in drafts}

Replaced(st, p, nodes) == [st EXCEPT !.nodes = (@ \ NodesOf(st, p)) \cup nodes]

\* apply_provider_replacement: a batch without nodes is rejected, and so is one
\* that leaves a dangling reference.
ReplaceProvider(st, p, drafts) ==
  LET next == Replaced(st, p, Normalized(p, drafts))
  IN IF drafts # {} /\ p \in DOMAIN st.providers /\ Valid(next) THEN {next} ELSE {}

\* commit_import: subscription, provider and implicit pool x, then its nodes.
Imported(st, x, sub, drafts) ==
  LET named == [st EXCEPT
        !.subs = With(@, x, sub),
        !.providers = With(@, x, x),
        !.pools = With(@, ImplicitPool(x),
                       [kind |-> "implicit", sources |-> With(NoFn, x, AnyNode),
                        selection |-> Manual(None), enabled |-> TRUE])]
      taken == x \in DOMAIN st.subs \/ x \in DOMAIN st.providers
               \/ ImplicitPool(x) \in DOMAIN st.pools
  IN IF taken THEN {} ELSE ReplaceProvider(named, x, drafts)

\* The implicit pools that draw on the providers ps only.
OwnedPools(st, ps) ==
  {id \in DOMAIN st.pools : st.pools[id].kind = "implicit" /\ DOMAIN st.pools[id].sources \subseteq ps}

\* Another pool, a route or the default target still needs what would go.
StillReferenced(st, ps) ==
  LET owned == OwnedPools(st, ps)
  IN \/ \E id \in DOMAIN st.pools \ owned : DOMAIN st.pools[id].sources \cap ps # {}
     \/ \E i \in DOMAIN st.routes, id \in owned : st.routes[i].target = ToPool(id)
     \/ \E id \in owned : st.target = ToPool(id)

\* SubscriptionManager::delete
Deleted(st, s) ==
  LET ps == ProvidersOf(st, s)
      gone == [st EXCEPT !.nodes = {n \in @ : n.provider \notin ps},
                         !.pools = Without(@, OwnedPools(st, ps)),
                         !.providers = Without(@, ps),
                         !.subs = Without(@, {s}),
                         !.active = IF @ = s THEN None ELSE @]
  IN IF ps = {} \/ StillReferenced(st, ps) THEN {} ELSE BumpedIf(st.active = s, gone)

\* activate_with_expected_generation: another selection raises the generation.
Selected(st, s) ==
  IF s \notin DOMAIN st.subs THEN {} ELSE BumpedIf(st.active # s, [st EXCEPT !.active = s])

-----------------------------------------------------------------------------
(* project_selected_runtime *)

OwnProviders(st) == ProvidersOf(st, st.active)
OwnNodes(st) == {NodeId(n) : n \in {m \in st.nodes : m.provider \in OwnProviders(st)}}

\* An implicit pool keeps the sources of the selected subscription; one without
\* any, and a disabled pool, is left out.
SourcesInUse(st, pool) ==
  IF pool.kind = "custom" THEN pool.sources
  ELSE Without(pool.sources, DOMAIN pool.sources \ OwnProviders(st))
PoolsInUse(st) ==
  {id \in DOMAIN st.pools : st.pools[id].enabled /\ DOMAIN SourcesInUse(st, st.pools[id]) # {}}
MembersInUse(st, id) == MembersFrom(st, SourcesInUse(st, st.pools[id]))

ProjectedPools(st) ==
  With([id \in PoolsInUse(st) |-> [members   |-> MembersInUse(st, id),
                                   selection |-> st.pools[id].selection]],
       RuntimePool(st.active), [members |-> OwnNodes(st), selection |-> Manual(None)])

\* Enabled routes only, in the order of their priorities.
ProjectedRoutes(st) == {st.routes[i] : i \in {j \in DOMAIN st.routes : st.routes[j].enabled}}

\* The default of a projection is never Follow.
ProjectedTarget(st) == IF st.target = Follow THEN ToPool(RuntimePool(st.active)) ELSE st.target

Projection(st) ==
  [sub    |-> st.active,
   gen    |-> st.gen,
   nodes  |-> OwnNodes(st) \cup UNION {MembersInUse(st, id) : id \in PoolsInUse(st)},
   pools  |-> ProjectedPools(st),
   routes |-> ProjectedRoutes(st),
   target |-> ProjectedTarget(st)]

\* SelectionConflict: a pool in use without members or with a selection outside
\* of them, or a route or default to a pool that is not in use.
Conflicting(st) ==
  \/ \E id \in PoolsInUse(st) :
       \/ MembersInUse(st, id) = {}
       \/ /\ st.pools[id].selection.node # None
          /\ st.pools[id].selection.node \notin MembersInUse(st, id)
  \/ \E r \in ProjectedRoutes(st) : ~TargetValid(r.target, DOMAIN ProjectedPools(st))
  \/ ~TargetValid(ProjectedTarget(st), DOMAIN ProjectedPools(st))

Projects(st) ==
  /\ st.active # None
  /\ Valid(st)
  /\ OwnNodes(st) # {}
  /\ ~Conflicting(st)

-----------------------------------------------------------------------------
(* What serde and the writers make sure of without validate. *)

Fields == {"target", "active", "gen", "subs", "providers", "nodes", "pools", "routes"}

PoolFormed(pool) ==
  /\ DOMAIN pool = {"kind", "sources", "selection", "enabled"}
  /\ DOMAIN pool.selection = {"kind", "node"}

\* A state has all its fields, a pool too, and a provider is of the subscription it
\* was imported with.
WellFormed(st) ==
  /\ DOMAIN st = Fields
  /\ st.gen \in Nat
  /\ \A id \in DOMAIN st.pools : PoolFormed(st.pools[id])
  /\ \A p \in DOMAIN st.providers : st.providers[p] = p
=============================================================================
